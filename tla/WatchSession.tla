---------------------------- MODULE WatchSession ----------------------------
(* `watch`: one command that keeps the workspace lock and repeats a build    *)
(* over file system events (rust/src/watch.rs), with what it keeps between   *)
(* attempts: the channel of events, the resolved configuration, the worker   *)
(* pool (rust/src/worker/pool.rs) and the committed graph with the stamp of  *)
(* its file (rust/src/watch/graph.rs).  Beside it run the user, who edits at *)
(* any moment, and whatever else replaces the graph file or stops a worker.  *)
(* The build itself is `Scan`, `NoWork`, `Initialize`, `Dispatch` and the    *)
(* commit: what it reads, which processes it uses, and that it may fail.     *)
EXTENDS Integers, Sequences, SequencesExt, FiniteSets

CONSTANTS
    Sessions,   \* sessions looked at: packages whose builders run, in order, and options
    Jobs,       \* max_jobs
    MaxEdits,   \* bound: what the user does to the tree
    MaxFaults,  \* bound: processes that die or do not start, failed publications
    None

ASSUME WatchAssumption ==
    /\ Sessions \subseteq [packages : Seq(STRING), retain : BOOLEAN, deferred : BOOLEAN]
    /\ \A s \in Sessions : s.packages # <<>>
    /\ Jobs \in Nat \ {0} /\ MaxEdits \in Nat /\ MaxFaults \in Nat

VARIABLES
    disk,     \* versions of source and configuration, output, graph, evidence
    queue,    \* the channel of file system events
    session,  \* the watch loop and the attempt it is in
    pool,     \* Option<WorkerPool>
    budget    \* edits and faults so far

vars == <<disk, queue, session, pool, budget>>

----------------------------------------------------------------------------
(* Kinds of event and their classification.                                  *)

\* A source, a configuration file, package_config.json, a generated source
\* output that was removed, or written back, a source output of a post-process
\* builder that was written.
Kinds == {"source", "config", "package", "removed", "written", "post"}

\* Our own generated writes are ignored; outputs of post-process builders match
\* no suffix and are known from the committed graph only.
IsGeneratedOutput(event) == event = "written" \/ (event = "post" /\ session.known)
IsRelevantEvent(event) == ~IsGeneratedOutput(event)
IsConfigurationEvent(event) == event = "config"

Notified(events) == IF session.subscribed THEN queue \o events ELSE queue

----------------------------------------------------------------------------
(* The pool.  A process remembers the signature it was initialized with and  *)
(* whether a build has used it since it was last cleared.                    *)

Started == [signature |-> None, used |-> FALSE, alive |-> TRUE]
Cleared(signature) == [signature |-> signature, used |-> FALSE, alive |-> TRUE]

\* The Dart runtime ignores a reset before its first initialization.
Reset(worker) == [worker EXCEPT !.used = FALSE]

NewPool(workers) == [workers |-> workers, initialized |-> None, count |-> 0]

\* initialize_pending_workers, and where it stops when a process fails: every
\* earlier one is initialized and the count is not advanced.
InitializePending(p, signature) ==
    [p EXCEPT !.workers = [i \in DOMAIN @ |-> IF i > p.count THEN Cleared(signature) ELSE @[i]],
              !.count = Len(p.workers)]
PendingFails(p, signature, at) ==
    [p EXCEPT !.workers = [i \in DOMAIN @ |->
                             IF i > p.count /\ i < at THEN Cleared(signature) ELSE @[i]]]

\* An empty pool gets one process before anything else.
Materialize(p) == IF p.workers = <<>> THEN [p EXCEPT !.workers = <<Started>>] ELSE p

\* Mutant of Resettable: the last initialized process keeps its state.
ResettableButLast(p) == 1..((IF p.count < Len(p.workers) THEN p.count ELSE Len(p.workers)) - 1)
Resettable(p) == 1..(IF p.count < Len(p.workers) THEN p.count ELSE Len(p.workers))
ResetUpTo(p, last) ==
    [p EXCEPT !.workers = [i \in DOMAIN @ |->
                             IF i \in Resettable(p) /\ i <= last THEN Reset(@[i]) ELSE @[i]]]

\* restart_workers keeps the width of the pool.
Restart(p) == [p EXCEPT !.workers = [i \in DOMAIN @ |-> Started], !.count = 0]

\* All workers are retired before the first is started, and nothing else is
\* changed when a start fails.
RestartFails(p) == [p EXCEPT !.workers = <<>>]

\* A signature differs: restart what was initialized, then initialize them all.
Renewed(p) == IF p.initialized # None THEN Restart(p) ELSE [p EXCEPT !.count = 0]

Initialized(p, signature) ==
    IF p.initialized = signature
    THEN InitializePending(ResetUpTo(p, Len(p.workers)), signature)
    ELSE [InitializePending(Renewed(p), signature) EXCEPT !.initialized = signature]

\* prepare_for_requests: never shrinks.
Expand(p, requests) ==
    LET target == IF requests < Jobs THEN requests ELSE Jobs
    IN  [p EXCEPT !.workers = @ \o [i \in 1..(target - Len(@)) |-> Started]]

----------------------------------------------------------------------------
\* What the graph says was built: the source, the plan, and the bytes of the
\* configuration, the last two together being its config_digest.
Version == 0..MaxEdits + 1
Graph == [src : Version, plan : Version, config : Version]
NoGraph == [src |-> 0, plan |-> 0, config |-> 0]
Signatures == [package : UNION {Range(s.packages) : s \in Sessions}, plan : Version, config : Version]
Worker == [signature : Signatures \union {None}, used : BOOLEAN, alive : BOOLEAN]
Pool == [workers : Seq(Worker), initialized : Signatures \union {None}, count : Nat]
Undo == [graph : Graph, output : BOOLEAN]
Steps == {"load", "configure", "subscribe", "start", "scan", "initialize", "prepare", "dispatch",
          "commit", "publish", "classify", "wait", "debounce", "exited"}

ASSUME NoneAssumption ==
    None \notin Nat /\ None \notin Graph /\ None \notin Signatures /\ None \notin Pool /\ None \notin Undo

\* The versions on disk are 1 at first, and an earlier command may have stopped
\* while it published.  A session with an unusual spelling of its configuration
\* name keeps the resolved plan (`retain`), and one with build filters starts its
\* first process on demand (`deferred`).
Init ==
    /\ \E interrupted \in BOOLEAN :
         disk = [src |-> 1, config |-> 1, announced |-> 0, broken |-> FALSE,
                 output |-> interrupted, graph |-> NoGraph, stamped |-> FALSE,
                 undo |-> IF interrupted THEN [graph |-> NoGraph, output |-> FALSE] ELSE None]
    /\ queue = <<>>
    /\ \E options \in Sessions :
         session =
             [packages |-> options.packages, retain |-> options.retain,
              deferred |-> options.deferred,
              pc |-> "load", initial |-> TRUE, subscribed |-> FALSE, cached |-> None,
              signature |-> None, resident |-> None, working |-> NoGraph, changed |-> FALSE,
              succeeded |-> FALSE, ok |-> FALSE, known |-> FALSE, preflight |-> None,
              seen |-> NoGraph, at |-> 1]
    /\ pool = None
    /\ budget = [edits |-> 0, faults |-> 0, unanswered |-> FALSE]

Fault == budget.faults < MaxFaults /\ budget' = [budget EXCEPT !.faults = @ + 1]

Go(step) == session' = [session EXCEPT !.pc = step]

\* An attempt that fails drops the graph it owned; `run` prints the error and
\* goes on.
Ended == [session EXCEPT !.pc = "classify", !.working = NoGraph, !.preflight = None, !.at = 1]
Failed == [Ended EXCEPT !.ok = FALSE]
Attempt(step) == session.pc = step

----------------------------------------------------------------------------
(* run_watch_build                                                           *)

\* Workspace::load reads package_config.json.
LoadWorkspace ==
    /\ Attempt("load")
    /\ budget' = [budget EXCEPT !.unanswered = FALSE]
    /\ session' = IF disk.broken THEN Failed ELSE [session EXCEPT !.pc = "configure", !.working = None]
    /\ UNCHANGED <<disk, queue, pool>>

\* What recover does to an interrupted publication: the old graph and the old
\* outputs are written back, which is seen as events.
RolledBack == [disk EXCEPT !.graph = disk.undo.graph, !.output = disk.undo.output,
                           !.stamped = FALSE, !.undo = None]
RollbackEvents == IF disk.undo.output THEN <<"written">> ELSE <<"removed">>

\* Mutant of Stamped: a resident graph is always good.
StampedAlways == session.resident # None
\* The resident graph is reused for the file it was published with.  No two
\* files share a stamp, so `disk.stamped` says that the file is still the one.
Stamped == session.resident # None /\ disk.stamped

TakeForBuild ==
    /\ Attempt("configure") /\ session.working = None
    /\ IF disk.undo # None
       THEN /\ disk' = RolledBack /\ queue' = Notified(RollbackEvents)
            /\ session' = [session EXCEPT !.resident = None, !.working = RolledBack.graph]
       ELSE /\ session' = [session EXCEPT !.resident = None,
                !.working = IF Stamped THEN session.resident ELSE disk.graph]
            /\ UNCHANGED <<disk, queue>>
    /\ UNCHANGED <<pool, budget>>

RecoverFails ==
    /\ disk.undo # None /\ Fault
    /\ \/ /\ Attempt("configure") /\ session.working = None
          /\ session' = [Failed EXCEPT !.resident = None]
       \/ Attempt("classify") /\ Go("exited")
    /\ UNCHANGED <<disk, queue, pool>>

Reuse == session.retain /\ ~session.changed /\ session.cached # None /\ ~session.initial

\* An edited configuration may resolve to the manifest there was.
ManifestSignatures(plan) ==
    IF session.cached = plan THEN {session.signature} ELSE {plan, session.signature} \ {None}

\* What a preflight of the sources saw, taken before the workers are started.
Preflight == disk.src

\* The plan in use, the signature of the manifest it came from, and the sources
\* a preflight saw.  A pool started for another manifest is dropped.
Configure ==
    /\ Attempt("configure") /\ session.working # None
    /\ LET plan == IF Reuse THEN session.cached ELSE disk.config
       IN  \E signature \in ManifestSignatures(plan) :
             /\ session' = [session EXCEPT !.pc = "subscribe", !.cached = plan,
                               !.signature = signature, !.preflight = Preflight]
             /\ pool' = IF session.signature = signature THEN pool ELSE None
    /\ UNCHANGED <<disk, queue, budget>>

\* Unsupported or unreadable configuration ends the session.
Unsupported ==
    /\ Attempt("configure") /\ session.working # None /\ ~Reuse
    /\ session.cached # None /\ session.cached # disk.config
    /\ Go("exited") /\ pool' = None /\ UNCHANGED <<disk, queue, budget>>

\* Mutant of Subscribed: every attempt opens a new channel.
SubscribedAgain(s) == <<>>
\* WatchEvents::start subscribes once.
Subscribed(s) == IF s.subscribed THEN queue ELSE <<>>
Subscribe ==
    /\ Attempt("subscribe")
    /\ session' = [session EXCEPT !.pc = "start", !.subscribed = TRUE]
    /\ queue' = Subscribed(session)
    /\ UNCHANGED <<disk, pool, budget>>

StartPool ==
    /\ Attempt("start")
    /\ pool' = IF pool # None THEN pool
               ELSE NewPool(IF session.deferred THEN <<>> ELSE <<Started>>)
    /\ Go("scan") /\ UNCHANGED <<disk, queue, budget>>
StartFails ==
    /\ Attempt("start") /\ pool = None /\ ~session.deferred /\ Fault
    /\ session' = Failed /\ UNCHANGED <<disk, queue, pool>>

----------------------------------------------------------------------------
(* run_with_config_session                                                   *)

\* Mutant of Scanned: the preflight's sources are taken for the current ones.
ScannedByPreflight == [src |-> session.preflight, plan |-> session.cached, config |-> disk.config]
\* config_digest covers the bytes on disk beside the resolved configuration;
\* watch scans again whatever a preflight has seen.
Scanned == [src |-> disk.src, plan |-> session.cached, config |-> disk.config]
NoWork == session.working = Scanned /\ disk.output

\* With nothing to do the pool is not touched and the graph file stays as it is.
Scan ==
    /\ Attempt("scan")
    /\ session' = [session EXCEPT !.seen = Scanned, !.preflight = None,
                                  !.pc = IF NoWork THEN "publish" ELSE "initialize"]
    /\ UNCHANGED <<disk, queue, pool, budget>>

Signature == [package |-> session.packages[session.at], plan |-> session.cached,
              config |-> session.seen.config]

\* Processes that must answer a reset before the pool is initialized.
Answering(p) == \A i \in Resettable(p) : p.workers[i].alive

Initialize ==
    /\ Attempt("initialize")
    /\ LET p == Materialize(pool)
       IN  IF p.initialized = Signature /\ ~Answering(p)
           THEN LET first == CHOOSE i \in Resettable(p) :
                        ~p.workers[i].alive /\ \A j \in 1..(i - 1) : p.workers[j].alive
                IN  pool' = ResetUpTo(p, first - 1) /\ session' = Failed
           ELSE pool' = Initialized(p, Signature) /\ Go("prepare")
    /\ UNCHANGED <<disk, queue, budget>>

\* A process that does not start, or does not answer `initialize`.
InitializeFails ==
    /\ Attempt("initialize") /\ Fault
    /\ LET p == Materialize(pool)
           renewed == Renewed(p)
       IN  \/ pool.workers = <<>> /\ pool' = pool
           \/ p.initialized \notin {None, Signature} /\ pool' = RestartFails(p)
           \/ /\ p.initialized # Signature
              /\ \E at \in DOMAIN renewed.workers : pool' = PendingFails(renewed, Signature, at)
    /\ session' = Failed /\ UNCHANGED <<disk, queue>>

\* build_parallel widens the pool for its requests and initializes the rest.
Prepare ==
    /\ Attempt("prepare")
    /\ \E requests \in 1..Jobs : pool' = InitializePending(Expand(pool, requests), Signature)
    /\ Go("dispatch") /\ UNCHANGED <<disk, queue, budget>>
PrepareFails ==
    /\ Attempt("prepare") /\ Len(pool.workers) < Jobs /\ Fault
    /\ \E requests \in (Len(pool.workers) + 1)..Jobs :
         LET p == Expand(pool, requests)
         IN  \/ \E width \in Len(pool.workers)..(Len(p.workers) - 1) :
                  pool' = [p EXCEPT !.workers = SubSeq(@, 1, width)]
             \/ \E at \in (pool.count + 1)..Len(p.workers) : pool' = PendingFails(p, Signature, at)
    /\ session' = Failed /\ UNCHANGED <<disk, queue>>

\* Any of the workers get requests; a process that is gone or was never
\* initialized answers none.
Able(worker) == worker.alive /\ worker.signature # None
Dispatch ==
    /\ Attempt("dispatch")
    /\ \E sent \in SUBSET DOMAIN pool.workers :
         /\ sent # {}
         /\ IF \A i \in sent : Able(pool.workers[i])
            THEN session' = IF session.at < Len(session.packages)
                            THEN [session EXCEPT !.pc = "initialize", !.at = @ + 1]
                            ELSE [session EXCEPT !.pc = "commit"]
            ELSE session' = Failed
         /\ pool' = [pool EXCEPT !.workers = [i \in DOMAIN @ |->
                        IF i \in sent THEN [@[i] EXCEPT !.used = TRUE] ELSE @[i]]]
    /\ UNCHANGED <<disk, queue, budget>>

\* A builder reports an error.
BuilderFails ==
    /\ Attempt("dispatch") /\ Fault
    /\ pool' = [pool EXCEPT !.workers = [i \in DOMAIN @ |-> [@[i] EXCEPT !.used = TRUE]]]
    /\ session' = Failed /\ UNCHANGED <<disk, queue>>

\* Outputs and graph are published together (CommitRecovery).
Commit ==
    /\ Attempt("commit")
    /\ disk' = [disk EXCEPT !.output = TRUE, !.graph = session.seen, !.stamped = FALSE]
    /\ queue' = Notified(<<"post">>)
    /\ Go("publish") /\ UNCHANGED <<pool, budget>>

\* A publication that stops leaves evidence of what was there, with outputs
\* and perhaps the graph already changed.
CommitFails ==
    /\ Attempt("commit") /\ Fault
    /\ \E saved \in BOOLEAN :
         disk' = [disk EXCEPT !.output = TRUE,
                    !.undo = [graph |-> disk.graph, output |-> disk.output],
                    !.graph = IF saved THEN session.seen ELSE @,
                    !.stamped = FALSE]
    /\ queue' = Notified(<<"post">>)
    /\ session' = Failed /\ UNCHANGED pool

\* Only after success the working graph is resident again.
Publish ==
    /\ Attempt("publish")
    /\ session' = [Ended EXCEPT !.ok = TRUE, !.succeeded = TRUE, !.known = TRUE,
                      !.resident = session.seen]
    /\ disk' = [disk EXCEPT !.stamped = TRUE]
    /\ UNCHANGED <<queue, pool, budget>>

----------------------------------------------------------------------------
(* The loop of `run`                                                         *)

\* After the first attempt the workspace is loaded for the loop, and the
\* subscription made up for if that attempt did not get so far.
BeginLoop ==
    /\ Attempt("classify") /\ session.initial
    /\ session' = IF disk.broken THEN [session EXCEPT !.pc = "exited"]
                  ELSE [session EXCEPT !.initial = FALSE, !.subscribed = TRUE]
    /\ UNCHANGED <<disk, queue, pool, budget>>

\* for_events once a build has succeeded, else a mere recover.
Classify ==
    /\ Attempt("classify") /\ ~session.initial
    /\ LET graph == IF disk.undo # None THEN RolledBack.graph ELSE disk.graph
           kept == disk.undo = None /\ Stamped
       IN  session' = [session EXCEPT !.pc = "wait", !.resident =
               IF ~session.succeeded THEN None
               ELSE IF kept THEN @ ELSE graph]
    /\ disk' = [(IF disk.undo # None THEN RolledBack ELSE disk) EXCEPT !.stamped = session.succeeded]
    /\ queue' = IF disk.undo # None THEN Notified(RollbackEvents) ELSE queue
    /\ UNCHANGED <<pool, budget>>

\* Irrelevant events are dropped, the first relevant one opens the window.
Receive ==
    /\ Attempt("wait") /\ queue # <<>>
    /\ session' = IF IsRelevantEvent(Head(queue))
                  THEN [session EXCEPT !.pc = "debounce", !.changed = IsConfigurationEvent(Head(queue))]
                  ELSE session
    /\ queue' = Tail(queue) /\ UNCHANGED <<disk, pool, budget>>

\* Within the window events are coalesced into one attempt.
Coalesce ==
    /\ Attempt("debounce") /\ queue # <<>>
    /\ session' = [session EXCEPT !.changed =
          @ \/ (IsRelevantEvent(Head(queue)) /\ IsConfigurationEvent(Head(queue)))]
    /\ queue' = Tail(queue) /\ UNCHANGED <<disk, pool, budget>>

\* The window closes, quiet or at its deadline.
Expire == Attempt("debounce") /\ Go("load") /\ UNCHANGED <<disk, queue, pool, budget>>

----------------------------------------------------------------------------
(* The rest of the world                                                     *)

\* Between these steps nothing is read that a user edits.
Inside == {"start", "initialize", "prepare"}
Edited == /\ budget.edits < MaxEdits /\ session.pc \notin Inside \union {"exited"}
          /\ budget' = [budget EXCEPT !.edits = @ + 1, !.unanswered = @ \/ session.subscribed]

EditSource ==
    /\ Edited /\ disk' = [disk EXCEPT !.src = @ + 1] /\ queue' = Notified(<<"source">>)
    /\ UNCHANGED <<session, pool>>
EditConfiguration ==
    /\ Edited
    /\ disk' = [disk EXCEPT !.config = @ + 1,
                           !.announced = IF session.subscribed THEN disk.config + 1 ELSE @]
    /\ queue' = Notified(<<"config">>)
    /\ UNCHANGED <<session, pool>>
\* package_config.json is written in two steps, the first one leaving it
\* unreadable; the second is not an edit of its own.
BreakPackages ==
    /\ Edited /\ ~disk.broken
    /\ disk' = [disk EXCEPT !.broken = TRUE] /\ queue' = Notified(<<"package">>)
    /\ UNCHANGED <<session, pool>>
RepairPackages ==
    /\ disk.broken /\ session.pc \notin Inside \union {"exited"}
    /\ disk' = [disk EXCEPT !.broken = FALSE] /\ queue' = Notified(<<"package">>)
    /\ budget' = [budget EXCEPT !.unanswered = @ \/ session.subscribed]
    /\ UNCHANGED <<session, pool>>
RemoveOutput ==
    /\ Edited /\ disk.output /\ disk.undo = None
    /\ disk' = [disk EXCEPT !.output = FALSE] /\ queue' = Notified(<<"removed">>)
    /\ UNCHANGED <<session, pool>>

\* A clean-up or a checkout replaces the graph file while the session waits.
\* Nothing below .dart_tool but the package files is an event.
ReplaceGraph ==
    /\ Attempt("wait") /\ disk.undo = None /\ budget.edits < MaxEdits
    /\ budget' = [budget EXCEPT !.edits = @ + 1]
    /\ disk' = [disk EXCEPT !.graph = NoGraph, !.stamped = FALSE]
    /\ UNCHANGED <<queue, session, pool>>

\* A process that is gone is noticed when it is spoken to next.
KillWorker ==
    /\ Attempt("initialize") \/ Attempt("dispatch")
    /\ Fault
    /\ \E i \in DOMAIN pool.workers :
         pool.workers[i].alive /\ pool' = [pool EXCEPT !.workers[i].alive = FALSE]
    /\ UNCHANGED <<disk, queue, session>>

----------------------------------------------------------------------------
Step ==
    \/ LoadWorkspace \/ TakeForBuild \/ RecoverFails \/ Configure \/ Unsupported \/ Subscribe
    \/ StartPool \/ StartFails \/ Scan \/ Initialize \/ InitializeFails
    \/ Prepare \/ PrepareFails \/ Dispatch \/ BuilderFails \/ Commit \/ CommitFails \/ Publish
    \/ BeginLoop \/ Classify \/ Receive \/ Coalesce \/ Expire

World == \/ EditSource \/ EditConfiguration \/ BreakPackages \/ RepairPackages \/ RemoveOutput
         \/ ReplaceGraph \/ KillWorker

Next == Step \/ World
Spec == Init /\ [][Next]_vars

\* The session's one thread runs, and every call it makes returns; what the user
\* does, finishing package_config.json included, is not promised.
FairSpec == Spec /\ WF_vars(Step)

----------------------------------------------------------------------------
(* Properties                                                                *)

\* Types: of what is on disk, of the session and of the pool, whose count of
\* initialized processes may exceed the processes there are after a failed
\* restart only.
TypeOK ==
    /\ disk \in [src : Version, config : Version, announced : Version, broken : BOOLEAN,
                 output : BOOLEAN, graph : Graph, stamped : BOOLEAN,
                 undo : Undo \union {None}]
    /\ queue \in Seq(Kinds)
    /\ session.pc \in Steps /\ session.at \in DOMAIN session.packages
    /\ session.resident # None => session.resident \in Graph
    /\ session.working \in Graph \union {None} /\ session.seen \in Graph
    /\ session.pc \in {"scan", "initialize", "prepare", "dispatch"} => pool # None
    /\ pool # None => /\ pool.workers \in Seq(Worker) /\ Len(pool.workers) <= Jobs
                      /\ pool.initialized \in Signatures \union {None}
                      /\ pool.count <= Len(pool.workers) \/ pool.workers = <<>>

\* An attempt starts from what the graph file holds once an interrupted
\* publication is rolled back: never from a resident graph whose file was
\* removed, nor from one a failed attempt has worked on.
BuildsFromDisk ==
    [][(session.working = None /\ session'.working # None /\ session'.pc = "configure")
          => session'.working = disk'.graph /\ disk'.undo = None]_vars

\* Results come from processes that were initialized for the very package,
\* plan and configuration being built and cleared since a build last used
\* them; whatever failed in earlier attempts, and whichever processes died.
\* (A process that was never initialized answers no request.)
TrustedResults ==
    session.pc = "dispatch" =>
        \A i \in DOMAIN pool.workers :
            pool.workers[i].signature \in {None, Signature} /\ ~pool.workers[i].used

\* A session at rest after a success has built the source there is and every
\* configuration it was told of, and its output is there: no edit falls
\* between subscription, scan, publication and the next wait.
Resting == session.pc = "wait" /\ session.ok /\ \A i \in DOMAIN queue : ~IsRelevantEvent(queue[i])
QuietIsCurrent ==
    Resting => /\ session.seen.src = disk.src /\ disk.output
               /\ ~session.retain => session.cached >= disk.announced

\* An edit made after the subscription is followed by an attempt that begins
\* after it, or the session ends.
Answered == budget.unanswered ~> (~budget.unanswered \/ session.pc = "exited")

\* What pool.rs says of initialize and initialize_pending_workers: a process
\* that gets requests has passed the checks of its initialization.
\* No run has it: TLC refutes it on the sessions of run watch (README).
AdmittedChecked ==
    session.pc = "dispatch" => \A i \in DOMAIN pool.workers : pool.workers[i].signature # None

\* What the documentation says of a named configuration with an unusual
\* spelling: the plan is stale until another recognized event, so not after it.
\* No run has it: TLC refutes it on the sessions of run watch (README).
RetainedUntilRecognized == Resting => session.cached >= disk.announced
=============================================================================
