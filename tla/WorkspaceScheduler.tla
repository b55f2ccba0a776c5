--------------------------- MODULE WorkspaceScheduler ---------------------------
(***************************************************************************)
(* Execution of a `build --workspace` by rust/src/build/workspace_         *)
(* execution.rs: phase barriers, a dependency-ready queue of configured    *)
(* applications inside each phase, leases of their inputs to a bounded set *)
(* of resident worker processes (rust/src/worker/workspace.rs), and the    *)
(* controller's transaction into which only complete results go.           *)
(*                                                                         *)
(* The controller is one thread; every worker thread owns one process and  *)
(* is fed by a channel of its own; completions share one channel.  The     *)
(* interleaving is that of the workers with the controller's turn.         *)
(*                                                                         *)
(* Bytes are abstracted: an asset is the action that generates it, an      *)
(* overlay the set of assets it holds.  Elapsed time, which only sizes the *)
(* next lease, is any time.  The order in which newly ready applications   *)
(* are prepared does not matter and is left open.                          *)
(***************************************************************************)
EXTENDS Integers, Sequences, FiniteSets

CONSTANTS Configurations,  \* the configured builders of some workspaces
          Workers,         \* number of worker slots (--jobs)
          Unknown,         \* "the manifest carries no reachability evidence"
          Handwritten,     \* a primary input that no action generates
          MaxFailures      \* bound: actions that fail and workers that are lost

Worker == 1..Workers

ASSUME WorkersAssumption == Workers \in Nat \ {0} /\ MaxFailures \in Nat

\* A primary input is a source or what an action of the same package generates
\* in an earlier phase; only post-process actions may delete theirs; and the
\* evidence of a manifest is the truth about what a package can read.
ASSUME ConfigurationsAssumption ==
    /\ Handwritten \notin Nat \X Nat
    /\ \A c \in Configurations :
         /\ Len(c) \in Nat /\ DOMAIN c = 1..Len(c)
         /\ \A a \in DOMAIN c :
              /\ c[a].post \in BOOLEAN /\ (c[a].deletes => c[a].post)
              /\ c[a].phase \in Nat /\ c[a].order \in Nat /\ c[a].target \in Nat
              /\ c[a].packageDeps # Unknown =>
                     c[a].reads \subseteq c[a].packageDeps \cup {c[a].package}
              /\ Len(c[a].inputs) \in Nat /\ DOMAIN c[a].inputs = 1..Len(c[a].inputs)
              /\ \A i \in DOMAIN c[a].inputs : c[a].inputs[i] # Handwritten =>
                     \E b \in DOMAIN c : \E j \in DOMAIN c[b].inputs :
                        /\ c[a].inputs[i] = <<b, j>> /\ c[b].package = c[a].package
                        /\ ~c[b].post /\ (c[a].post \/ c[b].phase < c[a].phase)

VARIABLES
    builders,     \* the dirty configured builders, in manifest order
    shared,       \* is the shared analysis byte store enabled?
    pc,           \* where the controller is
    phase,        \* the applications of the current phase
    started,      \* the applications of all phases so far
    newly,        \* newly_ready
    waiting,      \* predecessors an application still waits for
    apps,         \* the controller's record of each application
    baseline,     \* the phase's latest baseline
    made,         \* baselines made so far, to tell them apart
    cursor,       \* the worker the dispatch loop looks at
    running,      \* the lease each worker holds, as the controller sees it
    packages,     \* the package each worker was last leased
    transaction,  \* the staged results
    lane,         \* the channel to each worker
    completions,  \* the channel back
    resident,     \* the package, baseline and analysis view of each process
    exited,       \* worker threads that have ended
    outcome,      \* what the controller will return
    failures

config     == <<builders, shared>>
controller == <<pc, phase, started, newly, waiting, apps, baseline, made, cursor,
                running, packages, transaction, outcome>>
threads    == <<lane, completions, resident, exited>>
vars       == <<config, controller, threads, failures>>

App   == DOMAIN builders
Actions(a) == {<<a, i>> : i \in DOMAIN builders[a].inputs}
Asset == UNION {Actions(a) : a \in App}
Input(x) == builders[x[1]].inputs[x[2]]

NoLease    == [app |-> 0]
NoBaseline == [id |-> 0, over |-> {}, gone |-> {}]

-----------------------------------------------------------------------------
(* What may run beside what *)

\* The sort of execution_order: post-process builders last, then phases, the
\* target order, the target, and the remaining names (here the index).
Key(a) == <<IF builders[a].post THEN 1 ELSE 0, builders[a].phase,
            builders[a].order, builders[a].target, a>>
Before(a, b) == \E i \in 1..5 : /\ Key(a)[i] < Key(b)[i]
                                /\ \A j \in 1..(i - 1) : Key(a)[j] = Key(b)[j]

\* Neither can reach the other, and there is evidence that it cannot.
Independent(a, b) ==
    LET l == builders[a]  r == builders[b] IN
    /\ l.package # r.package
    /\ l.order # r.order
    /\ Unknown \notin {l.packageDeps, r.packageDeps, l.targetDeps, r.targetDeps}
    /\ r.package \notin l.packageDeps /\ l.package \notin r.packageDeps
    /\ r.target \notin l.targetDeps /\ l.target \notin r.targetDeps

SamePhase(a, b) ==
    builders[a].post = builders[b].post /\ builders[a].phase = builders[b].phase

Dependencies(a) == {b \in App : SamePhase(b, a) /\ Before(b, a) /\ ~Independent(b, a)}

\* The next phase: everything in the phase of the first application left.
PhaseOf(rest) ==
    {a \in rest : \E b \in rest : /\ \A c \in rest \ {b} : Before(b, c)
                                  /\ SamePhase(a, b)}

\* blocked_assets: what the phase guard hides from an action of a builder.
Hidden(a) ==
    {x \in Asset : \/ builders[x[1]].post
                   \/ ~builders[a].post /\ builders[x[1]].phase >= builders[a].phase}

-----------------------------------------------------------------------------
(* The transaction *)

\* A dirty action's previous output is logically deleted until it is rebuilt.
NewTransaction(previous) ==
    [previous |-> previous, written |-> {}, deleted |-> previous, missing |-> {},
     seen |-> [x \in {} |-> {}]]

\* record_missing_primary_input, for a set of actions.
RecordMissing(t, xs) ==
    [t EXCEPT !.written = @ \ xs, !.deleted = @ \cup xs, !.missing = @ \cup xs]

\* record_build_result, for the actions of one lease; a post-process action
\* may delete its primary input.
RecordResults(t, xs, view) ==
    LET removed == {Input(x) : x \in {y \in xs : builders[y[1]].deletes}} \ {Handwritten} IN
    [t EXCEPT !.written = (@ \ removed) \cup xs,
              !.deleted = (@ \ xs) \cup removed,
              !.seen = [x \in DOMAIN t.seen \cup xs |-> IF x \in xs THEN view ELSE t.seen[x]]]

\* The generated primary inputs that are gone when an application is prepared.
MissingInputs(t, a) == {x \in Actions(a) : Input(x) \in t.deleted}

\* The part of an asset set that the builder's package can reach.
Reach(a, xs) == {x \in xs : builders[x[1]].package \in builders[a].reads}

\* What an action of a builder observes.
Observed(a, over, gone) == [over |-> Reach(a, over), gone |-> Reach(a, gone)]

\* One application on its own: its actions observe what the others have left.
Applied(t, a) ==
    LET gone == MissingInputs(t, a)
        p == RecordMissing(t, gone)
    IN  IF gone = Actions(a) THEN p
        ELSE RecordResults(p, Actions(a) \ gone,
                 Observed(a, p.written \ Hidden(a), p.deleted \ Hidden(a)))

\* The reference: one application after the other, in execution order.
Last(done) == CHOOSE a \in done : \A b \in done \ {a} : Before(b, a)

InTurn(previous) ==
    LET after[done \in SUBSET App] ==
            IF done = {} THEN NewTransaction(previous)
            ELSE Applied(after[done \ {Last(done)}], Last(done))
    IN  after

Sequential(previous) == InTurn(previous)[App]

-----------------------------------------------------------------------------
Idle == [specs |-> <<>>, next |-> 1, inFlight |-> 0, completed |-> 0, owner |-> 0,
         baseline |-> NoBaseline, timed |-> FALSE, prepared |-> FALSE]

Init ==
    /\ builders \in Configurations
    /\ shared \in BOOLEAN
    /\ pc = "phase" /\ phase = {} /\ started = {} /\ newly = {}
    /\ waiting = [a \in App |-> 0]
    /\ apps = [a \in App |-> Idle]
    /\ baseline = NoBaseline /\ made = 0 /\ cursor = 1
    /\ running = [w \in Worker |-> NoLease]
    /\ packages = [w \in Worker |-> Unknown]
    /\ \E previous \in {{}, Asset} : transaction = NewTransaction(previous)
    /\ outcome = "ok"
    /\ lane = [w \in Worker |-> NoLease]
    /\ completions = <<>>
    /\ resident = [w \in Worker |-> [package |-> Unknown, baseline |-> 0, held |-> {}]]
    /\ exited = {}
    /\ failures = 0

-----------------------------------------------------------------------------
(* The controller *)

Remaining(a) == Len(apps[a].specs) + 1 - apps[a].next

Unfinished == {a \in phase : waiting[a] > 0 \/ a \in newly \/ apps[a].prepared}

\* ReadyApplications::finish: one edge per successor.
Finish(a) ==
    LET after == {b \in phase : a \in Dependencies(b)} IN
    /\ waiting' = [b \in App |-> IF b \in after THEN waiting[b] - 1 ELSE waiting[b]]
    /\ newly' = (newly \ {a}) \cup {b \in after : waiting[b] = 1}

BeginPhase ==
    /\ pc = "phase" /\ started # App
    /\ phase' = PhaseOf(App \ started)
    /\ started' = started \cup phase'
    /\ waiting' = [a \in App |-> IF a \in phase' THEN Cardinality(Dependencies(a)) ELSE 0]
    /\ newly' = {a \in phase' : Dependencies(a) = {}}
    /\ baseline' = NoBaseline
    /\ pc' = "prepare"
    /\ UNCHANGED <<config, apps, made, cursor, running, packages, transaction, outcome,
                   threads, failures>>

\* The inputs that are left, in order.
InOrder(xs) ==
    [k \in 1..Cardinality(xs) |->
        CHOOSE x \in xs : Cardinality({y \in xs : y < x}) = k - 1]

\* The primary inputs are checked against the transaction as it is now.  Left
\* out is the prefilter for part directives, which records an action whose
\* input declares no part as done, without outputs, before it is leased.
Prepare(a) ==
    /\ pc = "prepare" /\ a \in newly
    /\ LET gone == MissingInputs(transaction, a)
           left == {i \in DOMAIN builders[a].inputs : <<a, i>> \notin gone}
       IN  /\ transaction' = RecordMissing(transaction, gone)
           /\ IF left = {}
              THEN Finish(a) /\ UNCHANGED apps
              ELSE /\ apps' = [apps EXCEPT ![a].specs = InOrder(left), ![a].prepared = TRUE]
                   /\ newly' = newly \ {a}
                   /\ UNCHANGED waiting
    /\ UNCHANGED <<config, pc, phase, started, baseline, made, cursor, running, packages,
                   outcome, threads, failures>>

Prepared ==
    /\ pc = "prepare" /\ newly = {}
    /\ pc' = IF Unfinished = {} THEN "phase" ELSE "lease"
    /\ cursor' = 1
    /\ UNCHANGED <<config, phase, started, newly, waiting, apps, baseline, made, running,
                   packages, transaction, outcome, threads, failures>>

\* Mutant: an application with an owner is not queued again.
CandidatesOnce(w) ==
    {a \in phase : apps[a].prepared /\ Remaining(a) > 0 /\ (shared \/ apps[a].owner = 0)}

\* The applications in ReadyInputs that this worker may take: with the shared
\* store any worker may join; without it an application stays with its owner,
\* one lease at a time.
Candidates(w) ==
    {a \in phase : /\ apps[a].prepared /\ Remaining(a) > 0
                   /\ shared \/ (apps[a].owner \in {0, w} /\ apps[a].inFlight = 0)}

\* Participation, then affinity, then remaining work, then the index.
Preferred(w) ==
    LET rank(a) == <<IF apps[a].inFlight > 0 THEN 1 ELSE 0,
                     IF builders[a].package = packages[w] THEN 0 ELSE 1,
                     -Remaining(a), a>>
        before(a, b) == \E i \in 1..4 : /\ rank(a)[i] < rank(b)[i]
                                        /\ \A j \in 1..(i - 1) : rank(a)[j] = rank(b)[j]
    IN  CHOOSE a \in Candidates(w) : \A b \in Candidates(w) \ {a} : before(a, b)

\* The baseline an application's first lease takes: the phase's latest one if
\* it still is the complete visible view, otherwise a new one.
BaselineFor(a) ==
    LET over == transaction.written \ Hidden(a)
        gone == transaction.deleted \ Hidden(a)
    IN  IF baseline # NoBaseline /\ baseline.over = over /\ baseline.gone = gone
        THEN baseline ELSE [id |-> made + 1, over |-> over, gone |-> gone]

\* AdaptiveBatch: one input until something was timed, then up to sixteen,
\* never more than a worker's half share of what is left.
BatchSizes(a) ==
    LET share == Remaining(a) \div (2 * IF shared THEN Workers ELSE 1)
    IN  {n \in 1..16 : n = 1 \/ (apps[a].timed /\ n <= share)}

\* InputQueue::take.
Take(a, n) == [lo |-> apps[a].next, hi |-> apps[a].next + n - 1]

Lease(w) ==
    /\ pc = "lease" /\ cursor = w
    /\ running[w] = NoLease /\ Candidates(w) # {}
    /\ LET a == Preferred(w)
           b == IF apps[a].baseline = NoBaseline THEN BaselineFor(a) ELSE apps[a].baseline
       IN  \E n \in BatchSizes(a) :
              LET lease == [app |-> a, lo |-> Take(a, n).lo, hi |-> Take(a, n).hi,
                            specs |-> apps[a].specs, baseline |-> b]
              IN  /\ lane' = [lane EXCEPT ![w] = lease]
                  /\ running' = [running EXCEPT ![w] = lease]
                  /\ apps' = [apps EXCEPT ![a].next = @ + n, ![a].inFlight = @ + 1,
                                          ![a].baseline = b,
                                          ![a].owner = IF @ = 0 THEN w ELSE @]
                  /\ packages' = [packages EXCEPT ![w] = builders[a].package]
                  /\ IF b.id > made THEN made' = b.id /\ baseline' = b
                                    ELSE UNCHANGED <<made, baseline>>
    /\ cursor' = w + 1
    /\ UNCHANGED <<config, pc, phase, started, newly, waiting, transaction, outcome,
                   completions, resident, exited, failures>>

PassOver(w) ==
    /\ pc = "lease" /\ cursor = w
    /\ running[w] # NoLease \/ Candidates(w) = {}
    /\ cursor' = w + 1
    /\ UNCHANGED <<config, pc, phase, started, newly, waiting, apps, baseline, made,
                   running, packages, transaction, outcome, threads, failures>>

\* The code returns an error here if no worker has a lease; NeverStalled says
\* that it need not.
Leased ==
    /\ pc = "lease" /\ cursor = Workers + 1
    /\ pc' = "receive"
    /\ UNCHANGED <<config, phase, started, newly, waiting, apps, baseline, made, cursor,
                   running, packages, transaction, outcome, threads, failures>>

ActionsOf(l) == {<<l.app, l.specs[i]>> : i \in l.lo..l.hi}

Receive ==
    /\ pc = "receive" /\ completions # <<>>
    /\ LET c == Head(completions)  a == c.lease.app  n == c.lease.hi + 1 - c.lease.lo
           done == apps[a].completed + n = Len(apps[a].specs)
       IN  /\ c.status = "ok"
           /\ running' = [running EXCEPT ![c.worker] = NoLease]
           /\ transaction' = RecordResults(transaction, ActionsOf(c.lease), c.view)
           /\ apps' = [apps EXCEPT ![a].completed = @ + n, ![a].inFlight = @ - 1,
                                   ![a].timed = TRUE, ![a].prepared = ~done]
           /\ IF done THEN Finish(a) ELSE UNCHANGED <<waiting, newly>>
    /\ completions' = Tail(completions)
    /\ pc' = "prepare"
    /\ UNCHANGED <<config, phase, started, baseline, made, cursor, packages, outcome,
                   lane, resident, exited, failures>>

\* An error of the worker or of a builder ends the schedule: what the lease
\* produced is not recorded and the dispatch is dropped.
ReceiveError ==
    /\ pc = "receive" /\ completions # <<>> /\ Head(completions).status # "ok"
    /\ pc' = "closing" /\ outcome' = "error"
    /\ completions' = <<>>
    /\ UNCHANGED <<config, phase, started, newly, waiting, apps, baseline, made, cursor,
                   running, packages, transaction, lane, resident, exited, failures>>

AllPhases ==
    /\ pc = "phase" /\ started = App
    /\ pc' = "closing"
    /\ UNCHANGED <<config, phase, started, newly, waiting, apps, baseline, made, cursor,
                   running, packages, transaction, outcome, threads, failures>>

\* with_workspace_dispatch returns when every worker thread is joined.
Join ==
    /\ pc = "closing" /\ exited = Worker
    /\ pc' = "returned"
    /\ UNCHANGED <<config, phase, started, newly, waiting, apps, baseline, made, cursor,
                   running, packages, transaction, outcome, threads, failures>>

-----------------------------------------------------------------------------
(* The worker threads *)

\* Mutant: a fresh package context still believes it holds the old baseline.
HydrateStale(w, l) ==
    LET r == resident[w]
        initializing == r.package # builders[l.app].package
        held == IF initializing THEN {} ELSE r.held
        unchanged == r.baseline = l.baseline.id
    IN  [package |-> builders[l.app].package, baseline |-> l.baseline.id,
         held |-> IF unchanged THEN held
                  ELSE (held \cup l.baseline.over) \ l.baseline.gone]

\* initialize and reset_resolver, as far as the lease needs them: a change of
\* package clears the process; an unchanged baseline, or an empty one after
\* initialization, needs no reset; a reset adds the overlay and evicts the
\* deletions.
Hydrate(w, l) ==
    LET r == resident[w]
        initializing == r.package # builders[l.app].package
        held == IF initializing THEN {} ELSE r.held
        unchanged == ~initializing /\ r.baseline = l.baseline.id
        empty == initializing /\ l.baseline.over = {} /\ l.baseline.gone = {}
    IN  [package |-> builders[l.app].package, baseline |-> l.baseline.id,
         held |-> IF unchanged \/ empty THEN held
                  ELSE (held \cup l.baseline.over) \ l.baseline.gone]

\* The batch carries the phase guard and the lease's deletions.
ViewOf(l, held) == Observed(l.app, (held \ Hidden(l.app)) \ l.baseline.gone, l.baseline.gone)

\* Mutant: a worker that fails says nothing.
ReportOnlySuccess(w, status, view) ==
    completions' = IF pc = "closing" \/ status # "ok" THEN completions
                   ELSE Append(completions, [worker |-> w, lease |-> lane[w],
                                             status |-> status, view |-> view])

\* Mutant: a builder's failure status is not looked at.
ReportIgnored(w, status, view) ==
    completions' = IF pc = "closing" THEN completions
                   ELSE Append(completions, [worker |-> w, lease |-> lane[w], view |-> view,
                            status |-> IF status = "builder" THEN "ok" ELSE status])

\* Every lease is answered; nobody listens once the dispatch is dropped.
Report(w, status, view) ==
    completions' = IF pc = "closing" THEN completions
                   ELSE Append(completions, [worker |-> w, lease |-> lane[w],
                                             status |-> status, view |-> view])

\* The worker runs its lease.  The process keeps what it produced.
Work(w) ==
    /\ lane[w] # NoLease
    /\ LET l == lane[w]  h == Hydrate(w, l) IN
       /\ resident' = [resident EXCEPT ![w] = [h EXCEPT !.held = @ \cup ActionsOf(l)]]
       /\ Report(w, "ok", ViewOf(l, h.held))
    /\ lane' = [lane EXCEPT ![w] = NoLease]
    /\ exited' = IF pc = "closing" THEN exited \cup {w} ELSE exited
    /\ UNCHANGED <<config, controller, failures>>

\* A builder fails (the result says so), or the process, the protocol or the
\* thread does (the completion carries an error and the thread ends).
WorkFails(w, status) ==
    /\ lane[w] # NoLease /\ failures < MaxFailures
    /\ Report(w, status, Observed(lane[w].app, {}, {}))
    /\ lane' = [lane EXCEPT ![w] = NoLease]
    /\ exited' = IF pc = "closing" \/ status = "lost" THEN exited \cup {w} ELSE exited
    /\ resident' = [resident EXCEPT ![w] = Hydrate(w, lane[w])]
    /\ failures' = failures + 1
    /\ UNCHANGED <<config, controller>>

\* A closed and empty channel ends the thread.
Quit(w) ==
    /\ pc = "closing" /\ lane[w] = NoLease /\ w \notin exited
    /\ exited' = exited \cup {w}
    /\ UNCHANGED <<config, controller, lane, completions, resident, failures>>

-----------------------------------------------------------------------------
Controller ==
    \/ BeginPhase \/ Prepared \/ Leased \/ Receive \/ ReceiveError \/ AllPhases \/ Join
    \/ \E a \in App : Prepare(a)
    \/ \E w \in Worker : Lease(w) \/ PassOver(w)

Thread(w) == Work(w) \/ (\E s \in {"builder", "lost"} : WorkFails(w, s)) \/ Quit(w)

Next == Controller \/ \E w \in Worker : Thread(w)

Spec == Init /\ [][Next]_vars

\* The controller's thread runs, and every leased batch ends one way or other.
FairSpec == Spec /\ WF_vars(Controller) /\ \A w \in Worker : WF_vars(Thread(w))

-----------------------------------------------------------------------------
(* Properties *)

\* Every variable keeps its type, and no asset is both written and deleted.
TypeOK ==
    /\ pc \in {"phase", "prepare", "lease", "receive", "closing", "returned"}
    /\ phase \subseteq started /\ started \subseteq App /\ newly \subseteq phase
    /\ waiting \in [App -> 0..Len(builders)]
    /\ cursor \in 1..(Workers + 1)
    /\ exited \subseteq Worker
    /\ outcome \in {"ok", "error"}
    /\ failures \in 0..MaxFailures
    /\ transaction.written \cap transaction.deleted = {}

\* What a parallel workspace build stages is what running the applications one
\* after the other would stage, and every action observed, in the analysis view
\* of the process that ran it, exactly what it would have observed then: for
\* any interleaving, lease size, package reassignment and reuse of a baseline
\* (Schedule::run, run_worker).
AsSequential ==
    pc = "returned" /\ outcome = "ok" => transaction = Sequential(transaction.previous)

\* The controller waits for a completion only when one is due: "workspace
\* scheduler has pending work without a runnable action" cannot happen.
NeverStalled == pc = "receive" => \E w \in Worker : running[w] # NoLease

\* Every input is leased once: what is completed, in flight and left adds up,
\* and no two leases of an application overlap.
InputsLeasedOnce ==
    \A a \in App : apps[a].prepared =>
        LET held == {w \in Worker : running[w] # NoLease /\ running[w].app = a}
            flight == UNION {running[w].lo..running[w].hi : w \in held}
        IN  /\ Cardinality(held) = apps[a].inFlight
            /\ \A v, w \in held : v # w =>
                   (running[v].lo..running[v].hi) \cap (running[w].lo..running[w].hi) = {}
            /\ apps[a].completed + Cardinality(flight) + 1 = apps[a].next

\* All leases of an application carry one baseline, and when one is sent every
\* earlier phase, and every earlier application of its phase whose package it
\* can read, is recorded completely.
PredecessorsComplete ==
    [][ \A w \in Worker : lane[w] = NoLease /\ lane'[w] # NoLease =>
          LET l == lane'[w] IN
          /\ apps[l.app].baseline \in {NoBaseline, l.baseline}
          /\ \A b \in App :
                /\ Before(b, l.app)
                /\ ~SamePhase(b, l.app) \/ builders[b].package \in builders[l.app].reads
                => Actions(b) \subseteq DOMAIN transaction.seen \cup transaction.missing ]_vars

\* A failure is never lost and never invented: the schedule succeeds exactly
\* when no lease failed.
FailureReported == pc = "returned" => (outcome = "ok" <=> failures = 0)

\* The build ends, whatever fails: every dispatched lease is answered, and a
\* failed schedule still joins its workers.
Returns == <>(pc = "returned")
=============================================================================
