---------------------------- MODULE WorkerDialogue ----------------------------
(* The conversation of the frontend with one resident Dart worker            *)
(* (rust/src/worker/client.rs, asset_rpc.rs, lazy.rs; lib/src/worker.dart,   *)
(* protocol.dart, remote_build_step.dart; protocol/v1.md).                   *)
(*                                                                           *)
(* An attempt to build opens with `initialize` or `reset`, then sends one    *)
(* batch of actions.  A builder asks for assets by RPC, or finds them in     *)
(* caches that all actions share.  In a demand-driven batch, an asset that   *)
(* an optional action has yet to produce is built first: the frontend sends  *)
(* a nested `build` while the request waits, the worker runs it with its     *)
(* view on top of the suspended one, and so on.  Errors end one level of     *)
(* this and are answered to the next.  A watch session keeps the worker      *)
(* after a failed attempt, in whatever state the failure has left it.        *)
EXTENDS Naturals, Sequences, FiniteSets, Functions

CONSTANTS
    Sources,
    Actions,     \* each with one output, named after it
    Phase,       \* of the actions
    Optional,    \* the actions that run on demand (each of them is dirty)
    Batches,     \* what an attempt may run: [lazy, actions, rests], the actions all of one
                 \* phase; `rests` are the optional producers of an optional action's
                 \* primary input, directly and through others
    MaxAttempts, \* bound
    MaxEdits,    \* bound: edits of sources
    MaxFaults,   \* bound: failing builders, I/O errors and worker deaths
    MaxCalls,    \* bound: RPCs of each action
    Operations,  \* bound: of "read", "can_read", "find_assets", "resolve_assets"
    Path,        \* instead of a content: the file is where the answer says
    None

Assets == Sources \cup Actions
\* An asset request: its number within its session, and the action it is for.
Call == [type : {"ask"}, id : Nat, build : Nat, op : Operations, assets : SUBSET Assets, phase : Nat]

ASSUME DialogueAssumption ==
    /\ Sources \cap Actions = {} /\ Optional \subseteq Actions
    /\ Phase \in [Actions -> Nat]
    /\ \A b \in Batches : /\ b.lazy \in BOOLEAN /\ b.actions \in Seq(Actions \ Optional)
                          /\ b.actions # <<>>
                          /\ b.rests \in [Optional -> SUBSET Optional]
                          /\ \A i, j \in DOMAIN b.actions : Phase[b.actions[i]] = Phase[b.actions[j]]
    /\ Operations \subseteq {"read", "can_read", "find_assets", "resolve_assets"}
    /\ Path \notin Nat /\ None \notin Call
    /\ MaxAttempts \in Nat /\ MaxEdits \in Nat /\ MaxFaults \in Nat /\ MaxCalls \in [Actions -> Nat]

VARIABLES
    disk,     \* the files: an edit counts a source up, an output has the attempt that built it
    frontend,
    worker,
    down, up, \* the pipes: to the worker, and back
    budget

vars == <<disk, frontend, worker, down, up, budget>>

----------------------------------------------------------------------------
(* A frame of the frontend is a call of build_batch, build_batch_lazy or     *)
(* build_lazy; `ask` is the request that waits for the nested build.         *)

Top(s) == s[Len(s)]
Pop(s) == SubSeq(s, 1, Len(s) - 1)
OnTop(s, x) == [s EXCEPT ![Len(s)] = x]

NewWorker ==
    [pc |-> "loop", started |-> FALSE, batch |-> None, stack |-> <<>>,
     cache |-> <<>>, readable |-> {}, sent |-> {}, entry |-> {}]

Init ==
    /\ disk = [a \in Assets |-> 0]
    /\ frontend = [pc |-> "idle", attempt |-> 0, batch |-> None, known |-> FALSE, greeted |-> FALSE,
                   id |-> 1, stack |-> <<>>, ask |-> None, overlay |-> <<>>, deleted |-> {}, built |-> {},
                   edges |-> <<>>, reads |-> {}, strayed |-> FALSE, floor |-> disk]
    /\ worker = NewWorker
    /\ down = <<>> /\ up = <<>>
    /\ budget = [edits |-> MaxEdits, faults |-> MaxFaults]

Fault == budget.faults > 0 /\ budget' = [budget EXCEPT !.faults = @ - 1]

Edit(s) ==
    /\ budget.edits > 0 /\ budget' = [budget EXCEPT !.edits = @ - 1]
    /\ disk' = [disk EXCEPT ![s] = @ + 1]
    /\ UNCHANGED <<frontend, worker, down, up>>

Dies ==
    /\ worker.pc # "dead" /\ Fault
    /\ worker' = [worker EXCEPT !.pc = "dead", !.stack = <<>>]
    /\ down' = <<>>
    /\ UNCHANGED <<disk, frontend, up>>

----------------------------------------------------------------------------
(* Visibility                                                                *)

\* AssetVisibility::is_blocked, blocked_assets
Blocked(phase, deleted) == {a \in Actions : Phase[a] >= phase} \cup deleted

(* ensure_optional_output: what must be built before the request is answered, *)
(* the producers of primary inputs included.                                 *)
Unbuilt(f) == Optional \ (Blocked(f.ask.phase, f.deleted) \cup f.built \cup DOMAIN f.overlay)
Needed(f) ==
    IF ~f.batch.lazy THEN {}
    ELSE {a \in Unbuilt(f) : \E b \in f.ask.assets \cap Unbuilt(f) : a \in {b} \cup f.batch.rests[b]}

\* A file is answered by its path, and read by the worker.
Found(f) ==
    [a \in f.ask.assets \ Blocked(f.ask.phase, f.deleted) |->
        IF a \in DOMAIN f.overlay THEN f.overlay[a] ELSE Path]

----------------------------------------------------------------------------
(* The frontend                                                              *)

Ended(pc) == pc \in {"idle", "done", "failed"}

(* WorkerPool::initialize.  A changed signature replaces the process, if     *)
(* there is one for the signature before; a failed attempt does not.         *)
Begin(batch, changed) ==
    LET restart == changed /\ frontend.known
        greet == changed \/ ~frontend.greeted
    IN  /\ Ended(frontend.pc) /\ frontend.attempt < MaxAttempts
        /\ frontend' = [frontend EXCEPT
              !.pc = "greet", !.attempt = @ + 1, !.batch = batch, !.greeted = ~greet, !.id = @ + 1,
              !.overlay = <<>>, !.deleted = {}, !.built = {}, !.reads = {}, !.strayed = FALSE,
              !.edges = IF restart \/ frontend.pc = "done" THEN <<>> ELSE @,
              !.floor = [a \in Assets |-> IF batch.lazy /\ a \in Optional
                                          THEN frontend.attempt + 1 ELSE disk[a]]]
        /\ worker' = IF restart THEN NewWorker ELSE worker
        /\ up' = IF restart THEN <<>> ELSE up
        /\ down' = Append(IF restart THEN <<>> ELSE down,
                          [type |-> IF greet THEN "initialize" ELSE "reset", id |-> frontend.id])
        /\ UNCHANGED <<disk, budget>>

Message == Head(up)
Received(pc) == frontend.pc = pc /\ up # <<>> /\ up' = Tail(up)

(* An error ends the frame it happens in.  A nested one is answered to the   *)
(* request that demanded it; the last ends the attempt.  Edges are dropped   *)
(* by build_parallel, and kept by build_parallel_lazy.                       *)
Erred(f) ==
    LET frame == Top(f.stack)
    IN  IF Len(f.stack) > 1
        THEN /\ frontend' = [f EXCEPT !.pc = "serve", !.stack = Pop(f.stack), !.ask = None]
             /\ down' = Append(down, [type |-> "answer", id |-> frame.ask.id, ok |-> FALSE,
                                      to |-> frame.ask, found |-> <<>>])
        ELSE /\ frontend' = [f EXCEPT !.pc = "failed", !.stack = <<>>, !.ask = None,
                                      !.edges = IF f.batch.lazy THEN @ ELSE <<>>]
             /\ UNCHANGED down

\* initialize, reset: the matching reply, or none.
Greeted ==
    /\ Received("greet")
    /\ IF Message.type = "ack" /\ Message.id = frontend.id - 1
       THEN /\ frontend' = [frontend EXCEPT
                   !.pc = "serve", !.known = TRUE, !.greeted = TRUE, !.id = @ + 1,
                   !.stack = <<[id |-> frontend.id, actions |-> frontend.batch.actions, ask |-> None]>>]
            /\ down' = Append(down,
                   [type |-> "batch", id |-> frontend.id, actions |-> frontend.batch.actions,
                    blocked |-> Blocked(Phase[frontend.batch.actions[1]], {})])
       ELSE frontend' = [frontend EXCEPT !.pc = "failed"] /\ UNCHANGED down
    /\ UNCHANGED <<disk, worker, budget>>

\* batch_asset_request_context, validate_asset_request_context
Nested == Len(frontend.stack) > 1
\* Mutant of Expected: a nested build is looked up in the batch as well.
ExpectedOfBatch(ask) ==
    /\ ask.build + 1 \in DOMAIN Top(frontend.stack).actions
    /\ ask.phase = Phase[Top(frontend.stack).actions[ask.build + 1]]

Expected(ask) ==
    LET frame == Top(frontend.stack)
        index == IF Nested THEN 1 ELSE ask.build + 1
    IN  /\ IF Nested THEN ask.build = frame.id ELSE index \in DOMAIN frame.actions
        /\ ask.phase = Phase[frame.actions[index]]

Asked ==
    /\ Received("serve") /\ Message.type = "ask"
    /\ IF Expected(Message)
       THEN frontend' = [frontend EXCEPT !.pc = "handle", !.ask = Message] /\ UNCHANGED down
       ELSE Erred(frontend)
    /\ UNCHANGED <<disk, worker, budget>>

Prefetch == frontend.ask.op = "resolve_assets"

(* ensure_optional_output_body, build_lazy: its outputs count as deleted     *)
(* until it has returned them.                                               *)
Demand ==
    /\ frontend.pc = "handle" /\ ~Prefetch
    /\ \E a \in Needed(frontend) :
         LET deleted == frontend.deleted \cup {a}
         IN  /\ frontend' = [frontend EXCEPT
                   !.pc = "serve", !.id = @ + 1, !.deleted = deleted, !.ask = None,
                   !.stack = Append(@, [id |-> frontend.id, actions |-> <<a>>, ask |-> frontend.ask])]
             /\ down' = Append(down, [type |-> "build", id |-> frontend.id, actions |-> <<a>>,
                                      blocked |-> Blocked(Phase[a], deleted)])
    /\ UNCHANGED <<disk, worker, up, budget>>

\* An action whose primary input was not produced is skipped.
Skip ==
    /\ frontend.pc = "handle" /\ ~Prefetch
    /\ \E a \in Needed(frontend) :
         /\ frontend.batch.rests[a] \cap frontend.deleted # {}
         /\ frontend' = [frontend EXCEPT !.deleted = @ \cup {a}]
    /\ UNCHANGED <<disk, worker, down, up, budget>>

Reply(ok) ==
    /\ down' = Append(down, [type |-> "answer", id |-> frontend.ask.id, ok |-> ok,
                             to |-> frontend.ask, found |-> IF ok THEN Found(frontend) ELSE <<>>])
    /\ frontend' = [frontend EXCEPT !.pc = "serve", !.ask = None]

(* handle_lazy_asset_request, handle_asset_request: a prefetch is refused    *)
(* in demand-driven batches, and where the answer would be too large.        *)
Answer ==
    /\ frontend.pc = "handle"
    /\ \/ Prefetch /\ Reply(FALSE)
       \/ Prefetch /\ ~frontend.batch.lazy /\ Reply(TRUE)
       \/ ~Prefetch /\ Needed(frontend) = {} /\ Reply(TRUE)
    /\ UNCHANGED <<disk, worker, up, budget>>

AnswerFails ==
    /\ frontend.pc = "handle" /\ Fault /\ Erred(frontend)
    /\ UNCHANGED <<disk, worker, up>>

\* dep_graph.extend
Extended(edges, new, attempt) ==
    [a \in DOMAIN edges \cup new |-> IF a \in new THEN attempt ELSE edges[a]]

\* build_lazy: the result of a nested build, or anything else.
NestedEnds ==
    /\ Received("serve") /\ Nested /\ Message.type # "ask"
    /\ LET frame == Top(frontend.stack)
           a == frame.actions[1]
           f == IF Message.type \in {"result", "batch_result"}
                THEN [frontend EXCEPT !.edges = Extended(@, Message.edges, frontend.attempt)]
                ELSE frontend
       IN  IF Message.type = "result" /\ Message.id = frame.id /\ Message.ok
           THEN /\ frontend' = [f EXCEPT
                      !.pc = "handle", !.stack = Pop(@), !.ask = frame.ask,
                      !.overlay = [b \in DOMAIN @ \cup {a} |-> IF b = a THEN frontend.attempt ELSE @[b]],
                      !.deleted = @ \ {a}, !.built = @ \cup {a},
                      !.reads = @ \cup Message.reads, !.strayed = @ \/ Message.strayed]
                /\ UNCHANGED down
           ELSE Erred(f)
    /\ UNCHANGED <<disk, worker, budget>>

\* Mutant of BatchEnds: any result is that of the batch.
BatchEndsAnyhow ==
    /\ Received("serve") /\ ~Nested /\ Message.type # "ask"
    /\ LET frame == Top(frontend.stack)
       IN  IF Message.type \in {"result", "batch_result"}
           THEN /\ frontend' = [frontend EXCEPT
                      !.pc = "done", !.stack = <<>>,
                      !.edges = Extended(@, Message.edges, frontend.attempt),
                      !.reads = @ \cup Message.reads, !.strayed = @ \/ Message.strayed]
                /\ UNCHANGED <<disk, down>>
           ELSE Erred(frontend) /\ UNCHANGED disk
    /\ UNCHANGED <<worker, budget>>

(* build_batch, build_batch_lazy: what the attempt has built is published.   *)
BatchEnds ==
    /\ Received("serve") /\ ~Nested /\ Message.type # "ask"
    /\ LET frame == Top(frontend.stack)
       IN  IF Message.type = "batch_result" /\ Message.id = frame.id
              /\ Message.count = Len(frame.actions)
           THEN /\ frontend' = [frontend EXCEPT
                      !.pc = "done", !.stack = <<>>,
                      !.edges = Extended(@, Message.edges, frontend.attempt),
                      !.reads = @ \cup Message.reads, !.strayed = @ \/ Message.strayed]
                /\ disk' = [a \in Assets |->
                              IF a \in frontend.built \cup Range(frame.actions)
                              THEN frontend.attempt ELSE disk[a]]
                /\ UNCHANGED down
           ELSE Erred(frontend) /\ UNCHANGED disk
    /\ UNCHANGED <<worker, budget>>

\* receive: end of file, which later writes run into as well.
Eof ==
    /\ worker.pc = "dead" /\ up = <<>> /\ frontend.pc \in {"greet", "serve"}
    /\ frontend' = [frontend EXCEPT !.pc = "failed", !.stack = <<>>, !.ask = None,
                       !.edges = IF frontend.batch.lazy THEN @ ELSE <<>>]
    /\ UNCHANGED <<disk, worker, down, up, budget>>

----------------------------------------------------------------------------
(* The worker: its loop, and the actions it runs                             *)

Order == Head(down)
Send(message) == up' = Append(up, message)
\* Mutants of Cleared: it keeps what was read, or what was sent.
ClearedButCache(w) == [w EXCEPT !.started = TRUE, !.readable = {}, !.sent = {}, !.entry = {}]
ClearedButSent(w) == [w EXCEPT !.started = TRUE, !.cache = <<>>, !.readable = {}, !.entry = {}]

Cleared(w) == [w EXCEPT !.started = TRUE, !.cache = <<>>, !.readable = {}, !.sent = {}, !.entry = {}]

\* _runBuild: `build` is what the frontend knows the action by.
Running(action, build, blocked) ==
    [action |-> action, build |-> build, blocked |-> blocked, call |-> None, calls |-> 0,
     told |-> <<>>, strayed |-> FALSE, upset |-> FALSE]

Looping == worker.pc = "loop" /\ down # <<>> /\ down' = Tail(down)

(* startBuild; reset, which does nothing to a worker that was never          *)
(* initialized; UnsupportedWorkerMessage for an answer that nobody waits     *)
(* for.  A single build, which the loop would run too, never gets here.      *)
Control ==
    /\ Looping /\ Order.type \notin {"batch", "build"}
    /\ worker' = IF Order.type = "initialize" \/ (Order.type = "reset" /\ worker.started)
                 THEN Cleared(worker) ELSE worker
    /\ Send([type |-> IF Order.type \in {"initialize", "reset"} THEN "ack" ELSE "error", id |-> Order.id])
    /\ UNCHANGED <<disk, frontend, budget>>

\* _handleBuildBatch
BatchBegins ==
    /\ Looping /\ Order.type = "batch"
    /\ worker' = [worker EXCEPT !.pc = "busy", !.entry = {},
                     !.batch = [id |-> Order.id, actions |-> Order.actions, reads |-> {}, strayed |-> FALSE],
                     !.stack = <<Running(Order.actions[1], 0, Order.blocked)>>]
    /\ UNCHANGED <<disk, frontend, up, budget>>

Active == Top(worker.stack)
Act(changed) == worker' = [worker EXCEPT !.stack = OnTop(@, changed)]
Free == worker.pc = "busy" /\ Active.call = None

\* canRead, readContent, find, prefetchAssets: what no cache can answer.
Ask(op, assets) ==
    /\ Free /\ Active.calls < MaxCalls[Active.action]
    /\ assets \cap Active.blocked = {} \/ op = "find_assets"
    /\ CASE op = "read" -> assets \cap DOMAIN worker.cache = {}
         [] op = "find_assets" -> TRUE
         [] OTHER -> assets \cap (DOMAIN worker.cache \cup worker.readable) = {}
    /\ LET call == [type |-> "ask", id |-> Active.calls, build |-> Active.build, op |-> op,
                    assets |-> assets, phase |-> Phase[Active.action]]
       IN  Send(call) /\ Act([Active EXCEPT !.call = call, !.calls = @ + 1])
    /\ UNCHANGED <<disk, frontend, down, budget>>

\* readContent: a hit
Recall(a) ==
    /\ Free /\ a \in DOMAIN worker.cache \ Active.blocked /\ a \notin DOMAIN Active.told
    /\ Act([Active EXCEPT !.told = [b \in DOMAIN @ \cup {a} |-> IF b = a THEN worker.cache[a] ELSE @[b]]])
    /\ UNCHANGED <<disk, frontend, down, up, budget>>

Called == worker.pc = "busy" /\ Active.call # None /\ down # <<>> /\ down' = Tail(down)

\* _handleNestedBuild, in the suspended call
NestedBegins ==
    /\ Called /\ Order.type = "build"
    /\ worker' = [worker EXCEPT !.stack = Append(@, Running(Order.actions[1], Order.id, Order.blocked))]
    /\ UNCHANGED <<disk, frontend, up, budget>>

\* RpcSession._call: the id of the request, within this session
Answers == Order.type = "answer" /\ Order.id = Active.call.id

\* An answer that is not refused is always that to the request which waits, so
\* what was asked for is what was found.
AnswerArrives ==
    /\ Called /\ Answers /\ Order.ok
    /\ LET content == [a \in DOMAIN Order.found |->
                          IF Order.found[a] = Path THEN disk[a] ELSE Order.found[a]]
           reads == Active.call.op \in {"read", "resolve_assets"}
           told == IF Active.call.op = "read" THEN DOMAIN content ELSE {}
       IN  worker' = [worker EXCEPT
              !.cache = IF reads THEN [a \in DOMAIN @ \cup DOMAIN content |->
                                         IF a \in DOMAIN content THEN content[a] ELSE @[a]]
                        ELSE @,
              !.readable = IF Active.call.op = "read" THEN @
                           ELSE @ \cup (DOMAIN content \ Active.blocked),
              !.stack = OnTop(@, [Active EXCEPT
                  !.call = None, !.strayed = @ \/ Order.to # Active.call,
                  !.told = [a \in DOMAIN @ \cup told |->
                              IF a \in told THEN content[a] ELSE @[a]]])]
    /\ UNCHANGED <<disk, frontend, up, budget>>

\* Mutants of AnswerThrows: the exception is also sent to the frontend at
\* once; a message nobody waits for is dropped.
AnswerThrowsAloud ==
    /\ Called /\ Order.type # "build" /\ ~(Answers /\ Order.ok)
    /\ Act([Active EXCEPT !.call = None, !.upset = TRUE])
    /\ IF Order.type = "answer" THEN UNCHANGED up ELSE Send([type |-> "error", id |-> Order.id])
    /\ UNCHANGED <<disk, frontend, budget>>

AnswerThrowsOrWaits ==
    /\ Called /\ Order.type # "build" /\ ~(Answers /\ Order.ok)
    /\ IF Order.type = "answer"
       THEN Act([Active EXCEPT !.call = None, !.upset = @ \/ Active.call.op # "resolve_assets",
                               !.strayed = @ \/ (Answers /\ Order.to # Active.call)])
       ELSE UNCHANGED worker
    /\ UNCHANGED <<disk, frontend, up, budget>>

(* A refusal, or a message nobody waits for, is an exception to the builder, *)
(* which may catch it; a prefetch always does.                               *)
AnswerThrows ==
    /\ Called /\ Order.type # "build" /\ ~(Answers /\ Order.ok)
    /\ Act([Active EXCEPT !.call = None, !.upset = @ \/ Active.call.op # "resolve_assets",
                          !.strayed = @ \/ (Answers /\ Order.to # Active.call)])
    /\ UNCHANGED <<disk, frontend, up, budget>>

\* _resolverDepGraphJson: edges that the frontend has been sent are not repeated.
Unsent(assets) == assets \ worker.sent

NestedSucceeds ==
    /\ Free /\ Len(worker.stack) > 1
    /\ LET reads == DOMAIN Active.told
       IN  /\ Send([type |-> "result", id |-> Active.build, ok |-> TRUE, reads |-> reads,
                    edges |-> Unsent(reads), strayed |-> Active.strayed])
           /\ worker' = [worker EXCEPT !.stack = Pop(@), !.sent = @ \cup reads, !.entry = @ \cup reads]
    /\ UNCHANGED <<disk, frontend, down, budget>>

Succeeds ==
    /\ Free /\ Len(worker.stack) = 1
    /\ LET reads == worker.batch.reads \cup DOMAIN Active.told
           strayed == worker.batch.strayed \/ Active.strayed
           entry == worker.entry \cup DOMAIN Active.told
           next == Active.build + 1
       IN  IF next < Len(worker.batch.actions)
           THEN /\ worker' = [worker EXCEPT
                       !.batch.reads = reads, !.batch.strayed = strayed, !.entry = entry,
                       !.stack = <<Running(worker.batch.actions[next + 1], next, Active.blocked)>>]
                /\ UNCHANGED up
           ELSE /\ Send([type |-> "batch_result", id |-> worker.batch.id, count |-> next,
                         reads |-> reads, edges |-> Unsent(entry), strayed |-> strayed])
                /\ worker' = [worker EXCEPT !.pc = "loop", !.stack = <<>>, !.batch = None,
                                            !.entry = entry, !.sent = @ \cup entry]
    /\ UNCHANGED <<disk, frontend, down, budget>>

\* A builder that fails: the error result of a nested build, or an error frame.
Fails ==
    /\ Free
    /\ IF Active.upset THEN UNCHANGED budget ELSE Fault
    /\ IF Len(worker.stack) > 1
       THEN /\ Send([type |-> "result", id |-> Active.build, ok |-> FALSE, reads |-> {},
                     edges |-> {}, strayed |-> Active.strayed])
            /\ worker' = [worker EXCEPT !.stack = Pop(@)]
       ELSE /\ Send([type |-> "error", id |-> worker.batch.id])
            /\ worker' = [worker EXCEPT !.pc = "loop", !.stack = <<>>, !.batch = None]
    /\ UNCHANGED <<disk, frontend, down>>

FrontendStep == Greeted \/ Asked \/ Demand \/ Skip \/ Answer \/ NestedEnds \/ BatchEnds \/ Eof
WorkerStep ==
    \/ Control \/ BatchBegins \/ NestedBegins \/ AnswerArrives \/ AnswerThrows
    \/ NestedSucceeds \/ Succeeds

Next ==
    \/ FrontendStep \/ WorkerStep
    \/ \E batch \in Batches, changed \in BOOLEAN : Begin(batch, changed)
    \/ \E op \in Operations, a \in Assets : Ask(op, IF op = "find_assets" THEN Assets ELSE {a})
    \/ \E a \in Assets : Recall(a)
    \/ \E s \in Sources : Edit(s)
    \/ Fails \/ AnswerFails \/ Dies

Spec == Init /\ [][Next]_vars

(* Both sides read what they are sent, and a builder ends.                   *)
FairSpec == Spec /\ WF_vars(FrontendStep) /\ WF_vars(WorkerStep)

----------------------------------------------------------------------------
(* What is promised                                                          *)

TypeOK ==
    /\ disk \in [Assets -> Nat]
    /\ frontend.pc \in {"idle", "greet", "serve", "handle", "done", "failed"}
    /\ worker.pc \in {"loop", "busy", "dead"}
    /\ frontend.attempt \in 0..MaxAttempts
    /\ budget \in [edits : 0..MaxEdits, faults : 0..MaxFaults]

(* A builder is told no content but that of assets its own phase may see, as *)
(* the attempt may read them: not older than the attempt, and of an optional *)
(* asset the one built in it.  The caches are shared by actions of all       *)
(* phases and survive from one attempt to the next unless a reset clears     *)
(* them (remote_build_step.dart; asset_rpc.rs, handle_asset_request).        *)
Underway == frontend.pc \in {"serve", "handle"}
TrueToView ==
    Underway => \A i \in DOMAIN worker.stack : \A a \in DOMAIN worker.stack[i].told :
        /\ a \in Actions => Phase[a] < Phase[worker.stack[i].action]
        /\ worker.stack[i].told[a] >= frontend.floor[a]

(* Sessions number their requests alike.  An answer taken for that of another *)
(* session's request reaches no attempt that succeeds (RpcSession._call;     *)
(* client.rs, build_batch).                                                  *)
OwnAnswers == frontend.pc = "done" => ~frontend.strayed

(* An attempt that succeeds has, from itself, the dependency edges of all    *)
(* that its actions resolved, although the worker sends no edge twice and    *)
(* failed attempts drop theirs (_resolverDepGraphJson; take_dep_graph).      *)
EdgesKnown ==
    frontend.pc = "done" =>
        \A a \in frontend.reads : a \in DOMAIN frontend.edges /\ frontend.edges[a] = frontend.attempt

(* One message at most is under way, in either direction and whatever has    *)
(* failed: both sides write to pipes of limited size without reading         *)
(* (client.rs, send; protocol.dart, FrameWriter).                            *)
HalfDuplex == worker.pc # "dead" => Len(up) + Len(down) <= 1

(* Where nothing fails, no attempt does: neither edits nor refused           *)
(* prefetches nor nested demands upset the conversation.                     *)
UndisturbedSucceeds == budget.faults = MaxFaults => frontend.pc # "failed"

(* Frontend and worker never wait for each other: an attempt ends, also when *)
(* the attempt before has left the worker inside a builder.                  *)
AttemptEnds == (frontend.pc = "greet") ~> Ended(frontend.pc)

(* No run has the next two: TLC refutes them on the instance of run dialogue *)
(* (README, observations).  A failed nested demand fails the attempt, its    *)
(* outputs being left among the deleted (pool.rs:823, "Any nested demand     *)
(* failure returns to the transaction owner, which must abort publication"). *)
NestedFailureAborts == frontend.pc = "done" => frontend.deleted = {}

(* Nothing that a failed attempt resolved reaches the graph of a later one   *)
(* (pool.rs, build_parallel: "must not leak them into the next build").      *)
EdgesOwn == frontend.pc = "done" => \A a \in DOMAIN frontend.edges : frontend.edges[a] = frontend.attempt
==============================================================================
