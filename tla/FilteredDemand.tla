----------------------------- MODULE FilteredDemand -----------------------------
(***************************************************************************)
(* Demand-driven execution of a filtered build on several workers          *)
(* (rust/src/worker/lazy.rs, build_filtered in rust/src/worker/pool.rs).   *)
(*                                                                         *)
(* Every worker takes roots from a shared counter and evaluates each by    *)
(* nested demands on its own stack.  An action is claimed in the shared    *)
(* FilteredDemandCoordinator: the first worker runs it, the others sleep   *)
(* on its condition variable until it is published.  Each locked section   *)
(* is one step; what a worker does unlocked, the I/O, lies between steps.  *)
(*                                                                         *)
(* An action's output set is abstracted to one outcome; a builder, or the  *)
(* reuse check that precedes it, demands the actions of `demands` in that  *)
(* order.  Whether an action is reused, writes or omits its output, and    *)
(* whether a builder catches a failed read, is left open.                  *)
(***************************************************************************)
EXTENDS Naturals, Sequences, FiniteSets

CONSTANTS Workers,     \* number of workers
          Builds,      \* [roots, demands, primary] of some filtered builds
          Source,      \* a source outside the build-start snapshot
          None,        \* no action, no outcome, no content
          MaxFaults,   \* bound: builders that fail and workers that are lost
          MaxEdits     \* bound: edits of the source meanwhile

Worker  == 1..Workers
Outcome == {"bytes", "missing", "reused"}
Latch   == {"no", "cycle", "error"}

ASSUME DemandWorkersAssumption == Workers \in Nat \ {0}

\* Roots, demands and generated primary inputs are actions of the build.
ASSUME DemandBuildsAssumption ==
    /\ MaxFaults \in Nat /\ MaxEdits \in Nat /\ None \notin Outcome \cup Nat
    /\ \A b \in Builds :
        LET planned == DOMAIN b.demands IN
        /\ None \notin planned /\ Source \notin planned
        /\ b.roots \in Seq(planned)
        /\ b.demands \in [planned -> Seq(planned \cup {Source})]
        /\ b.primary \in [planned -> planned \cup {None}]

VARIABLES
    build,        \* the filtered build: its roots and what its actions demand
    next,         \* next_root
    actions,      \* the coordinator's state of every action
    owner,        \* the worker of a running action
    published,    \* the outcome of a complete action
    waits,        \* dependencies: the action a running action waits for
    failed,       \* the latched failure
    observation,  \* the transaction's observation of the source
    asleep,       \* workers waiting on the condition variable
    at,           \* where each worker is
    target,       \* what it demands
    stack,        \* the actions it is building, innermost last
    view,         \* its own copy of the outcomes (built_keys and overlay)
    troubled,     \* failed_demand
    sample,       \* what it read from the disk
    used,         \* contents of the source that actions have read
    disk,         \* the source
    runs,         \* times each action was evaluated
    faults, edits

coordinator == <<next, actions, owner, published, waits, failed, observation>>
locals      == <<at, target, stack, view, troubled, sample>>
vars == <<build, coordinator, asleep, locals, used, disk, runs, faults, edits>>

Action == DOMAIN build.demands

\* worker_state: every thread has a stack and a view of its own, and begins where
\* the probe has left off; the actions here are those that it found dirty.
WorkerStates ==
    /\ target = [w \in Worker |-> None]
    /\ stack = [w \in Worker |-> <<>>]
    /\ view = [w \in Worker |-> [a \in Action |-> None]]
    /\ troubled = [w \in Worker |-> FALSE]
    /\ sample = [w \in Worker |-> None]

\* As many threads as roots at most; a worker beyond them is not started.
Init ==
    /\ build \in Builds
    /\ next = 1
    /\ actions = [a \in Action |-> "idle"]
    /\ owner = [a \in Action |-> 0]
    /\ published = [a \in Action |-> None]
    /\ waits = [a \in Action |-> None]
    /\ failed = "no" /\ observation = None /\ asleep = {}
    /\ at = [w \in Worker |-> IF w <= Len(build.roots) THEN "loop" ELSE "done"]
    /\ WorkerStates
    /\ used = {} /\ disk = 0
    /\ runs = [a \in Action |-> 0]
    /\ faults = 0 /\ edits = 0

-----------------------------------------------------------------------------
Top(w)    == stack[w][Len(stack[w])]
Below(w)  == SubSeq(stack[w], 1, Len(stack[w]) - 1)
Stacked(w) == {stack[w][i].key : i \in DOMAIN stack[w]}
Parent(s) == IF s = <<>> THEN None ELSE s[Len(s)].key

\* The frame of an action that begins: its generated primary input first.
Frame(a) == [key |-> a, todo |-> build.demands[a],
             stage |-> IF build.primary[a] = None THEN "run" ELSE "primary"]

SetTop(w, f) == stack' = [stack EXCEPT ![w][Len(stack[w])] = f]
Goto(w, where) == at' = [at EXCEPT ![w] = where]

\* latch_demand_failure: the first failure stays.
LatchFailure(kind) == failed' = IF failed = "no" THEN kind ELSE failed

NotifyAll == asleep' = {}

\* record_demand_failure
RecordFailure(w) == troubled' = [troubled EXCEPT ![w] = TRUE]

\* apply_publication, or the overlay of one's own result: from now on the action
\* is built in this worker's view.
Adopt(w, action, outcome) == view' = [view EXCEPT ![w][action] = outcome]

\* Removes the edge from an action to its child, if that is still its edge.
Without(edges, parent, child) ==
    [a \in Action |-> IF a = child \/ (a = parent /\ edges[a] = child) THEN None
                      ELSE edges[a]]

-----------------------------------------------------------------------------
(* The root loop *)

\* Mutant: the last root is never handed out.
MoreRootsButLast == next < Len(build.roots)

MoreRoots == next <= Len(build.roots)

\* A failure, of this worker's own demands or latched by another, ends it.
StopFailed(w) ==
    /\ at[w] = "loop" /\ (failed # "no" \/ troubled[w])
    /\ LatchFailure("error") /\ NotifyAll
    /\ Goto(w, "failed")
    /\ UNCHANGED <<build, next, actions, owner, published, waits, observation, target,
                   stack, view, troubled, sample, used, disk, runs, faults, edits>>

TakeRoot(w) ==
    /\ at[w] = "loop" /\ failed = "no" /\ ~troubled[w]
    /\ next' = next + 1
    /\ IF MoreRoots
       THEN target' = [target EXCEPT ![w] = build.roots[next]] /\ Goto(w, "demand")
       ELSE Goto(w, "done") /\ UNCHANGED target
    /\ UNCHANGED <<build, actions, owner, published, waits, failed, observation, asleep,
                   stack, view, troubled, sample, used, disk, runs, faults, edits>>

-----------------------------------------------------------------------------
(* ensure_optional_output and claim *)

Returned(w) == IF stack[w] = <<>> THEN "loop" ELSE "body"

\* Already part of this worker's view of the transaction.
DemandBuilt(w) ==
    /\ at[w] = "demand" /\ view[w][target[w]] # None
    /\ Goto(w, Returned(w))
    /\ UNCHANGED <<build, coordinator, asleep, target, stack, view, troubled, sample, used,
                   disk, runs, faults, edits>>

\* Demanded by an action it is itself demanded for, on the same stack.
DemandOwnCycle(w) ==
    /\ at[w] = "demand" /\ view[w][target[w]] = None /\ target[w] \in Stacked(w)
    /\ Goto(w, "error")
    /\ UNCHANGED <<build, coordinator, asleep, target, stack, view, troubled, sample, used,
                   disk, runs, faults, edits>>

\* claim(), with the lock held: on arrival, or woken.
Claiming(w) ==
    /\ at[w] = "demand" /\ w \notin asleep
    /\ view[w][target[w]] = None /\ target[w] \notin Stacked(w)

ClaimFailed(w) ==
    /\ Claiming(w) /\ failed # "no"
    /\ waits' = [a \in Action |-> IF a = Parent(stack[w]) THEN None ELSE waits[a]]
    /\ RecordFailure(w)
    /\ NotifyAll
    /\ Goto(w, "error")
    /\ UNCHANGED <<build, next, actions, owner, published, failed, observation, target,
                   stack, view, sample, used, disk, runs, faults, edits>>

ClaimComplete(w) ==
    /\ Claiming(w) /\ failed = "no" /\ actions[target[w]] = "complete"
    /\ waits' = [a \in Action |-> IF a = Parent(stack[w]) THEN None ELSE waits[a]]
    /\ Adopt(w, target[w], published[target[w]])
    /\ Goto(w, Returned(w))
    /\ UNCHANGED <<build, next, actions, owner, published, failed, observation, asleep,
                   target, stack, troubled, sample, used, disk, runs, faults, edits>>

\* Mutant: whoever finds the action running evaluates it too.
MayOwnAny(w) == actions[target[w]] \in {"idle", "running"}

MayOwn(w) == actions[target[w]] = "idle"

ClaimOwner(w) ==
    /\ Claiming(w) /\ failed = "no" /\ MayOwn(w)
    /\ actions' = [actions EXCEPT ![target[w]] = "running"]
    /\ owner' = [owner EXCEPT ![target[w]] = w]
    /\ waits' = [a \in Action |-> IF a = Parent(stack[w]) THEN target[w] ELSE waits[a]]
    /\ stack' = [stack EXCEPT ![w] = Append(@, Frame(target[w]))]
    /\ runs' = [runs EXCEPT ![target[w]] = @ + 1]
    /\ Goto(w, "body")
    /\ UNCHANGED <<build, next, published, failed, observation, asleep, target, view,
                   troubled, sample, used, disk, faults, edits>>

\* The actions a chain of waits leads to: all that every set holds which has
\* the first one and, with an action, the one that it waits for.
Follow(edges, a) ==
    LET Closed(S) == a \in S /\ \A b \in S : edges[b] # None => edges[b] \in S
    IN  {b \in Action : \A S \in SUBSET Action : Closed(S) => b \in S}

\* Mutant: only the action waited for is looked at, not what it waits for.
ClosesCycleDirect(parent, child) == parent # None /\ waits[child] = parent

\* Mutant: every chain of waits is taken for a cycle.
ClosesChain(parent, child) == parent # None /\ waits[child] # None

\* Does following the waits from the child lead back to the parent?
ClosesCycle(parent, child) ==
    parent # None /\ \E b \in Follow(waits, child) : waits[b] = parent

\* Another worker runs it: note the wait, refuse it if it would close a cycle,
\* and sleep.
ClaimWait(w) ==
    LET parent == Parent(stack[w])  child == target[w] IN
    /\ Claiming(w) /\ failed = "no" /\ actions[child] = "running"
    /\ IF ClosesCycle(parent, child)
       THEN /\ LatchFailure("cycle") /\ NotifyAll
            /\ waits' = [waits EXCEPT ![parent] = None]
            /\ RecordFailure(w)
            /\ Goto(w, "error")
       ELSE /\ asleep' = asleep \cup {w}
            /\ waits' = [a \in Action |-> IF a = parent THEN child ELSE waits[a]]
            /\ UNCHANGED <<failed, at, troubled>>
    /\ UNCHANGED <<build, next, actions, owner, published, observation, target, stack, view,
                   sample, used, disk, runs, faults, edits>>

-----------------------------------------------------------------------------
(* An action's evaluation *)

Demand(w, a, f) ==
    /\ target' = [target EXCEPT ![w] = a]
    /\ SetTop(w, f)
    /\ Goto(w, "demand")
    /\ UNCHANGED <<build, coordinator, asleep, view, troubled, sample, used, disk, runs,
                   faults, edits>>

DemandPrimary(w) ==
    /\ at[w] = "body" /\ Top(w).stage = "primary"
    /\ Demand(w, build.primary[Top(w).key], [Top(w) EXCEPT !.stage = "check"])

DemandNext(w) ==
    /\ at[w] = "body" /\ Top(w).stage = "run" /\ Top(w).todo # <<>>
    /\ Head(Top(w).todo) # Source
    /\ Demand(w, Head(Top(w).todo), [Top(w) EXCEPT !.todo = Tail(@)])

\* Its generated primary input exists after all: go on with the action.
PrimaryExists(w) ==
    /\ at[w] = "body" /\ Top(w).stage = "check"
    /\ view[w][build.primary[Top(w).key]] # "missing"
    /\ SetTop(w, [Top(w) EXCEPT !.stage = "run"])
    /\ UNCHANGED <<build, coordinator, asleep, at, target, view, troubled, sample, used,
                   disk, runs, faults, edits>>

\* observe_filtered_source: the shared observation, or the file, unlocked.
ReadSource(w) ==
    /\ at[w] = "body" /\ Top(w).stage = "run" /\ Top(w).todo # <<>>
    /\ Head(Top(w).todo) = Source
    /\ sample' = [sample EXCEPT ![w] = IF observation = None THEN disk ELSE observation]
    /\ Goto(w, "observe")
    /\ UNCHANGED <<build, coordinator, asleep, target, stack, view, troubled, used, disk,
                   runs, faults, edits>>

\* Mutant: the last observation wins.
FirstOrOwnLast(w) == sample[w]

\* or_insert: the first observation wins, for everyone.
FirstOrOwn(w) == IF observation = None THEN sample[w] ELSE observation

PublishSource(w) ==
    /\ at[w] = "observe"
    /\ observation' = FirstOrOwn(w)
    /\ used' = used \cup {FirstOrOwn(w)}
    /\ SetTop(w, [Top(w) EXCEPT !.todo = Tail(@)])
    /\ Goto(w, "body")
    /\ UNCHANGED <<build, next, actions, owner, published, waits, failed, asleep, target,
                   view, troubled, sample, disk, runs, faults, edits>>

\* Mutant: the owner publishes without waking the others.
WakeNobody == UNCHANGED asleep

\* complete() wakes everyone that waits.
Wake == NotifyAll

\* complete(): the outcome is published, with what the worker's view holds.
Complete(w, outcome) ==
    LET key == Top(w).key IN
    /\ actions' = [actions EXCEPT ![key] = "complete"]
    /\ published' = [published EXCEPT ![key] = outcome]
    /\ waits' = Without(waits, Parent(Below(w)), key)
    /\ Wake
    /\ Adopt(w, key, outcome)
    /\ stack' = [stack EXCEPT ![w] = Below(w)]
    /\ Goto(w, IF Below(w) = <<>> THEN "loop" ELSE "body")
    /\ UNCHANGED <<build, next, owner, failed, observation, target, troubled, sample, used,
                   disk, runs, faults, edits>>

PrimaryMissing(w) ==
    /\ at[w] = "body" /\ Top(w).stage = "check"
    /\ view[w][build.primary[Top(w).key]] = "missing"
    /\ Complete(w, "missing")

Finish(w, outcome) ==
    /\ at[w] = "body" /\ Top(w).stage = "run" /\ Top(w).todo = <<>>
    /\ Complete(w, outcome)

\* fail(), or the guard's drop: the action fails, the failure is latched.
FailAction(w) ==
    /\ actions' = [actions EXCEPT ![Top(w).key] = "failed"]
    /\ waits' = Without(waits, Parent(Below(w)), Top(w).key)
    /\ LatchFailure("error") /\ NotifyAll
    /\ stack' = [stack EXCEPT ![w] = Below(w)]
    /\ Goto(w, "error")

\* The builder fails, or its worker process is lost.
BuilderFails(w) ==
    /\ at[w] = "body" /\ Top(w).stage = "run" /\ faults < MaxFaults
    /\ FailAction(w)
    /\ RecordFailure(w)
    /\ faults' = faults + 1
    /\ UNCHANGED <<build, next, owner, published, observation, target, view, sample, used,
                   disk, runs, edits>>

\* A failed demand fails the action that made it ...
Propagate(w) ==
    /\ at[w] = "error" /\ stack[w] # <<>>
    /\ FailAction(w)
    /\ RecordFailure(w)
    /\ UNCHANGED <<build, next, owner, published, observation, target, view, sample, used,
                   disk, runs, faults, edits>>

\* ... unless its builder catches the failed read; the failure stays latched.
Catch(w) ==
    /\ at[w] = "error" /\ stack[w] # <<>> /\ Top(w).stage = "run"
    /\ LatchFailure("error") /\ NotifyAll
    /\ RecordFailure(w)
    /\ Goto(w, "body")
    /\ UNCHANGED <<build, next, actions, owner, published, waits, observation, target, stack,
                   view, sample, used, disk, runs, faults, edits>>

RootFails(w) ==
    /\ at[w] = "error" /\ stack[w] = <<>>
    /\ LatchFailure("error") /\ NotifyAll
    /\ Goto(w, "failed")
    /\ UNCHANGED <<build, next, actions, owner, published, waits, observation, target, stack,
                   view, troubled, sample, used, disk, runs, faults, edits>>

EditSource ==
    /\ edits < MaxEdits
    /\ disk' = disk + 1 /\ edits' = edits + 1
    /\ UNCHANGED <<build, coordinator, asleep, locals, used, runs, faults>>

-----------------------------------------------------------------------------
Evaluate(w) ==
    \/ DemandPrimary(w) \/ DemandNext(w) \/ PrimaryExists(w) \/ PrimaryMissing(w)
    \/ ReadSource(w) \/ PublishSource(w) \/ BuilderFails(w)
    \/ \E outcome \in Outcome : Finish(w, outcome)

Step(w) ==
    \/ StopFailed(w) \/ TakeRoot(w)
    \/ DemandBuilt(w) \/ DemandOwnCycle(w)
    \/ ClaimFailed(w) \/ ClaimComplete(w) \/ ClaimOwner(w) \/ ClaimWait(w)
    \/ Evaluate(w)
    \/ Propagate(w) \/ Catch(w) \/ RootFails(w)

Next == EditSource \/ \E w \in Worker : Step(w)

Spec == Init /\ [][Next]_vars

\* Every worker thread runs and every builder it calls returns.
FairSpec == Spec /\ \A w \in Worker : WF_vars(Step(w))

-----------------------------------------------------------------------------
(* Properties *)

\* Every variable keeps its type; an action is running exactly while it is on
\* a worker's stack, and published exactly when it is complete.
TypeOK ==
    /\ next \in 1..(Len(build.roots) + Workers + 1)
    /\ actions \in [Action -> {"idle", "running", "complete", "failed"}]
    /\ owner \in [Action -> 0..Workers]
    /\ published \in [Action -> Outcome \cup {None}]
    /\ waits \in [Action -> Action \cup {None}]
    /\ failed \in Latch
    /\ asleep \subseteq Worker
    /\ at \in [Worker -> {"loop", "demand", "body", "observe", "error", "done", "failed"}]
    /\ view \in [Worker -> [Action -> Outcome \cup {None}]]
    /\ \A a \in Action :
        /\ actions[a] = "running" <=> \E w \in Worker : a \in Stacked(w)
        /\ actions[a] = "complete" <=> published[a] # None

\* An action is evaluated once however many workers demand it, and only by
\* the worker whose stack holds it ("that producer runs once", ADR 0033).
SingleFlight ==
    /\ \A a \in Action : runs[a] <= 1
    /\ \A v, w \in Worker : v # w => Stacked(v) \cap Stacked(w) = {}

\* What a worker's transaction view holds of an action is what the
\* coordinator published, so two consumers never act on different outcomes.
ViewsAgree ==
    \A w \in Worker, a \in Action :
        view[w][a] # None => actions[a] = "complete" /\ view[w][a] = published[a]

\* The source had one content for the whole transaction, whatever was written
\* to it between two workers' reads.
SourceReadOnce == Cardinality(used) <= 1

\* Someone who sleeps waits for an action that is running: neither a failure
\* nor a publication was missed between the check and the wait.
NoLostWakeup ==
    \A w \in asleep : failed = "no" /\ actions[target[w]] = "running"

\* What an action may demand, and whether demands cannot form a cycle: every
\* action can be ranked above those it demands.
Needs(b, a) ==
    ({b.demands[a][i] : i \in DOMAIN b.demands[a]} \cup {b.primary[a]}) \ {Source, None}

Ranked(b, rank) == \A a \in DOMAIN b.demands : \A c \in Needs(b, a) : rank[c] < rank[a]

Acyclic(b) ==
    \E rank \in [DOMAIN b.demands -> 0..Cardinality(DOMAIN b.demands)] : Ranked(b, rank)

\* Where demands cannot form a cycle, none is reported: concurrent waits are
\* never mistaken for one.
NoFalseCycle == failed = "cycle" => ~Acyclic(build)

Ended == \A w \in Worker : at[w] \in {"done", "failed"}

\* build_filtered's verdict: no worker ended in an error, no failure latched.
Succeeded == Ended /\ failed = "no" /\ \A w \in Worker : at[w] = "done"

\* Success means that every root was evaluated and that no builder failed,
\* caught or not; failure means that something did.
VerdictRight ==
    Ended => (Succeeded <=> /\ \A i \in DOMAIN build.roots :
                                    actions[build.roots[i]] = "complete"
                            /\ faults = 0 /\ ~\E w \in Worker : troubled[w])

\* The filtered build ends: nobody sleeps for ever, a cycle of waits across
\* workers included ("a wait cycle, action or IPC error, panic, or worker exit
\* fails the invocation and wakes all waiters", ADR 0033).
Terminates == <>Ended
=============================================================================
