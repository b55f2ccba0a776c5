------------------------- MODULE FilteredDemandProofs -------------------------
(* Every action is evaluated once, every worker sees its one outcome, nobody *)
(* misses a wake-up and the verdict is right, for any number of workers and  *)
(* any filtered build: theorems about FilteredDemand.                        *)
EXTENDS FilteredDemand, FiniteSetTheorems, SequenceTheorems, TLAPS

\* Names of single assignments of the model, read through everywhere.
USE DEF WorkerStates, RecordFailure, Adopt

----------------------------------------------------------------------------
(* The inductive invariant: the types; where a worker may be for the stack   *)
(* it has; one frame for every running action; what the views, the sleepers  *)
(* and the observation promise; and who answers for each root handed out.    *)

Stage == {"primary", "check", "run"}
Frames == [key : Action, todo : Seq(Action \cup {Source}), stage : Stage]

Typed ==
    /\ build \in Builds
    /\ next \in Nat \ {0}
    /\ actions \in [Action -> {"idle", "running", "complete", "failed"}]
    /\ owner \in [Action -> 0..Workers]
    /\ published \in [Action -> Outcome \cup {None}]
    /\ waits \in [Action -> Action \cup {None}]
    /\ failed \in Latch
    /\ observation \in Nat \cup {None}
    /\ asleep \subseteq Worker
    /\ at \in [Worker -> {"loop", "demand", "body", "observe", "error", "done", "failed"}]
    /\ target \in [Worker -> Action \cup {None}]
    /\ stack \in [Worker -> Seq(Frames)]
    /\ view \in [Worker -> [Action -> Outcome \cup {None}]]
    /\ troubled \in [Worker -> BOOLEAN]
    /\ sample \in [Worker -> Nat \cup {None}]
    /\ disk \in Nat
    /\ runs \in [Action -> Nat]
    /\ faults \in Nat /\ edits \in Nat

\* Where a worker may be, for its stack and what it holds.
Placed ==
    \A w \in Worker :
        /\ at[w] \in {"body", "observe"} => stack[w] # <<>>
        /\ stack[w] # <<>> => at[w] \in {"demand", "body", "observe", "error"}
        /\ at[w] = "demand" => target[w] # None
        /\ at[w] = "observe" => Top(w).todo # <<>> /\ sample[w] # None
        /\ \A i \in DOMAIN stack[w] :
               stack[w][i].stage # "run" => build.primary[stack[w][i].key] # None

\* An action is running exactly while one frame of one stack holds it.
OneFrame ==
    /\ \A w \in Worker : \A i \in DOMAIN stack[w] : actions[stack[w][i].key] = "running"
    /\ \A v, w \in Worker : \A i \in DOMAIN stack[v], j \in DOMAIN stack[w] :
           stack[v][i].key = stack[w][j].key => v = w /\ i = j
    /\ \A a \in Action :
        /\ actions[a] = "running" => \E w \in Worker : a \in Stacked(w)
        /\ actions[a] = "complete" <=> published[a] # None
        /\ runs[a] = IF actions[a] = "idle" THEN 0 ELSE 1

\* What a sleeper waits for: it has neither the outcome nor the action.
Sleeping ==
    \A w \in asleep :
        /\ at[w] = "demand" /\ failed = "no"
        /\ actions[target[w]] = "running" /\ view[w][target[w]] = None
        /\ target[w] \notin Stacked(w)

OneObservation == used = {} \/ (observation # None /\ used = {observation})

\* A worker that answers for a root: it is evaluating it, or it has failed.
AnswersFor(w, root) ==
    \/ at[w] \in {"error", "failed"} \/ troubled[w]
    \/ stack[w] = <<>> /\ at[w] = "demand" /\ target[w] = root
    \/ stack[w] # <<>> /\ stack[w][1].key = root

RootsAnswered ==
    \A i \in DOMAIN build.roots : i < next =>
        \/ actions[build.roots[i]] = "complete"
        \/ \E w \in Worker : AnswersFor(w, build.roots[i])

DoneWorkers == {w \in Worker : at[w] = "done"}

Counted ==
    /\ next <= Len(build.roots) + 1 + Cardinality(DoneWorkers)
    /\ \A w \in DoneWorkers : w > Len(build.roots) \/ next > Len(build.roots)

\* Every failure has a worker that owns up to it.
Blamed ==
    /\ failed # "no" => \E w \in Worker : troubled[w]
    /\ faults > 0 => failed # "no"
    /\ \A w \in Worker :
        /\ at[w] = "failed" => \E v \in Worker : troubled[v]
        /\ at[w] = "error" /\ stack[w] = <<>> => troubled[w]
        /\ troubled[w] => at[w] # "done"

\* Every demand and every wait is one that the plan knows.
Demanded ==
    /\ \A w \in Worker :
        /\ \A i \in DOMAIN stack[w] : \A j \in DOMAIN stack[w][i].todo :
               stack[w][i].todo[j] \in Needs(build, stack[w][i].key) \cup {Source}
        /\ at[w] = "demand" /\ stack[w] # <<>> => target[w] \in Needs(build, Top(w).key)
    /\ \A a \in Action : waits[a] # None => waits[a] \in Needs(build, a)

Coherent == Typed /\ Placed /\ OneFrame /\ ViewsAgree /\ Sleeping /\ OneObservation
Answered == RootsAnswered /\ Counted /\ Blamed
Ordered == Demanded /\ NoFalseCycle

----------------------------------------------------------------------------
(* Stacks, and what the operators on them return.                            *)

\* No step changes the build, and so its actions.
LEMMA SameBuild ==
    ASSUME build' = build
    PROVE  Action' = Action /\ Frames' = Frames
BY DEF Action, Frames

\* What the plan holds for an action.
LEMMA Planned ==
    ASSUME Typed, NEW a \in Action
    PROVE  /\ build.demands[a] \in Seq(Action \cup {Source})
           /\ build.primary[a] \in Action \cup {None}
           /\ None \notin Action /\ Source \notin Action
BY DemandBuildsAssumption DEF Typed, Action

LEMMA NoneIsNoAction == Typed => None \notin Action
BY DemandBuildsAssumption DEF Typed, Action

\* A root of the plan is an action.
LEMMA RootIsAction ==
    ASSUME Typed
    PROVE  /\ Len(build.roots) \in Nat /\ DOMAIN build.roots = 1..Len(build.roots)
           /\ \A i \in DOMAIN build.roots : build.roots[i] \in Action
<1>1. build.roots \in Seq(Action) BY DemandBuildsAssumption DEF Typed, Action
<1> QED BY <1>1

\* A worker's stack is a sequence of frames.
LEMMA StackIs ==
    ASSUME Typed, NEW w \in Worker
    PROVE  /\ stack[w] \in Seq(Frames) /\ Len(stack[w]) \in Nat
           /\ DOMAIN stack[w] = 1..Len(stack[w])
           /\ stack[w] # <<>> <=> Len(stack[w]) > 0
           /\ \A i \in DOMAIN stack[w] : stack[w][i] \in Frames /\ stack[w][i].key \in Action
<1>1. stack[w] \in Seq(Frames) BY DEF Typed
<1>2. /\ Len(stack[w]) \in Nat /\ DOMAIN stack[w] = 1..Len(stack[w])
      /\ \A i \in DOMAIN stack[w] : stack[w][i] \in Frames
      BY <1>1
<1>3. stack[w] # <<>> <=> Len(stack[w]) > 0 BY <1>1, EmptySeq
<1> QED BY <1>1, <1>2, <1>3 DEF Frames

LEMMA TopIs ==
    ASSUME Typed, NEW w \in Worker, stack[w] # <<>>
    PROVE  /\ Top(w) \in Frames /\ Top(w).key \in Action /\ Len(stack[w]) \in DOMAIN stack[w]
           /\ Top(w) = stack[w][Len(stack[w])]
BY StackIs DEF Top, Frames

\* A frame begins at the primary input or at the first demand.
LEMMA FrameIs ==
    ASSUME Typed, NEW a \in Action
    PROVE  /\ Frame(a) \in Frames /\ Frame(a).key = a
           /\ Frame(a).stage # "run" => build.primary[a] # None
BY Planned DEF Frame, Frames, Stage

\* A new innermost frame.
LEMMA Pushed ==
    ASSUME Typed, NEW w \in Worker, NEW f \in Frames,
           stack' = [stack EXCEPT ![w] = Append(@, f)]
    PROVE  /\ stack' \in [Worker -> Seq(Frames)]
           /\ \A v \in Worker \ {w} : stack'[v] = stack[v]
           /\ Len(stack'[w]) = Len(stack[w]) + 1 /\ stack'[w] # <<>>
           /\ DOMAIN stack'[w] = 1..Len(stack[w]) + 1
           /\ \A i \in 1..Len(stack[w]) : stack'[w][i] = stack[w][i]
           /\ stack'[w][Len(stack[w]) + 1] = f
<1>1. stack[w] \in Seq(Frames) BY StackIs
<1>2. stack'[w] = Append(stack[w], f) BY DEF Typed
<1>3. /\ stack'[w] \in Seq(Frames) /\ stack'[w] # <<>>
      /\ Len(stack'[w]) = Len(stack[w]) + 1
      /\ \A i \in 1..Len(stack[w]) : stack'[w][i] = stack[w][i]
      /\ stack'[w][Len(stack[w]) + 1] = f
      BY <1>1, <1>2, AppendProperties
<1>4. DOMAIN stack'[w] = 1..Len(stack[w]) + 1 BY <1>3, LenProperties
<1> QED BY <1>3, <1>4 DEF Typed

\* A sequence without its last element, and with another in its place.
LEMMA WithoutLast ==
    ASSUME NEW S, NEW s \in Seq(S), s # <<>>
    PROVE  /\ SubSeq(s, 1, Len(s) - 1) \in Seq(S)
           /\ Len(SubSeq(s, 1, Len(s) - 1)) = Len(s) - 1
           /\ DOMAIN SubSeq(s, 1, Len(s) - 1) = 1..Len(s) - 1
           /\ SubSeq(s, 1, Len(s) - 1) = <<>> <=> Len(s) = 1
           /\ \A i \in 1..Len(s) - 1 : SubSeq(s, 1, Len(s) - 1)[i] = s[i]
<1>1. Len(s) \in Nat \ {0} BY EmptySeq
<1> DEFINE n == Len(s) - 1
           t == SubSeq(s, 1, n)
<1>2. n \in Nat /\ (n = 0 <=> Len(s) = 1) /\ \A i \in 1..n : s[i] \in S BY <1>1
<1> HIDE DEF n
<1>3. t \in Seq(S) BY <1>2, SubSeqProperties
<1>4. Len(t) = IF 1 <= n THEN n - 1 + 1 ELSE 0 BY <1>2, SubSeqProperties
<1>5. Len(t) = n BY <1>2, <1>4
<1>6. \A i \in 1..n - 1 + 1 : t[i] = s[1 + i - 1] BY <1>2, SubSeqProperties
<1>7. \A i \in 1..n : t[i] = s[i] BY <1>2, <1>6
<1>8. t = <<>> <=> n = 0 BY <1>2, <1>3, <1>5, EmptySeq
<1>9. DOMAIN t = 1..n BY <1>3, <1>5, LenProperties
<1> QED BY <1>2, <1>3, <1>5, <1>7, <1>8, <1>9 DEF n

LEMMA WithLast ==
    ASSUME NEW W, NEW S, NEW stacks \in [W -> Seq(S)], NEW w \in W, stacks[w] # <<>>,
           NEW f \in S, NEW t, t = [stacks EXCEPT ![w][Len(stacks[w])] = f]
    PROVE  /\ t \in [W -> Seq(S)]
           /\ \A v \in W \ {w} : t[v] = stacks[v]
           /\ Len(t[w]) = Len(stacks[w]) /\ t[w] # <<>>
           /\ DOMAIN t[w] = DOMAIN stacks[w]
           /\ \A i \in DOMAIN stacks[w] :
                  t[w][i] = IF i = Len(stacks[w]) THEN f ELSE stacks[w][i]
<1>0. stacks[w] \in Seq(S) OBVIOUS
<1>1. Len(stacks[w]) \in Nat \ {0} /\ DOMAIN stacks[w] = 1..Len(stacks[w])
      BY <1>0, EmptySeq, LenProperties
<1>2. t[w] = [stacks[w] EXCEPT ![Len(stacks[w])] = f] OBVIOUS
<1>3. /\ t[w] \in Seq(S) /\ Len(t[w]) = Len(stacks[w])
      /\ \A i \in 1..Len(stacks[w]) : t[w][i] = IF i = Len(stacks[w]) THEN f ELSE stacks[w][i]
      BY <1>0, <1>1, <1>2, ExceptSeq
<1>4. DOMAIN t[w] = DOMAIN stacks[w] /\ t[w] # <<>> BY <1>1, <1>3, LenProperties, EmptySeq
<1>5. /\ \A v \in W \ {w} : t[v] = stacks[v]
      /\ t \in [W -> Seq(S)] BY <1>3
<1> QED BY <1>1, <1>3, <1>4, <1>5

\* The innermost frame removed.
LEMMA Popped ==
    ASSUME Typed, NEW w \in Worker, stack[w] # <<>>,
           stack' = [stack EXCEPT ![w] = Below(w)]
    PROVE  /\ stack' \in [Worker -> Seq(Frames)]
           /\ \A v \in Worker \ {w} : stack'[v] = stack[v]
           /\ stack'[w] = Below(w) /\ Len(stack'[w]) = Len(stack[w]) - 1
           /\ stack'[w] = <<>> <=> Len(stack[w]) = 1
           /\ DOMAIN stack'[w] = 1..Len(stack[w]) - 1
           /\ \A i \in 1..Len(stack[w]) - 1 : stack'[w][i] = stack[w][i]
<1>1. stack \in [Worker -> Seq(Frames)] BY DEF Typed
<1>2. stack'[w] = Below(w) BY <1>1
<1>3. stack'[w] = SubSeq(stack[w], 1, Len(stack[w]) - 1) BY <1>2 DEF Below
<1>4. /\ stack'[w] \in Seq(Frames) /\ Len(stack'[w]) = Len(stack[w]) - 1
      /\ DOMAIN stack'[w] = 1..Len(stack[w]) - 1
      /\ stack'[w] = <<>> <=> Len(stack[w]) = 1
      /\ \A i \in 1..Len(stack[w]) - 1 : stack'[w][i] = stack[w][i]
      BY <1>1, <1>3, WithoutLast
<1> QED BY <1>1, <1>2, <1>4

\* The innermost frame replaced.
LEMMA Replaced ==
    ASSUME Typed, NEW w \in Worker, stack[w] # <<>>, NEW f \in Frames, SetTop(w, f)
    PROVE  /\ stack' \in [Worker -> Seq(Frames)]
           /\ \A v \in Worker \ {w} : stack'[v] = stack[v]
           /\ Len(stack'[w]) = Len(stack[w]) /\ stack'[w] # <<>>
           /\ DOMAIN stack'[w] = DOMAIN stack[w]
           /\ \A i \in DOMAIN stack[w] :
                  stack'[w][i] = IF i = Len(stack[w]) THEN f ELSE stack[w][i]
<1>1. stack \in [Worker -> Seq(Frames)] BY DEF Typed
<1> QED BY <1>1, WithLast DEF SetTop

----------------------------------------------------------------------------
(* Types and places.                                                         *)

LEMMA BuildIsFixed ==
    ASSUME NEW w \in Worker, Step(w)
    PROVE  build' = build
BY DEF Step, Evaluate, StopFailed, TakeRoot, DemandBuilt, DemandOwnCycle, ClaimFailed,
       ClaimComplete, ClaimOwner, ClaimWait, DemandPrimary, DemandNext, Demand, PrimaryExists,
       PrimaryMissing, Finish, Complete, ReadSource, PublishSource, BuilderFails, Propagate,
       Catch, RootFails

\* The action above the innermost one, if there is one.
LEMMA ParentIs ==
    ASSUME Typed, NEW w \in Worker
    PROVE  /\ Parent(stack[w]) \in Action \cup {None}
           /\ stack[w] # <<>> => Parent(Below(w)) \in Action \cup {None}
<1>1. Parent(stack[w]) \in Action \cup {None} BY StackIs DEF Parent
<1>2. ASSUME stack[w] # <<>> PROVE Parent(Below(w)) \in Action \cup {None}
  <2>1. Below(w) \in Seq(Frames) BY <1>2, StackIs, WithoutLast DEF Below
  <2>2. Below(w) # <<>> => Below(w)[Len(Below(w))] \in Frames BY <2>1, EmptySeq
  <2> QED BY <2>2 DEF Parent, Frames
<1> QED BY <1>1, <1>2

LEMMA WithoutIs ==
    ASSUME Typed, NEW parent, NEW child
    PROVE  Without(waits, parent, child) \in [Action -> Action \cup {None}]
BY DEF Without, Typed

LEMMA StepTyped ==
    ASSUME Typed, Placed, NEW w \in Worker, Step(w)
    PROVE  Typed'
<1> USE BuildIsFixed, SameBuild
<1>1. CASE StopFailed(w)
      BY <1>1 DEF StopFailed, LatchFailure, NotifyAll, Goto, Latch, Typed
<1>2. CASE TakeRoot(w)
  <2>1. MoreRoots => build.roots[next] \in Action BY RootIsAction DEF MoreRoots, Typed
  <2>2. next' \in Nat \ {0} BY <1>2 DEF TakeRoot, Typed
  <2>3. CASE MoreRoots BY <1>2, <2>1, <2>2, <2>3 DEF TakeRoot, Goto, Typed
  <2>4. CASE ~MoreRoots BY <1>2, <2>2, <2>4 DEF TakeRoot, Goto, Typed
  <2> QED BY <2>3, <2>4
<1>3. CASE DemandBuilt(w)
      BY <1>3 DEF DemandBuilt, coordinator, Goto, Returned, Typed
<1>4. CASE DemandOwnCycle(w)
      BY <1>4 DEF DemandOwnCycle, coordinator, Goto, Typed
<1>5. CASE ClaimFailed(w)
      BY <1>5 DEF ClaimFailed, NotifyAll, Goto, Typed
<1>6. CASE ClaimComplete(w)
      BY <1>6 DEF ClaimComplete, Claiming, Goto, Returned, Typed, Placed
<1>7. CASE ClaimOwner(w)
  <2>1. target[w] \in Action BY <1>7 DEF ClaimOwner, Claiming, Typed, Placed
  <2>2. stack' \in [Worker -> Seq(Frames)] BY <1>7, <2>1, FrameIs, Pushed DEF ClaimOwner
  <2> QED BY <1>7, <2>1, <2>2 DEF ClaimOwner, Goto, Typed, Worker
<1>8. CASE ClaimWait(w)
  <2>1. target[w] \in Action BY <1>8 DEF ClaimWait, Claiming, Typed, Placed
  <2>2. CASE ClosesCycle(Parent(stack[w]), target[w])
        BY <1>8, <2>1, <2>2 DEF ClaimWait, LatchFailure, Latch, NotifyAll, Goto, Typed
  <2>3. CASE ~ClosesCycle(Parent(stack[w]), target[w])
    <3>1. waits' \in [Action -> Action \cup {None}] /\ asleep' \subseteq Worker
      <4>1. /\ asleep' = asleep \cup {w}
            /\ waits' = [a \in Action |-> IF a = Parent(stack[w]) THEN target[w] ELSE waits[a]]
            BY <1>8, <2>3 DEF ClaimWait
      <4> QED BY <2>1, <4>1 DEF Typed
    <3>2. UNCHANGED <<build, next, actions, owner, published, observation, target, stack, view,
                      sample, disk, runs, faults, edits, failed, at, troubled>>
          BY <1>8, <2>3 DEF ClaimWait
    <3> QED BY <3>1, <3>2 DEF Typed
  <2> QED BY <2>2, <2>3
<1>9. CASE DemandPrimary(w)
  <2>1. stack[w] # <<>> BY <1>9 DEF DemandPrimary, Placed
  <2>2. build.primary[Top(w).key] \in Action
        BY <1>9, <2>1, TopIs, Planned DEF DemandPrimary, Placed
  <2>3. [Top(w) EXCEPT !.stage = "check"] \in Frames BY <2>1, TopIs DEF Frames, Stage
  <2>4. stack' \in [Worker -> Seq(Frames)]
        BY <1>9, <2>1, <2>3, Replaced DEF DemandPrimary, Demand
  <2> QED BY <1>9, <2>2, <2>4 DEF DemandPrimary, Demand, coordinator, Goto, Typed
<1>10. CASE DemandNext(w)
  <2>1. stack[w] # <<>> BY <1>10 DEF DemandNext, Placed
  <2>2. Top(w).todo \in Seq(Action \cup {Source}) /\ Top(w).todo # <<>>
        BY <1>10, <2>1, TopIs DEF DemandNext, Frames
  <2>3. Head(Top(w).todo) \in Action /\ Tail(Top(w).todo) \in Seq(Action \cup {Source})
        BY <1>10, <2>2, HeadTailProperties DEF DemandNext
  <2>4. [Top(w) EXCEPT !.todo = Tail(@)] \in Frames BY <2>1, <2>3, TopIs DEF Frames
  <2>5. stack' \in [Worker -> Seq(Frames)]
        BY <1>10, <2>1, <2>4, Replaced DEF DemandNext, Demand
  <2> QED BY <1>10, <2>3, <2>5 DEF DemandNext, Demand, coordinator, Goto, Typed
<1>11. CASE PrimaryExists(w)
  <2>1. stack[w] # <<>> BY <1>11 DEF PrimaryExists, Placed
  <2>2. [Top(w) EXCEPT !.stage = "run"] \in Frames BY <2>1, TopIs DEF Frames, Stage
  <2>3. stack' \in [Worker -> Seq(Frames)] BY <1>11, <2>1, <2>2, Replaced DEF PrimaryExists
  <2> QED BY <1>11, <2>3 DEF PrimaryExists, coordinator, Typed
<1>12. ASSUME NEW outcome \in Outcome, Complete(w, outcome), at[w] = "body" PROVE Typed'
  <2>1. stack[w] # <<>> BY <1>12 DEF Placed
  <2>2. stack' \in [Worker -> Seq(Frames)] BY <1>12, <2>1, Popped DEF Complete
  <2>3. waits' \in [Action -> Action \cup {None}] BY <1>12, WithoutIs DEF Complete
  <2> QED BY <1>12, <2>1, <2>2, <2>3, TopIs DEF Complete, Wake, NotifyAll, Goto, Typed
<1>13. CASE PrimaryMissing(w) BY <1>12, <1>13 DEF PrimaryMissing, Outcome
<1>14. CASE \E outcome \in Outcome : Finish(w, outcome) BY <1>12, <1>14 DEF Finish
<1>15. CASE ReadSource(w)
       BY <1>15 DEF ReadSource, coordinator, Goto, Typed
<1>16. CASE PublishSource(w)
  <2>1. stack[w] # <<>> /\ Top(w).todo # <<>> BY <1>16 DEF PublishSource, Placed
  <2>2. [Top(w) EXCEPT !.todo = Tail(@)] \in Frames
        BY <2>1, TopIs, HeadTailProperties DEF Frames
  <2>3. stack' \in [Worker -> Seq(Frames)] BY <1>16, <2>1, <2>2, Replaced DEF PublishSource
  <2> QED BY <1>16, <2>3 DEF PublishSource, FirstOrOwn, Goto, Typed
<1>17. ASSUME FailAction(w), stack[w] # <<>>
       PROVE  /\ stack' \in [Worker -> Seq(Frames)]
              /\ waits' \in [Action -> Action \cup {None}]
              /\ actions' \in [Action -> {"idle", "running", "complete", "failed"}]
              /\ failed' \in Latch /\ asleep' = {}
              /\ at' = [at EXCEPT ![w] = "error"]
  <2>1. stack' \in [Worker -> Seq(Frames)] BY <1>17, Popped DEF FailAction
  <2>2. waits' \in [Action -> Action \cup {None}] BY <1>17, WithoutIs DEF FailAction
  <2> QED BY <1>17, <2>1, <2>2 DEF FailAction, LatchFailure, Latch, NotifyAll, Goto, Typed
<1>18. CASE BuilderFails(w)
  <2>1. stack[w] # <<>> BY <1>18 DEF BuilderFails, Placed
  <2>2. faults' \in Nat /\ troubled' \in [Worker -> BOOLEAN] BY <1>18 DEF BuilderFails, Typed
  <2>3. FailAction(w) BY <1>18 DEF BuilderFails
  <2> QED BY <1>17, <1>18, <2>1, <2>2, <2>3 DEF BuilderFails, Typed
<1>19. CASE Propagate(w) BY <1>17, <1>19 DEF Propagate, Typed
<1>20. CASE Catch(w) BY <1>20 DEF Catch, LatchFailure, Latch, NotifyAll, Goto, Typed
<1>21. CASE RootFails(w) BY <1>21 DEF RootFails, LatchFailure, Latch, NotifyAll, Goto, Typed
<1> QED BY <1>1, <1>2, <1>3, <1>4, <1>5, <1>6, <1>7, <1>8, <1>9, <1>10, <1>11, <1>13, <1>14,
           <1>15, <1>16, <1>18, <1>19, <1>20, <1>21 DEF Step, Evaluate

\* The place of one worker.
PlacedAt(w) ==
    /\ at[w] \in {"body", "observe"} => stack[w] # <<>>
    /\ stack[w] # <<>> => at[w] \in {"demand", "body", "observe", "error"}
    /\ at[w] = "demand" => target[w] # None
    /\ at[w] = "observe" => Top(w).todo # <<>> /\ sample[w] # None
    /\ \A i \in DOMAIN stack[w] :
           stack[w][i].stage # "run" => build.primary[stack[w][i].key] # None

\* A step moves its own worker only.
LEMMA OthersKeepStack ==
    ASSUME Typed, NEW w \in Worker, Step(w), NEW v \in Worker \ {w}
    PROVE  at'[v] = at[v] /\ target'[v] = target[v] /\ stack'[v] = stack[v] /\ sample'[v] = sample[v]
BY DEF Typed, Step, Evaluate, StopFailed, TakeRoot, DemandBuilt, DemandOwnCycle, ClaimFailed,
       ClaimComplete, ClaimOwner, ClaimWait, DemandPrimary, DemandNext, Demand, SetTop,
       PrimaryExists, PrimaryMissing, Finish, Complete, ReadSource, PublishSource,
       BuilderFails, FailAction, Propagate, Catch, RootFails, Goto

LEMMA OthersKeepPlace ==
    ASSUME Typed, Placed, NEW w \in Worker, Step(w), NEW v \in Worker \ {w}
    PROVE  PlacedAt(v)'
<1>1. at'[v] = at[v] /\ target'[v] = target[v] /\ stack'[v] = stack[v] /\ sample'[v] = sample[v]
      BY OthersKeepStack
<1>2. build' = build BY BuildIsFixed
<1> QED BY <1>1, <1>2 DEF PlacedAt, Placed, Top

LEMMA StepPlaced ==
    ASSUME Typed, Placed, NEW w \in Worker, Step(w)
    PROVE  Placed'
<1>0. build' = build /\ PlacedAt(w) BY BuildIsFixed DEF Placed, PlacedAt
<1>1. SUFFICES PlacedAt(w)' BY OthersKeepPlace DEF Placed, PlacedAt
<1>2. ASSUME stack'[w] = stack[w], at'[w] \in {"loop", "demand", "body", "error", "done", "failed"},
             at'[w] = "demand" => target'[w] # None,
             stack[w] = <<>> => at'[w] # "body",
             stack[w] # <<>> => at'[w] \notin {"loop", "done", "failed"}
      PROVE  PlacedAt(w)'
      BY <1>0, <1>2 DEF PlacedAt
<1>3. CASE StopFailed(w) BY <1>0, <1>2, <1>3 DEF StopFailed, Goto, Typed, PlacedAt
<1>4. CASE TakeRoot(w)
  <2>1. MoreRoots => build.roots[next] \in Action /\ None \notin Action
        BY RootIsAction, NoneIsNoAction DEF MoreRoots, Typed
  <2>2. at'[w] \in {"demand", "done"} /\ stack'[w] = <<>>
        BY <1>0, <1>4 DEF TakeRoot, Goto, Typed, PlacedAt
  <2>3. at'[w] = "demand" => target'[w] # None BY <1>4, <2>1 DEF TakeRoot, Goto, Typed
  <2> QED BY <2>2, <2>3 DEF PlacedAt
<1>5. CASE DemandBuilt(w) BY <1>2, <1>5 DEF DemandBuilt, Goto, Returned, Typed
<1>6. CASE DemandOwnCycle(w) BY <1>2, <1>6 DEF DemandOwnCycle, Goto, Typed
<1>7. CASE ClaimFailed(w) BY <1>2, <1>7 DEF ClaimFailed, Goto, Typed
<1>8. CASE ClaimComplete(w) BY <1>2, <1>8 DEF ClaimComplete, Goto, Returned, Typed
<1>9. CASE ClaimOwner(w)
  <2>1. target[w] \in Action BY <1>9 DEF ClaimOwner, Claiming, Typed, Placed
  <2>2. PICK f \in Frames : /\ f.key = target[w] /\ (f.stage # "run" => build.primary[f.key] # None)
                            /\ stack' = [stack EXCEPT ![w] = Append(@, f)]
        BY <1>9, <2>1, FrameIs DEF ClaimOwner
  <2>3. at'[w] = "body" BY <1>9 DEF ClaimOwner, Goto, Typed
  <2>4. /\ stack'[w] # <<>> /\ DOMAIN stack'[w] = 1..Len(stack[w]) + 1
        /\ \A i \in 1..Len(stack[w]) : stack'[w][i] = stack[w][i]
        /\ stack'[w][Len(stack[w]) + 1] = f
        BY <2>2, Pushed
  <2>5. Len(stack[w]) \in Nat /\ DOMAIN stack[w] = 1..Len(stack[w]) BY StackIs
  <2>6. ASSUME NEW i \in DOMAIN stack'[w]
        PROVE  stack'[w][i].stage # "run" => build.primary[stack'[w][i].key] # None
        BY <1>0, <2>2, <2>4, <2>5 DEF PlacedAt
  <2> QED BY <1>0, <2>3, <2>4, <2>6 DEF PlacedAt
<1>10. CASE ClaimWait(w)
       BY <1>0, <1>2, <1>10 DEF ClaimWait, Claiming, Goto, Typed, PlacedAt
<1>11. ASSUME NEW f \in Frames, SetTop(w, f), stack[w] # <<>>, f.key = Top(w).key,
              f.stage # "run" => build.primary[f.key] # None,
              at'[w] \in {"demand", "body"}, at'[w] = "demand" => target'[w] # None
       PROVE  PlacedAt(w)'
  <2>1. /\ stack'[w] # <<>> /\ DOMAIN stack'[w] = DOMAIN stack[w]
        /\ \A i \in DOMAIN stack[w] :
               stack'[w][i] = IF i = Len(stack[w]) THEN f ELSE stack[w][i]
        BY <1>11, Replaced
  <2> QED BY <1>0, <1>11, <2>1 DEF PlacedAt
<1>12. CASE DemandPrimary(w)
  <2>1. stack[w] # <<>> BY <1>12 DEF DemandPrimary, Placed
  <2>2. Top(w) \in Frames /\ build.primary[Top(w).key] # None
        BY <1>12, <2>1, TopIs DEF DemandPrimary, Placed
  <2> DEFINE f == [Top(w) EXCEPT !.stage = "check"]
  <2>3. f \in Frames /\ f.key = Top(w).key BY <2>2 DEF Frames, Stage
  <2>4. SetTop(w, f) /\ at'[w] = "demand" /\ target'[w] # None
        BY <1>12, <2>2 DEF DemandPrimary, Demand, Goto, Typed
  <2> QED BY <1>11, <2>1, <2>2, <2>3, <2>4
<1>13. CASE DemandNext(w)
  <2>1. stack[w] # <<>> BY <1>13 DEF DemandNext, Placed
  <2>2. Top(w).todo \in Seq(Action \cup {Source}) /\ Top(w).todo # <<>> /\ Top(w) \in Frames
        BY <1>13, <2>1, TopIs DEF DemandNext, Frames
  <2>3. Head(Top(w).todo) \in Action /\ Tail(Top(w).todo) \in Seq(Action \cup {Source})
        BY <1>13, <2>2, HeadTailProperties DEF DemandNext
  <2> DEFINE f == [Top(w) EXCEPT !.todo = Tail(@)]
  <2>4. f \in Frames /\ f.key = Top(w).key /\ f.stage = "run"
        BY <1>13, <2>2, <2>3 DEF Frames, DemandNext
  <2>5. None \notin Action BY NoneIsNoAction
  <2>6. SetTop(w, f) /\ at'[w] = "demand" /\ target'[w] # None
        BY <1>13, <2>3, <2>5 DEF DemandNext, Demand, Goto, Typed
  <2> QED BY <1>11, <2>1, <2>4, <2>6
<1>14. CASE PrimaryExists(w)
  <2>1. stack[w] # <<>> /\ Top(w) \in Frames BY <1>14, TopIs DEF PrimaryExists, Placed
  <2> DEFINE f == [Top(w) EXCEPT !.stage = "run"]
  <2>2. f \in Frames /\ f.key = Top(w).key /\ f.stage = "run" BY <2>1 DEF Frames, Stage
  <2>3. SetTop(w, f) /\ at'[w] = "body" BY <1>14 DEF PrimaryExists
  <2> QED BY <1>11, <2>1, <2>2, <2>3
<1>15. ASSUME at[w] \in {"body", "error"}, stack[w] # <<>>,
              stack' = [stack EXCEPT ![w] = Below(w)],
              \/ at'[w] = "error"
              \/ at'[w] = (IF Below(w) = <<>> THEN "loop" ELSE "body")
       PROVE  PlacedAt(w)'
  <2>1. /\ stack'[w] = Below(w) /\ DOMAIN stack'[w] = 1..Len(stack[w]) - 1
        /\ \A i \in 1..Len(stack[w]) - 1 : stack'[w][i] = stack[w][i]
        BY <1>15, Popped
  <2>2. DOMAIN stack[w] = 1..Len(stack[w]) /\ Len(stack[w]) \in Nat BY StackIs
  <2> QED BY <1>0, <1>15, <2>1, <2>2 DEF PlacedAt
<1>16. CASE PrimaryMissing(w)
       BY <1>15, <1>16 DEF PrimaryMissing, Complete, Goto, Typed, Placed
<1>17. CASE \E outcome \in Outcome : Finish(w, outcome)
       BY <1>15, <1>17 DEF Finish, Complete, Goto, Typed, Placed
<1>18. CASE ReadSource(w)
  <2>1. observation # None \/ disk # None BY DemandBuildsAssumption DEF Typed
  <2>2. /\ at'[w] = "observe" /\ sample'[w] # None /\ stack' = stack /\ stack[w] # <<>>
        /\ Top(w).todo # <<>>
        BY <1>18, <2>1 DEF ReadSource, Goto, Typed, Placed
  <2> QED BY <1>0, <2>2 DEF PlacedAt, Top
<1>19. CASE PublishSource(w)
  <2>1. stack[w] # <<>> /\ Top(w).todo # <<>> /\ Top(w) \in Frames
        BY <1>19, TopIs DEF PublishSource, Placed
  <2> DEFINE f == [Top(w) EXCEPT !.todo = Tail(@)]
  <2>2. f \in Frames /\ f.key = Top(w).key /\ f.stage = Top(w).stage
        BY <2>1, HeadTailProperties DEF Frames
  <2>3. f.stage # "run" => build.primary[f.key] # None BY <1>0, <2>1, <2>2, TopIs DEF PlacedAt
  <2>4. SetTop(w, f) /\ at'[w] = "body" BY <1>19 DEF PublishSource, Goto, Typed
  <2> QED BY <1>11, <2>1, <2>2, <2>3, <2>4
<1>20. CASE BuilderFails(w)
       BY <1>15, <1>20 DEF BuilderFails, FailAction, Goto, Typed, Placed
<1>21. CASE Propagate(w) BY <1>15, <1>21 DEF Propagate, FailAction, Goto, Typed
<1>22. CASE Catch(w) BY <1>2, <1>22 DEF Catch, Goto, Typed
<1>23. CASE RootFails(w) BY <1>2, <1>23 DEF RootFails, Goto, Typed
<1> QED BY <1>3, <1>4, <1>5, <1>6, <1>7, <1>8, <1>9, <1>10, <1>12, <1>13, <1>14, <1>16, <1>17,
           <1>18, <1>19, <1>20, <1>21, <1>22, <1>23 DEF Step, Evaluate

----------------------------------------------------------------------------
(* One frame for every running action.                                       *)

\* While every stack keeps its actions and no action changes state.
LEMMA KeysKept ==
    ASSUME OneFrame, build' = build, UNCHANGED <<actions, published, runs>>,
           \A v \in Worker : /\ DOMAIN stack'[v] = DOMAIN stack[v]
                             /\ \A i \in DOMAIN stack[v] : stack'[v][i].key = stack[v][i].key
    PROVE  OneFrame'
<1>1. Action' = Action BY DEF Action
<1>2. \A v \in Worker : Stacked(v)' = Stacked(v) BY DEF Stacked
<1>3. \A v \in Worker : \A i \in DOMAIN stack'[v] : actions'[stack'[v][i].key] = "running"
      BY DEF OneFrame
<1>4. \A v, x \in Worker : \A i \in DOMAIN stack'[v], j \in DOMAIN stack'[x] :
          stack'[v][i].key = stack'[x][j].key => v = x /\ i = j
      BY DEF OneFrame
<1>5. \A a \in Action :
        /\ actions'[a] = "running" => \E v \in Worker : a \in Stacked(v)'
        /\ actions'[a] = "complete" <=> published'[a] # None
        /\ runs'[a] = IF actions'[a] = "idle" THEN 0 ELSE 1
      BY <1>2 DEF OneFrame
<1> QED BY <1>1, <1>3, <1>4, <1>5 DEF OneFrame

\* The innermost frame leaves the stack as its action leaves "running".
LEMMA FrameLeaves ==
    ASSUME Typed, OneFrame, NEW w \in Worker, stack[w] # <<>>, build' = build, runs' = runs,
           stack' = [stack EXCEPT ![w] = Below(w)],
           \/ /\ actions' = [actions EXCEPT ![Top(w).key] = "complete"]
              /\ \E outcome \in Outcome :
                     published' = [published EXCEPT ![Top(w).key] = outcome]
           \/ /\ actions' = [actions EXCEPT ![Top(w).key] = "failed"]
              /\ published' = published
    PROVE  OneFrame'
<1> DEFINE n == Len(stack[w])
           key == Top(w).key
<1>1. /\ n \in Nat \ {0} /\ DOMAIN stack[w] = 1..n /\ key \in Action /\ stack[w][n].key = key
      BY StackIs, TopIs
<1>2. /\ \A v \in Worker \ {w} : stack'[v] = stack[v]
      /\ DOMAIN stack'[w] = 1..n - 1 /\ \A i \in 1..n - 1 : stack'[w][i] = stack[w][i]
      BY Popped
<1>3. /\ Action' = Action
      /\ actions[key] = "running" /\ actions'[key] \in {"complete", "failed"}
      /\ \A a \in Action \ {key} : actions'[a] = actions[a] /\ published'[a] = published[a]
      BY <1>1 DEF Action, OneFrame, Typed
<1> HIDE DEF n, key
<1>4. \A v \in Worker : /\ DOMAIN stack'[v] \subseteq DOMAIN stack[v]
                        /\ \A i \in DOMAIN stack'[v] : stack'[v][i] = stack[v][i]
      BY <1>1, <1>2
<1>5. \A v \in Worker : \A i \in DOMAIN stack'[v] : stack'[v][i].key # key
  <2> SUFFICES ASSUME NEW v \in Worker, NEW i \in DOMAIN stack'[v], stack'[v][i].key = key
               PROVE  FALSE
      OBVIOUS
  <2>1. n \in DOMAIN stack[w] /\ i \in DOMAIN stack[v] /\ stack[v][i].key = stack[w][n].key
        BY <1>1, <1>4
  <2>2. v = w /\ i = n BY <2>1 DEF OneFrame
  <2> QED BY <1>1, <1>2, <2>2
<1>6. \A v \in Worker : \A i \in DOMAIN stack'[v] : actions'[stack'[v][i].key] = "running"
  <2> SUFFICES ASSUME NEW v \in Worker, NEW i \in DOMAIN stack'[v]
               PROVE  actions'[stack'[v][i].key] = "running"
      OBVIOUS
  <2>1. stack[v][i].key \in Action \ {key} BY <1>4, <1>5, StackIs
  <2> QED BY <1>3, <1>4, <2>1 DEF OneFrame
<1>7. \A v, x \in Worker : \A i \in DOMAIN stack'[v], j \in DOMAIN stack'[x] :
          stack'[v][i].key = stack'[x][j].key => v = x /\ i = j
      BY <1>4 DEF OneFrame
<1>8. ASSUME NEW a \in Action, actions'[a] = "running"
      PROVE  \E v \in Worker : a \in Stacked(v)'
  <2>1. a # key /\ actions[a] = "running" BY <1>3, <1>8
  <2>2. PICK v \in Worker : \E i \in DOMAIN stack[v] : a = stack[v][i].key
        BY <2>1 DEF OneFrame, Stacked
  <2>3. PICK i \in DOMAIN stack[v] : a = stack[v][i].key BY <2>2
  <2>4. i \in DOMAIN stack'[v] /\ stack'[v][i] = stack[v][i]
        BY <1>1, <1>2, <2>1, <2>3
  <2> QED BY <2>3, <2>4 DEF Stacked
<1>9. \A a \in Action :
        /\ actions'[a] = "complete" <=> published'[a] # None
        /\ runs'[a] = IF actions'[a] = "idle" THEN 0 ELSE 1
  <2>1. published'[key] # None <=> actions'[key] = "complete"
        BY <1>1, <1>3, DemandBuildsAssumption DEF OneFrame, Typed, key
  <2> QED BY <1>1, <1>3, <2>1 DEF OneFrame
<1> QED BY <1>3, <1>6, <1>7, <1>8, <1>9 DEF OneFrame

\* A claimed action, idle until now, gets its frame.
LEMMA FrameEnters ==
    ASSUME Typed, Placed, OneFrame, NEW w \in Worker, ClaimOwner(w)
    PROVE  OneFrame'
<1> DEFINE n == Len(stack[w])
           key == target[w]
<1>1. key \in Action /\ actions[key] = "idle" /\ actions'[key] = "running"
      BY DEF ClaimOwner, Claiming, MayOwn, Typed, Placed
<1>2. n \in Nat /\ DOMAIN stack[w] = 1..n BY StackIs
<1>3. /\ \A v \in Worker \ {w} : stack'[v] = stack[v]
      /\ DOMAIN stack'[w] = 1..n + 1 /\ \A i \in 1..n : stack'[w][i] = stack[w][i]
      /\ stack'[w][n + 1].key = key
      BY ZenonT(40), <1>1, Pushed, FrameIs DEF ClaimOwner
<1>4. /\ Action' = Action
      /\ \A a \in Action \ {key} : actions'[a] = actions[a] /\ runs'[a] = runs[a]
      /\ published' = published /\ runs'[key] = runs[key] + 1
      BY <1>1 DEF ClaimOwner, Action, Typed
<1> HIDE DEF n, key
<1>5. \A v \in Worker : \A i \in DOMAIN stack'[v] :
          \/ i \in DOMAIN stack[v] /\ stack'[v][i] = stack[v][i]
          \/ v = w /\ i = n + 1 /\ stack'[v][i].key = key
      BY <1>2, <1>3
<1>6. \A v \in Worker : \A i \in DOMAIN stack[v] :
          /\ stack[v][i].key # key /\ stack[v][i].key \in Action
          /\ i \in DOMAIN stack'[v] /\ stack'[v][i] = stack[v][i]
  <2> SUFFICES ASSUME NEW v \in Worker, NEW i \in DOMAIN stack[v]
               PROVE  /\ stack[v][i].key # key /\ stack[v][i].key \in Action
                      /\ i \in DOMAIN stack'[v] /\ stack'[v][i] = stack[v][i]
      OBVIOUS
  <2>1. stack[v][i].key # key /\ stack[v][i].key \in Action BY <1>1, StackIs DEF OneFrame
  <2>2. i \in DOMAIN stack'[v] /\ stack'[v][i] = stack[v][i] BY <1>2, <1>3
  <2> QED BY <2>1, <2>2
<1>7. \A v \in Worker : \A i \in DOMAIN stack'[v] : actions'[stack'[v][i].key] = "running"
      BY <1>1, <1>4, <1>5, <1>6 DEF OneFrame
<1>8. \A v, x \in Worker : \A i \in DOMAIN stack'[v], j \in DOMAIN stack'[x] :
          stack'[v][i].key = stack'[x][j].key => v = x /\ i = j
      BY <1>5, <1>6 DEF OneFrame
<1>9. ASSUME NEW a \in Action, actions'[a] = "running"
      PROVE  \E v \in Worker : a \in Stacked(v)'
  <2>1. CASE a = key
    <3>1. n + 1 \in DOMAIN stack'[w] /\ stack'[w][n + 1].key = a BY <1>2, <1>3, <2>1
    <3> QED BY <3>1 DEF Stacked
  <2>2. CASE a # key
    <3>1. PICK v \in Worker : \E i \in DOMAIN stack[v] : a = stack[v][i].key
          BY <1>4, <1>9, <2>2 DEF OneFrame, Stacked
    <3> QED BY <1>6, <3>1 DEF Stacked
  <2> QED BY <2>1, <2>2
<1>10. \A a \in Action :
        /\ actions'[a] = "complete" <=> published'[a] # None
        /\ runs'[a] = IF actions'[a] = "idle" THEN 0 ELSE 1
  <2>1. runs[key] = 0 /\ published'[key] = None BY <1>1, <1>4 DEF OneFrame
  <2> QED BY <1>1, <1>4, <2>1 DEF OneFrame
<1> QED BY <1>4, <1>7, <1>8, <1>9, <1>10 DEF OneFrame

LEMMA StepOneFrame ==
    ASSUME Typed, Placed, OneFrame, NEW w \in Worker, Step(w)
    PROVE  OneFrame'
<1>0. build' = build BY BuildIsFixed
<1>1. ASSUME UNCHANGED <<stack, actions, published, runs>> PROVE OneFrame'
      BY <1>0, <1>1, KeysKept
<1>2. CASE StopFailed(w) BY <1>1, <1>2 DEF StopFailed
<1>3. CASE TakeRoot(w) BY <1>1, <1>3 DEF TakeRoot
<1>4. CASE DemandBuilt(w) BY <1>1, <1>4 DEF DemandBuilt, coordinator
<1>5. CASE DemandOwnCycle(w) BY <1>1, <1>5 DEF DemandOwnCycle, coordinator
<1>6. CASE ClaimFailed(w) BY <1>1, <1>6 DEF ClaimFailed
<1>7. CASE ClaimComplete(w) BY <1>1, <1>7 DEF ClaimComplete
<1>8. CASE ClaimWait(w) BY <1>1, <1>8 DEF ClaimWait
<1>9. CASE ReadSource(w) BY <1>1, <1>9 DEF ReadSource, coordinator
<1>10. CASE Catch(w) BY <1>1, <1>10 DEF Catch
<1>11. CASE RootFails(w) BY <1>1, <1>11 DEF RootFails
<1>12. CASE ClaimOwner(w) BY <1>12, FrameEnters
<1>13. ASSUME NEW f \in Frames, SetTop(w, f), stack[w] # <<>>, f.key = Top(w).key,
              UNCHANGED <<actions, published, runs>>
       PROVE  OneFrame'
  <2>1. /\ \A v \in Worker \ {w} : stack'[v] = stack[v]
        /\ DOMAIN stack'[w] = DOMAIN stack[w]
        /\ \A i \in DOMAIN stack[w] : stack'[w][i].key = stack[w][i].key
        BY <1>13, Replaced, TopIs
  <2> QED BY <1>0, <1>13, <2>1, KeysKept
<1>14. ASSUME at[w] \in {"body", "observe"}
       PROVE  /\ stack[w] # <<>> /\ Top(w) \in Frames
              /\ \A stage \in Stage : LET f == [Top(w) EXCEPT !.stage = stage]
                                      IN  f \in Frames /\ f.key = Top(w).key
              /\ Top(w).todo # <<>> => LET f == [Top(w) EXCEPT !.todo = Tail(@)]
                                       IN  f \in Frames /\ f.key = Top(w).key
  <2>1. stack[w] # <<>> /\ Top(w) \in Frames BY <1>14, TopIs DEF Placed
  <2> QED BY <2>1, HeadTailProperties DEF Frames
<1>15. CASE DemandPrimary(w)
       BY <1>13, <1>14, <1>15 DEF DemandPrimary, Demand, coordinator, Stage
<1>16. CASE DemandNext(w) BY <1>13, <1>14, <1>16 DEF DemandNext, Demand, coordinator
<1>17. CASE PrimaryExists(w) BY <1>13, <1>14, <1>17 DEF PrimaryExists, coordinator, Stage
<1>18. CASE PublishSource(w) BY <1>13, <1>14, <1>18 DEF PublishSource, Placed
<1>19. ASSUME NEW outcome \in Outcome, Complete(w, outcome), at[w] = "body" PROVE OneFrame'
       BY <1>0, <1>14, <1>19, FrameLeaves DEF Complete
<1>20. CASE PrimaryMissing(w) BY <1>19, <1>20 DEF PrimaryMissing, Outcome
<1>21. CASE \E outcome \in Outcome : Finish(w, outcome) BY <1>19, <1>21 DEF Finish
<1>22. CASE BuilderFails(w)
       BY <1>0, <1>14, <1>22, FrameLeaves DEF BuilderFails, FailAction
<1>23. CASE Propagate(w) BY <1>0, <1>23, FrameLeaves DEF Propagate, FailAction
<1> QED BY <1>2, <1>3, <1>4, <1>5, <1>6, <1>7, <1>8, <1>9, <1>10, <1>11, <1>12, <1>15, <1>16,
           <1>17, <1>18, <1>20, <1>21, <1>22, <1>23 DEF Step, Evaluate

----------------------------------------------------------------------------
(* Views, sleepers and the observation.                                      *)

LEMMA StepViewsAgree ==
    ASSUME Typed, Placed, OneFrame, ViewsAgree, NEW w \in Worker, Step(w)
    PROVE  ViewsAgree'
<1>0. Action' = Action BY BuildIsFixed, SameBuild
<1>1. ASSUME UNCHANGED <<view, actions, published>> PROVE ViewsAgree'
      BY <1>0, <1>1 DEF ViewsAgree
<1>2. ASSUME view' = view, published' = published,
             NEW key, actions[key] # "complete", NEW now, actions' = [actions EXCEPT ![key] = now]
      PROVE  ViewsAgree'
      BY <1>0, <1>2 DEF ViewsAgree, Typed
<1>3. CASE ClaimOwner(w)
  <2>1. actions[target[w]] # "complete" BY <1>3 DEF ClaimOwner, MayOwn
  <2> QED BY <1>2, <1>3, <2>1 DEF ClaimOwner
<1>4. CASE ClaimComplete(w)
  <2>1. target[w] \in Action BY <1>4 DEF ClaimComplete, Claiming, Typed, Placed
  <2>2. /\ actions' = actions /\ published' = published /\ actions[target[w]] = "complete"
        /\ view' = [view EXCEPT ![w][target[w]] = published[target[w]]]
        BY <1>4 DEF ClaimComplete
  <2> QED BY <1>0, <2>1, <2>2 DEF ViewsAgree, Typed
<1>5. ASSUME NEW outcome \in Outcome, Complete(w, outcome), at[w] = "body" PROVE ViewsAgree'
  <2> DEFINE key == Top(w).key
  <2>1. stack[w] # <<>> BY <1>5 DEF Placed
  <2>2. key \in Action /\ actions[key] = "running" BY <2>1, TopIs DEF OneFrame
  <2>3. \A v \in Worker : view[v][key] = None BY <2>2 DEF ViewsAgree
  <2>4. /\ actions' = [actions EXCEPT ![key] = "complete"]
        /\ published' = [published EXCEPT ![key] = outcome]
        /\ view' = [view EXCEPT ![w][key] = outcome]
        BY <1>5 DEF Complete
  <2> HIDE DEF key
  <2> QED BY <1>0, <2>2, <2>3, <2>4 DEF ViewsAgree, Typed
<1>6. CASE PrimaryMissing(w) BY <1>5, <1>6 DEF PrimaryMissing, Outcome
<1>7. CASE \E outcome \in Outcome : Finish(w, outcome) BY <1>5, <1>7 DEF Finish
<1>8. ASSUME FailAction(w), stack[w] # <<>>, view' = view, published' = published
      PROVE  ViewsAgree'
  <2>1. actions[Top(w).key] = "running" BY <1>8, TopIs DEF OneFrame
  <2> QED BY <1>2, <1>8, <2>1 DEF FailAction
<1>9. CASE BuilderFails(w) BY <1>8, <1>9 DEF BuilderFails, Placed
<1>10. CASE Propagate(w) BY <1>8, <1>10 DEF Propagate
<1>11. CASE \/ StopFailed(w) \/ TakeRoot(w) \/ DemandBuilt(w) \/ DemandOwnCycle(w) \/ ClaimFailed(w)
            \/ ClaimWait(w) \/ ReadSource(w) \/ Catch(w) \/ RootFails(w) \/ DemandPrimary(w)
            \/ DemandNext(w) \/ PrimaryExists(w) \/ PublishSource(w)
       BY <1>1, <1>11 DEF StopFailed, TakeRoot, DemandBuilt, DemandOwnCycle, ClaimFailed,
             ClaimWait, ReadSource, Catch, RootFails, DemandPrimary, DemandNext, Demand,
             PrimaryExists, PublishSource, coordinator
<1> QED BY <1>3, <1>4, <1>6, <1>7, <1>9, <1>10, <1>11 DEF Step, Evaluate

\* A step wakes everyone, or it leaves every sleeper what it sleeps for.
LEMMA StepSleeping ==
    ASSUME Typed, Placed, OneFrame, Sleeping, NEW w \in Worker, Step(w)
    PROVE  Sleeping'
<1>0. \A v \in Worker \ {w} : Stacked(v)' = Stacked(v) BY OthersKeepStack DEF Stacked
<1>1. ASSUME asleep' = {} PROVE Sleeping' BY <1>1 DEF Sleeping
<1>2. ASSUME UNCHANGED <<asleep, actions, failed>>, w \notin asleep,
             \A v \in Worker \ {w} : /\ at'[v] = at[v] /\ target'[v] = target[v]
                                     /\ view'[v] = view[v]
      PROVE  Sleeping'
  <2>1. asleep \subseteq Worker \ {w} BY <1>2 DEF Typed
  <2> QED BY <1>0, <1>2, <2>1 DEF Sleeping
<1>3. CASE \/ TakeRoot(w) \/ ReadSource(w) \/ DemandPrimary(w) \/ DemandNext(w)
           \/ PrimaryExists(w) \/ PublishSource(w)
      BY <1>2, <1>3 DEF Sleeping, TakeRoot, ReadSource, DemandPrimary, DemandNext, Demand,
            PrimaryExists, PublishSource, coordinator, Goto, Typed
<1>4. CASE DemandBuilt(w) BY <1>2, <1>4 DEF Sleeping, DemandBuilt, coordinator, Goto, Typed
<1>5. CASE ClaimComplete(w) BY <1>2, <1>5 DEF ClaimComplete, Claiming, Goto, Typed
<1>6. CASE ClaimOwner(w)
  <2>1. target[w] \in Action /\ actions[target[w]] = "idle"
        BY <1>6 DEF ClaimOwner, Claiming, MayOwn, Typed, Placed
  <2>2. \A v \in asleep : actions'[target[v]] = "running"
        BY <1>6, <2>1 DEF Sleeping, ClaimOwner, Typed
  <2>3. w \notin asleep /\ UNCHANGED <<asleep, failed, target, view>>
        BY <1>6 DEF ClaimOwner, Claiming
  <2>4. \A v \in Worker \ {w} : at'[v] = at[v] BY <1>6 DEF ClaimOwner, Goto, Typed
  <2>5. asleep \subseteq Worker \ {w} BY <2>3 DEF Typed
  <2> QED BY <1>0, <2>2, <2>3, <2>4, <2>5 DEF Sleeping
<1>7. CASE DemandOwnCycle(w)
      BY <1>2, <1>7 DEF Sleeping, DemandOwnCycle, coordinator, Goto, Typed
<1>8. CASE ClaimWait(w)
  <2>1. CASE ClosesCycle(Parent(stack[w]), target[w])
        BY <1>1, <1>8, <2>1 DEF ClaimWait, NotifyAll
  <2>2. CASE ~ClosesCycle(Parent(stack[w]), target[w])
        BY <1>8, <2>2 DEF Sleeping, ClaimWait, Claiming, Stacked
  <2> QED BY <2>1, <2>2
<1>9. CASE StopFailed(w) BY <1>1, <1>9 DEF StopFailed, NotifyAll
<1>10. CASE ClaimFailed(w) BY <1>1, <1>10 DEF ClaimFailed, NotifyAll
<1>11. CASE Catch(w) BY <1>1, <1>11 DEF Catch, NotifyAll
<1>12. CASE RootFails(w) BY <1>1, <1>12 DEF RootFails, NotifyAll
<1>13. CASE PrimaryMissing(w) BY <1>1, <1>13 DEF PrimaryMissing, Complete, Wake, NotifyAll
<1>14. CASE \E outcome \in Outcome : Finish(w, outcome)
       BY <1>1, <1>14 DEF Finish, Complete, Wake, NotifyAll
<1>15. CASE BuilderFails(w) BY <1>1, <1>15 DEF BuilderFails, FailAction, NotifyAll
<1>16. CASE Propagate(w) BY <1>1, <1>16 DEF Propagate, FailAction, NotifyAll
<1> QED BY <1>3, <1>4, <1>5, <1>6, <1>7, <1>8, <1>9, <1>10, <1>11, <1>12, <1>13, <1>14, <1>15,
           <1>16 DEF Step, Evaluate

LEMMA StepOneObservation ==
    ASSUME Typed, Placed, OneObservation, NEW w \in Worker, Step(w)
    PROVE  OneObservation'
<1>1. CASE PublishSource(w)
  <2>1. sample[w] # None BY <1>1 DEF PublishSource, Placed
  <2>2. FirstOrOwn(w) # None /\ (observation # None => FirstOrOwn(w) = observation)
        BY <2>1 DEF FirstOrOwn
  <2>3. observation' = FirstOrOwn(w) /\ used' = used \cup {FirstOrOwn(w)}
        BY <1>1 DEF PublishSource
  <2> QED BY <2>2, <2>3 DEF OneObservation
<1>2. CASE ~PublishSource(w)
  <2>1. observation' = observation /\ used' = used
        BY <1>2 DEF Step, Evaluate, StopFailed, TakeRoot, DemandBuilt, DemandOwnCycle, ClaimFailed,
             ClaimComplete, ClaimOwner, ClaimWait, DemandPrimary, DemandNext, Demand,
             PrimaryExists, PrimaryMissing, Finish, Complete, ReadSource, BuilderFails,
             Propagate, Catch, RootFails, coordinator
  <2> QED BY <2>1 DEF OneObservation
<1> QED BY <1>1, <1>2

----------------------------------------------------------------------------
(* Who answers for a root, and for a failure.                                *)

\* Which step leads a worker to its end, or into an error.
LEMMA WhereNext ==
    ASSUME Typed, NEW w \in Worker, Step(w)
    PROVE  /\ at'[w] = "failed" => StopFailed(w) \/ RootFails(w)
           /\ at'[w] = "done" => TakeRoot(w) /\ ~MoreRoots
           /\ at'[w] = "error" => \/ DemandOwnCycle(w) \/ ClaimFailed(w) \/ ClaimWait(w)
                                  \/ BuilderFails(w) \/ Propagate(w)
<1>0. at \in [Worker -> {"loop", "demand", "body", "observe", "error", "done", "failed"}]
      BY DEF Typed
<1> USE <1>0 DEF Goto
<1>1. CASE StopFailed(w) \/ RootFails(w) BY <1>1 DEF StopFailed, RootFails
<1>2. CASE TakeRoot(w) BY <1>2 DEF TakeRoot
<1>3. CASE DemandBuilt(w) \/ ClaimComplete(w)
      BY <1>3 DEF DemandBuilt, ClaimComplete, Returned
<1>4. CASE DemandOwnCycle(w) \/ ClaimFailed(w) BY <1>4 DEF DemandOwnCycle, ClaimFailed
<1>5. CASE ClaimOwner(w) \/ Catch(w) \/ ReadSource(w) \/ PublishSource(w)
      BY <1>5 DEF ClaimOwner, Catch, ReadSource, PublishSource
<1>6. CASE ClaimWait(w) BY <1>6 DEF ClaimWait, Claiming
<1>7. CASE DemandPrimary(w) \/ DemandNext(w) BY <1>7 DEF DemandPrimary, DemandNext, Demand
<1>8. CASE PrimaryExists(w) BY <1>8 DEF PrimaryExists
<1>9. CASE PrimaryMissing(w) \/ \E outcome \in Outcome : Finish(w, outcome)
      BY <1>9 DEF PrimaryMissing, Finish, Complete
<1>10. CASE BuilderFails(w) \/ Propagate(w) BY <1>10 DEF BuilderFails, Propagate, FailAction
<1> QED BY <1>1, <1>2, <1>3, <1>4, <1>5, <1>6, <1>7, <1>8, <1>9, <1>10 DEF Step, Evaluate

LEMMA StepBlamed ==
    ASSUME Typed, Placed, Blamed, NEW w \in Worker, Step(w)
    PROVE  Blamed'
<1> USE DEF StopFailed, TakeRoot, DemandBuilt, DemandOwnCycle, ClaimFailed, ClaimComplete,
            ClaimOwner, ClaimWait, DemandPrimary, DemandNext, Demand, PrimaryExists,
            PrimaryMissing, Finish, Complete, ReadSource, PublishSource, BuilderFails, FailAction,
            Propagate, Catch, RootFails, LatchFailure, coordinator, Goto
<1>1. \A v \in Worker \ {w} : at'[v] = at[v] /\ stack'[v] = stack[v] BY OthersKeepStack
<1>2. \A v \in Worker : troubled[v] => troubled'[v] BY DEF Typed, Step, Evaluate
<1>3. failed # "no" => failed' # "no" BY DEF Step, Evaluate
<1>4. failed' # "no" => failed # "no" \/ troubled'[w] BY DEF Typed, Blamed, Step, Evaluate
<1>5. faults' # faults => failed' # "no" BY DEF Step, Evaluate
<1>6. at'[w] = "failed" => failed' # "no" BY WhereNext
<1>7. at'[w] = "error" /\ stack'[w] = <<>> => troubled'[w]
  <2>1. CASE DemandOwnCycle(w) BY <2>1, StackIs DEF Stacked
  <2>2. CASE ClaimWait(w) BY <2>2, WhereNext DEF Claiming, Typed
  <2>3. CASE ClaimFailed(w) \/ BuilderFails(w) \/ Propagate(w) BY <2>3 DEF Typed
  <2> QED BY <2>1, <2>2, <2>3, WhereNext
<1>8. troubled'[w] => at'[w] # "done" BY WhereNext
<1>9. \A v \in Worker \ {w} : troubled'[v] = troubled[v] BY DEF Typed, Step, Evaluate
<1>10. failed' # "no" => \E v \in Worker : troubled'[v] BY <1>2, <1>4 DEF Blamed
<1>11. faults' > 0 => failed' # "no" BY <1>3, <1>5 DEF Blamed
<1>12. \A v \in Worker :
        /\ at'[v] = "failed" => \E x \in Worker : troubled'[x]
        /\ at'[v] = "error" /\ stack'[v] = <<>> => troubled'[v]
        /\ troubled'[v] => at'[v] # "done"
      BY <1>1, <1>2, <1>6, <1>7, <1>8, <1>9, <1>10 DEF Blamed
<1> QED BY <1>10, <1>11, <1>12 DEF Blamed

LEMMA DoneFinite ==
    DoneWorkers \subseteq Worker /\ IsFiniteSet(DoneWorkers)
    /\ Cardinality(DoneWorkers) \in 0..Workers
<1>1. IsFiniteSet(Worker) /\ Cardinality(Worker) = Workers
      BY DemandWorkersAssumption, FS_Interval DEF Worker
<1>2. IsFiniteSet(DoneWorkers) /\ Cardinality(DoneWorkers) <= Cardinality(Worker)
      BY <1>1, FS_Subset DEF DoneWorkers
<1>3. Cardinality(DoneWorkers) \in Nat BY <1>2, FS_CardinalityType
<1> QED BY <1>1, <1>2, <1>3, DemandWorkersAssumption DEF DoneWorkers

\* The counter passes the last root once for every worker that it ends.
LEMMA StepCounted ==
    ASSUME Typed, Counted, NEW w \in Worker, Step(w)
    PROVE  Counted'
<1>0. build' = build BY BuildIsFixed
<1>1. \A v \in Worker \ {w} : at'[v] = at[v] BY OthersKeepStack
<1>2. next \in Nat \ {0} /\ Len(build.roots) \in Nat /\ Cardinality(DoneWorkers) \in Nat
      BY RootIsAction, DoneFinite DEF Typed
<1>3. w \notin DoneWorkers
      BY DEF DoneWorkers, Step, Evaluate, StopFailed, TakeRoot, DemandBuilt, DemandOwnCycle,
             Claiming, ClaimFailed, ClaimComplete, ClaimOwner, ClaimWait, DemandPrimary,
             DemandNext, PrimaryExists, PrimaryMissing, Finish, ReadSource, PublishSource,
             BuilderFails, Propagate, Catch, RootFails
<1>4. CASE TakeRoot(w) /\ ~MoreRoots
  <2>1. next' = next + 1 /\ next > Len(build.roots) /\ at'[w] = "done"
        BY <1>2, <1>4 DEF TakeRoot, MoreRoots, Goto, Typed
  <2>2. DoneWorkers' = DoneWorkers \cup {w} BY <1>1, <2>1 DEF DoneWorkers
  <2>3. Cardinality(DoneWorkers') = Cardinality(DoneWorkers) + 1
        BY <1>3, <2>2, DoneFinite, FS_AddElement
  <2>4. next' <= Len(build.roots) + 1 + Cardinality(DoneWorkers')
    <3>1. next <= Len(build.roots) + 1 + Cardinality(DoneWorkers) BY DEF Counted
    <3> QED BY <1>2, <2>1, <2>3, <3>1
  <2>5. next' > Len(build.roots) BY <1>2, <2>1
  <2>6. \A v \in DoneWorkers' : v > Len(build.roots) \/ next' > Len(build.roots) BY <2>5
  <2> QED BY <1>0, <2>4, <2>6 DEF Counted
<1>5. CASE ~(TakeRoot(w) /\ ~MoreRoots)
  <2>1. DoneWorkers' = DoneWorkers BY <1>1, <1>3, <1>5, WhereNext DEF DoneWorkers
  <2>2. next' = next \/ (next' = next + 1 /\ next <= Len(build.roots))
    <3>1. CASE TakeRoot(w) BY <1>5, <3>1 DEF TakeRoot, MoreRoots
    <3>2. CASE ~TakeRoot(w)
      BY <3>2 DEF Step, Evaluate, StopFailed, DemandBuilt, DemandOwnCycle, ClaimFailed,
         ClaimComplete, ClaimOwner, ClaimWait, DemandPrimary, DemandNext, Demand, PrimaryExists,
         PrimaryMissing, Finish, Complete, ReadSource, PublishSource, BuilderFails, Propagate,
         Catch, RootFails, coordinator
    <3> QED BY <3>1, <3>2
  <2>3. next' <= Len(build.roots) + 1 + Cardinality(DoneWorkers) BY <1>2, <2>2 DEF Counted
  <2>4. \A v \in DoneWorkers : v > Len(build.roots) \/ next' > Len(build.roots)
        BY <1>2, <2>2 DEF Counted
  <2> QED BY <1>0, <2>1, <2>3, <2>4 DEF Counted
<1> QED BY <1>4, <1>5

\* What is complete stays complete.
LEMMA CompleteStays ==
    ASSUME Typed, Placed, OneFrame, NEW w \in Worker, Step(w), NEW a \in Action,
           actions[a] = "complete"
    PROVE  actions'[a] = "complete"
<1>1. stack[w] # <<>> => actions[Top(w).key] = "running" BY TopIs DEF OneFrame
<1>2. CASE ClaimOwner(w) BY <1>2 DEF ClaimOwner, MayOwn, Typed
<1>3. CASE BuilderFails(w) \/ Propagate(w)
      BY <1>1, <1>3 DEF BuilderFails, Propagate, FailAction, Placed, Typed
<1>4. CASE PrimaryMissing(w) \/ \E outcome \in Outcome : Finish(w, outcome)
      BY <1>4 DEF PrimaryMissing, Finish, Complete, Typed
<1>5. CASE ~(ClaimOwner(w) \/ BuilderFails(w) \/ Propagate(w) \/ PrimaryMissing(w)
             \/ \E outcome \in Outcome : Finish(w, outcome))
      BY <1>5 DEF Step, Evaluate, StopFailed, TakeRoot, DemandBuilt, DemandOwnCycle, ClaimFailed,
            ClaimComplete, ClaimWait, DemandPrimary, DemandNext, Demand, PrimaryExists,
            ReadSource, PublishSource, Catch, RootFails, coordinator
<1> QED BY <1>2, <1>3, <1>4, <1>5

\* Who answers for a root goes on to do so until the root is complete.
LEMMA KeepsAnswering ==
    ASSUME Typed, Placed, OneFrame, ViewsAgree, NEW w \in Worker, Step(w), NEW root \in Action,
           AnswersFor(w, root)
    PROVE  actions'[root] = "complete" \/ AnswersFor(w, root)'
<1>1. troubled[w] => troubled'[w]
      BY DEF Typed, Step, Evaluate, StopFailed, TakeRoot, DemandBuilt, DemandOwnCycle, ClaimFailed,
             ClaimComplete, ClaimOwner, ClaimWait, DemandPrimary, DemandNext, Demand,
             PrimaryExists, PrimaryMissing, Finish, Complete, ReadSource, PublishSource,
             BuilderFails, Propagate, Catch, RootFails, locals
<1>2. CASE troubled[w] BY <1>1, <1>2 DEF AnswersFor
<1>3. SUFFICES ASSUME ~troubled[w] PROVE actions'[root] = "complete" \/ AnswersFor(w, root)'
      BY <1>2
<1> USE DEF Goto
<1>4. CASE at'[w] \in {"error", "failed"} BY <1>4 DEF AnswersFor
<1>5. CASE StopFailed(w) \/ RootFails(w) \/ DemandOwnCycle(w) \/ ClaimFailed(w) \/ BuilderFails(w)
           \/ Propagate(w)
      BY <1>4, <1>5 DEF StopFailed, RootFails, DemandOwnCycle, ClaimFailed, BuilderFails, Propagate,
            FailAction, Typed
<1>6. CASE TakeRoot(w) BY <1>3, <1>6 DEF TakeRoot, AnswersFor, Placed
<1>7. CASE DemandBuilt(w)
  <2>1. CASE stack[w] = <<>>
    <3>1. target[w] = root BY <1>3, <1>7, <2>1 DEF DemandBuilt, AnswersFor
    <3>2. actions[root] = "complete" BY <1>7, <3>1 DEF DemandBuilt, ViewsAgree
    <3> QED BY <1>7, <3>2 DEF DemandBuilt, coordinator
  <2>2. CASE stack[w] # <<>>
        BY <1>3, <1>7, <2>2 DEF DemandBuilt, AnswersFor
  <2> QED BY <2>1, <2>2
<1>8. CASE ClaimComplete(w)
  <2>1. CASE stack[w] = <<>>
        BY <1>3, <1>8, <2>1 DEF ClaimComplete, Claiming, AnswersFor
  <2>2. CASE stack[w] # <<>>
        BY <1>3, <1>8, <2>2 DEF ClaimComplete, Claiming, AnswersFor
  <2> QED BY <2>1, <2>2
<1>9. CASE ClaimOwner(w)
  <2>1. target[w] \in Action /\ at[w] = "demand"
        BY <1>9 DEF ClaimOwner, Claiming, Typed, Placed
  <2>2. /\ stack'[w] # <<>> /\ \A i \in 1..Len(stack[w]) : stack'[w][i] = stack[w][i]
        /\ stack'[w][Len(stack[w]) + 1].key = target[w]
        BY ZenonT(40), <1>9, <2>1, FrameIs, Pushed DEF ClaimOwner
  <2>3. CASE stack[w] = <<>>
    <3>1. Len(stack[w]) = 0 BY <2>3, EmptySeq
    <3>2. target[w] = root BY <1>3, <2>1, <2>3 DEF AnswersFor
    <3> QED BY <2>2, <3>1, <3>2 DEF AnswersFor
  <2>4. CASE stack[w] # <<>>
    <3>1. 1 \in 1..Len(stack[w]) BY <2>4, StackIs
    <3> QED BY <1>3, <2>1, <2>2, <2>4, <3>1 DEF AnswersFor
  <2> QED BY <2>3, <2>4
<1>10. CASE ClaimWait(w)
       BY <1>4, <1>10 DEF ClaimWait, Claiming, AnswersFor, Typed
<1>11. ASSUME stack[w] # <<>>, at[w] \in {"body", "observe"} PROVE stack[w][1].key = root
       BY <1>3, <1>11 DEF AnswersFor
<1>12. ASSUME stack[w] # <<>>, at[w] \in {"body", "observe"}, NEW f \in Frames, SetTop(w, f),
              f.key = Top(w).key
       PROVE  AnswersFor(w, root)'
  <2>1. 1 \in DOMAIN stack[w] BY <1>12, StackIs
  <2>2. stack'[w] # <<>> /\ stack'[w][1].key = stack[w][1].key
        BY <1>12, <2>1, Replaced, TopIs
  <2> QED BY <1>11, <1>12, <2>2 DEF AnswersFor
<1>13. ASSUME at[w] \in {"body", "observe"}
       PROVE  /\ stack[w] # <<>> /\ Top(w) \in Frames
              /\ \A stage \in Stage : LET f == [Top(w) EXCEPT !.stage = stage]
                                      IN  f \in Frames /\ f.key = Top(w).key
              /\ Top(w).todo # <<>> => LET f == [Top(w) EXCEPT !.todo = Tail(@)]
                                       IN  f \in Frames /\ f.key = Top(w).key
  <2>1. stack[w] # <<>> /\ Top(w) \in Frames BY <1>13, TopIs DEF Placed
  <2> QED BY <2>1, HeadTailProperties DEF Frames
<1>14. CASE DemandPrimary(w) BY <1>12, <1>13, <1>14 DEF DemandPrimary, Demand, Stage
<1>15. CASE DemandNext(w) BY <1>12, <1>13, <1>15 DEF DemandNext, Demand
<1>16. CASE PrimaryExists(w) BY <1>12, <1>13, <1>16 DEF PrimaryExists, Stage
<1>17. CASE PublishSource(w) BY <1>12, <1>13, <1>17 DEF PublishSource, Placed
<1>18. CASE ReadSource(w)
       BY <1>11, <1>13, <1>18 DEF ReadSource, AnswersFor
<1>19. CASE Catch(w)
  <2>1. troubled'[w] BY <1>19 DEF Catch, Typed
  <2> QED BY <2>1 DEF AnswersFor
<1>20. ASSUME NEW outcome \in Outcome, Complete(w, outcome), at[w] = "body"
       PROVE  actions'[root] = "complete" \/ AnswersFor(w, root)'
  <2>1. stack[w] # <<>> /\ stack[w][1].key = root BY <1>11, <1>13, <1>20
  <2>2. Len(stack[w]) \in Nat \ {0} /\ Top(w).key \in Action BY <2>1, StackIs, TopIs
  <2>3. CASE Len(stack[w]) = 1
    <3>1. Top(w).key = root
      <4>1. Top(w) = stack[w][1] BY <2>3 DEF Top
      <4> QED BY <2>1, <4>1
    <3> QED BY <1>20, <2>2, <3>1 DEF Complete, Typed
  <2>4. CASE Len(stack[w]) # 1
    <3>1. stack'[w] # <<>> /\ \A i \in 1..Len(stack[w]) - 1 : stack'[w][i] = stack[w][i]
          BY <1>20, <2>1, <2>4, Popped DEF Complete
    <3>2. 1 \in 1..Len(stack[w]) - 1
      <4>1. \A n \in Nat \ {0} : n # 1 => 1 \in 1..n - 1 OBVIOUS
      <4> QED BY <2>2, <2>4, <4>1
    <3> QED BY <2>1, <3>1, <3>2 DEF AnswersFor
  <2> QED BY <2>3, <2>4
<1>21. CASE PrimaryMissing(w) BY <1>20, <1>21 DEF PrimaryMissing, Outcome
<1>22. CASE \E outcome \in Outcome : Finish(w, outcome) BY <1>20, <1>22 DEF Finish
<1> QED BY <1>5, <1>6, <1>7, <1>8, <1>9, <1>10, <1>14, <1>15, <1>16, <1>17, <1>18, <1>19, <1>21,
           <1>22 DEF Step, Evaluate

LEMMA StepRootsAnswered ==
    ASSUME Typed, Placed, OneFrame, ViewsAgree, RootsAnswered, NEW w \in Worker, Step(w)
    PROVE  RootsAnswered'
<1>0. build' = build BY BuildIsFixed
<1>1. SUFFICES ASSUME NEW i \in DOMAIN build.roots, i < next',
                      NEW root \in Action, root = build.roots[i]
               PROVE  \/ actions'[root] = "complete"
                      \/ \E v \in Worker : AnswersFor(v, root)'
      BY <1>0, RootIsAction DEF RootsAnswered, AnswersFor
<1>2. i \in Nat BY RootIsAction
<1>3. CASE i < next
  <2>1. CASE actions[root] = "complete" BY <2>1, CompleteStays
  <2>2. CASE \E v \in Worker : AnswersFor(v, root)
    <3>1. PICK v \in Worker : AnswersFor(v, root) BY <2>2
    <3>2. CASE v = w BY <3>1, <3>2, KeepsAnswering
    <3>3. CASE v # w
      <4>1. at'[v] = at[v] /\ stack'[v] = stack[v] /\ target'[v] = target[v]
            BY <3>3, OthersKeepStack
      <4>2. troubled[v] => troubled'[v]
            BY <3>3 DEF Typed, Step, Evaluate, StopFailed, TakeRoot, DemandBuilt, DemandOwnCycle,
               ClaimFailed, ClaimComplete, ClaimOwner, ClaimWait, DemandPrimary, DemandNext,
               Demand, PrimaryExists, PrimaryMissing, Finish, Complete, ReadSource,
               PublishSource, BuilderFails, Propagate, Catch, RootFails, locals
      <4> QED BY <3>1, <4>1, <4>2, <1>0 DEF AnswersFor
    <3> QED BY <3>2, <3>3
  <2> QED BY <1>1, <1>3, <2>1, <2>2 DEF RootsAnswered
<1>4. CASE ~(i < next)
  <2>1. TakeRoot(w) /\ next' = next + 1
        BY <1>1, <1>4 DEF TakeRoot, Step, Evaluate, StopFailed, DemandBuilt, DemandOwnCycle,
             ClaimFailed, ClaimComplete, ClaimOwner, ClaimWait, DemandPrimary, DemandNext,
             Demand, PrimaryExists, PrimaryMissing, Finish, Complete, ReadSource,
             PublishSource, BuilderFails, Propagate, Catch, RootFails, coordinator
  <2>2. i = next /\ i <= Len(build.roots) BY <1>1, <1>2, <1>4, <2>1, RootIsAction DEF Typed
  <2>3. MoreRoots BY <2>2 DEF MoreRoots
  <2>4. at'[w] = "demand" /\ target'[w] = root /\ stack'[w] = <<>>
        BY <1>1, <2>1, <2>2, <2>3 DEF TakeRoot, Goto, Typed, Placed
  <2> QED BY <1>1, <2>4 DEF AnswersFor
<1> QED BY <1>3, <1>4

----------------------------------------------------------------------------
(* Waits descend in every ranking of the actions.                            *)

\* The actions of one stack keep to the plan.
StackDemanded(w) ==
    \A i \in DOMAIN stack[w] : \A j \in DOMAIN stack[w][i].todo :
        stack[w][i].todo[j] \in Needs(build, stack[w][i].key) \cup {Source}

\* Along a chain of waits the rank never rises.
LEMMA ChainDescends ==
    ASSUME Typed, Demanded, NEW rank \in [Action -> Int], Ranked(build, rank),
           NEW a \in Action, NEW b \in Follow(waits, a)
    PROVE  b \in Action /\ rank[b] <= rank[a]
<1> DEFINE S == {x \in Action : rank[x] <= rank[a]}
<1>1. a \in S OBVIOUS
<1>2. ASSUME NEW x \in S, waits[x] # None PROVE waits[x] \in S
  <2>1. waits[x] \in Action /\ waits[x] \in Needs(build, x) BY <1>2 DEF Typed, Demanded
  <2>2. rank[waits[x]] < rank[x] BY <2>1 DEF Ranked, Action
  <2>3. rank[waits[x]] \in Int /\ rank[x] \in Int /\ rank[a] \in Int BY <2>1
  <2> QED BY <2>1, <2>2, <2>3
<1>3. b \in S BY <1>1, <1>2 DEF Follow
<1> QED BY <1>3

\* A wait that the plan knows closes no cycle in a build that can be ranked.
LEMMA NoCycleClosed ==
    ASSUME Typed, Demanded, Acyclic(build), NEW a \in Action, NEW c \in Action,
           c \in Needs(build, a)
    PROVE  ~ClosesCycle(a, c)
<1>1. PICK rank \in [Action -> 0..Cardinality(Action)] : Ranked(build, rank)
      BY DEF Acyclic, Action
<1>2. rank \in [Action -> Int] BY <1>1
<1>3. SUFFICES ASSUME NEW b \in Follow(waits, c), waits[b] = a PROVE FALSE
      BY DEF ClosesCycle
<1>4. b \in Action /\ rank[b] <= rank[c] BY <1>1, <1>2, ChainDescends
<1>5. a \in Needs(build, b) BY <1>3, <1>4, NoneIsNoAction DEF Demanded
<1>6. rank[a] < rank[b] /\ rank[c] < rank[a] BY <1>1, <1>4, <1>5 DEF Ranked, Action
<1>7. rank[a] \in Int /\ rank[b] \in Int /\ rank[c] \in Int BY <1>2, <1>4
<1> QED BY <1>4, <1>6, <1>7

\* The stacks keep to the plan when a frame is replaced by one with no new demand.
LEMMA StackReplaced ==
    ASSUME Typed, Demanded, NEW w \in Worker, stack[w] # <<>>, build' = build,
           NEW f \in Frames, SetTop(w, f), f.key = Top(w).key,
           \A j \in DOMAIN f.todo : \E k \in DOMAIN Top(w).todo : f.todo[j] = Top(w).todo[k]
    PROVE  StackDemanded(w)' /\ stack'[w] # <<>> /\ Top(w)' = f
<1>1. /\ DOMAIN stack'[w] = DOMAIN stack[w] /\ Len(stack'[w]) = Len(stack[w]) /\ stack'[w] # <<>>
      /\ \A i \in DOMAIN stack[w] : stack'[w][i] = IF i = Len(stack[w]) THEN f ELSE stack[w][i]
      BY Replaced
<1>2. Len(stack[w]) \in DOMAIN stack[w] /\ Top(w) = stack[w][Len(stack[w])] BY TopIs
<1>3. Top(w)' = f BY <1>1, <1>2 DEF Top
<1>4. \A j \in DOMAIN f.todo : f.todo[j] \in Needs(build, f.key) \cup {Source}
      BY <1>2 DEF Demanded
<1>5. \A i \in DOMAIN stack'[w] : \A j \in DOMAIN stack'[w][i].todo :
          stack'[w][i].todo[j] \in Needs(build, stack'[w][i].key) \cup {Source}
      BY <1>1, <1>4 DEF Demanded
<1> QED BY <1>1, <1>3, <1>5 DEF StackDemanded

LEMMA TodoTail ==
    ASSUME Typed, NEW w \in Worker, stack[w] # <<>>, Top(w).todo # <<>>
    PROVE  LET f == [Top(w) EXCEPT !.todo = Tail(@)]
           IN  /\ f \in Frames /\ f.key = Top(w).key
               /\ \A j \in DOMAIN f.todo : \E k \in DOMAIN Top(w).todo : f.todo[j] = Top(w).todo[k]
               /\ Head(Top(w).todo) = Top(w).todo[1] /\ 1 \in DOMAIN Top(w).todo
               /\ Head(Top(w).todo) \in Action \cup {Source}
<1> DEFINE todo == Top(w).todo
<1>1. Top(w) \in Frames BY TopIs
<1>2. todo \in Seq(Action \cup {Source}) /\ todo # <<>> BY <1>1 DEF Frames
<1> HIDE DEF todo
<1>3. /\ Tail(todo) \in Seq(Action \cup {Source}) /\ Len(Tail(todo)) = Len(todo) - 1
      /\ \A j \in 1..Len(Tail(todo)) : Tail(todo)[j] = todo[j + 1]
      /\ Len(todo) \in Nat \ {0} /\ DOMAIN todo = 1..Len(todo)
      /\ DOMAIN Tail(todo) = 1..Len(Tail(todo))
      /\ Head(todo) \in Action \cup {Source}
      BY <1>2, HeadTailProperties, EmptySeq, LenProperties
<1>4. \A j \in DOMAIN Tail(todo) : j + 1 \in DOMAIN todo /\ Tail(todo)[j] = todo[j + 1] BY <1>3
<1>5. Head(todo) = todo[1] /\ 1 \in DOMAIN todo BY <1>2, <1>3
<1> QED BY <1>1, <1>3, <1>4, <1>5 DEF todo, Frames

\* Who demands, demands what its innermost action needs.
TargetDemanded(w) == at[w] = "demand" /\ stack[w] # <<>> => target[w] \in Needs(build, Top(w).key)

WaitsDemanded == \A a \in Action : waits[a] # None => waits[a] \in Needs(build, a)

\* A wait that is added is the demand of the innermost action.
LEMMA AddedWait ==
    ASSUME Typed, Placed, Demanded, NEW w \in Worker, at[w] = "demand", build' = build,
           waits' = [a \in Action |-> IF a = Parent(stack[w]) THEN target[w] ELSE waits[a]]
    PROVE  WaitsDemanded'
<1>1. SUFFICES ASSUME NEW a \in Action, a = Parent(stack[w]) PROVE target[w] \in Needs(build, a)
      BY DEF WaitsDemanded, Demanded, Action
<1>2. stack[w] # <<>> /\ a = Top(w).key BY <1>1, NoneIsNoAction DEF Parent, Top
<1> QED BY <1>2 DEF Demanded

LEMMA DroppedWait ==
    ASSUME Demanded, build' = build,
           \A a \in Action : waits'[a] \in {None, waits[a]}
    PROVE  WaitsDemanded'
BY DEF WaitsDemanded, Demanded, Action

LEMMA WithoutDrops ==
    ASSUME NEW parent, NEW child, NEW a \in Action
    PROVE  Without(waits, parent, child)[a] \in {None, waits[a]}
BY DEF Without

LEMMA StackPopped ==
    ASSUME Typed, Demanded, NEW w \in Worker, stack[w] # <<>>, build' = build,
           stack' = [stack EXCEPT ![w] = Below(w)]
    PROVE  StackDemanded(w)'
<1>1. DOMAIN stack[w] = 1..Len(stack[w]) /\ Len(stack[w]) \in Nat BY StackIs
<1>2. DOMAIN stack'[w] = 1..Len(stack[w]) - 1
      /\ \A i \in 1..Len(stack[w]) - 1 : stack'[w][i] = stack[w][i] BY Popped
<1>3. \A i \in DOMAIN stack'[w] : i \in DOMAIN stack[w] /\ stack'[w][i] = stack[w][i]
      BY <1>1, <1>2
<1> QED BY <1>3 DEF StackDemanded, Demanded

LEMMA StackPushed ==
    ASSUME Typed, Demanded, NEW w \in Worker, NEW a \in Action, build' = build,
           stack' = [stack EXCEPT ![w] = Append(@, Frame(a))]
    PROVE  StackDemanded(w)'
<1> DEFINE n == Len(stack[w])
<1>1. DOMAIN stack[w] = 1..n /\ n \in Nat BY StackIs
<1>2. /\ DOMAIN stack'[w] = 1..n + 1 /\ \A i \in 1..n : stack'[w][i] = stack[w][i]
      /\ stack'[w][n + 1] = Frame(a)
      BY FrameIs, Pushed
<1> HIDE DEF n
<1>3. \A j \in DOMAIN Frame(a).todo : Frame(a).todo[j] \in Needs(build, Frame(a).key) \cup {Source}
  <2> SUFFICES ASSUME NEW j \in DOMAIN build.demands[a]
               PROVE  build.demands[a][j] \in Needs(build, a) \cup {Source}
      BY DEF Frame
  <2>1. build.demands[a][j] \in Action \cup {Source} BY Planned
  <2>2. build.demands[a][j] # None \/ build.demands[a][j] = Source BY <2>1, NoneIsNoAction
  <2> QED BY <2>2 DEF Needs
<1>4. \A i \in DOMAIN stack'[w] : \A j \in DOMAIN stack'[w][i].todo :
          stack'[w][i].todo[j] \in Needs(build, stack'[w][i].key) \cup {Source}
  <2> SUFFICES ASSUME NEW i \in DOMAIN stack'[w], NEW j \in DOMAIN stack'[w][i].todo
               PROVE  stack'[w][i].todo[j] \in Needs(build, stack'[w][i].key) \cup {Source}
      OBVIOUS
  <2>1. CASE i = n + 1 BY <1>2, <1>3, <2>1
  <2>2. CASE i # n + 1
    <3>1. i \in DOMAIN stack[w] /\ stack'[w][i] = stack[w][i] BY <1>1, <1>2, <2>2
    <3> QED BY <3>1 DEF Demanded
  <2> QED BY <2>1, <2>2
<1> QED BY <1>4 DEF StackDemanded

LEMMA StepDemanded ==
    ASSUME Typed, Placed, Demanded, NEW w \in Worker, Step(w)
    PROVE  Demanded'
<1>0. build' = build BY BuildIsFixed
<1>1. SUFFICES StackDemanded(w)' /\ TargetDemanded(w)' /\ WaitsDemanded'
  <2>1. \A v \in Worker \ {w} : StackDemanded(v)' /\ TargetDemanded(v)'
        BY <1>0, OthersKeepStack DEF StackDemanded, TargetDemanded, Demanded, Top
  <2> QED BY <2>1 DEF StackDemanded, TargetDemanded, WaitsDemanded, Demanded
<1>2. StackDemanded(w) /\ TargetDemanded(w) /\ WaitsDemanded
      BY DEF StackDemanded, TargetDemanded, WaitsDemanded, Demanded
<1>3. at \in [Worker -> {"loop", "demand", "body", "observe", "error", "done", "failed"}]
      /\ troubled \in [Worker -> BOOLEAN] /\ waits \in [Action -> Action \cup {None}]
      /\ target \in [Worker -> Action \cup {None}]
      BY DEF Typed
<1>4. ASSUME stack' = stack, \/ at'[w] # "demand" \/ stack[w] = <<>>
                             \/ at'[w] = at[w] /\ target' = target,
             \A a \in Action : waits'[a] \in {None, waits[a]}
      PROVE  StackDemanded(w)' /\ TargetDemanded(w)' /\ WaitsDemanded'
      BY <1>0, <1>2, <1>4, DroppedWait DEF StackDemanded, TargetDemanded, Top
<1> USE DEF Goto
<1>5. CASE StopFailed(w) BY <1>3, <1>4, <1>5 DEF StopFailed
<1>6. CASE TakeRoot(w) BY <1>3, <1>4, <1>6 DEF TakeRoot, Placed
<1>7. CASE DemandBuilt(w) BY <1>3, <1>4, <1>7 DEF DemandBuilt, coordinator, Returned
<1>8. CASE DemandOwnCycle(w) BY <1>3, <1>4, <1>8 DEF DemandOwnCycle, coordinator
<1>9. CASE ClaimFailed(w) BY <1>3, <1>4, <1>9 DEF ClaimFailed
<1>10. CASE ClaimComplete(w) BY <1>3, <1>4, <1>10 DEF ClaimComplete, Returned
<1>11. CASE ReadSource(w) BY <1>3, <1>4, <1>11 DEF ReadSource, coordinator
<1>12. CASE Catch(w) BY <1>3, <1>4, <1>12 DEF Catch
<1>13. CASE RootFails(w) BY <1>3, <1>4, <1>13 DEF RootFails
<1>14. CASE ClaimOwner(w)
  <2>1. target[w] \in Action /\ at[w] = "demand" /\ at'[w] = "body"
        BY <1>3, <1>14 DEF ClaimOwner, Claiming, Placed
  <2>2. StackDemanded(w)' BY <1>0, <1>14, <2>1, StackPushed DEF ClaimOwner
  <2>3. WaitsDemanded' BY <1>0, <1>14, <2>1, AddedWait DEF ClaimOwner
  <2> QED BY <2>1, <2>2, <2>3 DEF TargetDemanded
<1>15. CASE ClaimWait(w)
  <2>1. CASE ClosesCycle(Parent(stack[w]), target[w])
        BY <1>3, <1>4, <1>15, <2>1 DEF ClaimWait
  <2>2. CASE ~ClosesCycle(Parent(stack[w]), target[w])
    <3>1. /\ waits' = [a \in Action |-> IF a = Parent(stack[w]) THEN target[w] ELSE waits[a]]
          /\ stack' = stack /\ at' = at /\ target' = target /\ at[w] = "demand"
          BY <1>15, <2>2 DEF ClaimWait, Claiming
    <3>2. WaitsDemanded' BY <1>0, <3>1, AddedWait
    <3> QED BY <1>0, <1>2, <3>1, <3>2 DEF StackDemanded, TargetDemanded, Top
  <2> QED BY <2>1, <2>2
<1>16. ASSUME NEW f \in Frames, SetTop(w, f), f.key = Top(w).key, stack[w] # <<>>,
              \A j \in DOMAIN f.todo : \E k \in DOMAIN Top(w).todo : f.todo[j] = Top(w).todo[k],
              at'[w] = "demand" => target'[w] \in Needs(build, f.key), waits' = waits
       PROVE  StackDemanded(w)' /\ TargetDemanded(w)' /\ WaitsDemanded'
  <2>1. StackDemanded(w)' /\ Top(w)' = f BY <1>0, <1>16, StackReplaced
  <2>2. TargetDemanded(w)' BY <1>0, <1>16, <2>1 DEF TargetDemanded
  <2> QED BY <1>0, <1>16, <2>1, <2>2, DroppedWait
<1>17. ASSUME at[w] = "body"
       PROVE  stack[w] # <<>> /\ Top(w) \in Frames /\ Top(w).key \in Action
       BY <1>17, TopIs DEF Placed
<1>18. CASE DemandPrimary(w)
  <2> DEFINE f == [Top(w) EXCEPT !.stage = "check"]
             needed == build.primary[Top(w).key]
  <2>1. stack[w] # <<>> /\ Top(w) \in Frames /\ Top(w).key \in Action
        BY <1>17, <1>18 DEF DemandPrimary
  <2>2. f \in Frames /\ f.key = Top(w).key /\ f.todo = Top(w).todo BY <2>1 DEF Frames, Stage
  <2>3. needed # None /\ needed # Source
    <3>1. needed # None BY <1>18, <2>1, TopIs DEF DemandPrimary, Placed
    <3>2. needed \in Action /\ Source \notin Action BY <2>1, <3>1, Planned
    <3> QED BY <3>1, <3>2
  <2>4. needed \in Needs(build, f.key) BY <2>2, <2>3 DEF Needs
  <2>5. SetTop(w, f) /\ target'[w] = needed /\ waits' = waits
        BY <1>3, <1>18 DEF DemandPrimary, Demand, coordinator
  <2> QED BY <1>16, <2>1, <2>2, <2>4, <2>5
<1>19. CASE DemandNext(w)
  <2> DEFINE f == [Top(w) EXCEPT !.todo = Tail(@)]
             needed == Head(Top(w).todo)
  <2>1. stack[w] # <<>> /\ Top(w).todo # <<>> /\ needed # Source
        BY <1>17, <1>19 DEF DemandNext
  <2>2. /\ f \in Frames /\ f.key = Top(w).key
        /\ \A j \in DOMAIN f.todo : \E k \in DOMAIN Top(w).todo : f.todo[j] = Top(w).todo[k]
        /\ needed = Top(w).todo[1] /\ 1 \in DOMAIN Top(w).todo
        BY <2>1, TodoTail
  <2>3. needed \in Needs(build, f.key) BY <2>1, <2>2, TopIs DEF Demanded
  <2>4. SetTop(w, f) /\ target'[w] = needed /\ waits' = waits
        BY <1>3, <1>19 DEF DemandNext, Demand, coordinator
  <2> QED BY <1>16, <2>1, <2>2, <2>3, <2>4
<1>20. CASE PrimaryExists(w)
  <2> DEFINE f == [Top(w) EXCEPT !.stage = "run"]
  <2>1. stack[w] # <<>> /\ Top(w) \in Frames BY <1>17, <1>20 DEF PrimaryExists
  <2>2. f \in Frames /\ f.key = Top(w).key /\ f.todo = Top(w).todo BY <2>1 DEF Frames, Stage
  <2>3. SetTop(w, f) /\ at'[w] = "body" /\ waits' = waits
        BY <1>20 DEF PrimaryExists, coordinator
  <2> QED BY <1>16, <2>1, <2>2, <2>3
<1>21. CASE PublishSource(w)
  <2> DEFINE f == [Top(w) EXCEPT !.todo = Tail(@)]
  <2>1. stack[w] # <<>> /\ Top(w).todo # <<>> BY <1>21 DEF PublishSource, Placed
  <2>2. /\ f \in Frames /\ f.key = Top(w).key
        /\ \A j \in DOMAIN f.todo : \E k \in DOMAIN Top(w).todo : f.todo[j] = Top(w).todo[k]
        BY <2>1, TodoTail
  <2>3. SetTop(w, f) /\ at'[w] = "body" /\ waits' = waits BY <1>3, <1>21 DEF PublishSource
  <2> QED BY <1>16, <2>1, <2>2, <2>3
<1>22. ASSUME stack[w] # <<>>, stack' = [stack EXCEPT ![w] = Below(w)], at'[w] # "demand",
              waits' = Without(waits, Parent(Below(w)), Top(w).key)
       PROVE  StackDemanded(w)' /\ TargetDemanded(w)' /\ WaitsDemanded'
  <2>1. StackDemanded(w)' BY <1>0, <1>22, StackPopped
  <2>2. WaitsDemanded' BY <1>0, <1>22, WithoutDrops, DroppedWait
  <2> QED BY <1>22, <2>1, <2>2 DEF TargetDemanded
<1>23. CASE PrimaryMissing(w)
       BY <1>3, <1>17, <1>22, <1>23 DEF PrimaryMissing, Complete
<1>24. CASE \E outcome \in Outcome : Finish(w, outcome)
       BY <1>3, <1>17, <1>22, <1>24 DEF Finish, Complete
<1>25. CASE BuilderFails(w) BY <1>3, <1>17, <1>22, <1>25 DEF BuilderFails, FailAction
<1>26. CASE Propagate(w) BY <1>3, <1>22, <1>26 DEF Propagate, FailAction
<1> QED BY <1>5, <1>6, <1>7, <1>8, <1>9, <1>10, <1>11, <1>12, <1>13, <1>14, <1>15, <1>18, <1>19,
           <1>20, <1>21, <1>23, <1>24, <1>25, <1>26 DEF Step, Evaluate

\* A cycle is reported only where one of demands is possible.
LEMMA StepNoFalseCycle ==
    ASSUME Typed, Placed, Demanded, NoFalseCycle, NEW w \in Worker, Step(w)
    PROVE  NoFalseCycle'
<1>0. build' = build BY BuildIsFixed
<1>1. CASE ClaimWait(w) /\ ClosesCycle(Parent(stack[w]), target[w])
  <2>1. target[w] \in Action /\ at[w] = "demand"
        BY <1>1 DEF ClaimWait, Claiming, Typed, Placed
  <2>2. stack[w] # <<>> /\ Parent(stack[w]) = Top(w).key
        BY <1>1 DEF ClosesCycle, Parent, Top
  <2>3. target[w] \in Needs(build, Top(w).key) BY <2>1, <2>2 DEF Demanded
  <2>4. PICK a \in Action : a = Top(w).key BY <2>2, TopIs
  <2>5. PICK c \in Action : c = target[w] BY <2>1
  <2>6. ~Acyclic(build) BY <1>1, <2>2, <2>3, <2>4, <2>5, NoCycleClosed
  <2> QED BY <1>0, <2>6 DEF NoFalseCycle
<1>2. CASE ~(ClaimWait(w) /\ ClosesCycle(Parent(stack[w]), target[w]))
  <2>1. failed' = "cycle" => failed = "cycle"
        BY <1>2 DEF Step, Evaluate, StopFailed, TakeRoot, DemandBuilt, DemandOwnCycle, ClaimFailed,
             ClaimComplete, ClaimOwner, ClaimWait, DemandPrimary, DemandNext, Demand,
             PrimaryExists, PrimaryMissing, Finish, Complete, ReadSource, PublishSource,
             BuilderFails, FailAction, Propagate, Catch, RootFails, LatchFailure, coordinator
  <2> QED BY <1>0, <2>1 DEF NoFalseCycle
<1> QED BY <1>1, <1>2

----------------------------------------------------------------------------
(* The invariant holds initially and every step keeps it.                    *)

LEMMA InitCoherent == Init => Coherent /\ Answered /\ Ordered
<1> SUFFICES ASSUME Init PROVE Coherent /\ Answered /\ Ordered OBVIOUS
<1>1. Workers \in Nat /\ MaxFaults \in Nat BY DemandWorkersAssumption, DemandBuildsAssumption
<1>2. Typed BY <1>1, EmptySeq DEF Init, Typed, Latch, Worker
<1>3. \A w \in Worker : stack[w] = <<>> /\ DOMAIN stack[w] = {} BY EmptySeq DEF Init
<1>4. Placed BY <1>3 DEF Init, Placed
<1>5. OneFrame BY <1>3 DEF Init, OneFrame
<1>6. ViewsAgree /\ Sleeping /\ OneObservation BY DEF Init, ViewsAgree, Sleeping, OneObservation
<1>7. Len(build.roots) \in Nat /\ DOMAIN build.roots = 1..Len(build.roots) BY <1>2, RootIsAction
<1>8. RootsAnswered BY <1>7 DEF Init, RootsAnswered
<1>9. Counted
  <2>1. Cardinality(DoneWorkers) \in Nat BY DoneFinite
  <2>2. \A w \in DoneWorkers : w > Len(build.roots) BY <1>1, <1>7 DEF Init, DoneWorkers, Worker
  <2> QED BY <1>7, <2>1, <2>2 DEF Init, Counted
<1>10. Blamed BY DEF Init, Blamed
<1>11. Demanded /\ NoFalseCycle BY <1>3 DEF Init, Demanded, NoFalseCycle
<1> QED BY <1>2, <1>4, <1>5, <1>6, <1>8, <1>9, <1>10, <1>11 DEF Coherent, Answered, Ordered

LEMMA EditCoherent ==
    ASSUME Coherent, Answered, Ordered, EditSource \/ UNCHANGED vars
    PROVE  Coherent' /\ Answered' /\ Ordered'
<1>1. /\ UNCHANGED <<build, coordinator, asleep, locals, used, runs, faults>>
      /\ disk' \in Nat /\ edits' \in Nat
      BY DEF Coherent, Typed, EditSource, vars
<1>2. Action' = Action /\ Frames' = Frames BY <1>1, SameBuild
<1>3. Typed' BY <1>1, <1>2 DEF Coherent, Typed, coordinator, locals
<1>4. Placed' BY <1>1 DEF Coherent, Placed, Top, locals
<1>5. OneFrame' BY <1>1, KeysKept DEF Coherent, coordinator, locals
<1>6. ViewsAgree' /\ Sleeping' /\ OneObservation'
      BY <1>1, <1>2 DEF Coherent, ViewsAgree, Sleeping, OneObservation, Stacked, coordinator, locals
<1>7. RootsAnswered' BY <1>1 DEF Answered, RootsAnswered, AnswersFor, coordinator, locals
<1>8. Counted' BY <1>1 DEF Answered, Counted, DoneWorkers, coordinator, locals
<1>9. Blamed' BY <1>1 DEF Answered, Blamed, coordinator, locals
<1>10. Demanded' /\ NoFalseCycle'
       BY <1>1, <1>2 DEF Ordered, Demanded, NoFalseCycle, Top, coordinator, locals
<1> QED BY <1>3, <1>4, <1>5, <1>6, <1>7, <1>8, <1>9, <1>10 DEF Coherent, Answered, Ordered

\* The whole invariant holds in every reachable state: what the coordinator's
\* locked sections (claim, complete, fail in lazy.rs) keep between them.
THEOREM DemandInvariant == Spec => [](Coherent /\ Answered /\ Ordered)
<1>1. Coherent /\ Answered /\ Ordered /\ [Next]_vars => (Coherent /\ Answered /\ Ordered)'
  <2> SUFFICES ASSUME Coherent, Answered, Ordered, [Next]_vars
               PROVE  (Coherent /\ Answered /\ Ordered)'
      OBVIOUS
  <2>1. CASE EditSource \/ UNCHANGED vars BY <2>1, EditCoherent
  <2>2. CASE \E w \in Worker : Step(w)
    <3>1. PICK w \in Worker : Step(w) BY <2>2
    <3>2. Coherent' BY <3>1, StepTyped, StepPlaced, StepOneFrame, StepViewsAgree, StepSleeping,
                       StepOneObservation DEF Coherent
    <3>3. Answered' BY <3>1, StepRootsAnswered, StepCounted, StepBlamed DEF Coherent, Answered
    <3>4. Ordered' BY <3>1, StepDemanded, StepNoFalseCycle DEF Coherent, Ordered
    <3> QED BY <3>2, <3>3, <3>4
  <2> QED BY <2>1, <2>2 DEF Next
<1> QED BY <1>1, InitCoherent, PTL DEF Spec

----------------------------------------------------------------------------
(* The properties that the runs check.                                       *)

LEMMA RunningIsStacked ==
    ASSUME Typed, OneFrame, NEW a \in Action
    PROVE  actions[a] = "running" <=> \E w \in Worker : a \in Stacked(w)
BY DEF OneFrame, Stacked

\* Every variable keeps its type, an action is running exactly while a worker
\* has it on its stack, and it is published exactly when it is complete (claim,
\* complete and fail in lazy.rs).
THEOREM TypesKept == Spec => []TypeOK
<1>1. Coherent /\ Answered => TypeOK
  <2> SUFFICES ASSUME Coherent, Answered PROVE TypeOK OBVIOUS
  <2>1. next \in 1..(Len(build.roots) + Workers + 1)
    <3>1. /\ next \in Nat \ {0} /\ Len(build.roots) \in Nat /\ Workers \in Nat
          /\ Cardinality(DoneWorkers) \in 0..Workers
          BY DemandWorkersAssumption, RootIsAction, DoneFinite DEF Coherent, Typed
    <3>2. next <= Len(build.roots) + 1 + Cardinality(DoneWorkers) BY DEF Answered, Counted
    <3> QED BY <3>1, <3>2
  <2>2. \A a \in Action :
          /\ actions[a] = "running" <=> \E w \in Worker : a \in Stacked(w)
          /\ actions[a] = "complete" <=> published[a] # None
        BY RunningIsStacked DEF Coherent, OneFrame
  <2> QED BY <2>1, <2>2 DEF Coherent, Typed, TypeOK
<1> QED BY <1>1, DemandInvariant, PTL

\* An action is evaluated at most once, and never on two stacks: the claim in
\* FilteredDemandCoordinator::claim is exclusive.
THEOREM EvaluatedOnce == Spec => []SingleFlight
<1>1. Coherent => SingleFlight
  <2> SUFFICES ASSUME Coherent PROVE SingleFlight OBVIOUS
  <2>1. \A a \in Action : runs[a] <= 1 BY DEF Coherent, OneFrame
  <2>2. \A v, w \in Worker : v # w => Stacked(v) \cap Stacked(w) = {}
        BY DEF Coherent, OneFrame, Stacked
  <2> QED BY <2>1, <2>2 DEF SingleFlight
<1> QED BY <1>1, DemandInvariant, PTL

\* What a worker holds of an action is what the coordinator published.
THEOREM OneOutcome == Spec => []ViewsAgree
<1>1. Coherent => ViewsAgree BY DEF Coherent
<1> QED BY <1>1, DemandInvariant, PTL

\* All actions read one content of the source (observe_filtered_source).
THEOREM ReadOnce == Spec => []SourceReadOnce
<1>1. Coherent => SourceReadOnce
  <2> SUFFICES ASSUME Coherent PROVE SourceReadOnce OBVIOUS
  <2>1. Cardinality({}) = 0 /\ Cardinality({observation}) = 1
        BY FS_EmptySet, FS_Singleton
  <2> QED BY <2>1 DEF Coherent, OneObservation, SourceReadOnce
<1> QED BY <1>1, DemandInvariant, PTL

\* A sleeper waits for a running action while no failure is latched: the check
\* and the wait are one locked section, and every change notifies.
THEOREM WakeupsArrive == Spec => []NoLostWakeup
<1>1. Coherent => NoLostWakeup BY DEF Coherent, Sleeping, NoLostWakeup
<1> QED BY <1>1, DemandInvariant, PTL

\* build_filtered succeeds exactly when every root is complete and nothing
\* failed, caught or not.
THEOREM VerdictIsRight == Spec => []VerdictRight
<1>1. Coherent /\ Answered => VerdictRight
  <2> SUFFICES ASSUME Coherent, Answered, Ended
               PROVE  Succeeded <=> /\ \A i \in DOMAIN build.roots :
                                           actions[build.roots[i]] = "complete"
                                    /\ faults = 0 /\ ~\E w \in Worker : troubled[w]
      BY DEF VerdictRight
  <2>1. ASSUME Succeeded
        PROVE  /\ \A i \in DOMAIN build.roots : actions[build.roots[i]] = "complete"
               /\ faults = 0 /\ ~\E w \in Worker : troubled[w]
    <3>1. faults = 0 /\ ~\E w \in Worker : troubled[w]
          BY <2>1 DEF Coherent, Typed, Answered, Blamed, Succeeded
    <3>2. ASSUME NEW i \in DOMAIN build.roots PROVE actions[build.roots[i]] = "complete"
      <4>1. i \in Nat /\ i >= 1 /\ i <= Len(build.roots) /\ Len(build.roots) \in Nat
            /\ next \in Nat
            BY RootIsAction DEF Coherent, Typed
      <4>2. 1 \in DoneWorkers
            BY <2>1, DemandWorkersAssumption DEF Succeeded, DoneWorkers, Worker
      <4>3. next > Len(build.roots) BY <4>1, <4>2 DEF Answered, Counted
      <4>4. i < next BY <4>1, <4>3
      <4>5. ~\E w \in Worker : AnswersFor(w, build.roots[i])
            BY <2>1, <3>1 DEF AnswersFor, Succeeded, Coherent, Placed
      <4> QED BY <4>4, <4>5 DEF Answered, RootsAnswered
    <3> QED BY <3>1, <3>2
  <2>2. ASSUME faults = 0, ~\E w \in Worker : troubled[w] PROVE Succeeded
        BY <2>2 DEF Answered, Blamed, Ended, Succeeded
  <2> QED BY <2>1, <2>2
<1> QED BY <1>1, DemandInvariant, PTL

\* No cycle is reported in a build whose actions can be ranked above those they
\* demand: the waits of claim() descend in the ranking.
THEOREM CyclesAreReal == Spec => []NoFalseCycle
<1>1. Ordered => NoFalseCycle BY DEF Ordered
<1> QED BY <1>1, DemandInvariant, PTL
=============================================================================
