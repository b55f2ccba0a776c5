------------------------- MODULE WorkerDialogueProofs -------------------------
(* Frontend and worker never both talk, an attempt succeeds only with the    *)
(* answers, contents and edges that are its own, and fails only if something *)
(* has failed, for any batches, phases, faults and number of attempts:       *)
(* theorems about WorkerDialogue.                                            *)
EXTENDS WorkerDialogue, SequenceTheorems, TLAPS

----------------------------------------------------------------------------
(* The types of both sides and of what they send.                            *)

Listing == Seq(Actions) \ {<<>>}
Versions == UNION {[D -> Nat] : D \in SUBSET Assets}
Finds == UNION {[D -> Nat \cup {Path}] : D \in SUBSET Assets}

Frames == [id : Nat, actions : Listing, ask : Call \cup {None}]
Runs == [action : Actions, build : Nat, blocked : SUBSET Assets, call : Call \cup {None},
         calls : Nat, told : Versions, strayed : BOOLEAN, upset : BOOLEAN]
Jobs == [id : Nat, actions : Listing, reads : SUBSET Assets, strayed : BOOLEAN]

Greetings == [type : {"initialize", "reset"}, id : Nat]
Builds == [type : {"batch", "build"}, id : Nat, actions : Listing, blocked : SUBSET Assets]
Replies == [type : {"answer"}, id : Nat, ok : BOOLEAN, to : Call, found : Finds]
Orders == Greetings \cup Builds \cup Replies

Signals == [type : {"ack", "error"}, id : Nat]
Results == [type : {"result"}, id : Nat, ok : BOOLEAN, reads : SUBSET Assets,
            edges : SUBSET Assets, strayed : BOOLEAN]
Totals == [type : {"batch_result"}, id : Nat, count : Nat, reads : SUBSET Assets,
           edges : SUBSET Assets, strayed : BOOLEAN]
Messages == Signals \cup Call \cup Results \cup Totals

Frontends ==
    [pc : {"idle", "greet", "serve", "handle", "done", "failed"}, attempt : 0..MaxAttempts,
     batch : Batches \cup {None}, known : BOOLEAN, greeted : BOOLEAN, id : Nat,
     stack : Seq(Frames), ask : Call \cup {None}, overlay : Versions, deleted : SUBSET Assets,
     built : SUBSET Assets, edges : Versions, reads : SUBSET Assets, strayed : BOOLEAN,
     floor : [Assets -> Nat]]
Workers ==
    [pc : {"loop", "busy", "dead"}, started : BOOLEAN, batch : Jobs \cup {None}, stack : Seq(Runs),
     cache : Versions, readable : SUBSET Assets, sent : SUBSET Assets, entry : SUBSET Assets]

Typed ==
    /\ disk \in [Assets -> Nat]
    /\ frontend \in Frontends /\ worker \in Workers
    /\ down \in Seq(Orders) /\ up \in Seq(Messages)
    /\ budget \in [edits : 0..MaxEdits, faults : 0..MaxFaults]

\* Only a nested build was demanded by a request; a worker has a stack while it runs a batch.
Shaped ==
    /\ frontend.pc # "idle" => frontend.batch \in Batches
    /\ Underway => frontend.stack # <<>>
    /\ frontend.pc = "handle" => frontend.ask \in Call
    /\ \A i \in 2..Len(frontend.stack) : frontend.stack[i].ask \in Call
    /\ worker.pc = "busy" <=> worker.stack # <<>>
    /\ worker.pc = "busy" => worker.batch \in Jobs

----------------------------------------------------------------------------
(* The inductive invariant, in named parts.                                  *)

F == frontend.stack
S == worker.stack
Alive == worker.pc # "dead"
Incoming(type) == down # <<>> /\ Order.type = type
Outgoing(type) == up # <<>> /\ Message.type = type

(* Whose turn it is: the frontend's, which then handles a request or is      *)
(* between attempts; that of a message, in one of the pipes; or the          *)
(* worker's, of which all runs but the last wait for an answer.              *)
Listening == frontend.pc \in {"greet", "serve"}
Turn ==
    /\ Alive /\ ~Listening => up = <<>> /\ down = <<>> /\ ~Free
    /\ Alive /\ Listening =>
          \/ up = <<>> /\ Len(down) = 1 /\ ~Free
          \/ down = <<>> /\ Len(up) = 1 /\ ~Free
          \/ down = <<>> /\ up = <<>> /\ Free
    /\ ~Alive => Len(up) <= 1 /\ (~Listening => up = <<>>)
    /\ \A i \in 1..(Len(S) - 1) : S[i].call # None

(* The phase of a batch bounds those of all that is demanded for it, and     *)
(* nested builds have ever larger numbers.                                   *)
Lead == Phase[frontend.batch.actions[1]]
Lazy(a) == frontend.batch.lazy /\ a \in Optional
Ladder == Underway =>
    /\ F[1].actions = frontend.batch.actions
    /\ \A i \in DOMAIN F : F[i].id < frontend.id
    /\ \A i, j \in DOMAIN F : i < j => F[i].id < F[j].id
    /\ \A i \in 2..Len(F) : /\ Lazy(F[i].actions[1]) /\ Phase[F[i].actions[1]] < Lead
                            /\ F[i].ask.phase <= Lead
    /\ frontend.pc = "handle" => frontend.ask.phase <= Lead

\* What is hidden from an action, and what its request says, is of its phase.
Later(a) == {b \in Actions : Phase[b] >= Phase[a]}
Uniform(actions) == \A i, j \in DOMAIN actions : Phase[actions[i]] = Phase[actions[j]]
Posed ==
    /\ \A n \in DOMAIN down : down[n].type \in {"batch", "build"} =>
          Uniform(down[n].actions) /\ Later(down[n].actions[1]) \subseteq down[n].blocked
    /\ worker.pc = "busy" =>
          /\ Uniform(worker.batch.actions)
          /\ S[1].build + 1 \in DOMAIN worker.batch.actions
          /\ S[1].action = worker.batch.actions[S[1].build + 1]
    /\ \A i \in DOMAIN S :
          /\ Later(S[i].action) \subseteq S[i].blocked
          /\ S[i].call # None => /\ S[i].call.build = S[i].build
                                 /\ S[i].call.phase = Phase[S[i].action]

(* A greeting is acknowledged by a worker that is in its loop, all of its    *)
(* caches cleared: a `reset` goes only to a worker that was initialized.     *)
Cleaned ==
    /\ Alive /\ frontend.greeted => worker.started
    /\ Alive /\ frontend.pc = "greet" /\ Incoming("reset") => worker.started
    /\ Alive /\ frontend.pc = "greet" /\ Outgoing("ack") =>
          /\ worker.pc = "loop" /\ worker.started
          /\ worker.sent = {} /\ DOMAIN worker.cache = {}

(* The worker has a run for each frame of the frontend that it has been told *)
(* of.  It may have more, after an error that it has not been told of yet:   *)
(* their numbers are above those of all frames.                              *)
Beyond(n) == \A j \in DOMAIN F : F[j].id < n
Loop == Underway /\ worker.pc = "loop" =>
    /\ frontend.pc = "serve" /\ Len(F) = 1
    /\ \/ Incoming("batch") /\ Order.id = F[1].id /\ Order.actions = F[1].actions
       \/ Outgoing("batch_result") \/ Outgoing("error")
Paired == Underway /\ worker.pc = "busy" =>
    /\ worker.batch.id = F[1].id /\ worker.batch.actions = F[1].actions
    /\ ~worker.batch.strayed
    /\ \A i \in DOMAIN S :
          /\ i < Len(F) => F[i + 1].ask = S[i].call
          /\ i <= Len(F) => ~S[i].strayed
          /\ i > 1 => /\ S[i].build < frontend.id /\ Phase[S[i].action] < Lead
                      /\ i <= Len(F) => S[i].build = F[i].id /\ S[i].action = F[i].actions[1]
                      /\ i > Len(F) => Beyond(S[i].build)
Placed == Underway /\ worker.pc = "busy" =>
    /\ frontend.pc = "handle" => Len(S) = Len(F) /\ frontend.ask = Active.call
    /\ Free => Len(S) >= Len(F)
    /\ up # <<>> =>
          \/ /\ Message.type = "ask" /\ Message = Active.call
             /\ Len(S) >= Len(F)
          \/ /\ Message.type = "result" /\ Len(S) + 1 >= Len(F)
             /\ Len(S) + 1 = Len(F) => Message.id = Top(F).id /\ ~Message.strayed
             /\ Len(S) + 1 > Len(F) => Beyond(Message.id)
    /\ down # <<>> =>
          \/ /\ Order.type = "answer" /\ Len(S) >= Len(F)
             /\ Order.to = S[Len(F)].call /\ Order.id = Order.to.id
             /\ Order.ok => Len(S) = Len(F)
          \/ /\ Order.type = "build" /\ Len(S) + 1 = Len(F)
             /\ Order.id = Top(F).id /\ Order.actions = Top(F).actions

\* What the frontend takes from a result, also one a dead worker has left.
Owned == {a \in DOMAIN frontend.edges : frontend.edges[a] = frontend.attempt}
Taken ==
    /\ ~frontend.strayed
    /\ frontend.pc = "serve" /\ Outgoing("result") =>
          /\ Nested /\ Message.id = Top(F).id => ~Message.strayed
          /\ Message.reads \subseteq Message.edges \cup Owned
    /\ frontend.pc = "serve" /\ Outgoing("batch_result") =>
          ~Message.strayed /\ Message.reads \subseteq Message.edges \cup Owned

(* The edges that the worker takes for sent are the frontend's, or on the way. *)
Edged ==
    /\ Listening \/ Underway \/ frontend.pc = "done" => frontend.reads \subseteq Owned
    /\ Underway /\ Alive => \A a \in worker.sent :
          a \in Owned \/ (up # <<>> /\ Message.type \in {"result", "batch_result"} /\ a \in Message.edges)
    /\ worker.pc = "busy" => worker.batch.reads \subseteq worker.entry

(* What may be read is not older than the attempt, and what is demanded is   *)
(* from the attempt: in the files, the overlay, an answer and the caches.    *)
Fresh(a, content) == content >= frontend.floor[a]
Current ==
    /\ Listening \/ Underway =>
          /\ \A a \in Assets :
                IF Lazy(a) THEN frontend.floor[a] = frontend.attempt ELSE Fresh(a, disk[a])
          /\ \A a \in DOMAIN frontend.overlay : Lazy(a) /\ frontend.overlay[a] = frontend.attempt
          /\ frontend.built \subseteq DOMAIN frontend.overlay
    /\ Underway /\ Alive /\ Incoming("answer") =>
          \A a \in DOMAIN Order.found :
             /\ a \in Actions => Phase[a] < Order.to.phase
             /\ IF Order.found[a] = Path THEN ~Lazy(a) ELSE Fresh(a, Order.found[a])
    /\ Underway /\ Alive => \A a \in DOMAIN worker.cache : Fresh(a, worker.cache[a])
    /\ TrueToView

(* As long as nothing has failed, the worker is exactly where the frontend   *)
(* takes it to be, and no builder has met a refusal it does not expect.      *)
Healthy == budget.faults = MaxFaults =>
    /\ Alive /\ frontend.pc # "failed"
    /\ ~Underway => worker.pc = "loop"
    /\ frontend.pc = "greet" =>
          /\ down # <<>> => Order.type \in {"initialize", "reset"} /\ Order.id = frontend.id - 1
          /\ up # <<>> => Message.type = "ack" /\ Message.id = frontend.id - 1
    /\ Underway /\ worker.pc = "loop" /\ up # <<>> =>
          /\ Message.type = "batch_result" /\ Message.id = F[1].id
          /\ Message.count = Len(F[1].actions)
    /\ \A i \in DOMAIN S : ~S[i].upset
    /\ Underway /\ worker.pc = "busy" =>
          /\ Free \/ Outgoing("ask") \/ Incoming("answer") => Len(S) = Len(F)
          /\ Outgoing("result") => Len(S) + 1 = Len(F) /\ Message.ok
          /\ Incoming("answer") => Order.ok \/ Order.to.op = "resolve_assets"

Inv ==
    /\ Turn /\ Ladder /\ Posed /\ Cleaned /\ Loop /\ Paired /\ Placed /\ Taken /\ Edged
    /\ Current /\ Healthy

----------------------------------------------------------------------------
(* Stacks, pipes and partial functions.                                      *)

LEMMA TopOf ==
    ASSUME NEW T, NEW s \in Seq(T), s # <<>>
    PROVE  /\ Len(s) \in Nat \ {0} /\ Len(s) \in DOMAIN s /\ DOMAIN s = 1..Len(s)
           /\ Top(s) = s[Len(s)] /\ Top(s) \in T /\ s[1] \in T
BY DEF Top

LEMMA PopOf ==
    ASSUME NEW T, NEW s \in Seq(T), s # <<>>
    PROVE  /\ Pop(s) \in Seq(T) /\ Len(Pop(s)) = Len(s) - 1 /\ DOMAIN Pop(s) = 1..(Len(s) - 1)
           /\ \A i \in 1..(Len(s) - 1) : Pop(s)[i] = s[i]
           /\ Pop(s) = <<>> <=> Len(s) = 1
<1>1. Len(s) \in Nat \ {0} /\ \A i \in 1..(Len(s) - 1) : s[i] \in T
  OBVIOUS
<1> DEFINE n == Len(s) - 1
<1>4. n \in Nat /\ \A i \in 1..n : s[i] \in T
  BY <1>1
<1>5. /\ SubSeq(s, 1, n) \in Seq(T)
      /\ Len(SubSeq(s, 1, n)) = IF 1 <= n THEN n - 1 + 1 ELSE 0
      /\ \A i \in 1..(n - 1 + 1) : SubSeq(s, 1, n)[i] = s[1 + i - 1]
  <2> HIDE DEF n
  <2> QED BY <1>4, SubSeqProperties
<1>2. /\ Pop(s) \in Seq(T) /\ Len(Pop(s)) = Len(s) - 1
      /\ \A i \in 1..(Len(s) - 1) : Pop(s)[i] = s[i]
  <2>1. Pop(s) = SubSeq(s, 1, n) BY DEF Pop
  <2> HIDE DEF n
  <2>2. \A i \in 1..n : 1 + i - 1 = i /\ i \in 1..(n - 1 + 1) BY <1>4
  <2>3. Len(Pop(s)) = n BY <2>1, <1>5, <1>4
  <2>4. \A i \in 1..n : Pop(s)[i] = s[i] BY <2>1, <2>2, <1>5
  <2> QED BY <2>1, <2>3, <2>4, <1>5 DEF n
<1>3. Pop(s) = <<>> <=> Len(Pop(s)) = 0
  BY <1>2
<1> QED BY <1>2, <1>3

LEMMA OnTopOf ==
    ASSUME NEW T, NEW s \in Seq(T), s # <<>>, NEW x \in T
    PROVE  /\ OnTop(s, x) \in Seq(T) /\ Len(OnTop(s, x)) = Len(s) /\ DOMAIN OnTop(s, x) = 1..Len(s)
           /\ OnTop(s, x)[Len(s)] = x /\ OnTop(s, x) # <<>>
           /\ \A i \in 1..(Len(s) - 1) : OnTop(s, x)[i] = s[i]
BY DEF OnTop

LEMMA PushOf ==
    ASSUME NEW T, NEW s \in Seq(T), NEW x \in T
    PROVE  /\ Append(s, x) \in Seq(T) /\ Len(Append(s, x)) = Len(s) + 1
           /\ DOMAIN Append(s, x) = 1..(Len(s) + 1)
           /\ Append(s, x)[Len(s) + 1] = x /\ Append(s, x) # <<>>
           /\ \A i \in 1..Len(s) : Append(s, x)[i] = s[i]
OBVIOUS

LEMMA HeadOf ==
    ASSUME NEW T, NEW s \in Seq(T), s # <<>>
    PROVE  /\ Head(s) \in T /\ Head(s) = s[1] /\ Tail(s) \in Seq(T)
           /\ Len(Tail(s)) = Len(s) - 1
           /\ \A i \in 1..(Len(s) - 1) : Tail(s)[i] = s[i + 1]
           /\ Len(s) = 1 <=> Tail(s) = <<>>
<1>1. /\ Head(s) \in T /\ Head(s) = s[1] /\ Tail(s) \in Seq(T)
      /\ Len(Tail(s)) = Len(s) - 1
      /\ \A i \in 1..(Len(s) - 1) : Tail(s)[i] = s[i + 1]
  OBVIOUS
<1>2. Tail(s) = <<>> <=> Len(Tail(s)) = 0
  BY <1>1
<1> QED BY <1>1, <1>2

LEMMA SingleOf ==
    ASSUME NEW T, NEW x \in T
    PROVE  /\ <<x>> \in Seq(T) /\ Len(<<x>>) = 1 /\ <<x>>[1] = x /\ <<x>> # <<>>
           /\ Append(<<>>, x) = <<x>> /\ DOMAIN <<x>> = 1..1 /\ Head(<<x>>) = x
OBVIOUS

LEMMA EmptyOf == ASSUME NEW T PROVE <<>> \in Seq(T) /\ Len(<<>>) = 0 /\ DOMAIN <<>> = {}
OBVIOUS

LEMMA VersionsAre ==
    ASSUME NEW f \in Versions
    PROVE  DOMAIN f \subseteq Assets /\ \A a \in DOMAIN f : f[a] \in Nat
BY DEF Versions

LEMMA NoVersions == <<>> \in Versions /\ <<>> \in Finds /\ DOMAIN <<>> = {}
<1>1. <<>> \in [{} -> Nat] /\ <<>> \in [{} -> Nat \cup {Path}] OBVIOUS
<1> QED BY <1>1 DEF Versions, Finds

----------------------------------------------------------------------------
(* The types hold in every step.  Erred, which four actions share, first.    *)

LEMMA BuildMade ==
    ASSUME NEW type \in {"batch", "build"}, NEW id \in Nat, NEW actions \in Listing,
           NEW blocked \in SUBSET Assets
    PROVE  [type |-> type, id |-> id, actions |-> actions, blocked |-> blocked] \in Orders
BY DEF Orders, Builds

LEMMA ReplyMade ==
    ASSUME NEW ok \in BOOLEAN, NEW to \in Call, NEW found \in Finds
    PROVE  [type |-> "answer", id |-> to.id, ok |-> ok, to |-> to, found |-> found] \in Orders
BY DEF Orders, Replies, Call

LEMMA FaultTyped ==
    ASSUME budget \in [edits : 0..MaxEdits, faults : 0..MaxFaults], Fault
    PROVE  /\ budget' \in [edits : 0..MaxEdits, faults : 0..MaxFaults]
           /\ budget'.faults = budget.faults - 1 /\ budget'.faults < MaxFaults
<1>1. budget.faults - 1 \in 0..MaxFaults /\ budget.faults - 1 < MaxFaults
  BY DialogueAssumption DEF Fault
<1>2. budget' = [budget EXCEPT !.faults = budget.faults - 1]
  BY DEF Fault
<1> QED BY <1>1, <1>2

LEMMA InitTyped == Init => Typed /\ Shaped
<1> SUFFICES ASSUME Init PROVE Typed /\ Shaped OBVIOUS
<1> USE DialogueAssumption, NoVersions
<1>1. frontend \in Frontends
  BY DEF Init, Frontends
<1>2. worker \in Workers
  BY DEF Init, NewWorker, Workers
<1>3. Typed
  BY <1>1, <1>2 DEF Init, Typed
<1> QED BY <1>3 DEF Shaped, Init, NewWorker, Underway

LEMMA ErredTyped ==
    ASSUME NEW f \in Frontends, f.stack # <<>>, f.batch \in Batches, down \in Seq(Orders),
           \A i \in 2..Len(f.stack) : f.stack[i].ask \in Call, Erred(f)
    PROVE  /\ frontend' \in Frontends /\ down' \in Seq(Orders)
           /\ frontend'.pc \in {"serve", "failed"} /\ frontend'.batch \in Batches
           /\ frontend'.pc = "serve" => frontend'.stack # <<>>
           /\ \A i \in 2..Len(frontend'.stack) : frontend'.stack[i].ask \in Call
<1> USE NoVersions
<1>0. f.stack \in Seq(Frames) BY DEF Frames, Frontends
<1>3. Top(f.stack) = f.stack[Len(f.stack)] /\ Len(f.stack) \in Nat \ {0}
  BY <1>0, TopOf
<1>1. CASE Len(f.stack) > 1
  <2>1. frontend' = [f EXCEPT !.pc = "serve", !.stack = Pop(f.stack), !.ask = None]
    BY <1>1 DEF Erred
  <2>2. Pop(f.stack) \in Seq(Frames) /\ Pop(f.stack) # <<>>
    BY <1>0, <1>1, PopOf
  <2>3. frontend' \in Frontends /\ frontend'.stack = Pop(f.stack)
    BY <2>1, <2>2 DEF Frontends
  <2>4. Top(f.stack).ask \in Call
    BY <1>3, <1>1
  <2>5. [type |-> "answer", id |-> Top(f.stack).ask.id, ok |-> FALSE,
         to |-> Top(f.stack).ask, found |-> <<>>] \in Orders
    BY <2>4, NoVersions, ReplyMade
  <2>6. down' \in Seq(Orders)
    BY <1>1, <2>5 DEF Erred
  <2>7. \A i \in 2..Len(Pop(f.stack)) : Pop(f.stack)[i].ask \in Call
    BY <1>0, <1>1, PopOf
  <2> QED BY <2>1, <2>2, <2>3, <2>6, <2>7 DEF Frontends
<1>2. CASE ~(Len(f.stack) > 1)
  <2>1. /\ frontend' = [f EXCEPT !.pc = "failed", !.stack = <<>>, !.ask = None,
                                 !.edges = IF f.batch.lazy THEN @ ELSE <<>>]
        /\ down' = down
    BY <1>2 DEF Erred
  <2> DEFINE edges == IF f.batch.lazy THEN f.edges ELSE <<>>
  <2>2. edges \in Versions BY DEF Frontends
  <2>3. frontend' = [f EXCEPT !.pc = "failed", !.stack = <<>>, !.ask = None, !.edges = edges]
    BY <2>1 DEF Frontends
  <2> HIDE DEF edges
  <2>4. frontend' \in Frontends /\ frontend'.pc = "failed" /\ frontend'.batch = f.batch
        /\ frontend'.stack = <<>>
    BY <2>2, <2>3, EmptyOf DEF Frontends
  <2> QED BY <2>1, <2>4
<1> QED BY <1>1, <1>2

\* What arrives, and the run that waits for it.
LEMMA Pipes ==
    ASSUME Typed
    PROVE  /\ up # <<>> => Message \in Messages /\ Tail(up) \in Seq(Messages)
           /\ down # <<>> => Order \in Orders /\ Tail(down) \in Seq(Orders)
BY HeadOf DEF Typed, Message, Order

LEMMA ActiveRun ==
    ASSUME Typed, Shaped, worker.pc = "busy"
    PROVE  /\ Active \in Runs /\ Active = worker.stack[Len(worker.stack)]
           /\ Len(worker.stack) \in Nat \ {0} /\ worker.stack # <<>>
           /\ worker.stack \in Seq(Runs)
<1>1. worker.stack \in Seq(Runs) /\ worker.stack # <<>> BY DEF Typed, Shaped, Workers
<1> QED BY <1>1, TopOf DEF Active

LEMMA Framed ==
    ASSUME Typed, Shaped, Underway
    PROVE  /\ Top(frontend.stack) = frontend.stack[Len(frontend.stack)]
           /\ Top(frontend.stack) \in Frames /\ Len(frontend.stack) \in Nat \ {0}
           /\ frontend.stack # <<>> /\ frontend.stack \in Seq(Frames) /\ frontend.batch \in Batches
           /\ Nested => Top(frontend.stack).ask \in Call
<1>1. frontend.stack \in Seq(Frames) /\ frontend.stack # <<>> BY DEF Typed, Shaped, Frontends
<1>2. frontend.batch \in Batches BY DEF Shaped, Underway
<1>3. /\ Top(frontend.stack) = frontend.stack[Len(frontend.stack)]
      /\ Top(frontend.stack) \in Frames /\ Len(frontend.stack) \in Nat \ {0}
  BY <1>1, TopOf
<1> QED BY <1>1, <1>2, <1>3 DEF Shaped, Nested

LEMMA RunningTyped ==
    ASSUME NEW action \in Actions, NEW build \in Nat, NEW blocked \in SUBSET Assets
    PROVE  Running(action, build, blocked) \in Runs
BY NoVersions DEF Running, Runs

LEMMA BeginTyped ==
    ASSUME Typed, Shaped, NEW batch \in Batches, NEW changed \in BOOLEAN, Begin(batch, changed)
    PROVE  Typed' /\ Shaped'
<1> USE DialogueAssumption
<1> DEFINE restart == changed /\ frontend.known
           greet == changed \/ ~frontend.greeted
           edges == IF restart \/ frontend.pc = "done" THEN <<>> ELSE frontend.edges
           floor == [a \in Assets |-> IF batch.lazy /\ a \in Optional
                                      THEN frontend.attempt + 1 ELSE disk[a]]
           order == [type |-> IF greet THEN "initialize" ELSE "reset", id |-> frontend.id]
<1>1. frontend \in Frontends /\ worker \in Workers /\ disk \in [Assets -> Nat]
      /\ down \in Seq(Orders) /\ up \in Seq(Messages)
  BY DEF Typed
<1>2. edges \in Versions BY <1>1, NoVersions DEF Frontends
<1>3. floor \in [Assets -> Nat] BY <1>1 DEF Frontends
<1>4. frontend.attempt + 1 \in 0..MaxAttempts /\ frontend.id + 1 \in Nat
  BY <1>1 DEF Begin, Frontends
<1>5. order \in Orders BY <1>1 DEF Orders, Greetings, Frontends
<1>6. frontend' = [frontend EXCEPT
              !.pc = "greet", !.attempt = frontend.attempt + 1, !.batch = batch, !.greeted = ~greet,
              !.id = frontend.id + 1,
              !.overlay = <<>>, !.deleted = {}, !.built = {}, !.reads = {}, !.strayed = FALSE,
              !.edges = edges, !.floor = floor]
  BY <1>1 DEF Begin, Frontends
<1>7. /\ worker' = IF restart THEN NewWorker ELSE worker
      /\ up' = IF restart THEN <<>> ELSE up
      /\ down' = Append(IF restart THEN <<>> ELSE down, order)
      /\ disk' = disk /\ budget' = budget
  BY DEF Begin
<1>8. frontend' \in Frontends /\ frontend'.pc = "greet" /\ frontend'.batch = batch
      /\ frontend'.stack = frontend.stack
  <2> HIDE DEF edges, floor, greet
  <2> QED BY <1>1, <1>2, <1>3, <1>4, <1>6, NoVersions DEF Frontends
<1>9. worker' \in Workers /\ (worker'.pc = "busy" <=> worker'.stack # <<>>)
      /\ (worker'.pc = "busy" => worker'.batch \in Jobs)
  BY <1>1, <1>7, NoVersions DEF Workers, NewWorker, Shaped
<1>10. down' \in Seq(Orders) /\ up' \in Seq(Messages)
  <2> HIDE DEF order
  <2> QED BY <1>1, <1>5, <1>7
<1> QED BY <1>1, <1>7, <1>8, <1>9, <1>10 DEF Typed, Shaped, Underway

LEMMA GreetedTyped ==
    ASSUME Typed, Shaped, Greeted
    PROVE  Typed' /\ Shaped'
<1> USE DialogueAssumption
<1>1. frontend \in Frontends /\ down \in Seq(Orders) /\ up' \in Seq(Messages)
      /\ frontend.pc = "greet" /\ frontend.batch \in Batches
  BY Pipes DEF Typed, Greeted, Received, Shaped
<1>2. frontend.batch.actions \in Listing /\ frontend.batch.actions[1] \in Actions
  BY <1>1 DEF Listing
<1>3. CASE Message.type = "ack" /\ Message.id = frontend.id - 1
  <2> DEFINE frame == [id |-> frontend.id, actions |-> frontend.batch.actions, ask |-> None]
             blocked == Blocked(Phase[frontend.batch.actions[1]], {})
             order == [type |-> "batch", id |-> frontend.id, actions |-> frontend.batch.actions,
                       blocked |-> blocked]
  <2>1. frame \in Frames BY <1>1, <1>2 DEF Frames, Frontends
  <2>2. blocked \in SUBSET Assets BY DEF Blocked, Assets
  <2>3. order \in Orders
    <3>1. frontend.id \in Nat BY <1>1 DEF Frontends
    <3> HIDE DEF blocked
    <3> QED BY <1>2, <2>2, <3>1, BuildMade
  <2>4. /\ frontend' = [frontend EXCEPT !.pc = "serve", !.known = TRUE, !.greeted = TRUE,
                                       !.id = frontend.id + 1, !.stack = <<frame>>]
        /\ down' = Append(down, order)
    BY <1>1, <1>3 DEF Greeted, Frontends
  <2>5. <<frame>> \in Seq(Frames) /\ <<frame>> # <<>> /\ Len(<<frame>>) = 1
    <3> HIDE DEF frame
    <3> QED BY <2>1
  <2>6. frontend' \in Frontends /\ frontend'.pc = "serve" /\ frontend'.stack = <<frame>>
        /\ frontend'.batch = frontend.batch
    <3> DEFINE stack == <<frame>>
    <3>1. stack \in Seq(Frames) BY <2>5
    <3>2. frontend' = [frontend EXCEPT !.pc = "serve", !.known = TRUE, !.greeted = TRUE,
                                      !.id = frontend.id + 1, !.stack = stack]
      BY <2>4
    <3> HIDE DEF frame, stack
    <3>4. frontend.id + 1 \in Nat BY <1>1 DEF Frontends
    <3>3. frontend' \in Frontends /\ frontend'.pc = "serve" /\ frontend'.stack = stack
          /\ frontend'.batch = frontend.batch
      BY <1>1, <3>1, <3>2, <3>4 DEF Frontends
    <3> QED BY <3>3 DEF stack
  <2>7. down' \in Seq(Orders)
    <3> HIDE DEF order
    <3> QED BY <1>1, <2>3, <2>4
  <2> HIDE DEF frame
  <2> QED BY <1>1, <2>5, <2>6, <2>7 DEF Greeted, Typed, Shaped, Underway
<1>4. CASE ~(Message.type = "ack" /\ Message.id = frontend.id - 1)
  <2>1. frontend' = [frontend EXCEPT !.pc = "failed"] /\ down' = down
    BY <1>4 DEF Greeted
  <2>2. frontend' \in Frontends /\ frontend'.pc = "failed" /\ frontend'.stack = frontend.stack
        /\ frontend'.batch = frontend.batch
    BY <1>1, <2>1 DEF Frontends
  <2> QED BY <1>1, <2>1, <2>2 DEF Greeted, Typed, Shaped, Underway
<1> QED BY <1>3, <1>4

LEMMA AskedTyped ==
    ASSUME Typed, Shaped, Asked
    PROVE  Typed' /\ Shaped'
<1>1. frontend \in Frontends /\ down \in Seq(Orders) /\ up' \in Seq(Messages)
      /\ Message \in Call /\ Underway
  BY Pipes DEF Typed, Asked, Received, Underway, Messages, Signals, Results, Totals
<1>2. frontend.stack # <<>> /\ frontend.batch \in Batches
  BY <1>1, Framed
<1>3. CASE Expected(Message)
  <2>1. frontend' = [frontend EXCEPT !.pc = "handle", !.ask = Message] /\ down' = down
    BY <1>3 DEF Asked
  <2>2. frontend' \in Frontends /\ frontend'.pc = "handle" /\ frontend'.stack = frontend.stack
        /\ frontend'.batch = frontend.batch /\ frontend'.ask \in Call
    BY <1>1, <2>1 DEF Frontends
  <2> QED BY <1>1, <1>2, <2>1, <2>2 DEF Asked, Typed, Shaped, Underway
<1>4. CASE ~Expected(Message)
  <2>1. Erred(frontend) BY <1>4 DEF Asked
  <2> QED BY <1>1, <1>2, <2>1, ErredTyped DEF Asked, Typed, Shaped, Underway
<1> QED BY <1>3, <1>4

LEMMA DemandTyped ==
    ASSUME Typed, Shaped, Demand
    PROVE  Typed' /\ Shaped'
<1> USE DialogueAssumption
<1>1. frontend \in Frontends /\ down \in Seq(Orders) /\ frontend.ask \in Call
      /\ frontend.pc = "handle" /\ Underway
  BY DEF Typed, Shaped, Demand, Underway
<1>2. frontend.stack # <<>> /\ frontend.stack \in Seq(Frames) /\ frontend.batch \in Batches
  BY <1>1, Framed
<1>3. PICK a \in Needed(frontend) :
         LET deleted == frontend.deleted \cup {a}
         IN  /\ frontend' = [frontend EXCEPT
                   !.pc = "serve", !.id = @ + 1, !.deleted = deleted, !.ask = None,
                   !.stack = Append(@, [id |-> frontend.id, actions |-> <<a>>, ask |-> frontend.ask])]
             /\ down' = Append(down, [type |-> "build", id |-> frontend.id, actions |-> <<a>>,
                                      blocked |-> Blocked(Phase[a], deleted)])
  BY DEF Demand
<1>4. a \in Optional /\ a \in Actions /\ a \in Assets
  BY DEF Needed, Unbuilt, Assets
<1> DEFINE deleted == frontend.deleted \cup {a}
           frame == [id |-> frontend.id, actions |-> <<a>>, ask |-> frontend.ask]
           order == [type |-> "build", id |-> frontend.id, actions |-> <<a>>,
                     blocked |-> Blocked(Phase[a], deleted)]
<1>5. frame \in Frames BY <1>1, <1>4 DEF Frames, Listing, Frontends
<1>6. deleted \in SUBSET Assets BY <1>1, <1>4 DEF Frontends
<1>7. Blocked(Phase[a], deleted) \in SUBSET Assets
  <2> HIDE DEF deleted
  <2>1. Blocked(Phase[a], deleted) \subseteq Actions \cup deleted BY DEF Blocked
  <2> QED BY <1>6, <2>1 DEF Assets
<1>8. order \in Orders
  <2>1. <<a>> \in Listing BY <1>4 DEF Listing
  <2>2. frontend.id \in Nat BY <1>1 DEF Frontends
  <2> QED BY <1>7, <2>1, <2>2, BuildMade
<1>9. Append(frontend.stack, frame) \in Seq(Frames) /\ Append(frontend.stack, frame) # <<>>
      /\ \A i \in 2..Len(Append(frontend.stack, frame)) : Append(frontend.stack, frame)[i].ask \in Call
  <2>1. frame.ask \in Call BY <1>1
  <2> HIDE DEF frame
  <2> QED BY <1>2, <1>5, <2>1, PushOf DEF Shaped
<1>10. /\ frontend' = [frontend EXCEPT !.pc = "serve", !.id = frontend.id + 1, !.deleted = deleted,
                                      !.ask = None, !.stack = Append(frontend.stack, frame)]
       /\ down' = Append(down, order)
  BY <1>1, <1>3 DEF Frontends
<1>11. frontend' \in Frontends /\ frontend'.pc = "serve" /\ frontend'.batch = frontend.batch
       /\ frontend'.stack = Append(frontend.stack, frame)
  <2> DEFINE stack == Append(frontend.stack, frame)
  <2>1. stack \in Seq(Frames) BY <1>9
  <2>2. frontend' = [frontend EXCEPT !.pc = "serve", !.id = frontend.id + 1, !.deleted = deleted,
                                    !.ask = None, !.stack = stack]
    BY <1>10
  <2> HIDE DEF frame, deleted, stack
  <2>3. frontend' \in Frontends /\ frontend'.pc = "serve" /\ frontend'.batch = frontend.batch
        /\ frontend'.stack = stack
    <3>1. frontend.id + 1 \in Nat BY <1>1 DEF Frontends
    <3> QED BY <1>1, <1>6, <2>1, <2>2, <3>1 DEF Frontends
  <2> QED BY <2>3 DEF stack
<1>12. down' \in Seq(Orders)
  <2> HIDE DEF order
  <2> QED BY <1>1, <1>8, <1>10
<1> HIDE DEF frame
<1> QED BY <1>2, <1>9, <1>11, <1>12 DEF Demand, Typed, Shaped, Underway

LEMMA SkipTyped ==
    ASSUME Typed, Shaped, Skip
    PROVE  Typed' /\ Shaped'
<1> USE DialogueAssumption
<1>1. frontend \in Frontends /\ frontend.pc = "handle" BY DEF Typed, Skip
<1>2. PICK a \in Needed(frontend) : frontend' = [frontend EXCEPT !.deleted = @ \cup {a}]
  BY DEF Skip
<1>3. a \in Assets BY DEF Needed, Unbuilt, Assets
<1>4. frontend' \in Frontends /\ frontend'.pc = frontend.pc /\ frontend'.batch = frontend.batch
      /\ frontend'.stack = frontend.stack /\ frontend'.ask = frontend.ask
  BY <1>1, <1>2, <1>3 DEF Frontends
<1> QED BY <1>4 DEF Skip, Typed, Shaped, Underway

LEMMA FoundTyped ==
    ASSUME Typed, NEW f \in Frontends, f.ask \in Call
    PROVE  Found(f) \in Finds
<1> DEFINE D == f.ask.assets \ Blocked(f.ask.phase, f.deleted)
<1>1. D \in SUBSET Assets BY DEF Call
<1>2. f.overlay \in Versions BY DEF Frontends
<1>3. \A a \in DOMAIN f.overlay : f.overlay[a] \in Nat BY <1>2, VersionsAre
<1>4. Found(f) = [a \in D |-> IF a \in DOMAIN f.overlay THEN f.overlay[a] ELSE Path]
  BY DEF Found
<1> HIDE DEF D
<1>5. Found(f) \in [D -> Nat \cup {Path}] BY <1>3, <1>4
<1> QED BY <1>1, <1>5 DEF Finds

LEMMA AnswerTyped ==
    ASSUME Typed, Shaped, Answer
    PROVE  Typed' /\ Shaped'
<1>1. frontend \in Frontends /\ down \in Seq(Orders) /\ frontend.ask \in Call
      /\ frontend.pc = "handle" /\ Underway
  BY DEF Typed, Shaped, Answer, Underway
<1>2. PICK ok \in BOOLEAN : Reply(ok)
  BY DEF Answer
<1> DEFINE found == IF ok THEN Found(frontend) ELSE <<>>
           order == [type |-> "answer", id |-> frontend.ask.id, ok |-> ok,
                     to |-> frontend.ask, found |-> found]
<1>3. found \in Finds BY <1>1, FoundTyped, NoVersions
<1>4. order \in Orders
  <2> HIDE DEF found
  <2> QED BY <1>1, <1>3, ReplyMade
<1>5. down' = Append(down, order) /\ frontend' = [frontend EXCEPT !.pc = "serve", !.ask = None]
  BY <1>2 DEF Reply
<1>6. frontend' \in Frontends /\ frontend'.pc = "serve" /\ frontend'.batch = frontend.batch
      /\ frontend'.stack = frontend.stack
  BY <1>1, <1>5 DEF Frontends
<1>7. down' \in Seq(Orders)
  <2> HIDE DEF order
  <2> QED BY <1>1, <1>4, <1>5
<1>8. frontend.stack # <<>> /\ frontend.batch \in Batches
  BY <1>1, Framed
<1> QED BY <1>6, <1>7, <1>8 DEF Answer, Typed, Shaped, Underway

LEMMA AnswerFailsTyped ==
    ASSUME Typed, Shaped, AnswerFails
    PROVE  Typed' /\ Shaped'
<1>1. frontend \in Frontends /\ down \in Seq(Orders) /\ Underway /\ Erred(frontend)
  BY DEF Typed, AnswerFails, Underway
<1>2. frontend.stack # <<>> /\ frontend.batch \in Batches
  BY <1>1, Framed
<1>3. budget' \in [edits : 0..MaxEdits, faults : 0..MaxFaults]
  BY FaultTyped DEF AnswerFails, Typed
<1> QED BY <1>1, <1>2, <1>3, ErredTyped DEF AnswerFails, Typed, Shaped, Underway

\* dep_graph.extend, and the overlay that a nested build adds to.
LEMMA ExtendedTyped ==
    ASSUME NEW edges \in Versions, NEW new \in SUBSET Assets, NEW attempt \in Nat
    PROVE  /\ Extended(edges, new, attempt) \in Versions
           /\ DOMAIN Extended(edges, new, attempt) = DOMAIN edges \cup new
           /\ \A a \in DOMAIN edges \cup new :
                 Extended(edges, new, attempt)[a] = IF a \in new THEN attempt ELSE edges[a]
<1>1. DOMAIN edges \subseteq Assets /\ \A a \in DOMAIN edges : edges[a] \in Nat
  BY VersionsAre
<1> DEFINE D == DOMAIN edges \cup new
<1>2. Extended(edges, new, attempt) = [a \in D |-> IF a \in new THEN attempt ELSE edges[a]]
  BY DEF Extended
<1>3. \A a \in D : (IF a \in new THEN attempt ELSE edges[a]) \in Nat
  BY <1>1
<1>4. Extended(edges, new, attempt) \in [D -> Nat]
  BY <1>2, <1>3
<1> QED BY <1>1, <1>2, <1>4 DEF Versions

LEMMA NestedEndsTyped ==
    ASSUME Typed, Shaped, NestedEnds
    PROVE  Typed' /\ Shaped'
<1> DEFINE frame == Top(frontend.stack)
           a == frame.actions[1]
           f == IF Message.type \in {"result", "batch_result"}
                THEN [frontend EXCEPT !.edges = Extended(@, Message.edges, frontend.attempt)]
                ELSE frontend
<1>1. frontend \in Frontends /\ down \in Seq(Orders) /\ up' \in Seq(Messages)
      /\ Message \in Messages /\ Underway /\ frontend.pc = "serve" /\ Nested
  BY Pipes DEF Typed, NestedEnds, Received, Underway
<1>2. /\ frame = frontend.stack[Len(frontend.stack)] /\ frame \in Frames
      /\ Len(frontend.stack) \in Nat \ {0} /\ Len(frontend.stack) > 1
      /\ frontend.stack # <<>> /\ frontend.stack \in Seq(Frames) /\ frontend.batch \in Batches
      /\ frame.ask \in Call
  BY <1>1, Framed DEF Nested
<1>3. a \in Actions /\ a \in Assets BY <1>2 DEF Frames, Listing, Assets
<1>4. Message.type \in {"result", "batch_result"} => Message.edges \in SUBSET Assets
  BY <1>1 DEF Messages, Signals, Call, Results, Totals
<1>5. frontend.edges \in Versions /\ frontend.attempt \in Nat
  BY <1>1, DialogueAssumption DEF Frontends
<1>6. f \in Frontends /\ f.stack = frontend.stack /\ f.batch = frontend.batch
      /\ f.built = frontend.built /\ f.overlay = frontend.overlay /\ f.deleted = frontend.deleted
      /\ f.reads = frontend.reads /\ f.strayed = frontend.strayed
  <2>1. CASE Message.type \in {"result", "batch_result"}
    <3> DEFINE edges == Extended(frontend.edges, Message.edges, frontend.attempt)
    <3>1. edges \in Versions BY <1>4, <1>5, <2>1, ExtendedTyped
    <3>2. f = [frontend EXCEPT !.edges = edges] BY <1>1, <2>1 DEF Frontends
    <3> HIDE DEF edges, f
    <3> QED BY <1>1, <3>1, <3>2 DEF Frontends
  <2>2. CASE ~(Message.type \in {"result", "batch_result"})
    BY <1>1, <2>2
  <2> QED BY <2>1, <2>2
<1>7. CASE Message.type = "result" /\ Message.id = frame.id /\ Message.ok
  <2> DEFINE overlay == [b \in DOMAIN frontend.overlay \cup {a} |->
                           IF b = a THEN frontend.attempt ELSE frontend.overlay[b]]
  <2>1. overlay \in Versions
    <3>1. DOMAIN frontend.overlay \subseteq Assets
          /\ \A b \in DOMAIN frontend.overlay : frontend.overlay[b] \in Nat
      BY <1>1, VersionsAre DEF Frontends
    <3> DEFINE D == DOMAIN frontend.overlay \cup {a}
    <3>2. overlay \in [D -> Nat] BY <1>5, <3>1
    <3> QED BY <1>3, <3>1, <3>2 DEF Versions
  <2>2. Message.reads \in SUBSET Assets /\ Message.strayed \in BOOLEAN
    BY <1>1, <1>7 DEF Messages, Signals, Call, Results, Totals
  <2>3. frontend' = [f EXCEPT !.pc = "handle", !.stack = Pop(@), !.ask = frame.ask,
                      !.overlay = [b \in DOMAIN @ \cup {a} |-> IF b = a THEN frontend.attempt ELSE @[b]],
                      !.deleted = @ \ {a}, !.built = @ \cup {a},
                      !.reads = @ \cup Message.reads, !.strayed = @ \/ Message.strayed]
        /\ down' = down
    BY <1>7 DEF NestedEnds
  <2> DEFINE stack == Pop(frontend.stack)
             deleted == frontend.deleted \ {a}
             built == frontend.built \cup {a}
             reads == frontend.reads \cup Message.reads
             strayed == frontend.strayed \/ Message.strayed
  <2>4. frontend' = [f EXCEPT !.pc = "handle", !.stack = stack, !.ask = frame.ask,
                      !.overlay = overlay, !.deleted = deleted, !.built = built,
                      !.reads = reads, !.strayed = strayed]
    <3> HIDE DEF f, frame, a
    <3> QED BY <1>6, <2>3 DEF Frontends
  <2>5. stack \in Seq(Frames) /\ stack # <<>> /\ \A i \in 2..Len(stack) : stack[i].ask \in Call
    BY <1>2, PopOf DEF Shaped
  <2>6. deleted \in SUBSET Assets /\ built \in SUBSET Assets /\ reads \in SUBSET Assets
        /\ strayed \in BOOLEAN
    BY <1>1, <1>3, <2>2 DEF Frontends
  <2>7. frontend' \in Frontends /\ frontend'.pc = "handle" /\ frontend'.ask \in Call
        /\ frontend'.batch = frontend.batch /\ frontend'.stack = stack
    <3> HIDE DEF f, frame, a, overlay, stack, deleted, built, reads, strayed
    <3> QED BY <1>2, <1>6, <2>1, <2>4, <2>5, <2>6 DEF Frontends
  <2> HIDE DEF stack
  <2> QED BY <1>1, <1>2, <2>3, <2>5, <2>7 DEF NestedEnds, Typed, Shaped, Underway
<1>8. CASE ~(Message.type = "result" /\ Message.id = frame.id /\ Message.ok)
  <2>1. Erred(f) BY <1>8 DEF NestedEnds
  <2>2. \A i \in 2..Len(f.stack) : f.stack[i].ask \in Call BY <1>6 DEF Shaped
  <2> HIDE DEF f
  <2> QED BY <1>1, <1>2, <1>6, <2>1, <2>2, ErredTyped DEF NestedEnds, Typed, Shaped, Underway
<1> QED BY <1>7, <1>8

LEMMA BatchEndsTyped ==
    ASSUME Typed, Shaped, BatchEnds
    PROVE  Typed' /\ Shaped'
<1> DEFINE frame == Top(frontend.stack)
<1>1. frontend \in Frontends /\ down \in Seq(Orders) /\ up' \in Seq(Messages)
      /\ Message \in Messages /\ Underway /\ frontend.pc = "serve"
  BY Pipes DEF Typed, BatchEnds, Received, Underway
<1>2. frontend.stack # <<>> /\ frontend.batch \in Batches
  BY <1>1, Framed
<1>5. frontend.edges \in Versions /\ frontend.attempt \in Nat
  BY <1>1, DialogueAssumption DEF Frontends
<1>7. CASE Message.type = "batch_result" /\ Message.id = frame.id
           /\ Message.count = Len(frame.actions)
  <2> DEFINE edges == Extended(frontend.edges, Message.edges, frontend.attempt)
             reads == frontend.reads \cup Message.reads
             strayed == frontend.strayed \/ Message.strayed
  <2>2. Message.reads \in SUBSET Assets /\ Message.strayed \in BOOLEAN
        /\ Message.edges \in SUBSET Assets
    BY <1>1, <1>7 DEF Messages, Signals, Call, Results, Totals
  <2>3. edges \in Versions /\ reads \in SUBSET Assets /\ strayed \in BOOLEAN
    <3>1. edges \in Versions
      <4>1. \A old \in Versions, new \in SUBSET Assets, attempt \in Nat :
               Extended(old, new, attempt) \in Versions
        BY ExtendedTyped
      <4> QED BY <1>5, <2>2, <4>1
    <3>2. frontend.reads \in SUBSET Assets /\ frontend.strayed \in BOOLEAN
      BY <1>1 DEF Frontends
    <3> QED BY <2>2, <3>1, <3>2
  <2>4. frontend' = [frontend EXCEPT !.pc = "done", !.stack = <<>>, !.edges = edges,
                                    !.reads = reads, !.strayed = strayed]
        /\ down' = down
        /\ disk' = [a \in Assets |-> IF a \in frontend.built \cup Range(frame.actions)
                                     THEN frontend.attempt ELSE disk[a]]
    BY <1>1, <1>7 DEF BatchEnds, Frontends
  <2>5. frontend' \in Frontends /\ frontend'.pc = "done" /\ frontend'.stack = <<>>
        /\ frontend'.batch = frontend.batch
    <3> HIDE DEF edges, reads, strayed
    <3> QED BY <1>1, <2>3, <2>4, EmptyOf DEF Frontends
  <2>6. disk' \in [Assets -> Nat] BY <1>5, <2>4 DEF Typed
  <2> QED BY <1>1, <1>2, <2>4, <2>5, <2>6, EmptyOf DEF BatchEnds, Typed, Shaped, Underway
<1>8. CASE ~(Message.type = "batch_result" /\ Message.id = frame.id
             /\ Message.count = Len(frame.actions))
  <2>1. Erred(frontend) /\ disk' = disk BY <1>8 DEF BatchEnds
  <2> QED BY <1>1, <1>2, <2>1, ErredTyped DEF BatchEnds, Typed, Shaped, Underway
<1> QED BY <1>7, <1>8

LEMMA EofTyped ==
    ASSUME Typed, Shaped, Eof
    PROVE  Typed' /\ Shaped'
<1> DEFINE edges == IF frontend.batch.lazy THEN frontend.edges ELSE <<>>
<1>1. frontend \in Frontends BY DEF Typed
<1>2. edges \in Versions BY <1>1, NoVersions DEF Frontends
<1>3. frontend' = [frontend EXCEPT !.pc = "failed", !.stack = <<>>, !.ask = None, !.edges = edges]
  BY <1>1 DEF Eof, Frontends
<1>4. frontend' \in Frontends /\ frontend'.pc = "failed" /\ frontend'.batch = frontend.batch
      /\ frontend'.stack = <<>>
  <2> HIDE DEF edges
  <2> QED BY <1>1, <1>2, <1>3, EmptyOf DEF Frontends
<1>5. frontend.pc # "idle" BY DEF Eof
<1> QED BY <1>4, <1>5, EmptyOf DEF Eof, Typed, Shaped, Underway

\* The actions of the worker: what the running action becomes, and what is sent.
LEMMA ActDoes ==
    ASSUME Typed, Shaped, worker.pc = "busy", NEW r \in Runs, Act(r)
    PROVE  /\ worker' \in Workers /\ worker'.pc = "busy" /\ worker'.started = worker.started
           /\ worker'.batch = worker.batch /\ worker'.cache = worker.cache
           /\ worker'.readable = worker.readable /\ worker'.sent = worker.sent
           /\ worker'.entry = worker.entry
           /\ S' \in Seq(Runs) /\ S' # <<>> /\ Len(S') = Len(S) /\ Active' = r /\ S'[Len(S)] = r
           /\ \A i \in 1..(Len(S) - 1) : S'[i] = S[i]
<1> DEFINE stack == OnTop(S, r)
<1>1. worker \in Workers /\ S \in Seq(Runs) /\ S # <<>>
  BY ActiveRun DEF Typed, S
<1>2. /\ stack \in Seq(Runs) /\ Len(stack) = Len(S) /\ stack[Len(S)] = r /\ stack # <<>>
      /\ \A i \in 1..(Len(S) - 1) : stack[i] = S[i]
  BY <1>1, OnTopOf
<1>3. worker' = [worker EXCEPT !.stack = stack]
  BY <1>1 DEF Act, Workers, S
<1> HIDE DEF stack
<1>4. worker' \in Workers /\ S' = stack
  BY <1>1, <1>2, <1>3 DEF Workers, S
<1>5. Active' = S'[Len(S')]
  BY DEF Active, Top, S
<1> QED BY <1>1, <1>2, <1>3, <1>4, <1>5 DEF Workers

LEMMA SendDoes ==
    ASSUME Typed, NEW m \in Messages, Send(m)
    PROVE  /\ up' \in Seq(Messages) /\ up' # <<>> /\ Len(up') = Len(up) + 1
           /\ up = <<>> => Message' = m
<1>1. up \in Seq(Messages) /\ up' = Append(up, m)
  BY DEF Typed, Send
<1>2. up = <<>> => Head(up') = m
  BY <1>1
<1> QED BY <1>1, <1>2, PushOf DEF Message

LEMMA ControlTyped ==
    ASSUME Typed, Shaped, Control
    PROVE  Typed' /\ Shaped'
<1>1. worker \in Workers /\ worker.pc = "loop" /\ Order \in Orders /\ down' \in Seq(Orders)
  BY Pipes DEF Typed, Control, Looping
<1>2. worker' \in Workers /\ worker'.pc = "loop" /\ worker'.stack = worker.stack
  BY <1>1, NoVersions DEF Control, Cleared, Workers
<1> DEFINE m == [type |-> IF Order.type \in {"initialize", "reset"} THEN "ack" ELSE "error",
                 id |-> Order.id]
<1>3. Order.id \in Nat
  BY <1>1 DEF Orders, Greetings, Builds, Replies
<1>4. m \in Messages
  BY <1>3 DEF Messages, Signals
<1>5. Send(m) BY DEF Control
<1>6. up' \in Seq(Messages)
  <2> HIDE DEF m
  <2> QED BY <1>4, <1>5, SendDoes
<1> QED BY <1>1, <1>2, <1>6 DEF Control, Typed, Shaped, Underway

\* What an order to run says.
LEMMA BuildIs ==
    ASSUME NEW order \in Orders, order.type \in {"batch", "build"}
    PROVE  /\ order.id \in Nat /\ order.actions \in Listing /\ order.blocked \in SUBSET Assets
           /\ order.actions[1] \in Actions /\ 1 \in DOMAIN order.actions
<1>1. order.id \in Nat /\ order.actions \in Listing /\ order.blocked \in SUBSET Assets
  BY DEF Orders, Greetings, Builds, Replies
<1> QED BY <1>1 DEF Listing

LEMMA BatchBeginsTyped ==
    ASSUME Typed, Shaped, BatchBegins
    PROVE  Typed' /\ Shaped'
<1>1. worker \in Workers /\ worker.pc = "loop" /\ Order \in Orders /\ Order.type = "batch"
      /\ down' \in Seq(Orders)
  BY Pipes DEF Typed, BatchBegins, Looping
<1> DEFINE run == Running(Order.actions[1], 0, Order.blocked)
           job == [id |-> Order.id, actions |-> Order.actions, reads |-> {}, strayed |-> FALSE]
           stack == <<run>>
<1>2. run \in Runs
  BY <1>1, BuildIs, RunningTyped
<1>3. job \in Jobs
  BY <1>1, BuildIs DEF Jobs
<1>4. stack \in Seq(Runs) /\ stack # <<>>
  <2> HIDE DEF run
  <2> QED BY <1>2, SingleOf
<1>5. worker' = [worker EXCEPT !.pc = "busy", !.entry = {}, !.batch = job, !.stack = stack]
  BY DEF BatchBegins
<1>6. worker' \in Workers /\ worker'.pc = "busy" /\ worker'.stack # <<>> /\ worker'.batch \in Jobs
  <2> HIDE DEF job, stack
  <2> QED BY <1>1, <1>3, <1>4, <1>5 DEF Workers
<1> QED BY <1>1, <1>6 DEF BatchBegins, Typed, Shaped, Underway

LEMMA AskTyped ==
    ASSUME Typed, Shaped, NEW op \in Operations, NEW assets \in SUBSET Assets, Ask(op, assets)
    PROVE  Typed' /\ Shaped'
<1>1. worker.pc = "busy" /\ Active \in Runs
  BY ActiveRun DEF Ask, Free
<1> DEFINE call == [type |-> "ask", id |-> Active.calls, build |-> Active.build, op |-> op,
                    assets |-> assets, phase |-> Phase[Active.action]]
           run == [Active EXCEPT !.call = call, !.calls = Active.calls + 1]
<1>2. call \in Call
  BY <1>1, DialogueAssumption DEF Call, Runs
<1>3. run \in Runs
  <2> HIDE DEF call
  <2>1. Active.calls + 1 \in Nat BY <1>1 DEF Runs
  <2> QED BY <1>1, <1>2, <2>1 DEF Runs
<1>4. Send(call) /\ Act(run)
  BY <1>1 DEF Ask, Runs
<1>5. worker' \in Workers /\ worker'.pc = "busy" /\ worker'.stack # <<>> /\ worker'.batch = worker.batch
  <2> HIDE DEF run
  <2> QED BY <1>1, <1>3, <1>4, ActDoes DEF S
<1>6. up' \in Seq(Messages)
  <2> HIDE DEF call
  <2>1. call \in Messages BY <1>2 DEF Messages
  <2> QED BY <1>4, <2>1, SendDoes
<1> QED BY <1>1, <1>5, <1>6 DEF Ask, Typed, Shaped, Underway

\* A run that is told more.
LEMMA ToldTyped ==
    ASSUME NEW run \in Runs, NEW more \in SUBSET Assets, NEW content,
           \A a \in more : content[a] \in Nat
    PROVE  [a \in DOMAIN run.told \cup more |-> IF a \in more THEN content[a] ELSE run.told[a]]
              \in Versions
<1> DEFINE D == DOMAIN run.told \cup more
           told == [a \in D |-> IF a \in more THEN content[a] ELSE run.told[a]]
<1>1. run.told \in Versions BY DEF Runs
<1>2. D \subseteq Assets /\ \A a \in DOMAIN run.told : run.told[a] \in Nat
  BY <1>1, VersionsAre
<1>3. told \in [D -> Nat] BY <1>2
<1> HIDE DEF D
<1>4. told \in Versions BY <1>2, <1>3 DEF Versions
<1> QED BY <1>4 DEF D

LEMMA RecallTyped ==
    ASSUME Typed, Shaped, NEW a \in Assets, Recall(a)
    PROVE  Typed' /\ Shaped'
<1>1. worker.pc = "busy" /\ Active \in Runs /\ worker.cache \in Versions
  BY ActiveRun DEF Recall, Free, Typed, Workers
<1> DEFINE told == [b \in DOMAIN Active.told \cup {a} |->
                      IF b = a THEN worker.cache[a] ELSE Active.told[b]]
           run == [Active EXCEPT !.told = told]
<1>2. worker.cache[a] \in Nat
  BY <1>1, VersionsAre DEF Recall
<1>3. told \in Versions
  <2> DEFINE D == DOMAIN Active.told \cup {a}
  <2>1. Active.told \in Versions BY <1>1 DEF Runs
  <2>2. D \in SUBSET Assets /\ \A b \in DOMAIN Active.told : Active.told[b] \in Nat
    BY <2>1, VersionsAre
  <2>3. told \in [D -> Nat] BY <1>2, <2>2
  <2> HIDE DEF D
  <2> QED BY <2>2, <2>3 DEF Versions
<1>4. run \in Runs
  <2> HIDE DEF told
  <2> QED BY <1>1, <1>3 DEF Runs
<1>5. Act(run)
  BY <1>1 DEF Recall, Runs
<1>6. worker' \in Workers /\ worker'.pc = "busy" /\ worker'.stack # <<>> /\ worker'.batch = worker.batch
  <2> HIDE DEF run
  <2> QED BY <1>1, <1>4, <1>5, ActDoes DEF S
<1> QED BY <1>1, <1>6 DEF Recall, Typed, Shaped, Underway

LEMMA NestedBeginsTyped ==
    ASSUME Typed, Shaped, NestedBegins
    PROVE  /\ Typed' /\ Shaped'
           /\ worker'.pc = "busy" /\ worker'.batch = worker.batch /\ worker'.started = worker.started
           /\ worker'.cache = worker.cache /\ worker'.sent = worker.sent /\ worker'.entry = worker.entry
           /\ S' \in Seq(Runs) /\ Len(S') = Len(S) + 1
           /\ Active' = Running(Order.actions[1], Order.id, Order.blocked)
           /\ S'[Len(S) + 1] = Active'
           /\ \A i \in 1..Len(S) : S'[i] = S[i]
<1>1. worker \in Workers /\ worker.pc = "busy" /\ Order \in Orders /\ Order.type = "build"
      /\ down' \in Seq(Orders)
  BY Pipes DEF Typed, NestedBegins, Called
<1> DEFINE run == Running(Order.actions[1], Order.id, Order.blocked)
           stack == Append(S, run)
<1>2. run \in Runs
  BY <1>1, BuildIs, RunningTyped
<1>3. S \in Seq(Runs) BY <1>1 DEF Workers, S
<1>4. /\ stack \in Seq(Runs) /\ stack # <<>> /\ Len(stack) = Len(S) + 1
      /\ stack[Len(S) + 1] = run /\ \A i \in 1..Len(S) : stack[i] = S[i]
  <2> HIDE DEF run
  <2> QED BY <1>2, <1>3, PushOf
<1>5. worker' = [worker EXCEPT !.stack = stack]
  BY <1>1 DEF NestedBegins, Workers, S
<1>6. worker' \in Workers /\ worker'.pc = "busy" /\ S' = stack /\ worker'.batch = worker.batch
      /\ worker'.started = worker.started
      /\ worker'.cache = worker.cache /\ worker'.sent = worker.sent /\ worker'.entry = worker.entry
  <2> HIDE DEF stack
  <2> QED BY <1>1, <1>4, <1>5 DEF Workers, S
<1>7. Active' = S'[Len(S')] BY DEF Active, Top, S
<1>8. Typed' /\ Shaped'
  <2> HIDE DEF stack
  <2> QED BY <1>1, <1>4, <1>6 DEF NestedBegins, Typed, Shaped, Underway, S
<1> HIDE DEF run
<1>9. Active' = run BY <1>4, <1>6, <1>7
<1> QED BY <1>4, <1>6, <1>8, <1>9 DEF run

\* What an answer says.
LEMMA ReplyIs ==
    ASSUME NEW order \in Orders, order.type = "answer"
    PROVE  /\ order.id \in Nat /\ order.ok \in BOOLEAN /\ order.to \in Call /\ order.found \in Finds
           /\ DOMAIN order.found \subseteq Assets
           /\ \A a \in DOMAIN order.found : order.found[a] \in Nat \cup {Path}
<1>1. order.id \in Nat /\ order.ok \in BOOLEAN /\ order.to \in Call /\ order.found \in Finds
  BY DEF Orders, Greetings, Builds, Replies
<1> QED BY <1>1 DEF Finds

\* What an answer is read as, and what it adds to the cache and to the run that waits.
Content == [a \in DOMAIN Order.found |-> IF Order.found[a] = Path THEN disk[a] ELSE Order.found[a]]
Caching == Active.call.op \in {"read", "resolve_assets"}
Telling == IF Active.call.op = "read" THEN DOMAIN Content ELSE {}
Cached == IF Caching
          THEN [a \in DOMAIN worker.cache \cup DOMAIN Content |->
                  IF a \in DOMAIN Content THEN Content[a] ELSE worker.cache[a]]
          ELSE worker.cache
Informed ==
    [Active EXCEPT !.call = None, !.strayed = Active.strayed \/ Order.to # Active.call,
        !.told = [a \in DOMAIN Active.told \cup Telling |->
                    IF a \in Telling THEN Content[a] ELSE Active.told[a]]]

LEMMA AnswerArrivesTyped ==
    ASSUME Typed, Shaped, AnswerArrives
    PROVE  /\ Typed' /\ Shaped'
           /\ worker'.pc = "busy" /\ worker'.batch = worker.batch /\ worker'.started = worker.started
           /\ worker'.cache = Cached /\ worker'.sent = worker.sent /\ worker'.entry = worker.entry
           /\ Content \in Versions /\ DOMAIN Content = DOMAIN Order.found
           /\ Telling \subseteq DOMAIN Content
           /\ Informed \in Runs /\ Active' = Informed
           /\ S' \in Seq(Runs) /\ Len(S') = Len(S) /\ S'[Len(S)] = Informed
           /\ \A i \in 1..(Len(S) - 1) : S'[i] = S[i]
<1>1. worker \in Workers /\ worker.pc = "busy" /\ Order \in Orders /\ Order.type = "answer"
      /\ down' \in Seq(Orders) /\ Active.call # None /\ Active \in Runs /\ disk \in [Assets -> Nat]
      /\ S \in Seq(Runs) /\ S # <<>>
  BY Pipes, ActiveRun DEF Typed, AnswerArrives, Called, Answers, S
<1>2. DOMAIN Order.found \subseteq Assets
      /\ \A a \in DOMAIN Order.found : Order.found[a] \in Nat \cup {Path}
  BY <1>1, ReplyIs
<1>3. Content \in Versions /\ DOMAIN Content = DOMAIN Order.found
      /\ \A a \in DOMAIN Content : Content[a] \in Nat
  <2>1. Content \in [DOMAIN Order.found -> Nat] BY <1>1, <1>2 DEF Content
  <2> QED BY <1>2, <2>1 DEF Versions
<1>4. Telling \subseteq DOMAIN Content /\ Telling \in SUBSET Assets
  BY <1>2, <1>3 DEF Telling
<1>5. Cached \in Versions
  <2>1. worker.cache \in Versions BY <1>1 DEF Workers
  <2> DEFINE D == DOMAIN worker.cache \cup DOMAIN Content
             merged == [a \in D |-> IF a \in DOMAIN Content THEN Content[a] ELSE worker.cache[a]]
  <2>2. D \subseteq Assets /\ \A a \in DOMAIN worker.cache : worker.cache[a] \in Nat
    BY <1>2, <1>3, <2>1, VersionsAre
  <2>3. merged \in [D -> Nat] BY <1>3, <2>2
  <2> HIDE DEF D
  <2>4. merged \in Versions BY <2>2, <2>3 DEF Versions
  <2> QED BY <2>1, <2>4 DEF Cached, D
<1> DEFINE told == [a \in DOMAIN Active.told \cup Telling |->
                      IF a \in Telling THEN Content[a] ELSE Active.told[a]]
<1>6. told \in Versions
  BY <1>1, <1>3, <1>4, ToldTyped
<1>7. Informed \in Runs
  <2>1. (Active.strayed \/ Order.to # Active.call) \in BOOLEAN OBVIOUS
  <2> HIDE DEF told
  <2>2. Informed = [Active EXCEPT !.call = None, !.strayed = Active.strayed \/ Order.to # Active.call,
                                  !.told = told]
    BY DEF Informed, told
  <2> QED BY <1>1, <1>6, <2>1, <2>2 DEF Runs
<1> DEFINE readable == worker.readable \cup (DOMAIN Content \ Active.blocked)
           readable2 == IF Active.call.op = "read" THEN worker.readable ELSE readable
           stack == OnTop(S, Informed)
<1>8. readable2 \in SUBSET Assets
  BY <1>1, <1>2, <1>3 DEF Workers
<1>9. /\ stack \in Seq(Runs) /\ Len(stack) = Len(S) /\ stack[Len(S)] = Informed /\ stack # <<>>
      /\ \A i \in 1..(Len(S) - 1) : stack[i] = S[i]
  BY <1>1, <1>7, OnTopOf
<1>10. worker' = [worker EXCEPT !.cache = Cached, !.readable = readable2, !.stack = stack]
  BY <1>1 DEF AnswerArrives, Workers, Runs, S, Cached, Caching, Content, Informed, Telling
<1> HIDE DEF stack, readable2
<1>11. worker' \in Workers /\ S' = stack /\ worker'.cache = Cached /\ worker'.pc = "busy"
       /\ worker'.batch = worker.batch /\ worker'.started = worker.started
       /\ worker'.sent = worker.sent /\ worker'.entry = worker.entry
  BY <1>1, <1>5, <1>8, <1>9, <1>10 DEF Workers, S
<1>12. Active' = S'[Len(S')]
  BY DEF Active, Top, S
<1>13. Typed' /\ Shaped'
  BY <1>1, <1>9, <1>11 DEF AnswerArrives, Typed, Shaped, Underway, S
<1> QED BY <1>3, <1>4, <1>7, <1>9, <1>11, <1>12, <1>13

Dismayed ==
    [Active EXCEPT !.call = None, !.upset = Active.upset \/ Active.call.op # "resolve_assets",
                   !.strayed = Active.strayed \/ (Answers /\ Order.to # Active.call)]

LEMMA AnswerThrowsTyped ==
    ASSUME Typed, Shaped, AnswerThrows
    PROVE  /\ Typed' /\ Shaped' /\ Dismayed \in Runs /\ Act(Dismayed)
<1>1. worker \in Workers /\ worker.pc = "busy" /\ down' \in Seq(Orders) /\ Active \in Runs
  BY Pipes, ActiveRun DEF Typed, AnswerThrows, Called
<1> DEFINE upset == Active.upset \/ Active.call.op # "resolve_assets"
           strayed == Active.strayed \/ (Answers /\ Order.to # Active.call)
<1>2. upset \in BOOLEAN /\ strayed \in BOOLEAN OBVIOUS
<1>3. Dismayed \in Runs
  <2>1. Dismayed = [Active EXCEPT !.call = None, !.upset = upset, !.strayed = strayed]
    BY DEF Dismayed
  <2> HIDE DEF upset, strayed
  <2> QED BY <1>1, <1>2, <2>1 DEF Runs
<1>4. Act(Dismayed)
  BY <1>1 DEF AnswerThrows, Dismayed, Runs
<1>5. worker' \in Workers /\ worker'.pc = "busy" /\ worker'.stack # <<>> /\ worker'.batch = worker.batch
  BY <1>1, <1>3, <1>4, ActDoes DEF S
<1> QED BY <1>1, <1>3, <1>4, <1>5 DEF AnswerThrows, Typed, Shaped, Underway

LEMMA ResultMade ==
    ASSUME NEW id \in Nat, NEW ok \in BOOLEAN, NEW reads \in SUBSET Assets, NEW edges \in SUBSET Assets,
           NEW strayed \in BOOLEAN
    PROVE  /\ [type |-> "result", id |-> id, ok |-> ok, reads |-> reads, edges |-> edges,
               strayed |-> strayed] \in Messages
           /\ \A count \in Nat :
                [type |-> "batch_result", id |-> id, count |-> count, reads |-> reads, edges |-> edges,
                 strayed |-> strayed] \in Messages
BY DEF Messages, Results, Totals

\* The last run ends: what is left of the stack.
LEMMA PopDoes ==
    ASSUME Typed, Shaped, worker.pc = "busy", Len(S) > 1, NEW sent \in SUBSET Assets,
           NEW entry \in SUBSET Assets,
           worker' = [worker EXCEPT !.stack = Pop(S), !.sent = sent, !.entry = entry]
    PROVE  /\ worker' \in Workers /\ worker'.pc = "busy" /\ worker'.started = worker.started
           /\ worker'.batch = worker.batch /\ worker'.cache = worker.cache
           /\ worker'.readable = worker.readable /\ worker'.sent = sent
           /\ worker'.entry = entry
           /\ S' \in Seq(Runs) /\ S' # <<>> /\ Len(S') = Len(S) - 1 /\ Active' = S[Len(S) - 1]
           /\ \A i \in 1..(Len(S) - 1) : S'[i] = S[i]
<1> DEFINE stack == Pop(S)
<1>1. worker \in Workers /\ S \in Seq(Runs) /\ S # <<>>
  BY ActiveRun DEF Typed, S
<1>2. /\ stack \in Seq(Runs) /\ Len(stack) = Len(S) - 1 /\ stack # <<>>
      /\ \A i \in 1..(Len(S) - 1) : stack[i] = S[i]
  BY <1>1, PopOf
<1>3. worker' = [worker EXCEPT !.stack = stack, !.sent = sent, !.entry = entry]
  OBVIOUS
<1> HIDE DEF stack
<1>4. worker' \in Workers /\ S' = stack
  BY <1>1, <1>2, <1>3 DEF Workers, S
<1>5. Active' = S'[Len(S')]
  BY DEF Active, Top, S
<1>6. Len(S) - 1 \in 1..(Len(S) - 1) BY <1>1
<1> QED BY <1>1, <1>2, <1>3, <1>4, <1>5, <1>6 DEF Workers

LEMMA NestedSucceedsTyped ==
    ASSUME Typed, Shaped, NestedSucceeds
    PROVE  /\ Typed' /\ Shaped' /\ DOMAIN Active.told \in SUBSET Assets
           /\ worker' = [worker EXCEPT !.stack = Pop(S), !.sent = worker.sent \cup DOMAIN Active.told,
                                       !.entry = worker.entry \cup DOMAIN Active.told]
           /\ worker.sent \cup DOMAIN Active.told \in SUBSET Assets
           /\ worker.entry \cup DOMAIN Active.told \in SUBSET Assets
           /\ [type |-> "result", id |-> Active.build, ok |-> TRUE, reads |-> DOMAIN Active.told,
               edges |-> Unsent(DOMAIN Active.told), strayed |-> Active.strayed] \in Messages
<1>1. worker \in Workers /\ worker.pc = "busy" /\ Active \in Runs /\ Len(S) > 1
  BY ActiveRun DEF Typed, NestedSucceeds, Free, S
<1> DEFINE reads == DOMAIN Active.told
           m == [type |-> "result", id |-> Active.build, ok |-> TRUE, reads |-> reads,
                 edges |-> Unsent(reads), strayed |-> Active.strayed]
           sent == worker.sent \cup reads
           entry == worker.entry \cup reads
<1>2. reads \in SUBSET Assets
  <2>1. Active.told \in Versions BY <1>1 DEF Runs
  <2> QED BY <2>1, VersionsAre
<1>3. Unsent(reads) \in SUBSET Assets BY <1>2 DEF Unsent
<1>4. sent \in SUBSET Assets /\ entry \in SUBSET Assets
  BY <1>1, <1>2 DEF Workers
<1>5. Active.build \in Nat /\ Active.strayed \in BOOLEAN BY <1>1 DEF Runs
<1>6. m \in Messages
  <2> HIDE DEF reads
  <2> QED BY <1>2, <1>3, <1>5, ResultMade
<1>7. worker' = [worker EXCEPT !.stack = Pop(S), !.sent = sent, !.entry = entry] /\ Send(m)
  BY <1>1 DEF NestedSucceeds, Workers, S
<1>8. worker' \in Workers /\ worker'.pc = "busy" /\ worker'.stack # <<>> /\ worker'.batch = worker.batch
  <2> HIDE DEF sent, entry
  <2> QED BY <1>1, <1>4, <1>7, PopDoes DEF S
<1>9. up' \in Seq(Messages)
  <2> HIDE DEF m
  <2> QED BY <1>6, <1>7, SendDoes
<1> QED BY <1>1, <1>2, <1>4, <1>6, <1>7, <1>8, <1>9 DEF NestedSucceeds, Typed, Shaped, Underway

\* What the batch has read and whose edges it owes, the last run included.
TotalReads == worker.batch.reads \cup DOMAIN Active.told
TotalEntry == worker.entry \cup DOMAIN Active.told
TotalStrayed == worker.batch.strayed \/ Active.strayed
Onward ==
    [worker EXCEPT !.batch = [worker.batch EXCEPT !.reads = TotalReads, !.strayed = TotalStrayed],
                   !.entry = TotalEntry,
                   !.stack = <<Running(worker.batch.actions[Active.build + 2], Active.build + 1,
                                       Active.blocked)>>]
Finished ==
    [worker EXCEPT !.pc = "loop", !.stack = <<>>, !.batch = None,
                   !.entry = TotalEntry, !.sent = worker.sent \cup TotalEntry]
Total ==
    [type |-> "batch_result", id |-> worker.batch.id, count |-> Active.build + 1,
     reads |-> TotalReads, edges |-> Unsent(TotalEntry), strayed |-> TotalStrayed]

LEMMA TotalsTyped ==
    ASSUME Typed, Shaped, worker.pc = "busy"
    PROVE  /\ TotalReads \in SUBSET Assets /\ TotalEntry \in SUBSET Assets /\ TotalStrayed \in BOOLEAN
           /\ Active \in Runs /\ worker.batch \in Jobs /\ Total \in Messages
           /\ Active.build + 1 \in Nat
<1>1. worker \in Workers /\ Active \in Runs /\ worker.batch \in Jobs
  BY ActiveRun DEF Typed, Shaped
<1>2. DOMAIN Active.told \in SUBSET Assets
  <2>1. Active.told \in Versions BY <1>1 DEF Runs
  <2> QED BY <2>1, VersionsAre
<1>3. TotalReads \in SUBSET Assets /\ TotalEntry \in SUBSET Assets
  BY <1>1, <1>2 DEF TotalReads, TotalEntry, Jobs, Workers
<1>4. TotalStrayed \in BOOLEAN BY DEF TotalStrayed
<1>5. Active.build + 1 \in Nat /\ worker.batch.id \in Nat BY <1>1 DEF Runs, Jobs
<1>6. Unsent(TotalEntry) \in SUBSET Assets BY <1>3 DEF Unsent
<1>7. Total \in Messages
  BY <1>3, <1>4, <1>5, <1>6, ResultMade DEF Total
<1> QED BY <1>1, <1>3, <1>4, <1>5, <1>7

LEMMA SucceedsTyped ==
    ASSUME Typed, Shaped, Succeeds
    PROVE  /\ Typed' /\ Shaped'
           /\ Active.build + 1 < Len(worker.batch.actions) =>
                 /\ worker' = Onward /\ up' = up
                 /\ worker.batch.actions[Active.build + 2] \in Actions
           /\ ~(Active.build + 1 < Len(worker.batch.actions)) => worker' = Finished /\ Send(Total)
<1>1. worker \in Workers /\ worker.pc = "busy" /\ Active \in Runs /\ worker.batch \in Jobs
      /\ Active.build \in Nat
  BY ActiveRun DEF Typed, Shaped, Succeeds, Free, Runs
<1>2. /\ TotalReads \in SUBSET Assets /\ TotalEntry \in SUBSET Assets /\ TotalStrayed \in BOOLEAN
      /\ Total \in Messages
  BY <1>1, TotalsTyped
<1>3. CASE Active.build + 1 < Len(worker.batch.actions)
  <2> DEFINE job == [worker.batch EXCEPT !.reads = TotalReads, !.strayed = TotalStrayed]
             action == worker.batch.actions[Active.build + 2]
             run == Running(action, Active.build + 1, Active.blocked)
             stack == <<run>>
  <2>1. action \in Actions
    <3>1. worker.batch.actions \in Seq(Actions) BY <1>1 DEF Jobs, Listing
    <3>2. Active.build + 2 \in 1..Len(worker.batch.actions) BY <1>1, <1>3, <3>1
    <3> QED BY <3>1, <3>2
  <2>2. run \in Runs
    <3>1. Active.build + 1 \in Nat /\ Active.blocked \in SUBSET Assets BY <1>1 DEF Runs
    <3> QED BY <2>1, <3>1, RunningTyped
  <2>3. stack \in Seq(Runs) /\ stack # <<>>
    <3> HIDE DEF run
    <3> QED BY <2>2, SingleOf
  <2>4. job \in Jobs BY <1>1, <1>2 DEF Jobs
  <2>5. worker' = [worker EXCEPT !.batch.reads = TotalReads, !.batch.strayed = TotalStrayed,
                                 !.entry = TotalEntry, !.stack = stack] /\ up' = up
    <3>1. Active.build + 1 + 1 = Active.build + 2 BY <1>1
    <3> QED BY <1>3, <3>1 DEF Succeeds, TotalReads, TotalEntry, TotalStrayed
  <2>6. worker' = [worker EXCEPT !.batch = job, !.entry = TotalEntry, !.stack = stack]
    <3> HIDE DEF stack
    <3> QED BY <1>1, <2>5 DEF Workers, Jobs
  <2>7. worker' \in Workers /\ worker'.pc = "busy" /\ worker'.stack # <<>> /\ worker'.batch \in Jobs
    <3> HIDE DEF job, stack
    <3> QED BY <1>1, <1>2, <2>3, <2>4, <2>6 DEF Workers
  <2>8. worker' = Onward BY <2>6 DEF Onward
  <2> QED BY <1>1, <1>3, <2>1, <2>5, <2>7, <2>8 DEF Succeeds, Typed, Shaped, Underway
<1>4. CASE ~(Active.build + 1 < Len(worker.batch.actions))
  <2>1. worker' = Finished /\ Send(Total)
    BY <1>1, <1>4 DEF Succeeds, Finished, Total, TotalReads, TotalEntry, TotalStrayed, Workers
  <2>2. worker.sent \cup TotalEntry \in SUBSET Assets BY <1>1, <1>2 DEF Workers
  <2>3. worker' \in Workers /\ worker'.pc = "loop" /\ worker'.stack = <<>>
    BY <1>1, <1>2, <2>1, <2>2, EmptyOf DEF Workers, Finished
  <2>4. up' \in Seq(Messages) BY <1>2, <2>1, SendDoes
  <2> QED BY <1>1, <1>4, <2>1, <2>3, <2>4 DEF Succeeds, Typed, Shaped, Underway
<1> QED BY <1>3, <1>4

Refusal == [type |-> "result", id |-> Active.build, ok |-> FALSE, reads |-> {}, edges |-> {},
            strayed |-> Active.strayed]
Broken == [type |-> "error", id |-> worker.batch.id]

LEMMA FailsTyped ==
    ASSUME Typed, Shaped, Fails
    PROVE  /\ Typed' /\ Shaped'
           /\ Len(S) > 1 => /\ Send(Refusal) /\ Refusal \in Messages
                            /\ worker' = [worker EXCEPT !.stack = Pop(S), !.sent = worker.sent,
                                                        !.entry = worker.entry]
           /\ ~(Len(S) > 1) => /\ Send(Broken) /\ Broken \in Messages
                               /\ worker' = [worker EXCEPT !.pc = "loop", !.stack = <<>>, !.batch = None]
<1>1. worker \in Workers /\ worker.pc = "busy" /\ Active \in Runs /\ worker.batch \in Jobs
  BY ActiveRun DEF Typed, Shaped, Fails, Free
<1>2. budget' \in [edits : 0..MaxEdits, faults : 0..MaxFaults]
  BY FaultTyped DEF Fails, Typed
<1>3. CASE Len(S) > 1
  <2>1. Send(Refusal) BY <1>3 DEF Fails, Refusal, S
  <2>2. Refusal \in Messages
    <3>1. Active.build \in Nat /\ Active.strayed \in BOOLEAN BY <1>1 DEF Runs
    <3> QED BY <3>1, ResultMade DEF Refusal
  <2>3. worker' = [worker EXCEPT !.stack = Pop(S), !.sent = worker.sent, !.entry = worker.entry]
    BY <1>1, <1>3 DEF Fails, Workers, S
  <2>4. worker.sent \in SUBSET Assets /\ worker.entry \in SUBSET Assets BY <1>1 DEF Workers
  <2>5. worker' \in Workers /\ worker'.pc = "busy" /\ worker'.stack # <<>> /\ worker'.batch = worker.batch
    BY <1>1, <1>3, <2>3, <2>4, PopDoes DEF S
  <2>6. up' \in Seq(Messages) BY <2>1, <2>2, SendDoes
  <2> QED BY <1>1, <1>2, <1>3, <2>1, <2>2, <2>3, <2>5, <2>6 DEF Fails, Typed, Shaped, Underway
<1>4. CASE ~(Len(S) > 1)
  <2>1. Send(Broken) BY <1>4 DEF Fails, Broken, S
  <2>2. Broken \in Messages BY <1>1 DEF Broken, Messages, Signals, Jobs
  <2>3. worker' = [worker EXCEPT !.pc = "loop", !.stack = <<>>, !.batch = None]
    BY <1>4 DEF Fails, S
  <2>4. worker' \in Workers /\ worker'.pc = "loop" /\ worker'.stack = <<>>
    BY <1>1, <2>3, EmptyOf DEF Workers
  <2>6. up' \in Seq(Messages) BY <2>1, <2>2, SendDoes
  <2> QED BY <1>1, <1>2, <1>4, <2>1, <2>2, <2>3, <2>4, <2>6 DEF Fails, Typed, Shaped, Underway
<1> QED BY <1>3, <1>4

LEMMA EditTyped ==
    ASSUME Typed, Shaped, NEW s \in Sources, Edit(s)
    PROVE  /\ Typed' /\ Shaped'
           /\ \A a \in Assets : disk'[a] \in Nat /\ disk[a] \in Nat /\ disk'[a] >= disk[a]
<1>1. disk \in [Assets -> Nat] /\ s \in Assets BY DEF Typed, Assets
<1>2. disk' = [disk EXCEPT ![s] = disk[s] + 1] /\ disk[s] + 1 \in Nat BY <1>1 DEF Edit
<1>3. disk' \in [Assets -> Nat] BY <1>1, <1>2
<1>4. budget.edits - 1 \in 0..MaxEdits /\ budget' = [budget EXCEPT !.edits = budget.edits - 1]
  BY DialogueAssumption DEF Edit, Typed
<1>5. budget' \in [edits : 0..MaxEdits, faults : 0..MaxFaults] BY <1>4 DEF Typed
<1> QED BY <1>1, <1>2, <1>3, <1>5 DEF Edit, Typed, Shaped, Underway

LEMMA DiesTyped ==
    ASSUME Typed, Shaped, Dies
    PROVE  Typed' /\ Shaped'
<1>1. budget' \in [edits : 0..MaxEdits, faults : 0..MaxFaults]
  BY FaultTyped DEF Dies, Typed
<1>2. worker' \in Workers /\ worker'.pc = "dead" /\ worker'.stack = <<>>
  BY EmptyOf DEF Dies, Typed, Workers
<1> QED BY <1>1, <1>2, EmptyOf DEF Dies, Typed, Shaped, Underway

LEMMA StillTyped ==
    ASSUME Typed, Shaped, UNCHANGED vars
    PROVE  Typed' /\ Shaped'
BY DEF vars, Typed, Shaped, Underway

LEMMA NextTyped ==
    ASSUME Typed, Shaped, [Next]_vars
    PROVE  Typed' /\ Shaped'
<1>1. CASE FrontendStep
  BY <1>1, GreetedTyped, AskedTyped, DemandTyped, SkipTyped, AnswerTyped, NestedEndsTyped, BatchEndsTyped, EofTyped
  DEF FrontendStep
<1>2. CASE WorkerStep
  BY <1>2, ControlTyped, BatchBeginsTyped, NestedBeginsTyped, AnswerArrivesTyped, AnswerThrowsTyped,
     NestedSucceedsTyped, SucceedsTyped
  DEF WorkerStep
<1>3. ASSUME NEW batch \in Batches, NEW changed \in BOOLEAN, Begin(batch, changed)
      PROVE  Typed' /\ Shaped'
  BY <1>3, BeginTyped
<1>4. ASSUME NEW op \in Operations, NEW a \in Assets, Ask(op, IF op = "find_assets" THEN Assets ELSE {a})
      PROVE  Typed' /\ Shaped'
  <2> DEFINE assets == IF op = "find_assets" THEN Assets ELSE {a}
  <2>1. assets \in SUBSET Assets OBVIOUS
  <2>2. Ask(op, assets) BY <1>4
  <2> HIDE DEF assets
  <2> QED BY <2>1, <2>2, AskTyped
<1>5. ASSUME NEW a \in Assets, Recall(a) PROVE Typed' /\ Shaped'
  BY <1>5, RecallTyped
<1>6. ASSUME NEW s \in Sources, Edit(s) PROVE Typed' /\ Shaped'
  BY <1>6, EditTyped
<1>7. CASE Fails \/ AnswerFails \/ Dies
  BY <1>7, FailsTyped, AnswerFailsTyped, DiesTyped
<1>8. CASE UNCHANGED vars
  BY <1>8, StillTyped
<1> QED BY <1>1, <1>2, <1>3, <1>4, <1>5, <1>6, <1>7, <1>8 DEF Next

LEMMA TypedImplies == Typed => TypeOK
BY DEF Typed, TypeOK, Frontends, Workers

(* Both sides and the pipes between them keep their types in every run.      *)
THEOREM Typing == Spec => [](Typed /\ Shaped) /\ []TypeOK
<1>1. Init => Typed /\ Shaped BY InitTyped
<1>2. Typed /\ Shaped /\ [Next]_vars => (Typed /\ Shaped)' BY NextTyped
<1>3. Typed /\ Shaped => TypeOK BY TypedImplies
<1> QED BY <1>1, <1>2, <1>3, PTL DEF Spec

----------------------------------------------------------------------------
(* What the steps do, in terms of the invariant's parts.                     *)

LEMMA Stacked ==
    ASSUME Typed, Shaped
    PROVE  /\ S \in Seq(Runs) /\ Len(S) \in Nat /\ DOMAIN S = 1..Len(S)
           /\ worker.pc # "busy" => S = <<>> /\ Len(S) = 0 /\ DOMAIN S = {}
           /\ worker.pc = "busy" => Len(S) > 0 /\ Active = S[Len(S)] /\ Len(S) \in DOMAIN S
           /\ F \in Seq(Frames) /\ Len(F) \in Nat /\ DOMAIN F = 1..Len(F)
           /\ Underway => Len(F) > 0 /\ Top(F) = F[Len(F)] /\ Len(F) \in DOMAIN F
           /\ frontend.id \in Nat /\ \A i \in DOMAIN F : F[i] \in Frames /\ F[i].id \in Nat
           /\ \A i \in DOMAIN S : S[i] \in Runs /\ S[i].build \in Nat
<1>1. S \in Seq(Runs) /\ F \in Seq(Frames) /\ frontend.id \in Nat
  BY DEF Typed, Workers, Frontends, S, F
<1>2. worker.pc # "busy" => S = <<>>
  BY DEF Shaped, S
<1>3. worker.pc = "busy" => S # <<>>
  BY DEF Shaped, S
<1>4. worker.pc = "busy" => Len(S) > 0 /\ Active = S[Len(S)] /\ Len(S) \in DOMAIN S
  BY <1>1, <1>3, TopOf DEF Active, S
<1>5. Underway => F # <<>>
  BY DEF Shaped, F
<1>6. Underway => Len(F) > 0 /\ Top(F) = F[Len(F)] /\ Len(F) \in DOMAIN F
  BY <1>1, <1>5, TopOf
<1>9. (\A i \in DOMAIN F : F[i] \in Frames) /\ (\A i \in DOMAIN S : S[i] \in Runs)
  BY <1>1
<1>7. \A i \in DOMAIN F : F[i] \in Frames /\ F[i].id \in Nat
  BY <1>9 DEF Frames
<1>8. \A i \in DOMAIN S : S[i] \in Runs /\ S[i].build \in Nat
  BY <1>9 DEF Runs
<1> QED BY <1>1, <1>2, <1>4, <1>6, <1>7, <1>8

LEMMA Turns ==
    ASSUME Typed, Shaped, Turn
    PROVE  /\ up # <<>> => /\ Len(up) = 1 /\ Tail(up) = <<>> /\ Listening
                           /\ Alive => down = <<>> /\ ~Free
           /\ Alive /\ down # <<>> =>
                 /\ Len(down) = 1 /\ Tail(down) = <<>> /\ Listening /\ up = <<>> /\ ~Free
           /\ Free => Alive /\ Listening /\ up = <<>> /\ down = <<>> /\ worker.pc = "busy"
           /\ Alive /\ ~Listening => up = <<>> /\ down = <<>> /\ ~Free
           /\ ~Listening => up = <<>>
           /\ worker.pc = "busy" => Alive
<1>1. up \in Seq(Messages) /\ down \in Seq(Orders) BY DEF Typed
<1>2. Len(up) \in Nat /\ (up # <<>> => Len(up) # 0) BY <1>1
<1>3. down # <<>> => Len(down) # 0 BY <1>1
<1>4. Len(up) = 0 <=> up = <<>> BY <1>1
<1>5. Len(down) = 0 <=> down = <<>> BY <1>1
<1>6. up # <<>> => Len(up) = 1 /\ Listening /\ (Alive => down = <<>> /\ ~Free)
  <2>1. CASE Alive BY <2>1, <1>2, <1>5 DEF Turn
  <2>2. CASE ~Alive
    <3>1. Len(up) <= 1 /\ (~Listening => up = <<>>) BY <2>2 DEF Turn
    <3>2. up # <<>> => Len(up) = 1 BY <3>1, <1>2
    <3>3. up # <<>> => Listening BY <3>1
    <3> QED BY <2>2, <3>2, <3>3
  <2> QED BY <2>1, <2>2
<1>7. Alive /\ down # <<>> => Len(down) = 1 /\ Listening /\ up = <<>> /\ ~Free
  BY <1>3 DEF Turn
<1>8. Free => worker.pc = "busy" /\ Alive BY DEF Free, Alive
<1>9. Free => Listening /\ up = <<>> /\ down = <<>>
  BY <1>8 DEF Turn
<1>10. up # <<>> => (Len(up) = 1 <=> Tail(up) = <<>>) BY <1>1, HeadOf
<1>11. down # <<>> => (Len(down) = 1 <=> Tail(down) = <<>>) BY <1>1, HeadOf
<1>12. ~Listening => up = <<>> BY <1>6
<1>13. Alive /\ ~Listening => up = <<>> /\ down = <<>> /\ ~Free BY DEF Turn
<1> QED BY <1>6, <1>7, <1>8, <1>9, <1>10, <1>11, <1>12, <1>13 DEF Alive

\* What an attempt is, what is in its overlay, and what it has of reads and edges.
SameAttempt == /\ frontend'.attempt = frontend.attempt /\ frontend'.batch = frontend.batch
               /\ frontend'.floor = frontend.floor
SameOverlay == frontend'.overlay = frontend.overlay /\ frontend'.built = frontend.built
SameEdges == /\ frontend'.edges = frontend.edges /\ frontend'.reads = frontend.reads
             /\ frontend'.strayed = frontend.strayed
\* The frontend has taken a message, or nothing was under way.
Received1 == up' = <<>> /\ worker' = worker /\ (Alive => down = <<>> /\ ~Free)

Greeting == [type |-> IF frontend'.greeted THEN "reset" ELSE "initialize", id |-> frontend.id]

LEMMA BeginDoes ==
    ASSUME Typed, Shaped, Turn, NEW batch \in Batches, NEW changed \in BOOLEAN, Begin(batch, changed)
    PROVE  /\ ~Underway /\ ~Listening /\ frontend'.pc = "greet" /\ F' = F
           /\ frontend'.id = frontend.id + 1
           /\ frontend'.attempt = frontend.attempt + 1 /\ frontend'.batch = batch
           /\ frontend'.greeted => frontend.greeted /\ worker' = worker
           /\ frontend'.overlay = <<>> /\ frontend'.built = {} /\ frontend'.reads = {}
           /\ frontend'.strayed = FALSE
           /\ frontend'.floor = [a \in Assets |-> IF batch.lazy /\ a \in Optional
                                                  THEN frontend.attempt + 1 ELSE disk[a]]
           /\ disk' = disk /\ budget' = budget /\ up' = <<>>
           /\ worker' = worker \/ worker' = NewWorker
           /\ Alive' => down' = <<Greeting>>
           /\ \A n \in DOMAIN down' : down'[n] = Greeting \/ (n \in DOMAIN down /\ down'[n] = down[n])
<1> DEFINE restart == changed /\ frontend.known
<1>1. frontend \in Frontends /\ Ended(frontend.pc) /\ down \in Seq(Orders) BY DEF Typed, Begin
<1>2. ~Underway /\ ~Listening
  BY <1>1 DEF Ended, Underway, Listening
<1>3. frontend'.pc = "greet" /\ F' = F /\ frontend'.id = frontend.id + 1
      /\ frontend'.attempt = frontend.attempt + 1 /\ frontend'.batch = batch
      /\ frontend'.greeted = ~(changed \/ ~frontend.greeted)
      /\ frontend'.overlay = <<>> /\ frontend'.built = {} /\ frontend'.reads = {}
      /\ frontend'.strayed = FALSE
      /\ frontend'.floor = [a \in Assets |-> IF batch.lazy /\ a \in Optional
                                             THEN frontend.attempt + 1 ELSE disk[a]]
  BY <1>1 DEF Begin, Frontends, F
<1>4. disk' = disk /\ budget' = budget /\ worker' = (IF restart THEN NewWorker ELSE worker)
      /\ up' = (IF restart THEN <<>> ELSE up)
  BY DEF Begin
<1>5. frontend'.greeted => frontend.greeted /\ worker' = worker
  BY <1>3, <1>4
<1>6. down' = Append(IF restart THEN <<>> ELSE down, Greeting)
  BY <1>3 DEF Begin, Greeting
<1>7. up = <<>> /\ (Alive => down = <<>>)
  BY <1>2, Turns
<1>8. up' = <<>> BY <1>4, <1>7
<1>9. Append(<<>>, Greeting) = <<Greeting>> /\ DOMAIN <<Greeting>> = {1} /\ <<Greeting>>[1] = Greeting
  <2> DEFINE g == Greeting
  <2> HIDE DEF g
  <2>1. Append(<<>>, g) = <<g>> /\ DOMAIN <<g>> = {1} /\ <<g>>[1] = g OBVIOUS
  <2> QED BY <2>1 DEF g
<1>10. CASE restart
  <2>1. down' = <<Greeting>> BY <1>6, <1>9, <1>10
  <2>2. \A n \in DOMAIN down' : down'[n] = Greeting BY <1>9, <2>1
  <2> QED BY <1>2, <1>3, <1>4, <1>5, <1>8, <1>10, <2>1, <2>2
<1>11. CASE ~restart
  <2>1. worker' = worker /\ down' = Append(down, Greeting) BY <1>4, <1>6, <1>11
  <2>2. Alive' => Alive BY <2>1 DEF Alive
  <2>3. Alive' => down' = <<Greeting>> BY <1>7, <1>9, <2>1, <2>2
  <2>4. \A n \in DOMAIN down' : down'[n] = Greeting \/ (n \in DOMAIN down /\ down'[n] = down[n])
    <3> DEFINE g == Greeting
    <3> HIDE DEF g
    <3>1. \A n \in DOMAIN Append(down, g) : Append(down, g)[n] = g
                                            \/ (n \in DOMAIN down /\ Append(down, g)[n] = down[n])
      BY <1>1
    <3> QED BY <2>1, <3>1 DEF g
  <2> QED BY <1>2, <1>3, <1>4, <1>5, <1>8, <2>1, <2>3, <2>4
<1> QED BY <1>10, <1>11

LEMMA ActiveSame == worker' = worker => Active' = Active /\ Free' = Free /\ S' = S /\ Alive' = Alive
BY DEF Active, Free, S, Alive, Top

LEMMA NewIdle ==
    /\ NewWorker.pc = "loop" /\ NewWorker.stack = <<>> /\ NewWorker.started = FALSE
    /\ DOMAIN NewWorker.stack = {} /\ Len(NewWorker.stack) = 0
BY DEF NewWorker

\* Nothing is asked of an attempt that has not begun, or of one that has ended.
LEMMA Idle ==
    ASSUME ~Underway'
    PROVE  Ladder' /\ Loop' /\ Paired' /\ Placed' /\ TrueToView'
BY DEF Ladder, Loop, Paired, Placed, TrueToView

LEMMA BeginKeeps ==
    ASSUME Typed, Shaped, Inv, NEW batch \in Batches, NEW changed \in BOOLEAN, Begin(batch, changed)
    PROVE  Inv'
<1>1. Turn /\ Posed /\ Cleaned /\ Taken /\ Edged /\ Current /\ Healthy BY DEF Inv
<1>2. /\ ~Underway /\ ~Listening /\ frontend'.pc = "greet" /\ F' = F
      /\ frontend'.id = frontend.id + 1
      /\ frontend'.attempt = frontend.attempt + 1 /\ frontend'.batch = batch
      /\ frontend'.greeted => frontend.greeted /\ worker' = worker
      /\ frontend'.overlay = <<>> /\ frontend'.built = {} /\ frontend'.reads = {}
      /\ frontend'.strayed = FALSE
      /\ frontend'.floor = [a \in Assets |-> IF batch.lazy /\ a \in Optional
                                             THEN frontend.attempt + 1 ELSE disk[a]]
      /\ disk' = disk /\ budget' = budget /\ up' = <<>>
      /\ worker' = worker \/ worker' = NewWorker
      /\ Alive' => down' = <<Greeting>>
      /\ \A n \in DOMAIN down' : down'[n] = Greeting \/ (n \in DOMAIN down /\ down'[n] = down[n])
  BY <1>1, BeginDoes
<1>3. ~Underway' /\ Listening'
  BY <1>2 DEF Underway, Listening
<1>4. Alive' => Len(down') = 1 /\ down' # <<>> /\ Order' = Greeting
  <2> DEFINE g == Greeting
  <2> HIDE DEF g
  <2>1. Len(<<g>>) = 1 /\ <<g>> # <<>> /\ Head(<<g>>) = g OBVIOUS
  <2> QED BY <1>2, <2>1 DEF g, Order
<1>5. ~Free
  BY <1>1, <1>2, Turns
<1>6. /\ worker' = NewWorker => S' = <<>> /\ Len(S') = 0 /\ DOMAIN S' = {} /\ worker'.pc = "loop"
      /\ worker' = worker => S' = S /\ Free' = Free
  BY NewIdle, ActiveSame DEF S
<1>7. Turn'
  <2>1. ~Free' BY <1>2, <1>5, <1>6 DEF Free
  <2>2. \A i \in 1..(Len(S') - 1) : S'[i].call # None
    BY <1>1, <1>2, <1>6 DEF Turn
  <2>3. Len(<<>>) <= 1 OBVIOUS
  <2> QED BY <1>2, <1>3, <1>4, <2>1, <2>2, <2>3 DEF Turn
<1>8. Ladder' /\ Loop' /\ Paired' /\ Placed' /\ TrueToView'
  BY <1>3, Idle
<1>9. Posed'
  <2>1. Greeting.type # "batch" /\ Greeting.type # "build" BY DEF Greeting
  <2> QED BY <1>1, <1>2, <1>6, <2>1 DEF Posed
<1>10. Cleaned'
  BY <1>1, <1>2, <1>4 DEF Cleaned, Incoming, Outgoing, Greeting, Alive
<1>11. Taken'
  BY <1>2 DEF Taken
<1>12. Edged'
  BY <1>1, <1>2, <1>3, <1>6 DEF Edged
<1>13. Current'
  <2>1. \A a \in Assets : IF Lazy(a)' THEN frontend'.floor[a] = frontend'.attempt
                          ELSE frontend'.floor[a] = disk'[a] /\ disk'[a] \in Nat
    BY <1>2 DEF Lazy, Typed
  <2>2. \A a \in Assets : IF Lazy(a)' THEN frontend'.floor[a] = frontend'.attempt
                          ELSE Fresh(a, disk[a])'
    BY <2>1 DEF Fresh
  <2>3. DOMAIN frontend'.overlay = {}
    <3>1. frontend'.overlay = <<>> BY <1>2
    <3> QED BY <3>1, NoVersions
  <2> QED BY <1>2, <1>3, <1>8, <2>2, <2>3 DEF Current
<1>14. Healthy'
  <2> SUFFICES ASSUME budget'.faults = MaxFaults PROVE Healthy' BY DEF Healthy
  <2>1. Alive /\ worker.pc = "loop" /\ \A i \in DOMAIN S : ~S[i].upset
    BY <1>1, <1>2 DEF Healthy
  <2>2. Alive' /\ worker'.pc = "loop" /\ \A i \in DOMAIN S' : ~S'[i].upset
    BY <1>2, <1>6, <2>1 DEF Alive
  <2>3. Order'.type \in {"initialize", "reset"} /\ Order'.id = frontend'.id - 1
    <3>1. frontend.id \in Nat BY DEF Typed, Frontends
    <3> QED BY <1>2, <1>4, <2>2, <3>1 DEF Greeting
  <2> QED BY <1>2, <1>3, <2>2, <2>3 DEF Healthy
<1> QED BY <1>7, <1>8, <1>9, <1>10, <1>11, <1>12, <1>13, <1>14 DEF Inv

\* A step of the frontend hands the turn over, or keeps it.
LEMMA FrontendTurns ==
    ASSUME Typed, Shaped, Turn, Received1,
           IF Listening' THEN Alive => Len(down') = 1 ELSE down' = down
    PROVE  Turn'
<1>1. Alive' = Alive /\ Free' = Free /\ S' = S
  BY ActiveSame DEF Received1
<1>2. \A i \in 1..(Len(S') - 1) : S'[i].call # None
  BY <1>1 DEF Turn
<1>3. Len(<<>>) <= 1 OBVIOUS
<1> QED BY <1>1, <1>2, <1>3 DEF Turn, Received1

\* One order more in a pipe that a living worker has emptied.
LEMMA Sent ==
    ASSUME Typed, NEW order \in Orders, down' = Append(down, order), Alive => down = <<>>
    PROVE  /\ Alive => down' # <<>> /\ Len(down') = 1 /\ Order' = order
           /\ \A n \in DOMAIN down' : down'[n] = order \/ (n \in DOMAIN down /\ down'[n] = down[n])
<1>1. down \in Seq(Orders) BY DEF Typed
<1>2. \A n \in DOMAIN down' : down'[n] = order \/ (n \in DOMAIN down /\ down'[n] = down[n])
  BY <1>1
<1>3. Append(<<>>, order) = <<order>> /\ Len(<<order>>) = 1 /\ Head(<<order>>) = order /\ <<order>> # <<>>
  OBVIOUS
<1> QED BY <1>2, <1>3 DEF Order

Welcome == [id |-> frontend.id, actions |-> frontend.batch.actions, ask |-> None]
Opening == [type |-> "batch", id |-> frontend.id, actions |-> frontend.batch.actions,
            blocked |-> Blocked(Phase[frontend.batch.actions[1]], {})]

LEMMA GreetedDoes ==
    ASSUME Typed, Shaped, Turn, Greeted
    PROVE  /\ Received1 /\ disk' = disk /\ budget' = budget /\ up # <<>> /\ frontend.pc = "greet"
           /\ SameAttempt /\ SameOverlay /\ SameEdges /\ frontend.batch \in Batches
           /\ IF Message.type = "ack" /\ Message.id = frontend.id - 1
              THEN /\ frontend'.pc = "serve" /\ frontend'.id = frontend.id + 1
                   /\ F' = <<Welcome>> /\ F'[1] = Welcome /\ Len(F') = 1 /\ DOMAIN F' = {1}
                   /\ down' = Append(down, Opening) /\ Opening \in Orders
              ELSE /\ frontend'.pc = "failed" /\ frontend'.greeted = frontend.greeted
                   /\ down' = down
<1>1. frontend \in Frontends /\ frontend.pc = "greet" /\ up # <<>> /\ frontend.batch \in Batches
  BY DEF Typed, Shaped, Greeted, Received
<1>2. Received1 BY <1>1, Turns DEF Greeted, Received, Received1
<1>3. SameAttempt /\ SameOverlay /\ SameEdges
  <2>1. CASE Message.type = "ack" /\ Message.id = frontend.id - 1
    BY <1>1, <2>1 DEF Greeted, Frontends, SameAttempt, SameOverlay, SameEdges
  <2>2. CASE ~(Message.type = "ack" /\ Message.id = frontend.id - 1)
    BY <1>1, <2>2 DEF Greeted, Frontends, SameAttempt, SameOverlay, SameEdges
  <2> QED BY <2>1, <2>2
<1>4. CASE Message.type = "ack" /\ Message.id = frontend.id - 1
  <2>1. frontend'.pc = "serve" /\ frontend'.id = frontend.id + 1 /\ F' = <<Welcome>>
        /\ down' = Append(down, Opening)
    BY <1>1, <1>4 DEF Greeted, Frontends, F, Welcome, Opening
  <2>2. <<Welcome>>[1] = Welcome /\ Len(<<Welcome>>) = 1 /\ DOMAIN <<Welcome>> = {1}
    <3> DEFINE w == Welcome
    <3> HIDE DEF w
    <3>1. <<w>>[1] = w /\ Len(<<w>>) = 1 /\ DOMAIN <<w>> = {1} OBVIOUS
    <3> QED BY <3>1 DEF w
  <2>3. Opening \in Orders
    <3>1. frontend.batch.actions \in Listing /\ frontend.id \in Nat
      BY <1>1, DialogueAssumption DEF Listing, Frontends
    <3>2. Blocked(Phase[frontend.batch.actions[1]], {}) \in SUBSET Assets BY DEF Blocked, Assets
    <3> QED BY <3>1, <3>2, BuildMade DEF Opening
  <2> QED BY <1>1, <1>2, <1>3, <1>4, <2>1, <2>2, <2>3 DEF Greeted
<1>5. CASE ~(Message.type = "ack" /\ Message.id = frontend.id - 1)
  <2>1. frontend'.pc = "failed" /\ frontend'.greeted = frontend.greeted /\ down' = down
    BY <1>1, <1>5 DEF Greeted, Frontends
  <2> QED BY <1>1, <1>2, <1>3, <1>5, <2>1 DEF Greeted
<1> QED BY <1>4, <1>5

LEMMA BatchUniform ==
    ASSUME NEW batch \in Batches
    PROVE  /\ Uniform(batch.actions) /\ batch.actions \in Seq(Actions) /\ batch.actions # <<>>
           /\ 1 \in DOMAIN batch.actions /\ batch.actions[1] \in Actions /\ batch.lazy \in BOOLEAN
<1>1. Uniform(batch.actions) BY DialogueAssumption DEF Uniform
<1>2. batch.actions \in Seq(Actions) /\ batch.actions # <<>> BY DialogueAssumption
<1> QED BY <1>1, <1>2, DialogueAssumption

\* Where an attempt ends, only what the worker keeps and what has failed matters.
LEMMA EndingKeeps ==
    ASSUME Typed, Shaped, Inv, Received1, down' = down, frontend'.pc \in {"failed", "done"},
           frontend'.greeted = frontend.greeted, ~frontend'.strayed,
           frontend'.pc = "done" => frontend'.reads \subseteq Owned', Healthy'
    PROVE  Inv'
<1>1. Turn /\ Posed /\ Cleaned /\ Edged BY DEF Inv
<1>2. ~Underway' /\ ~Listening' BY DEF Underway, Listening
<1>3. worker' = worker /\ Alive' = Alive /\ S' = S BY ActiveSame DEF Received1
<1>4. Turn' BY <1>1, <1>2, FrontendTurns
<1>5. Ladder' /\ Loop' /\ Paired' /\ Placed' /\ TrueToView' BY <1>2, Idle
<1>6. Posed' BY <1>1, <1>3 DEF Posed
<1>7. Cleaned' BY <1>1, <1>3 DEF Cleaned
<1>8. Taken' BY DEF Taken
<1>9. Edged' BY <1>1, <1>2, <1>3 DEF Edged
<1>10. Current' BY <1>2, <1>5 DEF Current
<1> QED BY <1>4, <1>5, <1>6, <1>7, <1>8, <1>9, <1>10 DEF Inv

LEMMA GreetedKeeps ==
    ASSUME Typed, Shaped, Inv, Greeted
    PROVE  Inv'
<1>1. Turn /\ Posed /\ Cleaned /\ Taken /\ Edged /\ Current /\ Healthy BY DEF Inv
<1>2. /\ Received1 /\ disk' = disk /\ budget' = budget /\ up # <<>> /\ frontend.pc = "greet"
      /\ SameAttempt /\ SameOverlay /\ SameEdges /\ frontend.batch \in Batches
  BY <1>1, GreetedDoes
<1>3. ~Underway /\ Listening /\ frontend.id \in Nat
  BY <1>2 DEF Underway, Listening, Typed, Frontends
<1>4. up' = <<>> /\ worker' = worker /\ (Alive => down = <<>> /\ ~Free) BY <1>2 DEF Received1
<1>5. Alive' = Alive /\ S' = S /\ Free' = Free BY <1>4, ActiveSame
<1>6. CASE ~(Message.type = "ack" /\ Message.id = frontend.id - 1)
  <2>1. frontend'.pc = "failed" /\ frontend'.greeted = frontend.greeted /\ down' = down
    BY <1>1, <1>6, GreetedDoes
  <2>2. Healthy'
    <3>1. budget.faults # MaxFaults BY <1>1, <1>2, <1>6 DEF Healthy
    <3> QED BY <1>2, <3>1 DEF Healthy
  <2>3. ~frontend'.strayed BY <1>1, <1>2 DEF Taken, SameEdges
  <2> QED BY <1>2, <2>1, <2>2, <2>3, EndingKeeps
<1>7. CASE Message.type = "ack" /\ Message.id = frontend.id - 1
  <2>1. /\ frontend'.pc = "serve" /\ frontend'.id = frontend.id + 1
        /\ F'[1] = Welcome /\ Len(F') = 1 /\ DOMAIN F' = {1}
        /\ down' = Append(down, Opening) /\ Opening \in Orders
    BY <1>1, <1>7, GreetedDoes
  <2>2. Underway' /\ Listening' BY <2>1 DEF Underway, Listening
  <2>3. /\ Alive => down' # <<>> /\ Len(down') = 1 /\ Order' = Opening
        /\ \A n \in DOMAIN down' : down'[n] = Opening \/ (n \in DOMAIN down /\ down'[n] = down[n])
    BY <1>4, <2>1, Sent
  <2>4. Alive => worker.pc = "loop" /\ worker.started /\ worker.sent = {} /\ DOMAIN worker.cache = {}
    BY <1>1, <1>2, <1>7 DEF Cleaned, Outgoing
  <2>5. worker.pc # "busy" /\ DOMAIN S = {} /\ (worker.pc = "loop" => Alive)
    BY <2>4, Stacked DEF Alive
  <2>6. Turn' BY <1>1, <1>2, <2>2, <2>3, FrontendTurns
  <2>7. frontend'.batch = frontend.batch BY <1>2 DEF SameAttempt
  <2>8. Ladder'
    BY <1>3, <2>1, <2>7 DEF Ladder, Welcome
  <2>9. Posed'
    <3>1. Opening.actions = frontend.batch.actions
          /\ Opening.blocked = Blocked(Phase[Opening.actions[1]], {})
      BY DEF Opening
    <3>2. Uniform(Opening.actions) BY <1>2, <3>1, BatchUniform
    <3>3. Later(Opening.actions[1]) \subseteq Opening.blocked BY <3>1 DEF Later, Blocked
    <3>4. \A n \in DOMAIN down' : down'[n].type \in {"batch", "build"} =>
             Uniform(down'[n].actions) /\ Later(down'[n].actions[1]) \subseteq down'[n].blocked
      BY <1>1, <2>3, <3>2, <3>3 DEF Posed
    <3> QED BY <1>1, <1>4, <1>5, <3>4 DEF Posed
  <2>10. Cleaned' BY <1>4, <1>5, <2>1, <2>4 DEF Cleaned
  <2>11. Loop'
    BY <1>4, <2>1, <2>3, <2>5 DEF Loop, Incoming, Opening, Welcome
  <2>12. Paired' /\ Placed' BY <1>4, <2>5 DEF Paired, Placed
  <2>13. Taken' BY <1>1, <1>2, <1>4 DEF Taken, SameEdges, Outgoing
  <2>14. Owned' = Owned BY <1>2 DEF Owned, SameEdges, SameAttempt
  <2>15. Edged'
    BY <1>1, <1>2, <1>3, <1>4, <1>5, <2>4, <2>14 DEF Edged, SameEdges
  <2>16. Current'
    <3>1. Alive => ~Incoming("answer")' BY <2>3 DEF Incoming, Opening
    <3>2. TrueToView' BY <1>5, <2>5 DEF TrueToView, S
    <3>3. frontend'.batch = frontend.batch /\ frontend'.attempt = frontend.attempt
          /\ frontend'.floor = frontend.floor /\ frontend'.overlay = frontend.overlay
          /\ frontend'.built = frontend.built
      BY <1>2 DEF SameAttempt, SameOverlay
    <3> QED BY <1>1, <1>2, <1>3, <1>4, <1>5, <2>4, <3>1, <3>2, <3>3 DEF Current, Fresh, Lazy
  <2>17. Healthy'
    BY <1>1, <1>2, <1>4, <1>5, <2>1, <2>2, <2>5 DEF Healthy
  <2> QED BY <2>6, <2>8, <2>9, <2>10, <2>11, <2>12, <2>13, <2>15, <2>16, <2>17 DEF Inv
<1> QED BY <1>6, <1>7

Refused(ask) == [type |-> "answer", id |-> ask.id, ok |-> FALSE, to |-> ask, found |-> <<>>]
With(edges) == [frontend EXCEPT !.edges = edges]
OwnedIn(edges) == {a \in DOMAIN edges : edges[a] = frontend.attempt}

LEMMA ErredDoes ==
    ASSUME Typed, Shaped, Underway, NEW edges \in Versions, Erred(With(edges))
    PROVE  /\ SameAttempt /\ SameOverlay /\ frontend'.reads = frontend.reads
           /\ frontend'.strayed = frontend.strayed /\ frontend'.greeted = frontend.greeted
           /\ frontend'.id = frontend.id
           /\ IF Len(F) > 1
              THEN /\ frontend'.pc = "serve" /\ frontend'.edges = edges
                   /\ F' \in Seq(Frames) /\ Len(F') = Len(F) - 1 /\ DOMAIN F' = 1..(Len(F) - 1)
                   /\ \A i \in 1..(Len(F) - 1) : F'[i] = F[i]
                   /\ F[Len(F)].ask \in Call /\ Refused(F[Len(F)].ask) \in Orders
                   /\ down' = Append(down, Refused(F[Len(F)].ask))
              ELSE frontend'.pc = "failed" /\ down' = down
<1> DEFINE f == With(edges)
<1>1. frontend \in Frontends /\ F # <<>> /\ F \in Seq(Frames)
  BY DEF Typed, Shaped, Frontends, F
<1>2. f \in Frontends /\ f.stack = F /\ f.batch = frontend.batch /\ f.edges = edges
      /\ f.attempt = frontend.attempt /\ f.floor = frontend.floor /\ f.overlay = frontend.overlay
      /\ f.built = frontend.built /\ f.reads = frontend.reads /\ f.strayed = frontend.strayed
      /\ f.greeted = frontend.greeted /\ f.id = frontend.id
  BY <1>1 DEF Frontends, With, F
<1>3. Erred(f) OBVIOUS
<1> HIDE DEF f
<1>4. CASE Len(F) > 1
  <2> DEFINE stack == Pop(F)
  <2>1. stack \in Seq(Frames) /\ Len(stack) = Len(F) - 1 /\ DOMAIN stack = 1..(Len(F) - 1)
        /\ \A i \in 1..(Len(F) - 1) : stack[i] = F[i]
    BY <1>1, PopOf
  <2>2. /\ frontend' = [f EXCEPT !.pc = "serve", !.stack = stack, !.ask = None]
        /\ down' = Append(down, Refused(Top(F).ask))
    BY <1>2, <1>3, <1>4 DEF Erred, Refused
  <2> HIDE DEF stack
  <2>3. frontend'.pc = "serve" /\ F' = stack /\ frontend'.batch = frontend.batch /\ frontend'.edges = edges
      /\ frontend'.attempt = frontend.attempt /\ frontend'.floor = frontend.floor
      /\ frontend'.overlay = frontend.overlay
      /\ frontend'.built = frontend.built /\ frontend'.reads = frontend.reads
      /\ frontend'.strayed = frontend.strayed
      /\ frontend'.greeted = frontend.greeted /\ frontend'.id = frontend.id
    BY <1>2, <2>2 DEF Frontends, F
  <2>4. Len(F) \in 2..Len(F) BY <1>1, <1>4
  <2>5. F[Len(F)].ask \in Call /\ Top(F) = F[Len(F)]
    BY <2>4 DEF Shaped, F, Top
  <2>6. Refused(F[Len(F)].ask) \in Orders
    BY <2>5, NoVersions, ReplyMade DEF Refused
  <2> QED BY <1>4, <2>1, <2>2, <2>3, <2>5, <2>6 DEF SameAttempt, SameOverlay
<1>5. CASE ~(Len(F) > 1)
  <2> DEFINE kept == IF f.batch.lazy THEN f.edges ELSE <<>>
  <2>1. frontend' = [f EXCEPT !.pc = "failed", !.stack = <<>>, !.ask = None, !.edges = kept]
        /\ down' = down
    BY <1>2, <1>3, <1>5 DEF Erred, Frontends
  <2> HIDE DEF kept
  <2>3. frontend'.pc = "failed" /\ frontend'.batch = frontend.batch
      /\ frontend'.attempt = frontend.attempt /\ frontend'.floor = frontend.floor
      /\ frontend'.overlay = frontend.overlay
      /\ frontend'.built = frontend.built /\ frontend'.reads = frontend.reads
      /\ frontend'.strayed = frontend.strayed
      /\ frontend'.greeted = frontend.greeted /\ frontend'.id = frontend.id
    BY <1>2, <2>1 DEF Frontends
  <2> QED BY <1>5, <2>1, <2>3 DEF SameAttempt, SameOverlay
<1> QED BY <1>4, <1>5

(* A level of the conversation ends with an error: the run that waits for it *)
(* is told, and whatever runs above it in the worker is left there.          *)
LEMMA ErredKeeps ==
    ASSUME Typed, Shaped, Inv, Underway, NEW edges \in Versions, Erred(With(edges)), Received1,
           disk' = disk, budget'.faults # MaxFaults, worker.pc = "busy" => Len(S) + 1 >= Len(F),
           Owned \subseteq OwnedIn(edges), Alive => worker.sent \subseteq OwnedIn(edges)
    PROVE  Inv'
<1>1. Turn /\ Ladder /\ Posed /\ Cleaned /\ Loop /\ Paired /\ Placed /\ Taken /\ Edged /\ Current BY DEF Inv
<1>2. /\ SameAttempt /\ SameOverlay /\ frontend'.reads = frontend.reads
      /\ frontend'.strayed = frontend.strayed /\ frontend'.greeted = frontend.greeted
      /\ frontend'.id = frontend.id
  BY ErredDoes
<1>3. up' = <<>> /\ worker' = worker /\ (Alive => down = <<>> /\ ~Free) BY DEF Received1
<1>4. Alive' = Alive /\ S' = S /\ Free' = Free BY <1>3, ActiveSame
<1>5. Healthy' BY DEF Healthy
<1>6. CASE ~(Len(F) > 1)
  <2>1. frontend'.pc = "failed" /\ down' = down BY <1>6, ErredDoes
  <2>2. ~frontend'.strayed BY <1>1, <1>2 DEF Taken
  <2> QED BY <1>2, <1>5, <2>1, <2>2, EndingKeeps
<1>7. CASE Len(F) > 1
  <2> DEFINE n == Len(F)
             order == Refused(F[n].ask)
  <2>1. /\ frontend'.pc = "serve" /\ frontend'.edges = edges
        /\ Len(F') = n - 1 /\ DOMAIN F' = 1..(n - 1) /\ \A i \in 1..(n - 1) : F'[i] = F[i]
        /\ order \in Orders /\ down' = Append(down, order)
    BY <1>7, ErredDoes
  <2>2. n \in Nat /\ n > 1 /\ DOMAIN F = 1..n /\ DOMAIN S = 1..Len(S) /\ Len(S) \in Nat
        /\ (\A i \in DOMAIN F : F[i].id \in Nat) /\ (\A i \in DOMAIN S : S[i].build \in Nat)
        /\ (worker.pc = "busy" => Len(S) > 0)
    BY <1>7, Stacked
  <2> HIDE DEF n
  <2>3. Underway' /\ Listening' BY <2>1 DEF Underway, Listening
  <2>4. order.type = "answer" /\ order.to = F[n].ask /\ order.id = order.to.id /\ ~order.ok
        /\ order.found = <<>>
    BY DEF Refused
  <2> HIDE DEF order
  <2>5. /\ Alive => down' # <<>> /\ Len(down') = 1 /\ Order' = order
        /\ \A k \in DOMAIN down' : down'[k] = order \/ (k \in DOMAIN down /\ down'[k] = down[k])
    BY <1>3, <2>1, Sent
  <2>6. Turn' BY <1>1, <2>3, <2>5, FrontendTurns
  <2>7. frontend'.batch = frontend.batch /\ frontend'.attempt = frontend.attempt
        /\ frontend'.floor = frontend.floor /\ frontend'.overlay = frontend.overlay
        /\ frontend'.built = frontend.built
    BY <1>2 DEF SameAttempt, SameOverlay
  <2>8. Ladder'
    <3>1. \A i \in DOMAIN F' : i \in DOMAIN F /\ F'[i] = F[i] BY <2>1, <2>2
    <3>2. F'[1] = F[1] /\ \A i \in 2..Len(F') : i \in 2..Len(F) /\ F'[i] = F[i]
      BY <2>1, <2>2 DEF n
    <3> QED BY <1>1, <1>2, <2>1, <2>7, <3>1, <3>2 DEF Ladder, Lazy, Lead
  <2>9. Posed'
    BY <1>1, <1>3, <1>4, <2>4, <2>5 DEF Posed
  <2>10. Cleaned' BY <1>1, <1>2, <1>3, <1>4, <2>1 DEF Cleaned
  <2>11. Loop' BY <1>1, <1>3, <1>7 DEF Loop
  <2>12. Paired'
    <3> SUFFICES ASSUME worker.pc = "busy" PROVE Paired' BY <1>3 DEF Paired
    <3>1. /\ worker.batch.id = F[1].id /\ worker.batch.actions = F[1].actions
          /\ ~worker.batch.strayed
      BY <1>1 DEF Paired
    <3>2. F'[1] = F[1] BY <2>1, <2>2
    <3>3. ASSUME NEW i \in DOMAIN S
          PROVE  /\ i < n - 1 => F'[i + 1].ask = S[i].call
                 /\ i <= n - 1 => ~S[i].strayed
                 /\ i > 1 => /\ S[i].build < frontend.id /\ Phase[S[i].action] < Lead
                             /\ i <= n - 1 => S[i].build = F'[i].id /\ S[i].action = F'[i].actions[1]
                             /\ i > n - 1 => \A j \in 1..(n - 1) : F'[j].id < S[i].build
      <4>1. i \in Nat /\ i >= 1 BY <2>2
      <4>2. /\ i < n => F[i + 1].ask = S[i].call
            /\ i <= n => ~S[i].strayed
            /\ i > 1 => /\ S[i].build < frontend.id /\ Phase[S[i].action] < Lead
                        /\ i <= n => S[i].build = F[i].id /\ S[i].action = F[i].actions[1]
                        /\ i > n => Beyond(S[i].build)
        BY <1>1 DEF Paired, n
      <4>3. i > 1 /\ i > n - 1 => \A j \in 1..(n - 1) : F'[j].id < S[i].build
        <5>1. CASE i = n
          <6>1. \A j \in 1..(n - 1) : F[j].id < F[n].id BY <1>1, <2>2 DEF Ladder
          <6> QED BY <2>1, <2>2, <4>1, <4>2, <5>1, <6>1
        <5>2. CASE i > n
          BY <2>1, <2>2, <4>1, <4>2, <5>2 DEF Beyond
        <5> QED BY <2>2, <4>1, <5>1, <5>2
      <4> QED BY <2>1, <2>2, <4>1, <4>2, <4>3
    <3> QED BY <1>2, <1>3, <1>4, <2>1, <2>7, <3>1, <3>2, <3>3 DEF Paired, Beyond, Lead
  <2>13. Placed'
    <3> SUFFICES ASSUME worker.pc = "busy" PROVE Placed' BY <1>3 DEF Placed
    <3>1. Alive /\ n - 1 \in DOMAIN S /\ n - 1 < n /\ n - 1 + 1 = n /\ Len(S) >= n - 1
      BY <2>2, Turns, <1>1 DEF n
    <3>2. F[n].ask = S[n - 1].call BY <1>1, <3>1 DEF Paired, n
    <3> QED BY <1>3, <1>4, <2>1, <2>4, <2>5, <3>1, <3>2 DEF Placed
  <2>14. Taken' BY <1>1, <1>2, <1>3 DEF Taken, Outgoing
  <2>15. Owned' = OwnedIn(edges) BY <2>1, <2>7 DEF Owned, OwnedIn
  <2>16. Edged'
    BY <1>1, <1>2, <1>3, <1>4, <2>15 DEF Edged
  <2>17. Current'
    <3>1. Alive /\ Incoming("answer")' => DOMAIN Order'.found = {} BY <2>4, <2>5, NoVersions
    <3>2. TrueToView'
      <4>1. TrueToView BY <1>1 DEF Current
      <4> QED BY <1>3, <2>7, <4>1 DEF TrueToView
    <3> QED BY <1>1, <1>3, <1>4, <2>7, <3>1, <3>2 DEF Current, Fresh, Lazy
  <2> QED BY <1>5, <2>6, <2>8, <2>9, <2>10, <2>11, <2>12, <2>13, <2>14, <2>16, <2>17 DEF Inv
<1> QED BY <1>6, <1>7

\* A frontend that drops a message and changes nothing but the edges: nothing, here.
LEMMA WithSame ==
    ASSUME Typed
    PROVE  With(frontend.edges) = frontend /\ frontend.edges \in Versions /\ OwnedIn(frontend.edges) = Owned
BY DEF Typed, Frontends, With, OwnedIn, Owned

\* Of what an answered frontend has received, as far as the worker is alive.
LEMMA Heard ==
    ASSUME Typed, Shaped, Inv, frontend.pc = "serve", up # <<>>
    PROVE  /\ worker.pc = "busy" => /\ Alive /\ Message.type \in {"ask", "result"}
                                    /\ Len(S) + 1 >= Len(F)
                                    /\ Message.type = "ask" => Message = Active.call /\ Len(S) >= Len(F)
           /\ worker.pc = "loop" => /\ Len(F) = 1 /\ Message.type \in {"batch_result", "error"}
           /\ budget.faults = MaxFaults => worker.pc \in {"busy", "loop"}
<1>1. Underway /\ Turn /\ Placed /\ Loop /\ Healthy BY DEF Inv, Underway
<1>2. Len(S) \in Nat /\ Len(F) \in Nat BY Stacked
<1>3. worker.pc = "busy" => Alive BY DEF Alive
<1>4. worker.pc = "loop" => Alive BY DEF Alive
<1>5. CASE worker.pc = "busy"
  <2>1. \/ Message.type = "ask" /\ Message = Active.call /\ Len(S) >= Len(F)
        \/ Message.type = "result" /\ Len(S) + 1 >= Len(F)
    BY <1>1, <1>5 DEF Placed
  <2> QED BY <1>2, <1>3, <1>5, <2>1
<1>6. CASE worker.pc = "loop"
  <2>1. down = <<>> BY <1>1, <1>4, <1>6, Turns
  <2> QED BY <1>1, <1>6, <2>1 DEF Loop, Incoming, Outgoing
<1>7. worker.pc \in {"loop", "busy", "dead"} BY DEF Typed, Workers
<1> QED BY <1>1, <1>5, <1>6, <1>7 DEF Healthy, Alive

\* A request is expected only from the run that the frontend takes for the last.
LEMMA Expecting ==
    ASSUME Typed, Shaped, Inv, frontend.pc = "serve", up # <<>>, Message.type = "ask",
           worker.pc = "busy"
    PROVE  Expected(Message) <=> Len(S) = Len(F)
<1>1. Underway /\ Ladder /\ Posed /\ Paired BY DEF Inv, Underway
<1>2. Message = Active.call /\ Len(S) >= Len(F) BY Heard
<1>3. Len(S) \in Nat /\ Len(F) \in Nat /\ Len(F) > 0 /\ Len(S) > 0 /\ Active = S[Len(S)] /\ Top(F) = F[Len(F)]
      /\ DOMAIN S = 1..Len(S) /\ DOMAIN F = 1..Len(F) /\ Active \in Runs
      /\ \A i \in DOMAIN F : F[i].id \in Nat
  BY <1>1, Stacked, ActiveRun
<1>4. Active.call # None
  <2>1. Message \in Messages BY Pipes
  <2>2. Message \in Call BY <2>1 DEF Messages, Signals, Results, Totals
  <2> QED BY <1>2, <2>2, DialogueAssumption
<1>5. Message.build = Active.build /\ Message.phase = Phase[Active.action]
  BY <1>1, <1>2, <1>3, <1>4 DEF Posed
<1>6. frontend.batch \in Batches /\ F[1].actions = frontend.batch.actions
  BY <1>1, Framed DEF Ladder
<1>7. Uniform(F[1].actions) /\ F[1].actions \in Seq(Actions) /\ 1 \in DOMAIN F[1].actions
  BY <1>6, BatchUniform
<1>8. Active.build \in Nat BY <1>3 DEF Runs
<1>9. CASE Len(S) = Len(F)
  <2>1. CASE Len(F) > 1
    <3>1. Active.build = Top(F).id /\ Active.action = Top(F).actions[1]
      BY <1>1, <1>3, <1>9, <2>1 DEF Paired
    <3> QED BY <1>5, <1>9, <2>1, <3>1 DEF Expected, Nested, F
  <2>2. CASE ~(Len(F) > 1)
    <3>1. Len(F) = 1 /\ Top(F) = F[1] /\ Active = S[1] BY <1>3, <1>9, <2>2
    <3>2. Active.build + 1 \in DOMAIN F[1].actions
          /\ Active.action = F[1].actions[Active.build + 1]
      BY <1>1, <3>1 DEF Paired, Posed
    <3> QED BY <1>5, <1>9, <2>2, <3>1, <3>2 DEF Expected, Nested, F
  <2> QED BY <2>1, <2>2
<1>10. CASE Len(S) # Len(F)
  <2>1. Len(S) > Len(F) /\ Len(S) > 1 /\ Len(S) \in DOMAIN S
    <3>1. Len(S) >= Len(F) /\ Len(S) \in Nat /\ Len(F) \in Nat /\ Len(F) > 0 BY <1>2, <1>3
    <3>2. Len(S) > Len(F) /\ Len(S) > 1 BY <1>10, <3>1
    <3>3. Len(S) \in DOMAIN S BY <1>3
    <3> QED BY <3>2, <3>3
  <2>2. Beyond(Active.build) /\ Phase[Active.action] < Lead
    BY <1>1, <1>3, <2>1 DEF Paired
  <2>3. CASE Len(F) > 1
    <3>1. Top(F).id < Active.build BY <1>3, <2>2 DEF Beyond
    <3>2. Top(F).id \in Nat BY <1>3
    <3> QED BY <1>5, <1>8, <1>10, <2>3, <3>1, <3>2 DEF Expected, Nested, F
  <2>4. CASE ~(Len(F) > 1)
    <3>1. Len(F) = 1 /\ Top(F) = F[1] BY <1>3, <2>4
    <3>2. ASSUME Active.build + 1 \in DOMAIN F[1].actions,
                 Message.phase = Phase[F[1].actions[Active.build + 1]]
          PROVE  FALSE
      <4>1. Phase[F[1].actions[Active.build + 1]] = Lead
        BY <1>6, <1>7, <3>2 DEF Uniform, Lead
      <4>2. Phase[Active.action] \in Nat BY <1>3, DialogueAssumption DEF Runs
      <4> QED BY <1>5, <2>2, <3>2, <4>1, <4>2
    <3> QED BY <1>5, <1>10, <2>4, <3>1, <3>2 DEF Expected, Nested, F
  <2> QED BY <2>3, <2>4
<1> QED BY <1>9, <1>10

LEMMA AskedKeeps ==
    ASSUME Typed, Shaped, Inv, Asked
    PROVE  Inv'
<1>1. Turn /\ Ladder /\ Posed /\ Cleaned /\ Loop /\ Paired /\ Placed /\ Taken /\ Edged /\ Current /\ Healthy
  BY DEF Inv
<1>2. frontend.pc = "serve" /\ up # <<>> /\ Message.type = "ask" /\ disk' = disk /\ budget' = budget
      /\ Underway /\ Listening /\ frontend \in Frontends
  BY DEF Asked, Received, Underway, Listening, Typed
<1>3. Received1 BY <1>1, <1>2, Turns DEF Asked, Received, Received1
<1>4. up' = <<>> /\ worker' = worker /\ (Alive => down = <<>> /\ ~Free) BY <1>3 DEF Received1
<1>5. Alive' = Alive /\ S' = S /\ Free' = Free /\ Active' = Active BY <1>4, ActiveSame
<1>6. /\ worker.pc = "busy" => Alive /\ Message = Active.call /\ Len(S) + 1 >= Len(F)
      /\ worker.pc # "loop"
      /\ budget.faults = MaxFaults => worker.pc = "busy"
  BY <1>2, Heard
<1>7. Alive => worker.sent \subseteq Owned
  BY <1>1, <1>2 DEF Edged
<1>8. CASE ~Expected(Message)
  <2>1. Erred(With(frontend.edges)) BY <1>8, WithSame DEF Asked
  <2>2. budget.faults # MaxFaults
    <3> SUFFICES ASSUME budget.faults = MaxFaults PROVE FALSE OBVIOUS
    <3>1. worker.pc = "busy" BY <1>6
    <3>2. Len(S) = Len(F) BY <1>1, <1>2, <3>1 DEF Healthy, Outgoing
    <3> QED BY <1>2, <1>8, <3>1, <3>2, Expecting
  <2> QED BY <1>2, <1>3, <1>6, <1>7, <2>1, <2>2, WithSame, ErredKeeps
<1>9. CASE Expected(Message)
  <2>1. frontend' = [frontend EXCEPT !.pc = "handle", !.ask = Message] /\ down' = down
    BY <1>9 DEF Asked
  <2>2. /\ frontend'.pc = "handle" /\ frontend'.ask = Message /\ F' = F
        /\ frontend'.id = frontend.id /\ frontend'.greeted = frontend.greeted
        /\ frontend'.attempt = frontend.attempt /\ frontend'.batch = frontend.batch
        /\ frontend'.floor = frontend.floor /\ frontend'.overlay = frontend.overlay
        /\ frontend'.built = frontend.built
        /\ frontend'.edges = frontend.edges /\ frontend'.reads = frontend.reads
        /\ frontend'.strayed = frontend.strayed
    BY <1>2, <2>1 DEF Frontends, F
  <2>3. Underway' /\ ~Listening' BY <2>2 DEF Underway, Listening
  <2>4. Turn' BY <1>1, <1>3, <2>1, <2>3, FrontendTurns
  <2>5. Message.phase <= Lead
    <3>1. frontend.batch \in Batches /\ Len(F) \in Nat /\ Len(F) > 0 /\ Top(F) = F[Len(F)]
          /\ F[1].actions = frontend.batch.actions /\ Top(F) \in Frames
      BY <1>1, <1>2, Framed, Stacked DEF Ladder, F
    <3>2. Uniform(F[1].actions) /\ 1 \in DOMAIN F[1].actions /\ Lead \in Nat
      BY <3>1, BatchUniform, DialogueAssumption DEF Lead
    <3>3. CASE Nested
      <4>1. Len(F) \in 2..Len(F) BY <3>1, <3>3 DEF Nested, F
      <4>2. Phase[Top(F).actions[1]] < Lead BY <1>1, <1>2, <3>1, <4>1 DEF Ladder
      <4>3. Message.phase = Phase[Top(F).actions[1]] BY <1>9, <3>3 DEF Expected, F
      <4>4. Phase[Top(F).actions[1]] \in Nat
        BY <3>1, DialogueAssumption DEF Frames, Listing
      <4> QED BY <3>2, <4>2, <4>3, <4>4
    <3>4. CASE ~Nested
      <4>1. Top(F) = F[1] BY <3>1, <3>4 DEF Nested, F
      <4>2. Message.build + 1 \in DOMAIN F[1].actions
            /\ Message.phase = Phase[F[1].actions[Message.build + 1]]
        BY <1>9, <3>4, <4>1 DEF Expected, F
      <4>3. Message.phase = Lead BY <3>1, <3>2, <4>2 DEF Uniform, Lead
      <4> QED BY <3>2, <4>3
    <3> QED BY <3>3, <3>4
  <2>6. Ladder' BY <1>1, <1>2, <2>2, <2>5 DEF Ladder, Lazy, Lead
  <2>7. Posed' BY <1>1, <1>4, <1>5, <2>1 DEF Posed
  <2>8. Cleaned' BY <1>1, <1>4, <1>5, <2>2 DEF Cleaned
  <2>9. Loop' BY <1>4, <1>6 DEF Loop
  <2>10. Paired' BY <1>1, <1>2, <1>4, <1>5, <2>2 DEF Paired, Beyond, Lead
  <2>11. worker.pc = "busy" => Len(S) = Len(F) BY <1>2, <1>9, Expecting
  <2>12. Placed' BY <1>4, <1>5, <1>6, <2>1, <2>2, <2>11 DEF Placed
  <2>13. Taken' BY <1>1, <2>2 DEF Taken
  <2>14. Owned' = Owned BY <2>2 DEF Owned
  <2>15. Edged' BY <1>1, <1>2, <1>4, <1>5, <1>7, <2>2, <2>14 DEF Edged
  <2>16. Current'
    <3>1. TrueToView'
      <4>1. TrueToView BY <1>1 DEF Current
      <4> QED BY <1>2, <1>4, <2>2, <4>1 DEF TrueToView
    <3> QED BY <1>1, <1>2, <1>4, <1>5, <2>1, <2>2, <3>1 DEF Current, Fresh, Lazy, Incoming, Order
  <2>17. Healthy'
    BY <1>1, <1>2, <1>4, <1>5, <1>6, <2>1, <2>2, <2>3 DEF Healthy, Incoming, Outgoing
  <2> QED BY <2>4, <2>6, <2>7, <2>8, <2>9, <2>10, <2>12, <2>13, <2>15, <2>16, <2>17 DEF Inv
<1> QED BY <1>8, <1>9

Pushed(a) == [id |-> frontend.id, actions |-> <<a>>, ask |-> frontend.ask]
Demanded(a) == [type |-> "build", id |-> frontend.id, actions |-> <<a>>,
                blocked |-> Blocked(Phase[a], frontend.deleted \cup {a})]

LEMMA DemandDoes ==
    ASSUME Typed, Shaped, Demand
    PROVE  \E a \in Needed(frontend) :
              /\ frontend'.pc = "serve" /\ frontend'.id = frontend.id + 1
              /\ frontend'.greeted = frontend.greeted
              /\ SameAttempt /\ SameOverlay /\ SameEdges
              /\ Len(F') = Len(F) + 1 /\ DOMAIN F' = 1..(Len(F) + 1) /\ F'[Len(F) + 1] = Pushed(a)
              /\ \A i \in 1..Len(F) : F'[i] = F[i]
              /\ Demanded(a) \in Orders /\ down' = Append(down, Demanded(a))
<1>1. frontend \in Frontends /\ F \in Seq(Frames) /\ down \in Seq(Orders) /\ frontend.ask \in Call
  BY DEF Typed, Shaped, Demand, Frontends, F
<1>2. PICK a \in Needed(frontend) :
         /\ frontend' = [frontend EXCEPT
               !.pc = "serve", !.id = @ + 1, !.deleted = frontend.deleted \cup {a}, !.ask = None,
               !.stack = Append(@, Pushed(a))]
         /\ down' = Append(down, Demanded(a))
  BY DEF Demand, Pushed, Demanded
<1>3. a \in Actions
  <2>1. a \in Optional BY DEF Needed, Unbuilt
  <2> QED BY <2>1, DialogueAssumption
<1> DEFINE stack == Append(F, Pushed(a))
<1>4. /\ frontend'.pc = "serve" /\ frontend'.id = frontend.id + 1
      /\ frontend'.greeted = frontend.greeted
      /\ SameAttempt /\ SameOverlay /\ SameEdges /\ F' = stack
  <2>1. frontend.stack = F BY DEF F
  <2> HIDE DEF stack
  <2>2. frontend' = [frontend EXCEPT
               !.pc = "serve", !.id = frontend.id + 1, !.deleted = frontend.deleted \cup {a},
               !.ask = None, !.stack = stack]
    BY <1>1, <1>2, <2>1 DEF Frontends, stack
  <2> QED BY <1>1, <2>2 DEF Frontends, F, SameAttempt, SameOverlay, SameEdges
<1>5. Pushed(a) \in Frames BY <1>1, <1>3 DEF Pushed, Frames, Listing, Frontends
<1>6. Len(stack) = Len(F) + 1 /\ DOMAIN stack = 1..(Len(F) + 1) /\ stack[Len(F) + 1] = Pushed(a)
      /\ \A i \in 1..Len(F) : stack[i] = F[i]
  BY <1>1, <1>5, PushOf
<1>7. Demanded(a) \in Orders
  <2> DEFINE deleted == frontend.deleted \cup {a}
  <2>1. deleted \in SUBSET Assets BY <1>1, <1>3 DEF Frontends, Assets
  <2> HIDE DEF deleted
  <2>2. Blocked(Phase[a], deleted) \subseteq Actions \cup deleted BY DEF Blocked
  <2>3. Blocked(Phase[a], deleted) \in SUBSET Assets BY <2>1, <2>2 DEF Assets
  <2>4. <<a>> \in Listing BY <1>3 DEF Listing
  <2>5. frontend.id \in Nat BY <1>1 DEF Frontends
  <2> QED BY <2>3, <2>4, <2>5, BuildMade DEF Demanded, deleted
<1> QED BY <1>2, <1>4, <1>6, <1>7

LEMMA DemandKeeps ==
    ASSUME Typed, Shaped, Inv, Demand
    PROVE  Inv'
<1>1. Turn /\ Ladder /\ Posed /\ Cleaned /\ Loop /\ Paired /\ Placed /\ Taken /\ Edged /\ Current /\ Healthy
  BY DEF Inv
<1>2. frontend.pc = "handle" /\ Underway /\ ~Listening /\ disk' = disk /\ budget' = budget
      /\ up' = up /\ worker' = worker
  BY DEF Demand, Underway, Listening
<1>3. up = <<>> /\ Received1
  BY <1>1, <1>2, Turns DEF Received1
<1>4. up' = <<>> /\ (Alive => down = <<>> /\ ~Free) BY <1>2, <1>3 DEF Received1
<1>5. Alive' = Alive /\ S' = S /\ Free' = Free /\ Active' = Active BY <1>2, ActiveSame
<1>6. PICK a \in Needed(frontend) :
         /\ frontend'.pc = "serve" /\ frontend'.id = frontend.id + 1
         /\ frontend'.greeted = frontend.greeted
         /\ SameAttempt /\ SameOverlay /\ SameEdges
         /\ Len(F') = Len(F) + 1 /\ DOMAIN F' = 1..(Len(F) + 1) /\ F'[Len(F) + 1] = Pushed(a)
         /\ \A i \in 1..Len(F) : F'[i] = F[i]
         /\ Demanded(a) \in Orders /\ down' = Append(down, Demanded(a))
  BY DemandDoes
<1>7. /\ frontend'.attempt = frontend.attempt /\ frontend'.batch = frontend.batch
      /\ frontend'.floor = frontend.floor /\ frontend'.overlay = frontend.overlay
      /\ frontend'.built = frontend.built
      /\ frontend'.edges = frontend.edges /\ frontend'.reads = frontend.reads
      /\ frontend'.strayed = frontend.strayed
  BY <1>6 DEF SameAttempt, SameOverlay, SameEdges
<1> DEFINE n == Len(F)
<1>8. n \in Nat /\ n > 0 /\ DOMAIN F = 1..n /\ DOMAIN S = 1..Len(S) /\ Len(S) \in Nat
      /\ frontend.id \in Nat /\ (\A i \in DOMAIN F : F[i].id \in Nat)
      /\ (\A i \in DOMAIN S : S[i].build \in Nat)
  BY <1>2, Stacked
<1>9. a \in Actions /\ Lazy(a) /\ Phase[a] < Lead
  <2>1. a \in Actions /\ Lazy(a) /\ Phase[a] < frontend.ask.phase
    <3>1. a \in Actions /\ a \in Optional /\ frontend.batch.lazy
          /\ a \notin Blocked(frontend.ask.phase, frontend.deleted)
      BY DialogueAssumption DEF Needed, Unbuilt
    <3>2. Phase[a] \in Nat /\ frontend.ask.phase \in Nat
      BY <1>2, <3>1, DialogueAssumption DEF Shaped, Call
    <3> QED BY <3>1, <3>2 DEF Blocked, Lazy
  <2>2. frontend.ask.phase <= Lead BY <1>1, <1>2 DEF Ladder
  <2>3. frontend.batch \in Batches BY <1>2, Framed
  <2>4. Lead \in Nat BY <2>3, BatchUniform, DialogueAssumption DEF Lead
  <2>5. Phase[a] \in Nat /\ frontend.ask.phase \in Nat
    BY <1>2, <2>1, DialogueAssumption DEF Shaped, Call
  <2> QED BY <2>1, <2>2, <2>4, <2>5
<1>10. /\ Pushed(a).id = frontend.id /\ Pushed(a).actions = <<a>> /\ Pushed(a).actions[1] = a
       /\ Pushed(a).ask = frontend.ask
       /\ Demanded(a).type = "build" /\ Demanded(a).id = frontend.id /\ Demanded(a).actions = <<a>>
  BY DEF Pushed, Demanded
<1>11. worker.pc = "busy" => Len(S) = n /\ frontend.ask = Active.call /\ Active = S[n] /\ n \in DOMAIN S
  <2> SUFFICES ASSUME worker.pc = "busy"
               PROVE  Len(S) = n /\ frontend.ask = Active.call /\ Active = S[n] /\ n \in DOMAIN S
    OBVIOUS
  <2>1. Len(S) = n /\ frontend.ask = Active.call BY <1>1, <1>2 DEF Placed
  <2>2. Active = S[Len(S)] /\ Len(S) \in DOMAIN S BY Stacked
  <2> QED BY <2>1, <2>2
<1>12. /\ Alive => down' # <<>> /\ Len(down') = 1 /\ Order' = Demanded(a)
       /\ \A k \in DOMAIN down' : down'[k] = Demanded(a) \/ (k \in DOMAIN down /\ down'[k] = down[k])
  BY <1>4, <1>6, Sent
<1> HIDE DEF n
<1>13. Underway' /\ Listening' BY <1>6 DEF Underway, Listening
<1>14. Turn' BY <1>1, <1>3, <1>12, <1>13, FrontendTurns
<1>15. Len(F') = n + 1 /\ DOMAIN F' = 1..(n + 1) /\ F'[n + 1] = Pushed(a) /\ \A i \in 1..n : F'[i] = F[i]
  BY <1>6 DEF n
<1>16. Ladder'
  <2>1. F'[1] = F[1] BY <1>8, <1>15
  <2>2. \A i \in DOMAIN F : F[i].id < frontend.id BY <1>1, <1>2 DEF Ladder
  <2>3. \A i \in DOMAIN F' : F'[i].id < frontend'.id
    BY <1>6, <1>8, <1>10, <1>15, <2>2
  <2>4. \A i, j \in DOMAIN F' : i < j => F'[i].id < F'[j].id
    <3>1. \A i, j \in DOMAIN F : i < j => F[i].id < F[j].id BY <1>1, <1>2 DEF Ladder
    <3>2. ASSUME NEW i \in DOMAIN F', NEW j \in DOMAIN F', i < j PROVE F'[i].id < F'[j].id
      <4>1. CASE j = n + 1 BY <1>8, <1>10, <1>15, <2>2, <3>2, <4>1
      <4>2. CASE j # n + 1 BY <1>8, <1>15, <3>1, <3>2, <4>2
      <4> QED BY <4>1, <4>2
    <3> QED BY <3>2
  <2>5. ASSUME NEW i \in 2..Len(F')
        PROVE  (Lazy(F[i].actions[1]) /\ Phase[F[i].actions[1]] < Lead /\ F[i].ask.phase <= Lead)'
    <3>1. CASE i = n + 1
      <4>1. frontend.ask.phase <= Lead BY <1>1, <1>2 DEF Ladder
      <4> QED BY <1>7, <1>9, <1>10, <1>15, <3>1, <4>1 DEF Lazy, Lead
    <3>2. CASE i # n + 1
      <4>1. i \in 2..Len(F) /\ F'[i] = F[i] BY <1>8, <1>15, <3>2 DEF n
      <4> QED BY <1>1, <1>2, <1>7, <4>1 DEF Ladder, Lazy, Lead
    <3> QED BY <3>1, <3>2
  <2>6. F[1].actions = frontend.batch.actions BY <1>1, <1>2 DEF Ladder
  <2> QED BY <1>6, <1>7, <2>1, <2>3, <2>4, <2>5, <2>6 DEF Ladder
<1>17. Posed'
  <2>1. Uniform(<<a>>) BY DEF Uniform
  <2>2. Later(a) \subseteq Demanded(a).blocked BY DEF Later, Demanded, Blocked
  <2>3. <<a>>[1] = a OBVIOUS
  <2>4. Uniform(Demanded(a).actions) /\ Later(Demanded(a).actions[1]) \subseteq Demanded(a).blocked
    BY <1>10, <2>1, <2>2, <2>3
  <2>5. \A k \in DOMAIN down' : down'[k].type \in {"batch", "build"} =>
           Uniform(down'[k].actions) /\ Later(down'[k].actions[1]) \subseteq down'[k].blocked
    BY <1>1, <1>12, <2>4 DEF Posed
  <2> QED BY <1>1, <1>2, <1>5, <2>5 DEF Posed
<1>18. Cleaned' BY <1>1, <1>2, <1>5, <1>6 DEF Cleaned
<1>19. Loop' BY <1>1, <1>2 DEF Loop
<1>20. Paired'
  <2> SUFFICES ASSUME worker.pc = "busy" PROVE Paired' BY <1>2 DEF Paired
  <2>1. /\ worker.batch.id = F[1].id /\ worker.batch.actions = F[1].actions
        /\ ~worker.batch.strayed /\ F'[1] = F[1]
    BY <1>1, <1>2, <1>8, <1>15 DEF Paired
  <2>2. ASSUME NEW i \in DOMAIN S
        PROVE  /\ i < n + 1 => F'[i + 1].ask = S[i].call
               /\ i <= n + 1 => ~S[i].strayed
               /\ i > 1 => /\ S[i].build < frontend.id + 1 /\ Phase[S[i].action] < Lead
                           /\ i <= n + 1 => S[i].build = F'[i].id /\ S[i].action = F'[i].actions[1]
               /\ ~(i > n + 1)
    <3>1. i \in 1..n BY <1>8, <1>11
    <3>2. /\ i < n => F[i + 1].ask = S[i].call
          /\ i <= n => ~S[i].strayed
          /\ i > 1 => /\ S[i].build < frontend.id /\ Phase[S[i].action] < Lead
                      /\ i <= n => S[i].build = F[i].id /\ S[i].action = F[i].actions[1]
      BY <1>1, <1>2 DEF Paired, n
    <3>3. F'[i + 1].ask = S[i].call
      <4>1. CASE i = n BY <1>10, <1>11, <1>15, <4>1
      <4>2. CASE i < n BY <1>8, <1>15, <3>1, <3>2, <4>2
      <4> QED BY <1>8, <3>1, <4>1, <4>2
    <3>4. S[i].build < frontend.id => S[i].build < frontend.id + 1 BY <1>8
    <3> QED BY <1>8, <1>15, <3>1, <3>2, <3>3, <3>4
  <2> QED BY <1>2, <1>5, <1>6, <1>7, <1>15, <2>1, <2>2 DEF Paired, Lead
<1>21. Placed'
  <2> SUFFICES ASSUME worker.pc = "busy" PROVE Placed' BY <1>2 DEF Placed
  <2>1. Alive BY <1>1, Turns
  <2>2. Top(F') = Pushed(a) BY <1>15 DEF Top
  <2>3. Top(F)' = Pushed(a) BY <2>2 DEF Top
  <2> QED BY <1>4, <1>5, <1>6, <1>10, <1>11, <1>12, <1>15, <2>1, <2>3 DEF Placed
<1>22. Taken' BY <1>1, <1>4, <1>7 DEF Taken, Outgoing
<1>23. Owned' = Owned BY <1>7 DEF Owned
<1>24. Edged' BY <1>1, <1>2, <1>3, <1>4, <1>5, <1>7, <1>23 DEF Edged
<1>25. Current'
  <2>1. TrueToView'
    <3>1. TrueToView BY <1>1 DEF Current
    <3> QED BY <1>2, <1>7, <3>1 DEF TrueToView
  <2>2. Alive => ~Incoming("answer")' BY <1>10, <1>12 DEF Incoming
  <2> QED BY <1>1, <1>2, <1>5, <1>7, <2>1, <2>2 DEF Current, Fresh, Lazy
<1>26. Healthy'
  <2> SUFFICES ASSUME budget'.faults = MaxFaults PROVE Healthy' BY DEF Healthy
  <2>1. Alive /\ \A i \in DOMAIN S : ~S[i].upset BY <1>1, <1>2 DEF Healthy
  <2>2. ~Outgoing("ask")' /\ ~Outgoing("result")' /\ ~Incoming("answer")' /\ ~Free'
    BY <1>4, <1>5, <1>10, <1>12, <2>1 DEF Incoming, Outgoing
  <2> QED BY <1>4, <1>5, <1>6, <1>13, <2>1, <2>2 DEF Healthy
<1> QED BY <1>14, <1>16, <1>17, <1>18, <1>19, <1>20, <1>21, <1>22, <1>24, <1>25, <1>26 DEF Inv

(* What an action that is skipped leaves behind concerns nobody's turn.      *)
LEMMA SkipKeeps ==
    ASSUME Typed, Shaped, Inv, Skip
    PROVE  Inv'
<1>1. /\ frontend'.pc = frontend.pc /\ frontend'.id = frontend.id /\ F' = F
      /\ frontend'.ask = frontend.ask /\ frontend'.greeted = frontend.greeted
      /\ SameAttempt /\ SameOverlay /\ SameEdges
  <2>1. frontend \in Frontends BY DEF Typed
  <2>2. PICK a \in Needed(frontend) : frontend' = [frontend EXCEPT !.deleted = @ \cup {a}]
    BY DEF Skip
  <2> QED BY <2>1, <2>2 DEF Frontends, F, SameAttempt, SameOverlay, SameEdges
<1>2. worker' = worker /\ down' = down /\ up' = up /\ disk' = disk /\ budget' = budget
  BY DEF Skip
<1> QED BY <1>1, <1>2, ActiveSame
    DEF Inv, Turn, Ladder, Posed, Cleaned, Loop, Paired, Placed, Taken, Edged, Current, Healthy,
        TrueToView, Underway, F, Beyond, Lead, Top, Owned, Nested, Fresh, Lazy, Incoming, Outgoing,
        Order, Message, Listening, SameAttempt, SameOverlay, SameEdges

Replied(ok) == [type |-> "answer", id |-> frontend.ask.id, ok |-> ok, to |-> frontend.ask,
                found |-> IF ok THEN Found(frontend) ELSE <<>>]

LEMMA ReplyDoes ==
    ASSUME Typed, Shaped, frontend.pc = "handle", NEW ok \in BOOLEAN, Reply(ok)
    PROVE  /\ frontend'.pc = "serve" /\ frontend'.id = frontend.id /\ F' = F
           /\ frontend'.greeted = frontend.greeted
           /\ SameAttempt /\ SameOverlay /\ SameEdges
           /\ Replied(ok) \in Orders /\ down' = Append(down, Replied(ok))
<1>1. frontend \in Frontends /\ frontend.ask \in Call BY DEF Typed, Shaped
<1>2. frontend' = [frontend EXCEPT !.pc = "serve", !.ask = None] /\ down' = Append(down, Replied(ok))
  BY DEF Reply, Replied
<1>3. /\ frontend'.pc = "serve" /\ frontend'.id = frontend.id /\ F' = F
      /\ frontend'.greeted = frontend.greeted
      /\ SameAttempt /\ SameOverlay /\ SameEdges
  BY <1>1, <1>2 DEF Frontends, F, SameAttempt, SameOverlay, SameEdges
<1> DEFINE found == IF ok THEN Found(frontend) ELSE <<>>
<1>4. found \in Finds BY <1>1, FoundTyped, NoVersions
<1>5. Replied(ok) \in Orders
  <2>1. Replied(ok) = [type |-> "answer", id |-> frontend.ask.id, ok |-> ok, to |-> frontend.ask,
                       found |-> found]
    BY DEF Replied
  <2> HIDE DEF found
  <2> QED BY <1>1, <1>4, <2>1, ReplyMade
<1> QED BY <1>2, <1>3, <1>5

(* What is found is visible in the phase of the request; what is demanded is *)
(* in the overlay by then, where demands are met at all.                     *)
LEMMA FoundFresh ==
    ASSUME Typed, Shaped, Current, frontend.pc = "handle", Needed(frontend) = {} \/ ~frontend.batch.lazy,
           NEW a \in DOMAIN Found(frontend)
    PROVE  /\ a \in Actions => Phase[a] < frontend.ask.phase
           /\ IF Found(frontend)[a] = Path THEN ~Lazy(a) ELSE Fresh(a, Found(frontend)[a])
<1>1. Underway /\ frontend.ask \in Call BY DEF Shaped, Underway
<1>2. a \in frontend.ask.assets /\ a \notin Blocked(frontend.ask.phase, frontend.deleted)
      /\ Found(frontend)[a] = IF a \in DOMAIN frontend.overlay THEN frontend.overlay[a] ELSE Path
  BY DEF Found
<1>3. a \in Assets BY <1>1, <1>2 DEF Call
<1>4. a \in Actions => Phase[a] < frontend.ask.phase
  <2> SUFFICES ASSUME a \in Actions PROVE Phase[a] < frontend.ask.phase OBVIOUS
  <2>1. Phase[a] \in Nat /\ frontend.ask.phase \in Nat BY <1>1, DialogueAssumption DEF Call
  <2>2. ~(Phase[a] >= frontend.ask.phase) BY <1>2 DEF Blocked
  <2> QED BY <2>1, <2>2
<1>5. CASE a \in DOMAIN frontend.overlay
  <2>1. Lazy(a) /\ frontend.overlay[a] = frontend.attempt /\ frontend.floor[a] = frontend.attempt
    BY <1>1, <1>3, <1>5 DEF Current
  <2>2. frontend.attempt \in Nat BY DialogueAssumption DEF Typed, Frontends
  <2>3. Found(frontend)[a] = frontend.attempt /\ Found(frontend)[a] # Path
    BY <1>2, <1>5, <2>1, <2>2, DialogueAssumption
  <2> QED BY <1>4, <2>1, <2>2, <2>3 DEF Fresh
<1>6. CASE a \notin DOMAIN frontend.overlay
  <2>1. Found(frontend)[a] = Path BY <1>2, <1>6
  <2>2. a \notin frontend.built BY <1>1, <1>6 DEF Current
  <2>3. ~Lazy(a)
    <3>1. Lazy(a) => a \in Needed(frontend) BY <1>2, <1>6, <2>2 DEF Lazy, Needed, Unbuilt
    <3> QED BY <3>1 DEF Lazy
  <2> QED BY <1>4, <2>1, <2>3
<1> QED BY <1>5, <1>6

LEMMA AnswerKeeps ==
    ASSUME Typed, Shaped, Inv, Answer
    PROVE  Inv'
<1>1. Turn /\ Ladder /\ Posed /\ Cleaned /\ Loop /\ Paired /\ Placed /\ Taken /\ Edged /\ Current /\ Healthy
  BY DEF Inv
<1>2. frontend.pc = "handle" /\ Underway /\ ~Listening /\ disk' = disk /\ budget' = budget
      /\ up' = up /\ worker' = worker
  BY DEF Answer, Underway, Listening
<1>3. up = <<>> /\ Received1
  BY <1>1, <1>2, Turns DEF Received1
<1>4. up' = <<>> /\ (Alive => down = <<>> /\ ~Free) BY <1>2, <1>3 DEF Received1
<1>5. Alive' = Alive /\ S' = S /\ Free' = Free /\ Active' = Active BY <1>2, ActiveSame
<1>6. PICK ok \in BOOLEAN : /\ Reply(ok) /\ (ok \/ frontend.ask.op = "resolve_assets")
                            /\ ok => Needed(frontend) = {} \/ ~frontend.batch.lazy
  BY DEF Answer, Prefetch
<1>7. /\ frontend'.pc = "serve" /\ frontend'.id = frontend.id /\ F' = F
      /\ frontend'.greeted = frontend.greeted
      /\ SameAttempt /\ SameOverlay /\ SameEdges
      /\ Replied(ok) \in Orders /\ down' = Append(down, Replied(ok))
  BY <1>2, <1>6, ReplyDoes
<1>8. /\ frontend'.attempt = frontend.attempt /\ frontend'.batch = frontend.batch
      /\ frontend'.floor = frontend.floor /\ frontend'.overlay = frontend.overlay
      /\ frontend'.built = frontend.built
      /\ frontend'.edges = frontend.edges /\ frontend'.reads = frontend.reads
      /\ frontend'.strayed = frontend.strayed
  BY <1>7 DEF SameAttempt, SameOverlay, SameEdges
<1>9. /\ Replied(ok).type = "answer" /\ Replied(ok).id = frontend.ask.id /\ Replied(ok).ok = ok
      /\ Replied(ok).to = frontend.ask
      /\ Replied(ok).found = IF ok THEN Found(frontend) ELSE <<>>
  BY DEF Replied
<1>10. worker.pc = "busy" => /\ Len(S) = Len(F) /\ frontend.ask = S[Len(F)].call
                             /\ Len(S) \in Nat
  BY <1>1, <1>2, Stacked DEF Placed
<1>11. /\ Alive => down' # <<>> /\ Len(down') = 1 /\ Order' = Replied(ok)
       /\ \A k \in DOMAIN down' : down'[k] = Replied(ok) \/ (k \in DOMAIN down /\ down'[k] = down[k])
  BY <1>4, <1>7, Sent
<1>12. Underway' /\ Listening' BY <1>7 DEF Underway, Listening
<1>13. Turn' BY <1>1, <1>3, <1>11, <1>12, FrontendTurns
<1>14. Ladder' BY <1>1, <1>2, <1>7, <1>8 DEF Ladder, Lazy, Lead
<1>15. Posed' BY <1>1, <1>2, <1>5, <1>9, <1>11 DEF Posed
<1>16. Cleaned' BY <1>1, <1>2, <1>5, <1>7 DEF Cleaned
<1>17. Loop' BY <1>1, <1>2 DEF Loop
<1>18. Paired' BY <1>1, <1>2, <1>5, <1>7, <1>8 DEF Paired, Beyond, Lead
<1>19. Placed'
  <2> SUFFICES ASSUME worker.pc = "busy" PROVE Placed' BY <1>2 DEF Placed
  <2>1. Alive BY <1>1, Turns
  <2>2. Order'.type = "answer" /\ Order'.to = S[Len(F)].call /\ Order'.id = Order'.to.id
    BY <1>9, <1>10, <1>11, <2>1
  <2> QED BY <1>4, <1>5, <1>7, <1>10, <2>1, <2>2 DEF Placed
<1>20. Taken' BY <1>1, <1>4, <1>8 DEF Taken, Outgoing
<1>21. Owned' = Owned BY <1>8 DEF Owned
<1>22. Edged' BY <1>1, <1>2, <1>3, <1>4, <1>5, <1>8, <1>21 DEF Edged
<1>23. Current'
  <2>1. TrueToView'
    <3>1. TrueToView BY <1>1 DEF Current
    <3> QED BY <1>2, <1>8, <3>1 DEF TrueToView
  <2>2. ASSUME Alive, NEW a \in DOMAIN Order'.found
        PROVE  /\ a \in Actions => Phase[a] < Order'.to.phase
               /\ IF Order'.found[a] = Path THEN ~Lazy(a) ELSE Fresh(a, Order'.found[a])
    <3>1. Order' = Replied(ok) BY <1>11, <2>2
    <3>2. ok /\ Order'.found = Found(frontend)
      <4>1. DOMAIN <<>> = {} BY NoVersions
      <4> QED BY <1>9, <2>2, <3>1, <4>1
    <3> QED BY <1>1, <1>2, <1>6, <1>9, <2>2, <3>1, <3>2, FoundFresh
  <2>3. \A a, content : (Lazy(a)' <=> Lazy(a)) /\ frontend'.floor[a] = frontend.floor[a]
    BY <1>8 DEF Lazy
  <2> QED BY <1>1, <1>2, <1>5, <1>8, <2>1, <2>2, <2>3 DEF Current, Fresh
<1>24. Healthy'
  <2> SUFFICES ASSUME budget'.faults = MaxFaults PROVE Healthy' BY DEF Healthy
  <2>1. Alive /\ \A i \in DOMAIN S : ~S[i].upset BY <1>1, <1>2 DEF Healthy
  <2>2. ~Outgoing("ask")' /\ ~Outgoing("result")' /\ ~Free' BY <1>4, <1>5, <2>1 DEF Outgoing
  <2>3. Order'.ok \/ Order'.to.op = "resolve_assets" BY <1>6, <1>9, <1>11, <2>1
  <2> QED BY <1>4, <1>5, <1>7, <1>10, <1>12, <2>1, <2>2, <2>3, <1>2 DEF Healthy
<1> QED BY <1>13, <1>14, <1>15, <1>16, <1>17, <1>18, <1>19, <1>20, <1>22, <1>23, <1>24 DEF Inv

LEMMA AnswerFailsKeeps ==
    ASSUME Typed, Shaped, Inv, AnswerFails
    PROVE  Inv'
<1>1. Turn /\ Placed /\ Edged BY DEF Inv
<1>2. frontend.pc = "handle" /\ Underway /\ ~Listening /\ disk' = disk /\ up' = up /\ worker' = worker
  BY DEF AnswerFails, Underway, Listening
<1>3. up = <<>> /\ Received1
  BY <1>1, <1>2, Turns DEF Received1
<1>4. worker.pc = "busy" => Len(S) + 1 >= Len(F)
  <2>1. worker.pc = "busy" => Len(S) = Len(F) BY <1>1, <1>2 DEF Placed
  <2>2. Len(S) \in Nat BY Stacked
  <2> QED BY <2>1, <2>2
<1>5. budget'.faults # MaxFaults
  <2>1. budget'.faults < MaxFaults BY FaultTyped DEF AnswerFails, Typed
  <2> QED BY <2>1, DialogueAssumption
<1>6. Erred(With(frontend.edges)) BY WithSame DEF AnswerFails
<1>7. Alive => worker.sent \subseteq Owned BY <1>1, <1>2, <1>3 DEF Edged
<1> QED BY <1>2, <1>3, <1>4, <1>5, <1>6, <1>7, WithSame, ErredKeeps

\* The edges after a result, and those of this attempt among them.
Gained == Extended(frontend.edges, Message.edges, frontend.attempt)

LEMMA GainedOwned ==
    ASSUME Typed, Shaped, Inv, frontend.pc = "serve", up # <<>>, Message.type \in {"result", "batch_result"}
    PROVE  /\ Gained \in Versions /\ OwnedIn(Gained) = Owned \cup Message.edges
           /\ frontend.reads \subseteq Owned /\ frontend.reads \cup Message.reads \subseteq OwnedIn(Gained)
           /\ Alive => worker.sent \subseteq OwnedIn(Gained)
<1>1. Message \in Messages BY Pipes
<1>2. Message.edges \in SUBSET Assets
  BY <1>1 DEF Messages, Signals, Call, Results, Totals
<1>3. frontend.edges \in Versions /\ frontend.attempt \in Nat
  BY DialogueAssumption DEF Typed, Frontends
<1>4. /\ Gained \in Versions /\ DOMAIN Gained = DOMAIN frontend.edges \cup Message.edges
      /\ \A a \in DOMAIN frontend.edges \cup Message.edges :
            Gained[a] = IF a \in Message.edges THEN frontend.attempt ELSE frontend.edges[a]
  <2> DEFINE old == frontend.edges
             new == Message.edges
             attempt == frontend.attempt
  <2>1. Gained = Extended(old, new, attempt) BY DEF Gained
  <2>2. old \in Versions /\ new \in SUBSET Assets /\ attempt \in Nat BY <1>2, <1>3
  <2> HIDE DEF old, new, attempt
  <2>3. /\ Gained \in Versions /\ DOMAIN Gained = DOMAIN old \cup new
        /\ \A a \in DOMAIN old \cup new : Gained[a] = IF a \in new THEN attempt ELSE old[a]
    BY <2>1, <2>2, ExtendedTyped
  <2> QED BY <2>3 DEF old, new, attempt
<1>5. OwnedIn(Gained) = Owned \cup Message.edges
  BY <1>4 DEF OwnedIn, Owned
<1>6. Message.reads \subseteq Message.edges \cup Owned
  BY DEF Inv, Taken, Outgoing
<1>7. frontend.reads \subseteq Owned /\ (Alive => worker.sent \subseteq Owned \cup Message.edges)
  BY DEF Inv, Edged, Underway
<1> QED BY <1>4, <1>5, <1>6, <1>7

\* A nested build has returned its output.
Returned(a) ==
    [b \in DOMAIN frontend.overlay \cup {a} |-> IF b = a THEN frontend.attempt ELSE frontend.overlay[b]]
Completes == Message.type = "result" /\ Message.id = Top(F).id /\ Message.ok

LEMMA NestedEndsDoes ==
    ASSUME Typed, Shaped, NestedEnds
    PROVE  LET a == Top(F).actions[1]
           IN  IF Completes
               THEN /\ frontend'.pc = "handle" /\ frontend'.id = frontend.id
                    /\ frontend'.greeted = frontend.greeted /\ SameAttempt
                    /\ Len(F') = Len(F) - 1 /\ DOMAIN F' = 1..(Len(F) - 1)
                    /\ \A i \in 1..(Len(F) - 1) : F'[i] = F[i]
                    /\ frontend'.ask = Top(F).ask
                    /\ frontend'.overlay = Returned(a) /\ frontend'.built = frontend.built \cup {a}
                    /\ frontend'.edges = Gained /\ frontend'.reads = frontend.reads \cup Message.reads
                    /\ frontend'.strayed = (frontend.strayed \/ Message.strayed)
                    /\ down' = down
               ELSE Erred(With(IF Message.type \in {"result", "batch_result"} THEN Gained
                               ELSE frontend.edges))
<1> DEFINE f == IF Message.type \in {"result", "batch_result"}
                THEN [frontend EXCEPT !.edges = Extended(@, Message.edges, frontend.attempt)]
                ELSE frontend
           a == Top(F).actions[1]
<1>1. frontend \in Frontends /\ F \in Seq(Frames) /\ F # <<>> /\ Len(F) > 1
  BY DEF Typed, Shaped, Underway, NestedEnds, Received, Nested, F, Frontends
<1>2. f = With(IF Message.type \in {"result", "batch_result"} THEN Gained ELSE frontend.edges)
  <2>1. CASE Message.type \in {"result", "batch_result"}
    BY <1>1, <2>1 DEF Frontends, With, Gained
  <2>2. CASE ~(Message.type \in {"result", "batch_result"})
    BY <1>1, <2>2, WithSame
  <2> QED BY <2>1, <2>2
<1>3. CASE ~Completes
  BY <1>2, <1>3 DEF NestedEnds, Completes, F
<1>4. CASE Completes
  <2> DEFINE stack == Pop(F)
             reads == frontend.reads \cup Message.reads
             strayed == frontend.strayed \/ Message.strayed
             deleted == frontend.deleted \ {a}
             built == frontend.built \cup {a}
             overlay == Returned(a)
             edges == Gained
             ask == Top(F).ask
  <2>1. f = With(edges) BY <1>2, <1>4 DEF Completes
  <2>2. /\ frontend' = [f EXCEPT !.pc = "handle", !.stack = Pop(@), !.ask = ask,
                      !.overlay = [b \in DOMAIN @ \cup {a} |-> IF b = a THEN frontend.attempt ELSE @[b]],
                      !.deleted = @ \ {a}, !.built = @ \cup {a},
                      !.reads = @ \cup Message.reads, !.strayed = @ \/ Message.strayed]
        /\ down' = down
    BY <1>4 DEF NestedEnds, Completes, F
  <2>3. f \in [DOMAIN frontend -> {f[x] : x \in DOMAIN frontend}]
        /\ f.stack = F /\ f.overlay = frontend.overlay /\ f.deleted = frontend.deleted
        /\ f.built = frontend.built /\ f.reads = frontend.reads /\ f.strayed = frontend.strayed
    <3> HIDE DEF edges, f
    <3> QED BY <1>1, <2>1 DEF With, Frontends, F
  <2>4. frontend' = [With(edges) EXCEPT !.pc = "handle", !.stack = stack, !.ask = ask,
                      !.overlay = overlay, !.deleted = deleted, !.built = built,
                      !.reads = reads, !.strayed = strayed]
    <3> HIDE DEF f, ask, a
    <3> QED BY <1>1, <2>1, <2>2, <2>3 DEF Returned, With, Frontends
  <2>5. frontend' = [frontend EXCEPT !.edges = edges, !.pc = "handle", !.stack = stack, !.ask = ask,
                      !.overlay = overlay, !.deleted = deleted, !.built = built,
                      !.reads = reads, !.strayed = strayed]
    <3> HIDE DEF ask, a, stack, overlay, deleted, built, reads, strayed, edges
    <3> QED BY <1>1, <2>4 DEF With, Frontends
  <2>6. Len(stack) = Len(F) - 1 /\ DOMAIN stack = 1..(Len(F) - 1)
        /\ \A i \in 1..(Len(F) - 1) : stack[i] = F[i]
    BY <1>1, PopOf
  <2>7. /\ frontend'.pc = "handle" /\ frontend'.id = frontend.id
        /\ frontend'.greeted = frontend.greeted /\ SameAttempt /\ F' = stack
        /\ frontend'.ask = ask
        /\ frontend'.overlay = overlay /\ frontend'.built = built
        /\ frontend'.edges = edges /\ frontend'.reads = reads
        /\ frontend'.strayed = strayed
    <3> HIDE DEF ask, a, stack, overlay, deleted, built, reads, strayed, edges
    <3> QED BY <1>1, <2>5 DEF Frontends, F, SameAttempt
  <2> QED BY <1>4, <2>2, <2>6, <2>7
<1> QED BY <1>3, <1>4

LEMMA BatchEndsDoes ==
    ASSUME Typed, Shaped, BatchEnds
    PROVE  IF Message.type = "batch_result" /\ Message.id = Top(F).id
              /\ Message.count = Len(Top(F).actions)
           THEN /\ frontend'.pc = "done" /\ frontend'.greeted = frontend.greeted /\ SameAttempt
                /\ frontend'.edges = Gained /\ frontend'.reads = frontend.reads \cup Message.reads
                /\ frontend'.strayed = (frontend.strayed \/ Message.strayed)
                /\ down' = down
           ELSE Erred(With(frontend.edges)) /\ disk' = disk
<1>1. frontend \in Frontends BY DEF Typed
<1>2. CASE Message.type = "batch_result" /\ Message.id = Top(F).id
           /\ Message.count = Len(Top(F).actions)
  <2> DEFINE reads == frontend.reads \cup Message.reads
             strayed == frontend.strayed \/ Message.strayed
             edges == Gained
  <2>1. /\ frontend' = [frontend EXCEPT !.pc = "done", !.stack = <<>>, !.edges = edges,
                                      !.reads = reads, !.strayed = strayed]
        /\ down' = down
    BY <1>1, <1>2 DEF BatchEnds, F, Gained, Frontends
  <2>2. /\ frontend'.pc = "done" /\ frontend'.greeted = frontend.greeted /\ SameAttempt
        /\ frontend'.edges = edges /\ frontend'.reads = reads /\ frontend'.strayed = strayed
    <3> HIDE DEF reads, strayed, edges
    <3> QED BY <1>1, <2>1 DEF Frontends, SameAttempt
  <2> QED BY <1>2, <2>1, <2>2
<1>3. CASE ~(Message.type = "batch_result" /\ Message.id = Top(F).id
             /\ Message.count = Len(Top(F).actions))
  <2>1. Erred(frontend) /\ disk' = disk BY <1>3 DEF BatchEnds, F
  <2> QED BY <1>3, <2>1, WithSame
<1> QED BY <1>2, <1>3

LEMMA NestedEndsKeeps ==
    ASSUME Typed, Shaped, Inv, NestedEnds
    PROVE  Inv'
<1>1. Turn /\ Ladder /\ Posed /\ Cleaned /\ Loop /\ Paired /\ Placed /\ Taken /\ Edged /\ Current /\ Healthy
  BY DEF Inv
<1>2. frontend.pc = "serve" /\ up # <<>> /\ Message.type # "ask" /\ disk' = disk /\ budget' = budget
      /\ Underway /\ Listening /\ Len(F) > 1
  BY DEF NestedEnds, Received, Underway, Listening, Nested, F
<1>3. Received1 BY <1>1, <1>2, Turns DEF NestedEnds, Received, Received1
<1>4. up' = <<>> /\ worker' = worker /\ (Alive => down = <<>> /\ ~Free) BY <1>3 DEF Received1
<1>5. Alive' = Alive /\ S' = S /\ Free' = Free /\ Active' = Active BY <1>4, ActiveSame
<1>6. /\ worker.pc = "busy" => Alive /\ Message.type = "result" /\ Len(S) + 1 >= Len(F)
      /\ worker.pc # "loop"
      /\ budget.faults = MaxFaults => worker.pc = "busy"
  <2>1. worker.pc # "loop"
    <3>1. worker.pc = "loop" => Len(F) = 1 BY <1>2, Heard
    <3>2. Len(F) # 1 BY <1>2, Stacked
    <3> QED BY <3>1, <3>2
  <2>2. worker.pc = "busy" => Alive /\ Message.type = "result" /\ Len(S) + 1 >= Len(F)
    BY <1>2, Heard
  <2>3. budget.faults = MaxFaults => worker.pc \in {"busy", "loop"} BY <1>2, Heard
  <2> QED BY <2>1, <2>2, <2>3
<1> DEFINE n == Len(F)
           a == F[n].actions[1]
<1>7. n \in Nat /\ n > 1 /\ n \in 2..n /\ DOMAIN F = 1..n /\ DOMAIN S = 1..Len(S) /\ Len(S) \in Nat
      /\ Top(F) = F[n] /\ (\A i \in DOMAIN F : F[i].id \in Nat)
      /\ (\A i \in DOMAIN S : S[i].build \in Nat)
      /\ (worker.pc = "busy" => Len(S) > 0 /\ Active = S[Len(S)])
  <2>1. n \in Nat /\ n > 1 BY <1>2, Stacked
  <2>2. n \in 2..n BY <2>1
  <2> QED BY <1>2, <2>1, <2>2, Stacked
<1> HIDE DEF n
<1>8. CASE ~Completes
  <2> DEFINE edges == IF Message.type \in {"result", "batch_result"} THEN Gained ELSE frontend.edges
  <2>1. Erred(With(edges)) BY <1>8, NestedEndsDoes
  <2>2. edges \in Versions /\ Owned \subseteq OwnedIn(edges) /\ (Alive => worker.sent \subseteq OwnedIn(edges))
    <3>1. CASE Message.type \in {"result", "batch_result"}
      BY <1>2, <3>1, GainedOwned
    <3>2. CASE ~(Message.type \in {"result", "batch_result"})
      <4>1. Alive => worker.sent \subseteq Owned BY <1>1, <1>2, <3>2 DEF Edged
      <4> QED BY <3>2, <4>1, WithSame
    <3> QED BY <3>1, <3>2
  <2>3. budget.faults # MaxFaults
    <3> SUFFICES ASSUME budget.faults = MaxFaults PROVE FALSE OBVIOUS
    <3>1. worker.pc = "busy" /\ Message.type = "result" BY <1>6
    <3>2. Len(S) + 1 = Len(F) /\ Message.ok BY <1>1, <1>2, <3>1 DEF Healthy, Outgoing
    <3>3. Message.id = Top(F).id
      BY <1>1, <1>2, <3>1, <3>2 DEF Placed
    <3> QED BY <1>8, <3>1, <3>2, <3>3 DEF Completes
  <2> HIDE DEF edges
  <2> QED BY <1>2, <1>3, <1>6, <2>1, <2>2, <2>3, ErredKeeps
<1>9. CASE Completes
  <2>1. /\ frontend'.pc = "handle" /\ frontend'.id = frontend.id
        /\ frontend'.greeted = frontend.greeted /\ SameAttempt
        /\ Len(F') = n - 1 /\ DOMAIN F' = 1..(n - 1)
        /\ \A i \in 1..(n - 1) : F'[i] = F[i]
        /\ frontend'.ask = F[n].ask
        /\ frontend'.overlay = Returned(a) /\ frontend'.built = frontend.built \cup {a}
        /\ frontend'.edges = Gained /\ frontend'.reads = frontend.reads \cup Message.reads
        /\ frontend'.strayed = (frontend.strayed \/ Message.strayed)
        /\ down' = down
    BY <1>7, <1>9, NestedEndsDoes DEF n
  <2>2. Message.type = "result" /\ Message.id = F[n].id /\ Message.ok
    BY <1>7, <1>9 DEF Completes
  <2>3. frontend'.attempt = frontend.attempt /\ frontend'.batch = frontend.batch
        /\ frontend'.floor = frontend.floor
    BY <2>1 DEF SameAttempt
  <2>4. Underway' /\ ~Listening' BY <2>1 DEF Underway, Listening
  <2>5. Turn' BY <1>1, <1>3, <2>1, <2>4, FrontendTurns
  <2>6. Ladder'
    <3>1. \A i \in DOMAIN F' : i \in DOMAIN F /\ F'[i] = F[i] BY <1>7, <2>1
    <3>2. F'[1] = F[1] /\ \A i \in 2..Len(F') : i \in 2..Len(F) /\ F'[i] = F[i]
      BY <1>7, <2>1 DEF n
    <3>3. frontend'.ask.phase <= Lead
      <4>1. \A i \in 2..Len(F) : F[i].ask.phase <= Lead BY <1>1, <1>2 DEF Ladder
      <4>2. n \in 2..Len(F) BY <1>7 DEF n
      <4> QED BY <2>1, <4>1, <4>2
    <3> QED BY <1>1, <1>2, <2>1, <2>3, <3>1, <3>2, <3>3 DEF Ladder, Lazy, Lead
  <2>7. Posed' BY <1>1, <1>4, <1>5, <2>1 DEF Posed
  <2>8. Cleaned' BY <1>1, <1>4, <1>5, <2>1 DEF Cleaned
  <2>9. Loop' BY <1>4, <1>6 DEF Loop
  <2>10. worker.pc = "busy" => Len(S) = n - 1 /\ n - 1 \in DOMAIN S /\ F[n].ask = Active.call
    <3> SUFFICES ASSUME worker.pc = "busy"
                 PROVE  Len(S) = n - 1 /\ n - 1 \in DOMAIN S /\ F[n].ask = Active.call
      OBVIOUS
    <3>1. Len(S) + 1 >= n BY <1>6 DEF n
    <3>2. ~(Len(S) + 1 > n)
      <4> SUFFICES ASSUME Len(S) + 1 > n PROVE FALSE OBVIOUS
      <4>1. Beyond(Message.id) BY <1>1, <1>2, <1>6 DEF Placed, n
      <4>2. F[n].id < Message.id /\ F[n].id \in Nat BY <1>7, <4>1 DEF Beyond
      <4> QED BY <2>2, <4>2
    <3>3. Len(S) = n - 1 BY <1>7, <3>1, <3>2
    <3>4. n - 1 \in DOMAIN S /\ n - 1 < n /\ n - 1 + 1 = n BY <1>7, <3>3
    <3>5. F[n].ask = S[n - 1].call BY <1>1, <1>2, <3>4 DEF Paired, n
    <3> QED BY <1>7, <3>3, <3>4, <3>5
  <2>11. Paired'
    <3> SUFFICES ASSUME worker.pc = "busy" PROVE Paired' BY <1>4 DEF Paired
    <3>1. /\ worker.batch.id = F[1].id /\ worker.batch.actions = F[1].actions
          /\ ~worker.batch.strayed /\ F'[1] = F[1]
      BY <1>1, <1>2, <1>7, <2>1 DEF Paired
    <3>2. ASSUME NEW i \in DOMAIN S
          PROVE  /\ i < n - 1 => F'[i + 1].ask = S[i].call
                 /\ ~S[i].strayed /\ i \in 1..(n - 1)
                 /\ i > 1 => /\ S[i].build < frontend.id /\ Phase[S[i].action] < Lead
                             /\ S[i].build = F'[i].id /\ S[i].action = F'[i].actions[1]
      <4>1. i \in 1..(n - 1) /\ i < n BY <1>7, <2>10
      <4>2. /\ i < n => F[i + 1].ask = S[i].call
            /\ i <= n => ~S[i].strayed
            /\ i > 1 => /\ S[i].build < frontend.id /\ Phase[S[i].action] < Lead
                        /\ i <= n => S[i].build = F[i].id /\ S[i].action = F[i].actions[1]
        BY <1>1, <1>2 DEF Paired, n
      <4> QED BY <1>7, <2>1, <4>1, <4>2
    <3>3. \A i \in 1..(n - 1) : ~(i > n - 1) BY <1>7
    <3> QED BY <1>2, <1>4, <1>5, <2>1, <2>3, <3>1, <3>2, <3>3 DEF Paired, Lead
  <2>12. Placed' BY <1>4, <1>5, <1>6, <2>1, <2>10 DEF Placed
  <2>13. ~Message.strayed BY <1>1, <1>2, <1>7, <2>2 DEF Taken, Outgoing, Nested, F
  <2>14. ~frontend.strayed BY <1>1 DEF Taken
  <2>15. ~frontend'.strayed BY <2>1, <2>13, <2>14
  <2>16. Taken' BY <2>1, <2>15 DEF Taken
  <2>17. Owned' = OwnedIn(Gained) BY <2>1, <2>3 DEF Owned, OwnedIn
  <2>18. frontend.reads \cup Message.reads \subseteq OwnedIn(Gained)
         /\ (Alive => worker.sent \subseteq OwnedIn(Gained))
    BY <1>2, <2>2, GainedOwned
  <2>19. Edged' BY <1>1, <1>4, <1>5, <2>1, <2>17, <2>18 DEF Edged
  <2>20. Current'
    <3>1. TrueToView'
      <4>1. TrueToView BY <1>1 DEF Current
      <4> QED BY <1>2, <1>4, <2>3, <4>1 DEF TrueToView
    <3>2. Lazy(a) BY <1>1, <1>2, <1>7 DEF Ladder, n
    <3>3. DOMAIN Returned(a) = DOMAIN frontend.overlay \cup {a}
          /\ \A b \in DOMAIN Returned(a) :
                Returned(a)[b] = IF b = a THEN frontend.attempt ELSE frontend.overlay[b]
      BY DEF Returned
    <3>4. \A b \in DOMAIN frontend'.overlay : Lazy(b) /\ frontend'.overlay[b] = frontend.attempt
      BY <1>1, <1>2, <2>1, <3>2, <3>3 DEF Current
    <3>5. frontend'.built \subseteq DOMAIN frontend'.overlay
      BY <1>1, <1>2, <2>1, <3>3 DEF Current
    <3>6. Alive => ~Incoming("answer")' BY <1>4, <2>1 DEF Incoming
    <3> QED BY <1>1, <1>2, <1>4, <1>5, <2>3, <3>1, <3>4, <3>5, <3>6 DEF Current, Fresh, Lazy
  <2>21. Healthy'
    <3> SUFFICES ASSUME budget'.faults = MaxFaults PROVE Healthy' BY DEF Healthy
    <3>1. Alive /\ \A i \in DOMAIN S : ~S[i].upset BY <1>1, <1>2 DEF Healthy
    <3>2. ~Outgoing("ask")' /\ ~Outgoing("result")' /\ ~Free' /\ ~Incoming("answer")'
      BY <1>4, <1>5, <2>1, <3>1 DEF Outgoing, Incoming
    <3> QED BY <1>4, <1>5, <1>6, <2>1, <2>4, <3>1, <3>2 DEF Healthy
  <2> QED BY <2>5, <2>6, <2>7, <2>8, <2>9, <2>11, <2>12, <2>16, <2>19, <2>20, <2>21 DEF Inv
<1> QED BY <1>8, <1>9

LEMMA BatchEndsKeeps ==
    ASSUME Typed, Shaped, Inv, BatchEnds
    PROVE  Inv'
<1>1. Turn /\ Loop /\ Placed /\ Taken /\ Edged /\ Healthy
  BY DEF Inv
<1>2. frontend.pc = "serve" /\ up # <<>> /\ Message.type # "ask" /\ budget' = budget
      /\ Underway /\ Listening /\ ~Nested
  BY DEF BatchEnds, Received, Underway, Listening
<1>3. Received1 BY <1>1, <1>2, Turns DEF BatchEnds, Received, Received1
<1>4. up' = <<>> /\ worker' = worker /\ (Alive => down = <<>> /\ ~Free) BY <1>3 DEF Received1
<1>5. Alive' = Alive /\ S' = S /\ Free' = Free /\ Active' = Active BY <1>4, ActiveSame
<1>6. /\ worker.pc = "busy" => Message.type = "result" /\ Len(S) + 1 >= Len(F)
      /\ worker.pc = "loop" => Message.type \in {"batch_result", "error"}
      /\ budget.faults = MaxFaults => worker.pc \in {"busy", "loop"}
  BY <1>2, Heard
<1>7. Len(F) = 1 /\ Top(F) = F[1] /\ (worker.pc = "busy" => Len(S) \in Nat /\ Len(S) > 0)
  <2>1. Len(F) \in Nat /\ Len(F) > 0 /\ Top(F) = F[Len(F)] BY <1>2, Stacked
  <2>2. ~(Len(F) > 1) BY <1>2 DEF Nested, F
  <2>3. Len(F) = 1 BY <2>1, <2>2
  <2> QED BY <2>1, <2>3, Stacked
<1>8. CASE Message.type = "batch_result" /\ Message.id = Top(F).id /\ Message.count = Len(Top(F).actions)
  <2>1. /\ frontend'.pc = "done" /\ frontend'.greeted = frontend.greeted /\ SameAttempt
        /\ frontend'.edges = Gained /\ frontend'.reads = frontend.reads \cup Message.reads
        /\ frontend'.strayed = (frontend.strayed \/ Message.strayed)
        /\ down' = down
    BY <1>8, BatchEndsDoes
  <2>2. ~frontend.strayed /\ ~Message.strayed BY <1>1, <1>2, <1>8 DEF Taken, Outgoing
  <2>3. ~frontend'.strayed BY <2>1, <2>2
  <2>4. frontend'.reads \subseteq Owned'
    <3>1. Owned' = OwnedIn(Gained) BY <2>1 DEF Owned, OwnedIn, SameAttempt
    <3>2. frontend.reads \cup Message.reads \subseteq OwnedIn(Gained) BY <1>2, <1>8, GainedOwned
    <3> QED BY <2>1, <3>1, <3>2
  <2>5. Healthy'
    <3> SUFFICES ASSUME budget'.faults = MaxFaults PROVE Healthy' BY DEF Healthy
    <3>1. Alive /\ \A i \in DOMAIN S : ~S[i].upset BY <1>1, <1>2 DEF Healthy
    <3>2. worker.pc = "loop" BY <1>2, <1>6, <1>8
    <3>3. ~Underway' BY <2>1 DEF Underway
    <3> QED BY <1>4, <1>5, <2>1, <3>1, <3>2, <3>3 DEF Healthy
  <2> QED BY <1>3, <2>1, <2>3, <2>4, <2>5, EndingKeeps
<1>9. CASE ~(Message.type = "batch_result" /\ Message.id = Top(F).id
             /\ Message.count = Len(Top(F).actions))
  <2>1. Erred(With(frontend.edges)) /\ disk' = disk BY <1>9, BatchEndsDoes
  <2>2. budget.faults # MaxFaults
    <3> SUFFICES ASSUME budget.faults = MaxFaults PROVE FALSE OBVIOUS
    <3>1. worker.pc # "busy"
      <4> SUFFICES ASSUME worker.pc = "busy" PROVE FALSE OBVIOUS
      <4>1. Len(S) + 1 = Len(F) BY <1>1, <1>2, <1>6 DEF Healthy, Outgoing
      <4> QED BY <1>7, <4>1
    <3>2. worker.pc = "loop" BY <1>6, <3>1
    <3> QED BY <1>1, <1>2, <1>7, <1>9, <3>2 DEF Healthy
  <2>3. worker.pc = "busy" => Len(S) + 1 >= Len(F) BY <1>6
  <2>4. CASE Message.type \in {"result", "batch_result"}
    <3>1. ~(Len(F) > 1) BY <1>7
    <3>2. frontend'.pc = "failed" /\ down' = down /\ frontend'.greeted = frontend.greeted
          /\ frontend'.strayed = frontend.strayed
      BY <1>2, <2>1, <3>1, WithSame, ErredDoes
    <3>3. ~frontend'.strayed BY <1>1, <3>2 DEF Taken
    <3>4. Healthy' BY <1>2, <2>2 DEF Healthy
    <3> QED BY <1>3, <3>2, <3>3, <3>4, EndingKeeps
  <2>5. CASE ~(Message.type \in {"result", "batch_result"})
    <3>1. Alive => worker.sent \subseteq Owned BY <1>1, <1>2, <2>5 DEF Edged
    <3> QED BY <1>2, <1>3, <2>1, <2>2, <2>3, <3>1, WithSame, ErredKeeps
  <2> QED BY <2>4, <2>5
<1> QED BY <1>8, <1>9

LEMMA EofKeeps ==
    ASSUME Typed, Shaped, Inv, Eof
    PROVE  Inv'
<1>1. Turn /\ Taken /\ Healthy BY DEF Inv
<1>2. ~Alive /\ up = <<>> /\ Received1 /\ down' = down /\ budget' = budget
  BY DEF Eof, Alive, Received1
<1>3. frontend'.pc = "failed" /\ frontend'.greeted = frontend.greeted
      /\ frontend'.strayed = frontend.strayed
  BY DEF Eof, Typed, Frontends
<1>4. Healthy' BY <1>1, <1>2 DEF Healthy
<1>5. ~frontend'.strayed BY <1>1, <1>3 DEF Taken
<1> QED BY <1>2, <1>3, <1>4, <1>5, EndingKeeps

----------------------------------------------------------------------------
(* The steps of the worker, which leave the frontend and the files alone.    *)

LEMMA FrontendStays ==
    ASSUME frontend' = frontend
    PROVE  /\ F' = F /\ Underway' = Underway /\ Listening' = Listening /\ Owned' = Owned /\ Lead' = Lead
           /\ Ladder' = Ladder /\ Nested' = Nested
           /\ \A a : Lazy(a)' = Lazy(a)
           /\ \A n : Beyond(n)' = Beyond(n)
           /\ \A a, content : Fresh(a, content)' = (content >= frontend.floor[a])
BY DEF F, Underway, Listening, Owned, Lead, Ladder, Lazy, Nested, Top, Beyond, Fresh

\* What a run may have been told, as TrueToView has it.
Truthful(run) == \A a \in DOMAIN run.told : /\ a \in Actions => Phase[a] < Phase[run.action]
                                            /\ run.told[a] >= frontend.floor[a]

LEMMA Truth == TrueToView <=> (Underway => \A i \in DOMAIN S : Truthful(S[i]))
BY DEF TrueToView, Truthful, S

LEMMA TruthNext ==
    ASSUME frontend' = frontend, Underway => \A i \in DOMAIN S' : Truthful(S'[i])
    PROVE  TrueToView'
<1>1. Underway' = Underway BY FrontendStays
<1>2. Underway => \A i \in DOMAIN worker'.stack : \A a \in DOMAIN worker'.stack[i].told :
        /\ a \in Actions => Phase[a] < Phase[worker'.stack[i].action]
        /\ worker'.stack[i].told[a] >= frontend'.floor[a]
  BY DEF Truthful, S
<1> QED BY <1>1, <1>2 DEF TrueToView

LEMMA Busy ==
    ASSUME Typed, Shaped, worker.pc = "busy"
    PROVE  /\ Len(S) \in Nat /\ Len(S) > 0 /\ DOMAIN S = 1..Len(S) /\ Active = S[Len(S)]
           /\ Len(S) \in DOMAIN S /\ 1 \in DOMAIN S /\ Len(F) \in Nat /\ Alive
<1>1. Len(S) \in Nat /\ Len(S) > 0 /\ DOMAIN S = 1..Len(S) /\ Active = S[Len(S)] /\ Len(F) \in Nat
  BY Stacked
<1>2. Len(S) \in 1..Len(S) /\ 1 \in 1..Len(S) BY <1>1
<1> QED BY <1>1, <1>2 DEF Alive

\* The running action goes on: it waits for an answer that it has asked for, or for nothing.
LEMMA GoesOn ==
    ASSUME Typed, Shaped, Inv, frontend' = frontend, disk' = disk, budget' = budget,
           worker.pc = "busy", worker'.pc = "busy", worker'.started = worker.started,
           worker'.batch = worker.batch, worker'.sent = worker.sent, worker'.entry = worker.entry,
           Listening, up = <<>>, down' = <<>>,
           NEW run \in Runs, run.action = Active.action, run.build = Active.build,
           run.blocked = Active.blocked,
           \/ run.call = None /\ up' = <<>>
           \/ /\ run.call \in Call /\ run.call.build = run.build /\ run.call.phase = Phase[run.action]
              /\ up' # <<>> /\ Len(up') = 1 /\ Message' = run.call,
           Len(S') = Len(S), S'[Len(S)] = run, Active' = run, \A i \in 1..(Len(S) - 1) : S'[i] = S[i],
           DOMAIN S' = DOMAIN S,
           Underway => /\ Len(S) >= Len(F)
                       /\ Len(S) = Len(F) => ~run.strayed
                       /\ \A a \in DOMAIN worker'.cache : Fresh(a, worker'.cache[a])
                       /\ Truthful(run),
           budget.faults = MaxFaults => ~run.upset /\ (Underway => Len(S) = Len(F))
    PROVE  Inv'
<1>1. Turn /\ Ladder /\ Posed /\ Cleaned /\ Loop /\ Paired /\ Placed /\ Taken /\ Edged /\ Current /\ Healthy
  BY DEF Inv
<1> DEFINE m == Len(S)
<1>2. m \in Nat /\ m > 0 /\ DOMAIN S = 1..m /\ DOMAIN S' = 1..m /\ Active = S[m] /\ Len(F) \in Nat
      /\ m \in DOMAIN S /\ 1 \in DOMAIN S
  BY Busy
<1>3. Len(S') = m /\ S'[m] = run /\ \A i \in 1..(m - 1) : S'[i] = S[i]
  OBVIOUS
<1> HIDE DEF m
<1>4. \A i \in DOMAIN S : i # m => S'[i] = S[i] BY <1>2, <1>3
<1>5. Alive /\ Alive' /\ Underway' = Underway /\ Listening' = Listening /\ F' = F
  BY FrontendStays DEF Alive
<1>6. Free' <=> run.call = None BY DEF Free
<1>7. run.call # None <=> up' # <<>>
  BY DialogueAssumption
<1>8. up' # <<>> => Len(up') = 1 /\ Message' = run.call /\ Message'.type = "ask"
                    /\ run.call.build = run.build /\ run.call.phase = Phase[run.action]
  BY DEF Call
<1>9. Turn'
  <2>1. \A i \in 1..(Len(S') - 1) : S'[i].call # None BY <1>1, <1>2, <1>3 DEF Turn, m
  <2> QED BY <1>5, <1>6, <1>7, <1>8, <2>1 DEF Turn
<1>10. Ladder' BY <1>1, FrontendStays
<1>11. Posed'
  <2>1. DOMAIN <<>> = {} BY NoVersions
  <2>2. \A i \in DOMAIN S' : /\ Later(S'[i].action) \subseteq S'[i].blocked
                             /\ S'[i].call # None => /\ S'[i].call.build = S'[i].build
                                                     /\ S'[i].call.phase = Phase[S'[i].action]
    <3> TAKE i \in DOMAIN S'
    <3>1. CASE i = m
      <4>1. Later(Active.action) \subseteq Active.blocked BY <1>1, <1>2 DEF Posed
      <4> QED BY <1>3, <1>7, <1>8, <3>1, <4>1
    <3>2. CASE i # m BY <1>1, <1>2, <1>4, <3>2 DEF Posed
    <3> QED BY <3>1, <3>2
  <2>3. S'[1].build = S[1].build /\ S'[1].action = S[1].action
    BY <1>2, <1>3, <1>4
  <2> QED BY <1>1, <2>1, <2>2, <2>3 DEF Posed
<1>12. Cleaned'
  <2>1. ~Outgoing("ack")' BY <1>8 DEF Outgoing
  <2>2. ~Incoming("reset")' BY DEF Incoming
  <2> QED BY <1>1, <1>5, <2>1, <2>2 DEF Cleaned
<1>13. Loop' BY DEF Loop
<1>14. Paired'
  <2> SUFFICES ASSUME Underway PROVE Paired' BY <1>5 DEF Paired
  <2>1. ASSUME NEW i \in DOMAIN S
        PROVE  /\ i < Len(F) => F[i + 1].ask = S'[i].call
               /\ i <= Len(F) => ~S'[i].strayed
               /\ i > 1 => /\ S'[i].build < frontend.id /\ Phase[S'[i].action] < Lead
                           /\ i <= Len(F) => S'[i].build = F[i].id /\ S'[i].action = F[i].actions[1]
                           /\ i > Len(F) => Beyond(S'[i].build)
    <3>1. CASE i # m BY <1>1, <1>4, <3>1 DEF Paired
    <3>2. CASE i = m
      <4>1. m >= Len(F) /\ (m = Len(F) => ~run.strayed) BY DEF m
      <4>2. S'[i] = run /\ S'[i].build = S[i].build /\ S'[i].action = S[i].action BY <1>2, <1>3, <3>2
      <4>3. i <= Len(F) => ~S'[i].strayed BY <1>2, <3>2, <4>1, <4>2
      <4>4. ~(i < Len(F)) BY <1>2, <3>2, <4>1
      <4> QED BY <1>1, <4>2, <4>3, <4>4 DEF Paired
    <3> QED BY <3>1, <3>2
  <2> QED BY <1>1, <1>5, <2>1, FrontendStays DEF Paired
<1>15. Placed'
  <2> SUFFICES ASSUME Underway PROVE Placed' BY <1>5 DEF Placed
  <2>1. frontend'.pc # "handle" BY DEF Listening
  <2>2. Len(S') >= Len(F') /\ Active' = run BY <1>3, <1>5
  <2> QED BY <1>5, <1>8, <2>1, <2>2 DEF Placed
<1>16. Taken' BY <1>1, <1>8 DEF Taken, Outgoing
<1>17. Edged'
  <2>1. Underway => worker.sent \subseteq Owned BY <1>1, <1>5 DEF Edged
  <2> QED BY <1>1, <1>5, <2>1, FrontendStays DEF Edged
<1>18. Current'
  <2>1. Underway => \A i \in DOMAIN S' : Truthful(S'[i])
    <3>1. Underway => \A i \in DOMAIN S : Truthful(S[i]) BY <1>1, Truth DEF Current
    <3> QED BY <1>2, <1>3, <1>4, <3>1
  <2>2. TrueToView' BY <2>1, TruthNext
  <2>3. ~Incoming("answer")' BY DEF Incoming
  <2> QED BY <1>1, <1>5, <2>2, <2>3, FrontendStays DEF Current, Fresh
<1>19. Healthy'
  <2> SUFFICES ASSUME budget.faults = MaxFaults PROVE Healthy' BY DEF Healthy
  <2>1. Underway BY <1>1 DEF Healthy
  <2>2. \A i \in DOMAIN S' : ~S'[i].upset
    <3>1. \A i \in DOMAIN S : ~S[i].upset BY <1>1 DEF Healthy
    <3> QED BY <1>2, <1>3, <1>4, <3>1
  <2>3. ~Incoming("answer")' /\ ~Outgoing("result")' BY <1>8 DEF Incoming, Outgoing
  <2>4. frontend'.pc # "greet" /\ frontend'.pc # "failed" BY <2>1 DEF Underway
  <2> QED BY <1>3, <1>5, <2>1, <2>2, <2>3, <2>4 DEF Healthy, m
<1> QED BY <1>9, <1>10, <1>11, <1>12, <1>13, <1>14, <1>15, <1>16, <1>17, <1>18, <1>19 DEF Inv

\* Where the running action stands, as the frontend's stack has it.
Standing ==
    /\ Underway => /\ Len(S) = Len(F) => ~Active.strayed
                   /\ \A a \in DOMAIN worker.cache : Fresh(a, worker.cache[a])
                   /\ Truthful(Active)
    /\ budget.faults = MaxFaults => Underway /\ ~Active.upset

LEMMA Stands ==
    ASSUME Typed, Shaped, Inv, worker.pc = "busy"
    PROVE  Standing
<1>1. Paired /\ Current /\ Healthy BY DEF Inv
<1>2. Len(S) \in DOMAIN S /\ Active = S[Len(S)] /\ Alive /\ Len(S) \in Nat BY Busy
<1>3. Underway => Truthful(Active) BY <1>1, <1>2, Truth DEF Current
<1>4. Underway /\ Len(S) = Len(F) => ~Active.strayed BY <1>1, <1>2 DEF Paired
<1>5. Underway => \A a \in DOMAIN worker.cache : Fresh(a, worker.cache[a])
  BY <1>1, <1>2 DEF Current
<1>6. budget.faults = MaxFaults => Underway /\ ~Active.upset
  BY <1>1, <1>2 DEF Healthy
<1> QED BY <1>3, <1>4, <1>5, <1>6 DEF Standing

LEMMA AtWork ==
    ASSUME Typed, Shaped, Inv, Free
    PROVE  /\ worker.pc = "busy" /\ Listening /\ up = <<>> /\ down = <<>> /\ Active \in Runs
           /\ Active.call = None
           /\ Standing
           /\ Underway => Len(S) >= Len(F) /\ worker.sent \subseteq Owned
           /\ budget.faults = MaxFaults => Len(S) = Len(F)
<1>1. Turn /\ Placed /\ Edged /\ Healthy BY DEF Inv
<1>2. worker.pc = "busy" /\ Active.call = None BY DEF Free
<1>3. Listening /\ up = <<>> /\ down = <<>> /\ Alive BY <1>1, Turns
<1>4. Standing /\ Active \in Runs BY <1>2, Stands, ActiveRun
<1>5. Underway => Len(S) >= Len(F) BY <1>1, <1>2 DEF Placed
<1>6. Underway => worker.sent \subseteq Owned BY <1>1, <1>3 DEF Edged
<1>7. budget.faults = MaxFaults => Len(S) = Len(F)
  BY <1>1, <1>2, <1>4 DEF Healthy, Standing
<1> QED BY <1>2, <1>3, <1>4, <1>5, <1>6, <1>7

LEMMA AskKeeps ==
    ASSUME Typed, Shaped, Inv, NEW op \in Operations, NEW assets \in SUBSET Assets, Ask(op, assets)
    PROVE  Inv'
<1>1. Free /\ disk' = disk /\ frontend' = frontend /\ down' = down /\ budget' = budget BY DEF Ask
<1>2. /\ worker.pc = "busy" /\ Listening /\ up = <<>> /\ down = <<>> /\ Active \in Runs
      /\ Standing
      /\ Underway => Len(S) >= Len(F) /\ worker.sent \subseteq Owned
      /\ budget.faults = MaxFaults => Len(S) = Len(F)
  BY <1>1, AtWork
<1> DEFINE call == [type |-> "ask", id |-> Active.calls, build |-> Active.build, op |-> op,
                    assets |-> assets, phase |-> Phase[Active.action]]
           run == [Active EXCEPT !.call = call, !.calls = Active.calls + 1]
<1>3. call \in Call /\ call \in Messages
  <2>1. call \in Call BY <1>2, DialogueAssumption DEF Call, Runs
  <2> HIDE DEF call
  <2> QED BY <2>1 DEF Messages
<1>4. call.build = Active.build /\ call.phase = Phase[Active.action]
  OBVIOUS
<1>5. Send(call) /\ Act(run)
  BY <1>2 DEF Ask, Runs
<1> HIDE DEF call
<1>6. /\ run \in Runs /\ run.action = Active.action /\ run.build = Active.build
      /\ run.blocked = Active.blocked /\ run.call = call /\ run.strayed = Active.strayed
      /\ run.upset = Active.upset /\ run.told = Active.told
  <2>1. Active.calls + 1 \in Nat BY <1>2 DEF Runs
  <2> QED BY <1>2, <1>3, <2>1 DEF Runs
<1> HIDE DEF run
<1>7. up' # <<>> /\ Len(up') = 1 /\ Message' = call
  <2>1. up' # <<>> /\ Len(up') = Len(up) + 1 /\ Message' = call
    BY <1>2, <1>3, <1>5, SendDoes
  <2>2. Len(<<>>) = 0 OBVIOUS
  <2> QED BY <1>2, <2>1, <2>2
<1>8. /\ worker'.pc = "busy" /\ worker'.started = worker.started
      /\ worker'.batch = worker.batch /\ worker'.cache = worker.cache
      /\ worker'.sent = worker.sent /\ worker'.entry = worker.entry
      /\ S' \in Seq(Runs) /\ Len(S') = Len(S) /\ Active' = run /\ S'[Len(S)] = run
      /\ \A i \in 1..(Len(S) - 1) : S'[i] = S[i]
  BY <1>2, <1>5, <1>6, ActDoes
<1>9. DOMAIN S' = DOMAIN S BY <1>2, <1>8, Busy
<1>10. Truthful(Active) => Truthful(run) BY <1>6 DEF Truthful
<1> QED BY <1>1, <1>2, <1>3, <1>4, <1>6, <1>7, <1>8, <1>9, <1>10, GoesOn DEF Standing

LEMMA RecallKeeps ==
    ASSUME Typed, Shaped, Inv, NEW a \in Assets, Recall(a)
    PROVE  Inv'
<1>1. Free /\ disk' = disk /\ frontend' = frontend /\ down' = down /\ up' = up /\ budget' = budget
  BY DEF Recall
<1>2. /\ worker.pc = "busy" /\ Listening /\ up = <<>> /\ down = <<>> /\ Active \in Runs
      /\ Active.call = None /\ Standing
      /\ Underway => Len(S) >= Len(F) /\ worker.sent \subseteq Owned
      /\ budget.faults = MaxFaults => Len(S) = Len(F)
  BY <1>1, AtWork
<1> DEFINE told == [b \in DOMAIN Active.told \cup {a} |->
                      IF b = a THEN worker.cache[a] ELSE Active.told[b]]
           run == [Active EXCEPT !.told = told]
<1>3. worker.cache \in Versions /\ worker.cache[a] \in Nat /\ a \in DOMAIN worker.cache
      /\ a \notin Active.blocked
  <2>1. worker.cache \in Versions BY DEF Typed, Workers
  <2> QED BY <2>1, VersionsAre DEF Recall
<1>4. told \in Versions
  <2> DEFINE D == DOMAIN Active.told \cup {a}
  <2>1. Active.told \in Versions BY <1>2 DEF Runs
  <2>2. D \in SUBSET Assets /\ \A b \in DOMAIN Active.told : Active.told[b] \in Nat
    BY <2>1, VersionsAre
  <2>3. told \in [D -> Nat] BY <1>3, <2>2
  <2> HIDE DEF D
  <2> QED BY <2>2, <2>3 DEF Versions
<1>5. Act(run)
  BY <1>2 DEF Recall, Runs
<1>6. DOMAIN told = DOMAIN Active.told \cup {a}
      /\ \A b \in DOMAIN told : told[b] = IF b = a THEN worker.cache[a] ELSE Active.told[b]
  OBVIOUS
<1> HIDE DEF told
<1>7. /\ run \in Runs /\ run.action = Active.action /\ run.build = Active.build
      /\ run.blocked = Active.blocked /\ run.call = None /\ run.strayed = Active.strayed
      /\ run.upset = Active.upset /\ run.told = told
  BY <1>2, <1>4 DEF Runs
<1> HIDE DEF run
<1>8. /\ worker'.pc = "busy" /\ worker'.started = worker.started
      /\ worker'.batch = worker.batch /\ worker'.cache = worker.cache
      /\ worker'.sent = worker.sent /\ worker'.entry = worker.entry
      /\ S' \in Seq(Runs) /\ Len(S') = Len(S) /\ Active' = run /\ S'[Len(S)] = run
      /\ \A i \in 1..(Len(S) - 1) : S'[i] = S[i]
  BY <1>2, <1>5, <1>7, ActDoes
<1>9. DOMAIN S' = DOMAIN S BY <1>2, <1>8, Busy
<1>10. Underway => Truthful(run)
  <2> SUFFICES ASSUME Underway PROVE Truthful(run) OBVIOUS
  <2>1. Truthful(Active) /\ Fresh(a, worker.cache[a]) BY <1>2, <1>3 DEF Standing
  <2>2. a \in Actions => Phase[a] < Phase[Active.action]
    <3>1. Later(Active.action) \subseteq Active.blocked BY <1>2, Busy DEF Inv, Posed
    <3>2. a \in Actions => ~(Phase[a] >= Phase[Active.action]) BY <1>3, <3>1 DEF Later
    <3>3. a \in Actions => Phase[a] \in Nat /\ Phase[Active.action] \in Nat
      BY <1>2, DialogueAssumption DEF Runs
    <3> QED BY <3>2, <3>3
  <2> QED BY <1>6, <1>7, <2>1, <2>2 DEF Truthful, Fresh
<1> QED BY <1>1, <1>2, <1>7, <1>8, <1>9, <1>10, GoesOn DEF Standing

\* A message comes to a worker whose running action waits.
LEMMA Waits ==
    ASSUME Typed, Shaped, Inv, Called
    PROVE  /\ worker.pc = "busy" /\ Listening /\ up = <<>> /\ down' = <<>> /\ Active \in Runs
           /\ Order \in Orders /\ down # <<>> /\ Active.call \in Call
           /\ Standing
           /\ Underway => Len(S) + 1 >= Len(F)
           /\ Underway /\ Order.type # "build" =>
                 /\ Order.type = "answer" /\ Len(S) >= Len(F) /\ Order.id = Order.to.id
                 /\ Order.ok => Len(S) = Len(F)
                 /\ Len(S) = Len(F) => Order.to = Active.call
           /\ Underway /\ Order.type = "build" =>
                 Len(S) + 1 = Len(F) /\ Order.id = Top(F).id /\ Order.actions = Top(F).actions
           /\ budget.faults = MaxFaults /\ Order.type = "answer" =>
                 Len(S) = Len(F) /\ (Order.ok \/ Order.to.op = "resolve_assets")
<1>1. Turn /\ Placed /\ Healthy BY DEF Inv
<1>2. worker.pc = "busy" /\ Active.call # None /\ down # <<>> /\ down' = Tail(down) BY DEF Called
<1>3. Alive /\ Active = S[Len(S)] /\ Len(S) \in Nat /\ Len(F) \in Nat BY <1>2, Busy
<1>4. Listening /\ up = <<>> /\ down' = <<>> BY <1>1, <1>2, <1>3, Turns
<1>5. Standing /\ Active \in Runs BY <1>2, Stands, ActiveRun
<1>6. Active.call \in Call BY <1>2, <1>5 DEF Runs
<1>7. Order \in Orders BY <1>2, Pipes DEF Typed
<1>8. Underway /\ Order.type # "build" =>
        /\ Order.type = "answer" /\ Len(S) >= Len(F) /\ Order.id = Order.to.id
        /\ Order.to = S[Len(F)].call /\ (Order.ok => Len(S) = Len(F))
  BY <1>1, <1>2 DEF Placed
<1>9. Underway /\ Order.type = "build" =>
        Len(S) + 1 = Len(F) /\ Order.id = Top(F).id /\ Order.actions = Top(F).actions
  BY <1>1, <1>2 DEF Placed
<1>10. Underway /\ Order.type # "build" /\ Len(S) = Len(F) => Order.to = Active.call
  BY <1>3, <1>8
<1>11. Underway => Len(S) + 1 >= Len(F) BY <1>3, <1>8, <1>9
<1>12. budget.faults = MaxFaults /\ Order.type = "answer" =>
         Len(S) = Len(F) /\ (Order.ok \/ Order.to.op = "resolve_assets")
  <2>1. budget.faults = MaxFaults => Underway BY <1>5 DEF Standing
  <2> QED BY <1>1, <1>2, <2>1 DEF Healthy, Incoming
<1> QED BY <1>2, <1>4, <1>5, <1>6, <1>7, <1>8, <1>9, <1>10, <1>11, <1>12

LEMMA AnswerThrowsKeeps ==
    ASSUME Typed, Shaped, Inv, AnswerThrows
    PROVE  Inv'
<1>1. Called /\ Order.type # "build" /\ disk' = disk /\ frontend' = frontend /\ up' = up
      /\ budget' = budget /\ ~(Answers /\ Order.ok)
  BY DEF AnswerThrows
<1>2. /\ worker.pc = "busy" /\ Listening /\ up = <<>> /\ down' = <<>> /\ Active \in Runs
      /\ Standing
      /\ Underway => /\ Order.type = "answer" /\ Len(S) >= Len(F) /\ Order.id = Order.to.id
                     /\ Len(S) = Len(F) => Order.to = Active.call
      /\ budget.faults = MaxFaults /\ Order.type = "answer" =>
            Len(S) = Len(F) /\ (Order.ok \/ Order.to.op = "resolve_assets")
  BY <1>1, Waits
<1>3. Dismayed \in Runs /\ Act(Dismayed) BY AnswerThrowsTyped
<1>4. /\ Dismayed.action = Active.action /\ Dismayed.build = Active.build
      /\ Dismayed.blocked = Active.blocked /\ Dismayed.call = None
      /\ Dismayed.told = Active.told
      /\ Dismayed.strayed = (Active.strayed \/ (Answers /\ Order.to # Active.call))
      /\ Dismayed.upset = (Active.upset \/ Active.call.op # "resolve_assets")
  BY <1>2 DEF Dismayed, Runs
<1>5. /\ worker'.pc = "busy" /\ worker'.started = worker.started
      /\ worker'.batch = worker.batch /\ worker'.cache = worker.cache
      /\ worker'.sent = worker.sent /\ worker'.entry = worker.entry
      /\ S' \in Seq(Runs) /\ Len(S') = Len(S) /\ Active' = Dismayed /\ S'[Len(S)] = Dismayed
      /\ \A i \in 1..(Len(S) - 1) : S'[i] = S[i]
  BY <1>2, <1>3, ActDoes
<1>6. DOMAIN S' = DOMAIN S BY <1>2, <1>5, Busy
<1>7. Underway => Truthful(Dismayed)
  <2>1. Underway => Truthful(Active) BY <1>2 DEF Standing
  <2> QED BY <1>4, <2>1 DEF Truthful
<1>8. Underway => (Len(S) = Len(F) => ~Dismayed.strayed)
  BY <1>2, <1>4 DEF Standing
<1>9. budget.faults = MaxFaults => ~Dismayed.upset /\ (Underway => Len(S) = Len(F))
  <2> SUFFICES ASSUME budget.faults = MaxFaults PROVE ~Dismayed.upset /\ Len(S) = Len(F) OBVIOUS
  <2>1. Underway /\ ~Active.upset BY <1>2 DEF Standing
  <2>2. Order.type = "answer" /\ Len(S) = Len(F) /\ (Order.ok \/ Order.to.op = "resolve_assets")
        /\ Order.to = Active.call /\ Order.id = Order.to.id
    BY <1>2, <2>1
  <2>3. Answers BY <2>2 DEF Answers
  <2>4. Active.call.op = "resolve_assets" BY <1>1, <2>2, <2>3
  <2> QED BY <1>4, <2>1, <2>2, <2>4
<1>10. Underway => \A a \in DOMAIN worker'.cache : Fresh(a, worker'.cache[a])
  BY <1>2, <1>5 DEF Standing
<1> HIDE DEF Dismayed
<1> QED BY <1>1, <1>2, <1>3, <1>4, <1>5, <1>6, <1>7, <1>8, <1>9, <1>10, GoesOn

LEMMA AnswerArrivesKeeps ==
    ASSUME Typed, Shaped, Inv, AnswerArrives
    PROVE  Inv'
<1>1. Called /\ Order.type = "answer" /\ Order.ok /\ disk' = disk /\ frontend' = frontend
      /\ up' = up /\ budget' = budget
  BY DEF AnswerArrives, Answers
<1>2. /\ worker.pc = "busy" /\ Listening /\ up = <<>> /\ down' = <<>> /\ Active \in Runs
      /\ Standing /\ Order \in Orders /\ down # <<>> /\ Active.call \in Call
      /\ Underway => Len(S) = Len(F) /\ Order.to = Active.call
      /\ Alive
  BY <1>1, Waits, Busy
<1>3. /\ worker'.pc = "busy" /\ worker'.batch = worker.batch /\ worker'.started = worker.started
      /\ worker'.cache = Cached /\ worker'.sent = worker.sent /\ worker'.entry = worker.entry
      /\ Content \in Versions /\ DOMAIN Content = DOMAIN Order.found
      /\ Telling \subseteq DOMAIN Content
      /\ Informed \in Runs /\ Active' = Informed
      /\ S' \in Seq(Runs) /\ Len(S') = Len(S) /\ S'[Len(S)] = Informed
      /\ \A i \in 1..(Len(S) - 1) : S'[i] = S[i]
  BY AnswerArrivesTyped
<1>4. /\ Informed.action = Active.action /\ Informed.build = Active.build
      /\ Informed.blocked = Active.blocked /\ Informed.call = None
      /\ Informed.upset = Active.upset
      /\ Informed.strayed = (Active.strayed \/ Order.to # Active.call)
      /\ DOMAIN Informed.told = DOMAIN Active.told \cup Telling
      /\ \A a \in DOMAIN Informed.told :
            Informed.told[a] = IF a \in Telling THEN Content[a] ELSE Active.told[a]
  BY <1>2 DEF Informed, Runs
<1>5. DOMAIN S' = DOMAIN S BY <1>2, <1>3, Busy
<1>6. Underway => \A a \in DOMAIN Content : /\ a \in Actions => Phase[a] < Phase[Active.action]
                                            /\ Fresh(a, Content[a])
  <2> SUFFICES ASSUME Underway, NEW a \in DOMAIN Content
               PROVE  (a \in Actions => Phase[a] < Phase[Active.action]) /\ Fresh(a, Content[a])
    OBVIOUS
  <2>1. Current /\ Posed BY DEF Inv
  <2>2. a \in DOMAIN Order.found /\ a \in Assets BY <1>3, VersionsAre
  <2>3. /\ a \in Actions => Phase[a] < Order.to.phase
        /\ IF Order.found[a] = Path THEN ~Lazy(a) ELSE Fresh(a, Order.found[a])
    BY <1>1, <1>2, <2>1, <2>2 DEF Current, Incoming
  <2>4. ~Lazy(a) => Fresh(a, disk[a]) BY <2>1, <2>2 DEF Current
  <2>5. Active.call.phase = Phase[Active.action]
    BY <1>2, <2>1, Busy, DialogueAssumption DEF Posed
  <2>6. Content[a] = IF Order.found[a] = Path THEN disk[a] ELSE Order.found[a]
    BY <2>2 DEF Content
  <2> QED BY <1>2, <2>3, <2>4, <2>5, <2>6
<1>7. Underway => Truthful(Informed)
  <2>1. Underway => Truthful(Active) BY <1>2 DEF Standing
  <2> QED BY <1>3, <1>4, <1>6, <2>1 DEF Truthful, Fresh
<1>8. Underway => \A a \in DOMAIN worker'.cache : Fresh(a, worker'.cache[a])
  <2>1. Underway => \A a \in DOMAIN worker.cache : Fresh(a, worker.cache[a]) BY <1>2 DEF Standing
  <2>2. CASE Caching
    <3>1. DOMAIN Cached = DOMAIN worker.cache \cup DOMAIN Content
          /\ \A a \in DOMAIN Cached : Cached[a] = IF a \in DOMAIN Content THEN Content[a]
                                                  ELSE worker.cache[a]
      BY <2>2 DEF Cached
    <3> QED BY <1>3, <1>6, <2>1, <3>1
  <2>3. CASE ~Caching BY <1>3, <2>1, <2>3 DEF Cached
  <2> QED BY <2>2, <2>3
<1>9. Underway => Len(S) >= Len(F) /\ (Len(S) = Len(F) => ~Informed.strayed)
  <2>1. Len(S) \in Nat /\ Len(F) \in Nat BY <1>2, Busy
  <2>2. Underway => Len(S) >= Len(F) BY <1>2, <2>1
  <2>3. Underway => ~Active.strayed /\ Order.to = Active.call BY <1>2 DEF Standing
  <2> QED BY <1>4, <2>2, <2>3
<1>10. budget.faults = MaxFaults => ~Informed.upset /\ (Underway => Len(S) = Len(F))
  BY <1>2, <1>4 DEF Standing
<1> QED BY <1>1, <1>2, <1>3, <1>4, <1>5, <1>7, <1>8, <1>9, <1>10, GoesOn

LEMMA NestedBeginsKeeps ==
    ASSUME Typed, Shaped, Inv, NestedBegins
    PROVE  Inv'
<1>1. Called /\ Order.type = "build" /\ disk' = disk /\ frontend' = frontend
      /\ up' = up /\ budget' = budget
  BY DEF NestedBegins
<1>2. /\ worker.pc = "busy" /\ Listening /\ up = <<>> /\ down' = <<>> /\ Active \in Runs
      /\ Standing /\ Order \in Orders /\ down # <<>> /\ Active.call \in Call
      /\ Underway => Len(S) + 1 = Len(F) /\ Order.id = Top(F).id /\ Order.actions = Top(F).actions
  BY <1>1, Waits
<1> DEFINE m == Len(S)
           run == Running(Order.actions[1], Order.id, Order.blocked)
<1>3. /\ worker'.pc = "busy" /\ worker'.batch = worker.batch /\ worker'.started = worker.started
      /\ worker'.cache = worker.cache /\ worker'.sent = worker.sent /\ worker'.entry = worker.entry
      /\ S' \in Seq(Runs) /\ Len(S') = m + 1 /\ Active' = run /\ S'[m + 1] = run
      /\ \A i \in 1..m : S'[i] = S[i]
  BY NestedBeginsTyped
<1>4. /\ run.action = Order.actions[1] /\ run.build = Order.id /\ run.blocked = Order.blocked
      /\ run.call = None /\ run.told = <<>> /\ ~run.strayed /\ ~run.upset
  BY DEF Running
<1>5. m \in Nat /\ m > 0 /\ DOMAIN S = 1..m /\ Active = S[m] /\ Len(F) \in Nat /\ m \in DOMAIN S
      /\ 1 \in DOMAIN S /\ Alive
  BY <1>2, Busy
<1> HIDE DEF run, m
<1>6. DOMAIN S' = 1..(m + 1) /\ (\A i \in DOMAIN S' : i \in DOMAIN S \/ i = m + 1)
      /\ (\A i \in DOMAIN S : S'[i] = S[i])
  BY <1>3, <1>5
<1>7. Turn /\ Ladder /\ Posed /\ Cleaned /\ Loop /\ Paired /\ Placed /\ Taken /\ Edged /\ Current /\ Healthy
  BY DEF Inv
<1>8. Alive' /\ Free' /\ Underway' = Underway /\ Listening' = Listening /\ F' = F
  BY <1>1, <1>3, <1>4, FrontendStays DEF Alive, Free
<1>9. up' = <<>> BY <1>1, <1>2
<1>10. Turn'
  <2>1. ASSUME NEW i \in 1..m PROVE S'[i].call # None
    <3>1. CASE i = m BY <1>2, <1>3, <1>5, <3>1, DialogueAssumption
    <3>2. CASE i # m
      <4>1. i \in 1..(m - 1) BY <1>5, <3>2
      <4>2. S[i].call # None BY <1>7, <4>1 DEF Turn, m
      <4> QED BY <1>3, <4>2
    <3> QED BY <3>1, <3>2
  <2>2. Len(S') - 1 = m BY <1>3, <1>5
  <2>3. \A i \in 1..(Len(S') - 1) : S'[i].call # None BY <2>1, <2>2
  <2> QED BY <1>2, <1>8, <1>9, <2>3 DEF Turn
<1>11. Ladder' BY <1>1, <1>7, FrontendStays
<1>12. Posed'
  <2>1. DOMAIN <<>> = {} BY NoVersions
  <2>2. Later(run.action) \subseteq run.blocked
    <3>1. 1 \in DOMAIN down /\ Order = down[1] BY <1>2, HeadOf DEF Typed, Order
    <3> QED BY <1>1, <1>4, <1>7, <3>1 DEF Posed
  <2>3. \A i \in DOMAIN S' : /\ Later(S'[i].action) \subseteq S'[i].blocked
                             /\ S'[i].call # None => /\ S'[i].call.build = S'[i].build
                                                     /\ S'[i].call.phase = Phase[S'[i].action]
    BY <1>3, <1>4, <1>6, <1>7, <2>2 DEF Posed
  <2>4. S'[1] = S[1] BY <1>5, <1>6
  <2> QED BY <1>2, <1>3, <1>7, <2>1, <2>3, <2>4 DEF Posed
<1>13. Cleaned'
  <2>1. ~Outgoing("ack")' BY <1>9 DEF Outgoing
  <2>2. ~Incoming("reset")' BY <1>2 DEF Incoming
  <2> QED BY <1>1, <1>3, <1>5, <1>7, <2>1, <2>2 DEF Cleaned
<1>14. Loop' BY <1>3 DEF Loop
<1>15. Paired'
  <2> SUFFICES ASSUME Underway PROVE Paired' BY <1>8 DEF Paired
  <2>1. ASSUME NEW i \in DOMAIN S'
        PROVE  /\ i < Len(F) => F[i + 1].ask = S'[i].call
               /\ i <= Len(F) => ~S'[i].strayed
               /\ i > 1 => /\ S'[i].build < frontend.id /\ Phase[S'[i].action] < Lead
                           /\ i <= Len(F) => S'[i].build = F[i].id /\ S'[i].action = F[i].actions[1]
                           /\ i > Len(F) => Beyond(S'[i].build)
    <3>1. CASE i \in DOMAIN S
      <4>1. S'[i] = S[i] BY <1>6, <3>1
      <4> QED BY <1>2, <1>7, <3>1, <4>1 DEF Paired
    <3>2. CASE i = m + 1
      <4>1. i = Len(F) /\ i \in DOMAIN F /\ Top(F) = F[i] BY <1>2, <3>2, Stacked DEF m
      <4>2. S'[i] = run /\ run.build = F[i].id /\ run.action = F[i].actions[1]
        BY <1>2, <1>3, <1>4, <3>2, <4>1
      <4>3. i \in 2..Len(F) BY <1>5, <3>2, <4>1
      <4>4. F[i].id < frontend.id BY <1>7, <4>1 DEF Ladder
      <4>5. Phase[F[i].actions[1]] < Lead BY <1>7, <4>3 DEF Ladder
      <4>6. ~(i < Len(F)) /\ ~(i > Len(F)) BY <1>5, <3>2, <4>1
      <4> QED BY <1>4, <4>2, <4>4, <4>5, <4>6
    <3> QED BY <1>6, <3>1, <3>2
  <2>2. worker.batch.id = F[1].id /\ worker.batch.actions = F[1].actions /\ ~worker.batch.strayed
    BY <1>3, <1>7, <1>2 DEF Paired
  <2>3. frontend'.id = frontend.id /\ Lead' = Lead /\ \A n : Beyond(n)' = Beyond(n)
    BY <1>1, FrontendStays
  <2>4. worker'.batch = worker.batch /\ F' = F BY <1>3, <1>8
  <2> QED BY <2>1, <2>2, <2>3, <2>4 DEF Paired
<1>16. Placed'
  <2> SUFFICES ASSUME Underway PROVE Placed' BY <1>8 DEF Placed
  <2>1. frontend'.pc # "handle" BY <1>1, <1>2 DEF Listening
  <2>2. Len(S') >= Len(F') BY <1>2, <1>3, <1>5, <1>8 DEF m
  <2> QED BY <1>2, <1>9, <2>1, <2>2 DEF Placed
<1>17. Taken' BY <1>1, <1>7, <1>9 DEF Taken, Outgoing
<1>18. Edged'
  <2>1. Underway => worker.sent \subseteq Owned BY <1>2, <1>5, <1>7 DEF Edged
  <2> QED BY <1>1, <1>2, <1>3, <1>7, <1>8, <2>1, FrontendStays DEF Edged
<1>19. Current'
  <2>1. Underway => \A i \in DOMAIN S' : Truthful(S'[i])
    <3>1. Underway => \A i \in DOMAIN S : Truthful(S[i]) BY <1>7, Truth DEF Current
    <3>2. Truthful(run) BY <1>4, NoVersions DEF Truthful
    <3> QED BY <1>3, <1>6, <3>1, <3>2
  <2>2. TrueToView' BY <1>1, <2>1, TruthNext
  <2>3. ~Incoming("answer")' BY <1>2 DEF Incoming
  <2> QED BY <1>1, <1>3, <1>5, <1>7, <1>8, <2>2, <2>3, FrontendStays DEF Current, Fresh
<1>20. Healthy'
  <2> SUFFICES ASSUME budget.faults = MaxFaults PROVE Healthy' BY <1>1 DEF Healthy
  <2>1. Underway BY <1>2 DEF Standing
  <2>2. \A i \in DOMAIN S' : ~S'[i].upset
    <3>1. \A i \in DOMAIN S : ~S[i].upset BY <1>7 DEF Healthy
    <3> QED BY <1>3, <1>4, <1>6, <3>1
  <2>3. ~Incoming("answer")' /\ ~Outgoing("result")' BY <1>2, <1>9 DEF Incoming, Outgoing
  <2>4. frontend'.pc # "greet" /\ frontend'.pc # "failed" BY <1>1, <2>1 DEF Underway
  <2>5. Len(S') = Len(F') BY <1>2, <1>3, <1>8, <2>1 DEF m
  <2> QED BY <1>3, <1>8, <2>1, <2>2, <2>3, <2>4, <2>5 DEF Healthy
<1> QED BY <1>10, <1>11, <1>12, <1>13, <1>14, <1>15, <1>16, <1>17, <1>18, <1>19, <1>20 DEF Inv

\* A nested run ends, in a result.
LEMMA PopKeeps ==
    ASSUME Typed, Shaped, Inv, Free, Len(S) > 1, frontend' = frontend, disk' = disk, down' = down,
           worker'.pc = "busy", worker'.started = worker.started, worker'.batch = worker.batch,
           worker'.cache = worker.cache, worker.entry \subseteq worker'.entry,
           S' \in Seq(Runs), Len(S') = Len(S) - 1, Active' = S[Len(S) - 1],
           \A i \in 1..(Len(S) - 1) : S'[i] = S[i],
           NEW m \in Messages, m.type = "result", m.id = Active.build, m.strayed = Active.strayed,
           m.reads \subseteq m.edges \cup worker.sent, worker'.sent \subseteq worker.sent \cup m.edges,
           up' # <<>>, Len(up') = 1, Message' = m,
           budget'.faults = MaxFaults => budget.faults = MaxFaults /\ m.ok
    PROVE  Inv'
<1>1. /\ worker.pc = "busy" /\ Listening /\ up = <<>> /\ down = <<>> /\ Active \in Runs
      /\ Active.call = None /\ Standing
      /\ Underway => Len(S) >= Len(F) /\ worker.sent \subseteq Owned
      /\ budget.faults = MaxFaults => Len(S) = Len(F)
  BY AtWork
<1>2. Turn /\ Ladder /\ Posed /\ Cleaned /\ Loop /\ Paired /\ Placed /\ Taken /\ Edged /\ Current /\ Healthy
  BY DEF Inv
<1> DEFINE n == Len(S)
<1>3. n \in Nat /\ n > 1 /\ DOMAIN S = 1..n /\ Active = S[n] /\ Len(F) \in Nat /\ n \in DOMAIN S
      /\ Alive
  BY <1>1, Busy
<1>4. Len(S') = n - 1 /\ Active' = S[n - 1] /\ \A i \in 1..(n - 1) : S'[i] = S[i]
  OBVIOUS
<1>5. \A i \in 1..(n - 1) : S[i].call # None BY <1>2 DEF Turn
<1> HIDE DEF n
<1>6. DOMAIN S' = 1..(n - 1) /\ n - 1 \in 1..(n - 1) /\ 1 \in 1..(n - 1)
      /\ \A i \in 1..(n - 1) : i \in DOMAIN S
  BY <1>3, <1>4
<1>7. Alive' /\ Underway' = Underway /\ Listening' = Listening /\ F' = F
  BY FrontendStays DEF Alive
<1>8. ~Free' BY <1>4, <1>5, <1>6 DEF Free
<1>9. down' = <<>> BY <1>1
<1>10. Turn'
  <2>1. \A i \in 1..(Len(S') - 1) : i \in 1..(n - 1) BY <1>3, <1>4
  <2>2. \A i \in 1..(Len(S') - 1) : S'[i].call # None BY <1>4, <1>5, <2>1
  <2> QED BY <1>1, <1>7, <1>8, <1>9, <2>2 DEF Turn
<1>11. Ladder' BY <1>2, FrontendStays
<1>12. Posed'
  <2>1. DOMAIN <<>> = {} BY NoVersions
  <2>2. \A i \in DOMAIN S' : /\ Later(S'[i].action) \subseteq S'[i].blocked
                             /\ S'[i].call # None => /\ S'[i].call.build = S'[i].build
                                                     /\ S'[i].call.phase = Phase[S'[i].action]
    BY <1>2, <1>4, <1>6 DEF Posed
  <2>3. S'[1] = S[1] BY <1>4, <1>6
  <2> QED BY <1>1, <1>2, <1>9, <2>1, <2>2, <2>3 DEF Posed
<1>13. Cleaned'
  <2>1. ~Outgoing("ack")' BY DEF Outgoing
  <2>2. ~Incoming("reset")' BY <1>9 DEF Incoming
  <2> QED BY <1>2, <1>3, <2>1, <2>2 DEF Cleaned
<1>14. Loop' BY DEF Loop
<1>15. Paired'
  <2> SUFFICES ASSUME Underway PROVE Paired' BY <1>7 DEF Paired
  <2>1. ASSUME NEW i \in DOMAIN S'
        PROVE  /\ i < Len(F) => F[i + 1].ask = S'[i].call
               /\ i <= Len(F) => ~S'[i].strayed
               /\ i > 1 => /\ S'[i].build < frontend.id /\ Phase[S'[i].action] < Lead
                           /\ i <= Len(F) => S'[i].build = F[i].id /\ S'[i].action = F[i].actions[1]
                           /\ i > Len(F) => Beyond(S'[i].build)
    <3>1. S'[i] = S[i] /\ i \in DOMAIN S BY <1>4, <1>6
    <3> QED BY <1>1, <1>2, <3>1 DEF Paired
  <2>2. worker.batch.id = F[1].id /\ worker.batch.actions = F[1].actions /\ ~worker.batch.strayed
    BY <1>1, <1>2 DEF Paired
  <2>3. frontend'.id = frontend.id /\ Lead' = Lead /\ \A k : Beyond(k)' = Beyond(k)
    BY FrontendStays
  <2> QED BY <1>7, <2>1, <2>2, <2>3 DEF Paired
<1>16. Underway => /\ n = Len(F) => Active.build = Top(F).id /\ ~Active.strayed
                   /\ n > Len(F) => Beyond(Active.build) /\ Top(F).id < Active.build
  <2> SUFFICES ASSUME Underway PROVE /\ n = Len(F) => Active.build = Top(F).id /\ ~Active.strayed
                                     /\ n > Len(F) => Beyond(Active.build) /\ Top(F).id < Active.build
    OBVIOUS
  <2>1. Top(F) = F[Len(F)] /\ Len(F) \in DOMAIN F BY Stacked
  <2>2. /\ n <= Len(F) => ~S[n].strayed /\ S[n].build = F[n].id
        /\ n > Len(F) => Beyond(S[n].build)
    BY <1>1, <1>2, <1>3 DEF Paired
  <2>3. n = Len(F) => n <= Len(F) BY <1>3
  <2>4. n > Len(F) => Top(F).id < Active.build BY <1>3, <2>1, <2>2 DEF Beyond
  <2> QED BY <1>3, <2>1, <2>2, <2>3, <2>4
<1>17. Placed'
  <2> SUFFICES ASSUME Underway PROVE Placed' BY <1>7 DEF Placed
  <2>1. frontend'.pc # "handle" BY <1>1 DEF Listening
  <2>2. Len(S') + 1 = n BY <1>3, <1>4
  <2>3. n >= Len(F) BY <1>1 DEF n
  <2>4. F' = F /\ Message' = m /\ m.id = Active.build /\ m.strayed = Active.strayed
        /\ \A k : Beyond(k)' = Beyond(k)
    BY <1>7, FrontendStays
  <2>5. n = Len(F) => Message'.id = Top(F).id /\ ~Message'.strayed BY <1>16, <2>4
  <2>6. n > Len(F) => Beyond(Message.id)' BY <1>16, <2>4 DEF Beyond
  <2> QED BY <1>8, <1>9, <2>1, <2>2, <2>3, <2>4, <2>5, <2>6 DEF Placed
<1>18. Taken'
  <2>1. frontend.pc = "serve" => Underway BY DEF Underway
  <2>2. Underway => (m.id = Top(F).id => ~m.strayed)
    <3> SUFFICES ASSUME Underway, m.id = Top(F).id PROVE ~m.strayed OBVIOUS
    <3>1. n >= Len(F) BY <1>1 DEF n
    <3>2. Top(F).id \in Nat BY Stacked
    <3>3. ~(n > Len(F)) BY <1>16, <3>2
    <3>4. n = Len(F) BY <1>3, <3>1, <3>3
    <3> QED BY <1>16, <3>4
  <2>3. Underway => m.reads \subseteq m.edges \cup Owned BY <1>1
  <2>4. frontend'.stack = frontend.stack /\ Owned' = Owned BY FrontendStays
  <2> QED BY <1>2, <1>7, <2>1, <2>2, <2>3, <2>4 DEF Taken, Outgoing
<1>19. Edged'
  <2>1. Underway => \A a \in worker'.sent : a \in Owned \/ a \in m.edges
    BY <1>1
  <2> QED BY <1>1, <1>2, <1>7, <2>1, FrontendStays DEF Edged
<1>20. Current'
  <2>1. Underway => \A i \in DOMAIN S' : Truthful(S'[i])
    <3>1. Underway => \A i \in DOMAIN S : Truthful(S[i]) BY <1>2, Truth DEF Current
    <3> QED BY <1>4, <1>6, <3>1
  <2>2. TrueToView' BY <2>1, TruthNext
  <2>3. ~Incoming("answer")' BY <1>9 DEF Incoming
  <2> QED BY <1>2, <1>3, <1>7, <2>2, <2>3, FrontendStays DEF Current, Fresh
<1>21. Healthy'
  <2> SUFFICES ASSUME budget'.faults = MaxFaults PROVE Healthy' BY DEF Healthy
  <2>1. Underway /\ budget.faults = MaxFaults /\ m.ok BY <1>1 DEF Standing
  <2>2. \A i \in DOMAIN S' : ~S'[i].upset
    <3>1. \A i \in DOMAIN S : ~S[i].upset BY <1>2, <2>1 DEF Healthy
    <3> QED BY <1>4, <1>6, <3>1
  <2>3. ~Incoming("answer")' /\ ~Outgoing("ask")' BY <1>9 DEF Incoming, Outgoing
  <2>4. frontend'.pc # "greet" /\ frontend'.pc # "failed" BY <2>1 DEF Underway
  <2>5. Len(S') + 1 = Len(F')
    <3>1. n = Len(F) BY <1>1, <2>1 DEF n
    <3>2. Len(S') + 1 = n BY <1>3, <1>4
    <3> QED BY <1>7, <3>1, <3>2
  <2> QED BY <1>7, <1>8, <2>1, <2>2, <2>3, <2>4, <2>5 DEF Healthy
<1> QED BY <1>10, <1>11, <1>12, <1>13, <1>14, <1>15, <1>17, <1>18, <1>19, <1>20, <1>21 DEF Inv

\* A builder fails where something has failed.
LEMMA Faulted ==
    ASSUME Typed, Standing, Fails
    PROVE  budget'.faults # MaxFaults
<1>1. CASE Active.upset
  <2>1. budget' = budget BY <1>1 DEF Fails
  <2>2. budget.faults # MaxFaults BY <1>1 DEF Standing
  <2> QED BY <2>1, <2>2
<1>2. CASE ~Active.upset
  <2>1. Fault BY <1>2 DEF Fails
  <2> QED BY <2>1, FaultTyped DEF Typed
<1> QED BY <1>1, <1>2

LEMMA NestedSucceedsKeeps ==
    ASSUME Typed, Shaped, Inv, NestedSucceeds
    PROVE  Inv'
<1>1. Free /\ Len(S) > 1 /\ disk' = disk /\ frontend' = frontend /\ down' = down /\ budget' = budget
  BY DEF NestedSucceeds, S
<1>2. worker.pc = "busy" /\ up = <<>> BY <1>1, AtWork
<1> DEFINE reads == DOMAIN Active.told
           sent == worker.sent \cup reads
           entry == worker.entry \cup reads
           m == [type |-> "result", id |-> Active.build, ok |-> TRUE, reads |-> reads,
                 edges |-> Unsent(reads), strayed |-> Active.strayed]
<1>3. /\ sent \in SUBSET Assets /\ entry \in SUBSET Assets /\ m \in Messages
      /\ worker' = [worker EXCEPT !.stack = Pop(S), !.sent = sent, !.entry = entry]
  BY NestedSucceedsTyped
<1>4. Send(m) BY DEF NestedSucceeds
<1>5. /\ m.type = "result" /\ m.id = Active.build /\ m.strayed = Active.strayed /\ m.ok
      /\ m.reads \subseteq m.edges \cup worker.sent /\ sent \subseteq worker.sent \cup m.edges
  BY DEF Unsent
<1>6. worker.entry \subseteq entry OBVIOUS
<1> HIDE DEF m, sent, entry
<1>7. /\ worker'.pc = "busy" /\ worker'.started = worker.started
      /\ worker'.batch = worker.batch /\ worker'.cache = worker.cache /\ worker'.sent = sent
      /\ worker'.entry = entry
      /\ S' \in Seq(Runs) /\ Len(S') = Len(S) - 1 /\ Active' = S[Len(S) - 1]
      /\ \A i \in 1..(Len(S) - 1) : S'[i] = S[i]
  BY <1>1, <1>2, <1>3, PopDoes
<1>8. up' # <<>> /\ Len(up') = 1 /\ Message' = m
  <2>1. up' # <<>> /\ Len(up') = Len(up) + 1 /\ Message' = m
    BY <1>2, <1>3, <1>4, SendDoes
  <2>2. Len(<<>>) = 0 OBVIOUS
  <2> QED BY <1>2, <2>1, <2>2
<1> QED BY <1>1, <1>3, <1>5, <1>6, <1>7, <1>8, PopKeeps

LEMMA FailsNestedKeeps ==
    ASSUME Typed, Shaped, Inv, Fails, Len(S) > 1
    PROVE  Inv'
<1>1. Free /\ disk' = disk /\ frontend' = frontend /\ down' = down BY DEF Fails
<1>2. worker.pc = "busy" /\ up = <<>> /\ Standing BY <1>1, AtWork
<1>3. /\ Send(Refusal) /\ Refusal \in Messages
      /\ worker' = [worker EXCEPT !.stack = Pop(S), !.sent = worker.sent, !.entry = worker.entry]
  BY FailsTyped
<1>4. /\ Refusal.type = "result" /\ Refusal.id = Active.build /\ Refusal.strayed = Active.strayed
      /\ Refusal.reads \subseteq Refusal.edges \cup worker.sent
  BY DEF Refusal
<1>5. worker.sent \in SUBSET Assets /\ worker.entry \in SUBSET Assets BY DEF Typed, Workers
<1>6. /\ worker'.pc = "busy" /\ worker'.started = worker.started
      /\ worker'.batch = worker.batch /\ worker'.cache = worker.cache /\ worker'.sent = worker.sent
      /\ worker'.entry = worker.entry
      /\ S' \in Seq(Runs) /\ Len(S') = Len(S) - 1 /\ Active' = S[Len(S) - 1]
      /\ \A i \in 1..(Len(S) - 1) : S'[i] = S[i]
  BY <1>2, <1>3, <1>5, PopDoes
<1>7. up' # <<>> /\ Len(up') = 1 /\ Message' = Refusal
  <2>1. up' # <<>> /\ Len(up') = Len(up) + 1 /\ Message' = Refusal
    BY <1>2, <1>3, SendDoes
  <2>2. Len(<<>>) = 0 OBVIOUS
  <2> QED BY <1>2, <2>1, <2>2
<1>8. budget'.faults # MaxFaults BY <1>2, Faulted
<1> QED BY <1>1, <1>3, <1>4, <1>6, <1>7, <1>8, PopKeeps

LEMMA OneOf == ASSUME NEW n \in Nat, n > 0, ~(n > 1) PROVE n = 1
OBVIOUS

\* The batch ends, and the worker is in its loop again.
LEMMA LoopKeeps ==
    ASSUME Typed, Shaped, Inv, Free, Len(S) = 1, frontend' = frontend, disk' = disk, down' = down,
           worker'.pc = "loop", worker'.started = worker.started, worker'.cache = worker.cache,
           S' = <<>>,
           NEW m \in Messages, m.type \in {"batch_result", "error"},
           m.type = "error" => worker'.sent = worker.sent,
           m.type = "batch_result" =>
              /\ Underway => ~m.strayed
              /\ m.reads \subseteq m.edges \cup worker.sent
              /\ worker'.sent \subseteq worker.sent \cup m.edges,
           up' # <<>>, Len(up') = 1, Message' = m,
           budget'.faults = MaxFaults =>
              /\ budget.faults = MaxFaults /\ m.type = "batch_result" /\ m.id = F[1].id
              /\ m.count = Len(F[1].actions)
    PROVE  Inv'
<1>1. /\ worker.pc = "busy" /\ Listening /\ up = <<>> /\ down = <<>> /\ Standing
      /\ Underway => Len(S) >= Len(F) /\ worker.sent \subseteq Owned
  BY AtWork
<1>2. Turn /\ Ladder /\ Posed /\ Cleaned /\ Loop /\ Paired /\ Placed /\ Taken /\ Edged /\ Current /\ Healthy
  BY DEF Inv
<1>3. Alive BY <1>1, Busy
<1>4. Len(S') = 0 /\ DOMAIN S' = {} BY NoVersions
<1>5. Alive' /\ ~Free' /\ Underway' = Underway /\ Listening' = Listening /\ F' = F
  BY FrontendStays DEF Alive, Free
<1>6. down' = <<>> BY <1>1
<1>7. Turn'
  <2>1. 1..(Len(S') - 1) = {} BY <1>4
  <2> QED BY <1>1, <1>5, <1>6, <2>1 DEF Turn
<1>8. Ladder' BY <1>2, FrontendStays
<1>9. Posed'
  <2>1. DOMAIN <<>> = {} BY NoVersions
  <2> QED BY <1>4, <1>6, <2>1 DEF Posed
<1>10. Cleaned'
  <2>1. ~Outgoing("ack")' BY DEF Outgoing
  <2>2. ~Incoming("reset")' BY <1>6 DEF Incoming
  <2> QED BY <1>2, <1>3, <2>1, <2>2 DEF Cleaned
<1>11. Loop'
  <2> SUFFICES ASSUME Underway PROVE Loop' BY <1>5 DEF Loop
  <2>1. frontend.pc = "serve" BY <1>1 DEF Listening, Underway
  <2>2. Len(F) \in Nat /\ Len(F) > 0 BY Stacked
  <2>3. ~(Len(F) > 1) BY <1>1, <2>2
  <2>4. Len(F) = 1 BY <2>2, <2>3, OneOf
  <2>5. Outgoing("batch_result")' \/ Outgoing("error")' BY DEF Outgoing
  <2> QED BY <1>5, <2>1, <2>4, <2>5 DEF Loop
<1>12. Paired' /\ Placed' BY DEF Paired, Placed
<1>13. Taken'
  <2>1. ~Outgoing("result")' BY DEF Outgoing
  <2>2. frontend.pc = "serve" => Underway BY DEF Underway
  <2>3. Owned' = Owned BY FrontendStays
  <2>4. Underway /\ m.type = "batch_result" => ~m.strayed /\ m.reads \subseteq m.edges \cup Owned
    BY <1>1
  <2> QED BY <1>2, <2>1, <2>2, <2>3, <2>4 DEF Taken, Outgoing
<1>14. Edged'
  <2>1. Underway => \A a \in worker'.sent :
          a \in Owned \/ (m.type = "batch_result" /\ a \in m.edges)
    BY <1>1
  <2> QED BY <1>2, <1>5, <2>1, FrontendStays DEF Edged
<1>15. Current'
  <2>1. TrueToView' BY <1>4, TruthNext
  <2>2. ~Incoming("answer")' BY <1>6 DEF Incoming
  <2> QED BY <1>2, <1>3, <1>5, <2>1, <2>2, FrontendStays DEF Current, Fresh
<1>16. Healthy'
  <2> SUFFICES ASSUME budget'.faults = MaxFaults PROVE Healthy' BY DEF Healthy
  <2>1. Underway BY <1>1 DEF Standing
  <2>2. frontend'.pc # "greet" /\ frontend'.pc # "failed" BY <2>1 DEF Underway
  <2>3. Message'.type = "batch_result" /\ Message'.id = F'[1].id /\ Message'.count = Len(F'[1].actions)
    BY <1>5
  <2> QED BY <1>4, <1>5, <2>1, <2>2, <2>3 DEF Healthy
<1> QED BY <1>7, <1>8, <1>9, <1>10, <1>11, <1>12, <1>13, <1>14, <1>15, <1>16 DEF Inv

LEMMA FailsKeeps ==
    ASSUME Typed, Shaped, Inv, Fails
    PROVE  Inv'
<1>1. CASE Len(S) > 1 BY <1>1, FailsNestedKeeps
<1>2. CASE ~(Len(S) > 1)
  <2>1. Free /\ disk' = disk /\ frontend' = frontend /\ down' = down BY DEF Fails
  <2>2. worker.pc = "busy" /\ up = <<>> /\ Standing BY <2>1, AtWork
  <2>3. Len(S) = 1
    <3>1. Len(S) \in Nat /\ Len(S) > 0 BY <2>2, Busy
    <3> QED BY <1>2, <3>1, OneOf
  <2>4. /\ Send(Broken) /\ Broken \in Messages
        /\ worker' = [worker EXCEPT !.pc = "loop", !.stack = <<>>, !.batch = None]
    BY <1>2, FailsTyped
  <2>5. Broken.type = "error" BY DEF Broken
  <2>6. /\ worker'.pc = "loop" /\ worker'.started = worker.started /\ worker'.cache = worker.cache
        /\ worker'.sent = worker.sent /\ S' = <<>>
    BY <2>4 DEF Typed, Workers, S
  <2>7. up' # <<>> /\ Len(up') = 1 /\ Message' = Broken
    <3>1. up' # <<>> /\ Len(up') = Len(up) + 1 /\ Message' = Broken BY <2>2, <2>4, SendDoes
    <3>2. Len(<<>>) = 0 OBVIOUS
    <3> QED BY <2>2, <3>1, <3>2
  <2>8. budget'.faults # MaxFaults BY <2>2, Faulted
  <2> QED BY <2>1, <2>3, <2>4, <2>5, <2>6, <2>7, <2>8, LoopKeeps
<1> QED BY <1>1, <1>2

\* The last run of a batch, and what the frontend takes it for.
LEMMA AtBase ==
    ASSUME Typed, Shaped, Inv, Free, Len(S) = 1
    PROVE  /\ worker.batch \in Jobs /\ Active = S[1] /\ Active.build \in Nat
           /\ Active.build + 1 \in DOMAIN worker.batch.actions
           /\ Active.action = worker.batch.actions[Active.build + 1]
           /\ TotalReads \subseteq TotalEntry
           /\ Underway => /\ Len(F) = 1 /\ ~TotalStrayed /\ worker.batch.id = F[1].id
                          /\ worker.batch.actions = F[1].actions
<1>1. worker.pc = "busy" /\ Standing /\ (Underway => Len(S) >= Len(F)) BY AtWork
<1>2. Posed /\ Paired /\ Edged BY DEF Inv
<1>3. worker.batch \in Jobs BY <1>1 DEF Shaped
<1>4. Active = S[1] /\ 1 \in DOMAIN S BY <1>1, Busy
<1>5. Active.build \in Nat BY <1>4, Stacked
<1>6. Active.build + 1 \in DOMAIN worker.batch.actions
      /\ Active.action = worker.batch.actions[Active.build + 1]
  BY <1>1, <1>2, <1>4 DEF Posed
<1>7. TotalReads \subseteq TotalEntry BY <1>1, <1>2 DEF Edged, TotalReads, TotalEntry
<1>8. Underway => Len(F) = 1
  <2>1. Underway => Len(F) \in Nat /\ Len(F) > 0 BY Stacked
  <2>2. Underway => ~(Len(F) > 1) BY <1>1, <2>1
  <2> QED BY <2>1, <2>2, OneOf
<1>9. Underway => ~TotalStrayed
  <2>1. Underway => ~Active.strayed BY <1>1, <1>8 DEF Standing
  <2>2. Underway => ~worker.batch.strayed BY <1>1, <1>2 DEF Paired
  <2> QED BY <2>1, <2>2 DEF TotalStrayed
<1>10. Underway => worker.batch.id = F[1].id /\ worker.batch.actions = F[1].actions
  BY <1>1, <1>2 DEF Paired
<1> QED BY <1>3, <1>4, <1>5, <1>6, <1>7, <1>8, <1>9, <1>10

LEMMA SucceedsAtLastKeeps ==
    ASSUME Typed, Shaped, Inv, Succeeds, ~(Active.build + 1 < Len(worker.batch.actions))
    PROVE  Inv'
<1>1. Free /\ Len(S) = 1 /\ disk' = disk /\ frontend' = frontend /\ down' = down /\ budget' = budget
  BY DEF Succeeds, S
<1>2. worker.pc = "busy" /\ up = <<>> /\ Standing BY <1>1, AtWork
<1>3. worker' = Finished /\ Send(Total) BY SucceedsTyped
<1>4. Total \in Messages BY <1>2, TotalsTyped
<1>5. /\ worker.batch \in Jobs /\ Active.build \in Nat
      /\ Active.build + 1 \in DOMAIN worker.batch.actions
      /\ TotalReads \subseteq TotalEntry
      /\ Underway => ~TotalStrayed /\ worker.batch.id = F[1].id /\ worker.batch.actions = F[1].actions
  BY <1>1, AtBase
<1>6. /\ Total.type = "batch_result" /\ Total.strayed = TotalStrayed
      /\ Total.reads \subseteq Total.edges \cup worker.sent
      /\ worker.sent \cup TotalEntry \subseteq worker.sent \cup Total.edges
      /\ Total.id = worker.batch.id /\ Total.count = Active.build + 1
  BY <1>5 DEF Total, Unsent
<1>7. /\ worker'.pc = "loop" /\ worker'.started = worker.started /\ worker'.cache = worker.cache
      /\ worker'.sent = worker.sent \cup TotalEntry /\ S' = <<>>
  BY <1>3 DEF Typed, Workers, S, Finished
<1>8. up' # <<>> /\ Len(up') = 1 /\ Message' = Total
  <2>1. up' # <<>> /\ Len(up') = Len(up) + 1 /\ Message' = Total BY <1>2, <1>3, <1>4, SendDoes
  <2>2. Len(<<>>) = 0 OBVIOUS
  <2> QED BY <1>2, <2>1, <2>2
<1>9. Active.build + 1 = Len(worker.batch.actions)
  <2>1. worker.batch.actions \in Seq(Actions) BY <1>5 DEF Jobs, Listing
  <2> DEFINE actions == worker.batch.actions
             k == Active.build + 1
  <2>2. actions \in Seq(Actions) /\ k \in Nat /\ k \in DOMAIN actions /\ ~(k < Len(actions))
    BY <1>5, <2>1
  <2> HIDE DEF actions, k
  <2>3. k = Len(actions) BY <2>2
  <2> QED BY <2>3 DEF actions, k
<1>10. budget'.faults = MaxFaults =>
         /\ budget.faults = MaxFaults /\ Total.type = "batch_result" /\ Total.id = F[1].id
         /\ Total.count = Len(F[1].actions)
  BY <1>1, <1>2, <1>5, <1>6, <1>9 DEF Standing
<1> QED BY <1>1, <1>4, <1>5, <1>6, <1>7, <1>8, <1>10, LoopKeeps

\* An action of the batch begins.
LEMMA StartsKeeps ==
    ASSUME Typed, Shaped, Inv, frontend' = frontend, disk' = disk, budget' = budget,
           Alive, Listening, up = <<>>, up' = <<>>, down' = <<>>,
           worker'.pc = "busy", worker'.started = worker.started, worker'.cache = worker.cache,
           worker'.sent = worker.sent, worker'.batch.reads \subseteq worker'.entry,
           NEW run \in Runs, S' = <<run>>, run.call = None, run.told = <<>>, ~run.strayed, ~run.upset,
           Later(run.action) \subseteq run.blocked, Uniform(worker'.batch.actions),
           run.build + 1 \in DOMAIN worker'.batch.actions,
           run.action = worker'.batch.actions[run.build + 1],
           Underway => /\ Len(F) = 1 /\ ~worker'.batch.strayed
                       /\ worker'.batch.id = F[1].id /\ worker'.batch.actions = F[1].actions,
           budget.faults = MaxFaults => Underway
    PROVE  Inv'
<1>1. Turn /\ Ladder /\ Posed /\ Cleaned /\ Loop /\ Paired /\ Placed /\ Taken /\ Edged /\ Current /\ Healthy
  BY DEF Inv
<1>2. Len(S') = 1 /\ S'[1] = run /\ DOMAIN S' = 1..1 /\ \A i \in 1..1 : i = 1 /\ ~(i > 1) /\ ~(i < 1)
  BY SingleOf
<1>3. Active' = run BY <1>2 DEF Active, Top, S
<1>4. Alive' /\ Free' /\ Underway' = Underway /\ Listening' = Listening /\ F' = F
  BY <1>3, FrontendStays DEF Alive, Free
<1>5. Turn'
  <2>1. 1..(Len(S') - 1) = {} BY <1>2
  <2> QED BY <1>4, <2>1 DEF Turn
<1>6. Ladder' BY <1>1, FrontendStays
<1>7. Posed'
  <2>1. DOMAIN <<>> = {} BY NoVersions
  <2> QED BY <1>2, <2>1 DEF Posed
<1>8. Cleaned'
  <2>1. ~Outgoing("ack")' /\ ~Incoming("reset")' BY DEF Outgoing, Incoming
  <2> QED BY <1>1, <2>1 DEF Cleaned
<1>9. Loop' BY DEF Loop
<1>10. Paired' BY <1>2, <1>4 DEF Paired
<1>11. Placed'
  <2>1. frontend'.pc # "handle" BY DEF Listening
  <2>2. Underway => Len(S') = 1 /\ Len(F') = 1 BY <1>2, <1>4
  <2>3. 1 >= 1 OBVIOUS
  <2>4. Underway => Len(S') >= Len(F') BY <2>2, <2>3
  <2> QED BY <1>4, <2>1, <2>4 DEF Placed
<1>12. Taken' BY <1>1 DEF Taken, Outgoing
<1>13. Edged'
  <2>1. Underway => worker.sent \subseteq Owned BY <1>1 DEF Edged
  <2> QED BY <1>1, <1>4, <2>1, FrontendStays DEF Edged
<1>14. Current'
  <2>1. Truthful(run) BY NoVersions DEF Truthful
  <2>2. TrueToView' BY <1>2, <2>1, TruthNext
  <2>3. ~Incoming("answer")' BY DEF Incoming
  <2> QED BY <1>1, <1>4, <2>2, <2>3, FrontendStays DEF Current, Fresh
<1>15. Healthy'
  <2> SUFFICES ASSUME budget.faults = MaxFaults PROVE Healthy' BY DEF Healthy
  <2>1. Underway OBVIOUS
  <2>2. frontend'.pc # "greet" /\ frontend'.pc # "failed" BY <2>1 DEF Underway
  <2>3. ~Incoming("answer")' /\ ~Outgoing("result")' BY DEF Incoming, Outgoing
  <2>4. Len(S') = Len(F') BY <1>2, <1>4
  <2> QED BY <1>2, <1>4, <2>1, <2>2, <2>3, <2>4 DEF Healthy
<1> QED BY <1>5, <1>6, <1>7, <1>8, <1>9, <1>10, <1>11, <1>12, <1>13, <1>14, <1>15 DEF Inv

LEMMA SucceedsKeeps ==
    ASSUME Typed, Shaped, Inv, Succeeds
    PROVE  Inv'
<1>1. CASE ~(Active.build + 1 < Len(worker.batch.actions)) BY <1>1, SucceedsAtLastKeeps
<1>2. CASE Active.build + 1 < Len(worker.batch.actions)
  <2>1. Free /\ Len(S) = 1 /\ disk' = disk /\ frontend' = frontend /\ down' = down /\ budget' = budget
    BY DEF Succeeds, S
  <2>2. worker.pc = "busy" /\ Listening /\ up = <<>> /\ down = <<>> /\ Standing /\ Active \in Runs
    BY <2>1, AtWork
  <2>3. /\ worker' = Onward /\ up' = up /\ worker.batch.actions[Active.build + 2] \in Actions
    BY <1>2, SucceedsTyped
  <2>4. /\ worker.batch \in Jobs /\ Active = S[1] /\ Active.build \in Nat
        /\ Active.build + 1 \in DOMAIN worker.batch.actions
        /\ Active.action = worker.batch.actions[Active.build + 1]
        /\ TotalReads \subseteq TotalEntry
        /\ Underway => /\ Len(F) = 1 /\ ~TotalStrayed /\ worker.batch.id = F[1].id
                       /\ worker.batch.actions = F[1].actions
    BY <2>1, AtBase
  <2> DEFINE actions == worker.batch.actions
             next == Active.build + 1
             run == Running(actions[Active.build + 2], next, Active.blocked)
             job == [worker.batch EXCEPT !.reads = TotalReads, !.strayed = TotalStrayed]
             stack == <<run>>
  <2>5. actions \in Seq(Actions) /\ next \in Nat /\ next + 1 = Active.build + 2 /\ next < Len(actions)
    BY <1>2, <2>4 DEF Jobs, Listing
  <2>6. /\ run \in Runs /\ run.action = actions[next + 1] /\ run.build = next
        /\ run.blocked = Active.blocked /\ run.call = None
        /\ run.told = <<>> /\ ~run.strayed /\ ~run.upset
    <3>1. Active.blocked \in SUBSET Assets BY <2>2 DEF Runs
    <3>2. run \in Runs BY <2>3, <2>5, <3>1, RunningTyped
    <3> QED BY <2>5, <3>2 DEF Running
  <2>7. worker' = [worker EXCEPT !.batch = job, !.entry = TotalEntry, !.stack = stack]
    BY <2>3 DEF Onward
  <2>8. job.reads = TotalReads /\ job.strayed = TotalStrayed /\ job.id = worker.batch.id
        /\ job.actions = actions
    BY <2>4 DEF Jobs
  <2>9. next + 1 \in DOMAIN actions /\ next \in DOMAIN actions
    <3> HIDE DEF next, actions
    <3>1. next + 1 \in DOMAIN actions BY <2>5
    <3> QED BY <2>4, <3>1 DEF next, actions
  <2>10. Uniform(actions) /\ Later(Active.action) \subseteq Active.blocked
    BY <2>2, <2>4, Busy DEF Inv, Posed
  <2> HIDE DEF run, job
  <2>11. /\ worker'.pc = "busy" /\ worker'.started = worker.started /\ worker'.cache = worker.cache
         /\ worker'.sent = worker.sent /\ worker'.batch = job /\ worker'.entry = TotalEntry
         /\ S' = <<run>>
    BY <2>2, <2>7 DEF Typed, Workers, S
  <2>12. Later(run.action) \subseteq run.blocked
    <3>1. Phase[actions[next + 1]] = Phase[Active.action]
      BY <2>4, <2>9, <2>10 DEF Uniform
    <3> QED BY <2>6, <2>10, <3>1 DEF Later
  <2>13. Alive BY <2>2, Busy
  <2> HIDE DEF next, actions
  <2>14. Uniform(job.actions) /\ run.build + 1 \in DOMAIN job.actions
         /\ run.action = job.actions[run.build + 1]
    BY <2>6, <2>8, <2>9, <2>10
  <2>15. Underway => /\ Len(F) = 1 /\ ~job.strayed /\ job.id = F[1].id /\ job.actions = F[1].actions
    BY <2>4, <2>8 DEF actions
  <2>16. job.reads \subseteq TotalEntry BY <2>4, <2>8
  <2>17. budget.faults = MaxFaults => Underway BY <2>2 DEF Standing
  <2> QED BY <2>1, <2>2, <2>3, <2>6, <2>11, <2>12, <2>13, <2>14, <2>15, <2>16, <2>17, StartsKeeps
<1> QED BY <1>1, <1>2

\* A worker in its loop takes an order.
LEMMA Takes ==
    ASSUME Typed, Shaped, Inv, Looping
    PROVE  /\ worker.pc = "loop" /\ Alive /\ Listening /\ up = <<>> /\ down # <<>> /\ down' = <<>>
           /\ Order \in Orders /\ 1 \in DOMAIN down /\ Order = down[1]
           /\ S = <<>>
           /\ Underway => /\ Order.type = "batch" /\ Len(F) = 1
                          /\ Order.id = F[1].id /\ Order.actions = F[1].actions
<1>1. Turn /\ Loop BY DEF Inv
<1>2. worker.pc = "loop" /\ Alive /\ down # <<>> /\ down' = Tail(down) BY DEF Looping, Alive
<1>3. Listening /\ up = <<>> /\ down' = <<>> BY <1>1, <1>2, Turns
<1>4. Order \in Orders /\ 1 \in DOMAIN down /\ Order = down[1]
  BY <1>2, HeadOf DEF Typed, Order
<1>5. S = <<>> BY <1>2, Stacked
<1>6. Underway => /\ Order.type = "batch" /\ Len(F) = 1
                  /\ Order.id = F[1].id /\ Order.actions = F[1].actions
  BY <1>1, <1>2, <1>3 DEF Loop, Incoming, Outgoing
<1> QED BY <1>2, <1>3, <1>4, <1>5, <1>6

LEMMA BatchBeginsKeeps ==
    ASSUME Typed, Shaped, Inv, BatchBegins
    PROVE  Inv'
<1>1. Looping /\ Order.type = "batch" /\ disk' = disk /\ frontend' = frontend /\ up' = up
      /\ budget' = budget
  BY DEF BatchBegins
<1>2. /\ worker.pc = "loop" /\ Alive /\ Listening /\ up = <<>> /\ down # <<>> /\ down' = <<>>
      /\ Order \in Orders /\ 1 \in DOMAIN down /\ Order = down[1]
      /\ Underway => /\ Len(F) = 1 /\ Order.id = F[1].id /\ Order.actions = F[1].actions
  BY <1>1, Takes
<1> DEFINE run == Running(Order.actions[1], 0, Order.blocked)
           job == [id |-> Order.id, actions |-> Order.actions, reads |-> {}, strayed |-> FALSE]
           stack == <<run>>
<1>3. Order.actions[1] \in Actions /\ 1 \in DOMAIN Order.actions /\ Order.blocked \in SUBSET Assets
  BY <1>1, <1>2, BuildIs
<1>4. /\ run \in Runs /\ run.action = Order.actions[1] /\ run.build = 0
      /\ run.blocked = Order.blocked /\ run.call = None
      /\ run.told = <<>> /\ ~run.strayed /\ ~run.upset
  <2>1. run \in Runs BY <1>3, RunningTyped
  <2> QED BY <2>1 DEF Running
<1>5. job.reads = {} /\ ~job.strayed /\ job.id = Order.id /\ job.actions = Order.actions
  OBVIOUS
<1>6. worker' = [worker EXCEPT !.pc = "busy", !.entry = {}, !.batch = job, !.stack = stack]
  BY DEF BatchBegins
<1> HIDE DEF run, job
<1>7. /\ worker'.pc = "busy" /\ worker'.started = worker.started /\ worker'.cache = worker.cache
      /\ worker'.sent = worker.sent /\ worker'.batch = job /\ worker'.entry = {}
      /\ S' = <<run>>
  BY <1>6 DEF Typed, Workers, S
<1>8. Uniform(Order.actions) /\ Later(Order.actions[1]) \subseteq Order.blocked
  BY <1>1, <1>2 DEF Inv, Posed
<1>9. budget.faults = MaxFaults => Underway
  <2> SUFFICES ASSUME budget.faults = MaxFaults, ~Underway PROVE FALSE OBVIOUS
  <2>1. frontend.pc = "greet" BY <1>2 DEF Listening, Underway
  <2> QED BY <1>1, <1>2, <2>1 DEF Inv, Healthy
<1>10. run.build + 1 = 1 BY <1>4
<1> QED BY <1>1, <1>2, <1>3, <1>4, <1>5, <1>7, <1>8, <1>9, <1>10, StartsKeeps

LEMMA ControlKeeps ==
    ASSUME Typed, Shaped, Inv, Control
    PROVE  Inv'
<1>1. Looping /\ Order.type # "batch" /\ disk' = disk /\ frontend' = frontend /\ budget' = budget
  BY DEF Control
<1>2. /\ worker.pc = "loop" /\ Alive /\ Listening /\ up = <<>> /\ down # <<>> /\ down' = <<>>
      /\ Order \in Orders /\ S = <<>> /\ ~Underway
  BY <1>1, Takes
<1>3. Turn /\ Ladder /\ Posed /\ Cleaned /\ Loop /\ Paired /\ Placed /\ Taken /\ Edged /\ Current /\ Healthy
  BY DEF Inv
<1> DEFINE m == [type |-> IF Order.type \in {"initialize", "reset"} THEN "ack" ELSE "error",
                 id |-> Order.id]
           clears == Order.type = "initialize" \/ (Order.type = "reset" /\ worker.started)
<1>4. worker' = (IF clears THEN Cleared(worker) ELSE worker) BY DEF Control
<1>20. Send(m) BY DEF Control
<1>5. m.id = Order.id /\ m.type \in {"ack", "error"}
      /\ (m.type = "ack" <=> Order.type \in {"initialize", "reset"})
  OBVIOUS
<1>6. m \in Messages
  <2>1. Order.id \in Nat BY <1>2 DEF Orders, Greetings, Builds, Replies
  <2> QED BY <2>1 DEF Messages, Signals
<1> HIDE DEF m
<1>7. up' # <<>> /\ Len(up') = 1 /\ Message' = m
  <2>1. up' # <<>> /\ Len(up') = Len(up) + 1 /\ Message' = m BY <1>2, <1>6, <1>20, SendDoes
  <2>2. Len(<<>>) = 0 OBVIOUS
  <2> QED BY <1>2, <2>1, <2>2
<1>8. frontend.pc = "greet" BY <1>2 DEF Listening, Underway
<1>9. /\ worker'.pc = "loop" /\ S' = <<>>
      /\ worker.started => worker'.started
      /\ clears => worker'.started /\ worker'.sent = {} /\ DOMAIN worker'.cache = {}
  BY <1>2, <1>4, NoVersions DEF Cleared, Typed, Workers, S
<1>10. Order.type \in {"initialize", "reset"} => clears
  BY <1>2, <1>3, <1>8 DEF Cleaned, Incoming
<1> HIDE DEF clears
<1>11. Alive' /\ ~Free' /\ Underway' = Underway /\ Listening' = Listening /\ Len(S') = 0
       /\ DOMAIN S' = {}
  BY <1>1, <1>9, FrontendStays, NoVersions DEF Alive, Free
<1>12. Ladder' /\ Loop' /\ Paired' /\ Placed' /\ TrueToView' BY <1>2, <1>11, Idle
<1>13. Turn'
  <2>1. 1..(Len(S') - 1) = {} BY <1>11
  <2> QED BY <1>2, <1>7, <1>11, <2>1 DEF Turn
<1>14. Posed'
  <2>1. DOMAIN <<>> = {} BY NoVersions
  <2> QED BY <1>2, <1>9, <1>11, <2>1 DEF Posed
<1>15. Cleaned'
  <2>1. ~Incoming("reset")' BY <1>2 DEF Incoming
  <2>2. Outgoing("ack")' => worker'.started /\ worker'.sent = {} /\ DOMAIN worker'.cache = {}
    BY <1>5, <1>7, <1>9, <1>10 DEF Outgoing
  <2> QED BY <1>1, <1>2, <1>3, <1>9, <2>1, <2>2 DEF Cleaned
<1>16. Taken' BY <1>1, <1>3, <1>8 DEF Taken
<1>17. Edged' BY <1>1, <1>2, <1>3, <1>9, <1>11, FrontendStays DEF Edged
<1>18. Current' BY <1>1, <1>2, <1>3, <1>11, <1>12, FrontendStays DEF Current, Fresh
<1>19. Healthy'
  <2> SUFFICES ASSUME budget.faults = MaxFaults PROVE Healthy' BY <1>1 DEF Healthy
  <2>1. Order.type \in {"initialize", "reset"} /\ Order.id = frontend.id - 1
    BY <1>2, <1>3, <1>8 DEF Healthy
  <2>2. Message'.type = "ack" /\ Message'.id = frontend'.id - 1 BY <1>1, <1>5, <1>7, <2>1
  <2>3. frontend'.pc # "failed" BY <1>1, <1>8
  <2> QED BY <1>2, <1>9, <1>11, <2>2, <2>3 DEF Healthy
<1> QED BY <1>12, <1>13, <1>14, <1>15, <1>16, <1>17, <1>18, <1>19 DEF Inv

LEMMA EditKeeps ==
    ASSUME Typed, Shaped, Inv, NEW s \in Sources, Edit(s)
    PROVE  Inv'
<1>1. frontend' = frontend /\ worker' = worker /\ down' = down /\ up' = up
      /\ budget'.faults = budget.faults
  BY DEF Edit, Typed
<1>2. \A a \in Assets : disk'[a] \in Nat /\ disk[a] \in Nat /\ disk'[a] >= disk[a] BY EditTyped
<1>3. Turn' /\ Ladder' /\ Posed' /\ Cleaned' /\ Loop' /\ Paired' /\ Placed' /\ Taken' /\ Edged'
  <2>1. Turn /\ Ladder /\ Posed /\ Cleaned BY DEF Inv
  <2>2. Loop /\ Paired /\ Placed BY DEF Inv
  <2>3. Taken /\ Edged BY DEF Inv
  <2>4. Turn' /\ Posed' /\ Cleaned'
    BY <1>1, <2>1, ActiveSame, FrontendStays DEF Turn, Posed, Cleaned, Incoming, Outgoing, Order, Message
  <2>5. Ladder' BY <1>1, <2>1, FrontendStays
  <2>6. Loop' /\ Placed'
    BY <1>1, <2>2, ActiveSame, FrontendStays
    DEF Loop, Placed, Incoming, Outgoing, Order, Message, Underway, F, Beyond, Top
  <2>7. Paired'
    BY <1>1, <2>2, ActiveSame, FrontendStays DEF Paired, Underway, F, Beyond, Lead
  <2>8. Taken' /\ Edged'
    BY <1>1, <2>3, ActiveSame, FrontendStays
    DEF Taken, Edged, Outgoing, Message, Underway, Listening, Owned, Nested, Top
  <2> QED BY <2>4, <2>5, <2>6, <2>7, <2>8
<1>4. Current'
  <2>1. Current BY DEF Inv
  <2>2. frontend.floor \in [Assets -> Nat] BY DEF Typed, Frontends
  <2>3. \A a \in Assets : Fresh(a, disk[a]) => Fresh(a, disk[a])'
    <3> TAKE a \in Assets
    <3>1. frontend.floor[a] \in Nat BY <2>2
    <3> QED BY <1>1, <1>2, <3>1 DEF Fresh
  <2>4. TrueToView' BY <1>1, <2>1 DEF Current, TrueToView, Underway
  <2> QED BY <1>1, <2>1, <2>3, <2>4, ActiveSame, FrontendStays
      DEF Current, Incoming, Order, Underway, Listening, Fresh
<1>5. Healthy'
  <2>1. Healthy BY DEF Inv
  <2> QED BY <1>1, <2>1, ActiveSame, FrontendStays
      DEF Healthy, Incoming, Outgoing, Order, Message, Underway, F
<1> QED BY <1>3, <1>4, <1>5 DEF Inv

LEMMA DiesKeeps ==
    ASSUME Typed, Shaped, Inv, Dies
    PROVE  Inv'
<1>1. frontend' = frontend /\ down' = <<>> /\ up' = up /\ disk' = disk /\ budget'.faults < MaxFaults
  BY FaultTyped DEF Dies, Typed
<1>2. worker'.pc = "dead" /\ S' = <<>> BY DEF Dies, Typed, Workers, S
<1>3. ~Alive' /\ ~Free' /\ Len(S') = 0 /\ DOMAIN S' = {} BY <1>2, NoVersions DEF Alive, Free
<1>4. Turn /\ Ladder /\ Taken /\ Edged /\ Current BY DEF Inv
<1>5. Underway' = Underway /\ Listening' = Listening BY <1>1, FrontendStays
<1>6. up # <<>> => Len(up) = 1 /\ Listening BY <1>4, Turns
<1>7. Turn'
  <2>1. 1..(Len(S') - 1) = {} BY <1>3
  <2>2. Len(<<>>) = 0 OBVIOUS
  <2>3. Len(up) <= 1
    <3>1. CASE up = <<>> BY <2>2, <3>1
    <3>2. CASE up # <<>>
      <4>1. Len(up) = 1 BY <1>6, <3>2
      <4> QED BY <4>1
    <3> QED BY <3>1, <3>2
  <2> QED BY <1>1, <1>3, <1>5, <1>6, <2>1, <2>3 DEF Turn
<1>8. Ladder' BY <1>1, <1>4, FrontendStays
<1>9. Posed'
  <2>1. DOMAIN <<>> = {} BY NoVersions
  <2> QED BY <1>1, <1>2, <1>3, <2>1 DEF Posed
<1>10. Cleaned' BY <1>3 DEF Cleaned
<1>11. Loop' /\ Paired' /\ Placed' BY <1>2 DEF Loop, Paired, Placed
<1>12. Taken' BY <1>1, <1>4, FrontendStays DEF Taken, Outgoing, Message
<1>13. Edged' BY <1>1, <1>2, <1>3, <1>4, <1>5, FrontendStays DEF Edged
<1>14. Current'
  <2>1. TrueToView' BY <1>1, <1>3, TruthNext
  <2> QED BY <1>1, <1>3, <1>4, <1>5, <2>1, FrontendStays DEF Current, Fresh
<1>15. Healthy'
  <2>1. budget'.faults # MaxFaults BY <1>1, DialogueAssumption
  <2> QED BY <2>1 DEF Healthy
<1> QED BY <1>7, <1>8, <1>9, <1>10, <1>11, <1>12, <1>13, <1>14, <1>15 DEF Inv

LEMMA StillKeeps ==
    ASSUME Typed, Shaped, Inv, UNCHANGED vars
    PROVE  Inv'
<1>1. frontend' = frontend /\ worker' = worker /\ down' = down /\ up' = up /\ disk' = disk
      /\ budget' = budget
  BY DEF vars
<1> QED BY <1>1, ActiveSame, FrontendStays
    DEF Inv, Turn, Ladder, Posed, Cleaned, Loop, Paired, Placed, Taken, Edged, Current, Healthy,
        TrueToView, Underway, F, Beyond, Lead, Top, Owned, Nested, Fresh, Lazy, Incoming, Outgoing,
        Order, Message, Listening

LEMMA InitInv ==
    ASSUME Init
    PROVE  Inv
<1>1. Typed /\ Shaped BY InitTyped
<1>2. frontend.pc = "idle" /\ ~frontend.greeted /\ ~frontend.strayed BY DEF Init
<1>3. worker.pc = "loop" /\ S = <<>> /\ down = <<>> /\ up = <<>>
  BY DEF Init, NewWorker, S
<1>4. ~Underway /\ ~Listening /\ Alive /\ ~Free /\ Len(S) = 0 /\ DOMAIN S = {} /\ DOMAIN <<>> = {}
  BY <1>2, <1>3, NoVersions DEF Underway, Listening, Alive, Free
<1>5. Turn
  <2>1. 1..(Len(S) - 1) = {} BY <1>4
  <2> QED BY <1>3, <1>4, <2>1 DEF Turn
<1>6. Ladder /\ Loop /\ Paired /\ Placed /\ TrueToView
  BY <1>4 DEF Ladder, Loop, Paired, Placed, TrueToView
<1>7. Posed BY <1>3, <1>4 DEF Posed
<1>8. Cleaned BY <1>2 DEF Cleaned
<1>9. Taken BY <1>2 DEF Taken
<1>10. Edged BY <1>2, <1>3, <1>4 DEF Edged
<1>11. Current BY <1>4, <1>6 DEF Current
<1>12. Healthy BY <1>2, <1>3, <1>4 DEF Healthy
<1> QED BY <1>5, <1>6, <1>7, <1>8, <1>9, <1>10, <1>11, <1>12 DEF Inv

LEMMA NextKeeps ==
    ASSUME Typed, Shaped, Inv, [Next]_vars
    PROVE  Inv'
<1>1. CASE FrontendStep
  BY <1>1, GreetedKeeps, AskedKeeps, DemandKeeps, SkipKeeps, AnswerKeeps,
     NestedEndsKeeps, BatchEndsKeeps, EofKeeps
  DEF FrontendStep
<1>2. CASE WorkerStep
  BY <1>2, ControlKeeps, BatchBeginsKeeps, NestedBeginsKeeps, AnswerArrivesKeeps, AnswerThrowsKeeps,
     NestedSucceedsKeeps, SucceedsKeeps
  DEF WorkerStep
<1>3. ASSUME NEW batch \in Batches, NEW changed \in BOOLEAN, Begin(batch, changed)
      PROVE  Inv'
  BY <1>3, BeginKeeps
<1>4. ASSUME NEW op \in Operations, NEW a \in Assets, Ask(op, IF op = "find_assets" THEN Assets ELSE {a})
      PROVE  Inv'
  <2> DEFINE assets == IF op = "find_assets" THEN Assets ELSE {a}
  <2>1. assets \in SUBSET Assets OBVIOUS
  <2>2. Ask(op, assets) BY <1>4
  <2> HIDE DEF assets
  <2> QED BY <2>1, <2>2, AskKeeps
<1>5. ASSUME NEW a \in Assets, Recall(a) PROVE Inv'
  BY <1>5, RecallKeeps
<1>6. ASSUME NEW s \in Sources, Edit(s) PROVE Inv'
  BY <1>6, EditKeeps
<1>7. CASE Fails \/ AnswerFails \/ Dies
  BY <1>7, FailsKeeps, AnswerFailsKeeps, DiesKeeps
<1>8. CASE UNCHANGED vars
  BY <1>8, StillKeeps
<1> QED BY <1>1, <1>2, <1>3, <1>4, <1>5, <1>6, <1>7, <1>8 DEF Next

----------------------------------------------------------------------------
(* What follows.                                                             *)

(* The invariant holds in every run: whose turn it is, where the worker      *)
(* stands, and what each side may take from the other.                       *)
THEOREM Invariance == Spec => []Inv
<1>1. Init => Typed /\ Shaped /\ Inv BY InitTyped, InitInv
<1>2. Typed /\ Shaped /\ Inv /\ [Next]_vars => (Typed /\ Shaped /\ Inv)' BY NextTyped, NextKeeps
<1> QED BY <1>1, <1>2, PTL DEF Spec

(* Frontend and worker take turns: never is more than one message in the     *)
(* pipes of a worker that lives, whatever has failed.                        *)
THEOREM TakingTurns == Spec => []HalfDuplex
<1>1. Typed /\ Inv => HalfDuplex
  <2> SUFFICES ASSUME Typed, Inv, worker.pc # "dead" PROVE Len(up) + Len(down) <= 1 BY DEF HalfDuplex
  <2>1. Turn /\ Alive BY DEF Inv, Alive
  <2>2. Len(<<>>) = 0 /\ 0 + 1 <= 1 /\ 1 + 0 <= 1 /\ 0 + 0 <= 1 OBVIOUS
  <2>3. CASE Listening
    <3>1. \/ up = <<>> /\ Len(down) = 1
          \/ down = <<>> /\ Len(up) = 1
          \/ down = <<>> /\ up = <<>>
      BY <2>1, <2>3 DEF Turn
    <3> QED BY <2>2, <3>1
  <2>4. CASE ~Listening
    <3>1. up = <<>> /\ down = <<>> BY <2>1, <2>4 DEF Turn
    <3> QED BY <2>2, <3>1
  <2> QED BY <2>3, <2>4
<1>2. Spec => []Typed BY Typing, PTL
<1> QED BY <1>1, <1>2, Invariance, PTL

(* No builder is told what its phase may not see, nor a content older than   *)
(* the attempt, nor an optional asset that the attempt has not built.        *)
THEOREM TruthTold == Spec => []TrueToView
<1>1. Inv => TrueToView BY DEF Inv, Current
<1> QED BY <1>1, Invariance, PTL

(* An attempt that succeeds has used no answer to another session's request. *)
THEOREM AnswersOwn == Spec => []OwnAnswers
<1>1. Inv => OwnAnswers BY DEF Inv, Taken, OwnAnswers
<1> QED BY <1>1, Invariance, PTL

(* An attempt that succeeds has got the edges of all its actions resolved.   *)
THEOREM EdgesComplete == Spec => []EdgesKnown
<1>1. Inv => EdgesKnown BY DEF Inv, Edged, Owned, EdgesKnown
<1> QED BY <1>1, Invariance, PTL

(* An attempt fails only in a run in which something has failed.             *)
THEOREM FailsForCause == Spec => []UndisturbedSucceeds
<1>1. Inv => UndisturbedSucceeds BY DEF Inv, Healthy, UndisturbedSucceeds
<1> QED BY <1>1, Invariance, PTL
==============================================================================
