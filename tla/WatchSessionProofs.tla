-------------------------- MODULE WatchSessionProofs --------------------------
(* What a watch session promises, for any sessions, widths of the pool,      *)
(* edits and faults: theorems about WatchSession.                            *)
EXTENDS WatchSession, SequenceTheorems, TLAPS

\* The name of a value the model copies.
USE DEF Preflight

----------------------------------------------------------------------------
(* The inductive invariant.                                                  *)

Disks == [src : Version, config : Version, announced : Version, broken : BOOLEAN,
          output : BOOLEAN, graph : Graph, stamped : BOOLEAN, undo : Undo \union {None}]
States == [packages : Seq(STRING), retain : BOOLEAN, deferred : BOOLEAN, pc : Steps,
           initial : BOOLEAN, subscribed : BOOLEAN, cached : Version \union {None},
           signature : Version \union {None}, resident : Graph \union {None},
           working : Graph \union {None}, changed : BOOLEAN, succeeded : BOOLEAN,
           ok : BOOLEAN, known : BOOLEAN, preflight : Version \union {None}, seen : Graph,
           at : Nat]
Options(s) == [packages |-> s.packages, retain |-> s.retain, deferred |-> s.deferred]

Typed ==
    /\ disk \in Disks /\ queue \in Seq(Kinds) /\ session \in States
    /\ pool \in Pool \union {None}
    /\ budget \in [edits : 0..MaxEdits, faults : Nat, unanswered : BOOLEAN]
    /\ Options(session) \in Sessions /\ session.at \in 1..Len(session.packages)
    /\ disk.src <= budget.edits + 1 /\ disk.config <= budget.edits + 1
    /\ disk.announced <= disk.config

\* Where an attempt has its plan, where it knows what it builds, and where a
\* successful one has come to its end.
Building == {"initialize", "prepare", "dispatch", "commit", "publish"}
Planning == {"subscribe", "start", "scan"} \union Building
Done == session.pc \in {"classify", "wait"} /\ session.ok

Holds(events, event) == \E i \in DOMAIN events : events[i] = event

Fitting(p) == Len(p.workers) <= Jobs /\ (p.count <= Len(p.workers) \/ p.workers = <<>>)

\* The plan and the pool are there where they are used, and the pool keeps to
\* its width.
Equipped ==
    /\ session.pc \in Planning \/ Done => session.cached # None
    /\ session.pc \in {"scan", "initialize", "prepare", "dispatch"} => pool # None
    /\ pool # None => Fitting(pool)

\* What was counted as initialized is of the pool's signature, but for a process
\* started in the place of others that were lost.
Admits(p) ==
    \A i \in DOMAIN p.workers : i <= p.count => p.workers[i].signature \in {None, p.initialized}
Admitted == pool # None => Admits(pool)

\* Between initialization and dispatch all processes are of the signature in
\* hand, and clear.
Clear(p, signature) ==
    /\ p.initialized = signature /\ p.count = Len(p.workers)
    /\ \A i \in DOMAIN p.workers :
        p.workers[i].signature \in {None, signature} /\ ~p.workers[i].used
Fresh == session.pc \in {"prepare", "dispatch"} => Clear(pool, Signature)

\* An attempt works on the recovered graph of the file, and a resident graph
\* that carries the file's stamp equals it.
Taken == session.pc = "configure" /\ session.working # None
Grounded ==
    /\ Taken \/ session.pc \in Planning \/ Done => disk.undo = None
    /\ Taken \/ session.pc \in {"subscribe", "start", "scan"} => session.working = disk.graph
    /\ session.pc = "publish" => session.seen = disk.graph
    /\ session.resident # None /\ disk.stamped => session.resident = disk.graph

\* What differs from what was read or built is still in the channel.
Told ==
    /\ session.pc \in {"start", "scan"} \union Building \/ Done => session.subscribed
    /\ session.pc \in Building \/ Done => session.seen.src = disk.src \/ Holds(queue, "source")
    /\ session.pc = "publish" \/ Done => disk.output \/ Holds(queue, "removed")
    /\ ~session.retain /\ (session.pc \in Planning \/ Done)
        => session.cached >= disk.announced \/ Holds(queue, "config")
    /\ ~session.subscribed => disk.announced = 0

Inv == Typed /\ Equipped /\ Admitted /\ Fresh /\ Grounded /\ Told

----------------------------------------------------------------------------
(* The channel.                                                              *)

LEMMA Singletons ==
    ASSUME NEW kind \in Kinds
    PROVE  <<kind>> \in Seq(Kinds) /\ Holds(<<kind>>, kind)
<1>1. Len(<<kind>>) = 1 /\ <<kind>>[1] = kind OBVIOUS
<1> QED BY <1>1 DEF Holds

LEMMA NotifiedIs ==
    ASSUME queue \in Seq(Kinds), NEW events \in Seq(Kinds)
    PROVE  /\ Notified(events) \in Seq(Kinds)
           /\ \A event : Holds(queue, event) => Holds(Notified(events), event)
           /\ session.subscribed =>
                \A event : Holds(events, event) => Holds(Notified(events), event)
<1>1. /\ queue \o events \in Seq(Kinds) /\ Len(queue \o events) = Len(queue) + Len(events)
      /\ \A i \in 1..(Len(queue) + Len(events)) :
            (queue \o events)[i] = IF i <= Len(queue) THEN queue[i] ELSE events[i - Len(queue)]
  BY ConcatProperties
<1>2. Len(queue) \in Nat /\ Len(events) \in Nat OBVIOUS
<1>3. DOMAIN queue = 1..Len(queue) /\ DOMAIN events = 1..Len(events)
      /\ DOMAIN (queue \o events) = 1..(Len(queue) + Len(events))
  BY <1>1
<1>4. ASSUME NEW event, Holds(queue, event) PROVE Holds(queue \o events, event)
  <2>1. PICK i \in 1..Len(queue) : queue[i] = event BY <1>3, <1>4 DEF Holds
  <2>2. i \in 1..(Len(queue) + Len(events)) BY <1>2
  <2>3. (queue \o events)[i] = event BY <1>1, <2>1, <2>2
  <2> QED BY <1>3, <2>2, <2>3 DEF Holds
<1>5. ASSUME NEW event, Holds(events, event) PROVE Holds(queue \o events, event)
  <2>1. PICK i \in 1..Len(events) : events[i] = event BY <1>3, <1>5 DEF Holds
  <2>2. PICK j \in 1..(Len(queue) + Len(events)) :
            j = Len(queue) + i /\ ~(j <= Len(queue)) /\ j - Len(queue) = i
    BY <1>2
  <2>3. (queue \o events)[j] = event BY <1>1, <2>1, <2>2
  <2> QED BY <1>3, <2>3 DEF Holds
<1> QED BY <1>1, <1>4, <1>5 DEF Notified

LEMMA TailIs ==
    ASSUME NEW events \in Seq(Kinds), events # <<>>
    PROVE  /\ Tail(events) \in Seq(Kinds) /\ Head(events) \in Kinds
           /\ \A event : Holds(events, event) /\ Head(events) # event
                => Holds(Tail(events), event)
<1>1. /\ Tail(events) \in Seq(Kinds) /\ Len(Tail(events)) = Len(events) - 1
      /\ \A i \in 1..(Len(events) - 1) : Tail(events)[i] = events[i + 1]
      /\ Head(events) = events[1] /\ Head(events) \in Kinds
  BY HeadTailProperties
<1>2. Len(events) \in Nat /\ DOMAIN events = 1..Len(events)
      /\ DOMAIN Tail(events) = 1..(Len(events) - 1)
  BY <1>1
<1>3. ASSUME NEW event, Holds(events, event), Head(events) # event
      PROVE  Holds(Tail(events), event)
  <2>1. PICK i \in 1..Len(events) : events[i] = event BY <1>2, <1>3 DEF Holds
  <2>2. i # 1 BY <1>1, <1>3, <2>1
  <2>3. PICK j \in 1..(Len(events) - 1) : i = j + 1 BY <1>2, <2>2
  <2>4. Tail(events)[j] = event BY <1>1, <2>1, <2>3
  <2> QED BY <1>2, <2>4 DEF Holds
<1> QED BY <1>1, <1>3

\* Events that matter stay in the channel until an attempt is due.
LEMMA QueueStep ==
    ASSUME Typed, Next
    PROVE  /\ queue' \in Seq(Kinds)
           /\ session.subscribed /\ session'.pc # "debounce" =>
                \A event \in {"source", "removed", "config"} :
                    Holds(queue, event) => Holds(queue', event)
           /\ session.subscribed =>
                /\ EditSource => Holds(queue', "source")
                /\ EditConfiguration => Holds(queue', "config")
                /\ RemoveOutput => Holds(queue', "removed")
<1> DEFINE Kept == /\ queue' \in Seq(Kinds)
                   /\ \A event : Holds(queue, event) => Holds(queue', event)
<1>1. queue \in Seq(Kinds) /\ session \in States BY DEF Typed
<1>2. ASSUME NEW kind \in Kinds, queue' = Notified(<<kind>>)
      PROVE  Kept /\ (session.subscribed => Holds(queue', kind))
  <2>1. PICK events \in Seq(Kinds) : events = <<kind>> /\ Holds(events, kind) BY Singletons
  <2> QED BY <1>1, <1>2, <2>1, NotifiedIs
<1>3. /\ EditSource => queue' = Notified(<<"source">>)
      /\ EditConfiguration => queue' = Notified(<<"config">>)
      /\ RemoveOutput => queue' = Notified(<<"removed">>)
      /\ BreakPackages \/ RepairPackages => queue' = Notified(<<"package">>)
      /\ Commit \/ CommitFails => queue' = Notified(<<"post">>)
      /\ TakeForBuild \/ Classify =>
            queue' \in {queue, Notified(<<"written">>), Notified(<<"removed">>)}
  BY DEF EditSource, EditConfiguration, RemoveOutput, BreakPackages, RepairPackages, Commit,
     CommitFails, TakeForBuild, Classify, RollbackEvents
<1>4. {"source", "config", "removed", "package", "post", "written"} \subseteq Kinds
  BY DEF Kinds
<1>5. session.subscribed =>
        /\ EditSource => Holds(queue', "source")
        /\ EditConfiguration => Holds(queue', "config")
        /\ RemoveOutput => Holds(queue', "removed")
  BY <1>2, <1>3, <1>4
<1> DEFINE Goal == /\ queue' \in Seq(Kinds)
                   /\ session.subscribed /\ session'.pc # "debounce" =>
                        \A event \in {"source", "removed", "config"} :
                            Holds(queue, event) => Holds(queue', event)
<1> SUFFICES Goal BY <1>5
<1>6. CASE EditSource \/ EditConfiguration \/ RemoveOutput \/ BreakPackages \/ RepairPackages
           \/ Commit \/ CommitFails \/ TakeForBuild \/ Classify \/ queue' = queue
  <2>1. Kept BY <1>1, <1>2, <1>3, <1>4, <1>6
  <2> QED BY <2>1
<1>7. CASE Subscribe
  <2>1. queue' = queue \/ (queue' = <<>> /\ ~session.subscribed)
    BY <1>7 DEF Subscribe, Subscribed
  <2>2. CASE queue' = queue BY <1>1, <2>2
  <2>3. CASE queue' = <<>> /\ ~session.subscribed BY <1>1, <2>3
  <2> QED BY <2>1, <2>2, <2>3
<1>8. CASE Receive \/ Coalesce
  <2>1. queue # <<>> /\ queue' = Tail(queue) BY <1>8 DEF Receive, Coalesce
  <2>2. session'.pc # "debounce" => Head(queue) \in {"written", "post"}
    <3>1. CASE Coalesce
      BY <1>1, <3>1 DEF Coalesce, Attempt, States
    <3>2. CASE Receive
      BY <1>1, <3>2 DEF Receive, IsRelevantEvent, IsGeneratedOutput, States
    <3> QED BY <1>8, <3>1, <3>2
  <2> QED BY <1>1, <2>1, <2>2, TailIs
<1> QED
  BY <1>6, <1>7, <1>8 DEF Next, Step, World, LoadWorkspace, RecoverFails, Configure,
     Unsupported, StartPool, StartFails, Scan, Initialize, InitializeFails, Prepare,
     PrepareFails, Dispatch, BuilderFails, Publish, BeginLoop, Expire, ReplaceGraph, KillWorker

----------------------------------------------------------------------------
(* The pool.                                                                 *)

LEMMA Processes ==
    /\ Started \in Worker /\ ~Started.used /\ Started.signature = None
    /\ \A signature \in Signatures :
        /\ Cleared(signature) \in Worker /\ ~Cleared(signature).used
        /\ Cleared(signature).signature = signature
    /\ \A worker \in Worker :
        /\ Reset(worker) \in Worker /\ ~Reset(worker).used
        /\ Reset(worker).signature = worker.signature
BY DEF Started, Cleared, Reset, Worker

LEMMA Mapped ==
    ASSUME NEW n \in Nat, NEW workers \in [1..n -> Worker]
    PROVE  workers \in Seq(Worker) /\ Len(workers) = n /\ DOMAIN workers = 1..n
<1>1. workers \in Seq(Worker) OBVIOUS
<1> QED BY <1>1

LEMMA PoolParts ==
    ASSUME NEW p \in Pool
    PROVE  /\ p.workers \in Seq(Worker) /\ p.initialized \in Signatures \union {None}
           /\ p.count \in Nat /\ Len(p.workers) \in Nat
           /\ DOMAIN p.workers = 1..Len(p.workers)
           /\ \A i \in 1..Len(p.workers) : p.workers[i] \in Worker
<1>1. p.workers \in Seq(Worker) /\ p.initialized \in Signatures \union {None} /\ p.count \in Nat
  BY DEF Pool
<1> QED BY <1>1

\* A pool of as many processes, changed one by one.
LEMMA Rebuilt ==
    ASSUME NEW p \in Pool, NEW workers \in [1..Len(p.workers) -> Worker],
           NEW initialized \in Signatures \union {None}, NEW count \in Nat, NEW q,
           q = [workers |-> workers, initialized |-> initialized, count |-> count]
    PROVE  /\ q \in Pool /\ q.workers = workers /\ q.initialized = initialized
           /\ q.count = count /\ Len(q.workers) = Len(p.workers)
<1>1. workers \in Seq(Worker) /\ Len(workers) = Len(p.workers) BY PoolParts, Mapped
<1> QED BY <1>1 DEF Pool

LEMMA InitializePendingIs ==
    ASSUME NEW p \in Pool, NEW signature \in Signatures, NEW q,
           q = InitializePending(p, signature)
    PROVE  /\ q \in Pool /\ q.initialized = p.initialized /\ q.count = Len(p.workers)
           /\ Len(q.workers) = Len(p.workers)
           /\ \A i \in 1..Len(p.workers) :
                q.workers[i] = IF i > p.count THEN Cleared(signature) ELSE p.workers[i]
<1> DEFINE workers == [i \in 1..Len(p.workers) |->
                        IF i > p.count THEN Cleared(signature) ELSE p.workers[i]]
<1>1. workers \in [1..Len(p.workers) -> Worker] BY PoolParts, Processes
<1>2. q = [workers |-> workers, initialized |-> p.initialized, count |-> Len(p.workers)]
  BY PoolParts DEF InitializePending, Pool
<1>3. q \in Pool /\ q.workers = workers /\ q.initialized = p.initialized
      /\ q.count = Len(p.workers) /\ Len(q.workers) = Len(p.workers)
  <2> HIDE DEF workers
  <2>1. PICK n \in Nat : n = Len(p.workers) BY PoolParts
  <2> QED BY <1>1, <1>2, <2>1, PoolParts, Rebuilt
<1> QED BY <1>3

LEMMA PendingFailsIs ==
    ASSUME NEW p \in Pool, NEW signature \in Signatures, NEW at, NEW q,
           q = PendingFails(p, signature, at)
    PROVE  /\ q \in Pool /\ q.initialized = p.initialized /\ q.count = p.count
           /\ Len(q.workers) = Len(p.workers)
           /\ \A i \in 1..Len(p.workers) : i <= p.count => q.workers[i] = p.workers[i]
<1> DEFINE workers == [i \in 1..Len(p.workers) |->
                        IF i > p.count /\ i < at THEN Cleared(signature) ELSE p.workers[i]]
<1>1. workers \in [1..Len(p.workers) -> Worker] BY PoolParts, Processes
<1>2. q = [workers |-> workers, initialized |-> p.initialized, count |-> p.count]
  BY PoolParts DEF PendingFails, Pool
<1>3. q \in Pool /\ q.workers = workers /\ q.initialized = p.initialized
      /\ q.count = p.count /\ Len(q.workers) = Len(p.workers)
  <2> HIDE DEF workers
  <2> QED BY <1>1, <1>2, PoolParts, Rebuilt
<1>4. \A i \in 1..Len(p.workers) : i <= p.count => ~(i > p.count) BY PoolParts
<1> QED BY <1>3, <1>4

LEMMA ResetUpToIs ==
    ASSUME NEW p \in Pool, NEW last, NEW q, q = ResetUpTo(p, last)
    PROVE  /\ q \in Pool /\ q.initialized = p.initialized /\ q.count = p.count
           /\ Len(q.workers) = Len(p.workers)
           /\ \A i \in 1..Len(p.workers) : q.workers[i].signature = p.workers[i].signature
<1> DEFINE workers == [i \in 1..Len(p.workers) |->
                        IF i \in Resettable(p) /\ i <= last THEN Reset(p.workers[i])
                        ELSE p.workers[i]]
<1>1. workers \in [1..Len(p.workers) -> Worker] BY PoolParts, Processes
<1>2. q = [workers |-> workers, initialized |-> p.initialized, count |-> p.count]
  BY PoolParts DEF ResetUpTo, Pool
<1>3. q \in Pool /\ q.workers = workers /\ q.initialized = p.initialized
      /\ q.count = p.count /\ Len(q.workers) = Len(p.workers)
  <2> HIDE DEF workers
  <2> QED BY <1>1, <1>2, PoolParts, Rebuilt
<1>4. \A i \in 1..Len(p.workers) : workers[i].signature = p.workers[i].signature
  BY PoolParts, Processes
<1> QED BY <1>3, <1>4

LEMMA ResetAllIs ==
    ASSUME NEW p \in Pool, NEW q, q = ResetUpTo(p, Len(p.workers)),
           NEW i \in 1..Len(p.workers), i <= p.count
    PROVE  ~q.workers[i].used
<1>1. i \in Resettable(p) /\ i <= Len(p.workers) BY PoolParts DEF Resettable
<1>2. q.workers = [j \in 1..Len(p.workers) |->
                    IF j \in Resettable(p) /\ j <= Len(p.workers) THEN Reset(p.workers[j])
                    ELSE p.workers[j]]
  BY PoolParts DEF ResetUpTo, Pool
<1>3. q.workers[i] = Reset(p.workers[i]) BY <1>1, <1>2
<1> QED BY <1>3, PoolParts, Processes

LEMMA RenewedIs ==
    ASSUME NEW p \in Pool, NEW q, q = Renewed(p)
    PROVE  /\ q \in Pool /\ q.initialized = p.initialized /\ q.count = 0
           /\ Len(q.workers) = Len(p.workers)
<1>1. CASE p.initialized # None
  <2> DEFINE workers == [i \in 1..Len(p.workers) |-> Started]
  <2>1. workers \in [1..Len(p.workers) -> Worker] BY Processes
  <2>2. q = [workers |-> workers, initialized |-> p.initialized, count |-> 0]
    BY <1>1, PoolParts DEF Renewed, Restart, Pool
  <2> HIDE DEF workers
  <2>3. PICK initialized \in Signatures \union {None}, count \in Nat :
            initialized = p.initialized /\ count = 0
    BY PoolParts
  <2>4. q = [workers |-> workers, initialized |-> initialized, count |-> count]
    BY <2>2, <2>3
  <2>5. /\ q \in Pool /\ q.initialized = initialized /\ q.count = count
        /\ Len(q.workers) = Len(p.workers)
    BY <2>1, <2>4, Rebuilt
  <2> QED BY <2>3, <2>5
<1>2. CASE p.initialized = None
  BY <1>2, PoolParts DEF Renewed, Pool
<1> QED BY <1>1, <1>2

\* After a successful initialization every process is of the signature and clear.
LEMMA InitializedIs ==
    ASSUME NEW p \in Pool, Admits(p), NEW signature \in Signatures, NEW q,
           q = Initialized(p, signature)
    PROVE  q \in Pool /\ Clear(q, signature) /\ Len(q.workers) = Len(p.workers)
<1>1. CASE p.initialized = signature
  <2>0. PICK last, r : last = Len(p.workers) /\ r = ResetUpTo(p, last) OBVIOUS
  <2>1. /\ r \in Pool /\ r.initialized = p.initialized /\ r.count = p.count
        /\ Len(r.workers) = Len(p.workers)
        /\ \A i \in 1..Len(p.workers) : r.workers[i].signature = p.workers[i].signature
    BY <2>0, ResetUpToIs
  <2>2. \A i \in 1..Len(p.workers) : i <= p.count => ~r.workers[i].used
    BY <2>0, ResetAllIs
  <2>3. q = InitializePending(r, signature) BY <1>1, <2>0 DEF Initialized
  <2>4. /\ q \in Pool /\ q.initialized = r.initialized /\ q.count = Len(r.workers)
        /\ Len(q.workers) = Len(r.workers)
        /\ \A i \in 1..Len(r.workers) :
            q.workers[i] = IF i > r.count THEN Cleared(signature) ELSE r.workers[i]
    BY <2>1, <2>3, InitializePendingIs
  <2>5. ASSUME NEW i \in 1..Len(p.workers)
        PROVE  q.workers[i].signature \in {None, signature} /\ ~q.workers[i].used
    <3>1. CASE i > p.count BY <2>1, <2>2, <2>4, <3>1, Processes
    <3>2. CASE ~(i > p.count)
      <4>1. i <= p.count BY <3>2, PoolParts
      <4>2. p.workers[i].signature \in {None, p.initialized} BY <4>1, PoolParts DEF Admits
      <4> QED BY <1>1, <2>1, <2>2, <2>4, <3>2, <4>1, <4>2
    <3> QED BY <3>1, <3>2
  <2>6. DOMAIN q.workers = 1..Len(p.workers) BY <2>1, <2>2, <2>4, PoolParts
  <2> QED BY <1>1, <2>1, <2>2, <2>4, <2>5, <2>6 DEF Clear
<1>2. CASE p.initialized # signature
  <2>1. PICK r \in Pool : r = Renewed(p) BY RenewedIs
  <2>2. r.count = 0 /\ Len(r.workers) = Len(p.workers) BY <2>1, RenewedIs
  <2>3. PICK s \in Pool : s = InitializePending(r, signature) BY InitializePendingIs
  <2>4. /\ s.count = Len(r.workers) /\ Len(s.workers) = Len(r.workers)
        /\ \A i \in 1..Len(r.workers) :
            s.workers[i] = IF i > r.count THEN Cleared(signature) ELSE r.workers[i]
    BY <2>1, <2>3, InitializePendingIs
  <2>5. q = [s EXCEPT !.initialized = signature] BY <1>2, <2>1, <2>3 DEF Initialized
  <2>6. q \in Pool /\ q.initialized = signature /\ q.count = s.count /\ q.workers = s.workers
    BY <2>5 DEF Pool
  <2>7. \A i \in 1..Len(r.workers) : i > r.count BY <2>2, PoolParts
  <2>8. \A i \in 1..Len(p.workers) :
            q.workers[i].signature \in {None, signature} /\ ~q.workers[i].used
    BY <2>1, <2>2, <2>4, <2>6, <2>7, Processes
  <2>9. DOMAIN q.workers = 1..Len(p.workers) BY <2>1, <2>2, <2>4, <2>6, PoolParts
  <2> QED BY <2>1, <2>2, <2>4, <2>6, <2>8, <2>9 DEF Clear
<1> QED BY <1>1, <1>2

LEMMA ExpandIs ==
    ASSUME NEW p \in Pool, NEW requests \in 1..Jobs, NEW q, q = Expand(p, requests),
           Len(p.workers) <= Jobs
    PROVE  /\ q \in Pool /\ q.initialized = p.initialized /\ q.count = p.count
           /\ Len(q.workers) >= Len(p.workers) /\ Len(q.workers) <= Jobs
           /\ \A i \in 1..Len(p.workers) : q.workers[i] = p.workers[i]
<1> DEFINE target == IF requests < Jobs THEN requests ELSE Jobs
           extra == IF target - Len(p.workers) > 0 THEN target - Len(p.workers) ELSE 0
           more == [i \in 1..(target - Len(p.workers)) |-> Started]
<1>1. target \in Nat /\ target <= Jobs /\ Jobs \in Nat BY WatchAssumption
<1>2. extra \in Nat /\ 1..(target - Len(p.workers)) = 1..extra
      /\ Len(p.workers) + extra <= Jobs
  <2>1. PICK n \in Nat, m \in Nat, j \in Nat :
            n = target /\ m = Len(p.workers) /\ j = Jobs /\ n <= j /\ m <= j
    BY <1>1, PoolParts
  <2>2. extra = IF n - m > 0 THEN n - m ELSE 0 BY <2>1
  <2>3. extra \in Nat /\ 1..(n - m) = 1..extra /\ m + extra <= j
    <3> HIDE DEF extra, target
    <3>1. n - m \in Int BY <2>1
    <3>2. CASE n - m > 0
      <4>1. extra = n - m BY <2>2, <3>2
      <4>2. n - m \in Nat /\ m + (n - m) <= j BY <2>1, <3>2
      <4> QED BY <4>1, <4>2
    <3>3. CASE ~(n - m > 0)
      <4>1. extra = 0 BY <2>2, <3>3
      <4>2. \A i \in Int : ~(1 <= i /\ i <= n - m) /\ ~(1 <= i /\ i <= extra)
        BY <3>1, <3>3, <4>1
      <4> QED BY SMTT(20), <2>1, <3>1, <4>1, <4>2
    <3> QED BY <3>2, <3>3
  <2> QED BY <2>1, <2>3
<1>3. more \in [1..extra -> Worker]
  <2>1. more = [i \in 1..extra |-> Started] BY <1>2
  <2> HIDE DEF more, extra
  <2> QED BY <2>1, Processes
<1> HIDE DEF extra
<1>4. more \in Seq(Worker) /\ Len(more) = extra
  <2> HIDE DEF more
  <2> QED BY <1>2, <1>3, Mapped
<1>5. q = [p EXCEPT !.workers = p.workers \o more] BY DEF Expand
<1> HIDE DEF more
<1>6. PICK a \in Seq(Worker), b \in Seq(Worker) : a = p.workers /\ b = more BY <1>4, PoolParts
<1>7. /\ a \o b \in Seq(Worker) /\ Len(a \o b) = Len(a) + Len(b)
      /\ \A i \in 1..(Len(a) + Len(b)) :
            (a \o b)[i] = IF i <= Len(a) THEN a[i] ELSE b[i - Len(a)]
  BY ConcatProperties
<1>8. q \in Pool /\ q.workers = a \o b /\ q.initialized = p.initialized /\ q.count = p.count
  BY <1>5, <1>6, <1>7 DEF Pool
<1>9. Len(a) \in Nat /\ Len(b) = extra /\ Len(a) = Len(p.workers) BY <1>4, <1>6
<1>10. \A i \in 1..Len(a) : i \in 1..(Len(a) + Len(b)) /\ i <= Len(a) BY <1>2, <1>9
<1> QED BY <1>2, <1>6, <1>7, <1>8, <1>9, <1>10

LEMMA MaterializeIs ==
    ASSUME NEW p \in Pool, Fitting(p), NEW q, q = Materialize(p)
    PROVE  /\ q \in Pool /\ q.initialized = p.initialized /\ Len(q.workers) <= Jobs
           /\ Admits(p) => Admits(q)
           /\ p.workers = <<>> => Len(q.workers) = 1 /\ q.workers[1] = Started
           /\ p.workers # <<>> => q = p
<1>1. CASE p.workers = <<>>
  <2>1. q = [p EXCEPT !.workers = <<Started>>] BY <1>1 DEF Materialize
  <2>2. <<Started>> \in Seq(Worker) /\ Len(<<Started>>) = 1 /\ <<Started>>[1] = Started
    BY Processes
  <2>3. q \in Pool /\ q.workers = <<Started>> /\ q.initialized = p.initialized
    BY <2>1, <2>2 DEF Pool
  <2>4. DOMAIN q.workers = 1..1 BY <2>3, PoolParts, <2>2
  <2>5. Admits(q) BY <2>3, <2>4, <2>2, Processes DEF Admits
  <2> QED BY <1>1, <2>2, <2>3, <2>5, WatchAssumption
<1>2. CASE p.workers # <<>> BY <1>2 DEF Materialize, Fitting
<1> QED BY <1>1, <1>2

----------------------------------------------------------------------------
(* The session.                                                              *)

LEMMA SignatureIs ==
    ASSUME Typed, session.cached # None
    PROVE  Signature \in Signatures
<1>1. session \in States /\ Options(session) \in Sessions
      /\ session.at \in 1..Len(session.packages)
  BY DEF Typed
<1>2. PICK s \in Sessions : s = Options(session) /\ s.packages = session.packages
  BY <1>1 DEF Options
<1>3. session.packages \in Seq(STRING) BY <1>1 DEF States
<1>4. session.at \in DOMAIN s.packages BY <1>1, <1>2, <1>3
<1>5. session.packages[session.at] \in Range(s.packages) BY <1>2, <1>4 DEF Range
<1>6. session.packages[session.at] \in UNION {Range(t.packages) : t \in Sessions} BY <1>5
<1>7. session.cached \in Version /\ session.seen.config \in Version BY <1>1 DEF States, Graph
<1> QED BY <1>6, <1>7 DEF Signature, Signatures

\* Versions stay in their bounds.
LEMMA Versions ==
    ASSUME Typed
    PROVE  /\ NoGraph \in Graph /\ None \notin Version
           /\ \A n \in Nat : n <= MaxEdits + 1 => n \in Version
           /\ Version \subseteq Nat
<1>1. MaxEdits \in Nat /\ MaxEdits + 1 \in Nat BY WatchAssumption
<1> QED BY <1>1, NoneAssumption DEF Version, NoGraph, Graph

LEMMA SessionStep ==
    ASSUME Typed, Equipped, Next
    PROVE  /\ session' \in States /\ Options(session') = Options(session)
           /\ session'.at \in 1..Len(session.packages)
<1> DEFINE Kept == /\ session' \in States /\ Options(session') = Options(session)
                   /\ session'.at \in 1..Len(session.packages)
<1>1. session \in States /\ session.at \in 1..Len(session.packages) /\ session.at \in Nat
      /\ disk \in Disks
  BY DEF Typed, States
<1>2. NoGraph \in Graph BY Versions
<1>3. 1 \in 1..Len(session.packages)
  <2>1. session.packages \in Seq(STRING) BY <1>1 DEF States
  <2>2. Len(session.packages) \in Nat BY <2>1
  <2> QED BY <1>1, <2>2
<1>4. ASSUME NEW step \in Steps, Go(step) PROVE Kept
  BY <1>1, <1>4 DEF Go, States, Options
<1>5. Failed \in States /\ Failed.at = 1 /\ Options(Failed) = Options(session)
      /\ Ended \in States /\ Ended.at = 1 /\ Options(Ended) = Options(session)
  BY ZenonT(40), <1>1, <1>2 DEF Failed, Ended, States, Options, Steps
<1>6. CASE session' = session BY <1>1, <1>6
<1>7. CASE session' = Failed BY <1>3, <1>5, <1>7
<1>8. CASE LoadWorkspace
  <2>1. CASE session' = [session EXCEPT !.pc = "configure", !.working = None]
    BY <1>1, <2>1 DEF States, Options, Steps
  <2> QED BY <1>7, <1>8, <2>1 DEF LoadWorkspace
<1>9. CASE TakeForBuild
  <2>1. PICK graph : session' = [session EXCEPT !.resident = None, !.working = graph]
                     /\ \/ graph = RolledBack.graph /\ disk.undo # None
                        \/ graph = session.resident /\ session.resident # None
                        \/ graph = disk.graph
    <3>1. \E graph : session' = [session EXCEPT !.resident = None, !.working = graph]
                     /\ \/ graph = RolledBack.graph /\ disk.undo # None
                        \/ graph = session.resident /\ session.resident # None
                        \/ graph = disk.graph
      BY <1>9 DEF TakeForBuild, Stamped
    <3> QED BY <3>1
  <2>2. graph \in Graph BY <1>1, <2>1 DEF RolledBack, Disks, Undo, States
  <2> QED BY <1>1, <2>1, <2>2 DEF States, Options
<1>10. CASE RecoverFails
  <2>1. CASE session' = [Failed EXCEPT !.resident = None]
    BY <1>3, <1>5, <2>1 DEF States, Options
  <2>2. CASE Go("exited") BY <1>4, <2>2 DEF Steps
  <2> QED BY <1>10, <2>1, <2>2 DEF RecoverFails
<1>11. CASE Configure
  <2>1. PICK plan, signature :
            /\ plan \in {session.cached, disk.config} /\ (plan = session.cached => session.cached # None)
            /\ signature \in {plan, session.signature}
            /\ session' = [session EXCEPT !.pc = "subscribe", !.cached = plan,
                               !.signature = signature, !.preflight = disk.src]
    BY <1>1, <1>11, Versions DEF Configure, Reuse, ManifestSignatures, Disks
  <2>2. plan \in Version /\ disk.src \in Version /\ session.signature \in Version \union {None}
    BY <1>1, <2>1 DEF Disks, States
  <2> QED BY <1>1, <2>1, <2>2 DEF States, Options, Steps
<1>12. CASE Unsupported \/ StartPool BY <1>4, <1>12 DEF Unsupported, StartPool, Steps
<1>13. CASE Subscribe BY <1>1, <1>13 DEF Subscribe, States, Options, Steps
<1>14. CASE Scan
  <2>1. Scanned \in Graph
    BY <1>1, <1>14 DEF Scan, Attempt, Equipped, Planning, Scanned, Graph, Disks, States
  <2>2. PICK pc \in {"publish", "initialize"} :
            session' = [session EXCEPT !.seen = Scanned, !.preflight = None, !.pc = pc]
    BY <1>14 DEF Scan
  <2> QED BY <1>1, <2>1, <2>2 DEF States, Options, Steps
<1>15. CASE StartFails \/ InitializeFails \/ PrepareFails \/ BuilderFails \/ CommitFails
  BY <1>7, <1>15 DEF StartFails, InitializeFails, PrepareFails, BuilderFails, CommitFails
<1>16. CASE Initialize
  <2>1. session' = Failed \/ Go("prepare") BY <1>16 DEF Initialize
  <2> QED BY <1>4, <1>7, <2>1 DEF Steps
<1>17. CASE Prepare \/ Commit \/ Expire
  BY <1>4, <1>17 DEF Prepare, Commit, Expire, Steps
<1>18. CASE Dispatch
  <2>1. \/ session' = Failed
        \/ session.at < Len(session.packages)
           /\ session' = [session EXCEPT !.pc = "initialize", !.at = @ + 1]
        \/ session' = [session EXCEPT !.pc = "commit"]
    BY <1>18 DEF Dispatch
  <2>2. Len(session.packages) \in Nat
    <3>1. session.packages \in Seq(STRING) BY <1>1 DEF States
    <3> QED BY <3>1
  <2>3. CASE session.at < Len(session.packages)
             /\ session' = [session EXCEPT !.pc = "initialize", !.at = @ + 1]
    <3>1. session.at + 1 \in 1..Len(session.packages) /\ session.at + 1 \in Nat
      BY <1>1, <2>2, <2>3
    <3> QED BY <1>1, <2>3, <3>1 DEF States, Options, Steps
  <2>4. CASE session' = [session EXCEPT !.pc = "commit"]
    BY <1>1, <2>4 DEF States, Options, Steps
  <2> QED BY <1>7, <2>1, <2>3, <2>4
<1>19. CASE Publish
  <2>1. session' = [Ended EXCEPT !.ok = TRUE, !.succeeded = TRUE, !.known = TRUE,
                      !.resident = session.seen]
    BY <1>19 DEF Publish
  <2>2. session.seen \in Graph BY <1>1 DEF States
  <2> QED BY <1>3, <1>5, <2>1, <2>2 DEF States, Options
<1>20. CASE BeginLoop
  <2>1. CASE session' = [session EXCEPT !.pc = "exited"]
    BY <1>1, <2>1 DEF States, Options, Steps
  <2>2. CASE session' = [session EXCEPT !.initial = FALSE, !.subscribed = TRUE]
    BY <1>1, <2>2 DEF States, Options
  <2> QED BY <1>20, <2>1, <2>2 DEF BeginLoop
<1>21. CASE Classify
  <2>1. PICK graph : session' = [session EXCEPT !.pc = "wait", !.resident = graph]
                     /\ graph \in Graph \union {None}
    <3>1. disk.undo # None => RolledBack.graph \in Graph
      BY <1>1 DEF RolledBack, Disks, Undo
    <3>2. disk.graph \in Graph /\ session.resident \in Graph \union {None}
      BY <1>1 DEF Disks, States
    <3> QED BY <1>21, <3>1, <3>2 DEF Classify
  <2> QED BY <1>1, <2>1 DEF States, Options, Steps
<1>22. CASE Receive
  <2>1. CASE session' = session BY <1>6, <2>1
  <2>2. CASE session' = [session EXCEPT !.pc = "debounce",
                                        !.changed = IsConfigurationEvent(Head(queue))]
    <3>1. IsConfigurationEvent(Head(queue)) \in BOOLEAN BY DEF IsConfigurationEvent
    <3> QED BY <1>1, <2>2, <3>1 DEF States, Options, Steps
  <2> QED BY <1>22, <2>1, <2>2 DEF Receive
<1>23. CASE Coalesce
  <2>1. PICK changed \in BOOLEAN : session' = [session EXCEPT !.changed = changed]
    BY <1>1, <1>23 DEF Coalesce, States, IsRelevantEvent, IsGeneratedOutput, IsConfigurationEvent
  <2> QED BY <1>1, <2>1 DEF States, Options
<1>24. CASE World
  BY <1>6, <1>24 DEF World, EditSource, EditConfiguration, BreakPackages, RepairPackages,
     RemoveOutput, ReplaceGraph, KillWorker
<1> QED
  BY <1>8, <1>9, <1>10, <1>11, <1>12, <1>13, <1>14, <1>15, <1>16, <1>17, <1>18, <1>19, <1>20,
     <1>21, <1>22, <1>23, <1>24 DEF Next, Step

----------------------------------------------------------------------------
(* The disk and the pool.                                                    *)

LEMMA DiskStep ==
    ASSUME Typed, Next
    PROVE  /\ disk' \in Disks
           /\ budget' \in [edits : 0..MaxEdits, faults : Nat, unanswered : BOOLEAN]
           /\ disk'.src <= budget'.edits + 1 /\ disk'.config <= budget'.edits + 1
           /\ disk'.announced <= disk'.config
<1> DEFINE Goal == /\ disk' \in Disks
                   /\ budget' \in [edits : 0..MaxEdits, faults : Nat, unanswered : BOOLEAN]
                   /\ disk'.src <= budget'.edits + 1 /\ disk'.config <= budget'.edits + 1
                   /\ disk'.announced <= disk'.config
           Same(d) == d.src = disk.src /\ d.config = disk.config /\ d.announced = disk.announced
<1>1. /\ disk \in Disks /\ session \in States
      /\ budget \in [edits : 0..MaxEdits, faults : Nat, unanswered : BOOLEAN]
      /\ disk.src <= budget.edits + 1 /\ disk.config <= budget.edits + 1
      /\ disk.announced <= disk.config
  BY DEF Typed
<1>2. /\ disk.src \in Nat /\ disk.config \in Nat /\ disk.announced \in Nat
      /\ budget.edits \in Nat /\ MaxEdits \in Nat
  BY <1>1, WatchAssumption DEF Disks, Version
<1>3. ASSUME disk' \in Disks, Same(disk'),
             budget' \in [edits : 0..MaxEdits, faults : Nat, unanswered : BOOLEAN],
             budget'.edits = budget.edits \/ budget'.edits = budget.edits + 1
      PROVE  Goal
  BY <1>1, <1>2, <1>3
<1>4. (RolledBack \in Disks /\ Same(RolledBack)) \/ disk.undo = None
  BY <1>1 DEF RolledBack, Disks, Undo
<1>5. ASSUME Fault PROVE budget' \in [edits : 0..MaxEdits, faults : Nat, unanswered : BOOLEAN]
                         /\ budget'.edits = budget.edits
  BY <1>1, <1>5 DEF Fault
<1>6. ASSUME Edited
      PROVE  /\ budget' \in [edits : 0..MaxEdits, faults : Nat, unanswered : BOOLEAN]
             /\ budget'.edits = budget.edits + 1 /\ budget.edits < MaxEdits
  <2>1. (budget.unanswered \/ session.subscribed) \in BOOLEAN BY <1>1 DEF States
  <2>2. budget.edits + 1 \in 0..MaxEdits BY <1>2, <1>6 DEF Edited
  <2> QED BY <1>1, <1>6, <2>1, <2>2 DEF Edited
<1>7. CASE disk' = disk /\ (budget' = budget \/ Fault)
  BY <1>1, <1>3, <1>5, <1>7
<1>8. CASE LoadWorkspace
  <2>1. disk' = disk /\ budget' = [budget EXCEPT !.unanswered = FALSE]
    BY <1>8 DEF LoadWorkspace
  <2> QED BY <1>1, <1>3, <2>1
<1>9. CASE TakeForBuild
  <2>1. budget' = budget /\ (disk' = disk \/ (disk' = RolledBack /\ disk.undo # None))
    BY <1>9 DEF TakeForBuild
  <2> QED BY <1>1, <1>3, <1>4, <2>1
<1>10. CASE Commit
  <2>1. disk' \in Disks /\ Same(disk')
    BY <1>1, <1>10 DEF Commit, Disks, States
  <2> QED BY <1>1, <1>3, <1>10, <2>1 DEF Commit
<1>11. CASE CommitFails
  <2>1. PICK saved \in BOOLEAN :
            disk' = [disk EXCEPT !.output = TRUE,
                       !.undo = [graph |-> disk.graph, output |-> disk.output],
                       !.graph = IF saved THEN session.seen ELSE @, !.stamped = FALSE]
    BY <1>11 DEF CommitFails
  <2>2. (IF saved THEN session.seen ELSE disk.graph) \in Graph BY <1>1 DEF Disks, States
  <2>3. [graph |-> disk.graph, output |-> disk.output] \in Undo BY <1>1 DEF Disks, Undo
  <2>4. disk' \in Disks /\ Same(disk') BY <1>1, <2>1, <2>2, <2>3 DEF Disks
  <2> QED BY <1>3, <1>5, <1>11, <2>4 DEF CommitFails
<1>12. CASE Publish
  <2>1. disk' = [disk EXCEPT !.stamped = TRUE] /\ budget' = budget BY <1>12 DEF Publish
  <2>2. disk' \in Disks /\ Same(disk') BY <1>1, <2>1 DEF Disks
  <2> QED BY <1>1, <1>3, <2>1, <2>2
<1>13. CASE Classify
  <2>1. PICK d : /\ d = IF disk.undo # None THEN RolledBack ELSE disk
                 /\ disk' = [d EXCEPT !.stamped = session.succeeded]
    BY <1>13 DEF Classify
  <2>2. d \in Disks /\ Same(d) BY <1>1, <1>4, <2>1
  <2>3. session.succeeded \in BOOLEAN BY <1>1 DEF States
  <2>4. disk' \in Disks /\ Same(disk') BY <2>1, <2>2, <2>3 DEF Disks
  <2> QED BY <1>1, <1>3, <1>13, <2>4 DEF Classify
<1>14. CASE EditSource
  <2>1. disk' = [disk EXCEPT !.src = @ + 1] BY <1>14 DEF EditSource
  <2>2. disk.src + 1 \in Version BY <1>1, <1>2, <1>6, <1>14, Versions DEF EditSource
  <2>3. disk' \in Disks /\ disk'.src = disk.src + 1 /\ disk'.config = disk.config
        /\ disk'.announced = disk.announced
    BY <1>1, <2>1, <2>2 DEF Disks
  <2> QED BY <1>1, <1>2, <1>6, <1>14, <2>3 DEF EditSource
<1>15. CASE EditConfiguration
  <2>1. PICK announced : /\ announced = IF session.subscribed THEN disk.config + 1 ELSE disk.announced
                         /\ disk' = [disk EXCEPT !.config = @ + 1, !.announced = announced]
    BY <1>15 DEF EditConfiguration
  <2>2. disk.config + 1 \in Version BY <1>1, <1>2, <1>6, <1>15, Versions DEF EditConfiguration
  <2>3. announced \in Version /\ announced <= disk.config + 1
    BY <1>1, <1>2, <2>1, <2>2 DEF Disks
  <2>4. disk' \in Disks /\ disk'.src = disk.src /\ disk'.config = disk.config + 1
        /\ disk'.announced = announced
    BY <1>1, <2>1, <2>2, <2>3 DEF Disks
  <2> QED BY <1>1, <1>2, <1>6, <1>15, <2>3, <2>4 DEF EditConfiguration
<1>16. CASE BreakPackages \/ RemoveOutput
  <2>1. disk' \in Disks /\ Same(disk')
    BY <1>1, <1>16 DEF BreakPackages, RemoveOutput, Disks
  <2> QED BY <1>3, <1>6, <1>16, <2>1 DEF BreakPackages, RemoveOutput
<1>17. CASE RepairPackages
  <2>1. disk' \in Disks /\ Same(disk') BY <1>1, <1>17 DEF RepairPackages, Disks
  <2>2. (budget.unanswered \/ session.subscribed) \in BOOLEAN BY <1>1 DEF States
  <2>3. budget' = [budget EXCEPT !.unanswered = @ \/ session.subscribed]
    BY <1>17 DEF RepairPackages
  <2> QED BY <1>1, <1>3, <2>1, <2>2, <2>3
<1>18. CASE ReplaceGraph
  <2>1. disk' \in Disks /\ Same(disk')
    BY <1>1, <1>18, Versions DEF ReplaceGraph, Disks
  <2>2. budget' = [budget EXCEPT !.edits = @ + 1] /\ budget.edits < MaxEdits
    BY <1>18 DEF ReplaceGraph
  <2>3. budget.edits + 1 \in 0..MaxEdits BY <1>2, <2>2
  <2> QED BY <1>1, <1>3, <2>1, <2>2, <2>3
<1> QED
  BY <1>7, <1>8, <1>9, <1>10, <1>11, <1>12, <1>13, <1>14, <1>15, <1>16, <1>17, <1>18
  DEF Next, Step, World, RecoverFails, Configure, Unsupported, Subscribe, StartPool, StartFails,
      Scan, Initialize, InitializeFails, Prepare, PrepareFails, Dispatch, BuilderFails,
      BeginLoop, Receive, Coalesce, Expire, KillWorker

\* Processes that are used or die keep the pool as it was admitted.
LEMMA AlteredIs ==
    ASSUME NEW p \in Pool, NEW workers \in [1..Len(p.workers) -> Worker],
           \A i \in 1..Len(p.workers) : workers[i].signature = p.workers[i].signature,
           NEW q, q = [p EXCEPT !.workers = workers]
    PROVE  /\ q \in Pool /\ q.workers = workers /\ q.initialized = p.initialized
           /\ q.count = p.count /\ Len(q.workers) = Len(p.workers)
           /\ Fitting(p) => Fitting(q)
           /\ Admits(p) => Admits(q)
<1>1. q = [workers |-> workers, initialized |-> p.initialized, count |-> p.count] BY DEF Pool
<1>2. /\ q \in Pool /\ q.workers = workers /\ q.initialized = p.initialized
      /\ q.count = p.count /\ Len(q.workers) = Len(p.workers)
  <2>1. PICK initialized \in Signatures \union {None}, count \in Nat :
            initialized = p.initialized /\ count = p.count
    BY PoolParts
  <2>2. PICK r : r = [workers |-> workers, initialized |-> initialized, count |-> count]
    OBVIOUS
  <2>3. /\ r \in Pool /\ r.workers = workers /\ r.initialized = initialized
        /\ r.count = count /\ Len(r.workers) = Len(p.workers)
    BY <2>2, Rebuilt
  <2>4. q = r BY <1>1, <2>1, <2>2
  <2> QED BY <2>1, <2>3, <2>4
<1>3. p.workers = <<>> => q.workers = <<>>
  <2>1. p.workers = <<>> => Len(q.workers) = 0 BY <1>2
  <2> QED BY <1>2, <2>1, PoolParts, EmptySeq
<1>4. DOMAIN q.workers = DOMAIN p.workers BY <1>2, PoolParts
<1> QED BY <1>2, <1>3, <1>4, PoolParts DEF Fitting, Admits

\* The pool of a step: well formed, no wider than it may be, and admitted.
Sound(p) == p = None \/ (p \in Pool /\ Fitting(p) /\ Admits(p))

LEMMA PoolStep ==
    ASSUME Typed, Equipped, Admitted, Fresh, Next
    PROVE  /\ Sound(pool')
           /\ session'.pc \in {"prepare", "dispatch"} =>
                pool' # None /\ Clear(pool', Signature')
           /\ session'.pc \in {"scan", "initialize"} => pool' # None
<1> DEFINE Calm == session'.pc \notin {"prepare", "dispatch", "scan", "initialize"}
<1>1. session \in States /\ Sound(pool) /\ (pool # None => pool \in Pool)
  BY DEF Typed, Equipped, Admitted, Sound
<1>2. /\ session.pc \in {"initialize", "prepare", "dispatch"} =>
            /\ pool # None /\ session.cached # None /\ pool \in Pool /\ Fitting(pool)
            /\ Admits(pool) /\ Signature \in Signatures
      /\ session.pc = "scan" => pool # None
  BY <1>1, SignatureIs DEF Equipped, Planning, Building, Admitted
<1>3. Failed.pc = "classify" BY <1>1 DEF Failed, Ended, States
<1>4. ASSUME session' = session PROVE Signature' = Signature BY <1>4 DEF Signature
<1>5. \A step : Go(step) => /\ session'.pc = step /\ Signature' = Signature
  BY <1>1 DEF Go, Signature, States
<1>6. CASE pool' = pool /\ Calm BY <1>1, <1>6
<1>7. CASE pool' = pool /\ session' = session
  BY <1>1, <1>2, <1>4, <1>7 DEF Fresh
<1>8. CASE LoadWorkspace \/ TakeForBuild \/ RecoverFails \/ Subscribe \/ BeginLoop
  <2>1. pool' = pool BY <1>8 DEF LoadWorkspace, TakeForBuild, RecoverFails, Subscribe, BeginLoop
  <2>2. CASE LoadWorkspace
    <3>1. session'.pc \in {"classify", "configure"}
      BY <1>1, <1>3, <2>2 DEF LoadWorkspace, States
    <3> QED BY <1>6, <2>1, <3>1
  <2>3. CASE TakeForBuild
    <3>1. session'.pc = "configure" BY <1>1, <2>3 DEF TakeForBuild, Attempt, States
    <3> QED BY <1>6, <2>1, <3>1
  <2>4. CASE RecoverFails
    <3>1. session' = [Failed EXCEPT !.resident = None] \/ Go("exited")
      BY <2>4 DEF RecoverFails
    <3>2. session'.pc \in {"classify", "exited"} BY <1>1, <1>5, <3>1 DEF Failed, Ended, States
    <3> QED BY <1>6, <2>1, <3>2
  <2>5. CASE Subscribe
    <3>1. session'.pc = "start" BY <1>1, <2>5 DEF Subscribe, States
    <3> QED BY <1>6, <2>1, <3>1
  <2>6. CASE BeginLoop
    <3>1. session'.pc \in {"classify", "exited"} BY <1>1, <2>6 DEF BeginLoop, Attempt, States
    <3> QED BY <1>6, <2>1, <3>1
  <2> QED BY <1>8, <2>2, <2>3, <2>4, <2>5, <2>6
<1>9. CASE Configure
  <2>1. session'.pc = "subscribe" BY <1>1, <1>9 DEF Configure, States
  <2>2. pool' \in {pool, None} BY <1>9 DEF Configure
  <2> QED BY <1>1, <2>1, <2>2 DEF Sound
<1>10. CASE Unsupported BY <1>5, <1>10 DEF Unsupported, Sound
<1>11. CASE StartPool
  <2>1. session'.pc = "scan" BY <1>5, <1>11 DEF StartPool
  <2>2. CASE pool # None BY <1>1, <1>11, <2>1, <2>2 DEF StartPool
  <2>3. CASE pool = None
    <3>1. PICK workers : /\ workers \in {<<>>, <<Started>>}
                         /\ pool' = [workers |-> workers, initialized |-> None, count |-> 0]
      BY <1>11, <2>3 DEF StartPool, NewPool
    <3>2. workers \in Seq(Worker) /\ Len(workers) \in 0..1
      <4>1. CASE workers = <<>> BY <4>1
      <4>2. CASE workers = <<Started>> BY <4>2, Processes
      <4> QED BY <3>1, <4>1, <4>2
    <3>3. PICK p : p = pool' OBVIOUS
    <3>4. p \in Pool /\ p.workers = workers /\ p.count = 0
      <4>1. PICK initialized \in Signatures \union {None}, count \in Nat :
                initialized = None /\ count = 0
        OBVIOUS
      <4>2. p = [workers |-> workers, initialized |-> initialized, count |-> count]
        BY <3>1, <3>3, <4>1
      <4>3. p \in Pool /\ p.workers = workers /\ p.count = count BY <3>2, <4>2 DEF Pool
      <4> QED BY <4>1, <4>3
    <3>5. Fitting(p)
      <4>1. PICK n \in 0..1 : n = Len(workers) BY <3>2
      <4>2. n <= Jobs /\ 0 <= n BY WatchAssumption
      <4> QED BY <3>4, <4>1, <4>2 DEF Fitting
    <3>6. Admits(p) BY <3>4, PoolParts DEF Admits
    <3> QED BY <2>1, <3>3, <3>4, <3>5, <3>6, NoneAssumption DEF Sound
  <2> QED BY <2>2, <2>3
<1>12. CASE StartFails \/ Publish \/ Classify \/ Receive \/ Coalesce
  <2>1. pool' = pool
    BY <1>12 DEF StartFails, Publish, Classify, Receive, Coalesce
  <2>2. Calm
    BY <1>1, <1>3, <1>12 DEF StartFails, Publish, Ended, Classify, Receive, Coalesce, Attempt, States
  <2> QED BY <1>6, <2>1, <2>2
<1>13. CASE Commit \/ CommitFails \/ Expire
  <2>1. pool' = pool BY <1>13 DEF Commit, CommitFails, Expire
  <2>2. session' = Failed \/ Go("publish") \/ Go("load") BY <1>13 DEF Commit, CommitFails, Expire
  <2>3. session'.pc \in {"classify", "publish", "load"} BY <1>3, <1>5, <2>2
  <2> QED BY <1>6, <2>1, <2>3
<1>14. CASE Scan
  <2>1. session'.pc \in {"publish", "initialize"} BY <1>1, <1>14 DEF Scan, States
  <2> QED BY <1>1, <1>2, <1>14, <2>1 DEF Scan, Attempt
<1>15. CASE EditSource \/ EditConfiguration \/ BreakPackages \/ RepairPackages \/ RemoveOutput
            \/ ReplaceGraph
  BY <1>7, <1>15 DEF EditSource, EditConfiguration, BreakPackages, RepairPackages, RemoveOutput,
     ReplaceGraph
<1>16. CASE Initialize
  <2>1. pool # None /\ pool \in Pool /\ Fitting(pool) /\ Admits(pool) /\ Signature \in Signatures
    BY <1>2, <1>16 DEF Initialize, Attempt
  <2>2. PICK old \in Pool, signature \in Signatures, p \in Pool :
            old = pool /\ signature = Signature /\ p = Materialize(old)
    BY <2>1, MaterializeIs
  <2>3. /\ p.initialized = old.initialized /\ Len(p.workers) <= Jobs /\ Admits(p)
        /\ old.workers = <<>> => Len(p.workers) = 1 /\ p.workers[1] = Started
        /\ old.workers # <<>> => p = old
    BY <2>1, <2>2, MaterializeIs
  <2>4. CASE p.initialized = signature /\ ~Answering(p)
    <3>1. PICK first : /\ first = CHOOSE i \in Resettable(p) :
                            ~p.workers[i].alive /\ \A j \in 1..(i - 1) : p.workers[j].alive
                       /\ pool' = ResetUpTo(p, first - 1) /\ session' = Failed
      BY <1>16, <2>2, <2>4 DEF Initialize
    <3>2. PICK last, q : last = first - 1 /\ q = ResetUpTo(p, last) OBVIOUS
    <3>3. /\ q \in Pool /\ q.initialized = p.initialized /\ q.count = p.count
          /\ Len(q.workers) = Len(p.workers)
          /\ \A i \in 1..Len(p.workers) : q.workers[i].signature = p.workers[i].signature
      BY <3>2, ResetUpToIs
    <3>4. old.workers # <<>>
      <4>1. PICK i \in Resettable(p) : ~p.workers[i].alive BY <2>4 DEF Answering
      <4> SUFFICES ASSUME old.workers = <<>> PROVE FALSE OBVIOUS
      <4>2. i = 1 BY <2>3, <4>1, PoolParts DEF Resettable
      <4> QED BY <2>3, <4>1, <4>2 DEF Started
    <3>5. Fitting(q) BY <2>1, <2>2, <2>3, <3>3, <3>4, PoolParts DEF Fitting
    <3>6. Admits(q) BY <2>3, <3>3, PoolParts DEF Admits
    <3> QED BY <1>3, <3>1, <3>2, <3>3, <3>5, <3>6 DEF Sound
  <2>5. CASE ~(p.initialized = signature /\ ~Answering(p))
    <3>1. pool' = Initialized(p, signature) /\ Go("prepare")
      BY <1>16, <2>2, <2>5 DEF Initialize
    <3>2. PICK q \in Pool : q = Initialized(p, signature) BY <2>3, InitializedIs
    <3>3. Clear(q, signature) /\ Len(q.workers) = Len(p.workers) BY <2>3, <3>2, InitializedIs
    <3>4. Fitting(q) BY <2>3, <3>3, PoolParts DEF Fitting, Clear
    <3>5. Admits(q) BY <3>3 DEF Admits, Clear
    <3>6. session'.pc = "prepare" /\ Signature' = signature BY <1>5, <2>2, <3>1
    <3> QED BY <3>1, <3>2, <3>3, <3>4, <3>5, <3>6, NoneAssumption DEF Sound
  <2> QED BY <2>4, <2>5
<1>17. CASE InitializeFails
  <2>1. pool # None /\ pool \in Pool /\ Fitting(pool) /\ Admits(pool) /\ Signature \in Signatures
    BY <1>2, <1>17 DEF InitializeFails, Attempt
  <2>2. PICK old \in Pool, signature \in Signatures, p \in Pool :
            old = pool /\ signature = Signature /\ p = Materialize(old)
    BY <2>1, MaterializeIs
  <2>3. Len(p.workers) <= Jobs BY <2>1, <2>2, MaterializeIs
  <2>4. Calm BY <1>3, <1>17 DEF InitializeFails
  <2>5. PICK r \in Pool : r = Renewed(p) BY RenewedIs
  <2>6. r.count = 0 /\ Len(r.workers) = Len(p.workers) BY <2>5, RenewedIs
  <2>7. \/ pool' = pool \/ pool' = RestartFails(p)
        \/ \E at : pool' = PendingFails(r, signature, at)
    BY <1>17, <2>2, <2>5 DEF InitializeFails
  <2>8. CASE pool' = RestartFails(p)
    <3>1. PICK q : q = pool' OBVIOUS
    <3>2. q = [p EXCEPT !.workers = <<>>] BY <2>8, <3>1 DEF RestartFails
    <3>3. q \in Pool /\ q.workers = <<>>
      <4>0. <<>> \in Seq(Worker) OBVIOUS
      <4>1. PICK none \in Seq(Worker) : none = <<>> BY <4>0
      <4> QED BY <3>2, <4>1 DEF Pool
    <3>4. Len(q.workers) = 0 /\ DOMAIN q.workers = {} BY <3>3
    <3> QED BY <2>4, <3>1, <3>3, <3>4, WatchAssumption DEF Sound, Fitting, Admits
  <2>9. CASE \E at : pool' = PendingFails(r, signature, at)
    <3>1. PICK at : pool' = PendingFails(r, signature, at) BY <2>9
    <3>0. PICK q : q = PendingFails(r, signature, at) OBVIOUS
    <3>2. q \in Pool /\ q.count = r.count /\ Len(q.workers) = Len(r.workers)
      BY <3>0, PendingFailsIs
    <3>3. Fitting(q) BY <2>3, <2>6, <3>2, PoolParts DEF Fitting
    <3>4. Admits(q) BY <2>6, <3>2, PoolParts DEF Admits
    <3> QED BY <2>4, <3>0, <3>1, <3>2, <3>3, <3>4 DEF Sound
  <2> QED BY <1>6, <2>4, <2>7, <2>8, <2>9
<1>18. ASSUME session.pc = "prepare"
       PROVE  /\ pool # None /\ pool \in Pool /\ Fitting(pool) /\ Admits(pool)
              /\ Signature \in Signatures /\ Clear(pool, Signature) /\ Len(pool.workers) <= Jobs
  BY <1>2, <1>18 DEF Fresh, Fitting
<1>19. CASE Prepare
  <2>1. PICK old \in Pool, signature \in Signatures, requests \in 1..Jobs :
            /\ old = pool /\ signature = Signature
            /\ pool' = InitializePending(Expand(old, requests), signature)
    BY <1>18, <1>19 DEF Prepare, Attempt
  <2>2. Clear(old, signature) /\ Len(old.workers) <= Jobs
    BY <1>18, <1>19, <2>1 DEF Prepare, Attempt
  <2>3. PICK e \in Pool : e = Expand(old, requests) BY <2>2, ExpandIs
  <2>4. /\ e.initialized = old.initialized /\ e.count = old.count /\ Len(e.workers) <= Jobs
        /\ \A i \in 1..Len(old.workers) : e.workers[i] = old.workers[i]
    BY <2>2, <2>3, ExpandIs
  <2>5. PICK q \in Pool : q = InitializePending(e, signature) BY InitializePendingIs
  <2>6. /\ q.initialized = e.initialized /\ q.count = Len(e.workers)
        /\ Len(q.workers) = Len(e.workers)
        /\ \A i \in 1..Len(e.workers) :
            q.workers[i] = IF i > e.count THEN Cleared(signature) ELSE e.workers[i]
    BY <2>5, InitializePendingIs
  <2>7. ASSUME NEW i \in 1..Len(q.workers)
        PROVE  q.workers[i].signature \in {None, signature} /\ ~q.workers[i].used
    <3>1. CASE i > e.count BY <2>6, <3>1, Processes
    <3>2. CASE ~(i > e.count)
      <4>1. i \in 1..Len(old.workers) BY <2>2, <2>4, <2>6, <3>2, PoolParts DEF Clear
      <4>2. q.workers[i] = old.workers[i] BY <2>4, <2>6, <3>2, <4>1
      <4> QED BY <2>2, <4>1, <4>2, PoolParts DEF Clear
    <3> QED BY <3>1, <3>2
  <2>8. Clear(q, signature) BY <2>2, <2>4, <2>6, <2>7, PoolParts DEF Clear
  <2>9. Fitting(q) BY <2>4, <2>6, PoolParts DEF Fitting
  <2>10. Admits(q) BY <2>8 DEF Admits, Clear
  <2>11. session'.pc = "dispatch" /\ Signature' = signature BY <1>5, <1>19, <2>1 DEF Prepare
  <2>12. pool' = q BY <2>1, <2>3, <2>5
  <2> QED BY <2>8, <2>9, <2>10, <2>11, <2>12, NoneAssumption DEF Sound
<1>20. CASE PrepareFails
  <2>1. PICK old \in Pool, signature \in Signatures : old = pool /\ signature = Signature
    BY <1>18, <1>20 DEF PrepareFails, Attempt
  <2>2. Clear(old, signature) /\ Len(old.workers) <= Jobs
    BY <1>18, <1>20, <2>1 DEF PrepareFails, Attempt
  <2>3. Calm BY <1>3, <1>20 DEF PrepareFails
  <2>4. PICK requests \in (Len(old.workers) + 1)..Jobs :
            LET p == Expand(old, requests)
            IN  \/ \E width \in Len(old.workers)..(Len(p.workers) - 1) :
                     pool' = [p EXCEPT !.workers = SubSeq(@, 1, width)]
                \/ \E at \in (old.count + 1)..Len(p.workers) :
                     pool' = PendingFails(p, signature, at)
    BY <1>20, <2>1 DEF PrepareFails
  <2>5. requests \in 1..Jobs BY PoolParts, WatchAssumption
  <2>6. PICK p \in Pool : p = Expand(old, requests) BY <2>2, <2>5, ExpandIs
  <2>7. /\ p.initialized = old.initialized /\ p.count = old.count /\ Len(p.workers) <= Jobs
        /\ Len(p.workers) >= Len(old.workers)
        /\ \A i \in 1..Len(old.workers) : p.workers[i] = old.workers[i]
    BY <2>2, <2>5, <2>6, ExpandIs
  <2>8. \A i \in 1..Len(old.workers) : p.workers[i].signature \in {None, p.initialized}
    BY <2>2, <2>7, PoolParts DEF Clear
  <2>9. p.count = Len(old.workers) BY <2>2, <2>7 DEF Clear
  <2>10. CASE \E width \in Len(old.workers)..(Len(p.workers) - 1) :
                pool' = [p EXCEPT !.workers = SubSeq(@, 1, width)]
    <3>1. PICK width \in Len(old.workers)..(Len(p.workers) - 1) :
                pool' = [p EXCEPT !.workers = SubSeq(@, 1, width)]
      BY <2>10
    <3>2. width \in Nat /\ width <= Len(p.workers) /\ width >= Len(old.workers)
          /\ width <= Jobs
      BY <2>7, PoolParts, WatchAssumption
    <3>3. PICK workers : workers = SubSeq(p.workers, 1, width) OBVIOUS
    <3>4. /\ workers = [i \in 1..width |-> p.workers[i]] /\ workers \in [1..width -> Worker]
      <4>1. \A i \in 1..width : i \in 1..Len(p.workers) BY <3>2, PoolParts
      <4>2. PICK source \in Seq(Worker) : source = p.workers BY PoolParts
      <4>3. workers = SubSeq(source, 1, width) BY <3>3, <4>2
      <4>4. workers = [i \in 1..width |-> source[i]] BY <3>2, <4>2, <4>3
      <4> QED BY <4>1, <4>2, <4>4, PoolParts
    <3>5. workers \in Seq(Worker) /\ Len(workers) = width /\ DOMAIN workers = 1..width
      BY <3>2, <3>4, Mapped
    <3>6. PICK q : q = [p EXCEPT !.workers = workers] /\ q = pool' BY <3>1, <3>3
    <3>7. q \in Pool /\ q.workers = workers /\ q.initialized = p.initialized /\ q.count = p.count
      BY <3>5, <3>6 DEF Pool
    <3>8. Fitting(q) BY <2>9, <3>2, <3>5, <3>7 DEF Fitting
    <3>9. Admits(q)
      <4> SUFFICES ASSUME NEW i \in 1..width, i <= p.count
                   PROVE  workers[i].signature \in {None, p.initialized}
        BY <3>5, <3>7 DEF Admits
      <4>1. i \in 1..Len(old.workers) BY <2>9, <3>2, PoolParts
      <4> QED BY <2>8, <3>4, <4>1
    <3> QED BY <2>3, <3>6, <3>7, <3>8, <3>9 DEF Sound
  <2>11. CASE \E at \in (old.count + 1)..Len(p.workers) : pool' = PendingFails(p, signature, at)
    <3>1. PICK at : pool' = PendingFails(p, signature, at) BY <2>11
    <3>0. PICK q : q = PendingFails(p, signature, at) OBVIOUS
    <3>2. /\ q \in Pool /\ q.initialized = p.initialized /\ q.count = p.count
          /\ Len(q.workers) = Len(p.workers)
          /\ \A i \in 1..Len(p.workers) : i <= p.count => q.workers[i] = p.workers[i]
      BY <3>0, PendingFailsIs
    <3>3. Fitting(q) BY <2>7, <2>9, <3>2, PoolParts DEF Fitting
    <3>4. Admits(q)
      <4> SUFFICES ASSUME NEW i \in 1..Len(p.workers), i <= p.count
                   PROVE  q.workers[i].signature \in {None, p.initialized}
        BY <3>2, PoolParts DEF Admits
      <4>1. i \in 1..Len(old.workers) BY <2>9, PoolParts
      <4> QED BY <2>8, <3>2, <4>1
    <3> QED BY <2>3, <3>0, <3>1, <3>2, <3>3, <3>4 DEF Sound
  <2> QED BY <2>4, <2>6, <2>10, <2>11
<1>21. CASE Dispatch \/ BuilderFails
  <2>1. PICK old \in Pool : old = pool /\ Fitting(old) /\ Admits(old)
    BY <1>2, <1>21 DEF Dispatch, BuilderFails, Attempt
  <2>2. PICK sent \in SUBSET DOMAIN old.workers :
            pool' = [old EXCEPT !.workers = [i \in DOMAIN old.workers |->
                IF i \in sent THEN [old.workers[i] EXCEPT !.used = TRUE] ELSE old.workers[i]]]
    <3>1. CASE Dispatch
      <4>1. PICK sent \in SUBSET DOMAIN pool.workers :
                pool' = [pool EXCEPT !.workers = [i \in DOMAIN @ |->
                    IF i \in sent THEN [@[i] EXCEPT !.used = TRUE] ELSE @[i]]]
        BY <3>1 DEF Dispatch
      <4> QED BY <2>1, <4>1
    <3>2. CASE BuilderFails
      <4>1. pool' = [old EXCEPT !.workers = [i \in DOMAIN old.workers |->
                        [old.workers[i] EXCEPT !.used = TRUE]]]
        BY <2>1, <3>2 DEF BuilderFails
      <4>2. [i \in DOMAIN old.workers |-> [old.workers[i] EXCEPT !.used = TRUE]] =
            [i \in DOMAIN old.workers |-> IF i \in DOMAIN old.workers
                THEN [old.workers[i] EXCEPT !.used = TRUE] ELSE old.workers[i]]
        OBVIOUS
      <4>3. DOMAIN old.workers \in SUBSET DOMAIN old.workers OBVIOUS
      <4> QED BY <4>1, <4>2, <4>3
    <3> QED BY <1>21, <3>1, <3>2
  <2>3. PICK workers : workers = [i \in DOMAIN old.workers |->
                IF i \in sent THEN [old.workers[i] EXCEPT !.used = TRUE] ELSE old.workers[i]]
    OBVIOUS
  <2>4. \A worker \in Worker : /\ [worker EXCEPT !.used = TRUE] \in Worker
                               /\ [worker EXCEPT !.used = TRUE].signature = worker.signature
    BY DEF Worker
  <2>5. /\ workers \in [1..Len(old.workers) -> Worker]
        /\ \A i \in 1..Len(old.workers) : workers[i].signature = old.workers[i].signature
    BY <2>3, <2>4, PoolParts
  <2>6. PICK q : q = [old EXCEPT !.workers = workers] /\ q = pool' BY <2>2, <2>3
  <2>7. q \in Pool /\ Fitting(q) /\ Admits(q) BY <2>1, <2>5, <2>6, AlteredIs
  <2>8. session'.pc \in {"initialize", "commit", "classify"}
    BY <1>1, <1>3, <1>21 DEF Dispatch, BuilderFails, States
  <2> QED BY <2>6, <2>7, <2>8, NoneAssumption DEF Sound
<1>22. CASE KillWorker
  <2>1. PICK old \in Pool : old = pool /\ Fitting(old) /\ Admits(old)
    BY <1>2, <1>22 DEF KillWorker, Attempt
  <2>2. PICK i \in DOMAIN old.workers : pool' = [old EXCEPT !.workers[i].alive = FALSE]
    BY <1>22, <2>1 DEF KillWorker
  <2>3. PICK workers : workers = [old.workers EXCEPT ![i] = [old.workers[i] EXCEPT !.alive = FALSE]]
    OBVIOUS
  <2>4. \A worker \in Worker : /\ [worker EXCEPT !.alive = FALSE] \in Worker
                               /\ [worker EXCEPT !.alive = FALSE].signature = worker.signature
                               /\ [worker EXCEPT !.alive = FALSE].used = worker.used
    BY DEF Worker
  <2>5. old.workers \in [1..Len(old.workers) -> Worker] BY PoolParts
  <2>6. /\ workers \in [1..Len(old.workers) -> Worker]
        /\ \A j \in 1..Len(old.workers) : workers[j].signature = old.workers[j].signature
        /\ \A j \in 1..Len(old.workers) : workers[j].used = old.workers[j].used
    BY <2>2, <2>3, <2>4, <2>5
  <2>7. PICK q : q = [old EXCEPT !.workers = workers] /\ q = pool' BY <2>2, <2>3
  <2>8. /\ q \in Pool /\ Fitting(q) /\ Admits(q) /\ q.workers = workers
        /\ q.initialized = old.initialized /\ q.count = old.count
        /\ Len(q.workers) = Len(old.workers)
    BY <2>1, <2>6, <2>7, AlteredIs
  <2>9. session' = session BY <1>22 DEF KillWorker
  <2>10. \A signature : Clear(old, signature) => Clear(q, signature)
    BY <2>6, <2>8, PoolParts DEF Clear
  <2> QED BY <1>4, <2>1, <2>7, <2>8, <2>9, <2>10, NoneAssumption DEF Sound, Fresh
<1> QED
  BY <1>8, <1>9, <1>10, <1>11, <1>12, <1>13, <1>14, <1>15, <1>16, <1>17, <1>19, <1>20, <1>21,
     <1>22 DEF Next, Step, World

----------------------------------------------------------------------------
(* Where a step leads.                                                       *)

\* The attempt ends without success, or the session waits for the next one.
Halts ==
    /\ \/ session'.pc \in {"load", "debounce", "exited"}
       \/ session'.pc = "classify" /\ ~session'.ok
       \/ session'.pc = "configure" /\ session'.working = None
    /\ session'.resident = session.resident \/ session'.resident = None
    /\ session'.subscribed = session.subscribed

\* The attempt goes on with what it knew.
Agrees == /\ session'.cached = session.cached /\ session'.seen = session.seen
          /\ session'.working = session.working /\ session'.resident = session.resident
          /\ session'.subscribed = session.subscribed /\ session'.retain = session.retain
          /\ session'.ok = session.ok
Advances ==
    /\ Agrees
    /\ <<session.pc, session'.pc>> \in
         {<<"start", "scan">>, <<"initialize", "prepare">>, <<"prepare", "dispatch">>,
          <<"dispatch", "initialize">>, <<"dispatch", "commit">>}

Begins == BeginLoop /\ session' = [session EXCEPT !.initial = FALSE, !.subscribed = TRUE]

LEMMA Moves ==
    ASSUME Typed, Next
    PROVE  \/ (Halts \/ Advances \/ session' = session) /\ disk' = disk
           \/ CommitFails /\ Halts
           \/ TakeForBuild \/ Configure \/ Subscribe \/ Scan \/ Commit \/ Publish \/ Begins \/ Classify
           \/ World /\ session' = session
<1>1. session \in States BY DEF Typed
<1>2. \A step : Go(step) => Agrees /\ session'.pc = step BY <1>1 DEF Go, Agrees, States
<1>3. session' = Failed => Halts BY <1>1 DEF Failed, Ended, Halts, States
<1>4. CASE LoadWorkspace
  <2>1. CASE session' = [session EXCEPT !.pc = "configure", !.working = None]
    <3>1. Halts BY <1>1, <2>1 DEF Halts, States
    <3> QED BY <1>4, <3>1 DEF LoadWorkspace
  <2> QED BY <1>3, <1>4, <2>1 DEF LoadWorkspace
<1>5. CASE RecoverFails
  <2>1. CASE session' = [Failed EXCEPT !.resident = None]
    <3>1. Halts BY <1>1, <2>1 DEF Failed, Ended, Halts, States
    <3> QED BY <1>5, <3>1 DEF RecoverFails
  <2>2. CASE Go("exited")
    <3>1. Halts BY <1>2, <2>2 DEF Agrees, Halts
    <3> QED BY <1>5, <3>1 DEF RecoverFails
  <2> QED BY <1>5, <2>1, <2>2 DEF RecoverFails
<1>6. CASE Unsupported \/ Expire
  <2>1. Agrees /\ session'.pc \in {"exited", "load"} BY <1>2, <1>6 DEF Unsupported, Expire
  <2>2. Halts BY <2>1 DEF Agrees, Halts
  <2> QED BY <1>6, <2>2 DEF Unsupported, Expire
<1>7. CASE StartFails \/ InitializeFails \/ PrepareFails \/ BuilderFails
  BY <1>3, <1>7 DEF StartFails, InitializeFails, PrepareFails, BuilderFails
<1>8. CASE CommitFails BY <1>3, <1>8 DEF CommitFails
<1>9. CASE StartPool \/ Prepare
  <2>1. Advances BY <1>2, <1>9 DEF StartPool, Prepare, Attempt, Advances
  <2> QED BY <1>9, <2>1 DEF StartPool, Prepare
<1>10. CASE Initialize
  <2>1. session' = Failed \/ Go("prepare") BY <1>10 DEF Initialize
  <2>2. Go("prepare") => Advances BY <1>2, <1>10 DEF Initialize, Attempt, Advances
  <2> QED BY <1>3, <1>10, <2>1, <2>2 DEF Initialize
<1>11. CASE Dispatch
  <2>1. /\ session.pc = "dispatch" /\ disk' = disk
        /\ \/ session' = Failed
           \/ session' = [session EXCEPT !.pc = "initialize", !.at = @ + 1]
           \/ session' = [session EXCEPT !.pc = "commit"]
    BY <1>11 DEF Dispatch, Attempt
  <2>2. CASE session' = [session EXCEPT !.pc = "initialize", !.at = @ + 1]
    <3>1. Advances BY <1>1, <2>1, <2>2 DEF Advances, Agrees, States
    <3> QED BY <2>1, <3>1
  <2>3. CASE session' = [session EXCEPT !.pc = "commit"]
    <3>1. Advances BY <1>1, <2>1, <2>3 DEF Advances, Agrees, States
    <3> QED BY <2>1, <3>1
  <2> QED BY <1>3, <2>1, <2>2, <2>3
<1>12. CASE BeginLoop
  <2>1. CASE session' = [session EXCEPT !.pc = "exited"]
    <3>1. Halts BY <1>1, <2>1 DEF Halts, States
    <3> QED BY <1>12, <3>1 DEF BeginLoop
  <2> QED BY <1>12, <2>1 DEF BeginLoop, Begins
<1>13. CASE Receive
  <2>1. CASE session' = [session EXCEPT !.pc = "debounce",
                                        !.changed = IsConfigurationEvent(Head(queue))]
    <3>1. Halts BY <1>1, <2>1 DEF Halts, States
    <3> QED BY <1>13, <3>1 DEF Receive
  <2> QED BY <1>13, <2>1 DEF Receive
<1>14. CASE Coalesce
  <2>1. PICK changed : session' = [session EXCEPT !.changed = changed]
    BY <1>14 DEF Coalesce
  <2>2. Halts BY <1>1, <1>14, <2>1 DEF Halts, States, Coalesce, Attempt
  <2> QED BY <1>14, <2>2 DEF Coalesce
<1>15. World => session' = session
  BY DEF World, EditSource, EditConfiguration, BreakPackages, RepairPackages, RemoveOutput,
     ReplaceGraph, KillWorker
<1> QED
  BY <1>4, <1>5, <1>6, <1>7, <1>8, <1>9, <1>10, <1>11, <1>12, <1>13, <1>14, <1>15 DEF Next, Step

LEMMA EquippedStep ==
    ASSUME Inv, Next
    PROVE  Equipped' /\ Admitted' /\ Fresh'
<1>1. Typed /\ Equipped /\ Admitted /\ Fresh /\ session \in States /\ disk \in Disks
  BY DEF Inv, Typed
<1>2. /\ Sound(pool')
      /\ session'.pc \in {"prepare", "dispatch"} => pool' # None /\ Clear(pool', Signature')
      /\ session'.pc \in {"scan", "initialize"} => pool' # None
  BY <1>1, PoolStep
<1>3. Admitted' /\ Fresh' BY <1>2 DEF Sound, Admitted, Fresh
<1>4. session'.pc \in Planning \/ Done' => session'.cached # None
  <2> DEFINE Goal == session'.pc \in Planning \/ Done' => session'.cached # None
  <2> SUFFICES Goal OBVIOUS
  <2>1. session.pc \in Planning \/ Done => session.cached # None BY <1>1 DEF Equipped
  <2>2. CASE Halts BY <2>2 DEF Halts, Planning, Building, Done
  <2>3. CASE Advances BY <2>1, <2>3 DEF Advances, Agrees, Planning, Building, Done
  <2>4. CASE session' = session BY <2>1, <2>4 DEF Done
  <2>5. CASE TakeForBuild \/ Begins
    <3>1. \/ session'.pc = "configure"
          \/ session'.pc = session.pc /\ session'.ok = session.ok /\ session'.cached = session.cached
      BY <1>1, <2>5 DEF TakeForBuild, Attempt, Begins, BeginLoop, States
    <3> QED BY <2>1, <3>1 DEF Planning, Building, Done
  <2>6. CASE Configure
    <3>1. PICK plan, signature :
              /\ plan = IF Reuse THEN session.cached ELSE disk.config
              /\ session' = [session EXCEPT !.pc = "subscribe", !.cached = plan,
                               !.signature = signature, !.preflight = disk.src]
      BY <2>6 DEF Configure
    <3>2. plan # None BY <1>1, <3>1, Versions DEF Reuse, Disks
    <3> QED BY <1>1, <3>1, <3>2 DEF States
  <2>7. CASE Subscribe \/ Scan \/ Commit
    <3>1. session.pc \in Planning
      BY <2>7 DEF Subscribe, Scan, Commit, Attempt, Planning, Building
    <3>2. session'.cached = session.cached
      BY <1>1, <2>7 DEF Subscribe, Scan, Commit, Go, States
    <3> QED BY <2>1, <3>1, <3>2
  <2>8. CASE Publish
    <3>1. session.pc \in Planning BY <2>8 DEF Publish, Attempt, Planning, Building
    <3>2. session'.cached = session.cached BY <1>1, <2>8 DEF Publish, Ended, States
    <3> QED BY <2>1, <3>1, <3>2
  <2>9. CASE Classify
    <3>1. PICK graph : session' = [session EXCEPT !.pc = "wait", !.resident = graph]
      BY <2>9 DEF Classify
    <3>2. session'.pc = "wait" /\ session'.ok = session.ok /\ session'.cached = session.cached
      BY <1>1, <3>1 DEF States
    <3>3. session.pc = "classify" BY <2>9 DEF Classify, Attempt
    <3> QED BY <2>1, <3>2, <3>3 DEF Done, Planning, Building
  <2> QED BY <1>1, <2>2, <2>3, <2>4, <2>5, <2>6, <2>7, <2>8, <2>9, Moves
<1> QED BY <1>2, <1>3, <1>4 DEF Equipped, Sound

LEMMA GroundedStep ==
    ASSUME Inv, Next
    PROVE  Grounded'
<1> DEFINE Recovered == Taken' \/ session'.pc \in Planning \/ Done' => disk'.undo = None
           Worked == Taken' \/ session'.pc \in {"subscribe", "start", "scan"}
                        => session'.working = disk'.graph
           Published == session'.pc = "publish" => session'.seen = disk'.graph
           Kept == session'.resident # None /\ disk'.stamped => session'.resident = disk'.graph
<1> SUFFICES Recovered /\ Worked /\ Published /\ Kept BY DEF Grounded
<1>1. session \in States /\ disk \in Disks BY DEF Inv, Typed
<1>2. /\ Taken \/ session.pc \in Planning \/ Done => disk.undo = None
      /\ Taken \/ session.pc \in {"subscribe", "start", "scan"} => session.working = disk.graph
      /\ session.pc = "publish" => session.seen = disk.graph
      /\ session.resident # None /\ disk.stamped => session.resident = disk.graph
  BY DEF Inv, Grounded
<1>3. Halts => /\ ~Taken' /\ session'.pc \notin Planning /\ ~Done'
               /\ session'.resident \in {session.resident, None}
  BY DEF Halts, Taken, Planning, Building, Done
<1>4. disk.undo # None => /\ RolledBack.undo = None /\ RolledBack.graph = disk.undo.graph
                          /\ ~RolledBack.stamped
  BY <1>1 DEF RolledBack, Disks
<1>5. CASE Halts /\ disk' = disk BY <1>2, <1>3, <1>5 DEF Planning, Building
<1>6. CASE CommitFails /\ Halts
  <2>1. PICK undo, graph : disk' = [disk EXCEPT !.output = TRUE, !.undo = undo,
                                      !.graph = graph, !.stamped = FALSE]
    BY <1>6 DEF CommitFails
  <2>2. ~disk'.stamped BY <1>1, <2>1 DEF Disks
  <2> QED BY <1>3, <1>6, <2>2 DEF Planning, Building
<1>7. CASE Advances /\ disk' = disk
  BY <1>2, <1>7 DEF Advances, Agrees, Taken, Planning, Building, Done
<1>8. CASE session' = session /\ disk' = disk BY <1>2, <1>8 DEF Taken, Done
<1>9. CASE TakeForBuild
  <2>1. session.pc = "configure" BY <1>9 DEF TakeForBuild, Attempt
  <2>2. CASE disk.undo # None
    <3>1. disk' = RolledBack
          /\ session' = [session EXCEPT !.resident = None, !.working = RolledBack.graph]
      BY <1>9, <2>2 DEF TakeForBuild
    <3>2. /\ session'.pc = "configure" /\ session'.resident = None
          /\ session'.working = RolledBack.graph
      BY <1>1, <2>1, <3>1 DEF States
    <3> QED BY <1>4, <2>2, <3>1, <3>2 DEF Planning, Building, Done
  <2>3. CASE disk.undo = None
    <3>1. PICK graph : /\ graph = IF Stamped THEN session.resident ELSE disk.graph
                       /\ session' = [session EXCEPT !.resident = None, !.working = graph]
                       /\ disk' = disk
      BY <1>9, <2>3 DEF TakeForBuild
    <3>2. graph = disk.graph BY <1>2, <3>1 DEF Stamped
    <3>3. session'.pc = "configure" /\ session'.resident = None /\ session'.working = graph
      BY <1>1, <2>1, <3>1 DEF States
    <3> QED BY <2>3, <3>1, <3>2, <3>3 DEF Planning, Building, Done
  <2> QED BY <2>2, <2>3
<1>10. CASE Configure
  <2>1. PICK plan, signature :
            session' = [session EXCEPT !.pc = "subscribe", !.cached = plan,
                               !.signature = signature, !.preflight = disk.src]
    BY <1>10 DEF Configure
  <2>2. /\ session'.pc = "subscribe" /\ session'.working = session.working
        /\ session'.resident = session.resident
    BY <1>1, <2>1 DEF States
  <2>3. Taken /\ disk' = disk BY <1>10 DEF Configure, Attempt, Taken
  <2> QED BY <1>2, <2>2, <2>3
<1>11. CASE Subscribe
  <2>1. /\ session.pc = "subscribe" /\ disk' = disk /\ session'.pc = "start"
        /\ session'.working = session.working /\ session'.resident = session.resident
    BY <1>1, <1>11 DEF Subscribe, Attempt, States
  <2> QED BY <1>2, <2>1 DEF Planning
<1>12. CASE Scan
  <2>1. PICK pc : /\ pc = IF NoWork THEN "publish" ELSE "initialize"
                  /\ session' = [session EXCEPT !.seen = Scanned, !.preflight = None, !.pc = pc]
                  /\ session.pc = "scan" /\ disk' = disk
    BY <1>12 DEF Scan, Attempt
  <2>2. /\ session'.pc = pc /\ session'.seen = Scanned /\ session'.resident = session.resident
    BY <1>1, <2>1 DEF States
  <2>3. disk.undo = None /\ session.working = disk.graph BY <1>2, <2>1 DEF Planning
  <2>4. pc = "publish" => Scanned = disk.graph BY <2>1, <2>3 DEF NoWork
  <2> QED BY <1>2, <2>1, <2>2, <2>3, <2>4 DEF Taken
<1>13. CASE Commit
  <2>1. /\ session.pc = "commit" /\ session'.pc = "publish" /\ session'.seen = session.seen
        /\ disk' = [disk EXCEPT !.output = TRUE, !.graph = session.seen, !.stamped = FALSE]
    BY <1>1, <1>13 DEF Commit, Attempt, Go, States
  <2>2. disk'.undo = disk.undo /\ disk'.graph = session.seen /\ ~disk'.stamped
    BY <1>1, <2>1 DEF Disks
  <2> QED BY <1>2, <2>1, <2>2 DEF Planning, Building, Taken
<1>14. CASE Publish
  <2>1. /\ session.pc = "publish" /\ session'.pc = "classify" /\ session'.resident = session.seen
        /\ disk' = [disk EXCEPT !.stamped = TRUE]
    BY <1>1, <1>14 DEF Publish, Ended, Attempt, States
  <2>2. disk'.undo = disk.undo /\ disk'.graph = disk.graph BY <1>1, <2>1 DEF Disks
  <2> QED BY <1>2, <2>1, <2>2 DEF Planning, Building, Taken
<1>15. CASE Begins
  <2>1. /\ session.pc = "classify" /\ session'.pc = session.pc /\ session'.ok = session.ok
        /\ session'.resident = session.resident /\ disk' = disk
    BY <1>1, <1>15 DEF Begins, BeginLoop, Attempt, States
  <2> QED BY <1>2, <2>1 DEF Planning, Building, Taken, Done
<1>16. CASE Classify
  <2>1. PICK graph, d :
            /\ session' = [session EXCEPT !.pc = "wait", !.resident = graph]
            /\ disk' = [d EXCEPT !.stamped = session.succeeded]
            /\ d = IF disk.undo # None THEN RolledBack ELSE disk
            /\ graph = IF ~session.succeeded THEN None
                       ELSE IF disk.undo = None /\ Stamped THEN session.resident ELSE d.graph
    BY <1>16 DEF Classify
  <2>2. session'.pc = "wait" /\ session'.resident = graph BY <1>1, <2>1 DEF States
  <2>3. d.undo = None BY <1>4, <2>1
  <2>4. d \in Disks BY <1>1, <2>1 DEF RolledBack, Disks, Undo
  <2>5. disk'.undo = d.undo /\ disk'.graph = d.graph /\ disk'.stamped = session.succeeded
    BY <2>1, <2>4 DEF Disks
  <2>6. graph # None /\ session.succeeded => graph = d.graph BY <1>2, <2>1 DEF Stamped
  <2>7. ~session.succeeded => graph = None BY <2>1
  <2> QED BY <2>2, <2>3, <2>5, <2>6, <2>7 DEF Taken, Planning, Building
<1>17. CASE World /\ session' = session
  <2>1. CASE ReplaceGraph
    <3>1. /\ session.pc = "wait" /\ disk.undo = None
          /\ disk' = [disk EXCEPT !.graph = NoGraph, !.stamped = FALSE]
      BY <2>1 DEF ReplaceGraph, Attempt
    <3>2. disk'.undo = disk.undo /\ ~disk'.stamped BY <1>1, <3>1 DEF Disks
    <3> QED BY <1>17, <3>1, <3>2 DEF Taken, Planning, Building
  <2>2. CASE World /\ ~ReplaceGraph
    <3>1. disk'.undo = disk.undo /\ disk'.graph = disk.graph /\ disk'.stamped = disk.stamped
      BY <1>1, <2>2 DEF World, EditSource, EditConfiguration, BreakPackages, RepairPackages,
         RemoveOutput, KillWorker, Disks
    <3> QED BY <1>2, <1>17, <3>1 DEF Taken, Done
  <2> QED BY <1>17, <2>1, <2>2
<1>18. Typed BY DEF Inv
<1> QED
  BY <1>5, <1>6, <1>7, <1>8, <1>9, <1>10, <1>11, <1>12, <1>13, <1>14, <1>15, <1>16, <1>17,
     <1>18, Moves

LEMMA ToldStep ==
    ASSUME Inv, Next
    PROVE  Told'
<1> DEFINE Listening == session'.pc \in {"start", "scan"} \union Building \/ Done' => session'.subscribed
           Source == session'.pc \in Building \/ Done' =>
                        session'.seen.src = disk'.src \/ Holds(queue', "source")
           Output == session'.pc = "publish" \/ Done' => disk'.output \/ Holds(queue', "removed")
           Configured == ~session'.retain /\ (session'.pc \in Planning \/ Done') =>
                        session'.cached >= disk'.announced \/ Holds(queue', "config")
           Silent == ~session'.subscribed => disk'.announced = 0
<1> SUFFICES Listening /\ Source /\ Output /\ Configured /\ Silent BY DEF Told
<1>1. /\ session \in States /\ disk \in Disks /\ Typed /\ Equipped
      /\ session' \in States /\ disk.announced <= disk.config
  BY SessionStep DEF Inv, Typed
<1>2. /\ session.pc \in {"start", "scan"} \union Building \/ Done => session.subscribed
      /\ session.pc \in Building \/ Done => session.seen.src = disk.src \/ Holds(queue, "source")
      /\ session.pc = "publish" \/ Done => disk.output \/ Holds(queue, "removed")
      /\ ~session.retain /\ (session.pc \in Planning \/ Done)
          => session.cached >= disk.announced \/ Holds(queue, "config")
      /\ ~session.subscribed => disk.announced = 0
  BY DEF Inv, Told
<1>3. Halts => ~Taken' /\ session'.pc \notin Planning /\ ~Done' /\ session'.pc \notin Building
               /\ session'.pc \notin {"start", "scan", "publish"}
               /\ session'.subscribed = session.subscribed
  BY DEF Halts, Taken, Planning, Building, Done
<1>4. session.subscribed /\ session'.pc # "debounce" =>
        /\ Holds(queue, "source") => Holds(queue', "source")
        /\ Holds(queue, "removed") => Holds(queue', "removed")
        /\ Holds(queue, "config") => Holds(queue', "config")
  BY <1>1, QueueStep
<1>5. /\ disk.undo # None => /\ RolledBack.src = disk.src /\ RolledBack.announced = disk.announced
                             /\ RolledBack \in Disks
      /\ session'.cached # None => session'.cached >= 0
  <2>1. session'.cached \in Version \union {None} BY <1>1 DEF States
  <2>2. session'.cached # None => session'.cached \in Nat BY <1>1, <2>1, Versions
  <2>3. disk.undo # None => /\ RolledBack.src = disk.src /\ RolledBack.announced = disk.announced
                            /\ RolledBack \in Disks
    BY <1>1 DEF RolledBack, Disks, Undo
  <2> QED BY <2>2, <2>3
<1>6. session'.pc \in Planning \/ Done' => session'.cached >= 0
  BY <1>1, <1>5, EquippedStep DEF Equipped
<1>7. ASSUME disk'.announced = disk.announced, session'.subscribed = session.subscribed,
             ~session.subscribed
      PROVE  Configured /\ Silent
  BY <1>2, <1>6, <1>7
<1>8. CASE Halts /\ disk' = disk BY <1>2, <1>3, <1>8
<1>9. CASE CommitFails /\ Halts
  <2>1. PICK undo, graph : disk' = [disk EXCEPT !.output = TRUE, !.undo = undo,
                                      !.graph = graph, !.stamped = FALSE]
    BY <1>9 DEF CommitFails
  <2>2. disk'.announced = disk.announced BY <1>1, <2>1 DEF Disks
  <2> QED BY <1>2, <1>3, <1>9, <2>2
<1>10. CASE Advances /\ disk' = disk
  <2>1. /\ session.pc \in {"start"} \union Building /\ session.pc # "publish"
        /\ session'.pc \in {"scan"} \union (Building \ {"publish"})
        /\ session'.pc = "scan" <=> session.pc = "start"
        /\ Agrees /\ ~Done' /\ session'.pc # "debounce"
    BY <1>10 DEF Advances, Building, Done
  <2>2. session.pc # "start" => session.pc \in Building BY <2>1
  <2>3. session.subscribed /\ session'.subscribed BY <1>2, <2>1, <2>2 DEF Agrees
  <2>4. session'.pc \in Building => session.pc \in Building
    BY <2>1, <2>2 DEF Building
  <2>5. Source BY <1>2, <1>4, <1>10, <2>1, <2>3, <2>4 DEF Agrees
  <2>6. Output BY <2>1
  <2>7. session.pc \in Planning BY <2>1, <2>2 DEF Planning
  <2>8. Configured BY <1>2, <1>4, <1>10, <2>1, <2>3, <2>7 DEF Agrees
  <2> QED BY <2>3, <2>5, <2>6, <2>8
<1>11. CASE session' = session /\ disk' = disk
  <2>1. Done' = Done BY <1>11 DEF Done
  <2>2. session.pc \in Building \/ Done => session.pc # "debounce" BY DEF Building, Done
  <2>3. session.pc \in Planning => session.pc # "debounce" BY DEF Building, Planning
  <2>4. CASE session.subscribed BY <1>2, <1>4, <1>11, <2>1, <2>2, <2>3, <2>4 DEF Building
  <2>5. CASE ~session.subscribed BY <1>2, <1>7, <1>11, <2>1, <2>5 DEF Building
  <2> QED BY <2>4, <2>5
<1>12. CASE TakeForBuild
  <2>1. session'.pc = "configure" /\ session'.subscribed = session.subscribed
    BY <1>1, <1>12 DEF TakeForBuild, Attempt, States
  <2>2. disk' = disk \/ (disk' = RolledBack /\ disk.undo # None) BY <1>12 DEF TakeForBuild
  <2> QED BY <1>2, <1>5, <2>1, <2>2 DEF Planning, Building, Done
<1>13. CASE Configure
  <2>1. PICK plan, signature :
            /\ plan = IF Reuse THEN session.cached ELSE disk.config
            /\ session' = [session EXCEPT !.pc = "subscribe", !.cached = plan,
                               !.signature = signature, !.preflight = disk.src]
            /\ disk' = disk
    BY <1>13 DEF Configure
  <2>2. /\ session'.pc = "subscribe" /\ session'.cached = plan
        /\ session'.subscribed = session.subscribed /\ session'.retain = session.retain
    BY <1>1, <2>1 DEF States
  <2>3. ~session.retain => plan = disk.config BY <2>1 DEF Reuse
  <2> QED BY <1>1, <1>2, <2>1, <2>2, <2>3 DEF Planning, Building, Done
<1>14. CASE Subscribe
  <2>1. /\ session.pc = "subscribe" /\ session'.pc = "start" /\ session'.subscribed
        /\ session'.cached = session.cached /\ session'.retain = session.retain /\ disk' = disk
    BY <1>1, <1>14 DEF Subscribe, Attempt, States
  <2>2. CASE session.subscribed
    BY <1>2, <1>4, <2>1, <2>2 DEF Planning, Building, Done
  <2>3. CASE ~session.subscribed
    BY <1>2, <1>6, <2>1, <2>3 DEF Planning, Building, Done
  <2> QED BY <2>2, <2>3
<1>15. CASE Scan
  <2>1. PICK pc : /\ pc = IF NoWork THEN "publish" ELSE "initialize"
                  /\ session' = [session EXCEPT !.seen = Scanned, !.preflight = None, !.pc = pc]
                  /\ session.pc = "scan" /\ disk' = disk
    BY <1>15 DEF Scan, Attempt
  <2>2. /\ session'.pc = pc /\ session'.seen = Scanned /\ session'.cached = session.cached
        /\ session'.subscribed = session.subscribed /\ session'.retain = session.retain
    BY <1>1, <2>1 DEF States
  <2>3. Scanned.src = disk.src /\ (pc = "publish" => disk.output)
    BY <2>1 DEF Scanned, NoWork
  <2>4. session.subscribed /\ session.pc \in Planning BY <1>2, <2>1 DEF Planning
  <2> QED BY <1>2, <1>4, <2>1, <2>2, <2>3, <2>4 DEF Planning, Building, Done
<1>16. CASE Commit
  <2>1. /\ session.pc = "commit" /\ session'.pc = "publish" /\ session'.seen = session.seen
        /\ session'.cached = session.cached /\ session'.retain = session.retain
        /\ session'.subscribed = session.subscribed
        /\ disk' = [disk EXCEPT !.output = TRUE, !.graph = session.seen, !.stamped = FALSE]
    BY <1>1, <1>16 DEF Commit, Attempt, Go, States
  <2>2. disk'.src = disk.src /\ disk'.announced = disk.announced /\ disk'.output
    BY <1>1, <2>1 DEF Disks
  <2>3. session.subscribed /\ session.pc \in Planning /\ session.pc \in Building
    BY <1>2, <2>1 DEF Planning, Building
  <2> QED BY <1>2, <1>4, <2>1, <2>2, <2>3 DEF Planning, Building, Done
<1>17. CASE Publish
  <2>1. /\ session.pc = "publish" /\ session'.pc = "classify" /\ session'.seen = session.seen
        /\ session'.cached = session.cached /\ session'.retain = session.retain
        /\ session'.subscribed = session.subscribed
        /\ disk' = [disk EXCEPT !.stamped = TRUE]
    BY <1>1, <1>17 DEF Publish, Ended, Attempt, States
  <2>2. disk'.src = disk.src /\ disk'.announced = disk.announced /\ disk'.output = disk.output
    BY <1>1, <2>1 DEF Disks
  <2>3. session.subscribed /\ session.pc \in Planning /\ session.pc \in Building
    BY <1>2, <2>1 DEF Planning, Building
  <2> QED BY <1>2, <1>4, <2>1, <2>2, <2>3 DEF Planning, Building, Done
<1>18. CASE Begins
  <2>1. /\ session.pc = "classify" /\ session'.pc = session.pc /\ session'.ok = session.ok
        /\ session'.seen = session.seen /\ session'.cached = session.cached
        /\ session'.retain = session.retain /\ session'.subscribed /\ disk' = disk
    BY <1>1, <1>18 DEF Begins, BeginLoop, Attempt, States
  <2>2. Done' = Done BY <2>1 DEF Done
  <2> QED BY <1>2, <1>4, <2>1, <2>2 DEF Planning, Building
<1>19. CASE Classify
  <2>1. PICK graph, d :
            /\ session' = [session EXCEPT !.pc = "wait", !.resident = graph]
            /\ disk' = [d EXCEPT !.stamped = session.succeeded]
            /\ d = IF disk.undo # None THEN RolledBack ELSE disk
    BY <1>19 DEF Classify
  <2>2. /\ session'.pc = "wait" /\ session'.ok = session.ok /\ session'.seen = session.seen
        /\ session'.cached = session.cached /\ session'.retain = session.retain
        /\ session'.subscribed = session.subscribed
    BY <1>1, <2>1 DEF States
  <2>3. d \in Disks /\ d.src = disk.src /\ d.announced = disk.announced BY <1>1, <1>5, <2>1
  <2>4. disk'.src = d.src /\ disk'.announced = d.announced /\ disk'.output = d.output
    BY <2>1, <2>3 DEF Disks
  <2>5. session.pc = "classify" BY <1>19 DEF Classify, Attempt
  <2>6. Done' = Done BY <2>2, <2>5 DEF Done
  <2>7. Done => disk.undo = None BY DEF Inv, Grounded
  <2>8. Done => disk'.output = disk.output BY <2>1, <2>4, <2>7
  <2> QED BY <1>2, <1>4, <2>2, <2>3, <2>4, <2>6, <2>8 DEF Planning, Building
<1>20. CASE World /\ session' = session
  <2>1. Done' = Done BY <1>20 DEF Done
  <2>2. session.pc \in Planning \union Building \/ Done => session.pc # "debounce"
    BY DEF Building, Planning, Done
  <2>3. disk'.src = disk.src \/ EditSource
    BY <1>1, <1>20 DEF World, EditConfiguration, BreakPackages, RepairPackages, RemoveOutput,
       ReplaceGraph, KillWorker, Disks
  <2>4. disk'.announced = disk.announced \/ (EditConfiguration /\ session.subscribed)
    BY <1>1, <1>20 DEF World, EditSource, EditConfiguration, BreakPackages, RepairPackages,
       RemoveOutput, ReplaceGraph, KillWorker, Disks
  <2>5. disk'.output = disk.output \/ RemoveOutput
    BY <1>1, <1>20 DEF World, EditSource, EditConfiguration, BreakPackages, RepairPackages,
       ReplaceGraph, KillWorker, Disks
  <2>6. session.subscribed =>
          /\ EditSource => Holds(queue', "source")
          /\ EditConfiguration => Holds(queue', "config")
          /\ RemoveOutput => Holds(queue', "removed")
    BY <1>1, QueueStep
  <2>7. Listening BY <1>2, <1>20, <2>1
  <2>8. Source BY <1>2, <1>4, <1>20, <2>1, <2>2, <2>3, <2>6
  <2>9. Output BY <1>2, <1>4, <1>20, <2>1, <2>2, <2>5, <2>6 DEF Building
  <2>10. CASE session.subscribed
    BY <1>2, <1>4, <1>20, <2>1, <2>2, <2>4, <2>6, <2>7, <2>8, <2>9, <2>10
  <2>11. CASE ~session.subscribed BY <1>7, <1>20, <2>4, <2>7, <2>8, <2>9, <2>11
  <2> QED BY <2>10, <2>11
<1> QED
  BY <1>1, <1>8, <1>9, <1>10, <1>11, <1>12, <1>13, <1>14, <1>15, <1>16, <1>17, <1>18, <1>19,
     <1>20, Moves

----------------------------------------------------------------------------
(* The theorems.                                                             *)

LEMMA Initially ==
    ASSUME Init
    PROVE  Inv
<1>1. PICK options \in Sessions, interrupted \in BOOLEAN :
        /\ disk = [src |-> 1, config |-> 1, announced |-> 0, broken |-> FALSE,
                   output |-> interrupted, graph |-> NoGraph, stamped |-> FALSE,
                   undo |-> IF interrupted THEN [graph |-> NoGraph, output |-> FALSE] ELSE None]
        /\ session =
             [packages |-> options.packages, retain |-> options.retain,
              deferred |-> options.deferred,
              pc |-> "load", initial |-> TRUE, subscribed |-> FALSE, cached |-> None,
              signature |-> None, resident |-> None, working |-> NoGraph, changed |-> FALSE,
              succeeded |-> FALSE, ok |-> FALSE, known |-> FALSE, preflight |-> None,
              seen |-> NoGraph, at |-> 1]
  BY DEF Init
<1>2. options \in [packages : Seq(STRING), retain : BOOLEAN, deferred : BOOLEAN]
      /\ options.packages # <<>>
  BY WatchAssumption
<1>3. options.packages \in Seq(STRING) /\ Options(session) = options
  BY <1>1, <1>2 DEF Options
<1>4. 1 \in 1..Len(options.packages)
  <2>1. Len(options.packages) \in Nat /\ Len(options.packages) # 0 BY <1>2, <1>3, EmptySeq
  <2> QED BY <2>1
<1>5. 0 \in Version /\ 1 \in Version /\ 0 \in 0..MaxEdits BY WatchAssumption DEF Version
<1>6. NoGraph \in Graph BY <1>5 DEF NoGraph, Graph
<1>7. disk \in Disks
  <2>1. PICK undo \in Undo \union {None} :
            undo = IF interrupted THEN [graph |-> NoGraph, output |-> FALSE] ELSE None
    BY <1>6 DEF Undo
  <2> QED BY <1>1, <1>5, <1>6, <2>1 DEF Disks
<1>8. session \in States BY <1>1, <1>2, <1>3, <1>5, <1>6 DEF States, Steps
<1>9. /\ queue = <<>> /\ pool = None /\ budget = [edits |-> 0, faults |-> 0, unanswered |-> FALSE]
  BY DEF Init
<1>10. queue \in Seq(Kinds) BY <1>9
<1>11. Typed
  BY <1>1, <1>3, <1>4, <1>5, <1>7, <1>8, <1>9, <1>10 DEF Typed
<1>12. session.pc = "load" /\ session.resident = None /\ ~session.ok
       /\ disk.announced = 0 /\ ~session.subscribed
  BY <1>1
<1> QED
  BY <1>9, <1>11, <1>12 DEF Inv, Equipped, Admitted, Fresh, Grounded, Told, Taken, Done,
     Planning, Building

LEMMA InvStep ==
    ASSUME Inv, [Next]_vars
    PROVE  Inv'
<1>1. CASE Next
  <2>1. Typed /\ Equipped BY DEF Inv
  <2>2. session' \in States /\ Options(session') = Options(session)
        /\ session'.at \in 1..Len(session.packages)
    BY <1>1, <2>1, SessionStep
  <2>3. session'.packages = session.packages BY <2>2 DEF Options
  <2>4. /\ disk' \in Disks
        /\ budget' \in [edits : 0..MaxEdits, faults : Nat, unanswered : BOOLEAN]
        /\ disk'.src <= budget'.edits + 1 /\ disk'.config <= budget'.edits + 1
        /\ disk'.announced <= disk'.config
    BY <1>1, <2>1, DiskStep
  <2>5. queue' \in Seq(Kinds) BY <1>1, <2>1, QueueStep
  <2>6. pool' \in Pool \union {None} BY <1>1, PoolStep DEF Inv, Sound
  <2>7. Typed' BY <2>1, <2>2, <2>3, <2>4, <2>5, <2>6 DEF Typed
  <2> QED BY <1>1, <2>7, EquippedStep, GroundedStep, ToldStep DEF Inv
<1>2. CASE UNCHANGED vars
  BY <1>2 DEF vars, Inv, Typed, Equipped, Admitted, Fresh, Grounded, Told, Done, Taken,
     Signature, Options, Holds
<1> QED BY <1>1, <1>2

\* The whole invariant, in every reachable state: what a step of the session
\* reads is of the right kind, and the channel, the pool and the graph stand in
\* the relation that the rest of the theorems draws on.
THEOREM SessionInvariant == Spec => []Inv
<1> QED BY Initially, InvStep, PTL DEF Spec

\* The types of the session, its pool and the disk; the pool never has more
\* processes than max_jobs (pool.rs, prepare_for_requests).
THEOREM TypesHold == Spec => []TypeOK
<1>1. ASSUME Inv PROVE TypeOK
  <2>1. /\ disk \in Disks /\ queue \in Seq(Kinds) /\ session \in States
        /\ session.at \in 1..Len(session.packages) /\ pool \in Pool \union {None}
    BY <1>1 DEF Inv, Typed
  <2>2. session.packages \in Seq(STRING) BY <2>1 DEF States
  <2>3. session.at \in DOMAIN session.packages BY <2>1, <2>2
  <2>4. /\ session.pc \in Steps /\ session.resident \in Graph \union {None}
        /\ session.working \in Graph \union {None} /\ session.seen \in Graph
    BY <2>1 DEF States
  <2>5. session.pc \in {"scan", "initialize", "prepare", "dispatch"} => pool # None
    BY <1>1 DEF Inv, Equipped
  <2>6. pool # None => /\ pool.workers \in Seq(Worker) /\ Len(pool.workers) <= Jobs
                       /\ pool.initialized \in Signatures \union {None}
                       /\ pool.count <= Len(pool.workers) \/ pool.workers = <<>>
    <3> SUFFICES ASSUME pool # None
                 PROVE  /\ pool.workers \in Seq(Worker) /\ Len(pool.workers) <= Jobs
                        /\ pool.initialized \in Signatures \union {None}
                        /\ pool.count <= Len(pool.workers) \/ pool.workers = <<>>
      OBVIOUS
    <3>1. pool \in Pool /\ Fitting(pool) BY <1>1, <2>1 DEF Inv, Equipped
    <3> QED BY <3>1 DEF Pool, Fitting
  <2> QED BY <2>1, <2>3, <2>4, <2>5, <2>6 DEF TypeOK, Disks
<1> QED BY <1>1, SessionInvariant, PTL

\* Whatever failed and whichever processes died in earlier attempts, a process
\* that gets requests was initialized for the package, plan and configuration
\* in hand and has been cleared since (pool.rs, initialize and
\* initialize_pending_workers).
THEOREM ResultsAreTrusted == Spec => []TrustedResults
<1>1. Inv => TrustedResults BY DEF Inv, Fresh, Clear, TrustedResults
<1> QED BY <1>1, SessionInvariant, PTL

\* A session at rest after a success has built what is on disk, however edits
\* fell between its subscription, its scan and its publication (watch.rs, run).
THEOREM RestIsCurrent == Spec => []QuietIsCurrent
<1>1. ASSUME Inv PROVE QuietIsCurrent
  <2> SUFFICES ASSUME Resting
               PROVE  /\ session.seen.src = disk.src /\ disk.output
                      /\ ~session.retain => session.cached >= disk.announced
    BY DEF QuietIsCurrent
  <2>1. Done /\ \A i \in DOMAIN queue : ~IsRelevantEvent(queue[i]) BY DEF Resting, Done
  <2>2. ~Holds(queue, "source") /\ ~Holds(queue, "removed") /\ ~Holds(queue, "config")
    BY <2>1 DEF Holds, IsRelevantEvent, IsGeneratedOutput
  <2> QED BY <1>1, <2>1, <2>2 DEF Inv, Told
<1> QED BY <1>1, SessionInvariant, PTL

\* An attempt that takes its graph takes what the file holds once recovered:
\* a resident graph is reused only for the very file (graph.rs, for_build).
THEOREM AttemptsStartFromDisk == Spec => BuildsFromDisk
<1>1. ASSUME Inv, [Next]_vars
      PROVE  [(session.working = None /\ session'.working # None /\ session'.pc = "configure")
                => session'.working = disk'.graph /\ disk'.undo = None]_vars
  <2>1. Grounded' BY <1>1, InvStep DEF Inv
  <2> QED BY <2>1 DEF Grounded, Taken
<1> QED BY <1>1, SessionInvariant, PTL DEF Spec, BuildsFromDisk
==============================================================================
