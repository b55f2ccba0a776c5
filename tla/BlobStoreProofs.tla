--------------------------- MODULE BlobStoreProofs ---------------------------
(* Lookups answer with what was put, stamps bind indexes to journals,        *)
(* published entries stay and generations do not pile up, for any number of  *)
(* processes, keys, faults and any store found: theorems about BlobStore.    *)
EXTENDS BlobStore, FiniteSetTheorems, SequenceTheorems, TLAPS

----------------------------------------------------------------------------
(* The inductive invariant.                                                  *)

Places == {"idle", "dead", "header", "entries", "lock", "control",
           "reclaim", "attach", "seed", "publish", "sweep"} \cup Writing
Jobs == [pc : Places, op : {None, "get", "refresh", "put"}, put : Puts \cup {None},
         control : BOOLEAN, stage : {"plain", "rotate", "full", "fresh"},
         target : Names \cup {None}, batch : Seq(Puts), upto : Nat]
Views == [name : Names \cup {None}, stamp : Stamps \cup {None}, index : Seq(Keys),
          scanned : BOOLEAN]

Typed ==
    /\ DOMAIN dirs \subseteq Names /\ dirs \in [DOMAIN dirs -> Packs]
    /\ current \in DOMAIN dirs \cup {None}
    /\ job \in [Procs -> Jobs]
    /\ pack \in [Procs -> Views]
    /\ \A p \in Procs : pack[p].name \in DOMAIN dirs \cup {None}
    /\ latched \in [Procs -> BOOLEAN]
    /\ puts \in Nat /\ faults \in Nat

\* Where the code uses the pack it has attached, and where it has the control lock.
UsesPack == {"header", "entries", "lock", "seed", "publish"} \cup Writing
Coordinating == {"reclaim", "attach", "seed", "publish", "sweep"}

\* What a process holds at each point of an operation.
Fits(j, view) ==
    /\ j.pc = "dead" => j = Gone /\ view = Detached
    /\ j.pc = "idle" => j = Resting
    /\ j.pc \in UsesPack \/ j.stage \in {"rotate", "full"} => view.name # None
    /\ j.pc \in {"lock"} \cup Writing \/ j.stage # "plain" => j.op = "put"
    /\ j.op = "put" /\ j.pc \notin {"idle", "dead"} => j.put \in Puts
    /\ j.pc \in Coordinating => j.control
    /\ j.stage # "plain" /\ j.pc # "control" => j.control

Equipped == \A p \in Procs : Fits(job[p], pack[p])

OneCoordinator ==
    \A p, q \in Procs : job[p].control /\ job[q].control => p = q

\* Who coordinates has followed the pointer or is about to, and allocates only
\* while there is room for one more generation.
Pointed ==
    \A p \in Procs :
        /\ \/ job[p].pc = "reclaim"
           \/ job[p].stage \in {"rotate", "full"} /\ job[p].pc \notin {"control", "attach", "publish"}
           => current \in {None, pack[p].name}
        /\ job[p].pc = "attach" =>
            \/ job[p].target = current /\ current # None
            \/ /\ job[p].target \in Names \ DOMAIN dirs
               /\ Cardinality(DOMAIN dirs) <= MaxLive

FewLive == IsFiniteSet(Live) /\ Cardinality(Live) <= MaxLive

FewGenerations == IsFiniteSet(DOMAIN dirs) /\ GenerationsBounded

\* A generation that is being seeded is empty and nobody else's.
Alone ==
    \A p \in Procs :
        job[p].pc = "seed" =>
            /\ \A q \in Procs : pack[q].name = pack[p].name => q = p
            /\ dirs[pack[p].name].entries = <<>>

\* The writer of a generation is the only one, and has read all of its journal.
OneWriter ==
    \A p \in Procs :
        job[p].pc \in Writing =>
            /\ pack[p].index = dirs[pack[p].name].entries
            /\ \A q \in Procs :
                job[q].pc \in Writing /\ pack[q].name = pack[p].name => q = p

\* What a writer is about to cut the data back to is there.
Covered ==
    \A p \in Procs :
        job[p].pc \in {"restamp", "cut"} =>
            Len(pack[p].index) <= Len(dirs[pack[p].name].data)

Coordinated == Typed /\ Equipped /\ OneCoordinator /\ Pointed
Bounded == FewLive /\ FewGenerations
Bound == Alone /\ OneWriter /\ Covered /\ StampBindsIndex

Inv == Coordinated /\ Bounded /\ Bound

----------------------------------------------------------------------------
(* Sequences, the least of two numbers, and what the operators return.       *)

LEMMA MinOfTwo ==
    ASSUME NEW a \in Nat, NEW b \in Nat
    PROVE  Min({a, b}) \in Nat /\ Min({a, b}) <= a /\ Min({a, b}) <= b
<1>1. CASE a <= b BY <1>1, \A x \in {a, b} : a <= x DEF Min
<1>2. CASE ~(a <= b) BY <1>2, \A x \in {a, b} : b <= x DEF Min
<1> QED BY <1>1, <1>2

\* A beginning of a sequence, element by element.
LEMMA PrefixIs ==
    ASSUME NEW S, NEW s \in Seq(S), NEW t \in Seq(S)
    PROVE  IsPrefix(s, t) <=> Len(s) <= Len(t) /\ \A i \in 1..Len(s) : s[i] = t[i]
<1> DEFINE n == Len(s)
           u == SubSeq(s, 1, n)
           v == SubSeq(t, 1, n)
<1>1. n \in Nat /\ Len(t) \in Nat OBVIOUS
<1>2. u = s BY SubSeqFull
<1>3. ASSUME n <= Len(t)
      PROVE  v \in Seq(S) /\ Len(v) = n /\ \A i \in 1..n : v[i] = t[i]
  <2>1. \A i \in 1..n : t[i] \in S BY <1>1, <1>3, ElementOfSeq
  <2> HIDE DEF n
  <2> QED BY <1>1, <2>1, SubSeqProperties
<1>4. ASSUME n <= Len(t) PROVE s = v <=> \A i \in 1..n : s[i] = t[i]
  <2> HIDE DEF v
  <2>1. ASSUME \A i \in 1..n : s[i] = t[i] PROVE s = v
    BY <1>3, <1>4, <2>1, SeqEqual
  <2> QED BY <1>3, <1>4, <2>1
<1> QED BY <1>1, <1>2, <1>4 DEF IsPrefix

LEMMA PrefixOfItself ==
    ASSUME NEW S, NEW s \in Seq(S)
    PROVE  IsPrefix(s, s) /\ IsPrefix(<<>>, s)
<1> Len(s) \in Nat OBVIOUS
<1>1. PICK empty \in Seq(S) : empty = <<>> /\ Len(empty) = 0 BY EmptySeq
<1>2. Len(empty) <= Len(s) /\ \A i \in 1..Len(empty) : empty[i] = s[i] BY <1>1
<1>4. IsPrefix(empty, s) BY <1>2, PrefixIs
<1>3. IsPrefix(s, s) BY DEF IsPrefix
<1> QED BY <1>1, <1>3, <1>4

LEMMA PrefixOfAppend ==
    ASSUME NEW S, NEW s \in Seq(S), NEW t \in Seq(S), IsPrefix(s, t), NEW e \in S
    PROVE  IsPrefix(s, Append(t, e))
<1>1. /\ Append(t, e) \in Seq(S) /\ Len(Append(t, e)) = Len(t) + 1
      /\ \A i \in 1..Len(t) : Append(t, e)[i] = t[i]
  BY AppendProperties
<1>2. Len(s) \in Nat /\ Len(t) \in Nat OBVIOUS
<1>3. Len(s) <= Len(t) /\ \A i \in 1..Len(s) : s[i] = t[i] BY PrefixIs
<1>4. PICK longer \in Seq(S) : longer = Append(t, e) BY <1>1
<1>5. Len(s) <= Len(longer) /\ \A i \in 1..Len(s) : s[i] = longer[i]
  BY <1>1, <1>2, <1>3, <1>4
<1>6. IsPrefix(s, longer) BY <1>5, PrefixIs
<1> QED BY <1>4, <1>6

\* Reading on in a journal.
LEMMA ReadOn ==
    ASSUME NEW s \in Seq(Keys), NEW t \in Seq(Keys), NEW upto \in Nat, upto <= Len(t),
           NEW r, r = s \o SubSeq(t, Len(s) + 1, upto)
    PROVE  /\ r \in Seq(Keys)
           /\ IsPrefix(s, t) => IsPrefix(r, t)
           /\ IsPrefix(s, t) /\ upto = Len(t) => r = t
<1> DEFINE n == Len(s)
           u == SubSeq(t, n + 1, upto)
<1>1. n \in Nat /\ Len(t) \in Nat OBVIOUS
<1>2. \A i \in (n + 1)..upto : t[i] \in Keys BY <1>1, ElementOfSeq
<1>3. /\ u \in Seq(Keys) /\ Len(u) = IF n + 1 <= upto THEN upto - n ELSE 0
      /\ \A i \in 1..(upto - n) : u[i] = t[n + i]
  <2> HIDE DEF n
  <2>1. /\ u \in Seq(Keys)
        /\ Len(u) = IF n + 1 <= upto THEN upto - (n + 1) + 1 ELSE 0
        /\ \A i \in 1..(upto - (n + 1) + 1) : u[i] = t[n + 1 + i - 1]
    BY <1>1, <1>2, SubSeqProperties
  <2> QED BY <1>1, <2>1
<1>4. r = s \o u OBVIOUS
<1>5. /\ r \in Seq(Keys) /\ Len(r) = n + Len(u)
      /\ \A i \in 1..(n + Len(u)) : r[i] = IF i <= n THEN s[i] ELSE u[i - n]
  <2> HIDE DEF u
  <2>1. u \in Seq(Keys) BY <1>3
  <2>2. /\ s \o u \in Seq(Keys) /\ Len(s \o u) = Len(s) + Len(u)
        /\ \A i \in 1..(Len(s) + Len(u)) : (s \o u)[i] = IF i <= Len(s) THEN s[i] ELSE u[i - Len(s)]
    BY <2>1, ConcatProperties
  <2> QED BY <1>4, <2>2
<1>6. ASSUME IsPrefix(s, t)
      PROVE  /\ Len(r) <= Len(t) /\ \A i \in 1..Len(r) : r[i] = t[i]
             /\ upto = Len(t) => Len(r) = Len(t)
  <2>1. n <= Len(t) /\ \A i \in 1..n : s[i] = t[i] BY <1>6, PrefixIs
  <2> HIDE DEF n, u
  <2>2. Len(u) \in Nat BY <1>3
  <2>3. Len(r) <= Len(t) /\ (upto = Len(t) => Len(r) = Len(t)) BY <1>1, <1>3, <1>5, <2>1
  <2>4. ASSUME NEW i \in 1..Len(r) PROVE r[i] = t[i]
    <3>1. CASE i <= n BY <1>1, <1>5, <2>1, <3>1
    <3>2. CASE i > n
      <4>1. Len(u) = upto - n /\ i - n \in 1..(upto - n) BY <1>1, <1>3, <1>5, <2>2, <3>2
      <4> QED BY <1>1, <1>3, <1>5, <3>2, <4>1
    <3> QED BY <1>1, <3>1, <3>2
  <2> QED BY <2>3, <2>4
<1> HIDE DEF n, u
<1>7. IsPrefix(s, t) => IsPrefix(r, t) BY <1>5, <1>6, PrefixIs
<1>8. IsPrefix(s, t) /\ upto = Len(t) => r = t BY <1>5, <1>6, SeqEqual
<1> QED BY <1>5, <1>7, <1>8

\* The parts of a typed state.
LEMMA PartsTyped ==
    ASSUME Typed, NEW p \in Procs
    PROVE  /\ pack[p] \in Views /\ job[p] \in Jobs
           /\ pack[p].name # None =>
                pack[p].name \in DOMAIN dirs /\ dirs[pack[p].name] \in Packs
           /\ \A g \in DOMAIN dirs : dirs[g] \in Packs /\ g # None
           /\ None \notin Names
BY BlobAssumption DEF Typed

LEMMA RebasedIs ==
    ASSUME NEW view \in Views, NEW d \in Packs
    PROVE  /\ Rebased(view, d) \in Views /\ Rebased(view, d).name = view.name
           /\ Rebased(view, d).stamp = IF Readable(d) THEN d.stamp ELSE None
           /\ (view.stamp # None /\ view.stamp = d.stamp => IsPrefix(view.index, d.entries))
                => IsPrefix(Rebased(view, d).index, d.entries)
<1>1. d.stamp \in Stamps \cup {None, Torn} /\ d.entries \in Seq(Keys) /\ <<>> \in Seq(Keys)
  BY DEF Packs
<1>2. IsPrefix(<<>>, d.entries) BY <1>1, PrefixOfItself
<1>3. CASE ~Readable(d) BY <1>1, <1>2, <1>3 DEF Rebased, Views
<1>4. CASE Readable(d) /\ SameJournal(view, d)
  BY <1>1, <1>2, <1>4 DEF Rebased, Views, SameJournal, Readable
<1>5. CASE Readable(d) /\ ~SameJournal(view, d)
  BY <1>1, <1>2, <1>5 DEF Rebased, Views, Readable
<1> QED BY <1>3, <1>4, <1>5

LEMMA ExtendedIs ==
    ASSUME NEW view \in Views, NEW d \in Packs, NEW upto \in Nat, upto <= Len(d.entries)
    PROVE  /\ Extended(view, d, upto) \in Views
           /\ Extended(view, d, upto).name = view.name
           /\ Extended(view, d, upto).stamp = view.stamp
           /\ IsPrefix(view.index, d.entries) =>
                /\ IsPrefix(Extended(view, d, upto).index, d.entries)
                /\ upto = Len(d.entries) => Extended(view, d, upto).index = d.entries
<1>1. PICK r : r = view.index \o SubSeq(d.entries, Len(view.index) + 1, upto) OBVIOUS
<1>2. view.index \in Seq(Keys) /\ d.entries \in Seq(Keys) BY DEF Views, Packs
<1>3. /\ r \in Seq(Keys)
      /\ IsPrefix(view.index, d.entries) => IsPrefix(r, d.entries)
      /\ IsPrefix(view.index, d.entries) /\ upto = Len(d.entries) => r = d.entries
  <2>1. PICK s \in Seq(Keys), t \in Seq(Keys) : s = view.index /\ t = d.entries BY <1>2
  <2>2. r = s \o SubSeq(t, Len(s) + 1, upto) /\ upto <= Len(t) BY <1>1, <2>1
  <2>3. r \in Seq(Keys) BY <2>2, ReadOn
  <2>4. ASSUME IsPrefix(s, t) PROVE IsPrefix(r, t) BY <2>2, <2>4, ReadOn
  <2>5. ASSUME IsPrefix(s, t), upto = Len(t) PROVE r = t BY <2>2, <2>5, ReadOn
  <2> QED BY <2>1, <2>3, <2>4, <2>5
<1>4. Extended(view, d, upto) = [view EXCEPT !.index = r] BY <1>1 DEF Extended
<1> QED BY <1>3, <1>4 DEF Views

\* A writer keeps a whole journal as it is and gives any other up.
LEMMA AdoptedIs ==
    ASSUME NEW view \in Views, NEW d \in Packs
    PROVE  /\ Adopted(view, d) \in Views /\ Adopted(view, d).name = view.name
           /\ (view.stamp # None /\ view.stamp = d.stamp => IsPrefix(view.index, d.entries)) =>
                IF Whole(d)
                THEN Adopted(view, d).stamp = d.stamp /\ Adopted(view, d).index = d.entries
                ELSE Adopted(view, d).stamp = None /\ Adopted(view, d).index = <<>>
<1>1. PICK base \in Views : base = Rebased(view, d) BY RebasedIs
<1>2. d.entries \in Seq(Keys) /\ d.data \in Seq(Puts \cup {Torn}) BY DEF Packs
<1>3. PICK upto \in Nat : upto = Len(d.entries) BY <1>2
<1>4. PICK read \in Views : read = Extended(base, d, upto) BY <1>3, ExtendedIs
<1>5. Adopted(view, d) = IF Readable(d) /\ Len(d.data) >= Len(read.index) THEN read
                         ELSE [read EXCEPT !.stamp = None, !.index = <<>>]
  BY <1>1, <1>3, <1>4 DEF Adopted
<1>6. read.name = view.name /\ (Readable(d) => read.stamp = d.stamp)
  BY SMTT(20), <1>1, <1>3, <1>4, RebasedIs, ExtendedIs
<1>7. ASSUME view.stamp # None /\ view.stamp = d.stamp => IsPrefix(view.index, d.entries)
      PROVE  read.index = d.entries
  <2>1. IsPrefix(base.index, d.entries) BY <1>1, <1>7, RebasedIs
  <2> QED BY <1>3, <1>4, <2>1, ExtendedIs
<1>8. <<>> \in Seq(Keys) OBVIOUS
<1> QED BY <1>5, <1>6, <1>7, <1>8 DEF Views, Whole

LEMMA NewStampIs ==
    ASSUME Typed, FewLive, NEW g
    PROVE  /\ NewStamp(g) \in Stamps /\ NewStamp(g) # dirs[g].stamp
           /\ \A p \in Users(g) : NewStamp(g) # pack[p].stamp
<1> DEFINE f == [p \in Users(g) |-> pack[p].stamp]
           seen == {pack[p].stamp : p \in Users(g)}
           taken == seen \cup {dirs[g].stamp}
<1>1. Users(g) \subseteq Live BY DEF Users
<1>2. IsFiniteSet(Users(g)) /\ Cardinality(Users(g)) <= MaxLive /\ Cardinality(Users(g)) \in Nat
  <2>1. IsFiniteSet(Users(g)) /\ Cardinality(Users(g)) <= Cardinality(Live)
    BY <1>1, FS_Subset DEF FewLive
  <2>2. Cardinality(Users(g)) \in Nat /\ Cardinality(Live) \in Nat
    BY <2>1, FS_CardinalityType DEF FewLive
  <2> QED BY <2>1, <2>2, BlobAssumption DEF FewLive
<1>3. f \in Surjection(Users(g), seen) BY DEF Surjection
<1>4. IsFiniteSet(seen) /\ Cardinality(seen) <= Cardinality(Users(g))
  <2> HIDE DEF f, seen
  <2> QED BY <1>2, <1>3, FS_Surjection
<1>5. IsFiniteSet(taken) /\ Cardinality(taken) <= Cardinality(seen) + 1
  <2> HIDE DEF seen
  <2>1. Cardinality(seen) \in Nat BY <1>4, FS_CardinalityType
  <2> QED BY <1>4, <2>1, FS_AddElement
<1>6. Cardinality(Stamps) = MaxLive + 3
  <2>1. PICK n \in Int : n = MaxLive + 3 /\ n > 0 BY BlobAssumption
  <2>2. Cardinality(1..n) = n BY <2>1, FS_Interval
  <2> QED BY <2>1, <2>2 DEF Stamps
<1>7. \E s \in Stamps : s \notin taken
  <2> HIDE DEF taken, seen
  <2> SUFFICES ASSUME Stamps \subseteq taken PROVE FALSE OBVIOUS
  <2>1. Cardinality(Stamps) <= Cardinality(taken) BY <1>5, FS_Subset
  <2>2. Cardinality(taken) \in Nat /\ Cardinality(seen) \in Nat
    BY <1>4, <1>5, FS_CardinalityType
  <2> QED BY <1>2, <1>4, <1>5, <1>6, <2>1, <2>2, BlobAssumption
<1>8. \E s \in Stamps : s # dirs[g].stamp /\ \A p \in Users(g) : s # pack[p].stamp
  BY <1>7
<1> QED BY <1>8 DEF NewStamp

LEMMA FreshNameIs ==
    ASSUME Typed, FewGenerations
    PROVE  FreshName \in Names \ DOMAIN dirs
<1>1. \E g \in Names : g \notin DOMAIN dirs
  <2> SUFFICES ASSUME Names \subseteq DOMAIN dirs PROVE FALSE OBVIOUS
  <2>1. Names = DOMAIN dirs BY DEF Typed
  <2> QED BY <2>1, FS_CardinalityType, BlobAssumption DEF FewGenerations, GenerationsBounded
<1> QED BY <1>1 DEF FreshName

\* Whatever the index says: what reads back is a record of that key.
LEMMA TrueAnswer ==
    ASSUME Typed, NEW p \in Procs, NEW k, Lookup(pack[p], k) # None
    PROVE  <<k, Lookup(pack[p], k)>> \in Puts
<1> DEFINE view == pack[p]
           i == Offset(view, k)
           data == dirs[view.name].data
<1>1. view.name # None /\ i \in DOMAIN data /\ data[i] # Torn /\ data[i][1] = k
      /\ Lookup(view, k) = data[i][2]
  BY DEF Lookup
<1>2. data \in Seq(Puts \cup {Torn}) BY <1>1, PartsTyped DEF Packs
<1> HIDE DEF i, data
<1>3. data[i] \in Puts BY <1>1, <1>2
<1>4. data[i] = <<data[i][1], data[i][2]>> BY <1>3, BlobAssumption
<1> QED BY <1>1, <1>3, <1>4

LEMMA RecentIs ==
    ASSUME Typed, NEW p \in Procs, NEW batch \in Recent(p)
    PROVE  batch \in Seq(Puts)
<1> DEFINE view == pack[p]
           latest == {i \in DOMAIN view.index : Offset(view, view.index[i]) = i}
           window == {i \in latest : Cardinality({j \in latest : j > i}) < Seeds}
           kept == {i \in window : /\ view.index[i] # job[p].put[1]
                                   /\ Lookup(view, view.index[i]) # None}
           all == UNION {[1..n -> kept] : n \in 0..Seeds}
<1>1. PICK order \in all :
        batch = [i \in DOMAIN order |-> <<view.index[order[i]], Lookup(view, view.index[order[i]])>>]
  BY DEF Recent
<1>2. PICK n \in 0..Seeds : order \in [1..n -> kept] BY <1>1
<1>3. batch = [i \in 1..n |-> <<view.index[order[i]], Lookup(view, view.index[order[i]])>>]
  BY <1>1, <1>2
<1>4. \A i \in kept : <<view.index[i], Lookup(view, view.index[i])>> \in Puts
  BY TrueAnswer
<1>5. n \in Nat BY BlobAssumption
<1> HIDE DEF kept
<1>6. \A i \in 1..n : batch[i] \in Puts BY <1>3, <1>4, <1>2
<1> QED BY <1>3, <1>5, <1>6

----------------------------------------------------------------------------
(* What a step of a process does to its own job and pack, and to no other's. *)

Acts(p) ==
    \/ Start(p) \/ Exit(p)
    \/ BeginGet(p) \/ BeginRefresh(p) \/ (\E put \in Puts : BeginPut(p, put))
    \/ ReadHeader(p) \/ ReadEntries(p)
    \/ LockData(p) \/ Restamp(p) \/ CutData(p)
    \/ AppendData(p) \/ AppendEntry(p)
    \/ LockControl(p) \/ Reclaim(p) \/ Sweep(p)
    \/ Attach(p) \/ CannotAttach(p) \/ Seed(p) \/ Publish(p)
    \/ WriteFails(p) \/ Kill(p)

LEMMA Steps == Next => (\E p \in Procs : Acts(p)) \/ PowerLoss
BY DEF Next, Acts

JobStep(p) ==
    /\ job' \in [Procs -> Jobs]
    /\ \A q \in Procs \ {p} : job'[q] = job[q]
    /\ job'[p].control => job[p].control \/ \A q \in Procs : ~job[q].control

PackStep(p) ==
    /\ pack' \in [Procs -> Views]
    /\ \A q \in Procs \ {p} : pack'[q] = pack[q]

Own(p) == JobStep(p) /\ PackStep(p) /\ Fits(job'[p], pack'[p])

LEMMA Ends ==
    /\ Resting \in Jobs /\ Gone \in Jobs /\ Detached \in Views
    /\ \A view : Fits(Resting, view)
    /\ Fits(Gone, Detached) /\ ~Resting.control /\ ~Gone.control
<1>1. <<>> \in Seq(Puts) /\ <<>> \in Seq(Keys) OBVIOUS
<1> QED BY <1>1 DEF Resting, Gone, Detached, Jobs, Views, Places, Fits, UsesPack, Writing, Coordinating

LEMMA LeftFits ==
    ASSUME NEW j \in Jobs, NEW view \in Views, NEW old, Fits(j, old), j.pc \notin {"idle", "dead"}
    PROVE  Left(j, view) \in Jobs /\ Fits(Left(j, view), view) /\ ~Left(j, view).control
<1>1. CASE j.stage # "plain" \/ view.name = None BY <1>1, Ends DEF Left
<1>2. CASE ~(j.stage # "plain" \/ view.name = None)
  BY <1>2 DEF Left, Jobs, Places, Fits, UsesPack, Writing, Coordinating
<1> QED BY <1>1, <1>2

LEMMA FollowedFits ==
    ASSUME Typed, Equipped, NEW p \in Procs, Followed(p),
           job[p].pc \notin {"idle", "dead"},
           job[p].control \/ \A q \in Procs : ~job[q].control
    PROVE  JobStep(p) /\ Fits(job'[p], pack[p])
<1>1. pack[p] \in Views /\ job[p] \in Jobs /\ Fits(job[p], pack[p])
  BY PartsTyped DEF Equipped
<1>2. CASE job[p].stage = "rotate"
  <2>1. job' = [job EXCEPT ![p].pc = PutAt(p), ![p].control = TRUE] BY <1>2 DEF Followed
  <2>2. PutAt(p) \in {"lock", "header"} BY DEF PutAt
  <2>3. job'[p] = [job[p] EXCEPT !.pc = PutAt(p), !.control = TRUE] BY <2>1 DEF Typed
  <2> QED BY <1>1, <1>2, <2>1, <2>2, <2>3
          DEF Typed, JobStep, Jobs, Places, Fits, UsesPack, Writing, Coordinating
<1>3. CASE job[p].stage # "rotate"
  <2>1. job' = [job EXCEPT ![p] = Left(@, pack[p])] BY <1>3 DEF Followed, Leave
  <2>2. Left(job[p], pack[p]) \in Jobs /\ Fits(Left(job[p], pack[p]), pack[p])
        /\ ~Left(job[p], pack[p]).control
    BY <1>1, LeftFits
  <2> QED BY <2>1, <2>2 DEF Typed, JobStep
<1> QED BY <1>2, <1>3

LEMMA RefuseFits ==
    ASSUME Typed, Equipped, NEW p \in Procs, Refuse(p), job[p].pc \notin {"idle", "dead", "control"}
    PROVE  Own(p)
<1>1. pack[p] \in Views /\ job[p] \in Jobs /\ Fits(job[p], pack[p])
  BY PartsTyped DEF Equipped
<1>2. CASE job[p].stage = "fresh"
  <2> DEFINE j == [job[p] EXCEPT !.pc = "sweep"]
  <2>1. job' = [job EXCEPT ![p] = j] /\ pack' = [pack EXCEPT ![p] = Detached]
    BY <1>2 DEF Refuse, Close, Typed
  <2>2. j \in Jobs /\ j.control = job[p].control BY <1>1 DEF Jobs, Places
  <2>3. Fits(j, Detached)
    BY <1>1, <1>2 DEF Jobs, Fits, UsesPack, Writing, Coordinating
  <2> HIDE DEF j
  <2> QED BY <2>1, <2>2, <2>3, Ends DEF Typed, Own, JobStep, PackStep
<1>3. CASE job[p].stage # "fresh"
  BY <1>1, <1>3, Ends DEF Refuse, Typed, Own, JobStep, PackStep
<1> QED BY <1>2, <1>3

LEMMA StoredFits ==
    ASSUME Typed, Equipped, NEW p \in Procs, Stored(p), job[p].pc \in Writing
    PROVE  JobStep(p) /\ \A view : view.name = pack[p].name => Fits(job'[p], view)
<1>1. pack[p] \in Views /\ job[p] \in Jobs /\ Fits(job[p], pack[p])
  BY PartsTyped DEF Equipped
<1>2. CASE job[p].stage = "fresh"
  <2> DEFINE j == [job[p] EXCEPT !.pc = "publish"]
  <2>1. job' = [job EXCEPT ![p] = j] BY <1>2 DEF Stored, Typed
  <2>2. j \in Jobs /\ j.control = job[p].control BY <1>1 DEF Jobs, Places
  <2>3. \A view : view.name = pack[p].name => Fits(j, view)
    BY <1>1, <1>2 DEF Jobs, Fits, UsesPack, Writing, Coordinating
  <2> HIDE DEF j
  <2> QED BY <2>1, <2>2, <2>3 DEF Typed, JobStep
<1>3. CASE job[p].stage # "fresh"
  BY <1>1, <1>3, Ends DEF Stored, Typed, JobStep
<1> QED BY <1>2, <1>3

LEMMA RaiseFits ==
    ASSUME Typed, Equipped, NEW p \in Procs, NEW view \in Views, Raise(p, view),
           job[p].pc \notin {"idle", "dead"}
    PROVE  JobStep(p) /\ Fits(job'[p], view)
<1>1. job[p] \in Jobs /\ Fits(job[p], pack[p]) BY PartsTyped DEF Equipped
<1>2. Left(job[p], view) \in Jobs /\ Fits(Left(job[p], view), view) /\ ~Left(job[p], view).control
  BY <1>1, LeftFits
<1> QED BY <1>2 DEF Raise, Typed, JobStep

\* One new job, one new view of a pack.
LEMMA OwnBy ==
    ASSUME Typed, NEW p \in Procs, NEW j \in Jobs, NEW view \in Views, Fits(j, view),
           job' = [job EXCEPT ![p] = j], pack' = [pack EXCEPT ![p] = view],
           j.control => job[p].control \/ \A q \in Procs : ~job[q].control
    PROVE  Own(p)
BY DEF Typed, Own, JobStep, PackStep

\* The same for a step that leaves the packs alone.
LEMMA JobBy ==
    ASSUME Typed, NEW p \in Procs, NEW j \in Jobs, Fits(j, pack[p]),
           job' = [job EXCEPT ![p] = j], pack' = pack,
           j.control => job[p].control \/ \A q \in Procs : ~job[q].control
    PROVE  Own(p)
BY DEF Typed, Own, JobStep, PackStep

LEMMA OwnStep ==
    ASSUME Typed, Equipped, Pointed, FewLive, FewGenerations, NEW p \in Procs, Acts(p)
    PROVE  Own(p)
<1> USE DEF Places, UsesPack, Writing, Coordinating
<1>1. pack[p] \in Views /\ job[p] \in Jobs /\ Fits(job[p], pack[p])
  BY PartsTyped DEF Equipped
<1>2. job \in [Procs -> Jobs] /\ pack \in [Procs -> Views] BY DEF Typed
<1>3. ASSUME JobStep(p), pack' = pack, Fits(job'[p], pack[p]) PROVE Own(p)
  BY <1>2, <1>3 DEF Own, PackStep
<1>4. CASE Start(p)
  BY <1>1, <1>2, <1>4, Ends, JobBy DEF Start
<1>5. CASE Exit(p)
  BY <1>1, <1>2, <1>5, Ends, OwnBy DEF Exit, Close
<1>6. CASE BeginGet(p)
  <2> DEFINE j == [job[p] EXCEPT !.op = "get",
                      !.pc = IF pack[p].name = None THEN "control" ELSE "header"]
  <2>1. job' = [job EXCEPT ![p] = j] /\ pack' = pack BY <1>6, <1>2 DEF BeginGet
  <2>2. job[p] = Resting BY <1>1, <1>6 DEF BeginGet, Idle, Fits
  <2>3. j \in Jobs BY <1>1, <1>6 DEF Jobs
  <2>4. ~j.control /\ j.stage = "plain" BY <1>1, <2>2 DEF Jobs, Resting
  <2>5. Fits(j, pack[p]) BY <1>1, <1>6, <2>4 DEF Jobs, Fits
  <2> HIDE DEF j
  <2> QED BY <2>1, <2>3, <2>4, <2>5, JobBy
<1>7. CASE BeginRefresh(p)
  <2> DEFINE j == [job[p] EXCEPT !.op = "refresh", !.pc = "control"]
  <2>1. job' = [job EXCEPT ![p] = j] /\ pack' = pack BY <1>7, <1>2 DEF BeginRefresh
  <2>2. job[p] = Resting BY <1>1, <1>7 DEF BeginRefresh, Idle, Fits
  <2>3. j \in Jobs BY <1>1, <1>7 DEF Jobs
  <2>4. ~j.control /\ j.stage = "plain" BY <1>1, <2>2 DEF Jobs, Resting
  <2>5. Fits(j, pack[p]) BY <1>1, <1>7, <2>4 DEF Jobs, Fits
  <2> HIDE DEF j
  <2> QED BY <2>1, <2>3, <2>4, <2>5, JobBy
<1>8. ASSUME NEW put \in Puts, BeginPut(p, put) PROVE Own(p)
  <2> DEFINE j == [job[p] EXCEPT !.op = "put", !.put = put,
                      !.pc = IF pack[p].name = None THEN "control" ELSE PutAt(p)]
  <2>1. job' = [job EXCEPT ![p] = j] /\ pack' = pack BY <1>8, <1>2 DEF BeginPut
  <2>2. job[p] = Resting BY <1>1, <1>8 DEF BeginPut, Idle, Fits
  <2>3. j \in Jobs BY <1>1, <1>8 DEF Jobs, PutAt
  <2>4. ~j.control /\ j.stage = "plain" BY <1>1, <2>2 DEF Jobs, Resting
  <2>5. Fits(j, pack[p]) BY <1>1, <1>8, <2>4 DEF Jobs, Fits, PutAt
  <2> HIDE DEF j
  <2> QED BY <2>1, <2>3, <2>4, <2>5, JobBy
<1>9. CASE ReadHeader(p)
  <2> DEFINE d == dirs[pack[p].name]
             view == [Rebased(pack[p], d) EXCEPT !.scanned = TRUE]
             j == IF Readable(d) THEN [job[p] EXCEPT !.pc = "entries", !.upto = Len(d.entries)]
                  ELSE HaveRead(job[p])
  <2>1. job' = [job EXCEPT ![p] = j] /\ pack' = [pack EXCEPT ![p] = view]
    BY <1>9, <1>2 DEF ReadHeader
  <2>2. d \in Packs /\ pack[p].name # None BY <1>1, <1>9, PartsTyped DEF ReadHeader, Fits
  <2>3. Rebased(pack[p], d) \in Views /\ Rebased(pack[p], d).name = pack[p].name
    BY <1>1, <2>2, RebasedIs
  <2>4. view \in Views /\ view.name = pack[p].name BY <2>3 DEF Views
  <2> HIDE DEF view
  <2>5. j \in Jobs /\ Fits(j, view) /\ (j.control => job[p].control)
    <3>1. Len(d.entries) \in Nat BY <2>2 DEF Packs
    <3>2. CASE Readable(d)
      <4>1. j = [job[p] EXCEPT !.pc = "entries", !.upto = Len(d.entries)] BY <3>2
      <4> QED BY <1>1, <1>9, <2>2, <2>4, <3>1, <4>1 DEF ReadHeader, Jobs, Fits
    <3>3. CASE ~Readable(d) /\ job[p].op = "put"
      <4>1. j = [job[p] EXCEPT !.pc = "lock", !.upto = 0] BY <3>3 DEF HaveRead
      <4> HIDE DEF j
      <4>2. j \in Jobs /\ j.control = job[p].control BY <1>1, <4>1 DEF Jobs
      <4>3. Fits(j, view) BY <1>1, <1>9, <2>2, <2>4, <3>3, <4>1 DEF ReadHeader, Jobs, Fits
      <4> QED BY <4>2, <4>3
    <3>4. CASE ~Readable(d) /\ job[p].op # "put" BY <3>4, Ends DEF HaveRead
    <3> QED BY <3>2, <3>3, <3>4
  <2> HIDE DEF j
  <2> QED BY <2>1, <2>4, <2>5, OwnBy
<1>10. CASE ReadEntries(p)
  <2> DEFINE d == dirs[pack[p].name]
             upto == Min({job[p].upto, Len(d.entries)})
             view == Extended(pack[p], d, upto)
             j == HaveRead(job[p])
  <2>1. job' = [job EXCEPT ![p] = j] /\ pack' = [pack EXCEPT ![p] = view]
    BY <1>10, <1>2 DEF ReadEntries
  <2>2. d \in Packs /\ pack[p].name # None BY <1>1, <1>10, PartsTyped DEF ReadEntries, Fits
  <2>3. upto \in Nat /\ upto <= Len(d.entries)
    <3>1. job[p].upto \in Nat /\ Len(d.entries) \in Nat BY <1>1, <2>2 DEF Jobs, Packs
    <3> QED BY <3>1, MinOfTwo
  <2> HIDE DEF upto
  <2>4. view \in Views /\ view.name = pack[p].name BY <1>1, <2>2, <2>3, ExtendedIs
  <2> HIDE DEF view
  <2>5. j \in Jobs /\ Fits(j, view) /\ (j.control => job[p].control)
    <3>1. CASE job[p].op = "put"
      <4>1. j = [job[p] EXCEPT !.pc = "lock", !.upto = 0] BY <3>1 DEF HaveRead
      <4> HIDE DEF j
      <4>2. j \in Jobs /\ j.control = job[p].control BY <1>1, <4>1 DEF Jobs
      <4>3. Fits(j, view) BY <1>1, <1>10, <2>2, <2>4, <3>1, <4>1 DEF ReadEntries, Jobs, Fits
      <4> QED BY <4>2, <4>3
    <3>2. CASE job[p].op # "put" BY <3>2, Ends DEF HaveRead
    <3> QED BY <3>1, <3>2
  <2> HIDE DEF j
  <2> QED BY <2>1, <2>4, <2>5, OwnBy
<1>11. CASE LockData(p)
  <2>1. CASE Refuse(p) BY <1>11, <2>1, RefuseFits DEF LockData
  <2>2. CASE Adopt(p)
    <3> DEFINE d == dirs[pack[p].name]
               view == Adopted(pack[p], d)
    <3>1. d \in Packs /\ pack[p].name # None BY <1>1, <1>11, PartsTyped DEF LockData, Fits
    <3>2. view \in Views /\ view.name = pack[p].name BY <1>1, <3>1, AdoptedIs
    <3>3. pack' = [pack EXCEPT ![p] = view] BY <2>2 DEF Adopt
    <3>4. PICK pc \in {"restamp", "cut"} : job' = [job EXCEPT ![p].pc = pc]
      BY <2>2 DEF Adopt
    <3> HIDE DEF view
    <3> DEFINE j == [job[p] EXCEPT !.pc = pc]
    <3>5. job' = [job EXCEPT ![p] = j] BY <1>2, <3>4
    <3>6. j \in Jobs /\ Fits(j, view) /\ j.control = job[p].control
      BY <1>1, <1>11, <3>1, <3>2, <3>4 DEF LockData, Jobs, Fits
    <3> HIDE DEF j
    <3> QED BY <3>2, <3>3, <3>5, <3>6, OwnBy
  <2> QED BY <1>11, <2>1, <2>2 DEF LockData
<1>12. CASE Restamp(p)
  <2> DEFINE view == [pack[p] EXCEPT !.stamp = NewStamp(pack[p].name)]
             j == [job[p] EXCEPT !.pc = "cut"]
  <2>1. job' = [job EXCEPT ![p] = j] /\ pack' = [pack EXCEPT ![p] = view]
    BY <1>12, <1>2 DEF Restamp
  <2>2. NewStamp(pack[p].name) \in Stamps BY NewStampIs
  <2>3. view \in Views /\ view.name = pack[p].name BY <1>1, <2>2 DEF Views
  <2> HIDE DEF view
  <2>4. j \in Jobs /\ j.control = job[p].control BY <1>1 DEF Jobs
  <2>5. Fits(j, view) BY <1>1, <1>12, <2>3 DEF Restamp, Jobs, Fits
  <2> HIDE DEF j
  <2> QED BY <2>1, <2>3, <2>4, <2>5, OwnBy
<1>13. CASE CutData(p)
  <2>1. job[p].pc = "cut" BY <1>13 DEF CutData
  <2>2. CASE Stored(p) /\ UNCHANGED <<pack, latched>>
    BY <1>3, <2>1, <2>2, StoredFits
  <2>3. CASE Full(p) /\ job[p].stage = "fresh"
    BY <2>1, <2>3, RefuseFits DEF Full
  <2>4. CASE Full(p) /\ job[p].stage = "plain"
    <3> DEFINE j == [job[p] EXCEPT !.pc = "control", !.stage = "rotate"]
    <3>1. job' = [job EXCEPT ![p] = j] /\ pack' = pack BY <2>4, <1>2 DEF Full
    <3>2. j \in Jobs /\ j.control = job[p].control BY <1>1 DEF Jobs
    <3>3. Fits(j, pack[p]) BY <1>1, <2>1 DEF Jobs, Fits
    <3> HIDE DEF j
    <3> QED BY <3>1, <3>2, <3>3, JobBy
  <2>5. CASE Full(p) /\ job[p].stage \notin {"plain", "fresh"}
    <3> DEFINE j == [job[p] EXCEPT !.pc = "reclaim", !.stage = "full"]
    <3>1. job' = [job EXCEPT ![p] = j] /\ pack' = pack BY <2>5, <1>2 DEF Full
    <3>2. j \in Jobs /\ j.control = job[p].control BY <1>1 DEF Jobs
    <3>3. Fits(j, pack[p]) BY <1>1, <2>1, <2>5 DEF Jobs, Fits
    <3> HIDE DEF j
    <3> QED BY <3>1, <3>2, <3>3, JobBy
  <2>6. CASE job' = [job EXCEPT ![p].pc = "data"] /\ UNCHANGED <<pack, latched>>
    <3> DEFINE j == [job[p] EXCEPT !.pc = "data"]
    <3>1. job' = [job EXCEPT ![p] = j] /\ pack' = pack BY <2>6, <1>2
    <3>2. j \in Jobs /\ j.control = job[p].control BY <1>1 DEF Jobs
    <3>3. Fits(j, pack[p]) BY <1>1, <2>1 DEF Jobs, Fits
    <3> HIDE DEF j
    <3> QED BY <3>1, <3>2, <3>3, JobBy
  <2>7. \/ Stored(p) /\ UNCHANGED <<pack, latched>>
        \/ Full(p)
        \/ job' = [job EXCEPT ![p].pc = "data"] /\ UNCHANGED <<pack, latched>>
    BY <1>13, Zenon DEF CutData
  <2> QED BY <2>2, <2>3, <2>4, <2>5, <2>6, <2>7
<1>14. CASE AppendData(p)
  <2> DEFINE j == [job[p] EXCEPT !.pc = "entry"]
  <2>1. job' = [job EXCEPT ![p] = j] /\ pack' = pack BY <1>14, <1>2 DEF AppendData
  <2>2. j \in Jobs /\ j.control = job[p].control BY <1>1 DEF Jobs
  <2>3. Fits(j, pack[p]) BY <1>1, <1>14 DEF AppendData, Jobs, Fits
  <2> HIDE DEF j
  <2> QED BY <2>1, <2>2, <2>3, JobBy
<1>15. CASE AppendEntry(p)
  <2>1. JobStep(p) /\ \A view : view.name = pack[p].name => Fits(job'[p], view)
    BY <1>15, StoredFits DEF AppendEntry
  <2>2. job[p].put[1] \in Keys BY <1>1, <1>15, BlobAssumption DEF AppendEntry, Fits
  <2> DEFINE view == [pack[p] EXCEPT !.index = Append(@, job[p].put[1])]
  <2>3. pack' = [pack EXCEPT ![p] = view] BY <1>15, <1>2 DEF AppendEntry
  <2>4. view \in Views /\ view.name = pack[p].name BY <1>1, <2>2 DEF Views
  <2> HIDE DEF view
  <2>5. PackStep(p) /\ pack'[p] = view BY <1>2, <2>3, <2>4 DEF PackStep
  <2> QED BY <2>1, <2>4, <2>5 DEF Own
<1>16. CASE LockControl(p)
  <2>1. job[p].pc = "control" /\ pack' = pack BY <1>16 DEF LockControl
  <2>2. CASE \E q \in Live : job[q].control
    <3>1. Raise(p, pack[p]) BY <1>16, <2>2 DEF LockControl
    <3> QED BY <1>1, <1>3, <2>1, <3>1, RaiseFits
  <2>3. CASE ~\E q \in Live : job[q].control
    <3>1. \A q \in Procs : ~job[q].control
      <4> SUFFICES ASSUME NEW q \in Procs, q \notin Live PROVE ~job[q].control BY <2>3
      <4> QED BY Ends DEF Live, Equipped, Fits
    <3>2. CASE current = None
      <4> DEFINE j == [job[p] EXCEPT !.pc = "reclaim", !.control = TRUE]
      <4>1. job' = [job EXCEPT ![p] = j] BY <1>2, <1>16, <2>3, <3>2 DEF LockControl
      <4>2. j \in Jobs BY <1>1 DEF Jobs
      <4>3. Fits(j, pack[p]) BY <1>1, <2>1 DEF Jobs, Fits
      <4> HIDE DEF j
      <4> QED BY <2>1, <3>1, <4>1, <4>2, <4>3, JobBy
    <3>3. CASE current # None /\ current = pack[p].name
      <4>1. Followed(p) BY <1>16, <2>3, <3>3 DEF LockControl
      <4> QED BY <1>3, <2>1, <3>1, <4>1, FollowedFits
    <3>4. CASE current # None /\ current # pack[p].name
      <4> DEFINE j == [job[p] EXCEPT !.pc = "attach", !.control = TRUE, !.target = current]
      <4>1. job' = [job EXCEPT ![p] = j] BY <1>2, <1>16, <2>3, <3>4 DEF LockControl
      <4>4. current \in Names \cup {None} BY DEF Typed
      <4>2. j \in Jobs BY <1>1, <4>4 DEF Jobs
      <4>3. Fits(j, pack[p]) BY <1>1, <2>1 DEF Jobs, Fits
      <4> HIDE DEF j
      <4> QED BY <2>1, <3>1, <4>1, <4>2, <4>3, JobBy
    <3> QED BY <3>2, <3>3, <3>4
  <2> QED BY <2>2, <2>3
<1>17. CASE Reclaim(p)
  <2>1. job[p].pc = "reclaim" /\ pack' = pack /\ job[p].control
    BY <1>1, <1>17 DEF Reclaim, Fits
  <2>2. CASE Followed(p) BY <1>3, <2>1, <2>2, FollowedFits
  <2>3. CASE job' = [job EXCEPT ![p].pc = "attach", ![p].target = FreshName]
    <3> DEFINE j == [job[p] EXCEPT !.pc = "attach", !.target = FreshName]
    <3>1. job' = [job EXCEPT ![p] = j] BY <2>3, <1>2
    <3>2. j \in Jobs BY <1>1, FreshNameIs DEF Jobs
    <3>3. Fits(j, pack[p]) BY <1>1, <2>1 DEF Jobs, Fits
    <3> HIDE DEF j
    <3> QED BY <2>1, <3>1, <3>2, <3>3, JobBy
  <2> QED BY <1>17, <2>2, <2>3 DEF Reclaim
<1>18. CASE Sweep(p)
  <2>1. job[p].pc = "sweep" /\ pack' = pack /\ job[p].control /\ Followed(p)
    BY <1>1, <1>18 DEF Sweep, Fits
  <2> QED BY <1>3, <2>1, FollowedFits
<1>19. CASE Attach(p)
  <2> DEFINE g == job[p].target
             view == [Detached EXCEPT !.name = g]
  <2>1. job[p].pc = "attach" /\ pack' = [pack EXCEPT ![p] = view] BY <1>19 DEF Attach
  <2>2. job[p].control BY <1>1, <2>1 DEF Fits
  <2>3. g \in Names /\ g # None BY <2>1, PartsTyped DEF Pointed, Typed
  <2>4. view \in Views /\ view.name = g BY <2>3, Ends DEF Views, Detached
  <2> HIDE DEF view
  <2>5. CASE g # current /\ job[p].stage = "full"
    <3>1. PICK batch \in Recent(p) :
            job' = [job EXCEPT ![p].pc = "seed", ![p].stage = "fresh",
                               ![p].target = None, ![p].batch = batch]
      BY <1>19, <2>5 DEF Attach
    <3>2. batch \in Seq(Puts) BY RecentIs
    <3> DEFINE j == [job[p] EXCEPT !.pc = "seed", !.stage = "fresh",
                                   !.target = None, !.batch = batch]
    <3>3. job' = [job EXCEPT ![p] = j] BY <3>1, <1>2
    <3>4. j \in Jobs BY <1>1, <3>2 DEF Jobs
    <3>5. Fits(j, view) BY <1>1, <2>1, <2>2, <2>3, <2>4, <2>5 DEF Jobs, Fits
    <3> HIDE DEF j, g
    <3> QED BY <2>1, <2>2, <2>4, <3>3, <3>4, <3>5, OwnBy
  <2>6. CASE ~(g # current /\ job[p].stage = "full")
    <3>1. PICK pc \in {"sweep", "publish"} :
            job' = [job EXCEPT ![p].pc = pc, ![p].target = None]
      BY <1>19, <2>6 DEF Attach
    <3> DEFINE j == [job[p] EXCEPT !.pc = pc, !.target = None]
    <3>3. job' = [job EXCEPT ![p] = j] BY <3>1, <1>2
    <3>4. j \in Jobs BY <1>1, <3>1 DEF Jobs
    <3>5. Fits(j, view) BY <1>1, <2>1, <2>2, <2>3, <2>4, <3>1 DEF Jobs, Fits
    <3> HIDE DEF j, g
    <3> QED BY <2>1, <2>2, <2>4, <3>3, <3>4, <3>5, OwnBy
  <2> QED BY <2>5, <2>6
<1>20. CASE CannotAttach(p)
  <2>1. job[p].pc = "attach" /\ pack' = pack /\ Raise(p, pack[p])
    BY <1>20 DEF CannotAttach
  <2> QED BY <1>1, <1>3, <2>1, RaiseFits
<1>21. CASE Seed(p) \/ (WriteFails(p) /\ job[p].pc = "seed")
  <2> DEFINE j == [job[p] EXCEPT !.pc = "header", !.batch = <<>>]
  <2>1. job[p].pc = "seed" /\ job' = [job EXCEPT ![p] = j] /\ pack' = pack
    BY <1>2, <1>21 DEF Seed, WriteFails
  <2>2. <<>> \in Seq(Puts) OBVIOUS
  <2>3. j \in Jobs /\ j.control = job[p].control BY <1>1, <2>2 DEF Jobs
  <2>4. Fits(j, pack[p]) BY <1>1, <2>1 DEF Jobs, Fits
  <2> HIDE DEF j
  <2> QED BY <2>1, <2>3, <2>4, JobBy
<1>22. CASE Publish(p)
  <2>1. job[p].pc = "publish" /\ pack' = pack /\ job[p].control
    BY <1>1, <1>22 DEF Publish, Fits
  <2>2. CASE Followed(p) BY <1>3, <2>1, <2>2, FollowedFits
  <2>3. CASE job' = [job EXCEPT ![p].pc = "sweep"]
    <3> DEFINE j == [job[p] EXCEPT !.pc = "sweep"]
    <3>1. job' = [job EXCEPT ![p] = j] BY <2>3, <1>2
    <3>2. j \in Jobs BY <1>1 DEF Jobs
    <3>3. Fits(j, pack[p]) BY <1>1, <2>1 DEF Jobs, Fits
    <3> HIDE DEF j
    <3> QED BY <2>1, <3>1, <3>2, <3>3, JobBy
  <2> QED BY <1>22, <2>2, <2>3 DEF Publish
<1>23. CASE WriteFails(p) /\ job[p].pc # "seed"
  <2>1. job[p].pc \in {"data", "entry", "restamp", "publish"}
    BY <1>23 DEF WriteFails, CutShort
  <2>2. CASE job[p].pc = "publish"
    <3>1. Raise(p, Detached) /\ pack' = [pack EXCEPT ![p] = Detached]
      BY <1>23, <2>2 DEF WriteFails, Close
    <3>2. JobStep(p) /\ Fits(job'[p], Detached) BY <2>2, <3>1, Ends, RaiseFits
    <3> QED BY <1>2, <3>1, <3>2, Ends DEF Own, PackStep
  <2>3. CASE job[p].pc # "publish"
    <3>1. Refuse(p) BY <1>23, <2>3 DEF WriteFails
    <3> QED BY <2>1, <3>1, RefuseFits
  <2> QED BY <2>2, <2>3
<1>24. CASE Kill(p)
  BY <1>1, <1>2, <1>24, Ends, OwnBy DEF Kill
<1> QED
  BY <1>4, <1>5, <1>6, <1>7, <1>8, <1>9, <1>10, <1>11, <1>12, <1>13, <1>14, <1>15, <1>16,
     <1>17, <1>18, <1>19, <1>20, <1>21, <1>22, <1>23, <1>24 DEF Acts

----------------------------------------------------------------------------
(* What a step does to the disk.                                             *)

LEMMA OtherVariables ==
    ASSUME Typed, NEW p \in Procs, Acts(p)
    PROVE  latched' \in [Procs -> BOOLEAN] /\ puts' \in Nat /\ faults' \in Nat
<1> DEFINE Kept == latched' \in [Procs -> BOOLEAN]
<1> DEFINE Counts == puts' \in Nat /\ faults' \in Nat
<1>1. latched \in [Procs -> BOOLEAN] /\ puts \in Nat /\ faults \in Nat BY DEF Typed
<1>2. ASSUME NEW x, latched' = [latched EXCEPT ![p] = @ \/ x] PROVE Kept
  <2>1. (latched[p] \/ x) \in BOOLEAN OBVIOUS
  <2> QED BY <1>1, <1>2, <2>1, Zenon
<1>3. ASSUME latched' = latched \/ latched' = [latched EXCEPT ![p] = FALSE] PROVE Kept
  BY <1>1, <1>3
<1>4. CASE Start(p) \/ Exit(p) \/ BeginGet(p) \/ BeginRefresh(p)
  BY <1>1, <1>2, <1>3, <1>4 DEF Start, Exit, BeginGet, BeginRefresh
<1>5. ASSUME NEW put \in Puts, BeginPut(p, put) PROVE Kept /\ Counts
  BY <1>1, <1>2, <1>3, <1>5 DEF BeginPut
<1>6. CASE ReadHeader(p) \/ ReadEntries(p) \/ LockData(p) \/ Restamp(p) \/ CutData(p)
  BY <1>1, <1>3, <1>6 DEF ReadHeader, ReadEntries, LockData, Restamp, CutData, Refuse, Full
<1>7. CASE AppendData(p) \/ AppendEntry(p) \/ Reclaim(p) \/ Sweep(p) \/ LockControl(p)
  <2>1. Counts
    BY <1>1, <1>7 DEF AppendData, AppendEntry, Reclaim, Sweep, Reclaims, LockControl
  <2>2. ASSUME Raise(p, pack[p]) PROVE Kept BY <1>2, <2>2 DEF Raise
  <2>3. Kept
    BY <1>3, <1>7, <2>2 DEF AppendData, AppendEntry, Reclaim, Sweep, LockControl
  <2> QED BY <2>1, <2>3
<1>8. CASE Attach(p) \/ CannotAttach(p) \/ Seed(p) \/ Publish(p)
  <2>1. Counts BY <1>1, <1>8 DEF Attach, CannotAttach, Seed, Publish
  <2>2. ASSUME Raise(p, pack[p]) PROVE Kept BY <1>2, <2>2 DEF Raise
  <2>3. Kept BY <1>3, <1>8, <2>2 DEF Attach, CannotAttach, Seed, Publish
  <2> QED BY <2>1, <2>3
<1>9. CASE WriteFails(p) \/ Kill(p)
  <2>1. Counts BY <1>1, <1>9 DEF WriteFails, Kill
  <2>2. ASSUME Raise(p, Detached) PROVE Kept BY <1>2, <2>2 DEF Raise
  <2>3. ASSUME Refuse(p) PROVE Kept BY <1>3, <2>3 DEF Refuse
  <2>4. Kept BY <1>3, <1>9, <2>2, <2>3 DEF WriteFails, Kill
  <2> QED BY <2>1, <2>4
<1> QED BY <1>4, <1>5, <1>6, <1>7, <1>8, <1>9 DEF Acts

KeepsJournal(g) ==
    /\ g \in DOMAIN dirs' /\ dirs'[g].entries = dirs[g].entries
    /\ dirs'[g].stamp = dirs[g].stamp

Disk(p) ==
    /\ DOMAIN dirs' \subseteq Names /\ dirs' \in [DOMAIN dirs' -> Packs]
    /\ \A q \in Procs : pack[q].name # None => pack[q].name \in DOMAIN dirs'
    /\ current \in DOMAIN dirs' \cup {None}
    /\ \A g \in DOMAIN dirs \cap DOMAIN dirs' : 
            g # pack[p].name => KeepsJournal(g) /\ dirs'[g].data = dirs[g].data
    /\ \A g \in DOMAIN dirs' \ DOMAIN dirs : dirs'[g] = EmptyPack

LEMMA EmptyPackIs == EmptyPack \in Packs
<1>1. <<>> \in Seq(Puts \cup {Torn}) /\ <<>> \in Seq(Keys) OBVIOUS
<1> QED BY <1>1 DEF EmptyPack, Packs

\* A write to the generation in use.
LEMMA WithinIs ==
    ASSUME Typed, NEW p \in Procs, pack[p].name # None, NEW d \in Packs,
           dirs' = [dirs EXCEPT ![pack[p].name] = d]
    PROVE  Disk(p) /\ dirs'[pack[p].name] = d /\ DOMAIN dirs' = DOMAIN dirs
BY PartsTyped DEF Typed, Disk, KeepsJournal

LEMMA SameDisk == ASSUME Typed, NEW p \in Procs, dirs' = dirs PROVE Disk(p)
BY PartsTyped DEF Typed, Disk, KeepsJournal

LEMMA RemovedIs ==
    ASSUME Typed, Equipped, NEW p \in Procs, NEW gone, gone \subseteq Reclaimable(p),
           RemoveDirs(gone)
    PROVE  Disk(p) /\ DOMAIN dirs' = DOMAIN dirs \ gone
<1>1. DOMAIN dirs' = DOMAIN dirs \ gone /\ \A g \in DOMAIN dirs' : dirs'[g] = dirs[g]
  BY DEF RemoveDirs
<1>2. ASSUME NEW q \in Procs, pack[q].name # None PROVE pack[q].name \in DOMAIN dirs'
  <2>1. q \in Live BY <1>2 DEF Equipped, Fits, Detached, Live
  <2>2. pack[q].name \in DOMAIN dirs BY <1>2, PartsTyped
  <2>3. pack[q].name \notin gone BY <2>1 DEF Reclaimable, Users
  <2> QED BY <1>1, <2>2, <2>3
<1>3. current \in DOMAIN dirs' \cup {None} BY <1>1 DEF Typed, Reclaimable
<1>4. dirs' \in [DOMAIN dirs' -> Packs] BY <1>1, PartsTyped DEF RemoveDirs, Typed
<1> QED BY <1>1, <1>2, <1>3, <1>4 DEF Disk, KeepsJournal, Typed

\* Only a write that is going on can be cut short, and one of the pointer leaves
\* the packs alone.
LEMMA CutShortWrites ==
    ASSUME NEW p, NEW disk \in CutShort(p)
    PROVE  /\ job[p].pc \in {"seed", "publish"} \cup Writing /\ job[p].pc # "idle"
           /\ job[p].pc = "publish" => disk.dirs = dirs
<1>1. job[p].pc \in {"data", "entry", "restamp", "seed", "publish"} BY DEF CutShort
<1>2. ASSUME job[p].pc = "publish" PROVE disk.dirs = dirs
  <2>1. CutShort(p) = {[dirs |-> dirs, current |-> None]} BY <1>2 DEF CutShort
  <2> QED BY <2>1
<1> QED BY <1>1, <1>2 DEF Writing

\* The packs that the torn writes of a process leave.
LEMMA CutShortIs ==
    ASSUME Typed, Equipped, FewLive, NEW p \in Procs, NEW disk \in CutShort(p)
    PROVE  /\ pack[p].name # None
           /\ \E d \in Packs :
                /\ DOMAIN disk.dirs = DOMAIN dirs /\ disk.dirs[pack[p].name] = d
                /\ disk.dirs \in [DOMAIN dirs -> Packs]
                /\ \A h \in DOMAIN dirs \ {pack[p].name} : disk.dirs[h] = dirs[h]
                /\ d.entries = dirs[pack[p].name].entries
                /\ d.leases = dirs[pack[p].name].leases
                /\ d.stamp \in {dirs[pack[p].name].stamp, Torn, NewStamp(pack[p].name)}
           /\ disk.current = current \/ (disk.current = None /\ job[p].pc = "publish")
<1> DEFINE g == pack[p].name
           s == NewStamp(g)
<1>1. pack[p] \in Views /\ job[p] \in Jobs /\ Fits(job[p], pack[p])
  BY PartsTyped DEF Equipped
<1>2. job[p].pc \in {"data", "entry", "restamp", "seed", "publish"} BY DEF CutShort
<1>3. g # None BY <1>1, <1>2 DEF Fits, UsesPack, Writing
<1>4. g \in DOMAIN dirs /\ dirs[g] \in Packs BY <1>3, PartsTyped
<1>5. s \in Stamps BY NewStampIs
<1> DEFINE Holds(d) ==
        /\ DOMAIN disk.dirs = DOMAIN dirs /\ disk.dirs[g] = d
        /\ disk.dirs \in [DOMAIN dirs -> Packs]
        /\ \A h \in DOMAIN dirs \ {g} : disk.dirs[h] = dirs[h]
        /\ disk.current = current
<1>12. ASSUME NEW d \in Packs, disk = [dirs |-> [dirs EXCEPT ![g] = d], current |-> current]
       PROVE  Holds(d)
  BY <1>4, <1>12 DEF Typed
<1>13. ASSUME disk = [dirs |-> dirs, current |-> current]
       PROVE  Holds(dirs[g])
  BY <1>4, <1>13 DEF Typed
<1> HIDE DEF s
<1>7. CASE job[p].pc = "data"
  <2> DEFINE d == [dirs[g] EXCEPT !.data = Append(@, Torn)]
  <2>1. disk = [dirs |-> [dirs EXCEPT ![g] = d], current |-> current]
    BY <1>4, <1>7 DEF CutShort, Typed
  <2>3. dirs[g].data \in Seq(Puts \cup {Torn}) BY <1>4 DEF Packs
  <2>4. Append(dirs[g].data, Torn) \in Seq(Puts \cup {Torn}) BY <2>3, AppendProperties
  <2>2. d \in Packs /\ d.entries = dirs[g].entries /\ d.leases = dirs[g].leases
        /\ d.stamp = dirs[g].stamp
    BY <1>4, <2>4 DEF Packs
  <2> HIDE DEF d
  <2>5. Holds(d) BY <1>12, <2>1, <2>2
  <2> QED BY <1>3, <2>2, <2>5
<1>8. CASE job[p].pc = "entry"
  <2> DEFINE d == [dirs[g] EXCEPT !.ragged = TRUE]
  <2>1. \/ disk = [dirs |-> [dirs EXCEPT ![g] = d], current |-> current]
        \/ disk = [dirs |-> dirs, current |-> current]
    BY <1>4, <1>8 DEF CutShort, Typed
  <2>2. d \in Packs /\ d.entries = dirs[g].entries /\ d.leases = dirs[g].leases
        /\ d.stamp = dirs[g].stamp
    BY <1>4 DEF Packs
  <2> HIDE DEF d
  <2>3. Holds(d) \/ Holds(dirs[g]) BY <1>12, <1>13, <2>1, <2>2
  <2> QED BY <1>3, <1>4, <2>2, <2>3
<1>9. CASE job[p].pc = "restamp"
  <2> DEFINE d == [dirs[g] EXCEPT !.stamp = Torn]
  <2>1. disk = [dirs |-> [dirs EXCEPT ![g] = d], current |-> current]
    BY <1>4, <1>9 DEF CutShort, Typed
  <2>2. d \in Packs /\ d.entries = dirs[g].entries /\ d.leases = dirs[g].leases
        /\ d.stamp = Torn
    BY <1>4 DEF Packs
  <2> HIDE DEF d
  <2>5. Holds(d) BY <1>12, <2>1, <2>2
  <2> QED BY <1>3, <2>2, <2>5
<1>10. CASE job[p].pc = "seed"
  <2> DEFINE a == [dirs[g] EXCEPT !.data = <<Torn>>]
             b == [dirs[g] EXCEPT !.data = job[p].batch, !.stamp = Torn]
             c == [dirs[g] EXCEPT !.data = job[p].batch, !.ragged = TRUE, !.stamp = s]
  <2>1. \E d \in {a, b, c} : disk = [dirs |-> [dirs EXCEPT ![g] = d], current |-> current]
    BY <1>4, <1>10 DEF CutShort, Typed, s
  <2>2. job[p].batch \in Seq(Puts \cup {Torn}) /\ <<Torn>> \in Seq(Puts \cup {Torn})
    BY <1>1 DEF Jobs
  <2>3. \A d \in {a, b, c} :
            /\ d \in Packs /\ d.entries = dirs[g].entries /\ d.leases = dirs[g].leases
            /\ d.stamp \in {dirs[g].stamp, Torn, s}
    BY <1>4, <1>5, <2>2 DEF Packs
  <2> HIDE DEF a, b, c
  <2>4. PICK d \in {a, b, c} : Holds(d) BY <1>12, <2>1, <2>3
  <2> QED BY <1>3, <2>3, <2>4 DEF s
<1>11. CASE job[p].pc = "publish"
  <2>1. disk = [dirs |-> dirs, current |-> None] BY <1>11 DEF CutShort
  <2>2. DOMAIN disk.dirs = DOMAIN dirs /\ disk.dirs = dirs /\ disk.current = None BY <2>1
  <2> QED BY <1>3, <1>4, <1>11, <2>2 DEF Typed
<1> QED BY <1>2, <1>7, <1>8, <1>9, <1>10, <1>11

\* What can happen to the journal of the generation a process uses: it stays, a
\* writer adopts, restamps, extends or seeds it, or its stamp is torn.
OwnJournal(p) ==
    \/ KeepsJournal(pack[p].name)
    \/ LockData(p) /\ Adopt(p)
    \/ Restamp(p) \/ AppendEntry(p) \/ Seed(p)
    \/ /\ (WriteFails(p) \/ Kill(p)) /\ job[p].pc # "idle"
       /\ pack[p].name \in DOMAIN dirs'
       /\ dirs'[pack[p].name].entries = dirs[pack[p].name].entries
       /\ dirs'[pack[p].name].stamp \in {Torn, NewStamp(pack[p].name)}

KeepsData(p) ==
    dirs'[pack[p].name].data = dirs[pack[p].name].data \/ job[p].pc \in {"seed"} \cup Writing

DiskStep(p) == Disk(p) /\ (pack[p].name # None => OwnJournal(p) /\ KeepsData(p))

\* A step that leaves the disk alone.
LEMMA DiskSame ==
    ASSUME Typed, NEW p \in Procs, dirs' = dirs
    PROVE  DiskStep(p)
BY SameDisk, PartsTyped DEF DiskStep, OwnJournal, KeepsJournal, KeepsData

LEMMA DiskWithin ==
    ASSUME Typed, NEW p \in Procs, pack[p].name # None, NEW d \in Packs,
           dirs' = [dirs EXCEPT ![pack[p].name] = d],
           \/ d.entries = dirs[pack[p].name].entries /\ d.stamp = dirs[pack[p].name].stamp
           \/ OwnJournal(p),
           d.data = dirs[pack[p].name].data \/ job[p].pc \in {"seed"} \cup Writing
    PROVE  DiskStep(p)
<1>1. Disk(p) /\ dirs'[pack[p].name] = d /\ DOMAIN dirs' = DOMAIN dirs BY WithinIs
<1>2. pack[p].name \in DOMAIN dirs BY PartsTyped
<1>3. CASE OwnJournal(p) BY <1>1, <1>3 DEF DiskStep, KeepsData
<1>4. CASE d.entries = dirs[pack[p].name].entries /\ d.stamp = dirs[pack[p].name].stamp
  BY <1>1, <1>2, <1>4 DEF DiskStep, OwnJournal, KeepsJournal, KeepsData
<1> QED BY <1>3, <1>4

LEMMA DiskRemoved ==
    ASSUME Typed, Equipped, NEW p \in Procs, NEW gone, gone \subseteq Reclaimable(p),
           RemoveDirs(gone)
    PROVE  DiskStep(p)
<1>1. Disk(p) /\ DOMAIN dirs' = DOMAIN dirs \ gone BY RemovedIs
<1>2. CASE pack[p].name # None
  <2>1. pack[p].name \in DOMAIN dirs \cap DOMAIN dirs' BY <1>1, <1>2, PartsTyped DEF Disk
  <2>2. dirs'[pack[p].name] = dirs[pack[p].name] BY <1>1, <2>1 DEF RemoveDirs
  <2> QED BY <1>1, <2>1, <2>2 DEF DiskStep, OwnJournal, KeepsJournal, KeepsData
<1> QED BY <1>1, <1>2 DEF DiskStep

LEMMA DiskSteps ==
    ASSUME Typed, Equipped, Pointed, FewLive, FewGenerations, Covered, NEW p \in Procs, Acts(p)
    PROVE  DiskStep(p)
<1> DEFINE g == pack[p].name
<1>1. pack[p] \in Views /\ job[p] \in Jobs /\ Fits(job[p], pack[p])
  BY PartsTyped DEF Equipped
<1>2. g # None => g \in DOMAIN dirs /\ dirs[g] \in Packs BY PartsTyped
<1>3. job[p].pc \in UsesPack => g # None BY <1>1 DEF Fits
<1>4. CASE Start(p) \/ Exit(p) \/ BeginGet(p) \/ BeginRefresh(p) \/ \E put \in Puts : BeginPut(p, put)
  BY <1>4, DiskSame DEF Start, Exit, BeginGet, BeginRefresh, BeginPut
<1>5. CASE ReadHeader(p) \/ ReadEntries(p) \/ LockControl(p) \/ Publish(p)
  BY <1>5, DiskSame DEF ReadHeader, ReadEntries, LockControl, Publish
<1>6. CASE LockData(p)
  <2>1. CASE dirs' = dirs BY <2>1, DiskSame
  <2>2. CASE Adopt(p)
    <3>1. g # None BY <1>3, <1>6 DEF LockData, UsesPack
    <3> DEFINE view == Adopted(pack[p], dirs[g])
               d == [dirs[g] EXCEPT !.entries = view.index, !.ragged = FALSE,
                                    !.stamp = IF view.stamp = None THEN None ELSE @]
    <3>2. dirs' = [dirs EXCEPT ![g] = d] BY <1>2, <2>2, <3>1 DEF Adopt, Typed
    <3>3. view \in Views BY <1>1, <1>2, <3>1, AdoptedIs
    <3> HIDE DEF view
    <3>4. d \in Packs /\ d.data = dirs[g].data BY <1>2, <3>1, <3>3 DEF Packs, Views
    <3> HIDE DEF d, g
    <3> QED BY <1>6, <2>2, <3>1, <3>2, <3>4, DiskWithin DEF OwnJournal, g
  <2> QED BY <1>6, <2>1, <2>2 DEF LockData
<1>7. CASE Restamp(p)
  <2> DEFINE d == [dirs[g] EXCEPT !.stamp = NewStamp(g)]
  <2>1. g # None BY <1>3, <1>7 DEF Restamp, UsesPack, Writing
  <2>2. dirs' = [dirs EXCEPT ![g] = d] BY <1>2, <1>7, <2>1 DEF Restamp, Typed
  <2>3. d \in Packs /\ d.data = dirs[g].data BY <1>2, <2>1, NewStampIs DEF Packs
  <2> HIDE DEF d
  <2> QED BY <1>7, <2>1, <2>2, <2>3, DiskWithin DEF OwnJournal
<1>8. CASE CutData(p)
  <2> DEFINE kept == SubSeq(dirs[g].data, 1, Len(pack[p].index))
             d == [dirs[g] EXCEPT !.data = kept]
  <2>1. g # None BY <1>3, <1>8 DEF CutData, UsesPack, Writing
  <2>2. dirs' = [dirs EXCEPT ![g] = d] BY <1>2, <1>8, <2>1 DEF CutData, Typed
  <2>3. kept \in Seq(Puts \cup {Torn})
    <3>1. PICK data \in Seq(Puts \cup {Torn}) : data = dirs[g].data BY <1>2, <2>1 DEF Packs
    <3>2. PICK n \in Nat : n = Len(pack[p].index) BY <1>1 DEF Views
    <3>3. n <= Len(data) BY <1>8, <3>1, <3>2 DEF CutData, Covered
    <3>4. \A i \in 1..n : data[i] \in Puts \cup {Torn} BY <3>3, ElementOfSeq
    <3>5. SubSeq(data, 1, n) \in Seq(Puts \cup {Torn}) BY <3>4, SubSeqProperties
    <3> QED BY <3>1, <3>2, <3>5
  <2> HIDE DEF kept
  <2>4. d \in Packs /\ d.entries = dirs[g].entries /\ d.stamp = dirs[g].stamp
    BY <1>2, <2>1, <2>3 DEF Packs
  <2> HIDE DEF d
  <2> QED BY <1>8, <2>1, <2>2, <2>4, DiskWithin DEF CutData, Writing
<1>9. CASE AppendData(p)
  <2> DEFINE longer == Append(dirs[g].data, job[p].put)
             d == [dirs[g] EXCEPT !.data = longer]
  <2>1. g # None BY <1>3, <1>9 DEF AppendData, UsesPack, Writing
  <2>2. dirs' = [dirs EXCEPT ![g] = d] BY <1>2, <1>9, <2>1 DEF AppendData, Typed
  <2>3. job[p].put \in Puts BY <1>1, <1>9 DEF AppendData, Fits, Writing
  <2>4. longer \in Seq(Puts \cup {Torn})
    <3>1. dirs[g].data \in Seq(Puts \cup {Torn}) BY <1>2, <2>1 DEF Packs
    <3> QED BY <2>3, <3>1, AppendProperties
  <2> HIDE DEF longer
  <2>5. d \in Packs /\ d.entries = dirs[g].entries /\ d.stamp = dirs[g].stamp
    BY <1>2, <2>1, <2>4 DEF Packs
  <2> HIDE DEF d
  <2> QED BY <1>9, <2>1, <2>2, <2>5, DiskWithin DEF AppendData, Writing
<1>10. CASE AppendEntry(p)
  <2> DEFINE longer == Append(dirs[g].entries, job[p].put[1])
             d == [dirs[g] EXCEPT !.entries = longer]
  <2>1. g # None BY <1>3, <1>10 DEF AppendEntry, UsesPack, Writing
  <2>2. dirs' = [dirs EXCEPT ![g] = d] BY <1>2, <1>10, <2>1 DEF AppendEntry, Typed
  <2>3. job[p].put[1] \in Keys
    BY <1>1, <1>10, BlobAssumption DEF AppendEntry, Fits, Writing
  <2>4. longer \in Seq(Keys)
    <3>1. dirs[g].entries \in Seq(Keys) BY <1>2, <2>1 DEF Packs
    <3> QED BY <2>3, <3>1, AppendProperties
  <2> HIDE DEF longer
  <2>5. d \in Packs BY <1>2, <2>1, <2>4 DEF Packs
  <2> HIDE DEF d
  <2> QED BY <1>10, <2>1, <2>2, <2>5, DiskWithin DEF OwnJournal, AppendEntry, Writing
<1>11. CASE Reclaim(p)
  BY <1>11, DiskRemoved DEF Reclaim, Reclaims
<1>12. CASE Sweep(p)
  BY <1>12, DiskRemoved DEF Sweep, Reclaims
<1>13. CASE Attach(p)
  <2> DEFINE h == job[p].target
  <2>1. h \in Names BY <1>13, PartsTyped DEF Attach, Pointed, Typed
  <2>2. CASE h \in DOMAIN dirs
    <3>1. dirs' = [dirs EXCEPT ![h].leases = {}] BY <1>13, <2>2 DEF Attach
    <3>2. DOMAIN dirs' = DOMAIN dirs
      /\ \A k \in DOMAIN dirs : /\ dirs'[k] \in Packs /\ dirs'[k].entries = dirs[k].entries
                                /\ dirs'[k].data = dirs[k].data
                                /\ dirs'[k].stamp = dirs[k].stamp
      BY ZenonT(40), <2>2, <3>1, PartsTyped DEF Typed, Packs
    <3>3. dirs' \in [DOMAIN dirs' -> Packs] BY <2>2, <3>1, <3>2 DEF Typed
    <3> QED BY <3>2, <3>3, PartsTyped DEF Typed, DiskStep, Disk, OwnJournal, KeepsJournal, KeepsData
  <2>3. CASE h \notin DOMAIN dirs
    <3>1. dirs' = [k \in DOMAIN dirs \cup {h} |-> IF k = h THEN EmptyPack ELSE dirs[k]]
      BY <1>13, <2>3 DEF Attach
    <3> QED BY <2>1, <2>3, <3>1, EmptyPackIs, PartsTyped
            DEF Typed, DiskStep, Disk, OwnJournal, KeepsJournal, KeepsData
  <2> QED BY <2>2, <2>3
<1>14. CASE CannotAttach(p)
  <2> DEFINE h == job[p].target
  <2>1. h \in Names BY <1>14, PartsTyped DEF CannotAttach, Pointed, Typed
  <2>2. CASE dirs' = dirs BY <2>2, DiskSame
  <2>3. CASE dirs' = [k \in DOMAIN dirs \cup {h} |-> IF k \in DOMAIN dirs THEN dirs[k] ELSE EmptyPack]
    BY <2>1, <2>3, EmptyPackIs, PartsTyped
    DEF Typed, DiskStep, Disk, OwnJournal, KeepsJournal, KeepsData
  <2> QED BY <1>14, <2>2, <2>3 DEF CannotAttach
<1>15. CASE Seed(p)
  <2>1. CASE job[p].batch = <<>> BY <1>15, <2>1, DiskSame DEF Seed
  <2>2. CASE job[p].batch # <<>>
    <3> DEFINE batch == job[p].batch
               keys == [i \in DOMAIN batch |-> batch[i][1]]
               d == [dirs[g] EXCEPT !.data = batch, !.stamp = NewStamp(g), !.entries = keys]
    <3>1. g # None BY <1>3, <1>15 DEF Seed, UsesPack
    <3>2. dirs' = [dirs EXCEPT ![g] = d] BY <1>2, <1>15, <2>2, <3>1 DEF Seed, Seeded, Typed
    <3>3. batch \in Seq(Puts) BY <1>1 DEF Jobs
    <3>4. keys \in Seq(Keys)
      <4>1. PICK n \in Nat : DOMAIN batch = 1..n BY <3>3
      <4>2. \A i \in 1..n : batch[i] \in Puts BY <3>3, <4>1
      <4>3. \A i \in 1..n : batch[i][1] \in Keys BY <4>2, BlobAssumption
      <4> QED BY <4>1, <4>3
    <3>5. batch \in Seq(Puts \cup {Torn}) BY <3>3
    <3> HIDE DEF keys, batch
    <3>6. d \in Packs BY <1>2, <3>1, <3>4, <3>5, NewStampIs DEF Packs
    <3> HIDE DEF d
    <3> QED BY <1>15, <3>1, <3>2, <3>6, DiskWithin DEF OwnJournal, Seed
  <2> QED BY <2>1, <2>2
<1>16. CASE WriteFails(p)
  <2>1. PICK disk \in CutShort(p) : dirs' = disk.dirs BY <1>16 DEF WriteFails
  <2>2. g # None BY <2>1, CutShortIs
  <2>3. PICK d \in Packs :
          /\ DOMAIN dirs' = DOMAIN dirs /\ dirs'[g] = d /\ dirs' \in [DOMAIN dirs -> Packs]
          /\ \A h \in DOMAIN dirs \ {g} : dirs'[h] = dirs[h]
          /\ d.entries = dirs[g].entries
          /\ d.stamp \in {dirs[g].stamp, Torn, NewStamp(g)}
    BY <2>1, CutShortIs
  <2>4. /\ job[p].pc \in {"seed", "publish"} \cup Writing /\ job[p].pc # "idle"
        /\ job[p].pc = "publish" => dirs' = dirs
    BY <2>1, CutShortWrites
  <2>5. Disk(p) BY <1>2, <2>2, <2>3, PartsTyped DEF Disk, Typed, KeepsJournal
  <2>6. OwnJournal(p) BY <1>2, <1>16, <2>2, <2>3, <2>4 DEF OwnJournal, KeepsJournal
  <2> QED BY <2>4, <2>5, <2>6 DEF DiskStep, KeepsData
<1>17. CASE Kill(p)
  <2>1. PICK disk \in CutShort(p) \cup {[dirs |-> dirs, current |-> current]} :
          dirs' = IF g = None THEN disk.dirs ELSE [disk.dirs EXCEPT ![g].leases = @ \cup {p}]
    BY <1>17 DEF Kill
  <2>2. CASE g = None
    <3>1. disk = [dirs |-> dirs, current |-> current] BY <2>1, <2>2, CutShortIs
    <3>2. dirs' = dirs BY <2>1, <2>2, <3>1
    <3> QED BY <3>2, DiskSame
  <2>3. CASE g # None
    <3>1. PICK d \in Packs :
          /\ DOMAIN disk.dirs = DOMAIN dirs /\ disk.dirs[g] = d
          /\ disk.dirs \in [DOMAIN dirs -> Packs]
          /\ \A h \in DOMAIN dirs \ {g} : disk.dirs[h] = dirs[h]
          /\ d.entries = dirs[g].entries
          /\ \/ d.stamp \in {dirs[g].stamp, Torn, NewStamp(g)} /\ disk \in CutShort(p)
             \/ disk.dirs = dirs
      <4>1. CASE disk \in CutShort(p) BY <4>1, CutShortIs
      <4>2. CASE disk = [dirs |-> dirs, current |-> current]
        BY <1>2, <2>3, <4>2 DEF Typed
      <4> QED BY <2>1, <4>1, <4>2
    <3> DEFINE leased == [d EXCEPT !.leases = @ \cup {p}]
    <3>2. leased \in Packs /\ leased.entries = d.entries /\ leased.stamp = d.stamp
          /\ leased.data = d.data
      BY DEF Packs
    <3>3. dirs' = [disk.dirs EXCEPT ![g] = leased]
      BY <1>2, <2>1, <2>3, <3>1
    <3> HIDE DEF leased
    <3>4. /\ DOMAIN dirs' = DOMAIN dirs /\ dirs'[g] = leased /\ dirs' \in [DOMAIN dirs -> Packs]
          /\ \A h \in DOMAIN dirs \ {g} : dirs'[h] = dirs[h]
      BY <1>2, <2>3, <3>1, <3>2, <3>3
    <3>5. Disk(p) BY <1>2, <2>3, <3>4, PartsTyped DEF Disk, Typed, KeepsJournal
    <3>6. disk \in CutShort(p) => /\ job[p].pc \in {"seed", "publish"} \cup Writing
                                  /\ job[p].pc = "publish" => disk.dirs = dirs
                                  /\ job[p].pc # "idle"
      BY CutShortWrites
    <3>7. OwnJournal(p)
      BY <1>2, <1>17, <2>3, <3>1, <3>2, <3>4, <3>6 DEF OwnJournal, KeepsJournal
    <3>8. KeepsData(p)
      BY <2>3, <3>1, <3>2, <3>4, <3>6 DEF KeepsData
    <3> QED BY <3>5, <3>7, <3>8 DEF DiskStep
  <2> QED BY <2>2, <2>3
<1> QED
  BY <1>4, <1>5, <1>6, <1>7, <1>8, <1>9, <1>10, <1>11, <1>12, <1>13, <1>14, <1>15, <1>16,
     <1>17 DEF Acts

----------------------------------------------------------------------------
(* The types are kept.                                                       *)

\* The pointer is only written under the control lock.
LEMMA CurrentStep ==
    ASSUME Typed, Equipped, FewLive, NEW p \in Procs, Acts(p)
    PROVE  \/ current' = current
           \/ job[p].control /\ current' \in {None, pack[p].name}
<1>1. Fits(job[p], pack[p]) BY DEF Equipped
<1>2. CASE Start(p) \/ Exit(p) \/ BeginGet(p) \/ BeginRefresh(p) \/ \E put \in Puts : BeginPut(p, put)
  BY <1>2 DEF Start, Exit, BeginGet, BeginRefresh, BeginPut
<1>3. CASE ReadHeader(p) \/ ReadEntries(p) \/ LockData(p) \/ Restamp(p) \/ CutData(p)
  BY <1>3 DEF ReadHeader, ReadEntries, LockData, Restamp, CutData
<1>4. CASE AppendData(p) \/ AppendEntry(p) \/ LockControl(p) \/ Reclaim(p) \/ Sweep(p)
  BY <1>4 DEF AppendData, AppendEntry, LockControl, Reclaim, Sweep
<1>5. CASE Attach(p) \/ CannotAttach(p) \/ Seed(p)
  BY <1>5 DEF Attach, CannotAttach, Seed
<1>6. CASE Publish(p) BY <1>1, <1>6 DEF Publish, Fits, Coordinating
<1>7. job[p].pc = "publish" => job[p].control BY <1>1 DEF Fits, Coordinating
<1>8. CASE WriteFails(p) BY <1>7, <1>8, CutShortIs DEF WriteFails
<1>9. CASE Kill(p)
  <2>1. PICK disk \in CutShort(p) \cup {[dirs |-> dirs, current |-> current]} :
          current' = disk.current
    BY <1>9 DEF Kill
  <2>2. CASE disk \in CutShort(p) BY <1>7, <2>1, <2>2, CutShortIs
  <2>3. CASE disk = [dirs |-> dirs, current |-> current] BY <2>1, <2>3
  <2> QED BY <2>1, <2>2, <2>3
<1> QED BY <1>2, <1>3, <1>4, <1>5, <1>6, <1>8, <1>9 DEF Acts

\* A process lets its generation go, keeps it, or has attached another one.
Attaches(p) ==
    /\ Attach(p) /\ job[p].target # None
    /\ pack'[p] = [Detached EXCEPT !.name = job[p].target]
    /\ job[p].target \in DOMAIN dirs'

LEMMA ViewStep ==
    ASSUME Typed, Equipped, Pointed, NEW p \in Procs, Acts(p)
    PROVE  pack'[p].name = pack[p].name \/ pack'[p] = Detached \/ Attaches(p)
<1>1. pack[p] \in Views /\ job[p] \in Jobs /\ Fits(job[p], pack[p]) /\ pack \in [Procs -> Views]
  BY PartsTyped DEF Equipped, Typed
<1>2. CASE Start(p) \/ Exit(p) \/ BeginGet(p) \/ BeginRefresh(p) \/ \E put \in Puts : BeginPut(p, put)
  BY <1>1, <1>2 DEF Start, Exit, BeginGet, BeginRefresh, BeginPut, Close
<1>3. CASE ReadHeader(p)
  <2>1. dirs[pack[p].name] \in Packs
    BY <1>1, <1>3, PartsTyped DEF ReadHeader, Fits, UsesPack
  <2>2. PICK base \in Views : base = Rebased(pack[p], dirs[pack[p].name])
    BY <1>1, <2>1, RebasedIs
  <2>3. pack'[p] = [base EXCEPT !.scanned = TRUE] BY <1>1, <1>3, <2>2 DEF ReadHeader
  <2>4. base.name = pack[p].name BY <1>1, <2>1, <2>2, RebasedIs
  <2> QED BY <2>3, <2>4 DEF Views
<1>4. CASE ReadEntries(p)
  <2>1. PICK upto : pack' = [pack EXCEPT ![p] = Extended(@, dirs[pack[p].name], upto)]
    BY <1>4 DEF ReadEntries
  <2> QED BY <1>1, <2>1 DEF Extended, Views
<1>5. CASE LockData(p)
  <2>1. CASE Refuse(p) BY <1>1, <2>1 DEF Refuse, Close
  <2>2. CASE Adopt(p)
    <3>1. dirs[pack[p].name] \in Packs
      BY <1>1, <1>5, PartsTyped DEF LockData, Fits, UsesPack
    <3> QED BY <1>1, <2>2, <3>1, AdoptedIs DEF Adopt
  <2> QED BY <1>5, <2>1, <2>2 DEF LockData
<1>6. CASE Restamp(p) BY <1>1, <1>6 DEF Restamp, Views
<1>7. CASE CutData(p) BY <1>1, <1>7 DEF CutData, Full, Refuse, Close
<1>8. CASE AppendData(p) \/ AppendEntry(p) BY <1>1, <1>8 DEF AppendData, AppendEntry, Views
<1>9. CASE LockControl(p) \/ Reclaim(p) \/ Sweep(p) \/ CannotAttach(p) \/ Seed(p) \/ Publish(p)
  BY <1>9 DEF LockControl, Reclaim, Sweep, CannotAttach, Seed, Publish
<1>10. CASE Attach(p)
  <2>1. pack'[p] = [Detached EXCEPT !.name = job[p].target]
    BY <1>1, <1>10 DEF Attach
  <2>2. job[p].target # None BY <1>10, PartsTyped DEF Attach, Pointed
  <2>3. job[p].target \in DOMAIN dirs' BY <1>10 DEF Attach
  <2> QED BY <1>10, <2>1, <2>2, <2>3 DEF Attaches
<1>11. CASE WriteFails(p) \/ Kill(p)
  BY <1>1, <1>11 DEF WriteFails, Kill, Refuse, Close
<1> QED
  BY <1>2, <1>3, <1>4, <1>5, <1>6, <1>7, <1>8, <1>9, <1>10, <1>11 DEF Acts

LEMMA PowerLossIs ==
    ASSUME Typed, PowerLoss
    PROVE  /\ DOMAIN dirs' = DOMAIN dirs /\ dirs' \in [DOMAIN dirs -> Packs]
           /\ \A g \in DOMAIN dirs :
                dirs'[g].entries = dirs[g].entries /\ dirs'[g].stamp = dirs[g].stamp
           /\ job' = [p \in Procs |-> Gone] /\ pack' = [p \in Procs |-> Detached]
<1>1. PICK g \in DOMAIN dirs, n \in 1..Limit :
        /\ n <= Len(dirs[g].data)
        /\ \E data \in {SubSeq(dirs[g].data, 1, n - 1), [dirs[g].data EXCEPT ![n] = Torn]} :
            dirs' = [h \in DOMAIN dirs |->
                        [dirs[h] EXCEPT !.data = IF h = g THEN data ELSE @,
                                        !.leases = @ \cup Users(h)]]
  BY DEF PowerLoss
<1>2. PICK data \in {SubSeq(dirs[g].data, 1, n - 1), [dirs[g].data EXCEPT ![n] = Torn]} :
        dirs' = [h \in DOMAIN dirs |->
                    [dirs[h] EXCEPT !.data = IF h = g THEN data ELSE @,
                                    !.leases = @ \cup Users(h)]]
  BY <1>1
<1>3. dirs[g] \in Packs
  <2>1. \A h \in DOMAIN dirs : dirs[h] \in Packs BY DEF Typed
  <2> QED BY <2>1
<1>4. dirs[g].data \in Seq(Puts \cup {Torn}) BY <1>3 DEF Packs
<1>5. PICK old \in Seq(Puts \cup {Torn}) : old = dirs[g].data BY <1>4
<1>6. n \in Nat /\ n - 1 \in Nat /\ n \in 1..Len(old)
  <2>1. n \in Nat /\ n >= 1 BY BlobAssumption
  <2>2. n <= Len(dirs[g].data) BY <1>1
  <2>3. n <= Len(old) BY <1>5, <2>2
  <2>4. Len(old) \in Nat OBVIOUS
  <2> QED BY <2>1, <2>3, <2>4
<1>7. SubSeq(old, 1, n - 1) \in Seq(Puts \cup {Torn})
  <2>1. PICK m \in Nat : m = n - 1 BY <1>6
  <2>2. \A i \in 1..m : old[i] \in Puts \cup {Torn} BY <1>6, <2>1, ElementOfSeq
  <2> QED BY <2>1, <2>2, SubSeqProperties
<1>8. [old EXCEPT ![n] = Torn] \in Seq(Puts \cup {Torn}) BY <1>6, ExceptSeq
<1>9. data \in Seq(Puts \cup {Torn}) BY <1>2, <1>5, <1>7, <1>8
<1>10. \A h : Users(h) \subseteq Procs BY DEF Users, Live
<1>11. \A h \in DOMAIN dirs : dirs'[h] \in Packs /\ dirs'[h].entries = dirs[h].entries
                             /\ dirs'[h].stamp = dirs[h].stamp
  <2> SUFFICES ASSUME NEW h \in DOMAIN dirs
               PROVE  dirs'[h] \in Packs /\ dirs'[h].entries = dirs[h].entries
                      /\ dirs'[h].stamp = dirs[h].stamp
    OBVIOUS
  <2>1. dirs[h] \in Packs BY DEF Typed
  <2> DEFINE new == IF h = g THEN data ELSE dirs[h].data
             held == dirs[h].leases \cup Users(h)
  <2>2. new \in Seq(Puts \cup {Torn}) /\ held \in SUBSET Procs BY <1>9, <1>10, <2>1 DEF Packs
  <2>3. dirs'[h] = [dirs[h] EXCEPT !.data = new, !.leases = held] BY <1>2
  <2> HIDE DEF new, held
  <2> QED BY <2>1, <2>2, <2>3 DEF Packs
<1> QED BY <1>2, <1>11 DEF PowerLoss

LEMMA TypedStep ==
    ASSUME Typed, Equipped, Pointed, FewLive, FewGenerations, Covered, Next
    PROVE  Typed' /\ Equipped'
<1>1. ASSUME NEW p \in Procs, Acts(p) PROVE Typed' /\ Equipped'
  <2>1. Own(p) /\ DiskStep(p) BY <1>1, OwnStep, DiskSteps
  <2>2. pack'[p].name \in DOMAIN dirs' \cup {None}
    <3>1. pack[p].name \in DOMAIN dirs' \cup {None} BY <2>1 DEF DiskStep, Disk
    <3>2. Detached.name = None /\ \A g : [Detached EXCEPT !.name = g].name = g BY DEF Detached
    <3>3. pack'[p].name = pack[p].name \/ pack'[p] = Detached \/ Attaches(p)
      BY <1>1, ViewStep
    <3> QED BY <3>1, <3>2, <3>3 DEF Attaches
  <2>3. \A q \in Procs : pack'[q].name \in DOMAIN dirs' \cup {None}
    BY <2>1, <2>2 DEF DiskStep, Disk, Own, PackStep
  <2>4. current' \in DOMAIN dirs' \cup {None}
    BY <1>1, <2>1, CurrentStep DEF DiskStep, Disk
  <2>5. Typed'
    BY <1>1, <2>1, <2>3, <2>4, OtherVariables DEF Typed, DiskStep, Disk, Own, JobStep, PackStep
  <2>6. Equipped' BY <2>1 DEF Equipped, Own, JobStep, PackStep
  <2> QED BY <2>5, <2>6
<1>2. CASE PowerLoss
  <2>1. Equipped' BY <1>2, Ends, PowerLossIs DEF Equipped
  <2>2. latched' \in [Procs -> BOOLEAN] /\ puts' \in Nat /\ faults' \in Nat /\ current' = current
    <3>1. /\ latched' = [p \in Procs |-> FALSE] /\ faults' = faults + 1
          /\ puts' = puts /\ current' = current
      BY <1>2 DEF PowerLoss
    <3> QED BY <3>1 DEF Typed
  <2>3. Detached.name = None BY DEF Detached
  <2>4. Typed' BY <1>2, <2>2, <2>3, Ends, PowerLossIs DEF Typed
  <2> QED BY <2>1, <2>4
<1> QED BY <1>1, <1>2, Steps

----------------------------------------------------------------------------
(* Coordination: one at a time, after the pointer, within bounds.            *)

LEMMA CoordinatorStep ==
    ASSUME Typed, Equipped, Pointed, FewLive, FewGenerations, OneCoordinator, Next
    PROVE  OneCoordinator'
<1>1. ASSUME NEW p \in Procs, Acts(p) PROVE OneCoordinator'
  BY <1>1, OwnStep DEF Own, JobStep, OneCoordinator
<1>2. CASE PowerLoss BY <1>2, Ends, PowerLossIs DEF OneCoordinator
<1> QED BY <1>1, <1>2, Steps

LEMMA LiveStep ==
    ASSUME Typed, Equipped, Pointed, FewLive, FewGenerations, Next
    PROVE  FewLive'
<1>1. ASSUME NEW p \in Procs, Acts(p), ~Start(p) PROVE FewLive'
  <2>1. job[p].pc = "dead" => FALSE
    <3>1. job[p].pc = "dead" => job[p] = Gone BY DEF Equipped, Fits
    <3> QED BY <1>1 DEF Acts, Exit, BeginGet, BeginRefresh, BeginPut, Idle, ReadHeader,
        ReadEntries, LockData, Restamp, CutData, AppendData, AppendEntry, LockControl, Reclaim,
        Sweep, Attach, CannotAttach, Seed, Publish, WriteFails, CutShort, Kill, Live
  <2>2. Live' \subseteq Live BY <1>1, <2>1, OwnStep DEF Own, JobStep, Live
  <2>3. IsFiniteSet(Live') /\ Cardinality(Live') <= Cardinality(Live)
    BY <2>2, FS_Subset DEF FewLive
  <2>4. Cardinality(Live) \in Nat /\ Cardinality(Live') \in Nat
    BY <2>3, FS_CardinalityType DEF FewLive
  <2> QED BY <2>3, <2>4, BlobAssumption DEF FewLive
<1>2. ASSUME NEW p \in Procs, Start(p) PROVE FewLive'
  <2>1. Live' = Live \cup {p} /\ p \notin Live
    BY <1>2 DEF Start, Live, Typed, Resting
  <2>2. IsFiniteSet(Live') /\ Cardinality(Live') = Cardinality(Live) + 1
    BY <2>1, FS_AddElement DEF FewLive
  <2>3. Cardinality(Live) \in Nat BY FS_CardinalityType DEF FewLive
  <2>4. Cardinality(Live) < MaxLive BY <1>2 DEF Start
  <2> QED BY <2>2, <2>3, <2>4, BlobAssumption DEF FewLive
<1>3. CASE PowerLoss
  <2>1. \A p \in Procs : job'[p] = Gone BY <1>3, PowerLossIs
  <2>3. Gone.pc = "dead" BY DEF Gone, Resting
  <2>2. Live' = {} BY <2>1, <2>3 DEF Live
  <2> QED BY <2>2, FS_EmptySet, BlobAssumption DEF FewLive
<1> QED BY <1>1, <1>2, <1>3, Steps

\* With everything reclaimed, each generation left is one of a running process.
LEMMA RoomToAllocate ==
    ASSUME Typed, Equipped, Pointed, FewLive, NEW p \in Procs, job[p].pc = "reclaim",
           NEW gone, RemoveDirs(gone), MayAllocate(p, gone)
    PROVE  IsFiniteSet(DOMAIN dirs') /\ Cardinality(DOMAIN dirs') <= MaxLive
<1> DEFINE named == {pack[q].name : q \in Live}
           f == [q \in Live |-> pack[q].name]
<1>1. current \in {None, pack[p].name} BY DEF Pointed
<1>2. p \in Live BY DEF Live
<1>3. DOMAIN dirs' = DOMAIN dirs \ Reclaimable(p) BY DEF RemoveDirs, MayAllocate
<1>4. DOMAIN dirs' \subseteq named
  <2> SUFFICES ASSUME NEW g \in DOMAIN dirs, g \notin Reclaimable(p) PROVE g \in named
    BY <1>3
  <2>1. CASE g \in {current, pack[p].name} BY <1>1, <1>2, <2>1, PartsTyped
  <2>2. CASE g \notin {current, pack[p].name}
    <3>1. Users(g) # {} BY <2>2 DEF MayAllocate, Reclaimable
    <3> QED BY <3>1 DEF Users
  <2> QED BY <2>1, <2>2
<1>5. IsFiniteSet(named) /\ Cardinality(named) <= Cardinality(Live)
  <2>1. f \in Surjection(Live, named) BY DEF Surjection
  <2> HIDE DEF f, named
  <2> QED BY <2>1, FS_Surjection DEF FewLive
<1>6. IsFiniteSet(DOMAIN dirs') /\ Cardinality(DOMAIN dirs') <= Cardinality(named)
  <2> HIDE DEF named
  <2> QED BY <1>4, <1>5, FS_Subset
<1>7. Cardinality(Live) \in Nat /\ Cardinality(named) \in Nat /\ Cardinality(DOMAIN dirs') \in Nat
  BY <1>5, <1>6, FS_CardinalityType DEF FewLive
<1> QED BY <1>5, <1>6, <1>7, BlobAssumption DEF FewLive

\* The set of generations changes under the control lock only.
LEMMA GenerationsStep ==
    ASSUME Typed, Equipped, Pointed, FewLive, FewGenerations, Covered, NEW p \in Procs, Acts(p)
    PROVE  /\ FewGenerations'
           /\ DOMAIN dirs' = DOMAIN dirs \/ job[p].control
<1>1. job[p].pc \in Coordinating => job[p].control BY DEF Equipped, Fits
<1>2. ASSUME DOMAIN dirs' \subseteq DOMAIN dirs PROVE FewGenerations'
  <2>1. IsFiniteSet(DOMAIN dirs') /\ Cardinality(DOMAIN dirs') <= Cardinality(DOMAIN dirs)
    BY <1>2, FS_Subset DEF FewGenerations
  <2>2. Cardinality(DOMAIN dirs) \in Nat /\ Cardinality(DOMAIN dirs') \in Nat
    BY <2>1, FS_CardinalityType DEF FewGenerations
  <2> QED BY <2>1, <2>2, BlobAssumption DEF FewGenerations, GenerationsBounded
<1>3. CASE Start(p) \/ Exit(p) \/ BeginGet(p) \/ BeginRefresh(p) \/ \E put \in Puts : BeginPut(p, put)
  BY <1>2, <1>3 DEF Start, Exit, BeginGet, BeginRefresh, BeginPut
<1>4. CASE ReadHeader(p) \/ ReadEntries(p) \/ LockData(p) \/ Restamp(p) \/ CutData(p)
  BY <1>2, <1>4 DEF ReadHeader, ReadEntries, LockData, Adopt, Restamp, CutData
<1>5. CASE AppendData(p) \/ AppendEntry(p) \/ LockControl(p) \/ Publish(p) \/ Seed(p)
  BY <1>2, <1>5 DEF AppendData, AppendEntry, LockControl, Publish, Seed, Seeded
<1>6. CASE Reclaim(p) \/ Sweep(p)
  BY <1>1, <1>2, <1>6 DEF Reclaim, Sweep, Reclaims, RemoveDirs, Coordinating
<1>7. CASE Attach(p) \/ CannotAttach(p)
  <2>1. job[p].pc = "attach" BY <1>7 DEF Attach, CannotAttach
  <2>2. CASE DOMAIN dirs' = DOMAIN dirs BY <1>2, <2>2
  <2>3. CASE DOMAIN dirs' # DOMAIN dirs
    <3>1. DOMAIN dirs' = DOMAIN dirs \cup {job[p].target}
      BY <1>7, <2>3 DEF Attach, CannotAttach
    <3>2. job[p].target \notin DOMAIN dirs BY <2>3, <3>1
    <3>3. Cardinality(DOMAIN dirs) <= MaxLive
      BY <2>1, <3>2, PartsTyped DEF Pointed, Typed
    <3>4. Cardinality(DOMAIN dirs') = Cardinality(DOMAIN dirs) + 1 /\ IsFiniteSet(DOMAIN dirs')
      BY <3>1, <3>2, FS_AddElement DEF FewGenerations
    <3>5. Cardinality(DOMAIN dirs) \in Nat BY FS_CardinalityType DEF FewGenerations
    <3>6. FewGenerations'
      BY <3>3, <3>4, <3>5, BlobAssumption DEF FewGenerations, GenerationsBounded
    <3> QED BY <1>1, <2>1, <3>6 DEF Coordinating
  <2> QED BY <2>2, <2>3
<1>8. CASE WriteFails(p)
  BY <1>2, <1>8, CutShortIs DEF WriteFails
<1>9. CASE Kill(p)
  <2>1. PICK disk \in CutShort(p) \cup {[dirs |-> dirs, current |-> current]} :
          dirs' = IF pack[p].name = None THEN disk.dirs
                  ELSE [disk.dirs EXCEPT ![pack[p].name].leases = @ \cup {p}]
    BY <1>9 DEF Kill
  <2>2. DOMAIN disk.dirs = DOMAIN dirs BY <2>1, CutShortIs
  <2> QED BY <1>2, <2>1, <2>2
<1> QED BY <1>3, <1>4, <1>5, <1>6, <1>7, <1>8, <1>9 DEF Acts

Follows(j) ==
    \/ j.pc = "reclaim"
    \/ j.stage \in {"rotate", "full"} /\ j.pc \notin {"control", "attach", "publish"}

Targets(j) ==
    \/ j.target = current /\ current # None
    \/ j.target \in Names \ DOMAIN dirs /\ Cardinality(DOMAIN dirs) <= MaxLive

LEMMA PointedIs ==
    Pointed <=> \A p \in Procs : /\ Follows(job[p]) => current \in {None, pack[p].name}
                                 /\ job[p].pc = "attach" => Targets(job[p])
BY DEF Pointed, Follows, Targets

\* Jobs that no longer coordinate.
LEMMA Apart ==
    /\ ~Follows(Resting) /\ Resting.pc # "attach" /\ ~Follows(Gone) /\ Gone.pc # "attach"
    /\ \A view : \A j \in Jobs : ~Follows(Left(j, view)) /\ Left(j, view).pc # "attach"
<1>1. ~Follows(Resting) /\ Resting.pc # "attach" /\ ~Follows(Gone) /\ Gone.pc # "attach"
  BY DEF Follows, Resting, Gone
<1>2. ASSUME NEW j \in Jobs, NEW view
      PROVE  ~Follows(Left(j, view)) /\ Left(j, view).pc # "attach"
  <2>1. CASE j.stage # "plain" \/ view.name = None BY <1>1, <2>1 DEF Left
  <2>2. CASE ~(j.stage # "plain" \/ view.name = None) BY <2>2 DEF Left, Follows, Jobs
  <2> QED BY <2>1, <2>2
<1> QED BY <1>1, <1>2

LEMMA FollowedPoints ==
    ASSUME Typed, NEW p \in Procs, Followed(p)
    PROVE  /\ job'[p].pc # "attach"
           /\ Follows(job'[p]) => job[p].stage = "rotate"
<1>1. job[p] \in Jobs BY PartsTyped
<1>2. CASE job[p].stage = "rotate"
  BY <1>1, <1>2 DEF Followed, PutAt, Typed, Jobs
<1>3. CASE job[p].stage # "rotate"
  BY <1>1, <1>3, Apart DEF Followed, Leave, Typed
<1> QED BY <1>2, <1>3

LEMMA RefuseApart ==
    ASSUME Typed, NEW p \in Procs, Refuse(p)
    PROVE  ~Follows(job'[p]) /\ job'[p].pc # "attach"
<1>1. job[p] \in Jobs BY PartsTyped
<1> QED BY <1>1, Apart DEF Refuse, Typed, Jobs, Follows

LEMMA StoredApart ==
    ASSUME Typed, NEW p \in Procs, Stored(p)
    PROVE  ~Follows(job'[p]) /\ job'[p].pc # "attach"
<1>1. job[p] \in Jobs BY PartsTyped
<1> QED BY <1>1, Apart DEF Stored, Typed, Jobs, Follows

LEMMA OwnPointed ==
    ASSUME Typed, Equipped, Pointed, FewLive, FewGenerations, NEW p \in Procs, Acts(p)
    PROVE  /\ Follows(job'[p]) => current' \in {None, pack'[p].name}
           /\ job'[p].pc = "attach" => Targets(job[p])' 
<1> DEFINE Goal == /\ Follows(job'[p]) => current' \in {None, pack'[p].name}
                   /\ job'[p].pc = "attach" => Targets(job[p])'
<1>1. pack[p] \in Views /\ job[p] \in Jobs /\ Fits(job[p], pack[p])
  BY PartsTyped DEF Equipped
<1>2. job \in [Procs -> Jobs] /\ pack \in [Procs -> Views] BY DEF Typed
<1>3. Follows(job[p]) => current \in {None, pack[p].name} BY PointedIs
<1>4. ASSUME ~Follows(job'[p]), job'[p].pc # "attach" PROVE Goal BY <1>4
<1>5. ASSUME Follows(job'[p]) => Follows(job[p]), current' = current,
             pack'[p].name = pack[p].name, job'[p].pc # "attach"
      PROVE  Goal
  BY <1>3, <1>5
<1>6. CASE Start(p) \/ Exit(p) \/ Kill(p)
  BY <1>2, <1>4, <1>6, Apart DEF Start, Exit, Kill
<1>7. CASE BeginGet(p) \/ BeginRefresh(p) \/ \E put \in Puts : BeginPut(p, put)
  <2>1. job[p] = Resting BY <1>1, <1>7 DEF BeginGet, BeginRefresh, BeginPut, Idle, Fits
  <2>2. job[p].stage = "plain" BY <2>1 DEF Resting
  <2>3. \E pc \in {"control", "header", "lock"} :
            job'[p].pc = pc /\ job'[p].stage = job[p].stage
    <3>1. CASE BeginGet(p)
      BY <1>1, <1>2, <1>7, <3>1 DEF BeginGet, Jobs
    <3>2. CASE BeginRefresh(p)
      BY <1>1, <1>2, <1>7, <3>2 DEF BeginRefresh, Jobs
    <3>3. ASSUME NEW put \in Puts, BeginPut(p, put)
          PROVE  \E pc \in {"control", "header", "lock"} :
                    job'[p].pc = pc /\ job'[p].stage = job[p].stage
      <4>1. PutAt(p) \in {"header", "lock"} BY DEF PutAt
      <4>2. PICK pc \in {"control", "header", "lock"} :
                pc = IF pack[p].name = None THEN "control" ELSE PutAt(p)
        BY <4>1
      <4>3. job' = [job EXCEPT ![p].op = "put", ![p].put = put, ![p].pc = pc]
        BY <3>3, <4>2 DEF BeginPut
      <4> QED BY <1>1, <1>2, <4>3 DEF Jobs
    <3> QED BY <1>7, <3>1, <3>2, <3>3
  <2> QED BY <1>4, <2>2, <2>3 DEF Follows
<1>8. CASE ReadHeader(p) \/ ReadEntries(p)
  <2>1. job[p].pc \in {"header", "entries"} /\ current' = current
    BY <1>8 DEF ReadHeader, ReadEntries
  <2>2. \/ job'[p] = Resting
        \/ job'[p].stage = job[p].stage /\ job'[p].pc \in {"entries", "lock"}
    <3>1. \/ job'[p] = HaveRead(job[p])
          \/ \E n : job'[p] = [job[p] EXCEPT !.pc = "entries", !.upto = n]
      BY <1>2, <1>8 DEF ReadHeader, ReadEntries
    <3>2. ASSUME NEW n, job'[p] = [job[p] EXCEPT !.pc = "entries", !.upto = n]
          PROVE  job'[p].stage = job[p].stage /\ job'[p].pc = "entries"
      BY <1>1, <3>2 DEF Jobs
    <3>3. CASE job'[p] = HaveRead(job[p])
      BY <1>1, <3>3 DEF HaveRead, Jobs
    <3> QED BY <3>1, <3>2, <3>3
  <2>3. ~Attaches(p) BY <2>1 DEF Attaches, Attach
  <2>4. CASE job'[p] = Resting BY <1>4, <2>4, Apart
  <2>5. CASE job'[p] # Resting
    <3>1. pack'[p].name = pack[p].name \/ pack'[p] = Detached
      BY <1>8, <2>3, ViewStep DEF Acts
    <3>2. Fits(job'[p], pack'[p]) BY <1>8, OwnStep DEF Acts, Own
    <3>3. pack'[p] # Detached BY <2>2, <2>5, <3>2 DEF Fits, Detached, UsesPack
    <3> QED BY <1>5, <2>1, <2>2, <2>5, <3>1, <3>3 DEF Follows
  <2> QED BY <2>4, <2>5
<1>9. CASE LockData(p)
  <2>1. CASE Refuse(p) BY <1>4, <2>1, RefuseApart
  <2>2. CASE Adopt(p)
    <3>1. job[p].pc = "lock" /\ current' = current /\ pack[p].name # None
      BY <1>1, <1>9 DEF LockData, Fits, UsesPack
    <3>2. job'[p].stage = job[p].stage /\ job'[p].pc \in {"restamp", "cut"}
      BY <1>1, <1>2, <2>2 DEF Adopt, Jobs
    <3>3. pack'[p].name = pack[p].name
      BY <1>1, <1>2, <2>2, <3>1, AdoptedIs, PartsTyped DEF Adopt
    <3> QED BY <1>5, <3>1, <3>2, <3>3 DEF Follows
  <2> QED BY <1>9, <2>1, <2>2 DEF LockData
<1>10. CASE Restamp(p)
  <2>1. job[p].pc = "restamp" /\ current' = current /\ pack'[p].name = pack[p].name
        /\ job'[p].stage = job[p].stage /\ job'[p].pc = "cut"
    BY <1>1, <1>2, <1>10 DEF Restamp, Views, Jobs
  <2> QED BY <1>5, <2>1 DEF Follows
<1>11. CASE CutData(p)
  <2>1. job[p].pc = "cut" /\ current' = current BY <1>11 DEF CutData
  <2>2. CASE Stored(p) BY <1>4, <2>2, StoredApart
  <2>3. CASE Refuse(p) BY <1>4, <2>3, RefuseApart
  <2>4. CASE pack' = pack /\ job' = [job EXCEPT ![p].pc = "control", ![p].stage = "rotate"]
    BY <1>1, <1>2, <1>4, <2>4 DEF Jobs, Follows
  <2>5. CASE /\ job[p].stage \notin {"plain", "fresh"} /\ pack' = pack
             /\ job' = [job EXCEPT ![p].pc = "reclaim", ![p].stage = "full"]
    <3>1. Follows(job[p]) /\ job'[p].pc = "reclaim" BY <1>1, <1>2, <2>1, <2>5 DEF Jobs, Follows
    <3> QED BY <1>5, <2>1, <2>5, <3>1
  <2>6. CASE pack' = pack /\ job' = [job EXCEPT ![p].pc = "data"]
    BY <1>1, <1>2, <1>5, <2>1, <2>6 DEF Jobs, Follows
  <2>7. \/ Stored(p) \/ Full(p)
        \/ pack' = pack /\ job' = [job EXCEPT ![p].pc = "data"]
    BY <1>11, Zenon DEF CutData
  <2>8. CASE Full(p)
    BY <2>3, <2>4, <2>5, <2>8 DEF Full
  <2> QED BY <2>2, <2>6, <2>7, <2>8
<1>12. CASE AppendData(p)
  BY <1>1, <1>2, <1>5, <1>12 DEF AppendData, Jobs, Follows
<1>13. CASE AppendEntry(p) BY <1>4, <1>13, StoredApart DEF AppendEntry
<1>14. CASE LockControl(p)
  <2>1. current' = current /\ dirs' = dirs /\ pack' = pack BY <1>14 DEF LockControl
  <2>2. CASE Raise(p, pack[p]) BY <1>1, <1>2, <1>4, <2>2, Apart DEF Raise
  <2>3. CASE current = None
    <3>1. current' \in {None, pack'[p].name} BY <2>1, <2>3
    <3>2. Raise(p, pack[p]) \/ job' = [job EXCEPT ![p].pc = "reclaim", ![p].control = TRUE]
      BY <1>14, <2>3 DEF LockControl
    <3> QED BY <1>1, <1>2, <2>2, <3>1, <3>2 DEF Jobs
  <2>4. CASE current = pack[p].name /\ Followed(p)
    BY <2>1, <2>4, FollowedPoints
  <2>5. CASE /\ current # None
             /\ job' = [job EXCEPT ![p].pc = "attach", ![p].control = TRUE, ![p].target = current]
    <3>1. job'[p].pc = "attach" /\ job'[p].target = current' /\ current' # None
          /\ job'[p].stage = job[p].stage
      BY <1>1, <1>2, <2>1, <2>5 DEF Jobs
    <3> QED BY <3>1 DEF Follows, Targets
  <2> QED BY <1>14, <2>2, <2>3, <2>4, <2>5 DEF LockControl
<1>15. CASE Reclaim(p)
  <2>1. job[p].pc = "reclaim" /\ current' = current /\ pack' = pack BY <1>15 DEF Reclaim
  <2>2. CASE Followed(p) BY <1>5, <2>1, <2>2, FollowedPoints DEF Follows
  <2>3. CASE ~Followed(p)
    <3>1. PICK gone \in SUBSET DOMAIN dirs :
            /\ RemoveDirs(gone) /\ MayAllocate(p, gone)
            /\ job' = [job EXCEPT ![p].pc = "attach", ![p].target = FreshName]
      BY <1>15, <2>3 DEF Reclaim, Reclaims
    <3>2. Cardinality(DOMAIN dirs') <= MaxLive BY <2>1, <3>1, RoomToAllocate
    <3>3. FreshName \in Names \ DOMAIN dirs' BY <3>1, FreshNameIs DEF RemoveDirs
    <3>4. job'[p].pc = "attach" /\ job'[p].target = FreshName /\ job'[p].stage = job[p].stage
      BY <1>1, <1>2, <3>1 DEF Jobs
    <3> QED BY <3>2, <3>3, <3>4 DEF Follows, Targets
  <2> QED BY <2>2, <2>3
<1>16. CASE Sweep(p)
  <2>1. job[p].pc = "sweep" /\ current' = current /\ pack' = pack /\ Followed(p)
    BY <1>16 DEF Sweep
  <2> QED BY <1>5, <2>1, FollowedPoints DEF Follows
<1>17. CASE Attach(p)
  <2>1. current' = current /\ pack'[p].name = job[p].target
    BY <1>2, <1>17 DEF Attach, Detached
  <2>2. \/ job'[p].pc = "sweep" /\ job[p].target = current
        \/ job'[p].pc = "publish" \/ (job'[p].pc = "seed" /\ job'[p].stage = "fresh")
    BY <1>1, <1>2, <1>17 DEF Attach, Jobs
  <2> QED BY <2>1, <2>2 DEF Follows
<1>18. CASE CannotAttach(p)
  BY <1>1, <1>2, <1>4, <1>18, Apart DEF CannotAttach, Raise
<1>19. CASE Seed(p)
  <2>1. job[p].pc = "seed" /\ job'[p].pc = "header" /\ job'[p].stage = job[p].stage
        /\ current' = current /\ pack' = pack
    BY <1>1, <1>2, <1>19 DEF Seed, Jobs
  <2> QED BY <1>5, <2>1 DEF Follows
<1>20. CASE Publish(p)
  <2>1. pack' = pack /\ current' = pack[p].name BY <1>20 DEF Publish
  <2>2. CASE Followed(p) BY <2>1, <2>2, FollowedPoints
  <2>3. CASE job' = [job EXCEPT ![p].pc = "sweep"] BY <1>1, <1>2, <2>1, <2>3 DEF Jobs
  <2> QED BY <1>20, <2>2, <2>3 DEF Publish
<1>21. CASE WriteFails(p)
  <2>1. CASE job[p].pc = "publish"
    <3>1. Raise(p, Detached) BY <1>21, <2>1 DEF WriteFails
    <3> QED BY <1>1, <1>2, <1>4, <3>1, Apart DEF Raise
  <2>2. CASE job[p].pc = "seed"
    <3>1. job'[p].pc = "header" /\ job'[p].stage = job[p].stage /\ pack' = pack
      BY <1>1, <1>2, <1>21, <2>2 DEF WriteFails, Jobs
    <3>2. current' = current BY <1>21, <2>2, CutShortIs DEF WriteFails
    <3> QED BY <1>5, <2>2, <3>1, <3>2 DEF Follows
  <2>3. CASE job[p].pc \notin {"publish", "seed"}
    BY <1>4, <1>21, <2>3, RefuseApart DEF WriteFails
  <2> QED BY <2>1, <2>2, <2>3
<1> QED
  BY <1>6, <1>7, <1>8, <1>9, <1>10, <1>11, <1>12, <1>13, <1>14, <1>15, <1>16, <1>17, <1>18,
     <1>19, <1>20, <1>21 DEF Acts

\* Only who has the control lock moves the pointer or the generations, and
\* nobody follows or attaches without it.
LEMMA PointedStep ==
    ASSUME Typed, Equipped, OneCoordinator, Pointed, FewLive, FewGenerations, Covered, Next
    PROVE  Pointed'
<1>1. ASSUME NEW p \in Procs, Acts(p) PROVE Pointed'
  <2>1. JobStep(p) /\ PackStep(p) BY <1>1, OwnStep DEF Own
  <2>2. /\ Follows(job'[p]) => current' \in {None, pack'[p].name}
        /\ job'[p].pc = "attach" => Targets(job[p])'
    BY <1>1, OwnPointed
  <2>3. ASSUME NEW q \in Procs, q # p
        PROVE  /\ Follows(job'[q]) => current' \in {None, pack'[q].name}
               /\ job'[q].pc = "attach" => Targets(job[q])'
    <3>1. job'[q] = job[q] /\ pack'[q] = pack[q] BY <2>1, <2>3 DEF JobStep, PackStep
    <3>2. Follows(job[q]) \/ job[q].pc = "attach" => job[q].control
      BY DEF Equipped, Fits, Follows, Coordinating
    <3>3. job[q].control => current' = current /\ DOMAIN dirs' = DOMAIN dirs
      BY <1>1, <2>3, CurrentStep, GenerationsStep DEF OneCoordinator
    <3>4. Follows(job[q]) => current \in {None, pack[q].name} BY PointedIs
    <3>5. job[q].pc = "attach" => Targets(job[q]) BY PointedIs
    <3> QED BY <3>1, <3>2, <3>3, <3>4, <3>5 DEF Targets
  <2>4. \A q \in Procs : /\ Follows(job'[q]) => current' \in {None, pack'[q].name}
                         /\ job'[q].pc = "attach" => Targets(job[q])'
    BY <2>2, <2>3
  <2> QED BY <2>4 DEF Pointed, Follows, Targets
<1>2. CASE PowerLoss
  <2>1. \A p \in Procs : job'[p] = Gone BY <1>2, PowerLossIs
  <2>2. Gone.pc = "dead" /\ Gone.stage = "plain" BY DEF Gone, Resting
  <2> QED BY <2>1, <2>2 DEF Pointed
<1> QED BY <1>1, <1>2, Steps

LEMMA FewGenerationsStep ==
    ASSUME Typed, Equipped, Pointed, FewLive, FewGenerations, Covered, Next
    PROVE  FewGenerations'
<1>1. CASE PowerLoss BY <1>1, PowerLossIs DEF FewGenerations, GenerationsBounded
<1> QED BY <1>1, GenerationsStep, Steps

----------------------------------------------------------------------------
(* Journals: one writer, and stamps that bind.                               *)

\* How a process comes to seed a generation, or to write to one.
LEMMA Beginnings ==
    ASSUME Typed, Equipped, Pointed, FewLive, FewGenerations, NEW p \in Procs, Acts(p)
    PROVE  /\ job'[p].pc = "seed" => Attach(p) /\ job[p].target # current
           /\ job'[p].pc \in Writing =>
                \/ LockData(p) /\ Adopt(p) /\ ~DataLocked(pack[p].name)
                \/ Restamp(p) /\ job'[p].pc = "cut"
                \/ CutData(p) /\ pack' = pack /\ job'[p].pc = "data"
                \/ AppendData(p) /\ job'[p].pc = "entry"
<1> DEFINE Other == job'[p].pc \notin {"seed"} \cup Writing
<1>1. job[p] \in Jobs /\ Fits(job[p], pack[p]) /\ job \in [Procs -> Jobs]
  BY PartsTyped DEF Equipped, Typed
<1>2. Resting.pc = "idle" /\ Gone.pc = "dead" BY DEF Resting, Gone
<1>3. \A view : \A j \in Jobs : Left(j, view).pc \in {"idle", "header"}
  <2> TAKE view
  <2> TAKE j \in Jobs
  <2>1. CASE j.stage # "plain" \/ view.name = None BY <1>2, <2>1 DEF Left
  <2>2. CASE ~(j.stage # "plain" \/ view.name = None) BY <2>2 DEF Left, Jobs
  <2> QED BY <2>1, <2>2
<1>4. ASSUME Followed(p) PROVE job'[p].pc \in {"idle", "header", "lock"}
  <2>1. CASE job[p].stage = "rotate"
    BY <1>1, <1>4, <2>1 DEF Followed, PutAt, Jobs
  <2>2. CASE job[p].stage # "rotate" BY <1>1, <1>3, <1>4, <2>2 DEF Followed, Leave
  <2> QED BY <2>1, <2>2
<1>5. ASSUME Refuse(p) PROVE job'[p].pc \in {"idle", "sweep"}
  BY <1>1, <1>2, <1>5 DEF Refuse, Jobs
<1>6. ASSUME Stored(p) PROVE job'[p].pc \in {"idle", "publish"}
  BY <1>1, <1>2, <1>6 DEF Stored, Jobs
<1>7. ASSUME NEW view, Raise(p, view) PROVE job'[p].pc \in {"idle", "header"}
  BY <1>1, <1>3, <1>7 DEF Raise
<1>8. Writing \cap {"seed", "idle", "dead", "header", "lock", "sweep", "publish", "control",
                    "reclaim", "attach", "entries"} = {}
  BY DEF Writing
<1>9. CASE Start(p) \/ Exit(p) \/ Kill(p)
  <2>1. job'[p].pc \in {"idle", "dead"} BY <1>1, <1>2, <1>9 DEF Start, Exit, Kill
  <2> QED BY <1>8, <2>1
<1>10. CASE BeginGet(p) \/ BeginRefresh(p) \/ \E put \in Puts : BeginPut(p, put)
  <2>1. CASE BeginGet(p)
    <3>1. job'[p].pc \in {"control", "header"} BY <1>1, <2>1 DEF BeginGet, Jobs
    <3> QED BY <1>8, <3>1
  <2>2. CASE BeginRefresh(p)
    <3>1. job'[p].pc = "control" BY <1>1, <2>2 DEF BeginRefresh, Jobs
    <3> QED BY <1>8, <3>1
  <2>3. ASSUME NEW put \in Puts, BeginPut(p, put) PROVE Other
    <3>1. PICK pc : pc = IF pack[p].name = None THEN "control" ELSE PutAt(p) OBVIOUS
    <3>2. pc \in {"control", "header", "lock"} BY <3>1 DEF PutAt
    <3>3. job' = [job EXCEPT ![p].op = "put", ![p].put = put, ![p].pc = pc]
      BY <2>3, <3>1 DEF BeginPut
    <3>4. job'[p].pc = pc BY <1>1, <3>3 DEF Jobs
    <3> QED BY <1>8, <3>2, <3>4
  <2> QED BY <1>10, <2>1, <2>2, <2>3
<1>11. CASE ReadHeader(p) \/ ReadEntries(p)
  <2>1. \/ job'[p] = HaveRead(job[p])
        \/ \E n : job'[p] = [job[p] EXCEPT !.pc = "entries", !.upto = n]
    BY <1>1, <1>11 DEF ReadHeader, ReadEntries
  <2>2. HaveRead(job[p]).pc \in {"idle", "lock"} BY <1>1, <1>2 DEF HaveRead, Jobs
  <2>3. job'[p].pc \in {"entries", "idle", "lock"} BY <1>1, <2>1, <2>2 DEF Jobs
  <2> QED BY <1>8, <2>3
<1>12. CASE LockData(p)
  <2>1. CASE Refuse(p) BY <1>5, <1>8, <2>1
  <2>2. CASE ~Refuse(p)
    <3>1. Adopt(p) /\ ~DataLocked(pack[p].name) BY <1>12, <2>2 DEF LockData
    <3>2. job'[p].pc \in {"restamp", "cut"} BY <1>1, <3>1 DEF Adopt, Jobs
    <3> QED BY <1>12, <3>1, <3>2
  <2> QED BY <2>1, <2>2
<1>13. CASE Restamp(p)
  <2>1. job'[p].pc = "cut" BY <1>1, <1>13 DEF Restamp, Jobs
  <2> QED BY <1>13, <2>1
<1>14. CASE CutData(p)
  <2>1. \/ Stored(p) \/ Full(p)
        \/ pack' = pack /\ job' = [job EXCEPT ![p].pc = "data"]
    BY <1>14, Zenon DEF CutData
  <2>2. CASE Full(p)
    <3>1. CASE Refuse(p) BY <1>5, <1>8, <3>1
    <3>2. CASE ~Refuse(p)
      <4>1. job'[p].pc \in {"control", "reclaim"} BY <1>1, <2>2, <3>2 DEF Full, Jobs
      <4> QED BY <1>8, <4>1
    <3> QED BY <3>1, <3>2
  <2>3. CASE pack' = pack /\ job' = [job EXCEPT ![p].pc = "data"]
    <3>1. job'[p].pc = "data" BY <1>1, <2>3 DEF Jobs
    <3> QED BY <1>14, <2>3, <3>1
  <2> QED BY <1>6, <1>8, <2>1, <2>2, <2>3
<1>15. CASE AppendData(p)
  <2>1. job'[p].pc = "entry" BY <1>1, <1>15 DEF AppendData, Jobs
  <2> QED BY <1>15, <2>1
<1>16. CASE AppendEntry(p) BY <1>6, <1>8, <1>16 DEF AppendEntry
<1>17. CASE LockControl(p)
  <2>1. \/ Raise(p, pack[p]) \/ Followed(p)
        \/ job' = [job EXCEPT ![p].pc = "reclaim", ![p].control = TRUE]
        \/ job' = [job EXCEPT ![p].pc = "attach", ![p].control = TRUE, ![p].target = current]
    BY <1>17 DEF LockControl
  <2>2. job'[p].pc \in {"idle", "header", "lock", "reclaim", "attach"}
    BY <1>1, <1>4, <1>7, <2>1 DEF Jobs
  <2> QED BY <1>8, <2>2
<1>18. CASE Reclaim(p) \/ Sweep(p)
  <2>1. Followed(p) \/ job' = [job EXCEPT ![p].pc = "attach", ![p].target = FreshName]
    BY <1>18 DEF Reclaim, Sweep
  <2>2. job'[p].pc \in {"idle", "header", "lock", "attach"} BY <1>1, <1>4, <2>1 DEF Jobs
  <2> QED BY <1>8, <2>2
<1>19. CASE Attach(p)
  <2>1. CASE job[p].target # current /\ job[p].stage = "full"
    <3>1. PICK batch : job' = [job EXCEPT ![p].pc = "seed", ![p].stage = "fresh",
                                          ![p].target = None, ![p].batch = batch]
      BY <1>19, <2>1 DEF Attach
    <3>2. job'[p].pc = "seed" BY <1>1, <3>1 DEF Jobs
    <3> QED BY <1>8, <1>19, <2>1, <3>2
  <2>2. CASE ~(job[p].target # current /\ job[p].stage = "full")
    <3>1. PICK pc \in {"sweep", "publish"} :
            job' = [job EXCEPT ![p].pc = pc, ![p].target = None]
      BY <1>19, <2>2 DEF Attach
    <3>2. job'[p].pc = pc BY <1>1, <3>1 DEF Jobs
    <3> QED BY <1>8, <3>2
  <2> QED BY <2>1, <2>2
<1>20. CASE CannotAttach(p) BY <1>7, <1>8, <1>20 DEF CannotAttach
<1>21. CASE Seed(p)
  <2>1. job'[p].pc = "header" BY <1>1, <1>21 DEF Seed, Jobs
  <2> QED BY <1>8, <2>1
<1>22. CASE Publish(p)
  <2>1. Followed(p) \/ job' = [job EXCEPT ![p].pc = "sweep"] BY <1>22 DEF Publish
  <2>2. job'[p].pc \in {"idle", "header", "lock", "sweep"} BY <1>1, <1>4, <2>1 DEF Jobs
  <2> QED BY <1>8, <2>2
<1>23. CASE WriteFails(p)
  <2>1. \/ Raise(p, Detached) \/ Refuse(p)
        \/ job' = [job EXCEPT ![p].pc = "header", ![p].batch = <<>>]
    BY <1>23 DEF WriteFails
  <2>2. job'[p].pc \in {"idle", "header", "sweep"} BY <1>1, <1>5, <1>7, <2>1 DEF Jobs
  <2> QED BY <1>8, <2>2
<1> QED
  BY <1>9, <1>10, <1>11, <1>12, <1>13, <1>14, <1>15, <1>16, <1>17, <1>18, <1>19, <1>20, <1>21,
     <1>22, <1>23 DEF Acts

LEMMA AloneStep ==
    ASSUME Coordinated, Bounded, Bound, Next
    PROVE  Alone'
<1> USE DEF Coordinated, Bounded, Bound
<1>1. ASSUME NEW a \in Procs, Acts(a), NEW p \in Procs, job'[p].pc = "seed"
      PROVE  /\ \A q \in Procs : pack'[q].name = pack'[p].name => q = p
             /\ dirs'[pack'[p].name].entries = <<>>
  <2>1. JobStep(a) /\ PackStep(a) /\ Disk(a) BY <1>1, OwnStep, DiskSteps DEF Own, DiskStep
  <2>2. \A q \in Procs : pack[q].name \in DOMAIN dirs \cup {None} BY DEF Typed
  <2>3. CASE p = a
    <3> DEFINE g == job[a].target
    <3>1. Attach(a) /\ g # current BY <1>1, <2>3, Beginnings
    <3>2. g \in Names \ DOMAIN dirs BY <3>1 DEF Attach, Pointed
    <3>3. g # None BY <3>2, PartsTyped
    <3>4. pack'[a].name = g /\ dirs'[g] = EmptyPack
      BY <3>1, <3>2 DEF Attach, Detached, Typed
    <3>5. \A q \in Procs : pack'[q].name = g => q = a
      BY <2>1, <2>2, <3>2, <3>3 DEF PackStep
    <3> QED BY <2>3, <3>4, <3>5 DEF EmptyPack
  <2>4. CASE p # a
    <3>1. job[p].pc = "seed" /\ pack'[p] = pack[p] BY <1>1, <2>1, <2>4 DEF JobStep, PackStep
    <3>2. job[p].control /\ pack[p].name # None
      BY <3>1 DEF Equipped, Fits, Coordinating, UsesPack
    <3>3. ~job[a].control BY <2>4, <3>2 DEF OneCoordinator
    <3>4. ~Attaches(a) BY <3>3 DEF Equipped, Fits, Coordinating, Attaches, Attach
    <3>5. pack'[a].name \in {pack[a].name, None}
      BY <1>1, <3>4, ViewStep DEF Detached
    <3>6. \A q \in Procs : pack[q].name = pack[p].name => q = p BY <3>1 DEF Alone
    <3>7. \A q \in Procs : pack'[q].name = pack[p].name => q = p
      BY <2>1, <3>2, <3>5, <3>6 DEF PackStep
    <3>8. pack[p].name \in DOMAIN dirs \cap DOMAIN dirs' BY <2>1, <2>2, <3>2 DEF Disk
    <3>9. KeepsJournal(pack[p].name) BY <1>1, <2>1, <2>4, <3>6, <3>8 DEF Disk
    <3>10. dirs'[pack[p].name].entries = <<>> BY <3>1, <3>9 DEF KeepsJournal, Alone
    <3> QED BY <3>1, <3>7, <3>10
  <2> QED BY <2>3, <2>4
<1>2. CASE PowerLoss
  <2>1. \A p \in Procs : job'[p] = Gone BY <1>2, PowerLossIs
  <2>2. Gone.pc = "dead" BY DEF Gone, Resting
  <2> QED BY <2>1, <2>2 DEF Alone
<1> QED BY <1>1, <1>2, Steps DEF Alone

\* What another process does to the generation a writer holds: nothing.
LEMMA Undisturbed ==
    ASSUME Coordinated, Bounded, Bound, NEW a \in Procs, Acts(a),
           NEW p \in Procs, p # a, job[p].pc \in Writing
    PROVE  /\ job'[p] = job[p] /\ pack'[p] = pack[p]
           /\ dirs'[pack[p].name].entries = dirs[pack[p].name].entries
           /\ dirs'[pack[p].name].data = dirs[pack[p].name].data
           /\ pack[a].name = pack[p].name => job[a].pc \notin {"seed"} \cup Writing
           /\ DataLocked(pack[p].name)
<1> USE DEF Coordinated, Bounded, Bound
<1> DEFINE g == pack[p].name
<1>1. JobStep(a) /\ PackStep(a) /\ DiskStep(a) BY OwnStep, DiskSteps DEF Own
<1>2. job'[p] = job[p] /\ pack'[p] = pack[p] BY <1>1 DEF JobStep, PackStep
<1>3. g # None BY DEF Equipped, Fits, UsesPack
<1>4. g \in DOMAIN dirs \cap DOMAIN dirs' BY <1>1, <1>3, PartsTyped DEF DiskStep, Disk
<1>5. p \in Users(g) BY DEF Users, Live, Writing
<1>6. DataLocked(g) BY <1>5 DEF DataLocked
<1>7. CASE pack[a].name # g
  BY <1>1, <1>2, <1>4, <1>6, <1>7 DEF DiskStep, Disk, KeepsJournal
<1>8. CASE pack[a].name = g
  <2>1. job[a].pc \notin Writing BY <1>8 DEF OneWriter
  <2>2. job[a].pc # "seed" BY <1>8 DEF Alone
  <2>3. OwnJournal(a) /\ KeepsData(a) BY <1>1, <1>3, <1>8 DEF DiskStep
  <2>4. dirs'[g].data = dirs[g].data BY <1>8, <2>1, <2>2, <2>3 DEF KeepsData
  <2>5. ~(LockData(a) /\ Adopt(a))
    <3> SUFFICES ASSUME LockData(a), Adopt(a) PROVE FALSE OBVIOUS
    <3>1. Refuse(a) BY <1>6, <1>8 DEF LockData
    <3>2. job'[a].pc \in {"restamp", "cut"} BY PartsTyped DEF Adopt, Typed, Jobs
    <3>3. job'[a].pc \in {"idle", "sweep"} BY <3>1, PartsTyped DEF Refuse, Typed, Jobs, Resting
    <3> QED BY <3>2, <3>3
  <2>6. ~Restamp(a) /\ ~AppendEntry(a) /\ ~Seed(a)
    BY <2>1, <2>2 DEF Restamp, AppendEntry, Seed, Writing
  <2>7. dirs'[g].entries = dirs[g].entries
    BY <1>8, <2>3, <2>5, <2>6 DEF OwnJournal, KeepsJournal
  <2> QED BY <1>2, <1>6, <2>1, <2>2, <2>4, <2>7
<1> QED BY <1>7, <1>8

\* What adopting the tail does to the generation and to the pack.
LEMMA AdoptIs ==
    ASSUME Coordinated, Bounded, Bound, NEW p \in Procs, LockData(p), Adopt(p)
    PROVE  /\ pack[p].name # None /\ pack'[p].name = pack[p].name
           /\ pack'[p].index = dirs'[pack[p].name].entries
           /\ dirs'[pack[p].name].data = dirs[pack[p].name].data
           /\ Len(pack'[p].index) <= Len(dirs[pack[p].name].data)
           /\ IF Whole(dirs[pack[p].name])
              THEN /\ dirs'[pack[p].name].entries = dirs[pack[p].name].entries
                   /\ dirs'[pack[p].name].stamp = dirs[pack[p].name].stamp
              ELSE dirs'[pack[p].name].stamp = None
<1> USE DEF Coordinated, Bounded, Bound
<1> DEFINE g == pack[p].name
           d == dirs[g]
<1>1. pack[p] \in Views /\ Fits(job[p], pack[p]) /\ job[p].pc = "lock"
  BY PartsTyped DEF Equipped, LockData
<1>2. g # None /\ p \in Live BY <1>1 DEF Fits, UsesPack, Live
<1>3. g \in DOMAIN dirs /\ d \in Packs BY <1>2, PartsTyped
<1>4. PICK view \in Views : view = Adopted(pack[p], d) BY <1>1, <1>3, AdoptedIs
<1>5. pack[p].stamp # None /\ pack[p].stamp = d.stamp => IsPrefix(pack[p].index, d.entries)
  BY <1>2 DEF StampBindsIndex
<1>6. /\ view.name = g
      /\ IF Whole(d) THEN view.stamp = d.stamp /\ view.index = d.entries
         ELSE view.stamp = None /\ view.index = <<>>
  BY <1>1, <1>3, <1>4, <1>5, AdoptedIs
<1>7. pack'[p] = view BY <1>4 DEF Adopt, Typed
<1>8. /\ dirs'[g].entries = view.index /\ dirs'[g].data = d.data
      /\ dirs'[g].stamp = IF view.stamp = None THEN None ELSE d.stamp
  <2>1. dirs' = [dirs EXCEPT ![g].entries = view.index, ![g].ragged = FALSE,
                             ![g].stamp = IF view.stamp = None THEN None ELSE @]
    BY <1>4 DEF Adopt
  <2> QED BY <1>3, <2>1 DEF Typed, Packs
<1>9. Whole(d) => d.stamp # None /\ Len(d.entries) <= Len(d.data) BY DEF Whole, Readable
<1>10. Len(d.data) \in Nat /\ Len(<<>>) = 0 BY <1>3 DEF Packs
<1> HIDE DEF d
<1>11. Len(view.index) <= Len(d.data) BY <1>6, <1>9, <1>10
<1> QED BY <1>2, <1>6, <1>7, <1>8, <1>9, <1>11 DEF d

LEMMA WriterStep ==
    ASSUME Coordinated, Bounded, Bound, Next
    PROVE  OneWriter' /\ Covered'
<1> USE DEF Coordinated, Bounded, Bound
<1>1. ASSUME NEW a \in Procs, Acts(a) PROVE OneWriter' /\ Covered'
  <2>1. JobStep(a) /\ PackStep(a) BY <1>1, OwnStep DEF Own
  <2>2. ASSUME job'[a].pc \in Writing
        PROVE  /\ pack'[a].name = pack[a].name
               /\ pack'[a].index = dirs'[pack[a].name].entries
               /\ job'[a].pc \in {"restamp", "cut"} =>
                    Len(pack'[a].index) <= Len(dirs'[pack[a].name].data)
               /\ job[a].pc \in Writing \/ ~DataLocked(pack[a].name)
    <3> DEFINE g == pack[a].name
    <3>1. CASE LockData(a) /\ Adopt(a) /\ ~DataLocked(g) BY <3>1, AdoptIs
    <3>2. CASE job[a].pc \in Writing
      <4>1. g # None BY <3>2 DEF Equipped, Fits, UsesPack
      <4>2. g \in DOMAIN dirs /\ dirs[g] \in Packs /\ pack[a] \in Views BY <4>1, PartsTyped
      <4>3. pack[a].index = dirs[g].entries BY <3>2 DEF OneWriter
      <4>4. CASE Restamp(a)
        <5>1. pack'[a] = [pack[a] EXCEPT !.stamp = NewStamp(g)]
              /\ dirs'[g] = [dirs[g] EXCEPT !.stamp = NewStamp(g)]
          BY <4>2, <4>4 DEF Restamp, Typed
        <5>2. Len(pack[a].index) <= Len(dirs[g].data) BY <4>4 DEF Restamp, Covered
        <5> QED BY <3>2, <4>2, <4>3, <5>1, <5>2 DEF Views, Packs
      <4>5. CASE CutData(a) /\ pack' = pack /\ job'[a].pc = "data"
        <5>1. dirs' = [dirs EXCEPT ![g].data = SubSeq(@, 1, Len(pack[a].index))]
          BY <4>5 DEF CutData
        <5>2. dirs'[g].entries = dirs[g].entries BY <4>2, <5>1 DEF Packs, Typed
        <5> QED BY <3>2, <4>3, <4>5, <5>2
      <4>6. CASE AppendData(a) /\ job'[a].pc = "entry"
        <5>1. dirs' = [dirs EXCEPT ![g].data = Append(@, job[a].put)] /\ pack' = pack
          BY <4>6 DEF AppendData
        <5>2. dirs'[g].entries = dirs[g].entries BY <4>2, <5>1 DEF Packs, Typed
        <5> QED BY <3>2, <4>3, <4>6, <5>1, <5>2
      <4>7. ~LockData(a) BY <3>2 DEF LockData, Writing
      <4> QED BY <1>1, <2>2, <4>4, <4>5, <4>6, <4>7, Beginnings
    <3>3. job[a].pc \in Writing \/ (LockData(a) /\ Adopt(a) /\ ~DataLocked(g))
      BY <1>1, <2>2, Beginnings DEF Restamp, CutData, AppendData, Writing
    <3> QED BY <3>1, <3>2, <3>3
  <2>3. ASSUME NEW p \in Procs, p # a, job'[p].pc \in Writing
        PROVE  /\ job[p].pc \in Writing /\ job'[p] = job[p] /\ pack'[p] = pack[p]
               /\ pack[p].index = dirs'[pack[p].name].entries
               /\ job'[p].pc \in {"restamp", "cut"} =>
                    Len(pack[p].index) <= Len(dirs'[pack[p].name].data)
               /\ job'[a].pc \in Writing => pack[a].name # pack[p].name
    <3>1. job[p].pc \in Writing BY <2>1, <2>3 DEF JobStep
    <3>2. /\ job'[p] = job[p] /\ pack'[p] = pack[p]
          /\ dirs'[pack[p].name].entries = dirs[pack[p].name].entries
          /\ dirs'[pack[p].name].data = dirs[pack[p].name].data
          /\ pack[a].name = pack[p].name => job[a].pc \notin {"seed"} \cup Writing
          /\ DataLocked(pack[p].name)
      BY <1>1, <2>3, <3>1, Undisturbed
    <3>3. pack[p].index = dirs[pack[p].name].entries BY <3>1 DEF OneWriter
    <3>4. job[p].pc \in {"restamp", "cut"} => Len(pack[p].index) <= Len(dirs[pack[p].name].data)
      BY DEF Covered
    <3> QED BY <2>2, <3>1, <3>2, <3>3, <3>4
  <2>4. OneWriter'
    <3> SUFFICES ASSUME NEW p \in Procs, job'[p].pc \in Writing
                 PROVE  /\ pack'[p].index = dirs'[pack'[p].name].entries
                        /\ \A q \in Procs :
                            job'[q].pc \in Writing /\ pack'[q].name = pack'[p].name => q = p
      BY DEF OneWriter
    <3>1. pack'[p].index = dirs'[pack'[p].name].entries BY <2>2, <2>3
    <3>2. ASSUME NEW q \in Procs, job'[q].pc \in Writing, pack'[q].name = pack'[p].name
          PROVE  q = p
      <4>1. CASE p = a BY <2>2, <2>3, <3>2, <4>1
      <4>2. CASE q = a BY <2>2, <2>3, <3>2, <4>2
      <4>3. CASE p # a /\ q # a BY <2>3, <3>2, <4>3 DEF OneWriter
      <4> QED BY <4>1, <4>2, <4>3
    <3> QED BY <3>1, <3>2
  <2>5. Covered'
    <3>1. {"restamp", "cut"} \subseteq Writing BY DEF Writing
    <3> QED BY <2>2, <2>3, <3>1 DEF Covered
  <2> QED BY <2>4, <2>5
<1>2. CASE PowerLoss
  <2>1. \A p \in Procs : job'[p] = Gone BY <1>2, PowerLossIs
  <2>2. Gone.pc \notin Writing /\ Gone.pc \notin {"restamp", "cut"} BY DEF Gone, Resting, Writing
  <2> QED BY <2>1, <2>2 DEF OneWriter, Covered
<1> QED BY <1>1, <1>2, Steps

\* The stamp of a pack binds what was read of it.
Binds(p) ==
    LET g == pack[p].name IN
    (g # None /\ pack[p].stamp # None /\ pack[p].stamp = dirs[g].stamp)
        => IsPrefix(pack[p].index, dirs[g].entries)

\* A process that keeps its index keeps what binds it, whoever acts.
LEMMA BindKept ==
    ASSUME Coordinated, Bounded, Bound, NEW a \in Procs, Acts(a),
           NEW p \in Live, pack'[p] = pack[p]
    PROVE  Binds(p)'
<1> USE DEF Coordinated, Bounded, Bound
<1> DEFINE g == pack[p].name
           s == pack[p].stamp
<1>1. p \in Procs BY DEF Live
<1>2. SUFFICES ASSUME g # None, s # None, s = dirs'[g].stamp
               PROVE  IsPrefix(pack[p].index, dirs'[g].entries)
  BY DEF Binds
<1>3. DiskStep(a) BY DiskSteps
<1>4. g \in DOMAIN dirs \cap DOMAIN dirs' /\ dirs[g] \in Packs /\ pack[p] \in Views
  BY <1>1, <1>2, <1>3, PartsTyped DEF DiskStep, Disk
<1>5. p \in Users(g) BY DEF Users
<1>6. s # NewStamp(g) BY <1>5, NewStampIs
<1>7. s # Torn BY <1>2, <1>4, BlobAssumption DEF Views, Stamps
<1>8. s = dirs[g].stamp => IsPrefix(pack[p].index, dirs[g].entries)
  BY <1>2 DEF StampBindsIndex
<1>9. CASE KeepsJournal(g) BY <1>2, <1>8, <1>9 DEF KeepsJournal
<1>10. CASE pack[a].name # g /\ ~KeepsJournal(g) BY <1>3, <1>4, <1>10 DEF DiskStep, Disk
<1>11. CASE pack[a].name = g /\ ~KeepsJournal(g)
  <2>1. OwnJournal(a) BY <1>2, <1>3, <1>11 DEF DiskStep
  <2>2. CASE LockData(a) /\ Adopt(a)
    <3>1. Whole(dirs[g]) /\ dirs'[g].entries = dirs[g].entries /\ dirs'[g].stamp = dirs[g].stamp
      BY <1>2, <1>11, <2>2, AdoptIs
    <3> QED BY <1>2, <1>8, <3>1
  <2>3. CASE Restamp(a)
    <3>1. dirs'[g].stamp = NewStamp(g) BY <1>4, <1>11, <2>3 DEF Restamp, Typed, Packs
    <3> QED BY <1>2, <1>6, <3>1
  <2>4. CASE AppendEntry(a)
    <3>1. dirs' = [dirs EXCEPT ![g].entries = Append(@, job[a].put[1])]
      BY <1>11, <2>4 DEF AppendEntry
    <3>2. dirs'[g].stamp = dirs[g].stamp
          /\ dirs'[g].entries = Append(dirs[g].entries, job[a].put[1])
      BY <1>4, <3>1 DEF Typed, Packs
    <3>3. job[a].put[1] \in Keys
      BY <2>4, BlobAssumption DEF AppendEntry, Equipped, Fits, Writing
    <3>4. PICK e \in Keys, x \in Seq(Keys), y \in Seq(Keys) :
            e = job[a].put[1] /\ x = pack[p].index /\ y = dirs[g].entries
      BY <1>4, <3>3 DEF Views, Packs
    <3>5. IsPrefix(x, y) BY <1>2, <1>8, <3>2, <3>4
    <3>6. IsPrefix(x, Append(y, e)) BY <3>5, PrefixOfAppend
    <3> QED BY <3>2, <3>4, <3>6
  <2>5. CASE Seed(a)
    <3>1. dirs' = Seeded(g, job[a].batch, NewStamp(g))
      <4>1. dirs' # dirs BY <1>4, <1>11 DEF KeepsJournal
      <4> QED BY <1>11, <2>5, <4>1 DEF Seed
    <3>2. dirs'[g].stamp = NewStamp(g) BY <1>4, <3>1 DEF Seeded, Typed, Packs
    <3> QED BY <1>2, <1>6, <3>2
  <2> QED BY <1>2, <1>6, <1>7, <1>11, <2>1, <2>2, <2>3, <2>4, <2>5 DEF OwnJournal
<1> QED BY <1>9, <1>10, <1>11

\* How the pack of a process changes.
LEMMA PackChanges ==
    ASSUME Typed, NEW p \in Procs, Acts(p)
    PROVE  \/ pack'[p] = pack[p] \/ pack'[p].name = None \/ pack'[p].stamp = None
           \/ ReadHeader(p) \/ ReadEntries(p) \/ (LockData(p) /\ Adopt(p))
           \/ Restamp(p) \/ AppendEntry(p)
<1>1. Detached.name = None /\ Detached.stamp = None BY DEF Detached
<1>2. ASSUME Close(p) PROVE pack'[p].name = None BY <1>1, <1>2 DEF Close, Typed
<1>3. ASSUME Refuse(p) PROVE pack'[p] = pack[p] \/ pack'[p].name = None
  BY <1>2, <1>3 DEF Refuse
<1>4. CASE Start(p) \/ BeginGet(p) \/ BeginRefresh(p) \/ \E put \in Puts : BeginPut(p, put)
  BY <1>4 DEF Start, BeginGet, BeginRefresh, BeginPut
<1>5. CASE Exit(p) BY <1>2, <1>5 DEF Exit
<1>6. CASE LockData(p) BY <1>3, <1>6 DEF LockData
<1>7. CASE CutData(p) BY <1>3, <1>7 DEF CutData, Full
<1>8. CASE AppendData(p) \/ LockControl(p) \/ Reclaim(p) \/ Sweep(p) \/ CannotAttach(p)
  BY <1>8 DEF AppendData, LockControl, Reclaim, Sweep, CannotAttach
<1>9. CASE Attach(p)
  <2>1. pack'[p] = [Detached EXCEPT !.name = job[p].target] BY <1>9 DEF Attach, Typed
  <2> QED BY <2>1 DEF Detached
<1>10. CASE Seed(p) \/ Publish(p) BY <1>10 DEF Seed, Publish
<1>11. CASE WriteFails(p) BY <1>2, <1>3, <1>11 DEF WriteFails
<1>12. CASE Kill(p) BY <1>1, <1>12 DEF Kill, Typed
<1> QED BY <1>4, <1>5, <1>6, <1>7, <1>8, <1>9, <1>10, <1>11, <1>12 DEF Acts

LEMMA BindStep ==
    ASSUME Coordinated, Bounded, Bound, Next
    PROVE  StampBindsIndex'
<1> USE DEF Coordinated, Bounded, Bound
<1>1. ASSUME NEW a \in Procs, Acts(a), NEW p \in Live' PROVE Binds(p)'
  <2>1. JobStep(a) /\ PackStep(a) /\ p \in Procs BY <1>1, OwnStep DEF Own, Live
  <2>2. CASE p \notin Live
    <3>1. pack[p] = Detached BY <2>1, <2>2 DEF Live, Equipped, Fits
    <3>2. p = a BY <1>1, <2>1, <2>2 DEF JobStep, Live
    <3>3. pack'[p].name = None
      <4>1. ~Attaches(a)
        BY <2>2, <3>2 DEF Attaches, Attach, Live
      <4> QED BY <1>1, <3>1, <3>2, <4>1, ViewStep DEF Detached
    <3> QED BY <3>3 DEF Binds
  <2>3. CASE p \in Live /\ pack'[p] = pack[p] BY <1>1, <2>3, BindKept
  <2>4. CASE p \in Live /\ pack'[p] # pack[p]
    <3> DEFINE g == pack[a].name
    <3>1. p = a BY <2>1, <2>4 DEF PackStep
    <3>2. Binds(a) BY <2>4, <3>1 DEF StampBindsIndex, Binds
    <3>3. CASE pack'[a].name = None \/ pack'[a].stamp = None BY <3>1, <3>3 DEF Binds
    <3>4. pack[a] \in Views /\ Fits(job[a], pack[a]) BY PartsTyped DEF Equipped
    <3>5. job[a].pc \in UsesPack => g # None /\ g \in DOMAIN dirs /\ dirs[g] \in Packs
      BY <3>4, PartsTyped DEF Fits
    <3>6. CASE ReadHeader(a)
      <4>1. g # None /\ dirs[g] \in Packs BY <3>5, <3>6 DEF ReadHeader, UsesPack
      <4>2. PICK base \in Views : base = Rebased(pack[a], dirs[g]) BY <3>4, <4>1, RebasedIs
      <4>3. pack'[a] = [base EXCEPT !.scanned = TRUE] /\ dirs' = dirs
        BY <3>6, <4>2 DEF ReadHeader, Typed
      <4>4. base.name = g /\ IsPrefix(base.index, dirs[g].entries)
        BY <3>2, <3>4, <4>1, <4>2, RebasedIs DEF Binds
      <4>5. pack'[a].name = g /\ pack'[a].index = base.index BY <4>3, <4>4 DEF Views
      <4> QED BY <3>1, <4>3, <4>4, <4>5 DEF Binds
    <3>7. CASE ReadEntries(a)
      <4> DEFINE d == dirs[g]
      <4>1. g # None /\ d \in Packs BY <3>5, <3>7 DEF ReadEntries, UsesPack
      <4>2. job[a].upto \in Nat /\ Len(d.entries) \in Nat BY <4>1, PartsTyped DEF Jobs, Packs
      <4>3. PICK upto \in Nat : upto = Min({job[a].upto, Len(d.entries)}) /\ upto <= Len(d.entries)
        BY <4>2, MinOfTwo
      <4>4. PICK view \in Views : view = Extended(pack[a], d, upto) BY <3>4, <4>1, <4>3, ExtendedIs
      <4>5. pack'[a] = view /\ dirs' = dirs BY <3>7, <4>3, <4>4 DEF ReadEntries, Typed
      <4>6. /\ view.name = g /\ view.stamp = pack[a].stamp
            /\ IsPrefix(pack[a].index, d.entries) => IsPrefix(view.index, d.entries)
        BY <3>4, <4>1, <4>3, <4>4, ExtendedIs
      <4> QED BY <3>1, <3>2, <4>5, <4>6 DEF Binds
    <3>8. CASE (LockData(a) /\ Adopt(a)) \/ Restamp(a) \/ AppendEntry(a)
      <4>1. g # None /\ g \in DOMAIN dirs BY <3>5, <3>8 DEF LockData, Restamp, AppendEntry, UsesPack, Writing
      <4>2. pack'[a].name = g /\ pack'[a].index = dirs'[g].entries
        <5>1. CASE LockData(a) /\ Adopt(a) BY <5>1, AdoptIs
        <5>2. CASE Restamp(a)
          <6>1. pack[a].index = dirs[g].entries BY <5>2 DEF OneWriter, Restamp, Writing
          <6>2. pack'[a] = [pack[a] EXCEPT !.stamp = NewStamp(g)]
                /\ dirs'[g] = [dirs[g] EXCEPT !.stamp = NewStamp(g)]
            BY <4>1, <5>2 DEF Restamp, Typed
          <6> QED BY <3>4, <4>1, <6>1, <6>2, PartsTyped DEF Views, Packs
        <5>3. CASE AppendEntry(a)
          <6>1. pack[a].index = dirs[g].entries BY <5>3 DEF OneWriter, AppendEntry, Writing
          <6>2. pack'[a] = [pack[a] EXCEPT !.index = Append(@, job[a].put[1])]
                /\ dirs'[g] = [dirs[g] EXCEPT !.entries = Append(@, job[a].put[1])]
            BY <4>1, <5>3 DEF AppendEntry, Typed
          <6> QED BY <3>4, <4>1, <6>1, <6>2, PartsTyped DEF Views, Packs
        <5> QED BY <3>8, <5>1, <5>2, <5>3
      <4>3. Typed' BY <1>1, Steps, TypedStep DEF Next, Acts
      <4>4. pack'[a].index \in Seq(Keys) BY <4>3 DEF Typed, Views
      <4>5. PICK x \in Seq(Keys) : x = pack'[a].index BY <4>4
      <4>6. IsPrefix(x, x) BY PrefixOfItself
      <4> QED BY <3>1, <4>2, <4>5, <4>6 DEF Binds
    <3> QED BY <1>1, <2>4, <3>1, <3>3, <3>6, <3>7, <3>8, PackChanges
  <2> QED BY <2>2, <2>3, <2>4
<1>2. CASE PowerLoss
  <2>1. \A p \in Procs : job'[p] = Gone BY <1>2, PowerLossIs
  <2>2. Gone.pc = "dead" BY DEF Gone, Resting
  <2> QED BY <2>1, <2>2 DEF StampBindsIndex, Live
<1>3. \A p \in Live' : Binds(p)' BY <1>1, <1>2, Steps DEF StampBindsIndex, Binds
<1> QED BY <1>3 DEF StampBindsIndex, Binds

----------------------------------------------------------------------------
(* The theorems.                                                             *)

LEMMA InvInit == Init => Inv
<1> SUFFICES ASSUME Init PROVE Inv OBVIOUS
<1>1. /\ DOMAIN dirs \subseteq Names /\ dirs \in [DOMAIN dirs -> Packs]
      /\ IsFiniteSet(DOMAIN dirs) /\ Cardinality(DOMAIN dirs) <= MaxLive + 1
  BY EarlierAssumption DEF Init
<1>2. \A p \in Procs : job[p] = Gone /\ pack[p] = Detached BY DEF Init
<1>3. Gone.pc = "dead" /\ ~Gone.control /\ Gone.stage = "plain" BY DEF Gone, Resting
<1>4. Detached.name = None BY DEF Detached
<1>5. Typed BY <1>1, <1>4, Ends DEF Init, Typed
<1>6. Live = {} BY <1>2, <1>3 DEF Live
<1>7. Equipped BY <1>2, Ends DEF Equipped
<1>8. OneCoordinator /\ Pointed BY <1>2, <1>3 DEF OneCoordinator, Pointed
<1>9. FewLive BY <1>6, FS_EmptySet, BlobAssumption DEF FewLive
<1>10. FewGenerations BY <1>1 DEF FewGenerations, GenerationsBounded
<1>11. Alone /\ OneWriter /\ Covered BY <1>2, <1>3 DEF Alone, OneWriter, Covered, Writing
<1>12. StampBindsIndex BY <1>6 DEF StampBindsIndex
<1> QED
  BY <1>5, <1>7, <1>8, <1>9, <1>10, <1>11, <1>12 DEF Inv, Coordinated, Bounded, Bound

LEMMA InvStep == Inv /\ [Next]_vars => Inv'
<1> SUFFICES ASSUME Inv, [Next]_vars PROVE Inv' OBVIOUS
<1>1. CASE Next
  <2>1. Coordinated /\ Bounded /\ Bound BY DEF Inv
  <2>2. /\ Typed /\ Equipped /\ OneCoordinator /\ Pointed /\ FewLive /\ FewGenerations
        /\ Alone /\ OneWriter /\ Covered /\ StampBindsIndex
    BY <2>1 DEF Coordinated, Bounded, Bound
  <2>3. Typed' /\ Equipped' BY <1>1, <2>2, TypedStep
  <2>4. OneCoordinator' BY <1>1, <2>2, CoordinatorStep
  <2>5. Pointed' BY <1>1, <2>2, PointedStep
  <2>6. FewLive' BY <1>1, <2>2, LiveStep
  <2>7. FewGenerations' BY <1>1, <2>2, FewGenerationsStep
  <2>8. Alone' BY <1>1, <2>1, AloneStep
  <2>9. OneWriter' /\ Covered' BY <1>1, <2>1, WriterStep
  <2>10. StampBindsIndex' BY <1>1, <2>1, BindStep
  <2> QED
    BY <2>3, <2>4, <2>5, <2>6, <2>7, <2>8, <2>9, <2>10 DEF Inv, Coordinated, Bounded, Bound
<1>2. CASE UNCHANGED vars
  BY <1>2 DEF vars, Inv, Coordinated, Bounded, Bound, Typed, Equipped, OneCoordinator, Pointed,
     FewLive, Live, FewGenerations, GenerationsBounded, Alone, OneWriter, Covered,
     StampBindsIndex
<1> QED BY <1>1, <1>2

(* The store stays as it should be: what each process holds at each point,   *)
(* one coordinator and one writer of a generation, room for what it is about *)
(* to allocate, and indexes that their stamps bind.                          *)
THEOREM StoreInvariant == Spec => []Inv
<1>1. Init => Inv BY InvInit
<1>2. Inv /\ [Next]_vars => Inv' BY InvStep
<1> QED BY <1>1, <1>2, PTL DEF Spec

(* A lookup answers a value that was put under that very key, or nothing:    *)
(* IndexedBlobPack.get compares key, length and checksum of the record.      *)
THEOREM AnswersAreTrue == Spec => []AnswersTrue
<1>1. Inv => AnswersTrue
  <2> SUFFICES ASSUME Inv, NEW p \in Live, NEW k \in Keys, Lookup(pack[p], k) # None
               PROVE  <<k, Lookup(pack[p], k)>> \in Puts
    BY DEF AnswersTrue
  <2>1. Typed /\ p \in Procs BY DEF Inv, Coordinated, Live
  <2> QED BY <2>1, TrueAnswer
<1> QED BY <1>1, StoreInvariant, PTL

(* A process whose stamp is the journal's has read a beginning of that very  *)
(* journal, whatever was repaired, seeded or torn since.                     *)
THEOREM StampsBind == Spec => []StampBindsIndex
<1>1. Inv => StampBindsIndex BY DEF Inv, Bound
<1> QED BY <1>1, StoreInvariant, PTL

(* At most one generation per running process and one more, for any number   *)
(* of processes, crashes and failed removals.                                *)
THEOREM GenerationsStayFew == Spec => []GenerationsBounded
<1>1. Inv => GenerationsBounded BY DEF Inv, Bounded, FewGenerations
<1> QED BY <1>1, StoreInvariant, PTL

\* One step, whoever takes it.
LEMMA PublishedStep ==
    ASSUME Inv, Inv', [Next]_vars, NEW g \in DOMAIN dirs, Whole(dirs[g]),
           NEW p \in Users(g), pack'[p].name = g
    PROVE  g \in DOMAIN dirs' /\ IsPrefix(dirs[g].entries, dirs'[g].entries)
<1> USE DEF Inv, Coordinated, Bounded, Bound
<1>1. dirs[g] \in Packs /\ dirs[g].entries \in Seq(Keys) /\ g # None
  <2>1. dirs[g] \in Packs /\ g # None BY BlobAssumption DEF Typed
  <2> QED BY <2>1 DEF Packs
<1>2. p \in Procs /\ p \in Live /\ pack[p].name = g BY DEF Users, Live
<1>3. PICK old \in Seq(Keys) : old = dirs[g].entries BY <1>1
<1>4. IsPrefix(old, old) /\ IsPrefix(<<>>, old) BY PrefixOfItself
<1>5. ASSUME g \in DOMAIN dirs', dirs'[g].entries = dirs[g].entries
      PROVE  g \in DOMAIN dirs' /\ IsPrefix(dirs[g].entries, dirs'[g].entries)
  BY <1>3, <1>4, <1>5
<1>6. CASE UNCHANGED vars BY <1>5, <1>6 DEF vars
<1>7. CASE PowerLoss BY <1>1, <1>2, <1>7, PowerLossIs DEF Detached
<1>8. ASSUME NEW a \in Procs, Acts(a)
      PROVE  g \in DOMAIN dirs' /\ IsPrefix(dirs[g].entries, dirs'[g].entries)
  <2>1. DiskStep(a) BY <1>8, DiskSteps
  <2>2. g \in DOMAIN dirs' BY <1>1, <1>2, <2>1 DEF DiskStep, Disk
  <2>3. dirs'[g].entries \in Seq(Keys) BY <2>2 DEF Typed, Packs
  <2>4. CASE KeepsJournal(g) BY <1>5, <2>4 DEF KeepsJournal
  <2>5. CASE ~KeepsJournal(g)
    <3>1. pack[a].name = g BY <2>1, <2>2, <2>5 DEF DiskStep, Disk
    <3>2. OwnJournal(a) BY <1>1, <2>1, <3>1 DEF DiskStep
    <3>3. CASE LockData(a) /\ Adopt(a) BY <1>5, <2>2, <3>1, <3>3, AdoptIs
    <3>4. CASE Restamp(a)
      <4>1. dirs'[g].entries = dirs[g].entries BY <1>1, <3>1, <3>4 DEF Restamp, Typed, Packs
      <4> QED BY <1>5, <2>2, <4>1
    <3>5. CASE AppendEntry(a)
      <4>1. dirs' = [dirs EXCEPT ![g].entries = Append(@, job[a].put[1])]
        BY <3>1, <3>5 DEF AppendEntry
      <4>2. dirs'[g].entries = Append(old, job[a].put[1]) BY <1>1, <1>3, <4>1 DEF Typed, Packs
      <4>3. job[a].put[1] \in Keys
        BY <3>5, BlobAssumption DEF AppendEntry, Equipped, Fits, Writing
      <4>4. PICK e \in Keys : e = job[a].put[1] BY <4>3
      <4>5. IsPrefix(old, Append(old, e)) BY <1>4, PrefixOfAppend
      <4> QED BY <1>3, <2>2, <4>2, <4>4, <4>5
    <3>6. CASE Seed(a)
      <4>1. dirs[g].entries = <<>> BY <3>1, <3>6 DEF Seed, Alone
      <4>2. PICK new \in Seq(Keys) : new = dirs'[g].entries BY <2>3
      <4>3. IsPrefix(<<>>, new) BY PrefixOfItself
      <4> QED BY <2>2, <4>1, <4>2, <4>3
    <3>7. CASE dirs'[g].entries = dirs[g].entries BY <1>5, <2>2, <3>7
    <3> QED BY <2>5, <3>1, <3>2, <3>3, <3>4, <3>5, <3>6, <3>7 DEF OwnJournal
  <2> QED BY <2>4, <2>5
<1> QED BY <1>6, <1>7, <1>8, Steps

(* The published entries of a generation in use are neither cut nor replaced *)
(* nor removed with it: leases, the writer lock and the adoption of the tail *)
(* see to it.                                                                *)
THEOREM PublishedStays == Spec => PublishedKept
<1>1. Inv /\ Inv' /\ [Next]_vars =>
        [\A g \in DOMAIN dirs :
            (Whole(dirs[g]) /\ \E p \in Users(g) : pack'[p].name = g)
                => g \in DOMAIN dirs' /\ IsPrefix(dirs[g].entries, dirs'[g].entries)]_vars
  BY PublishedStep
<1> QED BY <1>1, StoreInvariant, PTL DEF Spec, PublishedKept
==============================================================================
