----------------------- MODULE WorkspaceSchedulerProofs -----------------------
(* The schedule of a workspace build, for any workspace, number of workers   *)
(* and failures: theorems about WorkspaceScheduler.  The second half is the  *)
(* longest proof: a parallel build stages what running the applications one  *)
(* after the other stages, and every action observes what it would then      *)
(* observe.                                                                  *)
EXTENDS WorkspaceScheduler, FiniteSetTheorems, WellFoundedInduction, TLAPS

----------------------------------------------------------------------------
(* The types, which are the same whatever the workspace is.                  *)

Pairs == Nat \X Nat
Baselines == [id : Nat, over : SUBSET Pairs, gone : SUBSET Pairs]
Views == [over : SUBSET Pairs, gone : SUBSET Pairs]
Flag == BOOLEAN
Applications ==
    [specs : Seq(Nat), next : Nat, inFlight : Nat, completed : Nat, owner : 0..Workers,
     baseline : Baselines, timed : Flag, prepared : Flag]
Leases == [app : Nat \ {0}, lo : Nat, hi : Nat, specs : Seq(Nat), baseline : Baselines]
Status == {"ok", "builder", "lost"}
Completions == [worker : Worker, lease : Leases, status : Status, view : Views]
Transactions(seen) ==
    [previous : SUBSET Pairs, written : SUBSET Pairs, deleted : SUBSET Pairs,
     missing : SUBSET Pairs, seen : {seen}]

Stepping ==
    /\ builders \in Configurations
    /\ pc \in {"phase", "prepare", "lease", "receive", "closing", "returned"}
    /\ phase \subseteq started /\ started \subseteq App /\ newly \subseteq phase
    /\ waiting \in [App -> Nat]
    /\ apps \in [App -> Applications]
    /\ baseline \in Baselines /\ made \in Nat /\ cursor \in 1..(Workers + 1)
    /\ running \in [Worker -> Leases \cup {NoLease}]
    /\ outcome \in {"ok", "error"}

Working ==
    /\ lane \in [Worker -> Leases \cup {NoLease}]
    /\ completions \in Seq(Completions)
    /\ DOMAIN resident = Worker /\ \A w \in Worker : resident[w].held \subseteq Pairs
    /\ exited \subseteq Worker
    /\ failures \in 0..MaxFailures

Staged ==
    /\ transaction \in Transactions(transaction.seen)
    /\ transaction.seen \in [DOMAIN transaction.seen -> Views]
    /\ DOMAIN transaction.seen \subseteq Pairs
    /\ transaction.written \cap transaction.deleted = {}

Typed == Stepping /\ Working /\ Staged

----------------------------------------------------------------------------
(* The invariant: phases are taken whole and in order, ...                   *)

Whole ==
    /\ \A a, b \in phase : SamePhase(a, b)
    /\ \A a \in phase, b \in App : SamePhase(a, b) => b \in phase
    /\ \A a \in started, b \in App \ started : Before(a, b) /\ ~SamePhase(a, b)

\* ... an application of the phase waits for exactly those it depends on that
\* are not finished, ...
Counted ==
    /\ \A a \in App : waiting[a] > 0 => a \in phase
    /\ \A a \in newly : waiting[a] = 0
    /\ \A a \in App : apps[a].prepared => a \in phase \ newly /\ waiting[a] = 0
    /\ \A a \in phase : waiting[a] = Cardinality(Dependencies(a) \cap Unfinished)
    /\ \A a \in App : a \notin started \/ waiting[a] > 0 \/ a \in newly => apps[a] = Idle
    /\ pc = "phase" => Unfinished = {}
    /\ pc \in {"lease", "receive"} => newly = {} /\ Unfinished # {}

\* ... leases are of what is prepared, none of them overlap and they add up, ...
Held(a) == {w \in Worker : running[w] # NoLease /\ running[w].app = a}
Flight(a) == UNION {running[w].lo..running[w].hi : w \in Held(a)}

LeaseFits(w) ==
    LET l == running[w]  a == l.app IN
    /\ a \in App /\ apps[a].prepared /\ l.specs = apps[a].specs
    /\ 1 <= l.lo /\ l.lo <= l.hi /\ l.hi < apps[a].next

Sound ==
    /\ \A w \in Worker : running[w] # NoLease => LeaseFits(w)
    /\ InputsLeasedOnce
    /\ \A a \in App : apps[a].prepared => /\ 1 <= apps[a].next
                                          /\ apps[a].next <= Len(apps[a].specs) + 1
                                          /\ apps[a].completed < Len(apps[a].specs)

\* ... the channels carry what the controller believes, ...
Active == pc \notin {"closing", "returned"}
Channelled ==
    /\ ~Active => completions = <<>>
    /\ \A w \in Worker : lane[w] \in {NoLease, running[w]}
    /\ \A i \in DOMAIN completions :
          /\ lane[completions[i].worker] = NoLease
          /\ running[completions[i].worker] = completions[i].lease
    /\ \A i, j \in DOMAIN completions : completions[i].worker = completions[j].worker => i = j

\* ... a thread that ended is known to have, or about to be, ...
Ended ==
    /\ \A w \in exited : lane[w] = NoLease
    /\ Active => \A w \in exited : \E i \in DOMAIN completions :
                    completions[i].worker = w /\ completions[i].status # "ok"
    /\ pc = "returned" => exited = Worker

\* ... a failure is on its way or known, ...
Reported ==
    /\ outcome = "ok" /\ failures > 0 =>
          \E i \in DOMAIN completions : completions[i].status # "ok"
    /\ \A i \in DOMAIN completions : completions[i].status # "ok" => failures > 0
    /\ outcome = "error" => failures > 0 /\ ~Active
    /\ outcome = "ok" /\ ~Active => \A w \in Worker : lane[w] = NoLease

\* ... workers that were passed over had nothing to do, ...
Offered ==
    /\ pc = "lease" => \A w \in 1..(cursor - 1) : running[w] # NoLease \/ Candidates(w) = {}
    /\ NeverStalled

\* ... and what is finished is recorded.
Recorded(b) == Actions(b) \subseteq DOMAIN transaction.seen \cup transaction.missing
Progressed ==
    /\ \A b \in started \ Unfinished : Recorded(b)
    /\ \A a \in App : apps[a].prepared =>
         /\ \A k \in 1..Len(apps[a].specs) : apps[a].specs[k] \in DOMAIN builders[a].inputs
         /\ \A i \in DOMAIN builders[a].inputs :
               \/ <<a, i>> \in transaction.missing
               \/ \E k \in 1..Len(apps[a].specs) : apps[a].specs[k] = i
         /\ \A k \in 1..(apps[a].next - 1) :
               k \in Flight(a) \/ <<a, apps[a].specs[k]>> \in DOMAIN transaction.seen

Inv == /\ Typed /\ Whole /\ Counted /\ Sound /\ Channelled /\ Ended /\ Reported /\ Offered
       /\ Progressed

----------------------------------------------------------------------------
(* Least elements.                                                           *)

\* A set of numbers has a least one.
LEMMA Least ==
    ASSUME NEW T \in SUBSET Nat, T # {}
    PROVE  \E x \in T : \A y \in T : x <= y
<1> DEFINE R == OpToRel(<, Nat)
<1>1. \A x, y \in Nat : y < x => <<y, x>> \in R BY DEF OpToRel
<1>2. IsWellFoundedOn(R, Nat) BY NatLessThanWellFounded
<1> HIDE DEF R
<1>3. PICK x \in T : \A y \in T : <<y, x>> \notin R BY <1>2, WFMin
<1>4. ASSUME NEW y \in T PROVE x <= y
      <2>1. x \in Nat /\ y \in Nat OBVIOUS
      <2>2. ~(y < x) BY <1>1, <1>3, <2>1
      <2> QED BY <2>1, <2>2
<1> QED BY <1>4

\* So has a set whose elements are numbered.
LEMMA LeastBy ==
    ASSUME NEW S, S # {}, NEW f, \A x \in S : f[x] \in Nat
    PROVE  \E x \in S : \A y \in S : f[x] <= f[y]
<1>1. {f[x] : x \in S} \in SUBSET Nat /\ {f[x] : x \in S} # {} OBVIOUS
<1>2. PICK n \in {f[x] : x \in S} : \A m \in {f[x] : x \in S} : n <= m BY <1>1, Least
<1>3. PICK x \in S : n = f[x] BY <1>2
<1> QED BY <1>2, <1>3

\* Or that is ordered by five numbers, one after the other.
LEMMA LeastByFive ==
    ASSUME NEW S, S # {}, NEW r,
           \A x \in S : /\ r[x][1] \in Nat /\ r[x][2] \in Nat /\ r[x][3] \in Nat
                        /\ r[x][4] \in Nat /\ r[x][5] \in Nat
    PROVE  \E x \in S : \A y \in S :
              \/ r[x][1] < r[y][1]
              \/ r[x][1] = r[y][1] /\ r[x][2] < r[y][2]
              \/ r[x][1] = r[y][1] /\ r[x][2] = r[y][2] /\ r[x][3] < r[y][3]
              \/ /\ r[x][1] = r[y][1] /\ r[x][2] = r[y][2] /\ r[x][3] = r[y][3]
                 /\ r[x][4] < r[y][4]
              \/ /\ r[x][1] = r[y][1] /\ r[x][2] = r[y][2] /\ r[x][3] = r[y][3]
                 /\ r[x][4] = r[y][4] /\ r[x][5] <= r[y][5]
<1>p. PICK f : f = [x \in S |-> r[x][1]] OBVIOUS
<1>q. PICK g : g = [x \in S |-> r[x][2]] OBVIOUS
<1>r. PICK h : h = [x \in S |-> r[x][3]] OBVIOUS
<1>s. PICK i : i = [x \in S |-> r[x][4]] OBVIOUS
<1>t. PICK j : j = [x \in S |-> r[x][5]] OBVIOUS
<1>f. \A x \in S : /\ f[x] = r[x][1] /\ g[x] = r[x][2] /\ h[x] = r[x][3]
                   /\ i[x] = r[x][4] /\ j[x] = r[x][5]
      BY <1>p, <1>q, <1>r, <1>s, <1>t
<1>0. \A x \in S : f[x] \in Nat /\ g[x] \in Nat /\ h[x] \in Nat /\ i[x] \in Nat /\ j[x] \in Nat
      BY <1>f
<1>1. PICK a \in S : \A y \in S : f[a] <= f[y] BY <1>0, LeastBy
<1> DEFINE A == {x \in S : f[x] = f[a]}
<1>2. PICK b \in A : \A y \in A : g[b] <= g[y]
      <2>1. A # {} /\ \A x \in A : g[x] \in Nat BY <1>0
      <2> HIDE DEF A
      <2> QED BY <2>1, LeastBy
<1> DEFINE B == {x \in A : g[x] = g[b]}
<1>3. PICK c \in B : \A y \in B : h[c] <= h[y]
      <2>1. B # {} /\ \A x \in B : h[x] \in Nat BY <1>0
      <2> HIDE DEF B
      <2> QED BY <2>1, LeastBy
<1> DEFINE C == {x \in B : h[x] = h[c]}
<1>4. PICK d \in C : \A y \in C : i[d] <= i[y]
      <2>1. C # {} /\ \A x \in C : i[x] \in Nat BY <1>0
      <2> HIDE DEF C
      <2> QED BY <2>1, LeastBy
<1> DEFINE D == {x \in C : i[x] = i[d]}
<1>5. PICK e \in D : \A y \in D : j[e] <= j[y]
      <2>1. D # {} /\ \A x \in D : j[x] \in Nat BY <1>0
      <2> HIDE DEF D
      <2> QED BY <2>1, LeastBy
<1>6. e \in S /\ f[e] = f[a] /\ g[e] = g[b] /\ h[e] = h[c] /\ i[e] = i[d] OBVIOUS
<1>7. ASSUME NEW y \in S
      PROVE  \/ f[e] < f[y]
             \/ f[e] = f[y] /\ g[e] < g[y]
             \/ f[e] = f[y] /\ g[e] = g[y] /\ h[e] < h[y]
             \/ f[e] = f[y] /\ g[e] = g[y] /\ h[e] = h[y] /\ i[e] < i[y]
             \/ f[e] = f[y] /\ g[e] = g[y] /\ h[e] = h[y] /\ i[e] = i[y] /\ j[e] <= j[y]
      <2>1. f[e] <= f[y] BY <1>1, <1>6
      <2>2. f[e] = f[y] => g[e] <= g[y] BY <1>2, <1>6
      <2>3. f[e] = f[y] /\ g[e] = g[y] => h[e] <= h[y] BY <1>3, <1>6
      <2>4. f[e] = f[y] /\ g[e] = g[y] /\ h[e] = h[y] => i[e] <= i[y] BY <1>4, <1>6
      <2>5. f[e] = f[y] /\ g[e] = g[y] /\ h[e] = h[y] /\ i[e] = i[y] => j[e] <= j[y]
            BY <1>5, <1>6
      <2> QED BY <1>0, <1>6, <2>1, <2>2, <2>3, <2>4, <2>5
<1>8. \A y \in S : \/ r[e][1] < r[y][1]
                   \/ r[e][1] = r[y][1] /\ r[e][2] < r[y][2]
                   \/ r[e][1] = r[y][1] /\ r[e][2] = r[y][2] /\ r[e][3] < r[y][3]
                   \/ /\ r[e][1] = r[y][1] /\ r[e][2] = r[y][2] /\ r[e][3] = r[y][3]
                      /\ r[e][4] < r[y][4]
                   \/ /\ r[e][1] = r[y][1] /\ r[e][2] = r[y][2] /\ r[e][3] = r[y][3]
                      /\ r[e][4] = r[y][4] /\ r[e][5] <= r[y][5]
      <2> SUFFICES ASSUME NEW y \in S
                   PROVE  \/ r[e][1] < r[y][1]
                          \/ r[e][1] = r[y][1] /\ r[e][2] < r[y][2]
                          \/ r[e][1] = r[y][1] /\ r[e][2] = r[y][2] /\ r[e][3] < r[y][3]
                          \/ /\ r[e][1] = r[y][1] /\ r[e][2] = r[y][2] /\ r[e][3] = r[y][3]
                             /\ r[e][4] < r[y][4]
                          \/ /\ r[e][1] = r[y][1] /\ r[e][2] = r[y][2] /\ r[e][3] = r[y][3]
                             /\ r[e][4] = r[y][4] /\ r[e][5] <= r[y][5]
          OBVIOUS
      <2>1. /\ f[e] = r[e][1] /\ g[e] = r[e][2] /\ h[e] = r[e][3] /\ i[e] = r[e][4]
            /\ j[e] = r[e][5] BY <1>f, <1>6
      <2>2. /\ f[y] = r[y][1] /\ g[y] = r[y][2] /\ h[y] = r[y][3] /\ i[y] = r[y][4]
            /\ j[y] = r[y][5] BY <1>f
      <2> QED BY <1>7, <2>1, <2>2
<1> QED BY <1>6, <1>8

\* Finitely many numbers have a bound.
LEMMA Bounded ==
    ASSUME NEW n \in Nat, NEW f, \A x \in 1..n : f[x] \in Nat
    PROVE  \E b \in Nat : \A x \in 1..n : f[x] <= b
<1> DEFINE Unbounded == {m \in 0..n : \A b \in Nat : \E x \in 1..m : ~(f[x] <= b)}
<1>1. SUFFICES ASSUME Unbounded # {} PROVE FALSE
      <2>1. n \notin Unbounded BY <1>1
      <2> QED BY <2>1
<1>2. Unbounded \in SUBSET Nat OBVIOUS
<1>3. PICK m \in Unbounded : \A k \in Unbounded : m <= k
      <2> HIDE DEF Unbounded
      <2> QED BY <1>1, <1>2, Least
<1>4. m \in 0..n /\ \A b \in Nat : \E x \in 1..m : ~(f[x] <= b) BY <1>3
<1>5. m # 0 BY <1>4
<1>6. m - 1 \in 0..n /\ m - 1 \notin Unbounded
      <2>1. m - 1 \in 0..n /\ ~(m <= m - 1) BY <1>4, <1>5
      <2> HIDE DEF Unbounded
      <2> QED BY <1>3, <2>1
<1>7. PICK b \in Nat : \A x \in 1..(m - 1) : f[x] <= b BY <1>6
<1>8. f[m] \in Nat BY <1>4, <1>5
<1>9. PICK c \in Nat : b <= c /\ f[m] <= c
      <2>1. CASE b <= f[m] BY <1>8, <2>1
      <2>2. CASE f[m] <= b BY <2>2
      <2> QED BY <1>8, <2>1, <2>2
<1>10. ASSUME NEW x \in 1..m PROVE f[x] <= c
      <2>1. CASE x = m BY <1>9, <2>1
      <2>2. CASE x # m
            <3>1. x \in 1..(m - 1) /\ f[x] \in Nat BY <1>4, <2>2
            <3> QED BY <1>7, <1>9, <3>1
      <2> QED BY <2>1, <2>2
<1> QED BY <1>4, <1>10

\* The inputs that are left are put in an order that has each of them.
LEMMA InOrderHasAll ==
    ASSUME NEW xs \in SUBSET Nat, IsFiniteSet(xs)
    PROVE  /\ InOrder(xs) \in Seq(xs) /\ InOrder(xs) \in Seq(Nat)
           /\ Len(InOrder(xs)) = Cardinality(xs)
           /\ \A x \in xs : \E k \in 1..Cardinality(xs) : InOrder(xs)[k] = x
<1> DEFINE n == Cardinality(xs)
           below(x) == {y \in xs : y < x}
           place == [x \in xs |-> Cardinality(below(x)) + 1]
<1>1. n \in Nat BY FS_CardinalityType
<1>2. ASSUME NEW x \in xs
      PROVE  IsFiniteSet(below(x)) /\ Cardinality(below(x)) \in Nat /\ Cardinality(below(x)) < n
      <2>1. below(x) \in SUBSET xs /\ x \notin below(x) OBVIOUS
      <2>2. IsFiniteSet(below(x)) /\ Cardinality(below(x)) <= n /\ below(x) # xs
            BY <2>1, FS_Subset
      <2>3. Cardinality(below(x)) # n BY <2>1, <2>2, FS_Subset
      <2> QED BY <1>1, <2>2, <2>3, FS_CardinalityType
<1>3. ASSUME NEW x \in xs, NEW z \in xs, x < z
      PROVE  Cardinality(below(x)) < Cardinality(below(z))
      <2>1. below(x) \in SUBSET below(z) /\ x \in below(z) /\ x \notin below(x)
            <3>1. x \in Nat /\ z \in Nat /\ \A y \in xs : y \in Nat OBVIOUS
            <3>2. x \in below(z) /\ x \notin below(x) BY <1>3, <3>1
            <3>3. \A y \in xs : y < x => y < z BY <1>3, <3>1
            <3> QED BY <3>2, <3>3
      <2>2. IsFiniteSet(below(z)) BY <1>2
      <2>3. Cardinality(below(x)) <= Cardinality(below(z)) BY <2>1, <2>2, FS_Subset
      <2>4. Cardinality(below(x)) # Cardinality(below(z)) BY <2>1, <2>2, FS_Subset
      <2> QED BY <1>2, <2>3, <2>4
<1>4. place \in [xs -> 1..n] BY <1>1, <1>2
<1>5. \A x, z \in xs : place[x] = place[z] => x = z
      <2> SUFFICES ASSUME NEW x \in xs, NEW z \in xs, place[x] = place[z] PROVE x = z
          OBVIOUS
      <2>1. Cardinality(below(x)) = Cardinality(below(z)) BY <1>2
      <2>2. ~(x < z) /\ ~(z < x) BY <1>2, <1>3, <2>1
      <2> QED BY <2>2
<1>6. place \in Injection(xs, 1..n) BY <1>4, <1>5 DEF Injection, IsInjective
<1>7. IsFiniteSet(1..n) /\ Cardinality(1..n) = n BY <1>1, FS_Interval
<1>8. place \in Surjection(xs, 1..n)
      <2> HIDE DEF place, n
      <2> QED BY <1>6, <1>7, FS_Injection DEF n
<1>9. ASSUME NEW k \in 1..n PROVE \E x \in xs : Cardinality(below(x)) = k - 1
      <2>1. PICK x \in xs : place[x] = k BY <1>8 DEF Surjection
      <2> QED BY <1>2, <2>1
<1>10. \A k \in 1..n : InOrder(xs)[k] \in xs /\ Cardinality(below(InOrder(xs)[k])) = k - 1
      BY <1>9 DEF InOrder
<1>11. InOrder(xs) \in Seq(xs) /\ InOrder(xs) \in Seq(Nat) /\ Len(InOrder(xs)) = n
      <2>1. InOrder(xs) \in [1..n -> xs] BY <1>10 DEF InOrder
      <2>2. \A k \in 1..n : InOrder(xs)[k] \in Nat BY <1>10
      <2>3. InOrder(xs) \in [1..n -> Nat] BY <2>1, <2>2
      <2> QED BY <1>1, <2>1, <2>3
<1>12. ASSUME NEW x \in xs PROVE \E k \in 1..n : InOrder(xs)[k] = x
      <2>1. place[x] \in 1..n BY <1>4
      <2>2. InOrder(xs)[place[x]] \in xs
            /\ place[InOrder(xs)[place[x]]] = place[x]
            BY <1>1, <1>2, <1>10, <2>1
      <2>3. InOrder(xs)[place[x]] = x BY <1>5, <2>2
      <2> QED BY <2>1, <2>3
<1> QED BY <1>11, <1>12

----------------------------------------------------------------------------
(* The order of execution.                                                   *)

Rank(a) == IF builders[a].post THEN 1 ELSE 0

\* What a configuration is made of.
LEMMA Shapes ==
    ASSUME builders \in Configurations
    PROVE  /\ Len(builders) \in Nat /\ App = 1..Len(builders) /\ IsFiniteSet(App)
           /\ \A a \in App :
                /\ a \in Nat \ {0} /\ builders[a].post \in BOOLEAN /\ Rank(a) \in 0..1
                /\ builders[a].phase \in Nat /\ builders[a].order \in Nat
                /\ builders[a].target \in Nat
                /\ Len(builders[a].inputs) \in Nat
                /\ DOMAIN builders[a].inputs = 1..Len(builders[a].inputs)
                /\ IsFiniteSet(DOMAIN builders[a].inputs)
                /\ Actions(a) \in SUBSET Pairs /\ Actions(a) \in SUBSET Asset
           /\ Asset \in SUBSET Pairs
<1>1. Len(builders) \in Nat /\ App = 1..Len(builders) BY ConfigurationsAssumption DEF App
<1>2. IsFiniteSet(App) BY <1>1, FS_Interval
<1>3. ASSUME NEW a \in App
      PROVE  /\ a \in Nat \ {0} /\ builders[a].post \in BOOLEAN /\ Rank(a) \in 0..1
             /\ builders[a].phase \in Nat /\ builders[a].order \in Nat
             /\ builders[a].target \in Nat
             /\ Len(builders[a].inputs) \in Nat
             /\ DOMAIN builders[a].inputs = 1..Len(builders[a].inputs)
      BY <1>1, ConfigurationsAssumption DEF App, Rank
<1>4. ASSUME NEW a \in App
      PROVE  IsFiniteSet(DOMAIN builders[a].inputs) /\ Actions(a) \in SUBSET Pairs
      <2>1. IsFiniteSet(DOMAIN builders[a].inputs) BY SMTT(20), <1>3, FS_Interval
      <2>2. Actions(a) \in SUBSET Pairs BY <1>3 DEF Actions, Pairs
      <2> QED BY <2>1, <2>2
<1>5. \A a \in App : Actions(a) \in SUBSET Asset BY DEF Asset
<1>6. Asset \in SUBSET Pairs BY <1>4 DEF Asset
<1> QED BY <1>1, <1>2, <1>3, <1>4, <1>5, <1>6

\* The order compares the five parts of the key, one after the other.
LEMMA BeforeIs ==
    ASSUME builders \in Configurations, NEW a \in App, NEW b \in App
    PROVE  Before(a, b) <=>
              \/ Rank(a) < Rank(b)
              \/ Rank(a) = Rank(b) /\ builders[a].phase < builders[b].phase
              \/ /\ Rank(a) = Rank(b) /\ builders[a].phase = builders[b].phase
                 /\ builders[a].order < builders[b].order
              \/ /\ Rank(a) = Rank(b) /\ builders[a].phase = builders[b].phase
                 /\ builders[a].order = builders[b].order
                 /\ builders[a].target < builders[b].target
              \/ /\ Rank(a) = Rank(b) /\ builders[a].phase = builders[b].phase
                 /\ builders[a].order = builders[b].order
                 /\ builders[a].target = builders[b].target /\ a < b
<1> DEFINE k == Key(a)
           l == Key(b)
<1>1. /\ k[1] = Rank(a) /\ k[2] = builders[a].phase /\ k[3] = builders[a].order
      /\ k[4] = builders[a].target /\ k[5] = a
      BY DEF Key, Rank
<1>2. /\ l[1] = Rank(b) /\ l[2] = builders[b].phase /\ l[3] = builders[b].order
      /\ l[4] = builders[b].target /\ l[5] = b
      BY DEF Key, Rank
<1>3. Before(a, b) <=> \E i \in 1..5 : k[i] < l[i] /\ \A j \in 1..(i - 1) : k[j] = l[j]
      BY DEF Before
<1> HIDE DEF k, l
<1>4. (\E i \in 1..5 : k[i] < l[i] /\ \A j \in 1..(i - 1) : k[j] = l[j]) <=>
         \/ k[1] < l[1]
         \/ k[1] = l[1] /\ k[2] < l[2]
         \/ k[1] = l[1] /\ k[2] = l[2] /\ k[3] < l[3]
         \/ k[1] = l[1] /\ k[2] = l[2] /\ k[3] = l[3] /\ k[4] < l[4]
         \/ k[1] = l[1] /\ k[2] = l[2] /\ k[3] = l[3] /\ k[4] = l[4] /\ k[5] < l[5]
      <2> DEFINE P(i) == k[i] < l[i] /\ \A j \in 1..(i - 1) : k[j] = l[j]
      <2>0. (\E i \in 1..5 : P(i)) <=> P(1) \/ P(2) \/ P(3) \/ P(4) \/ P(5)
            <3>1. 1..5 = {1, 2, 3, 4, 5} OBVIOUS
            <3> HIDE DEF P
            <3> QED BY <3>1
      <2>1. P(1) <=> k[1] < l[1] OBVIOUS
      <2>2. P(2) <=> k[1] = l[1] /\ k[2] < l[2]
            <3>1. 1..(2 - 1) = {1} OBVIOUS
            <3> QED BY <3>1
      <2>3. P(3) <=> k[1] = l[1] /\ k[2] = l[2] /\ k[3] < l[3]
            <3>1. 1..(3 - 1) = {1, 2} OBVIOUS
            <3> QED BY <3>1
      <2>4. P(4) <=> k[1] = l[1] /\ k[2] = l[2] /\ k[3] = l[3] /\ k[4] < l[4]
            <3>1. 1..(4 - 1) = {1, 2, 3} OBVIOUS
            <3> QED BY <3>1
      <2>5. P(5) <=> k[1] = l[1] /\ k[2] = l[2] /\ k[3] = l[3] /\ k[4] = l[4] /\ k[5] < l[5]
            <3>1. 1..(5 - 1) = {1, 2, 3, 4} OBVIOUS
            <3> QED BY <3>1
      <2> HIDE DEF P
      <2>6. (\E i \in 1..5 : P(i)) <=>
               \/ k[1] < l[1]
               \/ k[1] = l[1] /\ k[2] < l[2]
               \/ k[1] = l[1] /\ k[2] = l[2] /\ k[3] < l[3]
               \/ k[1] = l[1] /\ k[2] = l[2] /\ k[3] = l[3] /\ k[4] < l[4]
               \/ k[1] = l[1] /\ k[2] = l[2] /\ k[3] = l[3] /\ k[4] = l[4] /\ k[5] < l[5]
            BY <2>0, <2>1, <2>2, <2>3, <2>4, <2>5
      <2> QED BY <2>6 DEF P
<1> QED BY <1>1, <1>2, <1>3, <1>4

\* It is a strict total order, in which a phase is an interval.
LEMMA Ordering ==
    ASSUME builders \in Configurations, NEW a \in App, NEW b \in App, NEW c \in App
    PROVE  /\ ~Before(a, a)
           /\ Before(a, b) \/ Before(b, a) \/ a = b
           /\ ~(Before(a, b) /\ Before(b, a))
           /\ (Before(a, b) /\ Before(b, c)) => Before(a, c)
           /\ (Before(a, b) /\ Before(b, c) /\ SamePhase(a, c)) => SamePhase(a, b)
           /\ (Before(a, b) /\ ~SamePhase(a, b) /\ SamePhase(b, c)) =>
                  (Before(a, c) /\ ~SamePhase(a, c))
           /\ (Before(a, b) /\ ~SamePhase(a, b) /\ SamePhase(a, c)) =>
                  (Before(c, b) /\ ~SamePhase(c, b))
           /\ SamePhase(a, a)
           /\ (SamePhase(a, b) => SamePhase(b, a))
           /\ (SamePhase(a, b) /\ SamePhase(b, c)) => SamePhase(a, c)
<1>1. \A x, y \in App : SamePhase(x, y) <=>
         (Rank(x) = Rank(y) /\ builders[x].phase = builders[y].phase)
      BY Shapes DEF SamePhase, Rank
<1>2. \A x \in App : /\ x \in Nat /\ Rank(x) \in Nat /\ builders[x].phase \in Nat
                     /\ builders[x].order \in Nat /\ builders[x].target \in Nat
      BY Shapes
<1> DEFINE q(x) == builders[x].phase
           o(x) == builders[x].order
           t(x) == builders[x].target
<1>3. \A x, y \in App : Before(x, y) <=>
         \/ Rank(x) < Rank(y)
         \/ Rank(x) = Rank(y) /\ q(x) < q(y)
         \/ Rank(x) = Rank(y) /\ q(x) = q(y) /\ o(x) < o(y)
         \/ Rank(x) = Rank(y) /\ q(x) = q(y) /\ o(x) = o(y) /\ t(x) < t(y)
         \/ Rank(x) = Rank(y) /\ q(x) = q(y) /\ o(x) = o(y) /\ t(x) = t(y) /\ x < y
      BY BeforeIs
<1>4. ~Before(a, a) BY <1>2, <1>3
<1>5. Before(a, b) \/ Before(b, a) \/ a = b BY <1>2, <1>3
<1>6. ~(Before(a, b) /\ Before(b, a)) BY <1>2, <1>3
<1>7. (Before(a, b) /\ Before(b, c)) => Before(a, c) BY <1>2, <1>3
<1>8. (Before(a, b) /\ Before(b, c) /\ SamePhase(a, c)) => SamePhase(a, b)
      BY <1>1, <1>2, <1>3
<1>9. (Before(a, b) /\ ~SamePhase(a, b) /\ SamePhase(b, c)) => (Before(a, c) /\ ~SamePhase(a, c))
      BY <1>1, <1>2, <1>3
<1>10. (Before(a, b) /\ ~SamePhase(a, b) /\ SamePhase(a, c)) => (Before(c, b) /\ ~SamePhase(c, b))
      BY <1>1, <1>2, <1>3
<1>11. /\ SamePhase(a, a) /\ (SamePhase(a, b) => SamePhase(b, a))
       /\ ((SamePhase(a, b) /\ SamePhase(b, c)) => SamePhase(a, c))
      BY <1>1
<1> QED BY <1>4, <1>5, <1>6, <1>7, <1>8, <1>9, <1>10, <1>11

\* Of any applications one comes first.
LEMMA FirstOf ==
    ASSUME builders \in Configurations, NEW S \in SUBSET App, S # {}
    PROVE  \E a \in S : \A b \in S \ {a} : Before(a, b)
<1>1. PICK r : r = [x \in S |-> <<Rank(x), builders[x].phase, builders[x].order,
                                  builders[x].target, x>>]
      OBVIOUS
<1>2. \A x \in S : /\ r[x][1] = Rank(x) /\ r[x][2] = builders[x].phase
                   /\ r[x][3] = builders[x].order /\ r[x][4] = builders[x].target /\ r[x][5] = x
      BY <1>1
<1>3. PICK a \in S : \A y \in S :
              \/ r[a][1] < r[y][1]
              \/ r[a][1] = r[y][1] /\ r[a][2] < r[y][2]
              \/ r[a][1] = r[y][1] /\ r[a][2] = r[y][2] /\ r[a][3] < r[y][3]
              \/ /\ r[a][1] = r[y][1] /\ r[a][2] = r[y][2] /\ r[a][3] = r[y][3]
                 /\ r[a][4] < r[y][4]
              \/ /\ r[a][1] = r[y][1] /\ r[a][2] = r[y][2] /\ r[a][3] = r[y][3]
                 /\ r[a][4] = r[y][4] /\ r[a][5] <= r[y][5]
      <2>1. \A x \in S : /\ r[x][1] \in Nat /\ r[x][2] \in Nat /\ r[x][3] \in Nat
                         /\ r[x][4] \in Nat /\ r[x][5] \in Nat
            BY SMTT(20), <1>2, Shapes
      <2> QED BY <2>1, LeastByFive
<1>4. ASSUME NEW b \in S \ {a} PROVE Before(a, b)
      <2>1. a \in App /\ b \in App /\ a \in Nat /\ b \in Nat BY Shapes
      <2>2. (r[a][5] <= r[b][5]) => a < b BY <1>2, <2>1
      <2> QED BY <1>2, <1>3, <2>1, <2>2, BeforeIs
<1> QED BY <1>4

\* A worker that has candidates prefers one of them.
LEMMA PreferredIsOne ==
    ASSUME Stepping, NEW w \in Worker, Candidates(w) # {}
    PROVE  Preferred(w) \in Candidates(w)
<1> DEFINE rank(a) == <<IF apps[a].inFlight > 0 THEN 1 ELSE 0,
                        IF builders[a].package = packages[w] THEN 0 ELSE 1, -Remaining(a), a>>
           before(a, b) == \E i \in 1..4 : /\ rank(a)[i] < rank(b)[i]
                                           /\ \A j \in 1..(i - 1) : rank(a)[j] = rank(b)[j]
           first(a) == IF apps[a].inFlight > 0 THEN 1 ELSE 0
           second(a) == IF builders[a].package = packages[w] THEN 0 ELSE 1
<1>1. builders \in Configurations /\ Candidates(w) \in SUBSET App
      BY DEF Stepping, Candidates
<1>2. \A a \in App : /\ a \in Nat /\ Len(apps[a].specs) \in Nat /\ apps[a].next \in Nat
                     /\ Remaining(a) \in Int
      <2>1. ASSUME NEW a \in App PROVE apps[a] \in Applications BY DEF Stepping
      <2>2. ASSUME NEW a \in App PROVE Len(apps[a].specs) \in Nat /\ apps[a].next \in Nat
            BY <2>1 DEF Applications
      <2>3. \A a \in App : a \in Nat BY <1>1, Shapes
      <2> QED BY <2>2, <2>3 DEF Remaining
<1>3. PICK n \in Nat : n = Len(builders) /\ App = 1..n BY <1>1, Shapes
<1>4. PICK f : f = [a \in 1..n |-> Len(apps[a].specs)] OBVIOUS
<1>5. \A a \in 1..n : f[a] \in Nat BY <1>2, <1>3, <1>4
<1>6. PICK m \in Nat : \A a \in 1..n : f[a] <= m BY <1>5, Bounded
<1>7. \A a \in App : Remaining(a) <= m + 1 /\ m + 1 - Remaining(a) \in Nat
      <2>1. \A a \in App : Len(apps[a].specs) <= m BY <1>3, <1>4, <1>6
      <2> QED BY <1>2, <2>1 DEF Remaining
<1>8. PICK r : r = [a \in Candidates(w) |-> <<first(a), second(a), m + 1 - Remaining(a), a, 0>>]
      OBVIOUS
<1>9. \A a \in Candidates(w) : /\ r[a][1] = first(a) /\ r[a][2] = second(a)
                               /\ r[a][3] = m + 1 - Remaining(a) /\ r[a][4] = a /\ r[a][5] = 0
      BY <1>8
<1>10. \A a \in Candidates(w) : /\ r[a][1] \in Nat /\ r[a][2] \in Nat /\ r[a][3] \in Nat
                                /\ r[a][4] \in Nat /\ r[a][5] \in Nat
      <2>1. \A a \in Candidates(w) : a \in Nat /\ m + 1 - Remaining(a) \in Nat BY <1>1, <1>2, <1>7
      <2>2. \A a \in Candidates(w) : first(a) \in Nat /\ second(a) \in Nat OBVIOUS
      <2> HIDE DEF first, second
      <2> QED BY <1>9, <2>1, <2>2
<1>11. PICK C : C = Candidates(w) OBVIOUS
<1>12. PICK a \in C : \A y \in C :
              \/ r[a][1] < r[y][1]
              \/ r[a][1] = r[y][1] /\ r[a][2] < r[y][2]
              \/ r[a][1] = r[y][1] /\ r[a][2] = r[y][2] /\ r[a][3] < r[y][3]
              \/ /\ r[a][1] = r[y][1] /\ r[a][2] = r[y][2] /\ r[a][3] = r[y][3]
                 /\ r[a][4] < r[y][4]
              \/ /\ r[a][1] = r[y][1] /\ r[a][2] = r[y][2] /\ r[a][3] = r[y][3]
                 /\ r[a][4] = r[y][4] /\ r[a][5] <= r[y][5]
      <2>1. C # {} BY <1>11
      <2>2. \A x \in C : /\ r[x][1] \in Nat /\ r[x][2] \in Nat /\ r[x][3] \in Nat
                         /\ r[x][4] \in Nat /\ r[x][5] \in Nat
            BY <1>10, <1>11
      <2> QED BY <2>1, <2>2, LeastByFive
<1>13. ASSUME NEW b \in C \ {a} PROVE before(a, b)
      <2>1. a \in App /\ b \in App /\ a \in Candidates(w) /\ b \in Candidates(w)
            BY <1>1, <1>11, <1>12
      <2>2. /\ rank(a)[1] = first(a) /\ rank(a)[2] = second(a) /\ rank(a)[3] = -Remaining(a)
            /\ rank(a)[4] = a
            OBVIOUS
      <2>3. /\ rank(b)[1] = first(b) /\ rank(b)[2] = second(b) /\ rank(b)[3] = -Remaining(b)
            /\ rank(b)[4] = b
            OBVIOUS
      <2>4. \/ first(a) < first(b)
            \/ first(a) = first(b) /\ second(a) < second(b)
            \/ /\ first(a) = first(b) /\ second(a) = second(b)
               /\ m + 1 - Remaining(a) < m + 1 - Remaining(b)
            \/ /\ first(a) = first(b) /\ second(a) = second(b)
               /\ m + 1 - Remaining(a) = m + 1 - Remaining(b) /\ a < b
            \/ a = b
            <3>1. \/ r[a][1] < r[b][1]
                  \/ r[a][1] = r[b][1] /\ r[a][2] < r[b][2]
                  \/ r[a][1] = r[b][1] /\ r[a][2] = r[b][2] /\ r[a][3] < r[b][3]
                  \/ /\ r[a][1] = r[b][1] /\ r[a][2] = r[b][2] /\ r[a][3] = r[b][3]
                     /\ r[a][4] < r[b][4]
                  \/ r[a][4] = r[b][4]
                  BY <1>12
            <3> HIDE DEF first, second
            <3> QED BY <1>9, <2>1, <3>1
      <2>5. /\ m + 1 - Remaining(a) < m + 1 - Remaining(b) => -Remaining(a) < -Remaining(b)
            /\ m + 1 - Remaining(a) = m + 1 - Remaining(b) => -Remaining(a) = -Remaining(b)
            BY <1>2, <2>1
      <2> DEFINE p == rank(a)
                 q == rank(b)
      <2>6. \/ p[1] < q[1]
            \/ p[1] = q[1] /\ p[2] < q[2]
            \/ p[1] = q[1] /\ p[2] = q[2] /\ p[3] < q[3]
            \/ p[1] = q[1] /\ p[2] = q[2] /\ p[3] = q[3] /\ p[4] < q[4]
            <3>1. a # b OBVIOUS
            <3> HIDE DEF first, second
            <3> QED BY <2>2, <2>3, <2>4, <2>5, <3>1
      <2>7. \E i \in 1..4 : p[i] < q[i] /\ \A j \in 1..(i - 1) : p[j] = q[j]
            <3> HIDE DEF p, q
            <3>1. CASE p[1] < q[1]
                  <4> WITNESS 1 \in 1..4
                  <4> QED BY <3>1
            <3>2. CASE p[1] = q[1] /\ p[2] < q[2]
                  <4> WITNESS 2 \in 1..4
                  <4> QED BY <3>2
            <3>3. CASE p[1] = q[1] /\ p[2] = q[2] /\ p[3] < q[3]
                  <4> WITNESS 3 \in 1..4
                  <4>1. 1..(3 - 1) = {1, 2} OBVIOUS
                  <4> QED BY <3>3, <4>1
            <3>4. CASE p[1] = q[1] /\ p[2] = q[2] /\ p[3] = q[3] /\ p[4] < q[4]
                  <4> WITNESS 4 \in 1..4
                  <4>1. 1..(4 - 1) = {1, 2, 3} OBVIOUS
                  <4> QED BY <3>4, <4>1
            <3> QED BY <2>6, <3>1, <3>2, <3>3, <3>4
      <2> QED BY <2>7
<1> HIDE DEF before
<1>14. \E x \in Candidates(w) : \A y \in Candidates(w) \ {x} : before(x, y)
      BY <1>11, <1>12, <1>13
<1>15. Preferred(w) = CHOOSE x \in Candidates(w) : \A y \in Candidates(w) \ {x} : before(x, y)
      BY DEF Preferred, before
<1> QED BY <1>14, <1>15

----------------------------------------------------------------------------
(* What a step that leaves its variables alone keeps.                        *)

\* The configuration never changes, nor does what is made of it alone.
LEMMA Static ==
    ASSUME UNCHANGED config
    PROVE  /\ builders' = builders /\ shared' = shared /\ App' = App /\ Asset' = Asset
           /\ \A a : /\ Actions(a)' = Actions(a) /\ Dependencies(a)' = Dependencies(a)
                     /\ Hidden(a)' = Hidden(a)
           /\ \A a, b : (Before(a, b)' <=> Before(a, b)) /\ (SamePhase(a, b)' <=> SamePhase(a, b))
<1>1. builders' = builders /\ shared' = shared BY DEF config
<1>2. App' = App BY <1>1 DEF App
<1>3. \A a : Actions(a)' = Actions(a) BY <1>1 DEF Actions
<1>4. \A a, b : SamePhase(a, b)' <=> SamePhase(a, b) BY <1>1 DEF SamePhase
<1>5. \A a, b : Before(a, b)' <=> Before(a, b) BY <1>1 DEF Before, Key
<1>6. \A a, b : Independent(a, b)' <=> Independent(a, b) BY <1>1 DEF Independent
<1>7. \A a : Dependencies(a)' = Dependencies(a) BY <1>2, <1>4, <1>5, <1>6 DEF Dependencies
<1>8. Asset' = Asset BY <1>2, <1>3 DEF Asset
<1>9. \A a : Hidden(a)' = Hidden(a) BY <1>1, <1>8 DEF Hidden
<1> QED BY <1>1, <1>2, <1>3, <1>4, <1>5, <1>7, <1>8, <1>9

LEMMA SteppingKept ==
    ASSUME Stepping, UNCHANGED <<config, controller>>
    PROVE  Stepping'
BY Static DEF Stepping, controller

LEMMA WorkingKept ==
    ASSUME Working, UNCHANGED <<threads, failures>>
    PROVE  Working'
BY DEF Working, threads

LEMMA StagedKept ==
    ASSUME Staged, UNCHANGED transaction
    PROVE  Staged'
BY DEF Staged

LEMMA WholeKept ==
    ASSUME Whole, UNCHANGED config, UNCHANGED <<phase, started>>
    PROVE  Whole'
BY Static DEF Whole

LEMMA CountedKept ==
    ASSUME Counted, UNCHANGED config, UNCHANGED <<pc, phase, started, newly, waiting, apps>>
    PROVE  Counted'
<1>1. Unfinished' = Unfinished BY DEF Unfinished
<1> QED BY <1>1, Static DEF Counted

LEMMA SoundKept ==
    ASSUME Sound, UNCHANGED config, UNCHANGED <<apps, running>>
    PROVE  Sound'
<1>1. \A w : LeaseFits(w)' <=> LeaseFits(w) BY Static DEF LeaseFits
<1>2. InputsLeasedOnce' <=> InputsLeasedOnce BY Static DEF InputsLeasedOnce
<1> QED BY <1>1, <1>2, Static DEF Sound

LEMMA ChannelledKept ==
    ASSUME Channelled, UNCHANGED <<pc, lane, completions, running>>
    PROVE  Channelled'
BY DEF Channelled, Active

LEMMA ReportedKept ==
    ASSUME Reported, UNCHANGED <<pc, lane, completions, outcome, failures>>
    PROVE  Reported'
BY DEF Reported, Active

LEMMA OfferedKept ==
    ASSUME Offered, UNCHANGED config, UNCHANGED <<pc, phase, apps, cursor, running>>
    PROVE  Offered'
<1>1. \A w : Candidates(w)' = Candidates(w) BY Static DEF Candidates, Remaining
<1> QED BY <1>1 DEF Offered, NeverStalled

LEMMA ProgressedKept ==
    ASSUME Progressed, UNCHANGED config,
           UNCHANGED <<phase, started, newly, waiting, apps, running, transaction>>
    PROVE  Progressed'
<1>1. Unfinished' = Unfinished BY DEF Unfinished
<1>2. \A a : Flight(a)' = Flight(a) BY DEF Flight, Held
<1>3. \A a : Recorded(a)' <=> Recorded(a) BY Static DEF Recorded
<1> QED BY <1>1, <1>2, <1>3, Static DEF Progressed

LEMMA EndedKept ==
    ASSUME Ended, UNCHANGED <<pc, lane, completions, exited>>
    PROVE  Ended'
BY DEF Ended, Active

----------------------------------------------------------------------------
(* The worker threads.                                                       *)

\* Nothing that only the controller changes is disturbed by a worker.
LEMMA ControllerRests ==
    ASSUME Inv, UNCHANGED <<config, controller>>
    PROVE  Stepping' /\ Staged' /\ Whole' /\ Counted' /\ Sound' /\ Offered' /\ Progressed'
<1>1. UNCHANGED config /\ UNCHANGED <<pc, phase, started, newly, waiting, apps, baseline, made,
                                      cursor, running, packages, transaction, outcome>>
      BY DEF controller
<1>2. Stepping' BY SteppingKept DEF Inv, Typed
<1>3. Staged' /\ Whole' /\ Counted' BY <1>1, StagedKept, WholeKept, CountedKept DEF Inv, Typed
<1>4. Sound' /\ Offered' /\ Progressed' BY <1>1, SoundKept, OfferedKept, ProgressedKept DEF Inv
<1> QED BY <1>2, <1>3, <1>4

\* What a worker is asked to run is a lease of prepared inputs.
LEMMA LaneFits ==
    ASSUME Inv, NEW w \in Worker, lane[w] # NoLease
    PROVE  /\ lane[w] \in Leases /\ lane[w] = running[w] /\ lane[w].app \in App
           /\ ActionsOf(lane[w]) \in SUBSET Pairs
<1>1. lane[w] \in Leases /\ lane[w] = running[w] BY DEF Inv, Typed, Working, Channelled
<1>2. LeaseFits(w) BY <1>1 DEF Inv, Sound
<1>3. PICK l \in Leases : l = lane[w] BY <1>1
<1>4. l.app \in App /\ l.specs = apps[l.app].specs /\ 1 <= l.lo /\ l.hi < apps[l.app].next
      BY <1>1, <1>2, <1>3 DEF LeaseFits
<1>5. apps[l.app].prepared BY <1>1, <1>2, <1>3 DEF LeaseFits
<1>6. apps[l.app].next <= Len(apps[l.app].specs) + 1 BY <1>4, <1>5 DEF Inv, Sound
<1>7. apps[l.app] \in Applications BY <1>4 DEF Inv, Typed, Stepping
<1>8. l.specs \in Seq(Nat) /\ l.lo \in Nat /\ l.hi \in Nat /\ l.app \in Nat
      /\ apps[l.app].next \in Nat /\ Len(l.specs) \in Nat
      BY <1>4, <1>7 DEF Leases, Applications
<1>9. \A i \in l.lo..l.hi : i \in 1..Len(l.specs) BY <1>4, <1>6, <1>8
<1>10. \A i \in l.lo..l.hi : l.specs[i] \in Nat BY <1>8, <1>9
<1>11. ActionsOf(l) \in SUBSET Pairs BY <1>8, <1>10 DEF ActionsOf, Pairs
<1> QED BY <1>1, <1>3, <1>4, <1>11

\* What a process holds and shows for a lease are assets.
LEMMA HydrateType ==
    ASSUME Inv, NEW w \in Worker, lane[w] # NoLease
    PROVE  /\ Hydrate(w, lane[w]).held \in SUBSET Pairs
           /\ ViewOf(lane[w], Hydrate(w, lane[w]).held) \in Views
           /\ Observed(lane[w].app, {}, {}) \in Views
<1>1. lane[w].baseline \in Baselines BY LaneFits DEF Leases
<1>2. lane[w].baseline.over \in SUBSET Pairs /\ lane[w].baseline.gone \in SUBSET Pairs
      BY <1>1 DEF Baselines
<1>3. resident[w].held \in SUBSET Pairs BY DEF Inv, Typed, Working
<1>4. Hydrate(w, lane[w]).held \in SUBSET Pairs BY <1>2, <1>3 DEF Hydrate
<1>5. \A a, over, gone : over \in SUBSET Pairs /\ gone \in SUBSET Pairs =>
         Observed(a, over, gone) \in Views
      BY DEF Observed, Reach, Views
<1>6. ViewOf(lane[w], Hydrate(w, lane[w]).held) \in Views BY <1>2, <1>4, <1>5 DEF ViewOf
<1>7. Observed(lane[w].app, {}, {}) \in Views BY <1>5
<1> QED BY <1>4, <1>6, <1>7

\* A report keeps the channels in order.
LEMMA ReportKeeps ==
    ASSUME Inv, NEW w \in Worker, lane[w] # NoLease, NEW status \in Status, NEW view \in Views,
           Report(w, status, view), lane' = [lane EXCEPT ![w] = NoLease],
           UNCHANGED <<pc, running, outcome>>,
           status = "ok" => UNCHANGED failures,
           status # "ok" => failures' = failures + 1,
           exited' \in {exited, exited \cup {w}},
           Active /\ exited' # exited => status # "ok"
    PROVE  /\ lane' \in [Worker -> Leases \cup {NoLease}] /\ completions' \in Seq(Completions)
           /\ Channelled' /\ Ended' /\ Reported'
<1>1. PICK c : c = [worker |-> w, lease |-> lane[w], status |-> status, view |-> view] OBVIOUS
<1>2. c \in Completions /\ c.worker = w /\ c.lease = lane[w] /\ c.status = status
      BY <1>1, LaneFits DEF Completions
<1>3. completions' = IF pc = "closing" THEN completions ELSE Append(completions, c)
      BY <1>1 DEF Report
<1>4. completions \in Seq(Completions) /\ lane \in [Worker -> Leases \cup {NoLease}]
      /\ exited \subseteq Worker /\ failures \in Nat
      BY WorkersAssumption DEF Inv, Typed, Working
<1>5. completions' \in Seq(Completions) /\ lane' \in [Worker -> Leases \cup {NoLease}]
      BY <1>2, <1>3, <1>4
<1>6. w \notin exited BY DEF Inv, Ended
<1>7. pc # "returned" BY <1>6 DEF Inv, Ended
<1>8. lane'[w] = NoLease /\ \A v \in Worker \ {w} : lane'[v] = lane[v] BY <1>4
<1>9. CASE pc = "closing"
      <2>1. completions' = completions /\ completions = <<>> BY <1>3, <1>9 DEF Inv, Channelled, Active
      <2>2. Channelled' BY <1>8, <2>1 DEF Inv, Channelled, Active
      <2>3. Ended' BY <1>4, <1>8, <1>9, <2>1 DEF Inv, Ended, Active
      <2>4. outcome # "ok" BY <1>9 DEF Inv, Reported, Active
      <2>5. failures > 0 BY <1>4, <2>4 DEF Inv, Reported, Typed, Stepping
      <2>6. Reported' BY <1>4, <1>9, <2>1, <2>4, <2>5 DEF Inv, Reported, Active
      <2> QED BY <1>5, <2>2, <2>3, <2>6
<1>10. CASE pc # "closing"
      <2> DEFINE n == Len(completions)
      <2>1. n \in Nat /\ DOMAIN completions = 1..n BY <1>4
      <2>2. /\ DOMAIN completions' = 1..(n + 1) /\ completions'[n + 1] = c
            /\ \A i \in 1..n : completions'[i] = completions[i]
            BY <1>3, <1>4, <1>10
      <2>3. \A i \in 1..n : completions[i] \in Completions BY <1>4, <2>1
      <2>4. \A i \in 1..n : completions[i].worker \in Worker /\ completions[i].worker # w
            BY <2>1, <2>3 DEF Inv, Channelled, Completions
      <2>5. Active /\ Active' BY <1>7, <1>10 DEF Active
      <2> HIDE DEF n
      <2>6. Channelled'
            <3>1. \A v \in Worker : lane'[v] \in {NoLease, running'[v]}
                  BY <1>8 DEF Inv, Channelled
            <3>2. \A i \in 1..(n + 1) : /\ lane'[completions'[i].worker] = NoLease
                                        /\ running'[completions'[i].worker] = completions'[i].lease
                  <4> SUFFICES ASSUME NEW i \in 1..(n + 1)
                               PROVE  /\ lane'[completions'[i].worker] = NoLease
                                      /\ running'[completions'[i].worker] = completions'[i].lease
                      OBVIOUS
                  <4>1. CASE i = n + 1 BY <1>2, <1>8, <2>2, <4>1, LaneFits
                  <4>2. CASE i \in 1..n
                        BY <1>8, <2>1, <2>2, <2>4, <4>2 DEF Inv, Channelled
                  <4> QED BY <2>1, <4>1, <4>2
            <3>3. \A i, j \in 1..(n + 1) : completions'[i].worker = completions'[j].worker => i = j
                  <4>1. \A i, j \in 1..n : completions[i].worker = completions[j].worker => i = j
                        BY <2>1 DEF Inv, Channelled
                  <4>2. \A i \in 1..(n + 1) : i = n + 1 \/ i \in 1..n BY <2>1
                  <4>3. \A i \in 1..n : completions'[i].worker = completions[i].worker BY <2>2
                  <4>4. completions'[n + 1].worker = w BY <1>2, <2>2
                  <4> QED BY <2>4, <4>1, <4>2, <4>3, <4>4
            <3> QED BY <2>2, <2>5, <3>1, <3>2, <3>3 DEF Channelled
      <2>7. Ended'
            <3>1. \A v \in exited' : lane'[v] = NoLease BY <1>4, <1>8 DEF Inv, Ended
            <3>2. ASSUME NEW v \in exited'
                  PROVE  \E i \in 1..(n + 1) : /\ completions'[i].worker = v
                                               /\ completions'[i].status # "ok"
                  <4>1. CASE v \in exited
                        <5>1. PICK i \in 1..n : completions[i].worker = v /\ completions[i].status # "ok"
                              BY <2>1, <2>5, <4>1 DEF Inv, Ended
                        <5>2. i \in 1..(n + 1) BY <2>1
                        <5> QED BY <2>2, <5>1, <5>2
                  <4>2. CASE v = w /\ exited' # exited
                        <5>1. n + 1 \in 1..(n + 1) BY <2>1
                        <5> QED BY <1>2, <2>2, <2>5, <4>2, <5>1
                  <4> QED BY <4>1, <4>2
            <3> QED BY <1>7, <2>2, <3>1, <3>2 DEF Ended
      <2>8. Reported'
            <3>1. outcome' = "ok" BY <2>5 DEF Inv, Reported, Typed, Stepping
            <3>2. failures' > 0 => \E i \in 1..(n + 1) : completions'[i].status # "ok"
                  <4>1. CASE status = "ok"
                        <5>1. failures > 0 => \E i \in 1..n : completions[i].status # "ok"
                              BY <2>1, <3>1 DEF Inv, Reported
                        <5>2. \A i \in 1..n : i \in 1..(n + 1) BY <2>1
                        <5> QED BY <2>2, <4>1, <5>1, <5>2
                  <4>2. CASE status # "ok"
                        <5>1. n + 1 \in 1..(n + 1) BY <2>1
                        <5> QED BY <1>2, <2>2, <4>2, <5>1
                  <4> QED BY <4>1, <4>2
            <3>3. ASSUME NEW i \in 1..(n + 1), completions'[i].status # "ok" PROVE failures' > 0
                  <4>1. CASE status = "ok"
                        <5>1. i \in 1..n BY <1>2, <2>1, <2>2, <3>3, <4>1
                        <5> QED BY <2>1, <2>2, <3>3, <4>1, <5>1 DEF Inv, Reported
                  <4>2. CASE status # "ok" BY <1>4, <4>2
                  <4> QED BY <4>1, <4>2
            <3> QED BY <2>2, <2>5, <3>1, <3>2, <3>3 DEF Reported
      <2> QED BY <1>5, <2>6, <2>7, <2>8
<1> QED BY <1>9, <1>10

LEMMA WorkKeeps ==
    ASSUME Inv, NEW w \in Worker, Work(w)
    PROVE  Inv'
<1>1. lane[w] # NoLease BY DEF Work
<1>2. PICK h : h = Hydrate(w, lane[w]) OBVIOUS
<1>3. PICK view : view = ViewOf(lane[w], h.held) OBVIOUS
<1>4. view \in Views /\ h.held \in SUBSET Pairs BY <1>1, <1>2, <1>3, HydrateType
<1>5. /\ resident' = [resident EXCEPT ![w] = [h EXCEPT !.held = @ \cup ActionsOf(lane[w])]]
      /\ Report(w, "ok", view) /\ lane' = [lane EXCEPT ![w] = NoLease]
      /\ exited' = IF pc = "closing" THEN exited \cup {w} ELSE exited
      /\ UNCHANGED <<config, controller>> /\ UNCHANGED failures
      BY <1>2, <1>3 DEF Work
<1>6. UNCHANGED <<pc, running, outcome>> BY <1>5 DEF controller
<1>7. exited' \in {exited, exited \cup {w}} /\ (Active => exited' = exited) BY <1>5 DEF Active
<1>8. /\ lane' \in [Worker -> Leases \cup {NoLease}] /\ completions' \in Seq(Completions)
      /\ Channelled' /\ Ended' /\ Reported'
      BY <1>1, <1>4, <1>5, <1>6, <1>7, ReportKeeps DEF Status
<1>9. Working'
      <2>1. DOMAIN resident = Worker /\ \A v \in Worker : resident[v].held \subseteq Pairs
            BY DEF Inv, Typed, Working
      <2>2. [h EXCEPT !.held = @ \cup ActionsOf(lane[w])].held \subseteq Pairs
            <3>1. ActionsOf(lane[w]) \in SUBSET Pairs BY <1>1, LaneFits
            <3>2. "held" \in DOMAIN h BY <1>2 DEF Hydrate
            <3> QED BY <1>4, <3>1, <3>2
      <2>3. DOMAIN resident' = Worker /\ \A v \in Worker : resident'[v].held \subseteq Pairs
            BY <1>5, <2>1, <2>2
      <2>4. exited' \subseteq Worker /\ failures' \in 0..MaxFailures
            BY <1>5, <1>7 DEF Inv, Typed, Working
      <2> QED BY <1>8, <2>3, <2>4 DEF Working
<1>10. Stepping' /\ Staged' /\ Whole' /\ Counted' /\ Sound' /\ Offered' /\ Progressed'
      BY <1>5, ControllerRests
<1> QED BY <1>8, <1>9, <1>10 DEF Inv, Typed

LEMMA WorkFailsKeeps ==
    ASSUME Inv, NEW w \in Worker, NEW status \in {"builder", "lost"}, WorkFails(w, status)
    PROVE  Inv'
<1>1. lane[w] # NoLease /\ failures < MaxFailures BY DEF WorkFails
<1>2. PICK h : h = Hydrate(w, lane[w]) OBVIOUS
<1>3. PICK view : view = Observed(lane[w].app, {}, {}) OBVIOUS
<1>4. view \in Views /\ h.held \in SUBSET Pairs BY <1>1, <1>2, <1>3, HydrateType
<1>5. /\ resident' = [resident EXCEPT ![w] = h]
      /\ Report(w, status, view) /\ lane' = [lane EXCEPT ![w] = NoLease]
      /\ exited' = IF pc = "closing" \/ status = "lost" THEN exited \cup {w} ELSE exited
      /\ UNCHANGED <<config, controller>> /\ failures' = failures + 1
      BY <1>2, <1>3 DEF WorkFails
<1>6. UNCHANGED <<pc, running, outcome>> BY <1>5 DEF controller
<1>7. exited' \in {exited, exited \cup {w}} BY <1>5
<1>8. /\ lane' \in [Worker -> Leases \cup {NoLease}] /\ completions' \in Seq(Completions)
      /\ Channelled' /\ Ended' /\ Reported'
      <2>1. status \in Status /\ status # "ok" BY DEF Status
      <2> QED BY <1>1, <1>4, <1>5, <1>6, <1>7, <2>1, ReportKeeps
<1>9. Working'
      <2>1. DOMAIN resident = Worker /\ \A v \in Worker : resident[v].held \subseteq Pairs
            BY DEF Inv, Typed, Working
      <2>2. DOMAIN resident' = Worker /\ \A v \in Worker : resident'[v].held \subseteq Pairs
            BY <1>4, <1>5, <2>1
      <2>3. exited' \subseteq Worker /\ failures' \in 0..MaxFailures
            BY <1>1, <1>5, <1>7, WorkersAssumption DEF Inv, Typed, Working
      <2> QED BY <1>8, <2>2, <2>3 DEF Working
<1>10. Stepping' /\ Staged' /\ Whole' /\ Counted' /\ Sound' /\ Offered' /\ Progressed'
      BY <1>5, ControllerRests
<1> QED BY <1>8, <1>9, <1>10 DEF Inv, Typed

LEMMA QuitKeeps ==
    ASSUME Inv, NEW w \in Worker, Quit(w)
    PROVE  Inv'
<1>1. /\ pc = "closing" /\ lane[w] = NoLease /\ exited' = exited \cup {w}
      /\ UNCHANGED <<config, controller>>
      /\ UNCHANGED lane /\ UNCHANGED completions /\ UNCHANGED resident /\ UNCHANGED failures
      BY DEF Quit
<1>2. UNCHANGED <<pc, running, outcome>> BY <1>1 DEF controller
<1>3. Stepping' /\ Staged' /\ Whole' /\ Counted' /\ Sound' /\ Offered' /\ Progressed'
      BY <1>1, ControllerRests
<1>4. Working' BY <1>1 DEF Inv, Typed, Working
<1>5. Channelled' BY <1>1, <1>2, ChannelledKept DEF Inv
<1>6. Reported' BY <1>1, <1>2, ReportedKept DEF Inv
<1>7. Ended' BY <1>1, <1>2 DEF Inv, Ended, Active
<1> QED BY <1>3, <1>4, <1>5, <1>6, <1>7 DEF Inv, Typed

----------------------------------------------------------------------------
(* The controller's turns that change neither applications nor transaction.  *)

\* While something is unfinished and nothing new is ready, an application is
\* prepared: the first one depends on nothing unfinished.
LEMMA SomePrepared ==
    ASSUME Inv, newly = {}, Unfinished # {}
    PROVE  \E a \in phase : apps[a].prepared
<1>1. builders \in Configurations /\ phase \subseteq App /\ waiting \in [App -> Nat]
      BY DEF Inv, Typed, Stepping
<1>2. Unfinished \in SUBSET App BY <1>1 DEF Unfinished
<1>3. PICK a \in Unfinished : \A b \in Unfinished \ {a} : Before(a, b)
      BY <1>1, <1>2, FirstOf
<1>4. Dependencies(a) \cap Unfinished = {}
      <2> SUFFICES ASSUME NEW b \in Dependencies(a) \cap Unfinished PROVE FALSE
          OBVIOUS
      <2>1. a \in App /\ b \in App /\ Before(b, a) BY <1>2 DEF Dependencies
      <2>2. a = b \/ Before(a, b) BY <1>3
      <2> QED BY <1>1, <2>1, <2>2, Ordering
<1>5. a \in phase BY DEF Unfinished
<1>6. waiting[a] = 0 BY <1>4, <1>5, FS_EmptySet DEF Inv, Counted
<1>7. apps[a].prepared BY <1>1, <1>5, <1>6 DEF Unfinished
<1> QED BY <1>5, <1>7

\* Without a lease a prepared application has an input left, and a worker may
\* take it.
LEMMA SomeCandidate ==
    ASSUME Inv, NEW a \in phase, apps[a].prepared, \A w \in Worker : running[w] = NoLease
    PROVE  \E w \in Worker : a \in Candidates(w)
<1>1. a \in App BY DEF Inv, Typed, Stepping
<1>2. Held(a) = {} BY DEF Held
<1>3. /\ Cardinality(Held(a)) = apps[a].inFlight
      /\ apps[a].completed + Cardinality(Flight(a)) + 1 = apps[a].next
      <2>1. InputsLeasedOnce BY DEF Inv, Sound
      <2> QED BY <1>1, <2>1 DEF InputsLeasedOnce, Held, Flight
<1>4. Flight(a) = {} BY <1>2 DEF Flight
<1>5. apps[a].inFlight = 0 /\ apps[a].completed + 0 + 1 = apps[a].next
      BY <1>2, <1>3, <1>4, FS_EmptySet
<1>6. apps[a].completed < Len(apps[a].specs) BY <1>1 DEF Inv, Sound
<1>7. apps[a] \in Applications BY <1>1 DEF Inv, Typed, Stepping
<1>8. apps[a].completed \in Nat /\ apps[a].next \in Nat /\ Len(apps[a].specs) \in Nat
      /\ apps[a].owner \in 0..Workers
      BY <1>7 DEF Applications
<1>9. Remaining(a) > 0 BY <1>5, <1>6, <1>8 DEF Remaining
<1>10. PICK w \in Worker : apps[a].owner \in {0, w}
      <2>1. CASE apps[a].owner = 0
            <3>1. 1 \in Worker BY WorkersAssumption DEF Worker
            <3> QED BY <2>1, <3>1
      <2>2. CASE apps[a].owner # 0 BY <1>8, <2>2 DEF Worker
      <2> QED BY <2>1, <2>2
<1> QED BY <1>5, <1>9, <1>10 DEF Candidates

LEMMA PreparedKeeps ==
    ASSUME Inv, Prepared
    PROVE  Inv'
<1>1. /\ pc = "prepare" /\ newly = {} /\ pc' = IF Unfinished = {} THEN "phase" ELSE "lease"
      /\ cursor' = 1 /\ UNCHANGED config /\ UNCHANGED <<threads, failures>>
      /\ UNCHANGED <<phase, started, newly, waiting, apps, baseline, made, running, packages,
                     transaction, outcome>>
      BY DEF Prepared
<1>2. UNCHANGED <<lane, completions, resident, exited>> BY <1>1 DEF threads
<1>3. Stepping' BY <1>1, Static, WorkersAssumption DEF Inv, Typed, Stepping
<1>4. Working' /\ Staged' /\ Whole'
      BY <1>1, WorkingKept, StagedKept, WholeKept DEF Inv, Typed
<1>5. Sound' /\ Progressed' BY <1>1, SoundKept, ProgressedKept DEF Inv
<1>6. Unfinished' = Unfinished BY <1>1 DEF Unfinished
<1>7. Counted' BY <1>1, <1>6, Static DEF Inv, Counted
<1>8. Active /\ Active' BY <1>1 DEF Active
<1>9. Channelled' /\ Ended' /\ Reported'
      BY <1>1, <1>2, <1>8 DEF Inv, Channelled, Ended, Reported, Active
<1>10. Offered' BY <1>1 DEF Offered, NeverStalled
<1> QED BY <1>3, <1>4, <1>5, <1>7, <1>9, <1>10 DEF Inv, Typed

LEMMA PassOverKeeps ==
    ASSUME Inv, NEW w \in Worker, PassOver(w)
    PROVE  Inv'
<1>1. /\ pc = "lease" /\ cursor = w /\ (running[w] # NoLease \/ Candidates(w) = {})
      /\ cursor' = w + 1 /\ UNCHANGED config /\ UNCHANGED <<threads, failures>>
      /\ UNCHANGED <<pc, phase, started, newly, waiting, apps, baseline, made, running, packages,
                     transaction, outcome>>
      BY DEF PassOver
<1>2. UNCHANGED <<lane, completions, resident, exited>> BY <1>1 DEF threads
<1>3. Stepping' BY <1>1, Static, WorkersAssumption DEF Inv, Typed, Stepping, Worker
<1>4. Working' /\ Staged' /\ Whole'
      BY <1>1, WorkingKept, StagedKept, WholeKept DEF Inv, Typed
<1>5. Sound' /\ Progressed' /\ Counted'
      BY <1>1, SoundKept, ProgressedKept, CountedKept DEF Inv
<1>6. Channelled' /\ Ended' /\ Reported'
      BY <1>1, <1>2, ChannelledKept, EndedKept, ReportedKept DEF Inv
<1>7. Offered'
      <2>1. \A v : Candidates(v)' = Candidates(v) BY <1>1, Static DEF Candidates, Remaining
      <2>2. \A v \in 1..(cursor' - 1) : v = w \/ v \in 1..(cursor - 1)
            BY <1>1, WorkersAssumption DEF Worker
      <2>3. \A v \in 1..(cursor' - 1) : running[v] # NoLease \/ Candidates(v) = {}
            BY <1>1, <2>2 DEF Inv, Offered
      <2>4. \A v \in 1..(cursor' - 1) : running'[v] # NoLease' \/ Candidates(v)' = {}
            BY <1>1, <2>1, <2>3 DEF NoLease
      <2>5. pc' = "lease" BY <1>1
      <2> QED BY <2>4, <2>5 DEF Offered, NeverStalled
<1> QED BY <1>3, <1>4, <1>5, <1>6, <1>7 DEF Inv, Typed

LEMMA LeasedKeeps ==
    ASSUME Inv, Leased
    PROVE  Inv'
<1>1. /\ pc = "lease" /\ cursor = Workers + 1 /\ pc' = "receive"
      /\ UNCHANGED config /\ UNCHANGED <<threads, failures>>
      /\ UNCHANGED <<phase, started, newly, waiting, apps, baseline, made, cursor, running,
                     packages, transaction, outcome>>
      BY DEF Leased
<1>2. UNCHANGED <<lane, completions, resident, exited>> BY <1>1 DEF threads
<1>3. Stepping' BY <1>1, Static DEF Inv, Typed, Stepping
<1>4. Working' /\ Staged' /\ Whole'
      BY <1>1, WorkingKept, StagedKept, WholeKept DEF Inv, Typed
<1>5. Sound' /\ Progressed' BY <1>1, SoundKept, ProgressedKept DEF Inv
<1>6. Unfinished' = Unfinished BY <1>1 DEF Unfinished
<1>7. Counted' BY <1>1, <1>6, Static DEF Inv, Counted
<1>8. Active /\ Active' BY <1>1 DEF Active
<1>9. Channelled' /\ Ended' /\ Reported'
      BY <1>1, <1>2, <1>8 DEF Inv, Channelled, Ended, Reported, Active
<1>10. \E w \in Worker : running[w] # NoLease
      <2> SUFFICES ASSUME \A w \in Worker : running[w] = NoLease PROVE FALSE
          OBVIOUS
      <2>1. newly = {} /\ Unfinished # {} BY <1>1 DEF Inv, Counted
      <2>2. PICK a \in phase : apps[a].prepared BY <2>1, SomePrepared
      <2>3. PICK w \in Worker : a \in Candidates(w) BY <2>2, SomeCandidate
      <2>4. w \in 1..(cursor - 1) BY <1>1, WorkersAssumption DEF Worker
      <2> QED BY <1>1, <2>3, <2>4 DEF Inv, Offered
<1>11. Offered' BY <1>1, <1>10 DEF Offered, NeverStalled
<1> QED BY <1>3, <1>4, <1>5, <1>7, <1>9, <1>11 DEF Inv, Typed

\* Between two phases nothing runs and nothing is under way.
LEMMA Quiet ==
    ASSUME Inv, pc = "phase"
    PROVE  /\ \A a \in App : ~apps[a].prepared
           /\ \A w \in Worker : running[w] = NoLease /\ lane[w] = NoLease
           /\ completions = <<>> /\ outcome = "ok" /\ failures = 0
<1>1. \A a \in App : ~apps[a].prepared
      <2>1. Unfinished = {} BY DEF Inv, Counted
      <2> QED BY <2>1 DEF Inv, Counted, Unfinished
<1>2. \A w \in Worker : running[w] = NoLease BY <1>1 DEF Inv, Sound, LeaseFits
<1>3. \A w \in Worker : lane[w] = NoLease BY <1>2 DEF Inv, Channelled
<1>4. completions = <<>>
      <2> SUFFICES ASSUME completions # <<>> PROVE FALSE
          OBVIOUS
      <2>1. completions \in Seq(Completions) BY DEF Inv, Typed, Working
      <2>2. 1 \in DOMAIN completions /\ completions[1] \in Completions BY <2>1
      <2>3. completions[1].worker \in Worker /\ completions[1].lease \in Leases
            BY <2>2 DEF Completions
      <2>4. running[completions[1].worker] = completions[1].lease BY <2>2 DEF Inv, Channelled
      <2>5. NoLease \notin Leases
            <3>1. \A l \in Leases : l.app # 0 BY DEF Leases
            <3>2. NoLease.app = 0 BY DEF NoLease
            <3> QED BY <3>1, <3>2
      <2> QED BY <1>2, <2>3, <2>4, <2>5
<1>5. outcome = "ok" BY DEF Inv, Reported, Active, Typed, Stepping
<1>6. failures = 0 BY <1>4, <1>5, WorkersAssumption DEF Inv, Reported, Typed, Working
<1> QED BY <1>1, <1>2, <1>3, <1>4, <1>5, <1>6

LEMMA AllPhasesKeeps ==
    ASSUME Inv, AllPhases
    PROVE  Inv'
<1>1. /\ pc = "phase" /\ started = App /\ pc' = "closing"
      /\ UNCHANGED config /\ UNCHANGED <<threads, failures>>
      /\ UNCHANGED <<phase, started, newly, waiting, apps, baseline, made, cursor, running,
                     packages, transaction, outcome>>
      BY DEF AllPhases
<1>2. UNCHANGED <<lane, completions, resident, exited>> /\ UNCHANGED failures
      BY <1>1 DEF threads
<1>3. Stepping' BY <1>1, Static DEF Inv, Typed, Stepping
<1>4. Working' /\ Staged' /\ Whole'
      BY <1>1, WorkingKept, StagedKept, WholeKept DEF Inv, Typed
<1>5. Sound' /\ Progressed' BY <1>1, SoundKept, ProgressedKept DEF Inv
<1>6. Unfinished' = Unfinished BY <1>1 DEF Unfinished
<1>7. Counted' BY <1>1, <1>6, Static DEF Inv, Counted
<1>8. Channelled' /\ Ended' /\ Reported'
      BY <1>1, <1>2, Quiet DEF Inv, Channelled, Ended, Reported, Active
<1>9. Offered' BY <1>1 DEF Offered, NeverStalled
<1> QED BY <1>3, <1>4, <1>5, <1>7, <1>8, <1>9 DEF Inv, Typed

LEMMA JoinKeeps ==
    ASSUME Inv, Join
    PROVE  Inv'
<1>1. /\ pc = "closing" /\ exited = Worker /\ pc' = "returned"
      /\ UNCHANGED config /\ UNCHANGED <<threads, failures>>
      /\ UNCHANGED <<phase, started, newly, waiting, apps, baseline, made, cursor, running,
                     packages, transaction, outcome>>
      BY DEF Join
<1>2. UNCHANGED <<lane, completions, resident, exited>> /\ UNCHANGED failures
      BY <1>1 DEF threads
<1>3. Stepping' BY <1>1, Static DEF Inv, Typed, Stepping
<1>4. Working' /\ Staged' /\ Whole'
      BY <1>1, WorkingKept, StagedKept, WholeKept DEF Inv, Typed
<1>5. Sound' /\ Progressed' BY <1>1, SoundKept, ProgressedKept DEF Inv
<1>6. Unfinished' = Unfinished BY <1>1 DEF Unfinished
<1>7. Counted' BY <1>1, <1>6, Static DEF Inv, Counted
<1>8. ~Active /\ ~Active' BY <1>1 DEF Active
<1>9. Channelled' /\ Ended' /\ Reported'
      BY <1>1, <1>2, <1>8, Static DEF Inv, Channelled, Ended, Reported
<1>10. Offered' BY <1>1 DEF Offered, NeverStalled
<1> QED BY <1>3, <1>4, <1>5, <1>7, <1>9, <1>10 DEF Inv, Typed

LEMMA ReceiveErrorKeeps ==
    ASSUME Inv, ReceiveError
    PROVE  Inv'
<1>1. /\ pc = "receive" /\ completions # <<>> /\ Head(completions).status # "ok"
      /\ pc' = "closing" /\ outcome' = "error" /\ completions' = <<>>
      /\ UNCHANGED config
      /\ UNCHANGED <<phase, started, newly, waiting, apps, baseline, made, cursor, running,
                     packages, transaction, lane, resident, exited, failures>>
      BY DEF ReceiveError
<1>2. failures > 0
      <2>1. completions \in Seq(Completions) BY DEF Inv, Typed, Working
      <2>2. 1 \in DOMAIN completions /\ completions[1] = Head(completions) BY <1>1, <2>1
      <2> QED BY <1>1, <2>2 DEF Inv, Reported
<1>3. Stepping' BY <1>1, Static DEF Inv, Typed, Stepping
<1>4. Working' BY <1>1 DEF Inv, Typed, Working
<1>5. Staged' /\ Whole' BY <1>1, StagedKept, WholeKept DEF Inv, Typed
<1>6. Sound' /\ Progressed' BY <1>1, SoundKept, ProgressedKept DEF Inv
<1>7. Unfinished' = Unfinished BY <1>1 DEF Unfinished
<1>8. Counted' BY <1>1, <1>7, Static DEF Inv, Counted
<1>9. Active /\ ~Active' /\ pc' # "returned" BY <1>1 DEF Active
<1>10. Channelled' BY <1>1, <1>9 DEF Inv, Channelled
<1>11. Ended' BY <1>1, <1>9 DEF Inv, Ended
<1>12. Reported' BY <1>1, <1>2, <1>9 DEF Inv, Reported
<1>13. Offered' BY <1>1 DEF Offered, NeverStalled
<1> QED BY <1>3, <1>4, <1>5, <1>6, <1>8, <1>10, <1>11, <1>12, <1>13 DEF Inv, Typed

----------------------------------------------------------------------------
(* A phase begins.                                                           *)

\* What comes next is everything of one phase, and comes before the rest.
LEMMA NextPhase ==
    ASSUME builders \in Configurations, started \in SUBSET App, started # App,
           \A a \in started, b \in App \ started : Before(a, b) /\ ~SamePhase(a, b)
    PROVE  LET p == PhaseOf(App \ started) IN
           /\ p \in SUBSET (App \ started)
           /\ \A a, b \in p : SamePhase(a, b)
           /\ \A a \in p, b \in App : SamePhase(a, b) => b \in p
           /\ \A a \in started \cup p, b \in App \ (started \cup p) :
                 Before(a, b) /\ ~SamePhase(a, b)
<1> DEFINE rest == App \ started
           p == PhaseOf(rest)
<1>1. rest # {} /\ rest \in SUBSET App OBVIOUS
<1>2. PICK f \in rest : \A c \in rest \ {f} : Before(f, c) BY <1>1, FirstOf
<1>3. ASSUME NEW b \in rest, \A c \in rest \ {b} : Before(b, c) PROVE b = f
      <2>1. b # f => Before(b, f) /\ Before(f, b) BY <1>2, <1>3
      <2>2. b \in App /\ f \in App OBVIOUS
      <2> QED BY <2>1, <2>2, Ordering
<1>4. p = {a \in rest : SamePhase(a, f)} BY <1>2, <1>3 DEF PhaseOf
<1>5. f \in App OBVIOUS
<1> HIDE DEF p
<1>6. ASSUME NEW a \in p, NEW b \in p PROVE SamePhase(a, b)
      <2>1. a \in App /\ b \in App /\ SamePhase(a, f) /\ SamePhase(b, f) BY <1>4
      <2>2. SamePhase(f, b) BY <1>5, <2>1, Ordering
      <2> QED BY <1>5, <2>1, <2>2, Ordering
<1>7. ASSUME NEW a \in p, NEW b \in App, SamePhase(a, b) PROVE b \in p
      <2>1. a \in rest /\ SamePhase(a, f) BY <1>4
      <2>2. SamePhase(b, a) BY <1>7, <2>1, Ordering
      <2>3. SamePhase(b, f) BY <1>5, <2>1, <2>2, Ordering
      <2>4. b \notin started BY <2>1, <2>2
      <2> QED BY <1>4, <2>3, <2>4
<1>8. ASSUME NEW a \in started \cup p, NEW b \in App \ (started \cup p)
      PROVE  Before(a, b) /\ ~SamePhase(a, b)
      <2>1. CASE a \in started BY <2>1
      <2>2. CASE a \in p
            <3>1. a \in App /\ SamePhase(a, f) /\ b \in rest /\ ~SamePhase(b, f) BY <1>4, <2>2
            <3>2. SamePhase(f, f) /\ SamePhase(f, a) /\ ~SamePhase(f, b)
                  BY <1>5, <3>1, Ordering
            <3>3. Before(f, b) BY <1>2, <3>1, <3>2
            <3> QED BY <1>5, <3>1, <3>2, <3>3, Ordering
      <2> QED BY <2>1, <2>2
<1>9. p \in SUBSET (App \ started) BY <1>4
<1> QED BY <1>6, <1>7, <1>8, <1>9 DEF p

\* The applications another one depends on are finitely many, of its phase.
LEMMA DependenciesType ==
    ASSUME builders \in Configurations, NEW a \in App
    PROVE  /\ Dependencies(a) \in SUBSET App /\ IsFiniteSet(Dependencies(a))
           /\ Cardinality(Dependencies(a)) \in Nat
           /\ Cardinality(Dependencies(a)) = 0 <=> Dependencies(a) = {}
           /\ \A b \in Dependencies(a) : SamePhase(a, b) /\ b # a
<1>1. Dependencies(a) \in SUBSET App BY DEF Dependencies
<1>2. IsFiniteSet(Dependencies(a)) BY <1>1, Shapes, FS_Subset
<1>3. ASSUME NEW b \in Dependencies(a) PROVE SamePhase(a, b) /\ b # a
      <2>1. b \in App /\ SamePhase(b, a) /\ Before(b, a) BY DEF Dependencies
      <2> QED BY <2>1, Ordering
<1> QED BY <1>1, <1>2, <1>3, FS_CardinalityType, FS_EmptySet

LEMMA BeginPhaseKeeps ==
    ASSUME Inv, BeginPhase
    PROVE  Inv'
<1>1. /\ pc = "phase" /\ started # App
      /\ phase' = PhaseOf(App \ started) /\ started' = started \cup phase'
      /\ waiting' = [a \in App |-> IF a \in phase' THEN Cardinality(Dependencies(a)) ELSE 0]
      /\ newly' = {a \in phase' : Dependencies(a) = {}}
      /\ baseline' = NoBaseline /\ pc' = "prepare"
      /\ UNCHANGED config /\ UNCHANGED <<threads, failures>>
      /\ UNCHANGED <<apps, made, cursor, running, packages, transaction, outcome>>
      BY DEF BeginPhase
<1>2. UNCHANGED <<lane, completions, resident, exited>> BY <1>1 DEF threads
<1>3. builders \in Configurations /\ started \in SUBSET App
      BY DEF Inv, Typed, Stepping
<1>4. /\ phase' \in SUBSET (App \ started)
      /\ \A a, b \in phase' : SamePhase(a, b)
      /\ \A a \in phase', b \in App : SamePhase(a, b) => b \in phase'
      /\ \A a \in started', b \in App \ started' : Before(a, b) /\ ~SamePhase(a, b)
      <2>1. \A a \in started, b \in App \ started : Before(a, b) /\ ~SamePhase(a, b)
            BY DEF Inv, Whole
      <2> QED BY <1>1, <1>3, <2>1, NextPhase
<1>5. Whole' BY <1>1, <1>4, Static DEF Whole
<1>6. \A a \in App : /\ Cardinality(Dependencies(a)) \in Nat
                     /\ Cardinality(Dependencies(a)) = 0 <=> Dependencies(a) = {}
      BY <1>3, DependenciesType
<1>7. waiting' \in [App -> Nat] BY <1>1, <1>6
<1>8. Unfinished' = phase'
      <2>1. ASSUME NEW a \in phase' PROVE waiting'[a] > 0 \/ a \in newly'
            <3>1. a \in App /\ waiting'[a] = Cardinality(Dependencies(a)) BY <1>1, <1>4
            <3> QED BY <1>1, <1>6, <3>1
      <2> QED BY <2>1 DEF Unfinished
<1>9. NoBaseline \in Baselines BY DEF NoBaseline, Baselines
<1>10. Stepping'
      <2>1. phase' \subseteq started' /\ started' \subseteq App /\ newly' \subseteq phase'
            BY <1>1, <1>3, <1>4
      <2> QED BY <1>1, <1>7, <1>9, <2>1, Static DEF Inv, Typed, Stepping
<1>11. Working' /\ Staged' BY <1>1, WorkingKept, StagedKept DEF Inv, Typed
<1>12. Counted'
      <2>1. \A a \in App : waiting'[a] > 0 => a \in phase' BY <1>1
      <2>2. \A a \in newly' : waiting'[a] = 0
            <3> SUFFICES ASSUME NEW a \in newly' PROVE waiting'[a] = 0
                OBVIOUS
            <3>1. a \in App /\ a \in phase' /\ Dependencies(a) = {} BY <1>1, <1>4
            <3> QED BY <1>1, <1>6, <3>1
      <2>3. \A a \in App : ~apps'[a].prepared BY <1>1, Quiet
      <2>4. \A a \in phase' : waiting'[a] = Cardinality(Dependencies(a) \cap Unfinished')
            <3> SUFFICES ASSUME NEW a \in phase'
                         PROVE  waiting'[a] = Cardinality(Dependencies(a) \cap Unfinished')
                OBVIOUS
            <3>1. a \in App BY <1>4
            <3>2. Dependencies(a) \subseteq phase' BY <1>3, <1>4, <3>1, DependenciesType
            <3>3. Dependencies(a) \cap Unfinished' = Dependencies(a) BY <1>8, <3>2
            <3> QED BY <1>1, <3>1, <3>3
      <2>5. ASSUME NEW a \in App, a \notin started' \/ waiting'[a] > 0 \/ a \in newly'
            PROVE  apps'[a] = Idle
            <3>1. a \notin started BY <1>1, <1>4, <2>1, <2>5
            <3> QED BY <1>1, <3>1 DEF Inv, Counted
      <2> QED BY <1>1, <2>1, <2>2, <2>3, <2>4, <2>5, Static DEF Counted, Idle, NoBaseline
<1>13. Sound' BY <1>1, SoundKept DEF Inv
<1>14. Active /\ Active' BY <1>1 DEF Active
<1>15. Channelled' /\ Ended' /\ Reported'
      BY <1>1, <1>2, <1>14 DEF Inv, Channelled, Ended, Reported, Active
<1>16. Offered' BY <1>1 DEF Offered, NeverStalled
<1>17. Progressed'
      <2>1. \A b \in started' \ Unfinished' : Recorded(b)'
            <3>1. Unfinished = {} BY <1>1 DEF Inv, Counted
            <3>2. \A b \in started : Recorded(b) BY <3>1 DEF Inv, Progressed
            <3>3. \A b \in started : Recorded(b)' BY <1>1, <3>2, Static DEF Recorded
            <3> QED BY <1>1, <1>8, <3>3
      <2>2. \A a \in App' : ~apps'[a].prepared BY <1>1, Quiet, Static
      <2> QED BY <2>1, <2>2 DEF Progressed
<1> QED BY <1>5, <1>10, <1>11, <1>12, <1>13, <1>15, <1>16, <1>17 DEF Inv, Typed

----------------------------------------------------------------------------
(* An application is finished, or prepared.                                  *)

\* What finishes is what no longer waits, is newly ready or prepared; whoever
\* depended on it waits for one less.
LEMMA FinishKeeps ==
    ASSUME Stepping, Counted, UNCHANGED config, UNCHANGED <<phase, started>>,
           NEW a \in Unfinished, waiting[a] = 0, Finish(a), pc' = "prepare",
           ~apps'[a].prepared, \A b \in App \ {a} : apps'[b] = apps[b]
    PROVE  /\ Unfinished' = Unfinished \ {a} /\ Counted'
           /\ waiting' \in [App -> Nat] /\ newly' \subseteq phase
<1> DEFINE after == {b \in phase : a \in Dependencies(b)}
<1>1. /\ waiting' = [b \in App |-> IF b \in after THEN waiting[b] - 1 ELSE waiting[b]]
      /\ newly' = (newly \ {a}) \cup {b \in after : waiting[b] = 1}
      BY DEF Finish
<1>2. /\ builders \in Configurations /\ phase \subseteq started /\ started \subseteq App
      /\ newly \subseteq phase /\ waiting \in [App -> Nat]
      BY DEF Stepping
<1>3. a \in phase /\ a \in App BY <1>2 DEF Unfinished
<1>4. Unfinished \in SUBSET phase BY DEF Unfinished
<1>5. ASSUME NEW b \in after
      PROVE  /\ b \in App /\ b # a /\ waiting[b] > 0 /\ b \notin newly /\ b \in Unfinished
             /\ waiting[b] - 1 = Cardinality(Dependencies(b) \cap (Unfinished \ {a}))
      <2>1. b \in App /\ b \in phase /\ a \in Dependencies(b) BY <1>2
      <2>2. IsFiniteSet(Dependencies(b) \cap Unfinished)
            BY <1>2, <2>1, DependenciesType, FS_Subset
      <2>3. a \in Dependencies(b) \cap Unfinished BY <2>1
      <2>4. /\ Cardinality((Dependencies(b) \cap Unfinished) \ {a})
                   = Cardinality(Dependencies(b) \cap Unfinished) - 1
            BY <2>2, <2>3, FS_RemoveElement
      <2>5. (Dependencies(b) \cap Unfinished) \ {a} = Dependencies(b) \cap (Unfinished \ {a})
            OBVIOUS
      <2>6. waiting[b] = Cardinality(Dependencies(b) \cap Unfinished) BY <2>1 DEF Counted
      <2>7. waiting[b] # 0
            <3>1. Dependencies(b) \cap Unfinished # {} BY <2>3
            <3> QED BY <2>2, <2>6, <3>1, FS_EmptySet
      <2>8. waiting[b] > 0 BY <1>2, <2>1, <2>7
      <2>9. b # a BY <1>2, <2>1, DependenciesType
      <2>10. b \notin newly /\ b \in Unfinished BY <2>1, <2>7, <2>8 DEF Counted, Unfinished
      <2> QED BY <2>1, <2>4, <2>5, <2>6, <2>8, <2>9, <2>10
<1>6. a \notin after BY <1>5
<1> HIDE DEF after
<1>7. waiting'[a] = 0 /\ a \notin newly' BY <1>1, <1>3, <1>6
<1>8. waiting' \in [App -> Nat]
      <2>1. \A b \in after : b \in App /\ waiting[b] > 0 BY <1>5
      <2>2. \A b \in App : (IF b \in after THEN waiting[b] - 1 ELSE waiting[b]) \in Nat
            BY <1>2, <2>1
      <2> QED BY <1>1, <2>2
<1>9. after \in SUBSET phase BY DEF after
<1>10. newly' \subseteq phase BY <1>1, <1>2, <1>9
<1>11. ASSUME NEW b \in phase, b # a PROVE b \in Unfinished' <=> b \in Unfinished
      <2>1. b \in App /\ apps'[b] = apps[b] /\ phase' = phase BY <1>2, <1>11
      <2>2. CASE b \in after
            <3>1. b \in Unfinished /\ waiting[b] > 0 /\ waiting[b] \in Nat BY <1>2, <1>5, <2>1, <2>2
            <3>2. waiting'[b] = waiting[b] - 1 BY <1>1, <2>1, <2>2
            <3>3. waiting[b] = 1 => b \in newly' BY <1>1, <2>2
            <3>4. waiting'[b] > 0 \/ b \in newly' BY <3>1, <3>2, <3>3
            <3> QED BY <2>1, <3>1, <3>4 DEF Unfinished
      <2>3. CASE b \notin after
            <3>1. waiting'[b] = waiting[b] /\ (b \in newly' <=> b \in newly)
                  BY <1>1, <1>11, <2>1, <2>3
            <3> QED BY <2>1, <3>1 DEF Unfinished
      <2> QED BY <2>2, <2>3
<1>12. a \notin Unfinished' BY <1>7 DEF Unfinished
<1>13. Unfinished' = Unfinished \ {a}
      <2>1. \A b \in Unfinished' : b \in phase BY DEF Unfinished
      <2>2. \A b \in Unfinished : b \in phase BY DEF Unfinished
      <2> QED BY <1>11, <1>12, <2>1, <2>2
<1>14. ASSUME NEW b \in App, waiting'[b] > 0 PROVE waiting[b] > 0
      <2>1. CASE b \in after BY <1>5, <2>1
      <2>2. CASE b \notin after BY <1>1, <1>14, <2>2
      <2> QED BY <2>1, <2>2
<1>15. \A b \in App : waiting'[b] > 0 => b \in phase BY <1>14 DEF Counted
<1>16. ASSUME NEW b \in newly' PROVE waiting'[b] = 0
      <2>1. b \in App BY <1>2, <1>10
      <2>2. CASE b \in after
            <3>1. waiting[b] = 1 BY <1>1, <1>5, <2>2
            <3> QED BY <1>1, <2>1, <2>2, <3>1
      <2>3. CASE b \notin after
            <3>1. b \in newly BY <1>1, <2>3
            <3> QED BY <1>1, <2>1, <2>3, <3>1 DEF Counted
      <2> QED BY <2>2, <2>3
<1>17. ASSUME NEW b \in App, apps'[b].prepared
       PROVE  b \in phase \ newly' /\ waiting'[b] = 0
      <2>1. b # a /\ apps[b].prepared BY <1>17
      <2>2. b \in phase /\ b \notin newly /\ waiting[b] = 0 BY <2>1 DEF Counted
      <2>3. ASSUME b \in after PROVE FALSE
            <3>1. waiting[b] > 0 BY <1>5, <2>3
            <3> QED BY <2>2, <3>1
      <2> QED BY <1>1, <2>2, <2>3
<1>18. ASSUME NEW b \in phase
       PROVE  waiting'[b] = Cardinality(Dependencies(b) \cap (Unfinished \ {a}))
      <2>1. b \in App BY <1>2
      <2>2. CASE b \in after BY <1>1, <1>5, <2>1, <2>2
      <2>3. CASE b \notin after
            <3>1. a \notin Dependencies(b) BY <2>3 DEF after
            <3>2. Dependencies(b) \cap (Unfinished \ {a}) = Dependencies(b) \cap Unfinished
                  BY <3>1
            <3> QED BY <1>1, <2>1, <2>3, <3>2 DEF Counted
      <2> QED BY <2>2, <2>3
<1>19. ASSUME NEW b \in App, b \notin started \/ waiting'[b] > 0 \/ b \in newly'
       PROVE  apps'[b] = Idle
      <2>1. b # a BY <1>2, <1>3, <1>7, <1>19
      <2>2. b \notin started \/ waiting[b] > 0 \/ b \in newly
            <3>1. CASE b \in newly'
                  <4>1. b \in newly \/ b \in after BY <1>1, <3>1
                  <4> QED BY <1>5, <4>1
            <3> QED BY <1>14, <1>19, <3>1
      <2> QED BY <2>1, <2>2 DEF Counted
<1>20. Counted'
      <2>1. App' = App /\ (\A b : Dependencies(b)' = Dependencies(b)) /\ phase' = phase
            /\ started' = started
            BY Static
      <2>2. Idle' = Idle BY DEF Idle, NoBaseline
      <2> QED BY <1>13, <1>15, <1>16, <1>17, <1>18, <1>19, <2>1, <2>2 DEF Counted
<1> QED BY <1>8, <1>10, <1>13, <1>20

\* A newly ready application is as it was, and nobody has a lease of it.
LEMMA Untouched ==
    ASSUME Inv, NEW a \in newly
    PROVE  /\ a \in App /\ a \in phase /\ a \in Unfinished /\ waiting[a] = 0
           /\ apps[a] = Idle /\ ~apps[a].prepared
           /\ Held(a) = {} /\ Flight(a) = {} /\ \A w \in Worker : running[w] # NoLease => running[w].app # a
<1>1. a \in App /\ a \in phase BY DEF Inv, Typed, Stepping
<1>2. a \in Unfinished BY <1>1 DEF Unfinished
<1>3. waiting[a] = 0 /\ apps[a] = Idle BY <1>1 DEF Inv, Counted
<1>4. ~apps[a].prepared BY <1>3 DEF Idle
<1>5. \A w \in Worker : running[w] # NoLease => running[w].app # a
      BY <1>4 DEF Inv, Sound, LeaseFits
<1>6. Held(a) = {} BY <1>5 DEF Held
<1>7. Flight(a) = {} BY <1>6 DEF Flight
<1> QED BY <1>1, <1>2, <1>3, <1>4, <1>5, <1>6, <1>7

LEMMA RecordMissingKeeps ==
    ASSUME Staged, NEW xs \in SUBSET Pairs, transaction' = RecordMissing(transaction, xs)
    PROVE  /\ Staged' /\ transaction'.seen = transaction.seen
           /\ transaction'.missing = transaction.missing \cup xs
           /\ transaction'.previous = transaction.previous
<1>1. PICK seen : seen = transaction.seen OBVIOUS
<1>2. transaction \in Transactions(seen) BY <1>1 DEF Staged
<1>3. /\ transaction'.seen = transaction.seen /\ transaction'.previous = transaction.previous
      /\ transaction'.missing = transaction.missing \cup xs
      /\ transaction'.written = transaction.written \ xs
      /\ transaction'.deleted = transaction.deleted \cup xs
      BY <1>2 DEF RecordMissing, Transactions
<1>4. transaction' \in Transactions(seen) BY <1>2 DEF RecordMissing, Transactions
<1>5. transaction' \in Transactions(transaction'.seen) BY <1>1, <1>3, <1>4
<1>6. transaction'.written \cap transaction'.deleted = {} BY <1>3 DEF Staged
<1>7. /\ transaction'.seen \in [DOMAIN transaction'.seen -> Views]
      /\ DOMAIN transaction'.seen \subseteq Pairs
      BY <1>3 DEF Staged
<1>8. Staged' BY <1>5, <1>6, <1>7 DEF Staged
<1> QED BY <1>3, <1>8

LEMMA PrepareKeeps ==
    ASSUME Inv, NEW a \in App, Prepare(a)
    PROVE  Inv'
<1> DEFINE gone == MissingInputs(transaction, a)
           left == {i \in DOMAIN builders[a].inputs : <<a, i>> \notin gone}
<1>1. /\ pc = "prepare" /\ a \in newly /\ transaction' = RecordMissing(transaction, gone)
      /\ UNCHANGED config /\ UNCHANGED <<threads, failures>>
      /\ UNCHANGED <<pc, phase, started, baseline, made, cursor, running, packages, outcome>>
      BY DEF Prepare
<1>2. UNCHANGED <<lane, completions, resident, exited>> BY <1>1 DEF threads
<1>3. /\ a \in phase /\ a \in Unfinished /\ waiting[a] = 0 /\ apps[a] = Idle
      /\ ~apps[a].prepared /\ Held(a) = {} /\ Flight(a) = {}
      /\ \A w \in Worker : running[w] # NoLease => running[w].app # a
      BY <1>1, Untouched
<1>4. builders \in Configurations /\ apps \in [App -> Applications]
      BY DEF Inv, Typed, Stepping
<1>5. DOMAIN builders[a].inputs \in SUBSET Nat /\ IsFiniteSet(DOMAIN builders[a].inputs)
      BY <1>4, Shapes
<1>6. gone \in SUBSET Actions(a) /\ gone \in SUBSET Pairs BY <1>4, Shapes DEF MissingInputs
<1>7. left \in SUBSET Nat /\ IsFiniteSet(left) BY <1>5, FS_Subset
<1>8. \A i \in DOMAIN builders[a].inputs : i \in left \/ <<a, i>> \in gone OBVIOUS
<1>9. left \subseteq DOMAIN builders[a].inputs OBVIOUS
<1>10. CASE left = {}
       <2>1. Finish(a) /\ apps' = apps BY <1>1, <1>10 DEF Prepare
       <2>2. Actions(a) \subseteq gone BY <1>8, <1>10 DEF Actions
       <2> HIDE DEF gone, left
       <2>3. PICK g : g = gone OBVIOUS
       <2>4. /\ Staged' /\ transaction'.seen = transaction.seen
             /\ transaction'.missing = transaction.missing \cup gone
             BY <1>1, <1>6, <2>3, RecordMissingKeeps DEF Inv, Typed
       <2>5. /\ Unfinished' = Unfinished \ {a} /\ Counted'
             /\ waiting' \in [App -> Nat] /\ newly' \subseteq phase
             <3>1. ~apps'[a].prepared /\ \A b \in App \ {a} : apps'[b] = apps[b] BY <1>3, <2>1
             <3>2. Stepping /\ Counted /\ pc' = "prepare" /\ UNCHANGED <<phase, started>>
                   BY <1>1 DEF Inv, Typed
             <3> QED BY <1>1, <1>3, <2>1, <3>1, <3>2, FinishKeeps
       <2>6. Stepping' BY <1>1, <2>1, <2>5, Static DEF Inv, Typed, Stepping
       <2>7. Working' /\ Whole' BY <1>1, WorkingKept, WholeKept DEF Inv, Typed
       <2>8. Sound' BY <1>1, <2>1, SoundKept DEF Inv
       <2>9. Channelled' /\ Ended' /\ Reported'
             BY <1>1, <1>2, <2>1, ChannelledKept, EndedKept, ReportedKept DEF Inv
       <2>10. Offered' BY <1>1 DEF Offered, NeverStalled
       <2>11. Progressed'
              <3>1. \A b \in App : Recorded(b) => Recorded(b)' BY <2>4, Static, <1>1 DEF Recorded
              <3>2. Recorded(a)' BY <1>1, <2>2, <2>4, Static DEF Recorded
              <3>3. \A b \in started' \ Unfinished' : Recorded(b)'
                    <4>1. \A b \in started \ Unfinished : Recorded(b) BY DEF Inv, Progressed
                    <4>2. started \subseteq App BY DEF Inv, Typed, Stepping
                    <4> QED BY <1>1, <2>5, <3>1, <3>2, <4>1, <4>2
              <3>4. \A b : Flight(b)' = Flight(b) BY <1>1 DEF Flight, Held
              <3> QED BY SMTT(20), <1>1, <2>1, <2>4, <3>3, <3>4, Static DEF Inv, Progressed
       <2> QED BY <2>4, <2>5, <2>6, <2>7, <2>8, <2>9, <2>10, <2>11 DEF Inv, Typed
<1>11. CASE left # {}
       <2>1. /\ apps' = [apps EXCEPT ![a].specs = InOrder(left), ![a].prepared = TRUE]
             /\ newly' = newly \ {a} /\ waiting' = waiting
             BY <1>1, <1>11 DEF Prepare
       <2> HIDE DEF gone, left
       <2>2. PICK g : g = gone OBVIOUS
       <2>3. /\ Staged' /\ transaction'.seen = transaction.seen
             /\ transaction'.missing = transaction.missing \cup gone
             BY <1>1, <1>6, <2>2, RecordMissingKeeps DEF Inv, Typed
       <2>4. PICK s : s = InOrder(left) OBVIOUS
       <2>5. /\ s \in Seq(left) /\ s \in Seq(Nat) /\ Len(s) \in Nat /\ Len(s) > 0
             /\ \A i \in left : \E k \in 1..Len(s) : s[k] = i
             <3>1. PICK x : x = left OBVIOUS
             <3>2. /\ InOrder(x) \in Seq(x) /\ Len(InOrder(x)) = Cardinality(x)
                   /\ \A i \in x : \E k \in 1..Cardinality(x) : InOrder(x)[k] = i
                   BY <1>7, <3>1, InOrderHasAll
             <3>3. Cardinality(x) \in Nat /\ Cardinality(x) # 0
                   BY <1>7, <1>11, <3>1, FS_CardinalityType, FS_EmptySet
             <3>4. s \in Seq(left) /\ Len(s) = Cardinality(x) BY <2>4, <3>1, <3>2
             <3>5. s \in Seq(Nat) BY <1>7, <2>4, <3>1, InOrderHasAll
             <3> QED BY <2>4, <3>1, <3>2, <3>3, <3>4, <3>5
       <2>6. /\ apps' \in [App -> Applications] /\ DOMAIN apps' = App
             /\ apps'[a].specs = s /\ apps'[a].prepared /\ apps'[a].next = 1
             /\ apps'[a].inFlight = 0 /\ apps'[a].completed = 0
             /\ \A b \in App \ {a} : apps'[b] = apps[b]
             <3>1. apps[a] \in Applications BY <1>4
             <3>2. PICK t \in Flag : t = TRUE BY DEF Flag
             <3>3. apps' = [apps EXCEPT ![a].specs = s, ![a].prepared = t] BY <2>1, <2>4, <3>2
             <3>4. apps' \in [App -> Applications] BY <1>4, <2>5, <3>1, <3>3 DEF Applications
             <3>5. apps'[a].prepared = t /\ apps'[a].specs = s
                   BY <1>4, <3>1, <3>3 DEF Applications
             <3>6. apps'[a].next = 1 /\ apps'[a].inFlight = 0 /\ apps'[a].completed = 0
                   BY <1>3, <1>4, <3>1, <3>3 DEF Idle
             <3>7. \A b \in App \ {a} : apps'[b] = apps[b] BY <1>4, <3>3
             <3> QED BY <3>2, <3>4, <3>5, <3>6, <3>7
       <2>7. Stepping' BY <1>1, <2>1, <2>6, Static DEF Inv, Typed, Stepping
       <2>8. Working' /\ Whole' BY <1>1, WorkingKept, WholeKept DEF Inv, Typed
       <2>9. Unfinished' = Unfinished
             <3>1. \A b \in phase : b \in App BY DEF Inv, Typed, Stepping
             <3>2. a \in Unfinished' BY <1>1, <1>3, <2>6 DEF Unfinished
             <3>3. \A b \in phase \ {a} : b \in Unfinished' <=> b \in Unfinished
                   BY <1>1, <2>1, <2>6, <3>1 DEF Unfinished
             <3>4. Unfinished' \subseteq phase /\ Unfinished \subseteq phase BY <1>1 DEF Unfinished
             <3> QED BY <1>3, <3>2, <3>3, <3>4
       <2>10. Counted'
              <3>1. \A b \in App : apps'[b].prepared => b \in phase \ newly' /\ waiting'[b] = 0
                    BY <1>3, <2>1, <2>6 DEF Inv, Counted
              <3>2. \A b \in App : b \notin started \/ waiting'[b] > 0 \/ b \in newly' => apps'[b] = Idle
                    <4>1. a \in started BY <1>3 DEF Inv, Typed, Stepping
                    <4>2. ~(waiting[a] > 0) BY <1>3
                    <4> QED BY <2>1, <2>6, <4>1, <4>2 DEF Inv, Counted
              <3>3. Idle' = Idle BY DEF Idle, NoBaseline
              <3> QED BY <1>1, <2>1, <2>9, <3>1, <3>2, <3>3, Static DEF Inv, Counted
       <2>11. \A b : Held(b)' = Held(b) /\ Flight(b)' = Flight(b) BY <1>1 DEF Flight, Held
       <2>12. Sound'
              <3>1. \A w \in Worker : running'[w] # NoLease => LeaseFits(w)'
                    <4> SUFFICES ASSUME NEW w \in Worker, running[w] # NoLease
                                 PROVE  LeaseFits(w)'
                        BY <1>1
                    <4>1. LeaseFits(w) BY DEF Inv, Sound
                    <4>2. running[w].app \in App \ {a} BY <1>3, <4>1 DEF LeaseFits
                    <4>3. apps'[running[w].app] = apps[running[w].app] BY <2>6, <4>2
                    <4>4. running' = running BY <1>1
                    <4> QED BY <4>1, <4>3, <4>4, Static, <1>1 DEF LeaseFits
              <3>2. InputsLeasedOnce'
                    <4>1. ASSUME NEW b \in App, apps'[b].prepared
                          PROVE  /\ Cardinality(Held(b)) = apps'[b].inFlight
                                 /\ \A v, w \in Held(b) : v # w =>
                                       (running[v].lo..running[v].hi) \cap (running[w].lo..running[w].hi) = {}
                                 /\ apps'[b].completed + Cardinality(Flight(b)) + 1 = apps'[b].next
                          <5>1. CASE b = a
                                <6>1. Cardinality(Held(a)) = 0 /\ Cardinality(Flight(a)) = 0
                                      BY <1>3, FS_EmptySet
                                <6> QED BY <1>3, <2>6, <5>1, <6>1
                          <5>2. CASE b # a
                                <6>1. apps'[b] = apps[b] BY <2>6, <5>2
                                <6>2. InputsLeasedOnce BY DEF Inv, Sound
                                <6> QED BY <4>1, <6>1, <6>2 DEF InputsLeasedOnce, Held, Flight
                          <5> QED BY <5>1, <5>2
                    <4>2. ASSUME NEW b \in App', apps'[b].prepared
                          PROVE  /\ Cardinality(Held(b)') = apps'[b].inFlight
                                 /\ \A v, w \in Held(b)' : v # w =>
                                       (running'[v].lo..running'[v].hi) \cap (running'[w].lo..running'[w].hi) = {}
                                 /\ apps'[b].completed + Cardinality(Flight(b)') + 1 = apps'[b].next
                          <5>1. b \in App /\ running' = running BY <1>1, <4>2, Static
                          <5>2. Held(b)' = Held(b) /\ Flight(b)' = Flight(b) BY <2>11
                          <5> QED BY <4>1, <4>2, <5>1, <5>2
                    <4> QED BY <4>2 DEF InputsLeasedOnce, Held, Flight
              <3>3. \A b \in App : apps'[b].prepared => /\ 1 <= apps'[b].next
                                                        /\ apps'[b].next <= Len(apps'[b].specs) + 1
                                                        /\ apps'[b].completed < Len(apps'[b].specs)
                    <4> SUFFICES ASSUME NEW b \in App, apps'[b].prepared
                                 PROVE  /\ 1 <= apps'[b].next
                                        /\ apps'[b].next <= Len(apps'[b].specs) + 1
                                        /\ apps'[b].completed < Len(apps'[b].specs)
                        OBVIOUS
                    <4>1. CASE b = a BY <2>5, <2>6, <4>1
                    <4>2. CASE b # a BY <2>6, <4>2 DEF Inv, Sound
                    <4> QED BY <4>1, <4>2
              <3> QED BY <1>1, <3>1, <3>2, <3>3, Static DEF Sound
       <2>13. Channelled' /\ Ended' /\ Reported'
              BY <1>1, <1>2, <2>1, ChannelledKept, EndedKept, ReportedKept DEF Inv
       <2>14. Offered' BY <1>1 DEF Offered, NeverStalled
       <2>15. Progressed'
              <3>1. \A b : Recorded(b) => Recorded(b)' BY <2>3, Static, <1>1 DEF Recorded
              <3>2. \A b \in started' \ Unfinished' : Recorded(b)'
                    BY <1>1, <2>9, <3>1 DEF Inv, Progressed
              <3>3. ASSUME NEW b \in App, apps'[b].prepared
                    PROVE  /\ \A k \in 1..Len(apps'[b].specs) :
                                 apps'[b].specs[k] \in DOMAIN builders[b].inputs
                           /\ \A i \in DOMAIN builders[b].inputs :
                                 \/ <<b, i>> \in transaction'.missing
                                 \/ \E k \in 1..Len(apps'[b].specs) : apps'[b].specs[k] = i
                           /\ \A k \in 1..(apps'[b].next - 1) :
                                 k \in Flight(b) \/ <<b, apps'[b].specs[k]>> \in DOMAIN transaction'.seen
                    <4>1. CASE b = a
                          <5>1. \A k \in 1..Len(s) : s[k] \in DOMAIN builders[a].inputs
                                <6>1. \A k \in 1..Len(s) : s[k] \in left BY <2>5
                                <6> QED BY <1>9, <6>1
                          <5>2. \A i \in DOMAIN builders[a].inputs :
                                   <<a, i>> \in transaction'.missing \/ \E k \in 1..Len(s) : s[k] = i
                                BY <1>8, <2>3, <2>5
                          <5>3. 1..(apps'[a].next - 1) = {} BY <2>6
                          <5> QED BY <2>6, <4>1, <5>1, <5>2, <5>3
                    <4>2. CASE b # a
                          <5>1. apps'[b] = apps[b] BY <2>6, <4>2
                          <5>2. transaction.missing \subseteq transaction'.missing BY <2>3
                          <5> QED BY <2>3, <3>3, <5>1, <5>2 DEF Inv, Progressed
                    <4> QED BY <4>1, <4>2
              <3> QED BY <1>1, <2>11, <3>2, <3>3, Static DEF Progressed
       <2> QED BY <2>3, <2>7, <2>8, <2>10, <2>12, <2>13, <2>14, <2>15 DEF Inv, Typed
<1> QED BY <1>10, <1>11

----------------------------------------------------------------------------
(* A lease is sent.                                                          *)

\* A share of what is left is no more than what is left.
LEMMA ShareIsLess ==
    ASSUME NEW r \in Nat, NEW d \in Nat \ {0}
    PROVE  r \div d <= r
<1>1. PICK q \in Int : q = r \div d OBVIOUS
<1>2. d * q <= r BY <1>1
<1>3. CASE q <= 0 BY <1>1, <1>3
<1>4. CASE q > 0
      <2>1. q <= d * q BY <1>4
      <2> QED BY <1>1, <1>2, <2>1
<1> QED BY <1>3, <1>4

LEMMA BatchFits ==
    ASSUME Stepping, NEW a \in App, Remaining(a) > 0, NEW n \in BatchSizes(a)
    PROVE  n \in Nat /\ 1 <= n /\ n <= Remaining(a)
<1>1. apps[a] \in Applications BY DEF Stepping
<1>2. Remaining(a) \in Nat BY <1>1 DEF Remaining, Applications
<1>3. PICK d \in Nat \ {0} : d = 2 * IF shared THEN Workers ELSE 1 BY WorkersAssumption
<1>4. Remaining(a) \div d <= Remaining(a) BY <1>2, <1>3, ShareIsLess
<1>5. n \in 1..16 /\ (n = 1 \/ n <= Remaining(a) \div d) BY <1>3 DEF BatchSizes
<1>6. Remaining(a) \div d \in Int BY <1>2, <1>3
<1> QED BY <1>2, <1>4, <1>5, <1>6

\* The baseline of a first lease is the staged view.
LEMMA BaselineType ==
    ASSUME Inv, NEW a
    PROVE  BaselineFor(a) \in Baselines
<1>1. PICK seen : seen = transaction.seen OBVIOUS
<1>2. transaction \in Transactions(seen) BY <1>1 DEF Inv, Typed, Staged
<1>3. transaction.written \in SUBSET Pairs /\ transaction.deleted \in SUBSET Pairs
      BY <1>2 DEF Transactions
<1>4. baseline \in Baselines /\ made \in Nat BY DEF Inv, Typed, Stepping
<1> QED BY <1>3, <1>4 DEF BaselineFor, Baselines

\* What is in flight are finitely many of the inputs that were leased.
LEMMA FlightFits ==
    ASSUME Inv, NEW a \in App, apps[a].prepared
    PROVE  /\ IsFiniteSet(Held(a)) /\ Held(a) \in SUBSET Worker
           /\ Cardinality(Held(a)) = apps[a].inFlight
           /\ IsFiniteSet(Flight(a)) /\ Cardinality(Flight(a)) \in Nat
           /\ \A k \in Flight(a) : k \in Nat /\ 1 <= k /\ k < apps[a].next
           /\ apps[a].completed + Cardinality(Flight(a)) + 1 = apps[a].next
           /\ apps[a].next \in Nat /\ apps[a].completed \in Nat /\ apps[a].inFlight \in Nat
           /\ apps[a].specs \in Seq(Nat) /\ Len(apps[a].specs) \in Nat
           /\ \A v, w \in Held(a) : v # w =>
                 (running[v].lo..running[v].hi) \cap (running[w].lo..running[w].hi) = {}
<1>1. /\ Cardinality(Held(a)) = apps[a].inFlight
      /\ apps[a].completed + Cardinality(Flight(a)) + 1 = apps[a].next
      /\ \A v, w \in Held(a) : v # w =>
            (running[v].lo..running[v].hi) \cap (running[w].lo..running[w].hi) = {}
      <2>1. InputsLeasedOnce BY DEF Inv, Sound
      <2> QED BY <2>1 DEF InputsLeasedOnce, Held, Flight
<1>2. apps[a] \in Applications BY DEF Inv, Typed, Stepping
<1>3. apps[a].next \in Nat /\ apps[a].completed \in Nat /\ apps[a].inFlight \in Nat
      /\ apps[a].specs \in Seq(Nat) /\ Len(apps[a].specs) \in Nat
      BY <1>2 DEF Applications
<1>4. Worker = 1..Workers /\ IsFiniteSet(Worker)
      BY WorkersAssumption, FS_Interval DEF Worker
<1>5. Held(a) \in SUBSET Worker BY DEF Held
<1>6. IsFiniteSet(Held(a)) BY <1>4, <1>5, FS_Subset
<1>7. ASSUME NEW k \in Flight(a) PROVE k \in Nat /\ 1 <= k /\ k < apps[a].next
      <2>1. PICK w \in Held(a) : k \in running[w].lo..running[w].hi BY DEF Flight
      <2>2. w \in Worker /\ running[w] # NoLease /\ running[w].app = a BY <2>1 DEF Held
      <2>3. LeaseFits(w) BY <2>2 DEF Inv, Sound
      <2>4. running[w] \in Leases BY <2>2 DEF Inv, Typed, Stepping
      <2>5. running[w].lo \in Nat /\ running[w].hi \in Nat BY <2>4 DEF Leases
      <2>6. 1 <= running[w].lo /\ running[w].hi < apps[a].next BY <2>2, <2>3 DEF LeaseFits
      <2> QED BY <1>3, <2>1, <2>5, <2>6
<1>8. IsFiniteSet(Flight(a))
      <2>1. Flight(a) \in SUBSET (1..apps[a].next)
            <3>1. \A k \in Flight(a) : k \in 1..apps[a].next BY <1>3, <1>7
            <3> QED BY <3>1
      <2>2. PICK m \in Nat : m = apps[a].next BY <1>3
      <2>3. IsFiniteSet(1..m) BY FS_Interval
      <2> QED BY <2>1, <2>2, <2>3, FS_Subset
<1>9. Cardinality(Flight(a)) \in Nat BY <1>8, FS_CardinalityType
<1> QED BY <1>1, <1>3, <1>5, <1>6, <1>7, <1>8, <1>9

\* Adding an interval beyond what is in flight.
LEMMA IntervalCounts ==
    ASSUME NEW S, IsFiniteSet(S), NEW lo \in Nat, NEW hi \in Nat, lo <= hi,
           S \cap (lo..hi) = {}
    PROVE  Cardinality(S \cup (lo..hi)) = Cardinality(S) + (hi + 1 - lo)
<1>1. IsFiniteSet(lo..hi) /\ Cardinality(lo..hi) = hi + 1 - lo BY FS_Interval
<1>2. Cardinality(S \cup (lo..hi)) = Cardinality(S) + Cardinality(lo..hi) - Cardinality(S \cap (lo..hi))
      BY <1>1, FS_Union
<1>3. Cardinality(S \cap (lo..hi)) = 0 BY FS_EmptySet
<1>4. Cardinality(S) \in Nat BY FS_CardinalityType
<1> QED BY <1>1, <1>2, <1>3, <1>4

LEMMA LeaseKeeps ==
    ASSUME Inv, NEW w \in Worker, Lease(w)
    PROVE  Inv'
<1>1. /\ pc = "lease" /\ cursor = w /\ running[w] = NoLease /\ Candidates(w) # {}
      /\ cursor' = w + 1 /\ UNCHANGED config
      /\ UNCHANGED <<pc, phase, started, newly, waiting, transaction, outcome, completions,
                     resident, exited, failures>>
      BY DEF Lease
<1>2. PICK a \in Candidates(w) : a = Preferred(w)
      BY <1>1, PreferredIsOne DEF Inv, Typed
<1>3. PICK b : b = IF apps[a].baseline = NoBaseline THEN BaselineFor(a) ELSE apps[a].baseline
      OBVIOUS
<1>4. PICK n \in BatchSizes(a) :
        LET l == [app |-> a, lo |-> Take(a, n).lo, hi |-> Take(a, n).hi,
                  specs |-> apps[a].specs, baseline |-> b]
        IN  /\ lane' = [lane EXCEPT ![w] = l]
            /\ running' = [running EXCEPT ![w] = l]
            /\ apps' = [apps EXCEPT ![a].next = @ + n, ![a].inFlight = @ + 1,
                                    ![a].baseline = b, ![a].owner = IF @ = 0 THEN w ELSE @]
            /\ packages' = [packages EXCEPT ![w] = builders[a].package]
            /\ IF b.id > made THEN made' = b.id /\ baseline' = b
                              ELSE UNCHANGED <<made, baseline>>
      BY <1>2, <1>3, Zenon DEF Lease
<1>5. PICK l : /\ l = [app |-> a, lo |-> Take(a, n).lo, hi |-> Take(a, n).hi,
                       specs |-> apps[a].specs, baseline |-> b]
               /\ lane' = [lane EXCEPT ![w] = l] /\ running' = [running EXCEPT ![w] = l]
               /\ apps' = [apps EXCEPT ![a].next = @ + n, ![a].inFlight = @ + 1,
                                       ![a].baseline = b,
                                       ![a].owner = IF @ = 0 THEN w ELSE @]
               /\ IF b.id > made THEN made' = b.id /\ baseline' = b
                                 ELSE UNCHANGED <<made, baseline>>
      BY <1>4
<1>6. /\ a \in phase /\ apps[a].prepared /\ Remaining(a) > 0
      /\ shared \/ (apps[a].owner \in {0, w} /\ apps[a].inFlight = 0)
      BY DEF Candidates
<1>7. /\ builders \in Configurations /\ a \in App /\ a \in started /\ a \in Nat \ {0}
      /\ apps \in [App -> Applications] /\ running \in [Worker -> Leases \cup {NoLease}]
      BY <1>6, Shapes DEF Inv, Typed, Stepping
<1>8. n \in Nat /\ 1 <= n /\ n <= Remaining(a) BY <1>6, <1>7, BatchFits DEF Inv, Typed
<1>9. /\ IsFiniteSet(Held(a)) /\ Held(a) \in SUBSET Worker
      /\ Cardinality(Held(a)) = apps[a].inFlight
      /\ IsFiniteSet(Flight(a)) /\ Cardinality(Flight(a)) \in Nat
      /\ \A k \in Flight(a) : k \in Nat /\ 1 <= k /\ k < apps[a].next
      /\ apps[a].completed + Cardinality(Flight(a)) + 1 = apps[a].next
      /\ apps[a].next \in Nat /\ apps[a].completed \in Nat /\ apps[a].inFlight \in Nat
      /\ apps[a].specs \in Seq(Nat) /\ Len(apps[a].specs) \in Nat
      BY <1>6, <1>7, FlightFits
<1>10. apps[a] \in Applications BY <1>7
<1>11. b \in Baselines
       <2>1. apps[a].baseline \in Baselines BY <1>10 DEF Applications
       <2> QED BY <1>3, <2>1, BaselineType
<1>12. /\ l.app = a /\ l.lo = apps[a].next /\ l.hi = apps[a].next + n - 1
       /\ l.specs = apps[a].specs /\ l.baseline = b /\ l \in Leases
       <2>1. Take(a, n).lo = apps[a].next /\ Take(a, n).hi = apps[a].next + n - 1 BY DEF Take
       <2>2. apps[a].next + n - 1 \in Nat BY <1>8, <1>9
       <2> QED BY <1>5, <1>7, <1>9, <1>11, <2>1, <2>2 DEF Leases
<1>13. l # NoLease
       <2>1. NoLease.app = 0 BY DEF NoLease
       <2> QED BY <1>7, <1>12, <2>1
<1>14. apps'[a] = [apps[a] EXCEPT !.next = @ + n, !.inFlight = @ + 1, !.baseline = b,
                                  !.owner = IF @ = 0 THEN w ELSE @]
       BY <1>5, <1>7
<1>15. /\ apps'[a].next = apps[a].next + n /\ apps'[a].inFlight = apps[a].inFlight + 1
       /\ apps'[a].specs = apps[a].specs /\ apps'[a].completed = apps[a].completed
       /\ apps'[a].prepared = apps[a].prepared /\ apps'[a] \in Applications
       <2>1. w \in 0..Workers /\ apps[a].owner \in 0..Workers
             BY <1>10, WorkersAssumption DEF Worker, Applications
       <2>2. PICK o \in 0..Workers : o = IF apps[a].owner = 0 THEN w ELSE apps[a].owner BY <2>1
       <2>3. apps'[a] = [apps[a] EXCEPT !.next = apps[a].next + n, !.inFlight = apps[a].inFlight + 1,
                                        !.baseline = b, !.owner = o]
             BY <1>14, <2>2
       <2>4. apps[a].next + n \in Nat /\ apps[a].inFlight + 1 \in Nat BY SMTT(20), <1>8, <1>9
       <2> QED BY <1>10, <1>11, <2>3, <2>4 DEF Applications
<1>16. /\ DOMAIN apps' = App /\ \A c \in App \ {a} : apps'[c] = apps[c]
       BY <1>5, <1>7
<1>17. apps' \in [App -> Applications] BY <1>5, <1>7, <1>15, <1>16
<1>18. /\ running'[w] = l /\ lane'[w] = l
       /\ \A v \in Worker \ {w} : running'[v] = running[v] /\ lane'[v] = lane[v]
       BY <1>5, <1>7 DEF Inv, Typed, Working
<1>n. PICK next \in Nat, len \in Nat, done \in Nat, busy \in Nat, card \in Nat :
         /\ next = apps[a].next /\ len = Len(apps[a].specs) /\ done = apps[a].completed
         /\ busy = apps[a].inFlight /\ card = Cardinality(Flight(a))
      BY <1>9
<1>m. /\ n <= len + 1 - next /\ done + card + 1 = next
      /\ l.lo = next /\ l.hi = next + n - 1 /\ apps'[a].next = next + n
      /\ apps'[a].inFlight = busy + 1 /\ apps'[a].completed = done /\ Len(apps'[a].specs) = len
      BY <1>8, <1>9, <1>12, <1>15, <1>n DEF Remaining
<1>19. Stepping'
       <2>1. running' \in [Worker -> Leases \cup {NoLease}] BY <1>5, <1>7, <1>12
       <2>2. made' \in Nat /\ baseline' \in Baselines
             BY <1>5, <1>11 DEF Inv, Typed, Stepping, Baselines
       <2>3. cursor' \in 1..(Workers + 1) BY <1>1, WorkersAssumption DEF Worker
       <2> QED BY <1>1, <1>17, <2>1, <2>2, <2>3, Static DEF Inv, Typed, Stepping
<1>20. Working'
       <2>1. lane' \in [Worker -> Leases \cup {NoLease}]
             BY <1>5, <1>12 DEF Inv, Typed, Working
       <2> QED BY <1>1, <2>1 DEF Inv, Typed, Working
<1>21. Staged' /\ Whole' BY <1>1, StagedKept, WholeKept DEF Inv, Typed
<1>22. Unfinished' = Unfinished
       <2>1. \A c \in App : apps'[c].prepared <=> apps[c].prepared BY <1>15, <1>16
       <2>2. phase \subseteq App BY DEF Inv, Typed, Stepping
       <2> QED BY <1>1, <2>1, <2>2 DEF Unfinished
<1>23. Counted'
       <2>1. \A c \in App : apps'[c].prepared => c \in phase \ newly /\ waiting[c] = 0
             BY <1>15, <1>16 DEF Inv, Counted
       <2>2. ASSUME NEW c \in App, c \notin started \/ waiting[c] > 0 \/ c \in newly
             PROVE  apps'[c] = Idle
             <3>1. a \notin newly /\ waiting[a] = 0 BY <1>6, <1>7 DEF Inv, Counted
             <3>2. c # a BY <1>7, <2>2, <3>1
             <3> QED BY <1>16, <2>2, <3>2 DEF Inv, Counted
       <2>3. Idle' = Idle BY DEF Idle, NoBaseline
       <2> QED BY <1>1, <1>22, <2>1, <2>2, <2>3, Static DEF Inv, Counted
<1>24. w \notin Held(a) /\ Held(a)' = Held(a) \cup {w}
       <2>1. NoLease' = NoLease BY DEF NoLease
       <2>2. w \notin Held(a) BY <1>1 DEF Held
       <2>3. w \in Held(a)' BY <1>12, <1>13, <1>18, <2>1 DEF Held
       <2>4. \A v \in Worker \ {w} : v \in Held(a)' <=> v \in Held(a) BY <1>18, <2>1 DEF Held
       <2>5. Held(a)' \subseteq Worker BY DEF Held
       <2> QED BY <1>9, <2>2, <2>3, <2>4, <2>5
<1>25. Flight(a)' = Flight(a) \cup (l.lo..l.hi)
       <2>1. \A v \in Held(a) : running'[v] = running[v] BY <1>9, <1>18, <1>24
       <2> QED BY <1>18, <1>24, <2>1 DEF Flight
<1>26. \A c \in App \ {a} : Held(c)' = Held(c) /\ Flight(c)' = Flight(c)
       <2> SUFFICES ASSUME NEW c \in App \ {a} PROVE Held(c)' = Held(c) /\ Flight(c)' = Flight(c)
           OBVIOUS
       <2>1. w \notin Held(c) BY <1>1 DEF Held
       <2>2. w \notin Held(c)' BY <1>12, <1>18 DEF Held
       <2>3. NoLease' = NoLease BY DEF NoLease
       <2>4. \A v \in Worker \ {w} : v \in Held(c)' <=> v \in Held(c) BY <1>18, <2>3 DEF Held
       <2>5. Held(c)' \subseteq Worker /\ Held(c) \subseteq Worker BY DEF Held
       <2>6. Held(c)' = Held(c) BY <2>1, <2>2, <2>4, <2>5
       <2>7. \A v \in Held(c) : running'[v] = running[v] BY <1>18, <2>1, <2>5
       <2> QED BY <2>6, <2>7 DEF Flight
<1>27. Sound'
       <2>1. ASSUME NEW v \in Worker, running'[v] # NoLease PROVE LeaseFits(v)'
             <3>1. CASE v = w
                   <4>1. running'[v] = l BY <1>18, <3>1
                   <4>2. 1 <= apps[a].next BY <1>6, <1>7 DEF Inv, Sound
                   <4>3. 1 <= l.lo /\ l.lo <= l.hi /\ l.hi < apps'[a].next
                         BY <1>8, <1>9, <1>12, <1>15, <4>2
                   <4>4. l.app \in App' BY <1>1, <1>7, <1>12, Static
                   <4> QED BY <1>6, <1>12, <1>15, <4>1, <4>3, <4>4 DEF LeaseFits
             <3>2. CASE v # w
                   <4>1. running'[v] = running[v] BY <1>18, <3>2
                   <4>2. LeaseFits(v) BY <2>1, <4>1 DEF Inv, Sound
                   <4>3. PICK c \in App : c = running[v].app BY <4>2 DEF LeaseFits
                   <4>4. running[v].hi \in Nat BY <1>7, <2>1, <4>1 DEF Leases
                   <4>5. /\ apps'[c].prepared = apps[c].prepared /\ apps'[c].specs = apps[c].specs
                         /\ (running[v].hi < apps[c].next => running[v].hi < apps'[c].next)
                         <5>1. CASE c = a BY <1>8, <1>9, <1>15, <4>4, <5>1
                         <5>2. CASE c # a BY <1>16, <5>2
                         <5> QED BY <5>1, <5>2
                   <4>6. App' = App BY <1>1, Static
                   <4> QED BY <4>1, <4>2, <4>3, <4>5, <4>6 DEF LeaseFits
             <3> QED BY <3>1, <3>2
       <2>2. Cardinality(Held(a)') = apps'[a].inFlight
             <3>1. PICK H : H = Held(a) OBVIOUS
             <3>2. IsFiniteSet(H) /\ w \notin H /\ Held(a)' = H \cup {w} /\ Cardinality(H) = busy
                   BY <1>9, <1>24, <1>n, <3>1
             <3> QED BY <1>m, <3>2, FS_AddElement
       <2>3. apps'[a].completed + Cardinality(Flight(a)') + 1 = apps'[a].next
             <3>1. Flight(a) \cap (l.lo..l.hi) = {} BY <1>9, <1>12
             <3>2. PICK lo \in Nat, hi \in Nat : lo = l.lo /\ hi = l.hi BY <1>12 DEF Leases
             <3>3. lo <= hi /\ hi + 1 - lo = n BY <1>8, <1>9, <1>12, <3>2
             <3>4. PICK S : S = Flight(a) OBVIOUS
             <3>5. Cardinality(S \cup (lo..hi)) = Cardinality(S) + (hi + 1 - lo)
                   BY <1>9, <3>1, <3>2, <3>3, <3>4, IntervalCounts
             <3>6. Cardinality(Flight(a)') = Cardinality(Flight(a)) + n
                   BY <1>25, <3>2, <3>3, <3>4, <3>5
             <3>7. Cardinality(Flight(a)') = card + n BY <1>n, <3>6
             <3>8. done + (card + n) + 1 = next + n BY <1>8, <1>m
             <3> QED BY <1>m, <3>7, <3>8
       <2>4. ASSUME NEW u \in Held(a)', NEW v \in Held(a)', u # v
             PROVE  (running'[u].lo..running'[u].hi) \cap (running'[v].lo..running'[v].hi) = {}
             <3>1. ASSUME NEW x \in Held(a)
                   PROVE  (running[x].lo..running[x].hi) \cap (l.lo..l.hi) = {}
                   <4>1. running[x].lo..running[x].hi \subseteq Flight(a) BY DEF Flight
                   <4>2. Flight(a) \cap (l.lo..l.hi) = {} BY <1>9, <1>12
                   <4> QED BY <4>1, <4>2
             <3>2. \A x \in Held(a) : running'[x] = running[x] /\ x # w BY <1>9, <1>18, <1>24
             <3>3. \A x, y \in Held(a) : x # y =>
                      (running[x].lo..running[x].hi) \cap (running[y].lo..running[y].hi) = {}
                   BY <1>6, <1>7, FlightFits
             <3>4. CASE u \in Held(a) /\ v \in Held(a) BY <2>4, <3>2, <3>3, <3>4
             <3>5. CASE u \in Held(a) /\ v = w BY <1>18, <3>1, <3>2, <3>5
             <3>6. CASE u = w /\ v \in Held(a) BY <1>18, <3>1, <3>2, <3>6
             <3> QED BY <1>24, <2>4, <3>4, <3>5, <3>6
       <2>5. ASSUME NEW c \in App', apps'[c].prepared
             PROVE  /\ Cardinality(Held(c)') = apps'[c].inFlight
                    /\ \A u, v \in Held(c)' : u # v =>
                          (running'[u].lo..running'[u].hi) \cap (running'[v].lo..running'[v].hi) = {}
                    /\ apps'[c].completed + Cardinality(Flight(c)') + 1 = apps'[c].next
             <3>1. c \in App BY <1>1, Static
             <3>2. CASE c = a BY <2>2, <2>3, <2>4, <3>2
             <3>3. CASE c # a
                   <4>1. Held(c)' = Held(c) /\ Flight(c)' = Flight(c) /\ apps'[c] = apps[c]
                         BY <1>16, <1>26, <3>1, <3>3
                   <4>2. \A v \in Held(c) : running'[v] = running[v]
                         <5>1. w \notin Held(c) BY <1>1 DEF Held
                         <5> QED BY <1>18, <5>1 DEF Held
                   <4>3. /\ Cardinality(Held(c)) = apps[c].inFlight
                         /\ apps[c].completed + Cardinality(Flight(c)) + 1 = apps[c].next
                         /\ \A u, v \in Held(c) : u # v =>
                               (running[u].lo..running[u].hi) \cap (running[v].lo..running[v].hi) = {}
                         BY <2>5, <3>1, <4>1, FlightFits
                   <4> QED BY <4>1, <4>2, <4>3
             <3> QED BY <3>2, <3>3
       <2>6. InputsLeasedOnce' BY <2>5 DEF InputsLeasedOnce, Held, Flight
       <2>7. ASSUME NEW c \in App, apps'[c].prepared
             PROVE  /\ 1 <= apps'[c].next /\ apps'[c].next <= Len(apps'[c].specs) + 1
                    /\ apps'[c].completed < Len(apps'[c].specs)
             <3>1. CASE c = a
                   <4>1. 1 <= apps[a].next /\ apps[a].completed < Len(apps[a].specs)
                         BY <1>6, <1>7 DEF Inv, Sound
                   <4>2. done < len BY <1>n, <4>1
                   <4>3. 1 <= next + n /\ next + n <= len + 1 BY <1>8, <1>m
                   <4> QED BY <1>m, <3>1, <4>2, <4>3
             <3>2. CASE c # a BY <1>16, <2>7, <3>2 DEF Inv, Sound
             <3> QED BY <3>1, <3>2
       <2>8. NoLease' = NoLease /\ App' = App BY <1>1, Static DEF NoLease
       <2> QED BY <2>1, <2>6, <2>7, <2>8 DEF Sound
<1>28. \A i \in DOMAIN completions : /\ completions[i].worker \in Worker \ {w}
                                     /\ completions[i].lease \in Leases
       <2> SUFFICES ASSUME NEW i \in DOMAIN completions
                    PROVE  /\ completions[i].worker \in Worker \ {w}
                           /\ completions[i].lease \in Leases
           OBVIOUS
       <2>1. completions[i] \in Completions BY DEF Inv, Typed, Working
       <2>2. completions[i].worker \in Worker /\ completions[i].lease \in Leases
             BY <2>1 DEF Completions
       <2>3. running[completions[i].worker] = completions[i].lease BY DEF Inv, Channelled
       <2>4. NoLease \notin Leases
             <3>1. \A x \in Leases : x.app # 0 BY DEF Leases
             <3>2. NoLease.app = 0 BY DEF NoLease
             <3> QED BY <3>1, <3>2
       <2> QED BY <1>1, <2>2, <2>3, <2>4
<1>29. Active /\ Active' BY <1>1 DEF Active
<1>30. Channelled'
       <2>1. \A v \in Worker : lane'[v] \in {NoLease, running'[v]}
             BY <1>18 DEF Inv, Channelled
       <2>2. \A i \in DOMAIN completions : /\ lane'[completions[i].worker] = NoLease
                                           /\ running'[completions[i].worker] = completions[i].lease
             BY <1>18, <1>28 DEF Inv, Channelled
       <2>3. NoLease' = NoLease BY DEF NoLease
       <2> QED BY <1>1, <1>29, <2>1, <2>2, <2>3 DEF Inv, Channelled
<1>31. Ended'
       <2>1. w \notin exited BY <1>28, <1>29 DEF Inv, Ended
       <2>2. exited \subseteq Worker BY DEF Inv, Typed, Working
       <2>3. \A v \in exited : lane'[v] = NoLease BY <1>18, <2>1, <2>2 DEF Inv, Ended
       <2>4. NoLease' = NoLease BY DEF NoLease
       <2> QED BY <1>1, <1>29, <2>3, <2>4 DEF Inv, Ended
<1>32. Reported' BY <1>1, <1>29 DEF Inv, Reported
<1>33. Offered'
       <2>1. ASSUME NEW v \in 1..(cursor' - 1) PROVE running'[v] # NoLease \/ Candidates(v)' = {}
             <3>1. v \in Worker /\ (v = w \/ v \in 1..(cursor - 1))
                   BY <1>1, WorkersAssumption DEF Worker
             <3>2. CASE v = w BY <1>13, <1>18, <3>2
             <3>3. CASE v # w /\ running[v] # NoLease BY <1>18, <3>1, <3>3
             <3>4. CASE v # w /\ running[v] = NoLease
                   <4>1. Candidates(v) = {} BY <1>1, <3>1, <3>4 DEF Inv, Offered
                   <4>2. ASSUME NEW c \in Candidates(v)' PROVE FALSE
                         <5>1. /\ c \in phase /\ apps'[c].prepared
                               /\ Len(apps'[c].specs) + 1 - apps'[c].next > 0
                               /\ shared \/ (apps'[c].owner \in {0, v} /\ apps'[c].inFlight = 0)
                               BY <1>1, Static DEF Candidates, Remaining
                         <5>2. c \in App BY <5>1 DEF Inv, Typed, Stepping
                         <5>3. CASE c = a
                               <6>1. apps'[a].inFlight # 0 BY <1>9, <1>15
                               <6>2. Len(apps[a].specs) + 1 - apps[a].next > 0
                                     <7>1. len + 1 - (next + n) > 0 BY <1>m, <5>1, <5>3
                                     <7>2. len + 1 - next > 0 BY <1>8, <7>1
                                     <7> QED BY <1>n, <7>2
                               <6>3. a \in Candidates(v)
                                     BY <1>15, <5>1, <5>3, <6>1, <6>2 DEF Candidates, Remaining
                               <6> QED BY <4>1, <6>3
                         <5>4. CASE c # a
                               <6>1. apps'[c] = apps[c] BY <1>16, <5>2, <5>4
                               <6>2. c \in Candidates(v) BY <5>1, <6>1 DEF Candidates, Remaining
                               <6> QED BY <4>1, <6>2
                         <5> QED BY <5>3, <5>4
                   <4> QED BY <4>2
             <3> QED BY <3>2, <3>3, <3>4
       <2>2. pc' = "lease" /\ NoLease' = NoLease BY <1>1 DEF NoLease
       <2> QED BY <2>1, <2>2 DEF Offered, NeverStalled
<1>34. Progressed'
       <2>1. \A c : Recorded(c)' <=> Recorded(c) BY <1>1, Static DEF Recorded
       <2>2. \A c \in started' \ Unfinished' : Recorded(c)'
             BY <1>1, <1>22, <2>1 DEF Inv, Progressed
       <2>3. \A c \in App : apps'[c].prepared = apps[c].prepared /\ apps'[c].specs = apps[c].specs
             BY <1>15, <1>16
       <2>4. ASSUME NEW c \in App, apps'[c].prepared, NEW k \in 1..(apps'[c].next - 1)
             PROVE  k \in Flight(c)' \/ <<c, apps'[c].specs[k]>> \in DOMAIN transaction.seen
             <3>1. CASE c = a
                   <4>1. k \in 1..(apps[a].next - 1) \/ k \in l.lo..l.hi
                         <5>0. apps'[c].next = next + n BY <1>m, <3>1
                         <5>1. k \in 1..(next + n - 1) BY <1>8, <5>0
                         <5>2. k \in 1..(next - 1) \/ k \in next..(next + n - 1) BY <1>8, <5>1
                         <5> QED BY <1>m, <1>n, <5>2
                   <4>2. \A j \in 1..(apps[a].next - 1) :
                            j \in Flight(a) \/ <<a, apps[a].specs[j]>> \in DOMAIN transaction.seen
                         BY <1>6, <1>7 DEF Inv, Progressed
                   <4> QED BY <1>15, <1>25, <3>1, <4>1, <4>2
             <3>2. CASE c # a
                   <4>1. apps'[c] = apps[c] /\ Flight(c)' = Flight(c) BY <1>16, <1>26, <3>2
                   <4> QED BY <2>4, <4>1 DEF Inv, Progressed
             <3> QED BY <3>1, <3>2
       <2> QED BY <1>1, <2>2, <2>3, <2>4, Static DEF Inv, Progressed
<1> QED BY <1>19, <1>20, <1>21, <1>23, <1>27, <1>30, <1>31, <1>32, <1>33, <1>34 DEF Inv, Typed

----------------------------------------------------------------------------
(* A result is received.                                                     *)

\* What a post-process action deletes is a generated asset of another
\* application.
LEMMA InputsOfOthers ==
    ASSUME builders \in Configurations, NEW a \in App, NEW x \in Actions(a),
           builders[a].deletes, Input(x) # Handwritten
    PROVE  Input(x) \in Pairs /\ Input(x) \notin Actions(a)
<1>1. PICK i \in DOMAIN builders[a].inputs : x = <<a, i>> BY DEF Actions
<1>2. Input(x) = builders[a].inputs[i] BY <1>1 DEF Input
<1>3. builders[a].post BY ConfigurationsAssumption DEF App
<1>4. PICK b \in App : \E j \in DOMAIN builders[b].inputs :
         builders[a].inputs[i] = <<b, j>> /\ ~builders[b].post
      BY <1>2, ConfigurationsAssumption DEF App
<1>5. PICK j \in DOMAIN builders[b].inputs : Input(x) = <<b, j>> /\ ~builders[b].post
      BY <1>2, <1>4
<1>6. b # a BY <1>3, <1>5
<1>7. Input(x) \in Actions(b) BY <1>5 DEF Actions
<1>8. Input(x) \in Pairs BY <1>7, Shapes
<1>9. Input(x) \notin Actions(a) BY <1>5, <1>6 DEF Actions
<1> QED BY <1>8, <1>9

LEMMA RecordResultsKeeps ==
    ASSUME Staged, builders \in Configurations, NEW a \in App, NEW xs \in SUBSET Actions(a),
           NEW view \in Views, transaction' = RecordResults(transaction, xs, view)
    PROVE  /\ Staged' /\ DOMAIN transaction'.seen = DOMAIN transaction.seen \cup xs
           /\ transaction'.missing = transaction.missing
<1> DEFINE removed == {Input(x) : x \in {y \in xs : builders[y[1]].deletes}} \ {Handwritten}
           seen1 == [x \in DOMAIN transaction.seen \cup xs |->
                        IF x \in xs THEN view ELSE transaction.seen[x]]
<1>1. \A x \in xs : x[1] = a BY DEF Actions
<1>2. removed \in SUBSET Pairs /\ removed \cap xs = {}
      <2> SUFFICES ASSUME NEW r \in removed PROVE r \in Pairs /\ r \notin xs
          OBVIOUS
      <2>1. PICK x \in xs : builders[x[1]].deletes /\ r = Input(x) /\ r # Handwritten OBVIOUS
      <2>2. x \in Actions(a) /\ builders[a].deletes BY <1>1, <2>1
      <2> QED BY <2>1, <2>2, InputsOfOthers
<1>3. transaction' = [transaction EXCEPT !.written = (@ \ removed) \cup xs,
                                         !.deleted = (@ \ xs) \cup removed, !.seen = seen1]
      BY DEF RecordResults
<1> HIDE DEF removed
<1>4. xs \in SUBSET Pairs BY Shapes
<1>5. seen1 \in [DOMAIN transaction.seen \cup xs -> Views] BY DEF Staged
<1>6. PICK s : s = seen1 OBVIOUS
<1> HIDE DEF seen1
<1>7. PICK seen : seen = transaction.seen OBVIOUS
<1>8. transaction \in Transactions(seen) BY <1>7 DEF Staged
<1>9. transaction' = [transaction EXCEPT !.written = (transaction.written \ removed) \cup xs,
                                         !.deleted = (transaction.deleted \ xs) \cup removed,
                                         !.seen = s]
      BY <1>3, <1>6
<1>10. /\ transaction'.seen = s /\ transaction'.previous = transaction.previous
       /\ transaction'.missing = transaction.missing
       /\ transaction'.written = (transaction.written \ removed) \cup xs
       /\ transaction'.deleted = (transaction.deleted \ xs) \cup removed
       BY <1>8, <1>9 DEF Transactions
<1>11. transaction' \in Transactions(s)
       <2>1. /\ transaction.written \in SUBSET Pairs /\ transaction.deleted \in SUBSET Pairs
             BY <1>8 DEF Transactions
       <2>2. /\ (transaction.written \ removed) \cup xs \in SUBSET Pairs
             /\ (transaction.deleted \ xs) \cup removed \in SUBSET Pairs
             BY <1>2, <1>4, <2>1
       <2> QED BY <1>8, <1>9, <2>2 DEF Transactions
<1>12. transaction' \in Transactions(transaction'.seen) BY <1>10, <1>11
<1>13. transaction'.written \cap transaction'.deleted = {} BY <1>2, <1>10 DEF Staged
<1>14. DOMAIN transaction'.seen = DOMAIN transaction.seen \cup xs BY <1>5, <1>6, <1>10
<1>15. /\ transaction'.seen \in [DOMAIN transaction'.seen -> Views]
       /\ DOMAIN transaction'.seen \subseteq Pairs
       BY <1>4, <1>5, <1>6, <1>10, <1>14 DEF Staged
<1>16. Staged' BY <1>12, <1>13, <1>15 DEF Staged
<1> QED BY <1>10, <1>14, <1>16

LEMMA ReceiveKeeps ==
    ASSUME Inv, Receive
    PROVE  Inv'
<1>1. PICK c : c = Head(completions) OBVIOUS
<1>2. /\ completions \in Seq(Completions) /\ completions # <<>> /\ c \in Completions
      /\ 1 \in DOMAIN completions /\ completions[1] = c
      <2>1. completions # <<>> BY DEF Receive
      <2>2. completions \in Seq(Completions) BY DEF Inv, Typed, Working
      <2>3. 1 \in DOMAIN completions /\ completions[1] = Head(completions) BY <2>1, <2>2
      <2>4. completions[1] \in Completions BY <2>2, <2>3
      <2> QED BY <1>1, <2>1, <2>2, <2>3, <2>4
<1>3. PICK l \in Leases : l = c.lease BY <1>2 DEF Completions
<1>4. PICK w \in Worker : w = c.worker BY <1>2 DEF Completions
<1>5. PICK view \in Views : view = c.view BY <1>2 DEF Completions
<1>6. running[w] = l /\ lane[w] = NoLease BY <1>2, <1>3, <1>4 DEF Inv, Channelled
<1>7. l # NoLease
      <2>1. NoLease.app = 0 BY DEF NoLease
      <2> QED BY <2>1 DEF Leases
<1>8. LeaseFits(w) BY <1>6, <1>7 DEF Inv, Sound
<1>9. PICK a \in App : a = l.app BY <1>6, <1>8 DEF LeaseFits
<1>10. PICK lo \in Nat, hi \in Nat : lo = l.lo /\ hi = l.hi BY DEF Leases
<1>11. PICK n \in Nat : n = hi + 1 - lo /\ n > 0
       <2>1. lo <= hi BY <1>6, <1>8, <1>10 DEF LeaseFits
       <2>2. hi + 1 - lo \in Nat /\ hi + 1 - lo > 0 BY <2>1
       <2> QED BY <2>2
<1>12. PICK done \in BOOLEAN : done = (apps[a].completed + n = Len(apps[a].specs)) OBVIOUS
<1>13. /\ pc = "receive" /\ c.status = "ok" /\ running' = [running EXCEPT ![w] = NoLease]
       /\ transaction' = RecordResults(transaction, ActionsOf(l), view)
       /\ apps' = [apps EXCEPT ![a].completed = @ + n, ![a].inFlight = @ - 1,
                               ![a].timed = TRUE, ![a].prepared = ~done]
       /\ IF done THEN Finish(a) ELSE UNCHANGED <<waiting, newly>>
       /\ completions' = Tail(completions) /\ pc' = "prepare" /\ UNCHANGED config
       /\ UNCHANGED <<phase, started, baseline, made, cursor, packages, outcome, lane, resident,
                      exited, failures>>
       BY <1>1, <1>3, <1>4, <1>5, <1>9, <1>10, <1>11, <1>12 DEF Receive
<1>14. /\ apps[a].prepared /\ l.specs = apps[a].specs /\ 1 <= lo /\ lo <= hi
       /\ hi < apps[a].next
       BY <1>6, <1>8, <1>9, <1>10 DEF LeaseFits
<1>15. /\ builders \in Configurations /\ apps \in [App -> Applications]
       /\ running \in [Worker -> Leases \cup {NoLease}]
       /\ apps[a] \in Applications
       BY DEF Inv, Typed, Stepping
<1>16. /\ IsFiniteSet(Held(a)) /\ Held(a) \in SUBSET Worker
       /\ Cardinality(Held(a)) = apps[a].inFlight
       /\ IsFiniteSet(Flight(a)) /\ Cardinality(Flight(a)) \in Nat
       /\ \A k \in Flight(a) : k \in Nat /\ 1 <= k /\ k < apps[a].next
       /\ apps[a].completed + Cardinality(Flight(a)) + 1 = apps[a].next
       /\ apps[a].next \in Nat /\ apps[a].completed \in Nat /\ apps[a].inFlight \in Nat
       /\ apps[a].specs \in Seq(Nat) /\ Len(apps[a].specs) \in Nat
       /\ \A u, v \in Held(a) : u # v =>
             (running[u].lo..running[u].hi) \cap (running[v].lo..running[v].hi) = {}
       BY <1>14, FlightFits
<1>17. PICK next \in Nat, len \in Nat, was \in Nat, busy \in Nat, card \in Nat :
         /\ next = apps[a].next /\ len = Len(apps[a].specs) /\ was = apps[a].completed
         /\ busy = apps[a].inFlight /\ card = Cardinality(Flight(a))
       BY <1>16
<1>18. /\ was + card + 1 = next /\ next <= len + 1 /\ was < len /\ hi < next /\ 1 <= next
       <2>1. next <= len + 1 /\ was < len /\ 1 <= next BY <1>14, <1>17 DEF Inv, Sound
       <2> QED BY <1>14, <1>16, <1>17, <2>1
<1>19. w \in Held(a) BY <1>6, <1>7, <1>9 DEF Held
<1>20. /\ Cardinality(Held(a) \ {w}) = busy - 1 /\ busy - 1 \in Nat
       <2>1. PICK H : H = Held(a) OBVIOUS
       <2>2. IsFiniteSet(H) /\ w \in H /\ Cardinality(H) = busy BY <1>16, <1>17, <1>19, <2>1
       <2>3. Cardinality(H \ {w}) = busy - 1 /\ IsFiniteSet(H \ {w})
             BY <2>2, FS_RemoveElement
       <2>4. Cardinality(H \ {w}) \in Nat BY <2>3, FS_CardinalityType
       <2> QED BY <2>1, <2>3, <2>4
<1>21. /\ apps'[a].next = next /\ apps'[a].completed = was + n /\ apps'[a].inFlight = busy - 1
       /\ apps'[a].specs = apps[a].specs /\ apps'[a].prepared = ~done
       /\ apps'[a] \in Applications
       <2>1. PICK t \in Flag, p \in Flag : t = TRUE /\ p = ~done BY DEF Flag
       <2>2. apps'[a] = [apps[a] EXCEPT !.completed = @ + n, !.inFlight = @ - 1,
                                        !.timed = t, !.prepared = p]
             BY <1>13, <1>15, <2>1
       <2>3. PICK x \in Nat, y \in Nat : x = was + n /\ y = busy - 1 BY <1>20
       <2>4. apps'[a] = [apps[a] EXCEPT !.completed = x, !.inFlight = y,
                                        !.timed = t, !.prepared = p]
             BY <1>17, <2>2, <2>3
       <2>5. apps'[a] \in Applications BY <1>15, <2>4 DEF Applications
       <2>6. /\ apps'[a].next = next /\ apps'[a].completed = x /\ apps'[a].inFlight = y
             /\ apps'[a].specs = apps[a].specs /\ apps'[a].prepared = p
             BY <1>15, <1>17, <2>4 DEF Applications
       <2> QED BY <2>1, <2>3, <2>5, <2>6
<1>22. DOMAIN apps' = App /\ \A b \in App \ {a} : apps'[b] = apps[b] BY <1>13, <1>15
<1>23. apps' \in [App -> Applications] BY <1>13, <1>15, <1>21, <1>22
<1>24. running'[w] = NoLease /\ \A v \in Worker \ {w} : running'[v] = running[v]
       BY <1>13, <1>15
<1>25. Held(a)' = Held(a) \ {w}
       <2>1. NoLease' = NoLease BY DEF NoLease
       <2>2. w \notin Held(a)' BY <1>24, <2>1 DEF Held
       <2>3. \A v \in Worker \ {w} : v \in Held(a)' <=> v \in Held(a) BY <1>24, <2>1 DEF Held
       <2>4. Held(a)' \subseteq Worker BY DEF Held
       <2> QED BY <1>16, <2>2, <2>3, <2>4
<1>26. /\ lo..hi \subseteq Flight(a) /\ Flight(a)' = Flight(a) \ (lo..hi)
       <2>1. \A v \in Held(a) \ {w} : running'[v] = running[v] BY <1>16, <1>24
       <2>2. running[w].lo..running[w].hi = lo..hi BY <1>6, <1>10
       <2>3. lo..hi \subseteq Flight(a) BY <1>19, <2>2 DEF Flight
       <2>4. Flight(a)' = UNION {running[v].lo..running[v].hi : v \in Held(a) \ {w}}
             BY <1>25, <2>1 DEF Flight
       <2>5. \A v \in Held(a) \ {w} : (running[v].lo..running[v].hi) \cap (lo..hi) = {}
             BY <1>16, <1>19, <2>2
       <2>6. \A k \in Flight(a)' : k \in Flight(a) \ (lo..hi) BY <2>4, <2>5 DEF Flight
       <2>7. ASSUME NEW k \in Flight(a) \ (lo..hi) PROVE k \in Flight(a)'
             <3>1. PICK v \in Held(a) : k \in running[v].lo..running[v].hi BY DEF Flight
             <3>2. v # w BY <2>2, <3>1
             <3> QED BY <2>4, <3>1, <3>2
       <2> QED BY <2>3, <2>6, <2>7
<1>27. PICK rest \in Nat : /\ rest = Cardinality(Flight(a)') /\ rest + n = card
                           /\ (rest = 0 => Flight(a)' = {})
       <2>1. PICK S : S = Flight(a)' OBVIOUS
       <2>2. S \in SUBSET Flight(a) /\ S \cap (lo..hi) = {} /\ S \cup (lo..hi) = Flight(a)
             BY <1>26, <2>1
       <2>3. IsFiniteSet(S) BY <1>16, <2>2, FS_Subset
       <2>4. Cardinality(S \cup (lo..hi)) = Cardinality(S) + (hi + 1 - lo)
             BY <1>14, <2>2, <2>3, IntervalCounts
       <2>5. Cardinality(S) \in Nat BY <2>3, FS_CardinalityType
       <2>6. Cardinality(S) = 0 => S = {} BY <2>3, FS_EmptySet
       <2>7. Cardinality(S) + n = card BY <1>11, <1>17, <2>2, <2>4
       <2> QED BY <2>1, <2>5, <2>6, <2>7
<1>28. done => was + n = len /\ next = len + 1 /\ Flight(a)' = {}
       <2>1. done => was + n = len BY <1>12, <1>17
       <2>2. done => rest = 0 /\ next = len + 1 BY <1>18, <1>27, <2>1
       <2> QED BY <1>27, <2>1, <2>2
<1>29. done => Held(a)' = {}
       <2> SUFFICES ASSUME done, NEW v \in Held(a)' PROVE FALSE
           OBVIOUS
       <2>1. v \in Held(a) /\ v # w /\ v \in Worker BY <1>16, <1>25
       <2>2. running[v] # NoLease /\ running[v].app = a /\ running'[v] = running[v]
             BY <1>24, <2>1 DEF Held
       <2>3. LeaseFits(v) BY <2>1, <2>2 DEF Inv, Sound
       <2>4. running[v] \in Leases BY <1>15, <2>1, <2>2
       <2>5. running[v].lo \in Nat /\ running[v].hi \in Nat BY <2>4 DEF Leases
       <2>6. running[v].lo <= running[v].hi BY <2>3 DEF LeaseFits
       <2>7. running[v].lo \in running[v].lo..running[v].hi BY <2>5, <2>6
       <2>8. running[v].lo \in Flight(a)' BY <2>2, <2>7 DEF Flight
       <2> QED BY <1>28, <2>8
<1>30. ~done => was + n < len
       <2>1. ~done => was + n # len BY <1>12, <1>17
       <2> QED BY <1>18, <1>27, <2>1
<1>31. \A b \in App \ {a} : Held(b)' = Held(b) /\ Flight(b)' = Flight(b)
       <2> SUFFICES ASSUME NEW b \in App \ {a} PROVE Held(b)' = Held(b) /\ Flight(b)' = Flight(b)
           OBVIOUS
       <2>1. w \notin Held(b) BY <1>6, <1>9 DEF Held
       <2>2. NoLease' = NoLease BY DEF NoLease
       <2>3. w \notin Held(b)' BY <1>24, <2>2 DEF Held
       <2>4. \A v \in Worker \ {w} : v \in Held(b)' <=> v \in Held(b) BY <1>24, <2>2 DEF Held
       <2>5. Held(b)' \subseteq Worker /\ Held(b) \subseteq Worker BY DEF Held
       <2>6. Held(b)' = Held(b) BY <2>1, <2>3, <2>4, <2>5
       <2>7. \A v \in Held(b) : running'[v] = running[v] BY <1>24, <2>1, <2>5
       <2> QED BY <2>6, <2>7 DEF Flight
<1>32. ActionsOf(l) \in SUBSET Actions(a)
       <2>1. \A k \in 1..len : apps[a].specs[k] \in DOMAIN builders[a].inputs
             BY <1>14, <1>17 DEF Inv, Progressed
       <2>2. \A k \in lo..hi : k \in 1..len BY <1>14, <1>18
       <2>3. \A k \in lo..hi : l.specs[k] \in DOMAIN builders[a].inputs BY <1>14, <2>1, <2>2
       <2> QED BY <1>9, <1>10, <2>3 DEF ActionsOf, Actions
<1>33. /\ Staged' /\ DOMAIN transaction'.seen = DOMAIN transaction.seen \cup ActionsOf(l)
       /\ transaction'.missing = transaction.missing
       <2>1. PICK xs : xs = ActionsOf(l) OBVIOUS
       <2> QED BY <1>13, <1>15, <1>32, <2>1, RecordResultsKeeps DEF Inv, Typed
<1>34. /\ Counted' /\ waiting' \in [App -> Nat] /\ newly' \subseteq phase
       /\ Unfinished' = IF done THEN Unfinished \ {a} ELSE Unfinished
       <2>1. a \in phase /\ a \in Unfinished /\ waiting[a] = 0 /\ newly = {} /\ a \in started
             <3>1. a \in phase /\ waiting[a] = 0 /\ newly = {}
                   BY <1>13, <1>14 DEF Inv, Counted
             <3> QED BY <1>14, <3>1 DEF Unfinished, Inv, Typed, Stepping
       <2>2. CASE done
             <3>1. ~apps'[a].prepared BY <1>21, <2>2
             <3>2. Stepping /\ Counted /\ UNCHANGED <<phase, started>> BY <1>13 DEF Inv, Typed
             <3>3. Finish(a) BY <1>13, <2>2
             <3> QED BY <1>13, <1>22, <2>1, <2>2, <3>1, <3>2, <3>3, FinishKeeps
       <2>3. CASE ~done
             <3>1. waiting' = waiting /\ newly' = newly BY <1>13, <2>3
             <3>2. \A b \in App : apps'[b].prepared <=> apps[b].prepared
                   BY <1>14, <1>21, <1>22, <2>3
             <3>3. phase \subseteq App BY DEF Inv, Typed, Stepping
             <3>4. Unfinished' = Unfinished BY <1>13, <3>1, <3>2, <3>3 DEF Unfinished
             <3>5. \A b \in App : b \notin started \/ waiting[b] > 0 \/ b \in newly => apps'[b] = Idle
                   <4>1. ~(waiting[a] > 0) BY <2>1
                   <4> QED BY <1>22, <2>1, <4>1 DEF Inv, Counted
             <3>6. Idle' = Idle BY DEF Idle, NoBaseline
             <3>7. Counted'
                   BY <1>13, <3>1, <3>2, <3>4, <3>5, <3>6, Static DEF Inv, Counted
             <3>8. waiting' \in [App -> Nat] /\ newly' \subseteq phase
                   BY <3>1 DEF Inv, Typed, Stepping
             <3> QED BY <2>3, <3>4, <3>7, <3>8
       <2> QED BY <2>2, <2>3
<1>35. Stepping'
       <2>1. running' \in [Worker -> Leases \cup {NoLease}] BY <1>13, <1>15
       <2> QED BY <1>13, <1>23, <1>34, <2>1, Static DEF Inv, Typed, Stepping
<1>36. Working'
       <2>1. completions' \in Seq(Completions) BY <1>2, <1>13
       <2> QED BY <1>13, <2>1 DEF Inv, Typed, Working
<1>37. Whole' BY <1>13, WholeKept DEF Inv
<1>38. Sound'
       <2>1. ASSUME NEW v \in Worker, running'[v] # NoLease PROVE LeaseFits(v)'
             <3>1. v # w /\ running'[v] = running[v] BY <1>24, <2>1
             <3>2. LeaseFits(v) BY <2>1, <3>1 DEF Inv, Sound
             <3>3. PICK b \in App : b = running[v].app BY <3>2 DEF LeaseFits
             <3>4. /\ apps'[b].prepared /\ apps'[b].specs = apps[b].specs
                   /\ apps'[b].next = apps[b].next
                   <4>1. CASE b = a
                         <5>1. v \in Held(a)' BY <1>25, <2>1, <3>1, <3>3, <4>1 DEF Held
                         <5>2. ~done BY <1>29, <5>1
                         <5> QED BY <1>17, <1>21, <4>1, <5>2
                   <4>2. CASE b # a BY <1>22, <3>2, <3>3, <4>2 DEF LeaseFits
                   <4> QED BY <4>1, <4>2
             <3>5. App' = App BY <1>13, Static
             <3> QED BY <3>1, <3>2, <3>3, <3>4, <3>5 DEF LeaseFits
       <2>2. ASSUME NEW b \in App', apps'[b].prepared
             PROVE  /\ Cardinality(Held(b)') = apps'[b].inFlight
                    /\ \A u, v \in Held(b)' : u # v =>
                          (running'[u].lo..running'[u].hi) \cap (running'[v].lo..running'[v].hi) = {}
                    /\ apps'[b].completed + Cardinality(Flight(b)') + 1 = apps'[b].next
             <3>1. b \in App BY <1>13, Static
             <3>2. CASE b = a
                   <4>1. Cardinality(Held(a)') = apps'[a].inFlight BY <1>20, <1>21, <1>25
                   <4>2. \A v \in Held(a)' : v \in Held(a) /\ running'[v] = running[v]
                         BY <1>16, <1>24, <1>25
                   <4>3. \A u, v \in Held(a)' : u # v =>
                            (running'[u].lo..running'[u].hi) \cap (running'[v].lo..running'[v].hi) = {}
                         BY <1>16, <4>2
                   <4>4. was + n + rest + 1 = next BY <1>18, <1>27
                   <4>5. apps'[a].completed + Cardinality(Flight(a)') + 1 = apps'[a].next
                         BY <1>21, <1>27, <4>4
                   <4> QED BY <3>2, <4>1, <4>3, <4>5
             <3>3. CASE b # a
                   <4>1. Held(b)' = Held(b) /\ Flight(b)' = Flight(b) /\ apps'[b] = apps[b]
                         BY <1>22, <1>31, <3>1, <3>3
                   <4>2. \A v \in Held(b) : running'[v] = running[v]
                         <5>1. w \notin Held(b) BY <1>6, <1>9, <3>3 DEF Held
                         <5> QED BY <1>24, <5>1 DEF Held
                   <4>3. /\ Cardinality(Held(b)) = apps[b].inFlight
                         /\ apps[b].completed + Cardinality(Flight(b)) + 1 = apps[b].next
                         /\ \A u, v \in Held(b) : u # v =>
                               (running[u].lo..running[u].hi) \cap (running[v].lo..running[v].hi) = {}
                         BY <2>2, <3>1, <4>1, FlightFits
                   <4> QED BY <4>1, <4>2, <4>3
             <3> QED BY <3>2, <3>3
       <2>3. InputsLeasedOnce' BY <2>2 DEF InputsLeasedOnce, Held, Flight
       <2>4. ASSUME NEW b \in App, apps'[b].prepared
             PROVE  /\ 1 <= apps'[b].next /\ apps'[b].next <= Len(apps'[b].specs) + 1
                    /\ apps'[b].completed < Len(apps'[b].specs)
             <3>1. CASE b = a
                   <4>1. ~done BY <1>21, <2>4, <3>1
                   <4> QED BY <1>17, <1>18, <1>21, <1>30, <3>1, <4>1
             <3>2. CASE b # a BY <1>22, <2>4, <3>2 DEF Inv, Sound
             <3> QED BY <3>1, <3>2
       <2>5. NoLease' = NoLease /\ App' = App BY <1>13, Static DEF NoLease
       <2> QED BY <2>1, <2>3, <2>4, <2>5 DEF Sound
<1>39. PICK m \in Nat : m = Len(completions) - 1 BY <1>2
<1>40. /\ DOMAIN completions = 1..(m + 1) /\ DOMAIN completions' = 1..m
       /\ \A i \in 1..m : completions'[i] = completions[i + 1]
       BY <1>2, <1>13, <1>39
<1>41. \A i \in 1..m : /\ i + 1 \in DOMAIN completions /\ i + 1 # 1
                       /\ completions[i + 1] \in Completions
                       /\ completions[i + 1].worker \in Worker
       <2> SUFFICES ASSUME NEW i \in 1..m
                    PROVE  /\ i + 1 \in DOMAIN completions /\ i + 1 # 1
                           /\ completions[i + 1] \in Completions
                           /\ completions[i + 1].worker \in Worker
           OBVIOUS
       <2>1. i + 1 \in DOMAIN completions /\ i + 1 # 1 BY <1>40
       <2>2. completions[i + 1] \in Completions BY <1>2, <2>1
       <2> QED BY <2>1, <2>2 DEF Completions
<1>42. \A i \in 1..m : completions'[i].worker # w
       <2>1. \A i, j \in DOMAIN completions :
                completions[i].worker = completions[j].worker => i = j
             BY DEF Inv, Channelled
       <2> QED BY <1>2, <1>4, <1>40, <1>41, <2>1
<1>43. Active /\ Active' BY <1>13 DEF Active
<1>44. Channelled'
       <2>1. \A v \in Worker : lane'[v] \in {NoLease, running'[v]}
             BY <1>6, <1>13, <1>24 DEF Inv, Channelled
       <2>2. ASSUME NEW i \in 1..m
             PROVE  /\ lane'[completions'[i].worker] = NoLease
                    /\ running'[completions'[i].worker] = completions'[i].lease
             <3>1. PICK d : d = completions[i + 1] OBVIOUS
             <3>2. /\ lane[d.worker] = NoLease /\ running[d.worker] = d.lease
                   BY <1>41, <3>1 DEF Inv, Channelled
             <3>3. completions'[i] = d /\ d.worker \in Worker \ {w} BY <1>40, <1>41, <1>42, <3>1
             <3> QED BY <1>13, <1>24, <3>2, <3>3
       <2>3. ASSUME NEW i \in 1..m, NEW j \in 1..m, completions'[i].worker = completions'[j].worker
             PROVE  i = j
             <3>1. completions[i + 1].worker = completions[j + 1].worker BY <1>40, <2>3
             <3>2. i + 1 = j + 1 BY <1>41, <3>1 DEF Inv, Channelled
             <3> QED BY <3>2
       <2>4. NoLease' = NoLease BY DEF NoLease
       <2> QED BY <1>40, <1>43, <2>1, <2>2, <2>3, <2>4 DEF Channelled
<1>45. \A i \in DOMAIN completions : completions[i].status # "ok" =>
          \E j \in 1..m : completions'[j] = completions[i]
       <2> SUFFICES ASSUME NEW i \in DOMAIN completions, completions[i].status # "ok"
                    PROVE  \E j \in 1..m : completions'[j] = completions[i]
           OBVIOUS
       <2>1. i # 1 BY <1>2, <1>13
       <2>2. PICK j \in 1..m : j + 1 = i
             <3>1. i - 1 \in 1..m /\ (i - 1) + 1 = i BY <1>40, <2>1
             <3> QED BY <3>1
       <2> QED BY <1>40, <2>2
<1>46. Ended'
       <2>1. \A v \in exited : \E j \in 1..m :
                completions'[j].worker = v /\ completions'[j].status # "ok"
             BY <1>43, <1>45 DEF Inv, Ended
       <2>2. NoLease' = NoLease /\ Worker' = Worker BY DEF NoLease, Worker
       <2> QED BY <1>13, <1>40, <1>43, <2>1, <2>2 DEF Inv, Ended
<1>47. Reported'
       <2>1. failures > 0 => \E j \in 1..m : completions'[j].status # "ok"
             BY <1>43, <1>45 DEF Inv, Reported, Typed, Stepping
       <2>2. \A j \in 1..m : completions'[j].status # "ok" => failures > 0
             BY <1>40, <1>41 DEF Inv, Reported
       <2> QED BY <1>13, <1>40, <1>43, <2>1, <2>2 DEF Inv, Reported
<1>48. Offered' BY <1>13 DEF Offered, NeverStalled
<1>49. Progressed'
       <2>1. \A b \in App : Recorded(b) => Recorded(b)' BY <1>13, <1>33, Static DEF Recorded
       <2>2. ASSUME NEW k \in 1..(next - 1)
             PROVE  k \in Flight(a)' \/ <<a, apps[a].specs[k]>> \in DOMAIN transaction'.seen
             <3>1. k \in Flight(a) \/ <<a, apps[a].specs[k]>> \in DOMAIN transaction.seen
                   BY <1>14, <1>17 DEF Inv, Progressed
             <3>2. CASE k \in lo..hi
                   <4>1. <<a, apps[a].specs[k]>> \in ActionsOf(l)
                         BY <1>9, <1>10, <1>14, <3>2 DEF ActionsOf
                   <4> QED BY <1>33, <4>1
             <3>3. CASE k \notin lo..hi BY <1>26, <1>33, <3>1, <3>3
             <3> QED BY <3>2, <3>3
       <2>3. done => Recorded(a)'
             <3> SUFFICES ASSUME done, NEW x \in Actions(a)
                          PROVE  x \in DOMAIN transaction'.seen \cup transaction'.missing
                 BY <1>13, Static DEF Recorded
             <3>1. PICK i \in DOMAIN builders[a].inputs : x = <<a, i>> BY DEF Actions
             <3>2. \/ x \in transaction.missing
                   \/ \E k \in 1..len : apps[a].specs[k] = i
                   BY <1>14, <1>17, <3>1 DEF Inv, Progressed
             <3>3. \A k \in 1..len : <<a, apps[a].specs[k]>> \in DOMAIN transaction'.seen
                   <4>1. next - 1 = len /\ Flight(a)' = {} BY <1>28
                   <4> QED BY <2>2, <4>1
             <3> QED BY <1>33, <3>1, <3>2, <3>3
       <2>4. \A b \in started' \ Unfinished' : Recorded(b)'
             <3>1. \A b \in started \ Unfinished : Recorded(b) BY DEF Inv, Progressed
             <3>2. started \subseteq App BY DEF Inv, Typed, Stepping
             <3> QED BY <1>13, <1>34, <2>1, <2>3, <3>1, <3>2
       <2>5. ASSUME NEW b \in App, apps'[b].prepared
             PROVE  /\ apps[b].prepared /\ apps'[b].specs = apps[b].specs
                    /\ \A k \in 1..(apps'[b].next - 1) :
                          k \in Flight(b)' \/ <<b, apps'[b].specs[k]>> \in DOMAIN transaction'.seen
             <3>1. CASE b = a BY <1>14, <1>21, <2>2, <3>1
             <3>2. CASE b # a
                   <4>1. apps'[b] = apps[b] /\ Flight(b)' = Flight(b) BY <1>22, <1>31, <3>2
                   <4> QED BY <1>33, <2>5, <4>1 DEF Inv, Progressed
             <3> QED BY <3>1, <3>2
       <2>6. ASSUME NEW b \in App, apps'[b].prepared
             PROVE  /\ \A k \in 1..Len(apps'[b].specs) :
                          apps'[b].specs[k] \in DOMAIN builders[b].inputs
                    /\ \A i \in DOMAIN builders[b].inputs :
                          \/ <<b, i>> \in transaction'.missing
                          \/ \E k \in 1..Len(apps'[b].specs) : apps'[b].specs[k] = i
             BY <1>33, <2>5, <2>6 DEF Inv, Progressed
       <2> QED BY ZenonT(40), <1>13, <2>4, <2>5, <2>6, Static DEF Progressed
<1> QED BY <1>33, <1>34, <1>35, <1>36, <1>37, <1>38, <1>44, <1>46, <1>47, <1>48, <1>49
        DEF Inv, Typed

----------------------------------------------------------------------------
(* The theorems.                                                             *)

LEMMA InitInv ==
    ASSUME Init
    PROVE  Inv
<1>1. /\ builders \in Configurations /\ shared \in BOOLEAN
      /\ pc = "phase" /\ phase = {} /\ started = {} /\ newly = {}
      /\ waiting = [a \in App |-> 0] /\ apps = [a \in App |-> Idle]
      /\ baseline = NoBaseline /\ made = 0 /\ cursor = 1
      /\ running = [w \in Worker |-> NoLease]
      /\ outcome = "ok" /\ lane = [w \in Worker |-> NoLease] /\ completions = <<>>
      /\ resident = [w \in Worker |-> [package |-> Unknown, baseline |-> 0, held |-> {}]]
      /\ exited = {} /\ failures = 0
      BY DEF Init
<1>2. PICK previous \in {{}, Asset} : transaction = NewTransaction(previous) BY DEF Init
<1>3. NoBaseline \in Baselines BY DEF NoBaseline, Baselines
<1>4. Idle \in Applications
      <2>1. PICK f \in Flag : f = FALSE BY DEF Flag
      <2>2. Idle = [specs |-> <<>>, next |-> 1, inFlight |-> 0, completed |-> 0, owner |-> 0,
                    baseline |-> NoBaseline, timed |-> f, prepared |-> f]
            BY <2>1 DEF Idle
      <2> QED BY <1>3, <2>2, WorkersAssumption DEF Applications
<1>5. Stepping BY <1>1, <1>3, <1>4, WorkersAssumption DEF Stepping
<1>6. Working
      <2>1. DOMAIN resident = Worker /\ \A w \in Worker : resident[w].held \subseteq Pairs
            BY <1>1
      <2>2. <<>> \in Seq(Completions) OBVIOUS
      <2>3. 0 \in 0..MaxFailures BY WorkersAssumption
      <2> QED BY <1>1, <2>1, <2>2, <2>3 DEF Working
<1>7. Staged
      <2>1. previous \in SUBSET Pairs BY <1>1, Shapes
      <2>2. PICK none : none = [x \in {} |-> {}] OBVIOUS
      <2>3. transaction = [previous |-> previous, written |-> {}, deleted |-> previous,
                           missing |-> {}, seen |-> none]
            BY <1>2, <2>2 DEF NewTransaction
      <2>4. transaction \in Transactions(none) /\ transaction.seen = none
            BY <2>1, <2>3 DEF Transactions
      <2>5. transaction \in Transactions(transaction.seen) BY <2>4
      <2>6. none \in [DOMAIN none -> Views] /\ DOMAIN none \subseteq Pairs BY <2>2
      <2>7. transaction.written \cap transaction.deleted = {} BY <2>3
      <2> QED BY <2>4, <2>5, <2>6, <2>7 DEF Staged
<1>8. Whole BY <1>1 DEF Whole
<1>9. Unfinished = {} BY <1>1 DEF Unfinished
<1>10. ~Idle.prepared BY DEF Idle
<1>11. Counted BY <1>1, <1>9, <1>10 DEF Counted
<1>12. Sound BY <1>1, <1>10 DEF Sound, InputsLeasedOnce
<1>13. Channelled /\ Ended /\ Reported BY <1>1 DEF Channelled, Ended, Reported, Active
<1>14. Offered BY <1>1 DEF Offered, NeverStalled
<1>15. Progressed BY <1>1, <1>10 DEF Progressed
<1> QED BY <1>5, <1>6, <1>7, <1>8, <1>11, <1>12, <1>13, <1>14, <1>15 DEF Inv, Typed

LEMMA StutterKeeps ==
    ASSUME Inv, UNCHANGED vars
    PROVE  Inv'
<1>1. UNCHANGED <<config, controller>> /\ UNCHANGED <<threads, failures>> BY DEF vars
<1>2. UNCHANGED <<lane, completions, resident, exited>> /\ UNCHANGED failures
      /\ UNCHANGED <<pc, running, outcome>>
      BY <1>1 DEF threads, controller
<1>3. Stepping' /\ Staged' /\ Whole' /\ Counted' /\ Sound' /\ Offered' /\ Progressed'
      BY <1>1, ControllerRests
<1>4. Working' BY <1>1, WorkingKept DEF Inv, Typed
<1>5. Channelled' /\ Ended' /\ Reported'
      BY <1>2, ChannelledKept, EndedKept, ReportedKept DEF Inv
<1> QED BY <1>3, <1>4, <1>5 DEF Inv, Typed

LEMMA NextKeeps ==
    ASSUME Inv, [Next]_vars
    PROVE  Inv'
<1>1. CASE BeginPhase BY <1>1, BeginPhaseKeeps
<1>2. CASE Prepared BY <1>2, PreparedKeeps
<1>3. CASE Leased BY <1>3, LeasedKeeps
<1>4. CASE Receive BY <1>4, ReceiveKeeps
<1>5. CASE ReceiveError BY <1>5, ReceiveErrorKeeps
<1>6. CASE AllPhases BY <1>6, AllPhasesKeeps
<1>7. CASE Join BY <1>7, JoinKeeps
<1>8. ASSUME NEW a \in App, Prepare(a) PROVE Inv' BY <1>8, PrepareKeeps
<1>9. ASSUME NEW w \in Worker, Lease(w) PROVE Inv' BY <1>9, LeaseKeeps
<1>10. ASSUME NEW w \in Worker, PassOver(w) PROVE Inv' BY <1>10, PassOverKeeps
<1>11. ASSUME NEW w \in Worker, Work(w) PROVE Inv' BY <1>11, WorkKeeps
<1>12. ASSUME NEW w \in Worker, NEW s \in {"builder", "lost"}, WorkFails(w, s) PROVE Inv'
       BY <1>12, WorkFailsKeeps
<1>13. ASSUME NEW w \in Worker, Quit(w) PROVE Inv' BY <1>13, QuitKeeps
<1>14. CASE UNCHANGED vars BY <1>14, StutterKeeps
<1> QED BY <1>1, <1>2, <1>3, <1>4, <1>5, <1>6, <1>7, <1>8, <1>9, <1>10, <1>11, <1>12, <1>13,
           <1>14 DEF Next, Controller, Thread

\* The schedule keeps its invariant: phases are taken whole, applications wait
\* for what they depend on, leases partition the inputs, and the channels carry
\* what the controller believes (Schedule::run, run_worker).
THEOREM ScheduleInvariant == Spec => []Inv
BY InitInv, NextKeeps, PTL DEF Spec

\* Every variable keeps its type, and no asset is both written and deleted.
THEOREM TypesStay == Spec => []TypeOK
<1>1. Inv => TypeOK
      <2> SUFFICES ASSUME Inv PROVE TypeOK
          OBVIOUS
      <2>1. builders \in Configurations /\ phase \subseteq App /\ waiting \in [App -> Nat]
            BY DEF Inv, Typed, Stepping
      <2>2. ASSUME NEW a \in App PROVE waiting[a] \in 0..Len(builders)
            <3>1. CASE a \notin phase BY <2>1, <3>1, Shapes DEF Inv, Counted
            <3>2. CASE a \in phase
                  <4>1. PICK n \in Nat : n = Len(builders) /\ App = 1..n BY <2>1, Shapes
                  <4>2. PICK D : D = Dependencies(a) \cap Unfinished OBVIOUS
                  <4>3. D \in SUBSET (1..n) BY <2>1, <4>1, <4>2, DependenciesType
                  <4>4. IsFiniteSet(1..n) /\ Cardinality(1..n) = n BY FS_Interval
                  <4>5. IsFiniteSet(D) /\ Cardinality(D) <= n BY <4>3, <4>4, FS_Subset
                  <4>6. Cardinality(D) \in Nat BY <4>5, FS_CardinalityType
                  <4>7. waiting[a] = Cardinality(D) BY <3>2, <4>2 DEF Inv, Counted
                  <4> QED BY <4>1, <4>5, <4>6, <4>7
            <3> QED BY <3>1, <3>2
      <2>3. waiting \in [App -> 0..Len(builders)] BY <2>1, <2>2
      <2> QED BY <2>3 DEF Inv, Typed, Stepping, Working, Staged, TypeOK
<1> QED BY <1>1, ScheduleInvariant, PTL

\* The controller never waits for a completion that is not due ("workspace
\* scheduler has pending work without a runnable action" cannot happen).
THEOREM AlwaysRunnable == Spec => []NeverStalled
<1>1. Inv => NeverStalled BY DEF Inv, Offered
<1> QED BY <1>1, ScheduleInvariant, PTL

\* Completed, in flight and left add up, and no two leases overlap
\* (InputQueue::take, AdaptiveBatch).
THEOREM LeasesPartition == Spec => []InputsLeasedOnce
<1>1. Inv => InputsLeasedOnce BY DEF Inv, Sound
<1> QED BY <1>1, ScheduleInvariant, PTL

\* The schedule succeeds exactly when no lease failed (Schedule::receive).
THEOREM FailuresSurface == Spec => []FailureReported
<1>1. Inv => FailureReported
      <2> SUFFICES ASSUME Inv, pc = "returned" PROVE outcome = "ok" <=> failures = 0
          BY DEF FailureReported
      <2>1. completions = <<>> /\ ~Active BY DEF Inv, Channelled, Active
      <2>2. failures \in Nat /\ outcome \in {"ok", "error"}
            BY WorkersAssumption DEF Inv, Typed, Stepping, Working
      <2>3. DOMAIN completions = {} BY <2>1
      <2> QED BY <2>2, <2>3 DEF Inv, Reported
<1> QED BY <1>1, ScheduleInvariant, PTL

\* What a lease of an application follows is recorded when it is sent.
LEMMA LeaseFollows ==
    ASSUME Inv, NEW w \in Worker, Lease(w)
    PROVE  LET l == lane'[w] IN
           /\ apps[l.app].baseline \in {NoBaseline, l.baseline}
           /\ \A b \in App : /\ Before(b, l.app)
                             /\ ~SamePhase(b, l.app) \/ builders[b].package \in builders[l.app].reads
                             => Recorded(b)
<1>1. pc = "lease" /\ Candidates(w) # {} BY DEF Lease
<1>2. PICK a \in Candidates(w) : a = Preferred(w)
      BY <1>1, PreferredIsOne DEF Inv, Typed
<1>3. PICK c : c = IF apps[a].baseline = NoBaseline THEN BaselineFor(a) ELSE apps[a].baseline
      OBVIOUS
<1>4. PICK l : lane' = [lane EXCEPT ![w] = l] /\ l.app = a /\ l.baseline = c
      <2>1. PICK n \in BatchSizes(a) :
              lane' = [lane EXCEPT ![w] = [app |-> a, lo |-> Take(a, n).lo, hi |-> Take(a, n).hi,
                                           specs |-> apps[a].specs, baseline |-> c]]
            BY <1>2, <1>3, Zenon DEF Lease
      <2>2. PICK l : l = [app |-> a, lo |-> Take(a, n).lo, hi |-> Take(a, n).hi,
                          specs |-> apps[a].specs, baseline |-> c]
            OBVIOUS
      <2>3. l.app = a /\ l.baseline = c BY <2>2
      <2> QED BY <2>1, <2>2, <2>3
<1>5. lane'[w] = l BY <1>4 DEF Inv, Typed, Working
<1>6. builders \in Configurations /\ a \in phase /\ a \in App /\ a \in started /\ waiting[a] = 0
      BY DEF Candidates, Inv, Typed, Stepping, Counted
<1>7. Dependencies(a) \cap Unfinished = {}
      <2>1. PICK D : D = Dependencies(a) \cap Unfinished OBVIOUS
      <2>2. IsFiniteSet(D) BY <1>6, <2>1, DependenciesType, FS_Subset
      <2>3. Cardinality(D) = 0 BY <1>6, <2>1 DEF Inv, Counted
      <2> QED BY <2>1, <2>2, <2>3, FS_EmptySet
<1>8. ASSUME NEW b \in App, Before(b, a),
             ~SamePhase(b, a) \/ builders[b].package \in builders[a].reads
      PROVE  Recorded(b)
      <2>1. b \in started
            <3>1. ~Before(a, b) BY <1>6, <1>8, Ordering
            <3> QED BY <1>6, <3>1 DEF Inv, Whole
      <2>2. b \notin Unfinished
            <3>1. CASE ~SamePhase(b, a)
                  <4>1. b \notin phase BY <1>6, <3>1 DEF Inv, Whole
                  <4> QED BY <4>1 DEF Unfinished
            <3>2. CASE SamePhase(b, a)
                  <4>1. builders[b].package \in builders[a].reads BY <1>8, <3>2
                  <4>2. builders[a].packageDeps # Unknown =>
                           builders[a].reads \subseteq builders[a].packageDeps \cup {builders[a].package}
                        BY <1>6, ConfigurationsAssumption DEF App
                  <4>3. ~Independent(b, a) BY <4>1, <4>2 DEF Independent
                  <4>4. b \in Dependencies(a) BY <1>8, <3>2, <4>3 DEF Dependencies
                  <4> QED BY <1>7, <4>4
            <3> QED BY <3>1, <3>2
      <2> QED BY <2>1, <2>2 DEF Inv, Progressed
<1> QED BY <1>3, <1>4, <1>5, <1>8

\* A lease carries its application's one baseline, and what the application can
\* read of earlier ones is completely recorded by then (Schedule::lease,
\* independent, DependencyReady).
THEOREM LeasesFollowTheirInputs == Spec => PredecessorsComplete
<1> DEFINE Sent(w) == lane[w] = NoLease /\ lane'[w] # NoLease
           Follows(w) == LET l == lane'[w] IN
             /\ apps[l.app].baseline \in {NoBaseline, l.baseline}
             /\ \A b \in App :
                   /\ Before(b, l.app)
                   /\ ~SamePhase(b, l.app) \/ builders[b].package \in builders[l.app].reads
                   => Actions(b) \subseteq DOMAIN transaction.seen \cup transaction.missing
<1>1. ASSUME Inv, Next, NEW w \in Worker, Sent(w) PROVE Lease(w)
      <2>1. lane' # lane BY <1>1
      <2>2. ASSUME NEW v \in Worker, Thread(v) PROVE FALSE
            <3>1. lane' = lane \/ lane' = [lane EXCEPT ![v] = NoLease]
                  BY <2>2 DEF Thread, Work, WorkFails, Quit
            <3>2. DOMAIN lane = Worker BY <1>1 DEF Inv, Typed, Working
            <3>3. v = w => lane'[w] = lane[w] \/ lane'[w] = NoLease BY <3>1, <3>2
            <3>4. v # w => lane'[w] = lane[w] BY <3>1, <3>2
            <3> QED BY <1>1, <3>3, <3>4
      <2>3. ~BeginPhase /\ ~Prepared /\ ~Leased /\ ~AllPhases /\ ~Join
            BY <2>1 DEF BeginPhase, Prepared, Leased, AllPhases, Join, threads
      <2>4. ~Receive /\ ~ReceiveError BY <2>1 DEF Receive, ReceiveError
      <2>5. \A a \in App : ~Prepare(a) BY <2>1 DEF Prepare, threads
      <2>6. \A v \in Worker : ~PassOver(v) BY <2>1 DEF PassOver, threads
      <2>7. PICK v \in Worker : Lease(v) BY <1>1, <2>2, <2>3, <2>4, <2>5, <2>6 DEF Next, Controller
      <2>8. \A u \in Worker \ {v} : lane'[u] = lane[u]
            BY <2>7 DEF Lease, Inv, Typed, Working
      <2> QED BY <1>1, <2>7, <2>8
<1>2. Inv /\ [Next]_vars => [\A w \in Worker : Sent(w) => Follows(w)]_vars
      <2> SUFFICES ASSUME Inv, Next, NEW w \in Worker, Sent(w) PROVE Follows(w)
          OBVIOUS
      <2>1. Lease(w) BY <1>1
      <2> QED BY <2>1, LeaseFollows DEF Recorded
<1> QED BY <1>2, ScheduleInvariant, PTL DEF Spec, PredecessorsComplete


----------------------------------------------------------------------------
(* What an application does when the applications run one after the other.   *)

Ahead(a) == {b \in App : Before(b, a)}
Found(a) == InTurn(transaction.previous)[Ahead(a)]
Gone(a)  == MissingInputs(Found(a), a)
View(a)  == Observed(a, Found(a).written \ Hidden(a), Found(a).deleted \ Hidden(a))

\* What post-process actions have deleted, and a transaction that is determined
\* by which actions are recorded.
Removed(S) == {Input(x) : x \in {y \in S : builders[y[1]].deletes}} \ {Handwritten}

Closed(t) ==
    /\ t.written = DOMAIN t.seen \ Removed(DOMAIN t.seen)
    /\ t.deleted = (t.previous \ DOMAIN t.seen) \cup t.missing \cup Removed(DOMAIN t.seen)

----------------------------------------------------------------------------
(* The invariant: what is recorded so far is what sequential execution would *)
(* record of the same actions, ...                                           *)

Begun(a) == a \in started /\ waiting[a] = 0 /\ a \notin newly

Matched ==
    /\ Closed(transaction)
    /\ transaction.previous \subseteq Asset
    /\ DOMAIN transaction.seen \cup transaction.missing \subseteq Asset
    /\ \A a \in App : Begun(a) =>
          /\ transaction.missing \cap Actions(a) = Gone(a)
          /\ \A x \in Actions(a) \cap DOMAIN transaction.seen :
                x \notin Gone(a) /\ transaction.seen[x] = View(a)
    /\ \A a \in App : ~Begun(a) =>
          Actions(a) \cap (DOMAIN transaction.seen \cup transaction.missing) = {}
    /\ \A a \in App : apps[a].prepared =>
          \A k \in 1..Len(apps[a].specs) : <<a, apps[a].specs[k]>> \notin transaction.missing

\* ... a baseline shows all that is recorded and visible in the phase, and its
\* application what it would find, ...
Live == ({baseline} \cup {apps[a].baseline : a \in {b \in App : apps[b].prepared}})
            \ {NoBaseline}

Overlays(b) ==
    /\ b.over \subseteq DOMAIN transaction.seen /\ b.over \cap b.gone = {}
    /\ \A a \in phase : /\ b.over \cap Hidden(a) = {}
                        /\ DOMAIN transaction.seen \subseteq Hidden(a) \cup b.over \cup b.gone

Shows(b) == b.id \in 1..made /\ Overlays(b)

Based ==
    /\ \A b \in Live : Shows(b)
    /\ \A b, c \in Live : b.id = c.id => b = c
    /\ \A a \in App : apps[a].prepared =>
          IF apps[a].baseline = NoBaseline
          THEN Actions(a) \cap DOMAIN transaction.seen = {}
          ELSE Observed(a, apps[a].baseline.over, apps[a].baseline.gone) = View(a)
    /\ \A w \in Worker : running[w] # NoLease =>
          /\ running[w].baseline # NoBaseline
          /\ running[w].baseline = apps[running[w].app].baseline

\* ... a process holds the overlay of the baseline it was last reset to, and
\* otherwise only what has been produced, ...
Produced == {x \in Asset : Begun(x[1]) /\ x \notin transaction.missing}

Aware ==
    \A w \in Worker :
        /\ resident[w].baseline \in 0..made
        /\ resident[w].held \subseteq Produced
        /\ \A b \in Live : b.id = resident[w].baseline => b.over \subseteq resident[w].held

\* ... so that what it answers is what sequential execution observes.
Answering ==
    \A i \in DOMAIN completions :
        completions[i].status = "ok" => completions[i].view = View(completions[i].lease.app)

\* What is started besides the phase comes before it, and success means all of
\* it is finished.
Phased ==
    /\ \A a \in phase, b \in started : ~SamePhase(a, b) => Before(b, a)
    /\ outcome = "ok" /\ ~Active => started = App /\ Unfinished = {}

Parallel == Phased /\ Matched /\ (Active => Based /\ Aware /\ Answering)

----------------------------------------------------------------------------
(* The reference is defined: there is a last application to take away.       *)

\* There are finitely many applications before one, and it is not one of them.
LEMMA AheadIs ==
    ASSUME builders \in Configurations, NEW a \in App
    PROVE  /\ Ahead(a) \in SUBSET App /\ a \notin Ahead(a)
           /\ IsFiniteSet(Ahead(a)) /\ Cardinality(Ahead(a)) \in Nat
           /\ \A b \in Ahead(a) : Ahead(b) \subseteq Ahead(a)
<1>1. Ahead(a) \in SUBSET App BY DEF Ahead
<1>2. a \notin Ahead(a) BY Ordering DEF Ahead
<1>3. IsFiniteSet(Ahead(a)) BY <1>1, Shapes, FS_Subset
<1>4. Cardinality(Ahead(a)) \in Nat BY <1>3, FS_CardinalityType
<1>5. ASSUME NEW b \in Ahead(a), NEW c \in Ahead(b) PROVE c \in Ahead(a)
      <2>1. b \in App /\ c \in App /\ Before(b, a) /\ Before(c, b) BY DEF Ahead
      <2>2. Before(c, a) BY <2>1, Ordering
      <2> QED BY <2>1, <2>2 DEF Ahead
<1> QED BY <1>1, <1>2, <1>3, <1>4, <1>5

\* Before is total and its initial segments are finite, so a last one exists.
LEMMA LastIs ==
    ASSUME builders \in Configurations, NEW D \in SUBSET App, D # {}
    PROVE  Last(D) \in D /\ \A b \in D \ {Last(D)} : Before(b, Last(D))
<1>1. PICK n \in Nat : n = Len(builders) /\ App = 1..n BY Shapes
<1>2. IsFiniteSet(App) /\ Cardinality(App) = n
      <2>1. IsFiniteSet(1..n) /\ Cardinality(1..n) = n BY FS_Interval
      <2> QED BY <1>1, <2>1
<1>3. \A a \in App : Cardinality(Ahead(a)) \in Nat /\ Cardinality(Ahead(a)) <= n
      BY <1>2, AheadIs, FS_Subset
<1>4. PICK f : f = [a \in App |-> n - Cardinality(Ahead(a))] OBVIOUS
<1>5. \A a \in D : f[a] \in Nat
      <2> SUFFICES ASSUME NEW a \in D PROVE f[a] \in Nat
          OBVIOUS
      <2>1. PICK k \in Nat : k = Cardinality(Ahead(a)) /\ k <= n BY <1>3
      <2>2. f[a] = n - k BY <1>4, <2>1
      <2> QED BY <2>1, <2>2
<1>6. PICK a \in D : \A b \in D : f[a] <= f[b] BY <1>5, LeastBy
<1>7. ASSUME NEW b \in D \ {a} PROVE Before(b, a)
      <2>1. SUFFICES ASSUME Before(a, b) PROVE FALSE
            BY Ordering
      <2>2. PICK A : A = Ahead(a) OBVIOUS
      <2>3. PICK B : B = Ahead(b) OBVIOUS
      <2>4. a \in B /\ A \subseteq B BY <2>1, <2>2, <2>3, AheadIs DEF Ahead
      <2>5. a \notin A /\ IsFiniteSet(A) /\ IsFiniteSet(B) BY <2>2, <2>3, AheadIs
      <2>6. PICK j \in Nat : j = Cardinality(A) /\ j <= n BY <1>3, <2>2
      <2>7. PICK k \in Nat : k = Cardinality(B) /\ k <= n BY <1>3, <2>3
      <2>8. Cardinality(A \cup {a}) = j + 1 BY <2>5, <2>6, FS_AddElement
      <2>9. A \cup {a} \subseteq B BY <2>4
      <2>10. j + 1 <= k BY <2>5, <2>7, <2>8, <2>9, FS_Subset
      <2>11. f[a] = n - j /\ f[b] = n - k BY <1>4, <2>2, <2>3, <2>6, <2>7
      <2>12. n - j <= n - k BY <1>6, <2>11
      <2> QED BY <1>1, <2>6, <2>7, <2>10, <2>12
<1>8. \E c \in D : \A b \in D \ {c} : Before(b, c) BY <1>7
<1> QED BY <1>8 DEF Last

\* Taken apart from its last application, a set is smaller.
LEMMA LastLess ==
    ASSUME builders \in Configurations, NEW D \in SUBSET App, D # {}
    PROVE  /\ D \ {Last(D)} \in SUBSET App
           /\ Cardinality(D) \in Nat /\ Cardinality(D \ {Last(D)}) \in Nat
           /\ Cardinality(D \ {Last(D)}) < Cardinality(D)
<1>1. IsFiniteSet(D) /\ Last(D) \in D BY LastIs, Shapes, FS_Subset
<1>2. PICK m : m = Cardinality(D) /\ m \in Nat BY <1>1, FS_CardinalityType
<1>3. PICK E : E = D \ {Last(D)} OBVIOUS
<1>4. IsFiniteSet(E) /\ Cardinality(E) = m - 1 BY <1>1, <1>2, <1>3, FS_RemoveElement
<1>5. PICK k \in Nat : k = Cardinality(E) BY <1>4, FS_CardinalityType
<1>6. k < m BY <1>2, <1>4, <1>5
<1> QED BY <1>2, <1>3, <1>5, <1>6

\* A function that runs the applications in turn exists: it can be defined for
\* all sets of one more application once it is for the smaller ones.
LEMMA InTurnIs ==
    ASSUME builders \in Configurations, NEW p
    PROVE  /\ InTurn(p)[{}] = NewTransaction(p)
           /\ \A D \in SUBSET App : D # {} =>
                 InTurn(p)[D] = Applied(InTurn(p)[D \ {Last(D)}], Last(D))
<1> DEFINE Next1(f, D) == IF D = {} THEN NewTransaction(p)
                          ELSE Applied(f[D \ {Last(D)}], Last(D))
           Runs(f, m) == \A D \in SUBSET App : Cardinality(D) <= m => f[D] = Next1(f, D)
           Reached(m) == \E f : Runs(f, m)
<1>1. PICK n \in Nat : n = Cardinality(App) /\ \A D \in SUBSET App :
                          Cardinality(D) \in Nat /\ Cardinality(D) <= n
      BY Shapes, FS_Subset, FS_CardinalityType
<1>2. Reached(0)
      <2>1. PICK f : f = [D \in SUBSET App |-> NewTransaction(p)] OBVIOUS
      <2>2. ASSUME NEW D \in SUBSET App, Cardinality(D) <= 0 PROVE f[D] = Next1(f, D)
            <3>1. IsFiniteSet(D) BY Shapes, FS_Subset
            <3>2. Cardinality(D) = 0 BY <1>1, <2>2
            <3>3. D = {} BY <3>1, <3>2, FS_EmptySet
            <3> QED BY <2>1, <3>3
      <2> QED BY <2>2
<1>3. ASSUME NEW m \in Nat, Reached(m) PROVE Reached(m + 1)
      <2>1. PICK f : Runs(f, m) BY <1>3
      <2>2. PICK g : g = [D \in SUBSET App |-> Next1(f, D)] OBVIOUS
      <2>3. ASSUME NEW D \in SUBSET App, Cardinality(D) <= m + 1 PROVE g[D] = Next1(g, D)
            <3>1. CASE D = {} BY <2>2, <3>1
            <3>2. CASE D # {}
                  <4>1. PICK E : E = D \ {Last(D)} OBVIOUS
                  <4>2. E \in SUBSET App /\ Cardinality(E) <= m
                        <5>1. PICK i \in Nat : i = Cardinality(D) BY <1>1
                        <5>2. PICK j \in Nat : j = Cardinality(E) BY <3>2, <4>1, LastLess
                        <5>3. j < i /\ i <= m + 1 /\ E \in SUBSET App
                              BY <2>3, <3>2, <4>1, <5>1, <5>2, LastLess
                        <5> QED BY <5>2, <5>3
                  <4>3. f[E] = Next1(f, E) BY <2>1, <4>2
                  <4>4. g[E] = f[E] BY <2>2, <4>2, <4>3
                  <4>5. g[D] = Next1(f, D) BY <2>2
                  <4> QED BY <3>2, <4>1, <4>4, <4>5
            <3> QED BY <3>1, <3>2
      <2> QED BY <2>3
<1>4. Reached(n)
      <2> HIDE DEF Reached
      <2>1. SUFFICES ASSUME ~Reached(n) PROVE FALSE
            OBVIOUS
      <2>2. PICK T : T = {m \in Nat : ~Reached(m)} OBVIOUS
      <2>3. T \in SUBSET Nat /\ T # {} BY <2>1, <2>2
      <2>4. PICK m \in T : \A k \in T : m <= k BY <2>3, Least
      <2>5. m \in Nat /\ m # 0 /\ ~Reached(m) BY <1>2, <2>2, <2>4
      <2>6. PICK k \in Nat : k + 1 = m BY <2>5
      <2>7. k \notin T BY <2>4, <2>5, <2>6
      <2> QED BY <1>3, <2>2, <2>5, <2>6, <2>7
<1>5. PICK f : Runs(f, n) BY <1>4
<1>6. PICK g : g = [D \in SUBSET App |-> f[D]] OBVIOUS
<1>7. ASSUME NEW D \in SUBSET App PROVE g[D] = Next1(g, D)
      <2>1. f[D] = Next1(f, D) BY <1>1, <1>5
      <2>2. CASE D = {} BY <1>6, <2>1, <2>2
      <2>3. CASE D # {}
            <3>1. D \ {Last(D)} \in SUBSET App BY <2>3, LastLess
            <3>2. g[D \ {Last(D)}] = f[D \ {Last(D)}] BY <1>6, <3>1
            <3> QED BY <1>6, <2>1, <2>3, <3>2
      <2> QED BY <2>2, <2>3
<1>8. g = [D \in SUBSET App |-> IF D = {} THEN NewTransaction(p)
                                ELSE Applied(g[D \ {Last(D)}], Last(D))]
      BY <1>6, <1>7
<1>9. InTurn(p) = [D \in SUBSET App |-> IF D = {} THEN NewTransaction(p)
                                        ELSE Applied(InTurn(p)[D \ {Last(D)}], Last(D))]
      <2> DEFINE Solves(h) == h = [D \in SUBSET App |-> IF D = {} THEN NewTransaction(p)
                                                   ELSE Applied(h[D \ {Last(D)}], Last(D))]
      <2>1. InTurn(p) = CHOOSE h : Solves(h) BY DEF InTurn
      <2>2. Solves(g) BY <1>8
      <2> HIDE DEF Solves
      <2>3. Solves(CHOOSE h : Solves(h)) BY <2>2
      <2>4. Solves(InTurn(p)) BY <2>1, <2>3
      <2> QED BY <2>4 DEF Solves
<1> QED BY <1>9

----------------------------------------------------------------------------
(* What recording does to a transaction, and that it stays closed.           *)

Mapping(f) == f = [x \in DOMAIN f |-> f[x]]

\* An asset belongs to one application.
LEMMA AssetIs ==
    ASSUME builders \in Configurations, NEW x \in Asset
    PROVE  /\ x[1] \in App /\ x \in Actions(x[1]) /\ x \in Pairs
           /\ \A a \in App : x \in Actions(a) <=> x[1] = a
<1>1. PICK b \in App : x \in Actions(b) BY DEF Asset
<1>2. PICK i \in DOMAIN builders[b].inputs : x = <<b, i>> BY <1>1 DEF Actions
<1>3. x[1] = b BY <1>2
<1>4. ASSUME NEW a \in App, x \in Actions(a) PROVE x[1] = a BY <1>4 DEF Actions
<1> QED BY <1>1, <1>3, <1>4, Shapes

\* A primary input that is generated belongs to the same package and to an
\* earlier phase.
LEMMA InputIs ==
    ASSUME builders \in Configurations, NEW a \in App, NEW x \in Actions(a),
           Input(x) # Handwritten
    PROVE  /\ Input(x) \in Asset /\ Input(x)[1] \in App
           /\ builders[Input(x)[1]].package = builders[a].package
           /\ Input(x) \notin Hidden(a)
<1>1. PICK i \in DOMAIN builders[a].inputs : x = <<a, i>> BY DEF Actions
<1>2. Input(x) = builders[a].inputs[i] BY <1>1 DEF Input
<1>3. PICK b \in App : \E j \in DOMAIN builders[b].inputs :
         /\ builders[a].inputs[i] = <<b, j>> /\ builders[b].package = builders[a].package
         /\ ~builders[b].post /\ (builders[a].post \/ builders[b].phase < builders[a].phase)
      BY <1>2, ConfigurationsAssumption DEF App
<1>4. PICK j \in DOMAIN builders[b].inputs : Input(x) = <<b, j>> BY <1>2, <1>3
<1>5. Input(x) \in Actions(b) /\ Input(x)[1] = b BY <1>4 DEF Actions
<1>6. Input(x) \in Asset BY <1>5 DEF Asset
<1>7. builders[a].phase \in Nat /\ builders[b].phase \in Nat BY Shapes
<1>8. Input(x) \notin Hidden(a) BY <1>3, <1>5, <1>7 DEF Hidden
<1> QED BY <1>3, <1>5, <1>6, <1>8

\* An application's own actions are hidden from it.
LEMMA OwnHidden ==
    ASSUME builders \in Configurations, NEW a \in App
    PROVE  Actions(a) \subseteq Hidden(a)
<1> SUFFICES ASSUME NEW x \in Actions(a) PROVE x \in Hidden(a)
    OBVIOUS
<1>1. x \in Asset /\ x[1] = a BY AssetIs, Shapes
<1>2. builders[a].phase \in Nat BY Shapes
<1> QED BY <1>1, <1>2 DEF Hidden

\* Only a post-process action deletes, and what it deletes is visible to it.
LEMMA RemovedIs ==
    ASSUME builders \in Configurations, NEW S \in SUBSET Asset, NEW y \in Removed(S)
    PROVE  /\ y \in Asset
           /\ \E z \in S : /\ z[1] \in App /\ builders[z[1]].deletes /\ builders[z[1]].post
                           /\ y = Input(z) /\ builders[y[1]].package = builders[z[1]].package
                           /\ y \notin Hidden(z[1])
<1>1. PICK z \in S : builders[z[1]].deletes /\ y = Input(z) /\ y # Handwritten BY DEF Removed
<1>2. z[1] \in App /\ z \in Actions(z[1]) BY AssetIs
<1>3. builders[z[1]].post BY <1>1, <1>2, ConfigurationsAssumption DEF App
<1>4. y \in Asset /\ builders[y[1]].package = builders[z[1]].package /\ y \notin Hidden(z[1])
      BY <1>1, <1>2, InputIs
<1> QED BY <1>1, <1>2, <1>3, <1>4

\* What an application stages now is not what an action recorded so far deletes.
LEMMA NotRemoved ==
    ASSUME builders \in Configurations, NEW a \in App, NEW S \in SUBSET Asset,
           \A b \in App : Before(a, b) /\ ~SamePhase(a, b) => S \cap Actions(b) = {}
    PROVE  Actions(a) \cap Removed(S) = {}
<1> SUFFICES ASSUME NEW y \in Actions(a), y \in Removed(S) PROVE FALSE
    OBVIOUS
<1>1. y \in Asset /\ y[1] = a BY AssetIs, Shapes
<1>2. PICK z \in S : z[1] \in App /\ builders[z[1]].post /\ y \notin Hidden(z[1])
      BY RemovedIs
<1>3. PICK b \in App : b = z[1] BY <1>2
<1>4. ~builders[a].post BY <1>1, <1>2 DEF Hidden
<1>5. Rank(a) = 0 /\ Rank(b) = 1 /\ ~SamePhase(a, b)
      BY <1>2, <1>3, <1>4 DEF Rank, SamePhase
<1>6. Before(a, b) BY <1>5, BeforeIs
<1>7. z \in Actions(b) BY <1>3, AssetIs
<1> QED BY <1>5, <1>6, <1>7

\* What two sets of post-process actions delete, they delete together.
LEMMA RemovedJoins == \A S, T : Removed(S \cup T) = Removed(S) \cup Removed(T)
BY DEF Removed

\* What `record_missing` changes.
LEMMA RecordMissingIs ==
    ASSUME NEW t, t \in Transactions(t.seen), NEW xs \in SUBSET Pairs
    PROVE  LET u == RecordMissing(t, xs) IN
           /\ u \in Transactions(u.seen) /\ u.previous = t.previous /\ u.seen = t.seen
           /\ u.missing = t.missing \cup xs
           /\ u.written = t.written \ xs /\ u.deleted = t.deleted \cup xs
<1>1. PICK seen : seen = t.seen OBVIOUS
<1>2. t \in Transactions(seen) BY <1>1
<1>3. PICK u : u = RecordMissing(t, xs) OBVIOUS
<1>4. /\ u.seen = t.seen /\ u.previous = t.previous /\ u.missing = t.missing \cup xs
      /\ u.written = t.written \ xs /\ u.deleted = t.deleted \cup xs
      BY <1>2, <1>3 DEF RecordMissing, Transactions
<1>5. u \in Transactions(seen) BY <1>2, <1>3 DEF RecordMissing, Transactions
<1> QED BY <1>1, <1>3, <1>4, <1>5

\* What recording a result changes.
LEMMA RecordResultsIs ==
    ASSUME NEW t, t \in Transactions(t.seen), NEW xs \in SUBSET Pairs, NEW view,
           Removed(xs) \in SUBSET Pairs
    PROVE  LET u == RecordResults(t, xs, view) IN
           /\ u \in Transactions(u.seen) /\ u.previous = t.previous /\ u.missing = t.missing
           /\ DOMAIN u.seen = DOMAIN t.seen \cup xs
           /\ Mapping(u.seen)
           /\ \A x \in DOMAIN u.seen : u.seen[x] = IF x \in xs THEN view ELSE t.seen[x]
           /\ u.written = (t.written \ Removed(xs)) \cup xs
           /\ u.deleted = (t.deleted \ xs) \cup Removed(xs)
<1>1. PICK seen : seen = t.seen OBVIOUS
<1>2. t \in Transactions(seen) BY <1>1
<1>3. PICK s : s = [x \in DOMAIN t.seen \cup xs |-> IF x \in xs THEN view ELSE t.seen[x]]
      OBVIOUS
<1>4. PICK removed : removed = Removed(xs) OBVIOUS
<1>5. PICK u : u = RecordResults(t, xs, view) OBVIOUS
<1>6. u = [t EXCEPT !.written = (t.written \ removed) \cup xs,
                    !.deleted = (t.deleted \ xs) \cup removed, !.seen = s]
      BY <1>3, <1>4, <1>5 DEF RecordResults, Removed
<1>7. /\ u.seen = s /\ u.previous = t.previous /\ u.missing = t.missing
      /\ u.written = (t.written \ removed) \cup xs /\ u.deleted = (t.deleted \ xs) \cup removed
      BY <1>2, <1>6 DEF Transactions
<1>8. u \in Transactions(s)
      <2>1. t.written \in SUBSET Pairs /\ t.deleted \in SUBSET Pairs BY <1>2 DEF Transactions
      <2>2. /\ (t.written \ removed) \cup xs \in SUBSET Pairs
            /\ (t.deleted \ xs) \cup removed \in SUBSET Pairs
            BY <1>4, <2>1
      <2> QED BY <1>2, <1>6, <2>2 DEF Transactions
<1>9. /\ DOMAIN u.seen = DOMAIN t.seen \cup xs
      /\ \A x \in DOMAIN u.seen : u.seen[x] = IF x \in xs THEN view ELSE t.seen[x]
      BY <1>3, <1>7
<1>10. u \in Transactions(u.seen) BY <1>7, <1>8
<1>11. Mapping(u.seen)
       <2>1. Mapping(s) BY <1>3 DEF Mapping
       <2> QED BY <1>7, <2>1
<1> QED BY <1>4, <1>5, <1>7, <1>9, <1>10, <1>11

\* Recording missing inputs keeps a transaction closed.
LEMMA RecordMissingCloses ==
    ASSUME NEW t, t \in Transactions(t.seen), Closed(t), NEW xs \in SUBSET Pairs,
           xs \cap DOMAIN t.seen = {}
    PROVE  Closed(RecordMissing(t, xs))
<1>1. PICK u : u = RecordMissing(t, xs) OBVIOUS
<1>2. /\ u.previous = t.previous /\ u.seen = t.seen /\ u.missing = t.missing \cup xs
      /\ u.written = t.written \ xs /\ u.deleted = t.deleted \cup xs
      BY <1>1, RecordMissingIs
<1>3. PICK removed : removed = Removed(DOMAIN t.seen) OBVIOUS
<1>4. u.written = DOMAIN u.seen \ removed BY <1>2, <1>3 DEF Closed
<1>5. u.deleted = (u.previous \ DOMAIN u.seen) \cup u.missing \cup removed
      BY <1>2, <1>3 DEF Closed
<1> QED BY <1>1, <1>2, <1>3, <1>4, <1>5 DEF Closed

\* Recording results keeps a transaction closed, when no result is of
\* an action that is missing or deleted.
LEMMA RecordResultsCloses ==
    ASSUME NEW t, t \in Transactions(t.seen), Closed(t), NEW xs \in SUBSET Pairs, NEW view,
           Removed(xs) \in SUBSET Pairs, xs \cap t.missing = {},
           xs \cap Removed(DOMAIN t.seen \cup xs) = {}
    PROVE  Closed(RecordResults(t, xs, view))
<1>1. PICK u : u = RecordResults(t, xs, view) OBVIOUS
<1>2. /\ u.previous = t.previous /\ DOMAIN u.seen = DOMAIN t.seen \cup xs
      /\ u.missing = t.missing
      /\ u.written = (t.written \ Removed(xs)) \cup xs
      /\ u.deleted = (t.deleted \ xs) \cup Removed(xs)
      BY <1>1, RecordResultsIs
<1>3. PICK before : before = Removed(DOMAIN t.seen) OBVIOUS
<1>4. PICK now : now = Removed(xs) OBVIOUS
<1>5. Removed(DOMAIN u.seen) = before \cup now BY <1>2, <1>3, <1>4, RemovedJoins
<1>6. xs \cap (before \cup now) = {} BY <1>2, <1>5
<1>7. u.written = DOMAIN u.seen \ (before \cup now) BY <1>2, <1>3, <1>4, <1>6 DEF Closed
<1>8. u.deleted = (u.previous \ DOMAIN u.seen) \cup u.missing \cup (before \cup now)
      BY <1>2, <1>3, <1>4, <1>6 DEF Closed
<1> QED BY <1>1, <1>5, <1>7, <1>8 DEF Closed

----------------------------------------------------------------------------
(* What the reference records, application by application.                   *)

Records(t, D) ==
    /\ t \in Transactions(t.seen) /\ t.previous = transaction.previous /\ Closed(t)
    /\ Mapping(t.seen)
    /\ DOMAIN t.seen \cup t.missing \subseteq Asset
    /\ \A a \in D : /\ t.missing \cap Actions(a) = Gone(a)
                    /\ DOMAIN t.seen \cap Actions(a) = Actions(a) \ Gone(a)
                    /\ \A x \in Actions(a) \ Gone(a) : t.seen[x] = View(a)
    /\ \A a \in App \ D : Actions(a) \cap (DOMAIN t.seen \cup t.missing) = {}

\* Running the next application records its actions on top of the others'.
LEMMA AppliedRecords ==
    ASSUME builders \in Configurations, NEW a \in App, Records(Found(a), Ahead(a))
    PROVE  Records(Applied(Found(a), a), Ahead(a) \cup {a})
<1>1. PICK t : t = Found(a) OBVIOUS
<1>2. PICK D : D = Ahead(a) OBVIOUS
<1>3. PICK gone : gone = Gone(a) OBVIOUS
<1>4. Records(t, D) /\ D \in SUBSET App /\ a \notin D BY <1>1, <1>2, AheadIs
<1>5. gone = MissingInputs(t, a) /\ gone \subseteq Actions(a)
      BY <1>1, <1>3 DEF Gone, MissingInputs
<1>6. Actions(a) \in SUBSET Pairs /\ Actions(a) \in SUBSET Asset BY Shapes
<1>7. PICK p : p = RecordMissing(t, gone) OBVIOUS
<1>8. /\ t \in Transactions(t.seen) /\ Closed(t) /\ t.previous = transaction.previous
      /\ Mapping(t.seen)
      /\ DOMAIN t.seen \cup t.missing \subseteq Asset
      /\ Actions(a) \cap (DOMAIN t.seen \cup t.missing) = {}
      BY <1>4 DEF Records
<1>9. gone \in SUBSET Pairs /\ gone \cap DOMAIN t.seen = {} BY <1>5, <1>6, <1>8
<1>10. /\ p \in Transactions(p.seen) /\ p.previous = t.previous /\ p.seen = t.seen
       /\ p.missing = t.missing \cup gone
       /\ p.written = t.written \ gone /\ p.deleted = t.deleted \cup gone
       BY <1>7, <1>8, <1>9, RecordMissingIs
<1>11. Closed(p) BY <1>7, <1>8, <1>9, RecordMissingCloses
<1>12. Observed(a, p.written \ Hidden(a), p.deleted \ Hidden(a)) = View(a)
       <2>1. gone \subseteq Hidden(a) BY <1>5, OwnHidden
       <2>2. p.written \ Hidden(a) = t.written \ Hidden(a) BY <1>10, <2>1
       <2>3. p.deleted \ Hidden(a) = t.deleted \ Hidden(a) BY <1>10, <2>1
       <2> QED BY <1>1, <2>2, <2>3 DEF View
<1>13. PICK u : u = Applied(t, a) OBVIOUS
<1>14. /\ u \in Transactions(u.seen) /\ u.previous = t.previous /\ Closed(u)
       /\ u.missing = t.missing \cup gone
       /\ Mapping(u.seen)
       /\ DOMAIN u.seen = DOMAIN t.seen \cup (Actions(a) \ gone)
       /\ \A x \in DOMAIN u.seen : u.seen[x] = IF x \in Actions(a) THEN View(a) ELSE t.seen[x]
       <2>1. CASE gone = Actions(a)
             <3>1. u = p BY <1>5, <1>7, <1>13, <2>1 DEF Applied
             <3> QED BY <1>8, <1>10, <1>11, <2>1, <3>1
       <2>2. CASE gone # Actions(a)
             <3>1. PICK xs : xs = Actions(a) \ gone OBVIOUS
             <3>2. u = RecordResults(p, xs, View(a))
                   BY <1>5, <1>7, <1>12, <1>13, <2>2, <3>1 DEF Applied
             <3>3. xs \in SUBSET Pairs /\ xs \in SUBSET Asset BY <1>6, <3>1
             <3>4. Removed(xs) \in SUBSET Pairs BY <3>3, RemovedIs, AssetIs
             <3>5. xs \cap p.missing = {} BY <1>8, <1>10, <3>1
             <3>6. xs \cap Removed(DOMAIN p.seen \cup xs) = {}
                   <4>1. PICK S : S = DOMAIN p.seen \cup xs OBVIOUS
                   <4>2. S \in SUBSET Asset BY <1>8, <1>10, <3>3, <4>1
                   <4>3. ASSUME NEW b \in App, Before(a, b), ~SamePhase(a, b)
                         PROVE  S \cap Actions(b) = {}
                         <5>1. b \notin D /\ b # a BY <1>2, <4>3, Ordering DEF Ahead
                         <5>2. DOMAIN t.seen \cap Actions(b) = {} BY <1>4, <5>1 DEF Records
                         <5>3. xs \cap Actions(b) = {} BY <3>1, <5>1 DEF Actions
                         <5> QED BY <1>10, <4>1, <5>2, <5>3
                   <4>4. Actions(a) \cap Removed(S) = {} BY <4>2, <4>3, NotRemoved
                   <4> QED BY <3>1, <4>1, <4>4
             <3>7. Closed(u) BY <1>10, <1>11, <3>2, <3>3, <3>4, <3>5, <3>6, RecordResultsCloses
             <3>8. /\ u \in Transactions(u.seen) /\ u.previous = p.previous
                   /\ u.missing = p.missing /\ DOMAIN u.seen = DOMAIN p.seen \cup xs
                   /\ Mapping(u.seen)
                   /\ \A x \in DOMAIN u.seen : u.seen[x] = IF x \in xs THEN View(a) ELSE p.seen[x]
                   BY <1>10, <3>2, <3>3, <3>4, RecordResultsIs
             <3>9. \A x \in DOMAIN u.seen :
                      u.seen[x] = IF x \in Actions(a) THEN View(a) ELSE t.seen[x]
                   BY <1>8, <1>10, <3>1, <3>8
             <3> QED BY <1>10, <3>1, <3>7, <3>8, <3>9
       <2> QED BY <2>1, <2>2
<1>15. DOMAIN u.seen \cup u.missing \subseteq Asset BY <1>5, <1>6, <1>8, <1>14
<1>16. ASSUME NEW b \in D
       PROVE  /\ u.missing \cap Actions(b) = Gone(b)
              /\ DOMAIN u.seen \cap Actions(b) = Actions(b) \ Gone(b)
              /\ \A x \in Actions(b) \ Gone(b) : u.seen[x] = View(b)
       <2>1. b \in App /\ b # a BY <1>4
       <2>2. Actions(b) \cap Actions(a) = {} BY <2>1 DEF Actions
       <2>3. /\ t.missing \cap Actions(b) = Gone(b)
             /\ DOMAIN t.seen \cap Actions(b) = Actions(b) \ Gone(b)
             /\ \A x \in Actions(b) \ Gone(b) : t.seen[x] = View(b)
             BY <1>4 DEF Records
       <2>4. gone \cap Actions(b) = {} BY <1>5, <2>2
       <2> QED BY <1>14, <2>2, <2>3, <2>4
<1>17. /\ u.missing \cap Actions(a) = gone
       /\ DOMAIN u.seen \cap Actions(a) = Actions(a) \ gone
       /\ \A x \in Actions(a) \ gone : u.seen[x] = View(a)
       BY <1>5, <1>8, <1>14
<1>18. ASSUME NEW b \in App \ (D \cup {a})
       PROVE  Actions(b) \cap (DOMAIN u.seen \cup u.missing) = {}
       <2>1. Actions(b) \cap Actions(a) = {} BY DEF Actions
       <2>2. Actions(b) \cap (DOMAIN t.seen \cup t.missing) = {} BY <1>4 DEF Records
       <2> QED BY <1>5, <1>14, <2>1, <2>2
<1>19. u.previous = transaction.previous BY <1>8, <1>14
<1>20. Records(u, D \cup {a})
       BY <1>3, <1>14, <1>15, <1>16, <1>17, <1>18, <1>19 DEF Records
<1> QED BY <1>1, <1>2, <1>13, <1>20

\* A set that no application outside it comes before.
Prefix(D) == \A a \in D, b \in App : Before(b, a) => b \in D

\* After each application in turn, exactly those so far are recorded.
LEMMA InTurnRecords ==
    ASSUME builders \in Configurations, transaction.previous \in SUBSET Pairs,
           NEW D \in SUBSET App, Prefix(D)
    PROVE  Records(InTurn(transaction.previous)[D], D)
<1> DEFINE Good(E) == Records(InTurn(transaction.previous)[E], E)
           Bad == {E \in SUBSET App : Prefix(E) /\ ~Good(E)}
<1> SUFFICES ASSUME Bad # {} PROVE FALSE
    OBVIOUS
<1>1. PICK f : f = [E \in SUBSET App |-> Cardinality(E)] OBVIOUS
<1>2. \A E \in Bad : f[E] \in Nat
      <2> SUFFICES ASSUME NEW E \in Bad PROVE f[E] \in Nat
          OBVIOUS
      <2>1. IsFiniteSet(App) BY Shapes
      <2>2. IsFiniteSet(E) BY <2>1, FS_Subset
      <2>3. Cardinality(E) \in Nat BY <2>2, FS_CardinalityType
      <2> QED BY <1>1, <2>3
<1>3. PICK E \in Bad : \A C \in Bad : f[E] <= f[C] BY <1>2, LeastBy
<1>4. E \in SUBSET App /\ Prefix(E) /\ ~Good(E) OBVIOUS
<1>5. E # {}
      <2> SUFFICES ASSUME E = {} PROVE FALSE
          OBVIOUS
      <2>1. PICK t : t = NewTransaction(transaction.previous) OBVIOUS
      <2>2. PICK none : none = [x \in {} |-> {}] OBVIOUS
      <2>3. t = [previous |-> transaction.previous, written |-> {},
                 deleted |-> transaction.previous, missing |-> {}, seen |-> none]
            BY <2>1, <2>2 DEF NewTransaction
      <2>4. t \in Transactions(none) /\ t.seen = none BY <2>3 DEF Transactions
      <2>5. DOMAIN none = {} /\ Mapping(none) /\ Removed({}) = {}
            BY <2>2 DEF Removed, Mapping
      <2>6. Closed(t) BY <2>3, <2>4, <2>5 DEF Closed
      <2>7. Records(t, {}) BY <2>3, <2>4, <2>5, <2>6 DEF Records
      <2>8. InTurn(transaction.previous)[{}] = t BY <2>1, InTurnIs
      <2> QED BY <1>4, <2>7, <2>8
<1>6. PICK a \in E : a = Last(E) /\ \A b \in E \ {a} : Before(b, a) BY <1>4, <1>5, LastIs
<1>7. Ahead(a) = E \ {a}
      <2>1. ASSUME NEW b \in Ahead(a) PROVE b \in E \ {a}
            BY <1>4, <2>1, Ordering DEF Ahead, Prefix
      <2>2. ASSUME NEW b \in E \ {a} PROVE b \in Ahead(a) BY <1>4, <1>6 DEF Ahead
      <2> QED BY <2>1, <2>2
<1>8. a \in App BY <1>4
<1>9. Ahead(a) \in SUBSET App /\ Prefix(Ahead(a))
      BY <1>8, Ordering DEF Ahead, Prefix
<1>10. f[Ahead(a)] < f[E] /\ f[E] \in Nat /\ f[Ahead(a)] \in Nat
       BY <1>1, <1>4, <1>5, <1>6, <1>7, <1>9, LastLess
<1>11. Good(Ahead(a)) BY <1>3, <1>9, <1>10
<1>12. Records(Found(a), Ahead(a)) BY <1>11 DEF Found
<1>13. Records(Applied(Found(a), a), E)
       <2>1. Ahead(a) \cup {a} = E BY <1>7
       <2> QED BY <1>8, <1>12, <2>1, AppliedRecords
<1>14. InTurn(transaction.previous)[E] = Applied(Found(a), a)
       BY <1>4, <1>5, <1>6, <1>7, InTurnIs DEF Found
<1> QED BY <1>4, <1>13, <1>14

\* What an application finds records all that come before it.
LEMMA FoundRecords ==
    ASSUME builders \in Configurations, transaction.previous \in SUBSET Pairs, NEW a \in App
    PROVE  Records(Found(a), Ahead(a))
<1>1. Ahead(a) \in SUBSET App /\ Prefix(Ahead(a)) BY Ordering DEF Ahead, Prefix
<1> QED BY <1>1, InTurnRecords DEF Found

----------------------------------------------------------------------------
(* The reference and the transaction.                                        *)

\* The reference does not change as the schedule runs.
LEMMA ReferenceStatic ==
    ASSUME UNCHANGED config, transaction'.previous = transaction.previous
    PROVE  \A a : Found(a)' = Found(a) /\ Gone(a)' = Gone(a) /\ View(a)' = View(a)
<1>1. builders' = builders /\ App' = App /\ (\A a : Actions(a)' = Actions(a) /\ Hidden(a)' = Hidden(a))
      BY Static
<1>2. \A a, b : Before(a, b)' <=> Before(a, b) BY Static
<1>3. \A a : Ahead(a)' = Ahead(a) BY <1>1, <1>2 DEF Ahead
<1>4. \A D : Last(D)' = Last(D) BY <1>2 DEF Last
<1>5. \A t, a : Applied(t, a)' = Applied(t, a)
      <2>1. \A t, a : MissingInputs(t, a)' = MissingInputs(t, a)
            BY <1>1 DEF MissingInputs, Input
      <2>2. \A t, xs : RecordMissing(t, xs)' = RecordMissing(t, xs) BY DEF RecordMissing
      <2>3. \A t, xs, view : RecordResults(t, xs, view)' = RecordResults(t, xs, view)
            BY <1>1, Zenon DEF RecordResults, Input
      <2>4. \A a, over, gone : Observed(a, over, gone)' = Observed(a, over, gone)
            BY <1>1 DEF Observed, Reach
      <2> QED BY <1>1, <2>1, <2>2, <2>3, <2>4 DEF Applied
<1>6. \A p : NewTransaction(p)' = NewTransaction(p) BY DEF NewTransaction
<1>7. \A p : InTurn(p)' = InTurn(p) BY <1>1, <1>4, <1>5, <1>6 DEF InTurn
<1>8. \A a : Found(a)' = Found(a) BY <1>3, <1>7 DEF Found
<1>9. \A a : Gone(a)' = Gone(a) BY <1>1, <1>8 DEF Gone, MissingInputs, Input
<1>10. \A a : View(a)' = View(a) BY <1>1, <1>8 DEF View, Observed, Reach
<1> QED BY <1>8, <1>9, <1>10

\* What a transaction stages is determined by what it records.
LEMMA ClosedIs ==
    ASSUME builders \in Configurations, NEW t, Closed(t), t.previous \subseteq Asset,
           DOMAIN t.seen \cup t.missing \subseteq Asset
    PROVE  t.written \subseteq Asset /\ t.deleted \subseteq Asset
<1>1. \A y \in Removed(DOMAIN t.seen) : y \in Asset BY RemovedIs
<1> QED BY <1>1 DEF Closed

\* The applications of a phase hide the same from each other.
LEMMA PhaseHidden ==
    ASSUME builders \in Configurations, NEW a \in App, NEW b \in App, SamePhase(a, b)
    PROVE  Hidden(a) = Hidden(b) /\ Actions(a) \subseteq Hidden(b)
<1>1. builders[a].post = builders[b].post /\ builders[a].phase = builders[b].phase
      BY DEF SamePhase
<1>2. Hidden(a) = Hidden(b) BY <1>1 DEF Hidden
<1> QED BY <1>2, OwnHidden

\* What an application's package can reach is what it depends on, or what
\* depends on it.
Reaches(a, b) == builders[b].package \in builders[a].reads \cup {builders[a].package}

\* In one phase, an application waits for what it can reach, whichever of
\* the two has evidence of its packages.
LEMMA ReachDepends ==
    ASSUME builders \in Configurations, NEW a \in App, NEW b \in App, SamePhase(a, b),
           Reaches(a, b)
    PROVE  /\ Before(b, a) => b \in Dependencies(a)
           /\ Before(a, b) => a \in Dependencies(b)
<1>1. builders[a].packageDeps # Unknown =>
         builders[a].reads \subseteq builders[a].packageDeps \cup {builders[a].package}
      BY ConfigurationsAssumption DEF App
<1>2. ~Independent(a, b) /\ ~Independent(b, a) BY <1>1 DEF Independent, Reaches
<1>3. SamePhase(b, a) BY Ordering
<1> QED BY <1>2, <1>3 DEF Dependencies

\* What is finished has begun, and all of it is recorded.
LEMMA Finished ==
    ASSUME Inv, NEW b \in started \ Unfinished
    PROVE  b \in App /\ Begun(b) /\ Recorded(b)
<1>1. b \in App /\ started \subseteq App /\ newly \subseteq phase /\ waiting[b] \in Nat
      BY DEF Inv, Typed, Stepping
<1>2. waiting[b] = 0 /\ b \notin newly
      <2>1. CASE b \in phase BY <1>1, <2>1 DEF Unfinished
      <2>2. CASE b \notin phase BY <1>1, <2>2 DEF Inv, Counted
      <2> QED BY <2>1, <2>2
<1>3. Recorded(b) BY DEF Inv, Progressed
<1> QED BY <1>1, <1>2, <1>3 DEF Begun

\* A counter at zero means that no dependency is left, and only then.
LEMMA NoneWaits ==
    ASSUME Inv, NEW a \in phase
    PROVE  /\ waiting[a] = 0 => Dependencies(a) \cap Unfinished = {}
           /\ Dependencies(a) \cap Unfinished # {} => waiting[a] > 0
<1>1. a \in App /\ builders \in Configurations BY DEF Inv, Typed, Stepping
<1>2. PICK D : D = Dependencies(a) \cap Unfinished OBVIOUS
<1>3. IsFiniteSet(D)
      <2>1. IsFiniteSet(Dependencies(a)) BY <1>1, DependenciesType
      <2> QED BY <1>2, <2>1, FS_Subset
<1>4. PICK n \in Nat : n = Cardinality(D) BY <1>3, FS_CardinalityType
<1>5. n = 0 <=> D = {} BY <1>3, <1>4, FS_EmptySet
<1>6. waiting[a] = n BY <1>2, <1>4 DEF Inv, Counted
<1> QED BY <1>2, <1>4, <1>5, <1>6

\* What an earlier phase has staged is recorded.
LEMMA EarlierRecorded ==
    ASSUME Inv, NEW a \in phase, NEW b \in App, Before(b, a), ~SamePhase(b, a)
    PROVE  b \in started \ Unfinished
<1>1. a \in App /\ a \in started /\ builders \in Configurations BY DEF Inv, Typed, Stepping
<1>2. b \in started
      <2>1. ~Before(a, b) BY <1>1, Ordering
      <2> QED BY <1>1, <2>1 DEF Inv, Whole
<1>3. b \notin phase BY DEF Inv, Whole
<1> QED BY <1>2, <1>3 DEF Unfinished

\* Of what an application can reach, exactly what the reference finds is
\* recorded while the application is prepared and none of it is.
LEMMA Alike ==
    ASSUME Inv, Phased, Matched, NEW a \in phase \cap Unfinished, waiting[a] = 0,
           Actions(a) \cap DOMAIN transaction.seen = {}, NEW b \in App, Reaches(a, b)
    PROVE  /\ DOMAIN transaction.seen \cap Actions(b) = DOMAIN Found(a).seen \cap Actions(b)
           /\ b # a => transaction.missing \cap Actions(b) = Found(a).missing \cap Actions(b)
<1>1. /\ builders \in Configurations /\ a \in App /\ a \in started
      /\ phase \subseteq started /\ started \subseteq App
      BY DEF Inv, Typed, Stepping
<1>2. transaction.previous \in SUBSET Pairs BY <1>1, Shapes DEF Matched
<1>3. Records(Found(a), Ahead(a)) BY <1>1, <1>2, FoundRecords
<1>4. CASE b = a
      <2>1. a \notin Ahead(a) BY <1>1, AheadIs
      <2>2. Actions(a) \cap DOMAIN Found(a).seen = {} BY <1>1, <1>3, <2>1 DEF Records
      <2> QED BY <1>4, <2>2
<1>5. CASE Before(b, a)
      <2>1. b \in Ahead(a) /\ b # a BY <1>1, <1>5, Ordering DEF Ahead
      <2>2. /\ Found(a).missing \cap Actions(b) = Gone(b)
            /\ DOMAIN Found(a).seen \cap Actions(b) = Actions(b) \ Gone(b)
            BY <1>3, <2>1 DEF Records
      <2>3. b \in started \ Unfinished
            <3>1. CASE SamePhase(b, a)
                  <4>1. b \in Dependencies(a) BY <1>1, <1>5, <3>1, ReachDepends, Ordering
                  <4>2. b \notin Unfinished BY <4>1, NoneWaits
                  <4>3. SamePhase(a, b) BY <1>1, <3>1, Ordering
                  <4>4. b \in phase BY <4>3 DEF Inv, Whole
                  <4> QED BY <1>1, <4>2, <4>4
            <3>2. CASE ~SamePhase(b, a) BY <1>5, <3>2, EarlierRecorded
            <3> QED BY <3>1, <3>2
      <2>4. Begun(b) /\ Recorded(b) BY <2>3, Finished
      <2>5. /\ transaction.missing \cap Actions(b) = Gone(b)
            /\ DOMAIN transaction.seen \cap Gone(b) = {}
            /\ Actions(b) \subseteq DOMAIN transaction.seen \cup transaction.missing
            BY <2>4 DEF Matched, Recorded, Gone, MissingInputs
      <2>6. DOMAIN transaction.seen \cap Actions(b) = Actions(b) \ Gone(b) BY <2>5
      <2> QED BY <2>2, <2>5, <2>6
<1>6. CASE Before(a, b)
      <2>1. b \notin Ahead(a) /\ b # a BY <1>1, <1>6, Ordering DEF Ahead
      <2>2. Actions(b) \cap (DOMAIN Found(a).seen \cup Found(a).missing) = {}
            BY <1>3, <2>1 DEF Records
      <2>3. ~Begun(b)
            <3>1. CASE SamePhase(b, a)
                  <4>1. SamePhase(a, b) BY <1>1, <3>1, Ordering
                  <4>2. a \in Dependencies(b) /\ b \in phase
                        BY <1>1, <1>6, <4>1, ReachDepends DEF Inv, Whole
                  <4>3. waiting[b] > 0 BY <4>2, NoneWaits
                  <4> QED BY <4>3 DEF Begun
            <3>2. CASE ~SamePhase(b, a)
                  <4>1. ~SamePhase(a, b) /\ ~Before(b, a) BY <1>1, <1>6, <3>2, Ordering
                  <4>2. b \notin started BY <4>1 DEF Phased
                  <4> QED BY <4>2 DEF Begun
            <3> QED BY <3>1, <3>2
      <2>4. Actions(b) \cap (DOMAIN transaction.seen \cup transaction.missing) = {}
            BY <2>3 DEF Matched
      <2> QED BY <2>2, <2>4
<1> QED BY <1>1, <1>4, <1>5, <1>6, Ordering

\* So what it can see and reach is as the reference leaves it.
LEMMA AlikeStaged ==
    ASSUME Inv, Phased, Matched, NEW a \in phase \cap Unfinished, waiting[a] = 0,
           Actions(a) \cap DOMAIN transaction.seen = {},
           NEW y \in Asset, y \notin Hidden(a), Reaches(a, y[1])
    PROVE  /\ y \in transaction.written <=> y \in Found(a).written
           /\ y \in transaction.deleted <=> y \in Found(a).deleted
<1>1. builders \in Configurations /\ a \in App BY DEF Inv, Typed, Stepping
<1>2. PICK f : f = Found(a) OBVIOUS
<1>3. PICK t : t = transaction OBVIOUS
<1>4. /\ Closed(f) /\ f.previous = t.previous /\ DOMAIN f.seen \subseteq Asset
      <2>1. transaction.previous \in SUBSET Pairs BY <1>1, Shapes DEF Matched
      <2> QED BY <1>1, <1>2, <1>3, <2>1, FoundRecords DEF Records
<1>5. Closed(t) /\ DOMAIN t.seen \subseteq Asset BY <1>3 DEF Matched
<1>6. y[1] \in App /\ y \in Actions(y[1]) /\ y[1] # a BY <1>1, AssetIs, OwnHidden
<1>7. (y \in DOMAIN t.seen <=> y \in DOMAIN f.seen) /\ (y \in t.missing <=> y \in f.missing)
      BY <1>2, <1>3, <1>6, Alike
<1>8. ASSUME NEW z \in Asset, builders[z[1]].package = builders[y[1]].package
      PROVE  z \in DOMAIN t.seen <=> z \in DOMAIN f.seen
      <2>1. z[1] \in App /\ z \in Actions(z[1]) BY <1>1, AssetIs
      <2>2. Reaches(a, z[1]) BY <1>8 DEF Reaches
      <2> QED BY <1>2, <1>3, <2>1, <2>2, Alike
<1>9. ASSUME NEW S \in SUBSET Asset, NEW T \in SUBSET Asset, y \in Removed(S),
             \A z \in Asset : builders[z[1]].package = builders[y[1]].package =>
                                 (z \in S => z \in T)
      PROVE  y \in Removed(T)
      <2>1. PICK z \in S : /\ builders[z[1]].deletes /\ y = Input(z)
                           /\ builders[y[1]].package = builders[z[1]].package
            BY <1>1, <1>9, RemovedIs
      <2>2. z \in T BY <1>9, <2>1
      <2>3. y # Handwritten BY <1>9 DEF Removed
      <2> QED BY <2>1, <2>2, <2>3 DEF Removed
<1>10. y \in Removed(DOMAIN t.seen) <=> y \in Removed(DOMAIN f.seen)
      BY <1>4, <1>5, <1>8, <1>9
<1>11. y \in t.written <=> y \in f.written BY <1>4, <1>5, <1>7, <1>10 DEF Closed
<1>12. y \in t.deleted <=> y \in f.deleted BY <1>4, <1>5, <1>7, <1>10 DEF Closed
<1> QED BY <1>2, <1>3, <1>11, <1>12

\* An application whose dependencies are finished finds the same inputs
\* missing as in turn, and observes the same.
LEMMA AlikeFound ==
    ASSUME Inv, Phased, Matched, NEW a \in phase \cap Unfinished, waiting[a] = 0,
           Actions(a) \cap DOMAIN transaction.seen = {}
    PROVE  /\ MissingInputs(transaction, a) = Gone(a)
           /\ Observed(a, transaction.written \ Hidden(a), transaction.deleted \ Hidden(a))
                 = View(a)
<1>1. builders \in Configurations /\ a \in App BY DEF Inv, Typed, Stepping
<1>2. PICK f : f = Found(a) OBVIOUS
<1>3. PICK t : t = transaction OBVIOUS
<1>4. /\ t.written \subseteq Asset /\ t.deleted \subseteq Asset
      /\ f.written \subseteq Asset /\ f.deleted \subseteq Asset
      <2>1. transaction.previous \in SUBSET Pairs BY <1>1, Shapes DEF Matched
      <2>2. Records(f, Ahead(a)) BY <1>1, <1>2, <2>1, FoundRecords
      <2>3. f.written \subseteq Asset /\ f.deleted \subseteq Asset
            BY <1>1, <2>2, ClosedIs DEF Records, Matched
      <2>4. t.written \subseteq Asset /\ t.deleted \subseteq Asset
            BY <1>1, <1>3, ClosedIs DEF Matched
      <2> QED BY <2>3, <2>4
<1>5. \A y \in Asset : y \notin Hidden(a) /\ Reaches(a, y[1]) =>
         (y \in t.written <=> y \in f.written) /\ (y \in t.deleted <=> y \in f.deleted)
      BY <1>2, <1>3, AlikeStaged
<1>6. ASSUME NEW x \in Actions(a) PROVE Input(x) \in t.deleted <=> Input(x) \in f.deleted
      <2>1. CASE Input(x) = Handwritten
            <3>1. Handwritten \notin Asset BY <1>1, Shapes, ConfigurationsAssumption DEF Pairs
            <3> QED BY <1>4, <2>1, <3>1
      <2>2. CASE Input(x) # Handwritten
            <3>1. /\ Input(x) \in Asset /\ Input(x) \notin Hidden(a)
                  /\ builders[Input(x)[1]].package = builders[a].package
                  BY <1>1, <2>2, InputIs
            <3>2. Reaches(a, Input(x)[1]) BY <3>1 DEF Reaches
            <3> QED BY <1>5, <3>1, <3>2
      <2> QED BY <2>1, <2>2
<1>7. MissingInputs(transaction, a) = Gone(a) BY <1>2, <1>3, <1>6 DEF Gone, MissingInputs
<1>8. \A x : builders[x[1]].package \in builders[a].reads => Reaches(a, x[1]) BY DEF Reaches
<1>9. /\ Reach(a, t.written \ Hidden(a)) = Reach(a, f.written \ Hidden(a))
      /\ Reach(a, t.deleted \ Hidden(a)) = Reach(a, f.deleted \ Hidden(a))
      BY <1>4, <1>5, <1>8 DEF Reach
<1>10. Observed(a, transaction.written \ Hidden(a), transaction.deleted \ Hidden(a)) = View(a)
      BY <1>2, <1>3, <1>9 DEF Observed, View
<1> QED BY <1>7, <1>10

----------------------------------------------------------------------------
(* Steps that record nothing and lease nothing.                              *)

\* What is staged and seen stays what the reference says of it.
LEMMA MatchedKept ==
    ASSUME Matched, UNCHANGED config, UNCHANGED transaction,
           \A a \in App : Begun(a)' <=> Begun(a),
           \A a \in App : apps'[a].prepared => apps[a].prepared /\ apps'[a].specs = apps[a].specs
    PROVE  Matched'
<1>1. builders' = builders /\ App' = App /\ Asset' = Asset /\ \A a : Actions(a)' = Actions(a)
      BY Static
<1>2. \A a : Gone(a)' = Gone(a) /\ View(a)' = View(a) BY ReferenceStatic
<1>3. Closed(transaction)' BY <1>1 DEF Matched, Closed, Removed, Input
<1> QED BY <1>1, <1>2, <1>3 DEF Matched

\* Baselines stay right while the transaction and the applications rest.
LEMMA BasedKept ==
    ASSUME Based, UNCHANGED config,
           UNCHANGED <<phase, apps, baseline, made, running, transaction>>
    PROVE  Based'
<1>1. App' = App /\ (\A a : Actions(a)' = Actions(a) /\ Hidden(a)' = Hidden(a)) BY Static
<1>2. \A a : View(a)' = View(a) BY ReferenceStatic
<1>3. Live' = Live BY <1>1 DEF Live
<1>4. \A b : Shows(b)' <=> Shows(b) BY <1>1 DEF Shows, Overlays
<1>5. \A a, x, y : Observed(a, x, y)' = Observed(a, x, y) BY Static DEF Observed, Reach
<1> QED BY <1>1, <1>2, <1>3, <1>4, <1>5 DEF Based

\* The invariant survives a step that touches neither.
LEMMA ParallelRests ==
    ASSUME Inv, Parallel, UNCHANGED config,
           UNCHANGED <<phase, started, newly, waiting, apps, baseline, made, running, transaction>>,
           Active' => Active /\ UNCHANGED <<completions, resident>>,
           outcome' = "ok" /\ ~Active' => started = App /\ Unfinished = {}
    PROVE  Parallel'
<1>1. App' = App /\ Asset' = Asset /\ Unfinished' = Unfinished BY Static DEF Unfinished
<1>2. Phased' BY <1>1, Static DEF Parallel, Phased
<1>3. \A a \in App : Begun(a)' <=> Begun(a) BY DEF Begun
<1>4. Matched' BY <1>3, MatchedKept DEF Parallel
<1>5. ASSUME Active' PROVE Based' /\ Aware' /\ Answering'
      <2>1. UNCHANGED <<completions, resident>> /\ Based /\ Aware /\ Answering
            BY <1>5 DEF Parallel
      <2>2. Based' BY <2>1, BasedKept
      <2>3. Live' = Live BY <1>1 DEF Live
      <2>4. Produced' = Produced BY <1>1 DEF Produced, Begun
      <2>5. Aware' BY <2>1, <2>3, <2>4 DEF Aware
      <2>6. Answering' BY <2>1, ReferenceStatic DEF Answering
      <2> QED BY <2>2, <2>5, <2>6
<1> QED BY <1>2, <1>4, <1>5 DEF Parallel

\* The controller's steps that record and lease nothing.
LEMMA ControllerAsks ==
    ASSUME Inv, Parallel,
           Prepared \/ Leased \/ AllPhases \/ ReceiveError \/ Join \/ \E w \in Worker : PassOver(w)
    PROVE  Parallel'
<1>1. CASE Prepared
      <2>1. /\ pc = "prepare" /\ pc' \in {"phase", "lease"} /\ UNCHANGED config
            /\ UNCHANGED <<phase, started, newly, waiting, apps, baseline, made, running,
                           transaction>>
            /\ UNCHANGED <<completions, resident>>
            BY <1>1 DEF Prepared, threads
      <2>2. Active /\ Active' BY <2>1 DEF Active
      <2> QED BY <2>1, <2>2, ParallelRests
<1>2. CASE Leased
      <2>1. /\ pc = "lease" /\ pc' = "receive" /\ UNCHANGED config
            /\ UNCHANGED <<phase, started, newly, waiting, apps, baseline, made, running,
                           transaction>>
            /\ UNCHANGED <<completions, resident>>
            BY <1>2 DEF Leased, threads
      <2>2. Active /\ Active' BY <2>1 DEF Active
      <2> QED BY <2>1, <2>2, ParallelRests
<1>3. CASE AllPhases
      <2>1. /\ pc = "phase" /\ started = App /\ pc' = "closing" /\ UNCHANGED config
            /\ UNCHANGED <<phase, started, newly, waiting, apps, baseline, made, running,
                           transaction>>
            BY <1>3 DEF AllPhases
      <2>2. ~Active' /\ Unfinished = {} BY <2>1 DEF Active, Inv, Counted
      <2> QED BY <2>1, <2>2, ParallelRests
<1>4. CASE ReceiveError
      <2>1. /\ pc' = "closing" /\ outcome' = "error" /\ UNCHANGED config
            /\ UNCHANGED <<phase, started, newly, waiting, apps, baseline, made, running,
                           transaction>>
            BY <1>4 DEF ReceiveError
      <2>2. ~Active' BY <2>1 DEF Active
      <2> QED BY <2>1, <2>2, ParallelRests
<1>5. CASE Join
      <2>1. /\ pc = "closing" /\ pc' = "returned" /\ outcome' = outcome /\ UNCHANGED config
            /\ UNCHANGED <<phase, started, newly, waiting, apps, baseline, made, running,
                           transaction>>
            BY <1>5 DEF Join
      <2>2. ~Active' /\ ~Active BY <2>1 DEF Active
      <2>3. outcome' = "ok" => started = App /\ Unfinished = {} BY <2>1, <2>2 DEF Parallel, Phased
      <2> QED BY <2>1, <2>2, <2>3, ParallelRests
<1>6. ASSUME NEW w \in Worker, PassOver(w) PROVE Parallel'
      <2>1. /\ pc = "lease" /\ pc' = pc /\ UNCHANGED config
            /\ UNCHANGED <<phase, started, newly, waiting, apps, baseline, made, running,
                           transaction>>
            /\ UNCHANGED <<completions, resident>>
            BY <1>6 DEF PassOver, threads
      <2>2. Active /\ Active' BY <2>1 DEF Active
      <2> QED BY <2>1, <2>2, ParallelRests
<1> QED BY <1>1, <1>2, <1>3, <1>4, <1>5, <1>6

\* A thread that ends, and a stuttering step.
LEMMA QuitAsks ==
    ASSUME Inv, Parallel, UNCHANGED vars \/ \E w \in Worker : Quit(w)
    PROVE  Parallel'
<1>1. UNCHANGED <<config, controller>> /\ UNCHANGED <<completions, resident>>
      BY DEF vars, threads, Quit
<1>2. /\ UNCHANGED config /\ pc' = pc /\ outcome' = outcome
      /\ UNCHANGED <<phase, started, newly, waiting, apps, baseline, made, running, transaction>>
      BY <1>1 DEF controller
<1>3. Active' <=> Active BY <1>2 DEF Active
<1>4. outcome' = "ok" /\ ~Active' => started = App /\ Unfinished = {}
      BY <1>2, <1>3 DEF Parallel, Phased
<1> QED BY <1>1, <1>2, <1>3, <1>4, ParallelRests

\* Before the first phase nothing is recorded.
LEMMA InitAgrees ==
    ASSUME Init
    PROVE  Parallel
<1>1. /\ builders \in Configurations /\ pc = "phase" /\ phase = {} /\ started = {}
      /\ apps = [a \in App |-> Idle] /\ baseline = NoBaseline /\ made = 0
      /\ running = [w \in Worker |-> NoLease] /\ completions = <<>>
      /\ resident = [w \in Worker |-> [package |-> Unknown, baseline |-> 0, held |-> {}]]
      BY DEF Init
<1>2. PICK previous \in {{}, Asset} : transaction = NewTransaction(previous) BY DEF Init
<1>3. /\ transaction.previous = previous /\ transaction.written = {}
      /\ transaction.deleted = previous /\ transaction.missing = {}
      /\ DOMAIN transaction.seen = {}
      BY <1>2 DEF NewTransaction
<1>4. previous \subseteq Asset OBVIOUS
<1>5. \A a \in App : apps[a] = Idle /\ ~apps[a].prepared BY <1>1 DEF Idle
<1>6. Phased BY <1>1 DEF Phased, Active
<1>7. Matched
      <2>1. Removed({}) = {} BY DEF Removed
      <2>2. Closed(transaction) BY <1>3, <2>1 DEF Closed
      <2>3. \A a \in App : ~Begun(a) BY <1>1 DEF Begun
      <2> QED BY <1>3, <1>4, <1>5, <2>2, <2>3 DEF Matched
<1>8. Live = {} BY <1>1, <1>5 DEF Live
<1>9. Based BY <1>1, <1>5, <1>8 DEF Based
<1>10. Aware BY <1>1, <1>8 DEF Aware
<1>11. Answering BY <1>1 DEF Answering
<1> QED BY <1>6, <1>7, <1>9, <1>10, <1>11 DEF Parallel

\* A phase begins when all earlier ones are recorded; its applications are
\* not begun.
LEMMA BeginPhaseAgrees ==
    ASSUME Inv, Parallel, BeginPhase
    PROVE  Parallel'
<1>1. /\ pc = "phase" /\ started # App
      /\ phase' = PhaseOf(App \ started) /\ started' = started \cup phase'
      /\ waiting' = [a \in App |-> IF a \in phase' THEN Cardinality(Dependencies(a)) ELSE 0]
      /\ newly' = {a \in phase' : Dependencies(a) = {}}
      /\ baseline' = NoBaseline /\ pc' = "prepare"
      /\ UNCHANGED config /\ UNCHANGED <<completions, resident>>
      /\ UNCHANGED <<apps, made, running, transaction>>
      BY DEF BeginPhase, threads
<1>2. builders \in Configurations /\ started \in SUBSET App BY DEF Inv, Typed, Stepping
<1>3. \A a \in started, b \in App \ started : Before(a, b) /\ ~SamePhase(a, b)
      BY DEF Inv, Whole
<1>4. phase' \in SUBSET (App \ started) /\ \A a, b \in phase' : SamePhase(a, b)
      BY <1>1, <1>2, <1>3, NextPhase
<1>5. Active /\ Active' BY <1>1 DEF Active
<1>6. App' = App /\ Asset' = Asset /\ \A a : Actions(a)' = Actions(a) BY <1>1, Static
<1>7. Phased' BY <1>1, <1>3, <1>4, <1>5, Static DEF Phased
<1>8. \A a \in App : Begun(a)' <=> Begun(a)
      <2> SUFFICES ASSUME NEW a \in App PROVE Begun(a)' <=> Begun(a)
          OBVIOUS
      <2>1. CASE a \in started
            <3>1. Begun(a) BY <1>1, <2>1, Finished DEF Inv, Counted
            <3>2. a \notin phase' /\ a \in started' BY <1>1, <1>4, <2>1
            <3>3. waiting'[a] = 0 /\ a \notin newly' BY <1>1, <3>2
            <3> QED BY <3>1, <3>2, <3>3 DEF Begun
      <2>2. CASE a \in phase'
            <3>1. ~Begun(a) BY <1>4, <2>2 DEF Begun
            <3>2. PICK n \in Nat : n = Cardinality(Dependencies(a)) /\ (n = 0 <=> Dependencies(a) = {})
                  BY <1>2, DependenciesType
            <3>3. waiting'[a] = n BY <1>1, <2>2, <3>2
            <3>4. a \in newly' <=> n = 0 BY <1>1, <2>2, <3>2
            <3> QED BY <3>1, <3>3, <3>4 DEF Begun
      <2>3. CASE a \notin started /\ a \notin phase' BY <1>1, <2>3 DEF Begun
      <2> QED BY <2>1, <2>2, <2>3
<1>9. Matched' BY <1>1, <1>8, MatchedKept DEF Parallel
<1>10. \A a \in App : ~apps[a].prepared BY <1>1, Quiet
<1>11. \A w \in Worker : running[w] = NoLease BY <1>1, Quiet
<1>12. Live' = {} BY <1>1, <1>6, <1>10 DEF Live
<1>13. Based' BY <1>1, <1>6, <1>10, <1>11, <1>12 DEF Based
<1>14. Aware'
      <2>1. Produced' = Produced
            <3>1. \A x \in Asset : x[1] \in App BY <1>2, AssetIs
            <3> QED BY <1>1, <1>6, <1>8, <3>1 DEF Produced
      <2>2. Aware BY <1>5 DEF Parallel
      <2> QED BY <1>1, <1>12, <2>1, <2>2 DEF Aware
<1>15. Answering'
      <2>1. DOMAIN completions = {} BY <1>1, Quiet
      <2> QED BY <1>1, <2>1 DEF Answering
<1> QED BY <1>7, <1>9, <1>13, <1>14, <1>15 DEF Parallel

----------------------------------------------------------------------------
(* An application is prepared.                                               *)

\* What waited for a finished application has not begun yet.
LEMMA FinishBegins ==
    ASSUME Inv, UNCHANGED config, UNCHANGED <<phase, started>>,
           NEW a \in Unfinished, waiting[a] = 0, Finish(a)
    PROVE  Begun(a)' /\ \A b \in App \ {a} : Begun(b)' <=> Begun(b)
<1> DEFINE after == {b \in phase : a \in Dependencies(b)}
<1>1. /\ waiting' = [b \in App |-> IF b \in after THEN waiting[b] - 1 ELSE waiting[b]]
      /\ newly' = (newly \ {a}) \cup {b \in after : waiting[b] = 1}
      BY DEF Finish
<1>2. /\ builders \in Configurations /\ phase \subseteq started /\ started \subseteq App
      /\ waiting \in [App -> Nat]
      BY DEF Inv, Typed, Stepping
<1>3. a \in phase /\ a \in App /\ a \in started BY <1>2 DEF Unfinished
<1>4. ASSUME NEW b \in after PROVE b \in App /\ b # a /\ waiting[b] \in Nat /\ waiting[b] > 0
      <2>1. b \in phase /\ b \in App /\ a \in Dependencies(b) BY <1>2
      <2>2. b # a BY <1>2, <2>1, DependenciesType
      <2>3. waiting[b] > 0 BY <2>1, NoneWaits
      <2> QED BY <1>2, <2>1, <2>2, <2>3
<1>5. a \notin after BY <1>4
<1>6. Begun(a)'
      <2>1. waiting'[a] = 0 /\ a \notin newly' BY <1>1, <1>3, <1>5
      <2> QED BY <1>3, <2>1 DEF Begun
<1>7. ASSUME NEW b \in App \ {a} PROVE Begun(b)' <=> Begun(b)
      <2>1. CASE b \in after
            <3>1. ~Begun(b) BY <1>4, <2>1 DEF Begun
            <3>2. waiting'[b] = waiting[b] - 1 BY <1>1, <2>1
            <3>3. waiting[b] = 1 => b \in newly' BY <1>1, <2>1
            <3>4. ~Begun(b)' BY <1>4, <2>1, <3>2, <3>3 DEF Begun
            <3> QED BY <3>1, <3>4
      <2>2. CASE b \notin after
            <3>1. waiting'[b] = waiting[b] /\ (b \in newly' <=> b \in newly) BY <1>1, <2>2
            <3> QED BY <3>1 DEF Begun
      <2> QED BY <2>1, <2>2
<1> QED BY <1>6, <1>7

\* Preparing an application begins it and leaves the others as they are.
LEMMA PrepareBegins ==
    ASSUME Inv, NEW a \in App, Prepare(a)
    PROVE  /\ Begun(a)' /\ ~Begun(a) /\ \A b \in App \ {a} : Begun(b)' <=> Begun(b)
           /\ DOMAIN apps' = App /\ \A b \in App \ {a} : apps'[b] = apps[b]
           /\ apps'[a].baseline = NoBaseline
           /\ apps'[a].prepared => \A k \in 1..Len(apps'[a].specs) :
                 <<a, apps'[a].specs[k]>> \notin MissingInputs(transaction, a)
<1> DEFINE gone == MissingInputs(transaction, a)
           left == {i \in DOMAIN builders[a].inputs : <<a, i>> \notin gone}
<1>1. a \in newly /\ UNCHANGED config /\ UNCHANGED <<phase, started>> BY DEF Prepare
<1>2. a \in phase /\ a \in Unfinished /\ waiting[a] = 0 /\ apps[a] = Idle BY <1>1, Untouched
<1>3. builders \in Configurations /\ DOMAIN apps = App /\ apps[a] \in Applications
      /\ a \in started
      BY <1>2 DEF Inv, Typed, Stepping
<1>4. ~Begun(a) BY <1>1 DEF Begun
<1>5. Idle.baseline = NoBaseline /\ ~Idle.prepared BY DEF Idle
<1>6. CASE left = {}
      <2>1. Finish(a) /\ apps' = apps BY <1>6 DEF Prepare
      <2>2. Begun(a)' /\ \A b \in App \ {a} : Begun(b)' <=> Begun(b)
            BY <1>1, <1>2, <2>1, FinishBegins
      <2> QED BY <1>2, <1>3, <1>4, <1>5, <2>1, <2>2
<1>7. CASE left # {}
      <2>1. /\ apps' = [apps EXCEPT ![a].specs = InOrder(left), ![a].prepared = TRUE]
            /\ newly' = newly \ {a} /\ waiting' = waiting
            BY <1>7 DEF Prepare
      <2>2. PICK x : x = left OBVIOUS
      <2>3. x \in SUBSET Nat /\ IsFiniteSet(x)
            <3>1. DOMAIN builders[a].inputs \in SUBSET Nat /\ IsFiniteSet(DOMAIN builders[a].inputs)
                  BY <1>3, Shapes
            <3> QED BY <2>2, <3>1, FS_Subset
      <2>4. PICK s : s = InOrder(x) OBVIOUS
      <2>5. s \in Seq(x) BY <2>3, <2>4, InOrderHasAll
      <2>6. \A k \in 1..Len(s) : <<a, s[k]>> \notin gone BY <2>2, <2>5
      <2> HIDE DEF gone, left
      <2>7. PICK t \in Flag : t = TRUE BY DEF Flag
      <2>8. apps' = [apps EXCEPT ![a].specs = s, ![a].prepared = t] BY <2>1, <2>2, <2>4, <2>7
      <2>9. apps'[a].specs = s /\ apps'[a].baseline = apps[a].baseline
            BY <1>3, <2>8 DEF Applications
      <2>10. DOMAIN apps' = App /\ \A b \in App \ {a} : apps'[b] = apps[b] BY <1>3, <2>8
      <2>11. \A b \in App \ {a} : Begun(b)' <=> Begun(b) BY <1>1, <2>1 DEF Begun
      <2>12. Begun(a)' BY <1>1, <1>2, <1>3, <2>1 DEF Begun
      <2> QED BY <1>2, <1>4, <1>5, <2>6, <2>9, <2>10, <2>11, <2>12 DEF gone
<1> QED BY <1>6, <1>7

\* An application is prepared when what it reaches is recorded.
LEMMA PrepareAgrees ==
    ASSUME Inv, Parallel, NEW a \in App, Prepare(a)
    PROVE  Parallel'
<1>1. PICK gone : gone = MissingInputs(transaction, a) OBVIOUS
<1>2. /\ pc = "prepare" /\ pc' = pc /\ a \in newly
      /\ transaction' = RecordMissing(transaction, gone)
      /\ UNCHANGED config /\ UNCHANGED <<completions, resident>>
      /\ UNCHANGED <<phase, started, baseline, made, running, outcome>>
      BY <1>1 DEF Prepare, threads
<1>3. /\ a \in phase \cap Unfinished /\ waiting[a] = 0 /\ ~apps[a].prepared
      /\ \A w \in Worker : running[w] # NoLease => running[w].app # a
      BY <1>2, Untouched
<1>4. builders \in Configurations BY DEF Inv, Typed, Stepping
<1>5. /\ Begun(a)' /\ ~Begun(a) /\ \A b \in App \ {a} : Begun(b)' <=> Begun(b)
      /\ \A b \in App \ {a} : apps'[b] = apps[b]
      /\ apps'[a].baseline = NoBaseline
      /\ apps'[a].prepared =>
            \A k \in 1..Len(apps'[a].specs) : <<a, apps'[a].specs[k]>> \notin gone
      BY <1>1, PrepareBegins
<1>6. Phased /\ Matched /\ Active /\ Active' /\ Based /\ Aware /\ Answering
      BY <1>2 DEF Parallel, Active
<1>7. Actions(a) \cap (DOMAIN transaction.seen \cup transaction.missing) = {}
      BY <1>5, <1>6 DEF Matched
<1>8. gone = Gone(a)
      BY <1>1, <1>3, <1>6, <1>7, AlikeFound
<1>9. gone \subseteq Actions(a) /\ gone \in SUBSET Pairs /\ Actions(a) \subseteq Asset
      BY <1>1, <1>4, Shapes DEF MissingInputs
<1>10. transaction \in Transactions(transaction.seen) BY DEF Inv, Typed, Staged
<1>11. /\ transaction'.seen = transaction.seen /\ transaction'.previous = transaction.previous
       /\ transaction'.missing = transaction.missing \cup gone
       BY <1>2, <1>9, <1>10, RecordMissingIs
<1>12. /\ App' = App /\ Asset' = Asset /\ builders' = builders
       /\ \A b : Actions(b)' = Actions(b) /\ Hidden(b)' = Hidden(b)
       BY <1>2, Static
<1>13. \A b : Gone(b)' = Gone(b) /\ View(b)' = View(b) BY <1>2, <1>11, ReferenceStatic
<1>14. Phased' BY <1>2, <1>6, Static DEF Phased
<1>15. \A b \in App \ {a} : Actions(b) \cap Actions(a) = {} BY DEF Actions
<1>16. Matched'
       <2>1. Closed(transaction)'
             <3>1. gone \cap DOMAIN transaction.seen = {} BY <1>7, <1>9
             <3>2. Closed(RecordMissing(transaction, gone))
                   BY <1>6, <1>9, <1>10, <3>1, RecordMissingCloses DEF Matched
             <3>3. Closed(transaction') BY <1>2, <3>2
             <3> QED BY <1>12, <3>3 DEF Closed, Removed, Input
       <2>2. ASSUME NEW b \in App, Begun(b)'
             PROVE  /\ transaction'.missing \cap Actions(b) = Gone(b)
                    /\ \A x \in Actions(b) \cap DOMAIN transaction'.seen :
                          x \notin Gone(b) /\ transaction'.seen[x] = View(b)
             <3>1. CASE b = a BY <1>7, <1>8, <1>9, <1>11, <3>1
             <3>2. CASE b # a
                   <4>1. Begun(b) BY <1>5, <2>2, <3>2
                   <4>2. gone \cap Actions(b) = {} BY <1>9, <1>15, <3>2
                   <4>3. transaction.missing \cap Actions(b) = Gone(b) BY <1>6, <4>1 DEF Matched
                   <4>4. \A x \in Actions(b) \cap DOMAIN transaction.seen :
                            x \notin Gone(b) /\ transaction.seen[x] = View(b)
                         BY <1>6, <4>1 DEF Matched
                   <4> QED BY <1>11, <4>2, <4>3, <4>4
             <3> QED BY <3>1, <3>2
       <2>3. ASSUME NEW b \in App, ~Begun(b)'
             PROVE  Actions(b) \cap (DOMAIN transaction'.seen \cup transaction'.missing) = {}
             <3>1. b # a /\ ~Begun(b) BY <1>5, <2>3
             <3>2. gone \cap Actions(b) = {} BY <1>9, <1>15, <3>1
             <3>3. Actions(b) \cap (DOMAIN transaction.seen \cup transaction.missing) = {}
                   BY <1>6, <3>1 DEF Matched
             <3> QED BY <1>11, <3>2, <3>3
       <2>4. ASSUME NEW b \in App, apps'[b].prepared, NEW k \in 1..Len(apps'[b].specs)
             PROVE  <<b, apps'[b].specs[k]>> \notin transaction'.missing
             <3>1. CASE b = a
                   <4>1. <<a, apps'[a].specs[k]>> \notin gone BY <1>5, <2>4, <3>1
                   <4>2. transaction.missing \cap Actions(a) = {} BY <1>7
                   <4>3. <<a, apps'[a].specs[k]>> \notin transaction.missing
                         <5> SUFFICES ASSUME <<a, apps'[a].specs[k]>> \in transaction.missing
                                      PROVE  FALSE
                             OBVIOUS
                         <5>1. PICK y : y = <<a, apps'[a].specs[k]>> OBVIOUS
                         <5>2. y \in Asset /\ y[1] = a BY <1>6, <5>1 DEF Matched
                         <5>3. y \in Actions(a) BY <1>4, <5>2, AssetIs
                         <5> QED BY <4>2, <5>1, <5>3
                   <4> QED BY <1>11, <3>1, <4>1, <4>3
             <3>2. CASE b # a
                   <4>1. apps[b].prepared /\ k \in 1..Len(apps[b].specs) /\ apps'[b] = apps[b]
                         BY <1>5, <2>4, <3>2
                   <4>2. <<b, apps[b].specs[k]>> \notin transaction.missing
                         BY <1>6, <4>1 DEF Matched
                   <4>3. <<b, apps[b].specs[k]>> \notin Actions(a) BY <3>2 DEF Actions
                   <4> QED BY <1>9, <1>11, <4>1, <4>2, <4>3
             <3> QED BY <3>1, <3>2
       <2>5. /\ transaction'.previous \subseteq Asset
             /\ DOMAIN transaction'.seen \cup transaction'.missing \subseteq Asset
             BY <1>6, <1>9, <1>11 DEF Matched
       <2> QED BY <1>12, <1>13, <2>1, <2>2, <2>3, <2>4, <2>5 DEF Matched
<1>17. Live' \subseteq Live
       <2> SUFFICES ASSUME NEW c \in Live' PROVE c \in Live
           OBVIOUS
       <2>1. c # NoBaseline /\ (c = baseline \/ \E b \in App : apps'[b].prepared /\ c = apps'[b].baseline)
             BY <1>2, <1>12 DEF Live
       <2>2. ASSUME NEW b \in App, apps'[b].prepared, c = apps'[b].baseline PROVE c \in Live
             <3>1. b # a BY <1>5, <2>1, <2>2
             <3>2. apps[b].prepared /\ c = apps[b].baseline BY <1>5, <2>2, <3>1
             <3> QED BY <2>1, <3>2 DEF Live
       <2> QED BY <2>1, <2>2 DEF Live
<1>18. Based'
       <2>1. \A c : Shows(c) => Shows(c)' BY <1>2, <1>11, <1>12 DEF Shows, Overlays
       <2>2. \A c \in Live' : Shows(c)' BY <1>6, <1>17, <2>1 DEF Based
       <2>3. \A b, c \in Live' : b.id = c.id => b = c BY <1>6, <1>17 DEF Based
       <2>4. ASSUME NEW b \in App, apps'[b].prepared
             PROVE  IF apps'[b].baseline = NoBaseline
                    THEN Actions(b) \cap DOMAIN transaction'.seen = {}
                    ELSE Observed(b, apps'[b].baseline.over, apps'[b].baseline.gone) = View(b)
             <3>1. CASE b = a BY <1>5, <1>7, <1>11, <3>1
             <3>2. CASE b # a BY <1>5, <1>6, <1>11, <2>4, <3>2 DEF Based
             <3> QED BY <3>1, <3>2
       <2>5. ASSUME NEW w \in Worker, running[w] # NoLease
             PROVE  /\ running[w].baseline # NoBaseline
                    /\ running[w].baseline = apps'[running[w].app].baseline
             <3>1. running[w].app # a /\ LeaseFits(w) BY <1>3, <2>5 DEF Inv, Sound
             <3>2. running[w].app \in App \ {a} BY <3>1 DEF LeaseFits
             <3> QED BY <1>5, <1>6, <2>5, <3>2 DEF Based
       <2>6. \A b, x, y : Observed(b, x, y)' = Observed(b, x, y) BY <1>12 DEF Observed, Reach
       <2> QED BY <1>2, <1>12, <1>13, <2>2, <2>3, <2>4, <2>5, <2>6 DEF Based
<1>19. Aware'
       <2>1. Produced \subseteq Produced'
             <3> SUFFICES ASSUME NEW x \in Produced PROVE x \in Produced'
                 OBVIOUS
             <3>1. x \in Asset /\ Begun(x[1]) /\ x \notin transaction.missing BY DEF Produced
             <3>2. x[1] \in App \ {a} /\ x \in Actions(x[1]) BY <1>4, <1>5, <3>1, AssetIs
             <3>3. Begun(x[1])' /\ x \notin gone BY <1>5, <1>9, <1>15, <3>1, <3>2
             <3>4. x \in Asset' /\ x \notin transaction'.missing BY <1>11, <1>12, <3>1, <3>3
             <3> QED BY <3>3, <3>4 DEF Produced
       <2> QED BY <1>2, <1>6, <1>17, <2>1 DEF Aware
<1>20. Answering' BY <1>2, <1>6, <1>13 DEF Answering
<1> QED BY <1>14, <1>16, <1>18, <1>19, <1>20 DEF Parallel

----------------------------------------------------------------------------
(* A result is received.                                                     *)

\* A prepared application is one of the phase, and begun.
LEMMA PreparedBegun ==
    ASSUME Inv, NEW a \in App, apps[a].prepared
    PROVE  a \in phase \cap Unfinished /\ a \in started /\ waiting[a] = 0 /\ Begun(a)
<1>1. a \in phase \ newly /\ waiting[a] = 0 BY DEF Inv, Counted
<1>2. a \in started BY <1>1 DEF Inv, Typed, Stepping
<1> QED BY <1>1, <1>2 DEF Unfinished, Begun

\* A lease is of prepared inputs that are not missing.
LEMMA LeaseIs ==
    ASSUME Inv, Matched, NEW w \in Worker, running[w] # NoLease
    PROVE  LET l == running[w] IN
           /\ l.app \in App /\ apps[l.app].prepared
           /\ ActionsOf(l) \subseteq Actions(l.app) /\ ActionsOf(l) \cap transaction.missing = {}
<1>1. running[w] \in Leases /\ LeaseFits(w) BY DEF Inv, Typed, Stepping, Sound
<1>2. PICK l \in Leases : l = running[w] BY <1>1
<1>3. PICK a \in App : a = l.app BY <1>1, <1>2 DEF LeaseFits
<1>4. /\ apps[a].prepared /\ l.specs = apps[a].specs /\ 1 <= l.lo
      /\ l.hi < apps[a].next
      BY <1>1, <1>2, <1>3 DEF LeaseFits
<1>5. apps[a].next <= Len(apps[a].specs) + 1 BY <1>4 DEF Inv, Sound
<1>6. /\ apps[a].next \in Nat /\ Len(apps[a].specs) \in Nat /\ l.lo \in Nat /\ l.hi \in Nat
      BY DEF Inv, Typed, Stepping, Applications, Leases
<1>7. \A k \in l.lo..l.hi : k \in 1..Len(apps[a].specs) BY <1>4, <1>5, <1>6
<1>8. \A k \in 1..Len(apps[a].specs) : /\ apps[a].specs[k] \in DOMAIN builders[a].inputs
                                       /\ <<a, apps[a].specs[k]>> \notin transaction.missing
      BY <1>4 DEF Inv, Progressed, Matched
<1>9. ActionsOf(l) = {<<a, apps[a].specs[k]>> : k \in l.lo..l.hi} BY <1>3, <1>4 DEF ActionsOf
<1>10. ActionsOf(l) \subseteq Actions(a) /\ ActionsOf(l) \cap transaction.missing = {}
       BY <1>7, <1>8, <1>9 DEF Actions
<1> QED BY <1>2, <1>3, <1>4, <1>10

Adds(u, xs, view) ==
    /\ Closed(u) /\ u.previous = transaction.previous /\ u.missing = transaction.missing
    /\ DOMAIN u.seen = DOMAIN transaction.seen \cup xs
    /\ \A x \in DOMAIN u.seen : u.seen[x] = IF x \in xs THEN view ELSE transaction.seen[x]

\* Recording results of a begun application keeps the transaction closed.
LEMMA ResultsClose ==
    ASSUME Inv, Phased, Matched, NEW a \in phase, Begun(a), NEW xs \in SUBSET Actions(a),
           xs \cap transaction.missing = {}, NEW view,
           NEW u, u = RecordResults(transaction, xs, view)
    PROVE  Adds(u, xs, view)
<1>1. builders \in Configurations /\ a \in App BY DEF Inv, Typed, Stepping
<1>2. PICK t : t = transaction OBVIOUS
<1>3. t \in Transactions(t.seen) BY <1>2 DEF Inv, Typed, Staged
<1>4. xs \in SUBSET Pairs /\ xs \in SUBSET Asset BY <1>1, Shapes
<1>5. Removed(xs) \in SUBSET Pairs BY <1>1, <1>4, RemovedIs, AssetIs
<1>6. PICK S : S = DOMAIN t.seen \cup xs OBVIOUS
<1>7. S \in SUBSET Asset BY <1>2, <1>4, <1>6 DEF Matched
<1>8. ASSUME NEW b \in App, Before(a, b), ~SamePhase(a, b) PROVE S \cap Actions(b) = {}
      <2>1. ~Before(b, a) /\ b # a BY <1>1, <1>8, Ordering
      <2>2. ~Begun(b) BY <1>8, <2>1 DEF Phased, Begun
      <2>3. Actions(b) \cap DOMAIN t.seen = {} BY <1>2, <2>2 DEF Matched
      <2>4. Actions(b) \cap Actions(a) = {} BY <2>1 DEF Actions
      <2> QED BY <1>6, <2>3, <2>4
<1>9. Actions(a) \cap Removed(S) = {} BY <1>1, <1>7, <1>8, NotRemoved
<1>10. Closed(t) BY <1>2 DEF Matched
<1>11. xs \cap t.missing = {} /\ xs \cap Removed(DOMAIN t.seen \cup xs) = {}
       BY <1>2, <1>6, <1>9
<1>12. Closed(RecordResults(t, xs, view))
       BY <1>3, <1>4, <1>5, <1>10, <1>11, RecordResultsCloses
<1>13. u = RecordResults(t, xs, view) BY <1>2
<1>14. /\ u.previous = t.previous /\ u.missing = t.missing
       /\ DOMAIN u.seen = DOMAIN t.seen \cup xs
       /\ \A x \in DOMAIN u.seen : u.seen[x] = IF x \in xs THEN view ELSE t.seen[x]
       BY <1>3, <1>4, <1>5, <1>13, RecordResultsIs
<1> QED BY <1>2, <1>12, <1>13, <1>14 DEF Adds

\* So what is received is what the reference records.
LEMMA ResultsMatch ==
    ASSUME Inv, Phased, Matched, NEW a \in phase, Begun(a), NEW xs \in SUBSET Actions(a),
           xs \cap transaction.missing = {}, UNCHANGED config,
           transaction' = RecordResults(transaction, xs, View(a)),
           \A b \in App : Begun(b)' <=> Begun(b),
           \A b \in App : apps'[b].prepared => apps[b].prepared /\ apps'[b].specs = apps[b].specs
    PROVE  Matched'
<1>1. builders \in Configurations /\ a \in App BY DEF Inv, Typed, Stepping
<1>v. PICK view : view = View(a) OBVIOUS
<1>2. PICK u : u = RecordResults(transaction, xs, view) OBVIOUS
<1>3. /\ Closed(u) /\ u.previous = transaction.previous /\ u.missing = transaction.missing
      /\ DOMAIN u.seen = DOMAIN transaction.seen \cup xs
      /\ \A x \in DOMAIN u.seen : u.seen[x] = IF x \in xs THEN View(a) ELSE transaction.seen[x]
      <2>1. Adds(u, xs, view) BY <1>2, ResultsClose
      <2> QED BY <1>v, <2>1 DEF Adds
<1>4. transaction' = u BY <1>v, <1>2
<1>5. builders' = builders /\ App' = App /\ Asset' = Asset /\ \A b : Actions(b)' = Actions(b)
      BY Static
<1>6. \A b : Gone(b)' = Gone(b) /\ View(b)' = View(b) BY <1>3, <1>4, ReferenceStatic
<1>7. Closed(transaction)' BY <1>3, <1>4, <1>5 DEF Closed, Removed, Input
<1>8. Actions(a) \in SUBSET Asset BY <1>1, Shapes
<1>9. ASSUME NEW b \in App, Begun(b)
      PROVE  /\ u.missing \cap Actions(b) = Gone(b)
             /\ \A x \in Actions(b) \cap DOMAIN u.seen : x \notin Gone(b) /\ u.seen[x] = View(b)
      <2>1. transaction.missing \cap Actions(b) = Gone(b) BY <1>9 DEF Matched
      <2>2. \A x \in Actions(b) \cap DOMAIN transaction.seen :
               x \notin Gone(b) /\ transaction.seen[x] = View(b)
            BY <1>9 DEF Matched
      <2>3. CASE b = a BY <1>3, <2>1, <2>2, <2>3
      <2>4. CASE b # a
            <3>1. xs \cap Actions(b) = {} BY <2>4 DEF Actions
            <3> QED BY <1>3, <2>1, <2>2, <3>1
      <2> QED BY <2>3, <2>4
<1>10. ASSUME NEW b \in App, ~Begun(b)
       PROVE  Actions(b) \cap (DOMAIN u.seen \cup u.missing) = {}
       <2>1. Actions(b) \cap (DOMAIN transaction.seen \cup transaction.missing) = {}
             BY <1>10 DEF Matched
       <2>2. b # a BY <1>10
       <2>3. xs \cap Actions(b) = {} BY <2>2 DEF Actions
       <2> QED BY <1>3, <2>1, <2>3
<1>11. \A b \in App : apps'[b].prepared =>
          \A k \in 1..Len(apps'[b].specs) : <<b, apps'[b].specs[k]>> \notin u.missing
       BY <1>3 DEF Matched
<1>12. u.previous \subseteq Asset /\ DOMAIN u.seen \cup u.missing \subseteq Asset
       BY <1>3, <1>8 DEF Matched
<1> QED BY <1>4, <1>5, <1>6, <1>7, <1>9, <1>10, <1>11, <1>12 DEF Matched

\* A result is recorded: the view is the one the application has in turn.
LEMMA ReceiveAgrees ==
    ASSUME Inv, Parallel, Receive
    PROVE  Parallel'
<1>1. PICK c : c = Head(completions) OBVIOUS
<1>2. /\ completions \in Seq(Completions) /\ completions # <<>> /\ c \in Completions
      /\ 1 \in DOMAIN completions /\ completions[1] = c
      <2>1. completions # <<>> BY DEF Receive
      <2>2. completions \in Seq(Completions) BY DEF Inv, Typed, Working
      <2>3. 1 \in DOMAIN completions /\ completions[1] = Head(completions) BY <2>1, <2>2
      <2>4. completions[1] \in Completions BY <2>2, <2>3
      <2> QED BY <1>1, <2>1, <2>2, <2>3, <2>4
<1>3. PICK l \in Leases : l = c.lease BY <1>2 DEF Completions
<1>4. PICK w \in Worker : w = c.worker BY <1>2 DEF Completions
<1>5. PICK view : view = c.view OBVIOUS
<1>6. running[w] = l BY <1>2, <1>3, <1>4 DEF Inv, Channelled
<1>7. l # NoLease
      <2>1. NoLease.app = 0 BY DEF NoLease
      <2> QED BY <2>1 DEF Leases
<1>8. pc = "receive" /\ c.status = "ok" BY <1>1 DEF Receive
<1>9. Phased /\ Matched /\ Active /\ Based /\ Aware /\ Answering
      BY <1>8 DEF Parallel, Active
<1>10. PICK a \in App : a = l.app BY <1>6, <1>7, <1>9, LeaseIs
<1>11. PICK xs : xs = ActionsOf(l) OBVIOUS
<1>12. apps[a].prepared /\ xs \in SUBSET Actions(a) /\ xs \cap transaction.missing = {}
       BY <1>6, <1>7, <1>9, <1>10, <1>11, LeaseIs
<1>13. view = View(a) BY <1>2, <1>3, <1>5, <1>8, <1>9, <1>10 DEF Answering
<1>14. PICK n : n = l.hi + 1 - l.lo OBVIOUS
<1>15. PICK done \in BOOLEAN : done = (apps[a].completed + n = Len(apps[a].specs)) OBVIOUS
<1>16. /\ running' = [running EXCEPT ![w] = NoLease]
       /\ transaction' = RecordResults(transaction, xs, view)
       /\ apps' = [apps EXCEPT ![a].completed = @ + n, ![a].inFlight = @ - 1,
                               ![a].timed = TRUE, ![a].prepared = ~done]
       /\ IF done THEN Finish(a) ELSE UNCHANGED <<waiting, newly>>
       /\ completions' = Tail(completions) /\ pc' = "prepare" /\ UNCHANGED config
       /\ UNCHANGED <<phase, started, baseline, made, outcome, resident>>
       BY <1>1, <1>3, <1>4, <1>5, <1>10, <1>11, <1>14, <1>15 DEF Receive
<1>17. /\ builders \in Configurations /\ apps \in [App -> Applications]
       /\ running \in [Worker -> Leases \cup {NoLease}] /\ apps[a] \in Applications
       BY DEF Inv, Typed, Stepping
<1>18. a \in phase \cap Unfinished /\ a \in started /\ waiting[a] = 0 /\ Begun(a)
       BY <1>12, PreparedBegun
<1>19. /\ apps'[a].specs = apps[a].specs /\ apps'[a].baseline = apps[a].baseline
       /\ \A b \in App \ {a} : apps'[b] = apps[b]
       BY <1>16, <1>17 DEF Applications
<1>20. \A b \in App : /\ apps'[b].prepared => apps[b].prepared /\ apps'[b].specs = apps[b].specs
                      /\ apps'[b].baseline = apps[b].baseline
       BY <1>12, <1>19
<1>21. \A b \in App : Begun(b)' <=> Begun(b)
       <2>1. CASE done
             <3>1. Finish(a) /\ UNCHANGED config /\ UNCHANGED <<phase, started>> BY <1>16, <2>1
             <3>2. Begun(a)' /\ \A b \in App \ {a} : Begun(b)' <=> Begun(b)
                   BY <1>18, <3>1, FinishBegins
             <3> QED BY <1>18, <3>2
       <2>2. CASE ~done BY <1>16, <2>2 DEF Begun
       <2> QED BY <2>1, <2>2
<1>22. UNCHANGED config BY <1>16
<1>23. transaction' = RecordResults(transaction, xs, View(a)) BY <1>13, <1>16
<1>24. Matched'
       <2>1. \A b \in App : apps'[b].prepared => apps[b].prepared /\ apps'[b].specs = apps[b].specs
             BY <1>20
       <2> QED BY <1>9, <1>12, <1>18, <1>21, <1>22, <1>23, <2>1, ResultsMatch
<1>25. /\ DOMAIN transaction'.seen = DOMAIN transaction.seen \cup xs
       /\ transaction'.missing = transaction.missing
       /\ transaction'.previous = transaction.previous
       <2>1. Adds(transaction', xs, view)
             BY <1>9, <1>12, <1>16, <1>18, ResultsClose
       <2> QED BY <2>1 DEF Adds
<1>26. /\ App' = App /\ Asset' = Asset /\ builders' = builders
       /\ \A b : Actions(b)' = Actions(b) /\ Hidden(b)' = Hidden(b)
       BY <1>22, Static
<1>27. \A b : View(b)' = View(b) BY <1>22, <1>25, ReferenceStatic
<1>28. Phased'
       <2>1. Active' BY <1>16 DEF Active
       <2> QED BY <1>9, <1>16, <1>22, <2>1, Static DEF Phased
<1>29. Live' \subseteq Live BY <1>16, <1>20, <1>26 DEF Live
<1>30. Based'
       <2>1. ASSUME NEW b \in Live, Shows(b) PROVE Shows(b)'
             <3>1. ASSUME NEW p \in phase PROVE DOMAIN transaction'.seen \subseteq Hidden(p) \cup b.over \cup b.gone
                   <4>1. DOMAIN transaction.seen \subseteq Hidden(p) \cup b.over \cup b.gone
                         BY <2>1 DEF Shows, Overlays
                   <4>2. p \in App /\ a \in phase BY <1>18 DEF Inv, Typed, Stepping
                   <4>3. SamePhase(a, p) BY <4>2 DEF Inv, Whole
                   <4>4. Actions(a) \subseteq Hidden(p) BY <1>17, <4>2, <4>3, PhaseHidden
                   <4> QED BY <1>12, <1>25, <4>1, <4>4
             <3> QED BY <1>16, <1>25, <1>26, <2>1, <3>1 DEF Shows, Overlays
       <2>2. \A b \in Live' : Shows(b)' BY <1>9, <1>29, <2>1 DEF Based
       <2>3. \A b, d \in Live' : b.id = d.id => b = d BY <1>9, <1>29 DEF Based
       <2>4. ASSUME NEW b \in App, apps'[b].prepared
             PROVE  IF apps'[b].baseline = NoBaseline
                    THEN Actions(b) \cap DOMAIN transaction'.seen = {}
                    ELSE Observed(b, apps'[b].baseline.over, apps'[b].baseline.gone) = View(b)
             <3>1. apps[b].prepared /\ apps'[b].baseline = apps[b].baseline BY <1>20, <2>4
             <3>2. CASE b = a
                   <4>1. apps[a].baseline # NoBaseline BY <1>6, <1>7, <1>9, <1>10 DEF Based
                   <4> QED BY <1>9, <3>1, <3>2, <4>1 DEF Based
             <3>3. CASE b # a
                   <4>1. xs \cap Actions(b) = {} BY <1>12, <3>3 DEF Actions
                   <4> QED BY <1>9, <1>25, <3>1, <4>1 DEF Based
             <3> QED BY <3>2, <3>3
       <2>5. ASSUME NEW v \in Worker, running'[v] # NoLease
             PROVE  /\ running'[v].baseline # NoBaseline
                    /\ running'[v].baseline = apps'[running'[v].app].baseline
             <3>1. running'[v] = running[v] /\ running[v] # NoLease BY <1>16, <1>17, <2>5
             <3>2. running[v].app \in App BY <1>9, <3>1, LeaseIs
             <3> QED BY <1>9, <1>20, <3>1, <3>2 DEF Based
       <2>6. \A b, x, y : Observed(b, x, y)' = Observed(b, x, y) BY <1>26 DEF Observed, Reach
       <2>7. NoLease' = NoLease /\ NoBaseline' = NoBaseline BY DEF NoLease, NoBaseline
       <2> QED BY <1>26, <1>27, <2>2, <2>3, <2>4, <2>5, <2>6, <2>7 DEF Based
<1>31. Aware'
       <2>1. Produced' = Produced
             <3>1. \A x \in Asset : x[1] \in App BY <1>17, AssetIs
             <3> QED BY <1>21, <1>25, <1>26, <3>1 DEF Produced
       <2> QED BY <1>9, <1>16, <1>29, <2>1 DEF Aware
<1>32. Answering'
       <2>1. \A i \in DOMAIN completions' : /\ i + 1 \in DOMAIN completions
                                            /\ completions'[i] = completions[i + 1]
             BY <1>2, <1>16
       <2> QED BY <1>9, <1>27, <2>1 DEF Answering
<1> QED BY <1>24, <1>28, <1>30, <1>31, <1>32 DEF Parallel

----------------------------------------------------------------------------
(* A lease is sent.                                                          *)

\* The baseline of a lease is one that is live, or a new one that overlays what
\* is recorded; and either shows its application what the reference finds.
LEMMA LeaseBaseline ==
    ASSUME Inv, Phased, Matched, Based, NEW a \in App, apps[a].prepared, NEW b,
           b = IF apps[a].baseline = NoBaseline THEN BaselineFor(a) ELSE apps[a].baseline
    PROVE  /\ b # NoBaseline /\ Observed(a, b.over, b.gone) = View(a)
           /\ apps[a].baseline # NoBaseline => b = apps[a].baseline
           /\ b \in Live \/ (b.id = made + 1 /\ Overlays(b))
<1>1. builders \in Configurations /\ made \in Nat BY DEF Inv, Typed, Stepping
<1>2. a \in phase \cap Unfinished /\ waiting[a] = 0 BY PreparedBegun
<1>3. CASE apps[a].baseline # NoBaseline
      <2>1. b = apps[a].baseline BY <1>3
      <2>2. b \in Live BY <1>3, <2>1 DEF Live
      <2> QED BY <1>3, <2>1, <2>2 DEF Based
<1>4. CASE apps[a].baseline = NoBaseline
      <2>1. PICK over : over = transaction.written \ Hidden(a) OBVIOUS
      <2>2. PICK gone : gone = transaction.deleted \ Hidden(a) OBVIOUS
      <2>3. Actions(a) \cap DOMAIN transaction.seen = {} BY <1>4 DEF Based
      <2>4. Observed(a, over, gone) = View(a) BY <1>2, <2>1, <2>2, <2>3, AlikeFound
      <2>5. b = IF baseline # NoBaseline /\ baseline.over = over /\ baseline.gone = gone
                THEN baseline ELSE [id |-> made + 1, over |-> over, gone |-> gone]
            BY <1>4, <2>1, <2>2 DEF BaselineFor
      <2>6. CASE b = baseline /\ baseline # NoBaseline /\ baseline.over = over /\ baseline.gone = gone
            <3>1. b \in Live BY <2>6 DEF Live
            <3> QED BY <1>4, <2>4, <2>6, <3>1
      <2>7. CASE b = [id |-> made + 1, over |-> over, gone |-> gone]
            <3>1. b.id = made + 1 /\ b.over = over /\ b.gone = gone BY <2>7
            <3>2. b # NoBaseline BY <1>1, <3>1 DEF NoBaseline
            <3>3. Overlays(b)
                  <4>1. PICK t : t = transaction OBVIOUS
                  <4>2. /\ t.written = DOMAIN t.seen \ Removed(DOMAIN t.seen)
                        /\ Removed(DOMAIN t.seen) \subseteq t.deleted
                        BY <4>1 DEF Matched, Closed
                  <4>3. t.written \cap t.deleted = {} BY <4>1 DEF Inv, Typed, Staged
                  <4>4. over \subseteq DOMAIN t.seen /\ over \cap gone = {}
                        BY <2>1, <2>2, <4>1, <4>2, <4>3
                  <4>5. ASSUME NEW p \in phase
                        PROVE  over \cap Hidden(p) = {}
                               /\ DOMAIN t.seen \subseteq Hidden(p) \cup over \cup gone
                        <5>1. p \in App /\ SamePhase(a, p)
                              BY <1>2 DEF Inv, Typed, Stepping, Whole
                        <5>2. Hidden(a) = Hidden(p) BY <1>1, <5>1, PhaseHidden
                        <5> QED BY <2>1, <2>2, <4>1, <4>2, <5>2
                  <4> QED BY <3>1, <4>1, <4>4, <4>5 DEF Overlays
            <3> QED BY <1>4, <2>4, <3>1, <3>2, <3>3
      <2> QED BY <2>5, <2>6, <2>7
<1> QED BY <1>3, <1>4

\* A lease takes the application's baseline, the newest one or a new one.
LEMMA LeaseAgrees ==
    ASSUME Inv, Parallel, NEW w \in Worker, Lease(w)
    PROVE  Parallel'
<1>1. /\ pc = "lease" /\ running[w] = NoLease /\ Candidates(w) # {} /\ UNCHANGED config
      /\ UNCHANGED <<pc, phase, started, newly, waiting, transaction, outcome, completions,
                     resident>>
      BY DEF Lease
<1>2. PICK a \in Candidates(w) : a = Preferred(w)
      BY <1>1, PreferredIsOne DEF Inv, Typed
<1>3. PICK b : b = IF apps[a].baseline = NoBaseline THEN BaselineFor(a) ELSE apps[a].baseline
      OBVIOUS
<1>4. PICK n \in BatchSizes(a) :
        LET l == [app |-> a, lo |-> Take(a, n).lo, hi |-> Take(a, n).hi,
                  specs |-> apps[a].specs, baseline |-> b]
        IN  /\ lane' = [lane EXCEPT ![w] = l]
            /\ running' = [running EXCEPT ![w] = l]
            /\ apps' = [apps EXCEPT ![a].next = @ + n, ![a].inFlight = @ + 1,
                                    ![a].baseline = b, ![a].owner = IF @ = 0 THEN w ELSE @]
            /\ packages' = [packages EXCEPT ![w] = builders[a].package]
            /\ IF b.id > made THEN made' = b.id /\ baseline' = b
                              ELSE UNCHANGED <<made, baseline>>
      BY <1>2, <1>3, Zenon DEF Lease
<1>5. PICK l : /\ l = [app |-> a, lo |-> Take(a, n).lo, hi |-> Take(a, n).hi,
                       specs |-> apps[a].specs, baseline |-> b]
               /\ running' = [running EXCEPT ![w] = l]
               /\ apps' = [apps EXCEPT ![a].next = @ + n, ![a].inFlight = @ + 1,
                                       ![a].baseline = b,
                                       ![a].owner = IF @ = 0 THEN w ELSE @]
               /\ IF b.id > made THEN made' = b.id /\ baseline' = b
                                 ELSE UNCHANGED <<made, baseline>>
      BY <1>4
<1>6. a \in phase /\ apps[a].prepared BY DEF Candidates
<1>7. /\ builders \in Configurations /\ a \in App /\ apps \in [App -> Applications]
      /\ running \in [Worker -> Leases \cup {NoLease}] /\ apps[a] \in Applications
      /\ made \in Nat
      BY <1>6 DEF Inv, Typed, Stepping
<1>8. Phased /\ Matched /\ Active /\ Active' /\ Based /\ Aware /\ Answering
      BY <1>1 DEF Parallel, Active
<1>9. /\ b # NoBaseline /\ Observed(a, b.over, b.gone) = View(a)
      /\ apps[a].baseline # NoBaseline => b = apps[a].baseline
      /\ b \in Live \/ (b.id = made + 1 /\ Overlays(b))
      BY <1>3, <1>6, <1>7, <1>8, LeaseBaseline
<1>10. l.app = a /\ l.baseline = b BY <1>5
<1>11. running'[w] = l /\ \A v \in Worker \ {w} : running'[v] = running[v]
       BY <1>5, <1>7
<1>12. /\ apps'[a].prepared = apps[a].prepared /\ apps'[a].specs = apps[a].specs
       /\ apps'[a].baseline = b /\ \A c \in App \ {a} : apps'[c] = apps[c]
       BY <1>5, <1>7 DEF Applications
<1>13. made' \in Nat /\ made <= made' /\ b.id <= made' /\ b.id \in 1..made'
       /\ (b.id > made => b.id = made + 1 /\ baseline' = b)
       /\ (b.id <= made => made' = made /\ baseline' = baseline)
       <2>1. CASE b \in Live
             <3>1. b.id \in 1..made BY <1>8, <2>1 DEF Based, Shows
             <3> QED BY <1>5, <1>7, <3>1
       <2>2. CASE b.id = made + 1 BY <1>5, <1>7, <2>2
       <2> QED BY <1>9, <2>1, <2>2
<1>14. /\ App' = App /\ Asset' = Asset /\ builders' = builders
       /\ \A c : Actions(c)' = Actions(c) /\ Hidden(c)' = Hidden(c)
       BY <1>1, Static
<1>15. \A c : View(c)' = View(c) BY <1>1, ReferenceStatic
<1>16. Phased'
       <2>1. Unfinished' = Unfinished
             <3>1. \A c \in App : apps'[c].prepared <=> apps[c].prepared BY <1>12
             <3>2. phase \subseteq App BY DEF Inv, Typed, Stepping
             <3> QED BY <1>1, <3>1, <3>2 DEF Unfinished
       <2> QED BY <1>1, <1>8, <2>1, Static DEF Phased
<1>17. Matched'
       <2>1. \A c \in App : Begun(c)' <=> Begun(c) BY <1>1 DEF Begun
       <2>2. \A c \in App : apps'[c].prepared => apps[c].prepared /\ apps'[c].specs = apps[c].specs
             BY <1>12
       <2> QED BY <1>1, <1>8, <2>1, <2>2, MatchedKept
<1>18. Live' \subseteq Live \cup {b}
       <2> SUFFICES ASSUME NEW c \in Live', c # b PROVE c \in Live
           OBVIOUS
       <2>1. c # NoBaseline /\ (c = baseline' \/ \E d \in App : apps'[d].prepared /\ c = apps'[d].baseline)
             BY <1>14 DEF Live, NoBaseline
       <2>2. CASE c = baseline'
             <3>1. baseline' = baseline BY <1>5, <2>2
             <3> QED BY <2>1, <2>2, <3>1 DEF Live
       <2>3. ASSUME NEW d \in App, apps'[d].prepared, c = apps'[d].baseline PROVE c \in Live
             <3>1. d # a BY <1>12, <2>3
             <3>2. apps[d].prepared /\ c = apps[d].baseline BY <1>12, <2>3, <3>1
             <3> QED BY <2>1, <3>2 DEF Live
       <2> QED BY <2>1, <2>2, <2>3
<1>19. \A c \in Live : Shows(c) /\ c.id # made + 1
       <2>1. \A c \in Live : Shows(c) BY <1>8 DEF Based
       <2> QED BY <1>7, <2>1 DEF Shows
<1>20. Based'
       <2>1. \A c : Overlays(c)' <=> Overlays(c) BY <1>1, <1>14 DEF Overlays
       <2>2. Overlays(b) BY <1>9, <1>19 DEF Shows
       <2>3. ASSUME NEW c \in Live' PROVE Shows(c)'
             <3>1. CASE c = b BY <1>13, <2>1, <2>2, <3>1 DEF Shows
             <3>2. CASE c # b
                   <4>1. c \in Live BY <1>18, <3>2
                   <4>2. c.id \in 1..made /\ Overlays(c) BY <1>19, <4>1 DEF Shows
                   <4>3. c.id \in 1..made' BY <1>7, <1>13, <4>2
                   <4> QED BY <2>1, <4>2, <4>3 DEF Shows
             <3> QED BY <3>1, <3>2
       <2>4. \A c, d \in Live' : c.id = d.id => c = d
             BY <1>8, <1>9, <1>18, <1>19 DEF Based
       <2>5. ASSUME NEW c \in App, apps'[c].prepared
             PROVE  IF apps'[c].baseline = NoBaseline
                    THEN Actions(c) \cap DOMAIN transaction.seen = {}
                    ELSE Observed(c, apps'[c].baseline.over, apps'[c].baseline.gone) = View(c)
             <3>1. CASE c = a BY <1>9, <1>12, <3>1
             <3>2. CASE c # a BY <1>8, <1>12, <2>5, <3>2 DEF Based
             <3> QED BY <3>1, <3>2
       <2>6. ASSUME NEW v \in Worker, running'[v] # NoLease
             PROVE  /\ running'[v].baseline # NoBaseline
                    /\ running'[v].baseline = apps'[running'[v].app].baseline
             <3>1. CASE v = w BY <1>9, <1>10, <1>11, <1>12, <3>1
             <3>2. CASE v # w
                   <4>1. running'[v] = running[v] /\ running[v] # NoLease BY <1>11, <2>6, <3>2
                   <4>2. running[v].app \in App BY <1>8, <4>1, LeaseIs
                   <4>3. /\ running[v].baseline # NoBaseline
                         /\ running[v].baseline = apps[running[v].app].baseline
                         BY <1>8, <4>1 DEF Based
                   <4>4. apps'[running[v].app].baseline = apps[running[v].app].baseline
                         BY <1>9, <1>12, <4>2, <4>3
                   <4> QED BY <4>1, <4>3, <4>4
             <3> QED BY <3>1, <3>2
       <2>7. \A c, x, y : Observed(c, x, y)' = Observed(c, x, y) BY <1>14 DEF Observed, Reach
       <2>8. NoLease' = NoLease /\ NoBaseline' = NoBaseline BY DEF NoLease, NoBaseline
       <2> QED BY <1>1, <1>14, <1>15, <2>3, <2>4, <2>5, <2>6, <2>7, <2>8 DEF Based
<1>21. Aware'
       <2>1. Produced' = Produced
             <3>1. \A x : Begun(x[1])' <=> Begun(x[1]) BY <1>1 DEF Begun
             <3> QED BY <1>1, <1>14, <3>1 DEF Produced
       <2>2. ASSUME NEW v \in Worker, NEW c \in Live', c.id = resident[v].baseline
             PROVE  c.over \subseteq resident[v].held
             <3>1. resident[v].baseline \in 0..made BY <1>8 DEF Aware
             <3>2. c.id # made + 1 BY <1>7, <2>2, <3>1
             <3>3. c \in Live BY <1>9, <1>18, <3>2
             <3> QED BY <1>8, <2>2, <3>3 DEF Aware
       <2>3. \A v \in Worker : resident[v].baseline \in 0..made'
             BY <1>7, <1>8, <1>13 DEF Aware
       <2> QED BY <1>1, <1>8, <2>1, <2>2, <2>3 DEF Aware
<1>22. Answering' BY <1>1, <1>8, <1>15 DEF Answering
<1> QED BY <1>16, <1>17, <1>20, <1>21, <1>22 DEF Parallel

----------------------------------------------------------------------------
(* A worker runs its lease.                                                  *)

\* What is recorded has been produced; of what has been produced, an
\* application sees what is recorded.
LEMMA ProducedIs ==
    ASSUME Inv, Phased, Matched
    PROVE  /\ DOMAIN transaction.seen \subseteq Produced
           /\ \A a \in phase : Produced \ Hidden(a) \subseteq DOMAIN transaction.seen
<1>1. builders \in Configurations /\ phase \subseteq App /\ started \subseteq App
      BY DEF Inv, Typed, Stepping
<1>2. ASSUME NEW x \in DOMAIN transaction.seen PROVE x \in Produced
      <2>1. x \in Asset BY DEF Matched
      <2>2. x[1] \in App /\ x \in Actions(x[1]) BY <1>1, <2>1, AssetIs
      <2>3. Begun(x[1]) BY <2>2 DEF Matched
      <2>4. x \notin transaction.missing BY <2>2, <2>3 DEF Matched
      <2> QED BY <2>1, <2>3, <2>4 DEF Produced
<1>3. ASSUME NEW a \in phase, NEW x \in Produced \ Hidden(a) PROVE x \in DOMAIN transaction.seen
      <2>1. x \in Asset /\ Begun(x[1]) /\ x \notin transaction.missing BY DEF Produced
      <2>2. x[1] \in App /\ x \in Actions(x[1]) /\ a \in App BY <1>1, <2>1, AssetIs
      <2>3. ~SamePhase(x[1], a) BY <1>1, <2>2, PhaseHidden
      <2>4. ~Before(a, x[1])
            <3>1. /\ builders[a].phase \in Nat /\ builders[x[1]].phase \in Nat
                  /\ builders[a].post \in BOOLEAN /\ builders[x[1]].post \in BOOLEAN
                  BY <1>1, <2>2, Shapes
            <3>2. ~builders[x[1]].post BY <2>1 DEF Hidden
            <3>3. builders[a].post \/ builders[x[1]].phase < builders[a].phase
                  BY <2>1, <3>1 DEF Hidden
            <3> QED BY <1>1, <2>2, <3>1, <3>2, <3>3, BeforeIs DEF Rank
      <2>5. Before(x[1], a)
            <3>1. x[1] # a BY <1>1, <2>2, <2>3, Ordering
            <3> QED BY <1>1, <2>2, <2>4, <3>1, Ordering
      <2>6. x[1] \in started \ Unfinished BY <2>2, <2>3, <2>5, EarlierRecorded
      <2>7. Recorded(x[1]) BY <2>6, Finished
      <2> QED BY <2>1, <2>2, <2>7 DEF Recorded
<1> QED BY <1>2, <1>3

\* A process that hydrates for a lease, from whichever package and baseline
\* it held, shows what the application observes in turn.
LEMMA HydrateHolds ==
    ASSUME Inv, Parallel, Active, NEW w \in Worker, lane[w] # NoLease,
           NEW h, h = Hydrate(w, lane[w])
    PROVE  /\ lane[w].app \in App /\ lane[w].baseline \in Live
           /\ h.baseline = lane[w].baseline.id /\ h.baseline \in 0..made
           /\ lane[w].baseline.over \subseteq h.held /\ h.held \subseteq Produced
           /\ ViewOf(lane[w], h.held) = View(lane[w].app)
<1>1. lane[w] \in Leases /\ lane[w] = running[w] BY LaneFits
<1>2. PICK l \in Leases : l = lane[w] BY <1>1
<1>3. Phased /\ Matched /\ Based /\ Aware BY DEF Parallel
<1>4. running[w] # NoLease BY <1>1
<1>5. PICK a \in App : a = l.app /\ apps[a].prepared BY <1>1, <1>2, <1>3, <1>4, LeaseIs
<1>6. PICK b : b = l.baseline OBVIOUS
<1>7. b # NoBaseline /\ b = apps[a].baseline BY <1>1, <1>2, <1>3, <1>4, <1>5, <1>6 DEF Based
<1>8. b \in Live BY <1>5, <1>7 DEF Live
<1>9. b.id \in 1..made /\ Overlays(b) BY <1>3, <1>8 DEF Based, Shows
<1>10. Observed(a, b.over, b.gone) = View(a) BY <1>3, <1>5, <1>7 DEF Based
<1>11. PICK r : r = resident[w] OBVIOUS
<1>12. /\ r.held \subseteq Produced /\ (b.id = r.baseline => b.over \subseteq r.held)
       BY <1>3, <1>8, <1>11 DEF Aware
<1>13. PICK old : old = IF r.package # builders[a].package THEN {} ELSE r.held OBVIOUS
<1>14. /\ h.baseline = b.id
       /\ h.held = IF \/ r.package = builders[a].package /\ r.baseline = b.id
                      \/ r.package # builders[a].package /\ b.over = {} /\ b.gone = {}
                   THEN old ELSE (old \cup b.over) \ b.gone
       BY <1>2, <1>5, <1>6, <1>11, <1>13 DEF Hydrate
<1>15. /\ b.over \subseteq DOMAIN transaction.seen /\ b.over \cap b.gone = {}
       /\ b.over \cap Hidden(a) = {}
       /\ DOMAIN transaction.seen \subseteq Hidden(a) \cup b.over \cup b.gone
       BY <1>5, <1>9, PreparedBegun DEF Overlays
<1>16. b.over \subseteq h.held BY <1>12, <1>13, <1>14, <1>15
<1>17. h.held \subseteq Produced
       <2>1. b.over \subseteq Produced BY <1>3, <1>15, ProducedIs
       <2>2. old \subseteq Produced BY <1>12, <1>13
       <2> QED BY <1>14, <2>1, <2>2
<1>18. (h.held \ Hidden(a)) \ b.gone = b.over
       <2>1. h.held \ Hidden(a) \subseteq DOMAIN transaction.seen
             <3>1. Produced \ Hidden(a) \subseteq DOMAIN transaction.seen
                   BY <1>3, <1>5, PreparedBegun, ProducedIs
             <3> QED BY <1>17, <3>1
       <2> QED BY <1>15, <1>16, <2>1
<1>19. ViewOf(l, h.held) = View(a) BY <1>5, <1>6, <1>10, <1>18 DEF ViewOf
<1>20. h.baseline \in 0..made BY <1>9, <1>14
<1> QED BY <1>2, <1>5, <1>6, <1>8, <1>14, <1>16, <1>17, <1>19, <1>20

\* A worker's answer keeps what the processes hold and what is answered.
LEMMA AnswerAgrees ==
    ASSUME Inv, Parallel, NEW w \in Worker, lane[w] # NoLease, UNCHANGED <<config, controller>>,
           NEW h, h = Hydrate(w, lane[w]), NEW r, r.baseline = h.baseline,
           h.held \subseteq r.held, r.held \subseteq h.held \cup ActionsOf(lane[w]),
           resident' = [resident EXCEPT ![w] = r],
           NEW status, NEW view, Report(w, status, view),
           Active /\ status = "ok" => view = View(lane[w].app)
    PROVE  Parallel'
<1>1. /\ UNCHANGED config /\ pc' = pc /\ outcome' = outcome
      /\ UNCHANGED <<phase, started, newly, waiting, apps, baseline, made, running, transaction>>
      BY DEF controller
<1>2. Active' <=> Active BY <1>1 DEF Active
<1>3. outcome' = "ok" /\ ~Active' => started = App /\ Unfinished = {}
      BY <1>1, <1>2 DEF Parallel, Phased
<1>4. CASE ~Active BY <1>1, <1>2, <1>3, <1>4, ParallelRests
<1>5. CASE Active
      <2>1. Phased /\ Matched /\ Based /\ Aware /\ Answering BY <1>5 DEF Parallel
      <2>2. /\ App' = App /\ Asset' = Asset /\ Unfinished' = Unfinished
            /\ \A b : Actions(b)' = Actions(b)
            BY <1>1, Static DEF Unfinished
      <2>3. Phased' BY <1>1, <1>2, <1>5, <2>1, <2>2, Static DEF Phased
      <2>4. Matched'
            <3>1. \A b \in App : Begun(b)' <=> Begun(b) BY <1>1 DEF Begun
            <3> QED BY <1>1, <2>1, <3>1, MatchedKept
      <2>5. Based' BY <1>1, <2>1, BasedKept
      <2>6. /\ lane[w].app \in App /\ lane[w].baseline \in Live
            /\ h.baseline = lane[w].baseline.id /\ h.baseline \in 0..made
            /\ lane[w].baseline.over \subseteq h.held /\ h.held \subseteq Produced
            BY <1>5, HydrateHolds
      <2>7. Live' = Live BY <1>1, <2>2 DEF Live
      <2>8. Produced' = Produced BY <1>1, <2>2 DEF Produced, Begun
      <2>9. ActionsOf(lane[w]) \subseteq Produced
            <3>1. lane[w] = running[w] BY LaneFits
            <3>2. /\ apps[lane[w].app].prepared /\ ActionsOf(lane[w]) \subseteq Actions(lane[w].app)
                  /\ ActionsOf(lane[w]) \cap transaction.missing = {}
                  BY <2>1, <3>1, LeaseIs
            <3>3. Begun(lane[w].app) BY <2>6, <3>2, PreparedBegun
            <3>4. builders \in Configurations BY DEF Inv, Typed, Stepping
            <3>5. ASSUME NEW x \in ActionsOf(lane[w]) PROVE x \in Produced
                  <4>1. x \in Actions(lane[w].app) /\ x \notin transaction.missing BY <3>2
                  <4>2. x \in Asset BY <2>6, <3>4, <4>1, Shapes
                  <4>3. x[1] = lane[w].app BY <2>6, <3>4, <4>1, <4>2, AssetIs
                  <4> QED BY <3>3, <4>1, <4>2, <4>3 DEF Produced
            <3> QED BY <3>5
      <2>10. DOMAIN resident = Worker BY DEF Inv, Typed, Working
      <2>11. resident'[w] = r /\ \A v \in Worker \ {w} : resident'[v] = resident[v] BY <2>10
      <2>12. Aware'
             <3>1. \A b, c \in Live : b.id = c.id => b = c BY <2>1 DEF Based
             <3>2. ASSUME NEW v \in Worker
                   PROVE  /\ resident'[v].baseline \in 0..made /\ resident'[v].held \subseteq Produced
                          /\ \A b \in Live : b.id = resident'[v].baseline =>
                                                b.over \subseteq resident'[v].held
                   <4>1. CASE v = w
                         <5>1. r.held \subseteq Produced BY <2>6, <2>9
                         <5>2. \A b \in Live : b.id = r.baseline => b.over \subseteq r.held
                               BY <2>6, <3>1
                         <5> QED BY <2>6, <2>11, <4>1, <5>1, <5>2
                   <4>2. CASE v # w BY <2>1, <2>11, <4>2 DEF Aware
                   <4> QED BY <4>1, <4>2
             <3> QED BY <1>1, <2>7, <2>8, <3>2 DEF Aware
      <2>13. Answering'
             <3>1. PICK c : c = [worker |-> w, lease |-> lane[w], status |-> status, view |-> view]
                   OBVIOUS
             <3>2. completions' = Append(completions, c) BY <1>5, <3>1 DEF Report, Active
             <3>3. completions \in Seq(Completions) BY DEF Inv, Typed, Working
             <3>4. PICK n \in Nat : n = Len(completions) /\ DOMAIN completions = 1..n BY <3>3
             <3>5. /\ DOMAIN completions' = 1..(n + 1) /\ completions'[n + 1] = c
                   /\ \A i \in 1..n : completions'[i] = completions[i]
                   BY <3>2, <3>3, <3>4
             <3>6. \A b : View(b)' = View(b) BY <1>1, ReferenceStatic
             <3>7. c.status = "ok" => c.view = View(c.lease.app) BY <1>5, <3>1
             <3>8. ASSUME NEW i \in 1..(n + 1), completions'[i].status = "ok"
                   PROVE  completions'[i].view = View(completions'[i].lease.app)
                   <4>1. CASE i = n + 1 BY <3>5, <3>7, <3>8, <4>1
                   <4>2. CASE i \in 1..n BY <2>1, <3>4, <3>5, <3>8, <4>2 DEF Answering
                   <4> QED BY <3>4, <4>1, <4>2
             <3> QED BY <3>5, <3>6, <3>8 DEF Answering
      <2> QED BY <2>3, <2>4, <2>5, <2>12, <2>13 DEF Parallel
<1> QED BY <1>4, <1>5

\* So does its answer.
LEMMA WorkAgrees ==
    ASSUME Inv, Parallel, NEW w \in Worker, Work(w)
    PROVE  Parallel'
<1>1. lane[w] # NoLease BY DEF Work
<1>2. PICK h : h = Hydrate(w, lane[w]) OBVIOUS
<1>3. PICK view : view = ViewOf(lane[w], h.held) OBVIOUS
<1>4. PICK r : r = [h EXCEPT !.held = @ \cup ActionsOf(lane[w])] OBVIOUS
<1>5. /\ resident' = [resident EXCEPT ![w] = r] /\ Report(w, "ok", view)
      /\ UNCHANGED <<config, controller>>
      BY <1>2, <1>3, <1>4 DEF Work
<1>6. r.baseline = h.baseline /\ r.held = h.held \cup ActionsOf(lane[w])
      BY <1>2, <1>4 DEF Hydrate
<1>7. Active => view = View(lane[w].app) BY <1>1, <1>2, <1>3, HydrateHolds
<1>8. h.held \subseteq r.held /\ r.held \subseteq h.held \cup ActionsOf(lane[w]) BY <1>6
<1> QED BY <1>1, <1>2, <1>5, <1>6, <1>7, <1>8, AnswerAgrees

\* A lease that fails answers no view.
LEMMA WorkFailsAgrees ==
    ASSUME Inv, Parallel, NEW w \in Worker, NEW status \in {"builder", "lost"},
           WorkFails(w, status)
    PROVE  Parallel'
<1>1. lane[w] # NoLease BY DEF WorkFails
<1>2. PICK h : h = Hydrate(w, lane[w]) OBVIOUS
<1>3. PICK view : view = Observed(lane[w].app, {}, {}) OBVIOUS
<1>4. /\ resident' = [resident EXCEPT ![w] = h] /\ Report(w, status, view)
      /\ UNCHANGED <<config, controller>>
      BY <1>2, <1>3 DEF WorkFails
<1>5. status # "ok" /\ h.held \subseteq h.held \cup ActionsOf(lane[w]) OBVIOUS
<1> QED BY <1>1, <1>2, <1>4, <1>5, AnswerAgrees

----------------------------------------------------------------------------
(* The theorem.                                                              *)

\* Every step keeps the invariant.
LEMMA NextAgrees ==
    ASSUME Inv, Parallel, [Next]_vars
    PROVE  Parallel'
<1>1. CASE BeginPhase BY <1>1, BeginPhaseAgrees
<1>2. CASE Receive BY <1>2, ReceiveAgrees
<1>3. CASE Prepared \/ Leased \/ AllPhases \/ ReceiveError \/ Join BY <1>3, ControllerAsks
<1>4. ASSUME NEW w \in Worker, PassOver(w) PROVE Parallel' BY <1>4, ControllerAsks
<1>5. ASSUME NEW a \in App, Prepare(a) PROVE Parallel' BY <1>5, PrepareAgrees
<1>6. ASSUME NEW w \in Worker, Lease(w) PROVE Parallel' BY <1>6, LeaseAgrees
<1>7. ASSUME NEW w \in Worker, Work(w) PROVE Parallel' BY <1>7, WorkAgrees
<1>8. ASSUME NEW w \in Worker, NEW s \in {"builder", "lost"}, WorkFails(w, s) PROVE Parallel'
      BY <1>8, WorkFailsAgrees
<1>9. ASSUME NEW w \in Worker, Quit(w) PROVE Parallel' BY <1>9, QuitAsks
<1>10. CASE UNCHANGED vars BY <1>10, QuitAsks
<1> QED BY <1>1, <1>2, <1>3, <1>4, <1>5, <1>6, <1>7, <1>8, <1>9, <1>10
        DEF Next, Controller, Thread

\* At success everything is recorded, as the reference records it.
LEMMA AllRecorded ==
    ASSUME Inv, Parallel, pc = "returned", outcome = "ok"
    PROVE  Records(transaction, App)
<1>1. started = App /\ Unfinished = {} /\ Matched BY DEF Parallel, Phased, Active
<1>2. transaction \in Transactions(transaction.seen) /\ Mapping(transaction.seen)
      BY DEF Inv, Typed, Staged, Mapping
<1>3. ASSUME NEW a \in App
      PROVE  /\ transaction.missing \cap Actions(a) = Gone(a)
             /\ DOMAIN transaction.seen \cap Actions(a) = Actions(a) \ Gone(a)
             /\ \A x \in Actions(a) \ Gone(a) : transaction.seen[x] = View(a)
      <2>1. Begun(a) /\ Recorded(a) BY <1>1, Finished
      <2>2. /\ transaction.missing \cap Actions(a) = Gone(a)
            /\ \A x \in Actions(a) \cap DOMAIN transaction.seen :
                  x \notin Gone(a) /\ transaction.seen[x] = View(a)
            BY <1>1, <2>1 DEF Matched
      <2>3. Actions(a) \subseteq DOMAIN transaction.seen \cup transaction.missing
            BY <2>1 DEF Recorded
      <2> QED BY <2>2, <2>3
<1> QED BY <1>1, <1>2, <1>3 DEF Records, Matched

\* Two transactions that record the same are the same.
LEMMA RecordsAgree ==
    ASSUME builders \in Configurations, NEW t, NEW u, Records(t, App), Records(u, App)
    PROVE  t = u
<1>1. /\ t \in Transactions(t.seen) /\ u \in Transactions(u.seen)
      /\ Mapping(t.seen) /\ Mapping(u.seen) /\ Closed(t) /\ Closed(u)
      /\ t.previous = transaction.previous /\ u.previous = transaction.previous
      /\ DOMAIN t.seen \cup t.missing \subseteq Asset /\ DOMAIN u.seen \cup u.missing \subseteq Asset
      BY DEF Records
<1>2. ASSUME NEW x \in Asset
      PROVE  /\ x \in t.missing <=> x \in u.missing
             /\ x \in DOMAIN t.seen <=> x \in DOMAIN u.seen
             /\ x \in DOMAIN t.seen => t.seen[x] = u.seen[x]
      <2>1. PICK a \in App : x \in Actions(a) BY AssetIs
      <2>2. /\ t.missing \cap Actions(a) = Gone(a) /\ u.missing \cap Actions(a) = Gone(a)
            /\ DOMAIN t.seen \cap Actions(a) = Actions(a) \ Gone(a)
            /\ DOMAIN u.seen \cap Actions(a) = Actions(a) \ Gone(a)
            /\ \A y \in Actions(a) \ Gone(a) : t.seen[y] = View(a) /\ u.seen[y] = View(a)
            BY DEF Records
      <2> QED BY <2>1, <2>2
<1>3. t.missing = u.missing /\ DOMAIN t.seen = DOMAIN u.seen BY <1>1, <1>2
<1>4. t.seen = u.seen
      <2>1. PICK f : f = t.seen OBVIOUS
      <2>2. PICK g : g = u.seen OBVIOUS
      <2>3. DOMAIN f = DOMAIN g /\ \A x \in DOMAIN f : f[x] = g[x] BY <1>1, <1>2, <1>3, <2>1, <2>2
      <2>4. f = [x \in DOMAIN f |-> f[x]] /\ g = [x \in DOMAIN g |-> g[x]]
            BY <1>1, <2>1, <2>2 DEF Mapping
      <2>5. f = g BY <2>3, <2>4
      <2> QED BY <2>1, <2>2, <2>5
<1>5. t.previous = u.previous BY <1>1
<1>6. t.written = u.written /\ t.deleted = u.deleted BY <1>1, <1>3, <1>4, <1>5 DEF Closed
<1>7. PICK seen : seen = t.seen OBVIOUS
<1>8. t \in Transactions(seen) /\ u \in Transactions(seen) BY <1>1, <1>4, <1>7
<1> QED BY <1>3, <1>4, <1>5, <1>6, <1>8 DEF Transactions

\* What a parallel workspace build stages is what running the applications one
\* after the other would stage, and every action observed exactly what it would
\* have observed then (Schedule::run, run_worker).
THEOREM ParallelIsSequential == Spec => []AsSequential
<1>1. Spec => []Parallel
      <2>1. Init => Parallel BY InitAgrees
      <2>2. Inv /\ Parallel /\ [Next]_vars => Parallel' BY NextAgrees
      <2> QED BY <2>1, <2>2, ScheduleInvariant, PTL DEF Spec
<1>2. Inv /\ Parallel => AsSequential
      <2> SUFFICES ASSUME Inv, Parallel, pc = "returned", outcome = "ok"
                   PROVE  transaction = Sequential(transaction.previous)
          BY DEF AsSequential
      <2>1. builders \in Configurations BY DEF Inv, Typed, Stepping
      <2>2. Records(transaction, App) BY AllRecorded
      <2>3. Records(InTurn(transaction.previous)[App], App)
            <3>1. transaction.previous \in SUBSET Pairs
                  BY <2>1, Shapes DEF Parallel, Matched
            <3>2. Prefix(App) BY DEF Prefix
            <3> QED BY <2>1, <3>1, <3>2, InTurnRecords
      <2>4. transaction = InTurn(transaction.previous)[App] BY <2>1, <2>2, <2>3, RecordsAgree
      <2> QED BY <2>4 DEF Sequential
<1> QED BY <1>1, <1>2, ScheduleInvariant, PTL
==============================================================================
