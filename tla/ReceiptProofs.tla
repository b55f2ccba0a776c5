----------------------------- MODULE ReceiptProofs -----------------------------
(* Proofs about the two kinds of receipts that spare a command from reading  *)
(* files again: those of digests (DigestReceipts) and that of the isolated   *)
(* compiler packages (CompilerSources).                                      *)
EXTENDS DigestReceipts, CompilerSources, TLAPS

----------------------------------------------------------------------------
(* DigestReceipts: evidence is never false, and a validation that skips the  *)
(* hashing answers what hashing would have answered.                         *)
(*                                                                           *)
(* The argument is about time.  An entry is made only of a stamp that is     *)
(* older than STAMP_SETTLE, which outlasts a tick of any clock it may be     *)
(* from (SettleAssumption), so every later write gives the file another      *)
(* stamp: what was read under the old one stays true of it.                  *)

\* A stamp that no write will leave any more.
Past(stamp) == /\ stamp \in Stamps /\ stamp.device \in Local \cap Precise
               /\ stamp.ctime + Settle < clock

Sound(entry, f) ==
    entry # None => /\ Past(entry.stamp)
                    /\ (file[f] # None /\ file[f].stamp = entry.stamp)
                            => file[f].content = entry.content

\* What holds in the middle of a validation, by step.
Underway(c) ==
    /\ c.wanted \in Calls /\ DOMAIN c.seen = DOMAIN c.wanted
    /\ c.todo \subseteq DOMAIN c.wanted /\ c.now <= clock
    /\ \A f \in DOMAIN c.wanted :
         /\ f \notin c.todo => c.wanted[f] \in c.seen[f]
         /\ file[f] # None => file[f].content \in c.seen[f]
    /\ c.pc \in {"stamp", "read", "again"} => c.at \in c.todo
    /\ c.pc = "save" => c.todo = {}
    /\ c.before # None => c.before.device \in Local
    /\ c.pc = "again" =>
         /\ c.before # None
         /\ c.wanted[c.at] \in c.seen[c.at]
         /\ (Settled(c.before, c.now) /\ file[c.at] # None /\ file[c.at].stamp = c.before)
                => file[c.at].content = c.wanted[c.at]

IInv ==
    /\ TypeOK
    /\ \A f \in Files : Sound(receipt[f], f)
    /\ \A p \in Processes :
         /\ \A f \in Files : Sound(call[p].evidence[f], f)
         /\ call[p].pc # "idle" => Underway(call[p])

----------------------------------------------------------------------------
(* Facts used in several steps                                               *)

\* The initial call of every process, and what it becomes when it ends.
LEMMA IdleCalling == Idle \in Calling
<1>1. Idle.seen \in UNION {[files -> SUBSET Contents] : files \in SUBSET Files}
  <2>1. Idle.seen \in [{} -> SUBSET Contents]
    BY DEF Idle
  <2> QED BY <2>1
<1>2. 0 \in Times
  BY ReceiptAssumption DEF Times
<1> QED BY <1>1, <1>2 DEF Idle, Calling, NoReceipt

\* A step of one validation keeps the invariant if the call it leaves is in order.
LEMMA OneCall ==
    ASSUME IInv, NEW p \in Processes, NEW c \in Calling,
           call' = [call EXCEPT ![p] = c], UNCHANGED <<clock, file, receipt, writes>>,
           \A f \in Files : Sound(c.evidence[f], f),
           c.pc # "idle" => Underway(c)
    PROVE  IInv'
<1>1. TypeOK'
  BY DEF IInv, TypeOK
<1>2. \A f \in Files : Sound(receipt[f], f)'
  BY DEF IInv, Sound, Past
<1>3. ASSUME NEW q \in Processes
      PROVE  /\ \A f \in Files : Sound(call[q].evidence[f], f)'
             /\ (call[q].pc # "idle" => Underway(call[q]))'
  <2>1. call'[q] = IF q = p THEN c ELSE call[q]
    BY DEF IInv, TypeOK
  <2>2. \A f \in Files : Sound(call'[q].evidence[f], f)
    BY <2>1 DEF IInv
  <2>3. call'[q].pc # "idle" => Underway(call'[q])
    BY <2>1 DEF IInv
  <2> QED BY <2>2, <2>3 DEF Sound, Past, Underway, Settled
<1> QED BY <1>1, <1>2, <1>3 DEF IInv

\* A validation that ends leaves nothing behind.
LEMMA Ended ==
    ASSUME IInv, NEW p \in Processes,
           call' = [call EXCEPT ![p] = Idle], UNCHANGED <<clock, file, receipt, writes>>
    PROVE  IInv'
<1>1. \A f \in Files : Sound(Idle.evidence[f], f)
  BY DEF Idle, NoReceipt, Sound
<1>2. Idle.pc = "idle"
  BY DEF Idle
<1> QED BY IdleCalling, OneCall, <1>1, <1>2

\* A file that has been matched is done with.
LEMMA MatchedInOrder ==
    ASSUME IInv, NEW c \in Calling, Underway(c), c.at \in c.todo,
           c.wanted[c.at] \in c.seen[c.at]
    PROVE  /\ Matched(c) \in Calling /\ Underway(Matched(c))
           /\ Matched(c).evidence = c.evidence
<1> DEFINE m == Matched(c)
<1>1. /\ m.pc = (IF c.todo = {c.at} THEN "save" ELSE "next") /\ m.wanted = c.wanted
      /\ m.todo = c.todo \ {c.at} /\ m.at = None /\ m.before = None /\ m.now = c.now
      /\ m.reusing = c.reusing /\ m.evidence = c.evidence /\ m.used = c.used
      /\ m.changed = c.changed /\ m.seen = c.seen
  BY DEF Matched, Calling
<1>2. m \in Calling
  BY <1>1 DEF Calling, Matched
<1>3. Underway(m)
  BY <1>1 DEF Underway
<1> QED BY <1>1, <1>2, <1>3

----------------------------------------------------------------------------
(* The steps                                                                 *)

LEMMA InitInductive == Init => IInv
<1> SUFFICES ASSUME Init PROVE IInv
  OBVIOUS
<1>1. 0 \in Times
  BY ReceiptAssumption DEF Times
<1>2. TypeOK
  BY <1>1, IdleCalling, ReceiptAssumption DEF Init, TypeOK, NoReceipt
<1>3. \A f \in Files : Sound(receipt[f], f)
  BY DEF Init, NoReceipt, Sound
<1>4. ASSUME NEW p \in Processes
      PROVE  /\ \A f \in Files : Sound(call[p].evidence[f], f)
             /\ call[p].pc = "idle"
  BY DEF Init, Idle, NoReceipt, Sound
<1> QED BY <1>2, <1>3, <1>4 DEF IInv

LEMMA TickKeeps == IInv /\ Tick => IInv'
<1> SUFFICES ASSUME IInv, Tick PROVE IInv'
  OBVIOUS
<1>1. clock \in Nat /\ clock' = clock + 1 /\ clock' \in Times
  BY ReceiptAssumption DEF IInv, TypeOK, Tick, Times
<1>2. TypeOK'
  BY <1>1 DEF IInv, TypeOK, Tick
<1>3. ASSUME NEW e \in Entries \cup {None}, NEW f \in Files, Sound(e, f)
      PROVE  Sound(e, f)'
  BY <1>1, <1>3, ReceiptAssumption DEF Sound, Past, Stamps, Times, Tick
<1>4. ASSUME NEW p \in Processes, call[p].pc # "idle"
      PROVE  Underway(call[p])'
  <2>1. call[p] \in Calling /\ Underway(call[p])
    BY <1>4 DEF IInv, TypeOK
  <2>2. call[p].now \in Nat
    BY <2>1 DEF Calling, Times
  <2> QED BY <1>1, <2>1, <2>2 DEF Underway, Tick
<1>5. ASSUME NEW p \in Processes
      PROVE  call[p] \in Calling /\ call'[p] = call[p]
  BY DEF IInv, TypeOK, Tick
<1>6. \A f \in Files : Sound(receipt[f], f)'
  BY <1>3 DEF IInv, TypeOK, Tick
<1>7. ASSUME NEW p \in Processes, NEW f \in Files
      PROVE  Sound(call[p].evidence[f], f)'
  <2>1. call[p].evidence[f] \in Entries \cup {None} /\ Sound(call[p].evidence[f], f)
    BY <1>5 DEF IInv, Calling
  <2> QED BY <1>3, <1>5, <2>1 DEF Sound, Past
<1> QED BY <1>2, <1>4, <1>5, <1>6, <1>7 DEF IInv

\* The stamp of a write is none that is past: local clocks tick within Settle.
LEMMA WritesAnew ==
    ASSUME IInv, NEW stamp, Past(stamp), NEW d \in Devices, NEW t \in Given(d)
    PROVE  [device |-> d, ctime |-> t] # stamp
<1>1. CASE d \notin Local
  BY <1>1 DEF Past
<1>2. CASE d \notin Precise
  BY <1>2 DEF Past
<1>3. CASE d \in Local \cap Precise
  <2>1. t \in 0..clock /\ clock - t < Granule[d] /\ Granule[d] <= Settle
    BY <1>3, SettleAssumption DEF Given
  <2>2. Granule[d] \in Nat /\ Settle \in Nat
    BY ReceiptAssumption
  <2>3. clock \in Nat
    BY ReceiptAssumption DEF IInv, TypeOK, Times
  <2>4. ~(t + Settle < clock)
    BY <2>1, <2>2, <2>3
  <2> QED BY <2>4 DEF Past
<1> QED BY <1>1, <1>2, <1>3

\* Whatever becomes of a file: no entry is about the new stamp of it.
LEMMA BecomeKeeps ==
    ASSUME IInv, NEW f \in Files, NEW now \in Entries \cup {None}, Become(f, now),
           now # None => \A stamp : Past(stamp) => now.stamp # stamp
    PROVE  IInv'
<1>1. file' = [file EXCEPT ![f] = now] /\ clock' = clock /\ receipt' = receipt
  BY DEF Become
<1>2. file' \in [Files -> Entries \cup {None}] /\ writes' \in 0..MaxWrites
  BY <1>1, ReceiptAssumption DEF IInv, TypeOK, Become
<1>3. ASSUME NEW e \in Entries \cup {None}, NEW g \in Files, Sound(e, g)
      PROVE  Sound(e, g)'
  <2>1. e # None => Past(e.stamp)'
    BY <1>1, <1>3 DEF Sound, Past
  <2>2. CASE g = f
    <3>1. e # None /\ now # None => now.stamp # e.stamp
      BY <1>3 DEF Sound
    <3>2. file'[g] = now
      BY <2>2, <1>1 DEF IInv, TypeOK
    <3> QED BY <2>1, <3>1, <3>2 DEF Sound
  <2>3. CASE g # f
    <3>1. file'[g] = file[g]
      BY <2>3, <1>1 DEF IInv, TypeOK
    <3> QED BY <1>3, <2>1, <3>1 DEF Sound
  <2> QED BY <2>2, <2>3
<1>4. ASSUME NEW p \in Processes
      PROVE  /\ call'[p] \in Calling /\ call'[p].pc = call[p].pc
             /\ call'[p].evidence = call[p].evidence
             /\ call[p].pc # "idle" => Underway(call[p])'
  <2>0. call[p] \in Calling
    BY DEF IInv, TypeOK
  <2>1. CASE ~(f \in DOMAIN call[p].seen /\ now # None)
    <3>1. call'[p] = call[p]
      BY <2>1 DEF Become, Seen
    <3>2. ASSUME Underway(call[p]) PROVE Underway(call[p])'
      <4>1. \A g \in DOMAIN call[p].wanted : g \in Files
        BY <3>2, ReceiptAssumption DEF Underway
      <4>2. \A g \in DOMAIN call[p].wanted : file'[g] # None => file'[g] = file[g]
        BY <1>1, <2>1, <3>2, <4>1 DEF IInv, TypeOK, Underway
      <4>3. call[p].at \in call[p].todo => (file'[call[p].at] # None =>
                file'[call[p].at] = file[call[p].at])
        BY <3>2, <4>2 DEF Underway
      <4> QED BY <1>1, <3>1, <3>2, <4>2, <4>3 DEF Underway, Settled
    <3> QED BY <2>0, <3>1, <3>2 DEF IInv
  <2>2. CASE f \in DOMAIN call[p].seen /\ now # None
    <3> DEFINE c == call[p]
               s == [c.seen EXCEPT ![f] = @ \cup {now.content}]
    <3>1. call'[p] = [c EXCEPT !.seen = s]
      BY <2>2 DEF Become, Seen
    <3>2. PICK files \in SUBSET Files : c.seen \in [files -> SUBSET Contents]
      BY <2>0 DEF Calling
    <3>3. s \in [files -> SUBSET Contents] /\ DOMAIN s = DOMAIN c.seen
      BY <2>2, <3>2 DEF Entries
    <3>4. /\ call'[p].pc = c.pc /\ call'[p].wanted = c.wanted /\ call'[p].todo = c.todo
          /\ call'[p].at = c.at /\ call'[p].before = c.before /\ call'[p].now = c.now
          /\ call'[p].evidence = c.evidence /\ call'[p].seen = s
      BY <2>0, <3>1 DEF Calling
    <3>5. call'[p] \in Calling
      BY <2>0, <3>1, <3>2, <3>3 DEF Calling
    <3>6. ASSUME Underway(c) PROVE Underway(call[p])'
      <4>1. \A g \in DOMAIN c.wanted : g \in Files /\ g \in DOMAIN c.seen
        BY <3>6, ReceiptAssumption DEF Underway
      <4>2. \A g \in DOMAIN c.wanted :
                /\ c.seen[g] \subseteq s[g]
                /\ file'[g] # None => file'[g].content \in s[g]
        BY <1>1, <3>3, <3>6, <4>1, <2>2 DEF IInv, TypeOK, Underway
      <4>3. c.pc = "again" => /\ c.at \in Files
                              /\ (Settled(c.before, c.now) /\ file'[c.at] # None
                                    /\ file'[c.at].stamp = c.before)
                                 => file'[c.at].content = c.wanted[c.at]
        <5> SUFFICES ASSUME c.pc = "again"
                     PROVE  /\ c.at \in Files
                            /\ (Settled(c.before, c.now) /\ file'[c.at] # None
                                    /\ file'[c.at].stamp = c.before)
                                 => file'[c.at].content = c.wanted[c.at]
          OBVIOUS
        <5>1. c.at \in Files
          BY <3>6, <4>1 DEF Underway
        <5>2. CASE c.at # f
          BY <1>1, <3>6, <5>1, <5>2 DEF IInv, TypeOK, Underway
        <5>3. CASE c.at = f
          <6>1. Settled(c.before, c.now) => Past(c.before)
            <7>1. c.before \in Stamps /\ c.before.device \in Local /\ c.now <= clock
              BY <2>0, <3>6 DEF Underway, Calling
            <7>2. c.now \in Nat /\ clock \in Nat /\ Settle \in Nat /\ c.before.ctime \in Nat
              BY <2>0, <7>1, ReceiptAssumption DEF IInv, TypeOK, Calling, Times, Stamps
            <7> QED BY <7>1, <7>2 DEF Settled, Past
          <6> QED BY <1>1, <2>2, <5>1, <5>3, <6>1 DEF IInv, TypeOK
        <5> QED BY <5>1, <5>2, <5>3
      <4> QED BY <1>1, <3>3, <3>4, <3>6, <4>1, <4>2, <4>3 DEF Underway, Settled
    <3> QED BY <3>4, <3>5, <3>6 DEF IInv
  <2> QED BY <2>1, <2>2
<1>5. TypeOK'
  <2>1. call' \in [Processes -> Calling]
    BY <1>4 DEF Become, Seen
  <2> QED BY <1>1, <1>2, <2>1 DEF IInv, TypeOK
<1>6. \A g \in Files : Sound(receipt[g], g)'
  BY <1>1, <1>3 DEF IInv, TypeOK
<1>7. ASSUME NEW p \in Processes, NEW g \in Files
      PROVE  Sound(call[p].evidence[g], g)'
  <2>1. call[p].evidence[g] \in Entries \cup {None} /\ Sound(call[p].evidence[g], g)
    BY DEF IInv, TypeOK, Calling
  <2> QED BY <1>3, <1>4, <2>1 DEF Sound, Past
<1> QED BY <1>4, <1>5, <1>6, <1>7 DEF IInv

LEMMA WriteKeeps == ASSUME IInv, NEW f \in Files, Write(f) PROVE IInv'
<1>1. PICK c \in Contents, d \in Devices : \E t \in Given(d) :
          Become(f, [content |-> c, stamp |-> [device |-> d, ctime |-> t]])
  BY DEF Write
<1>2. PICK t \in Given(d) : Become(f, [content |-> c, stamp |-> [device |-> d, ctime |-> t]])
  BY <1>1
<1>3. t \in Times
  BY ReceiptAssumption DEF Given, Times, IInv, TypeOK
<1> DEFINE now == [content |-> c, stamp |-> [device |-> d, ctime |-> t]]
<1>4. now \in Entries /\ now.stamp = [device |-> d, ctime |-> t]
  BY <1>3 DEF Entries, Stamps
<1>5. \A stamp : Past(stamp) => now.stamp # stamp
  BY <1>4, WritesAnew
<1> QED BY <1>2, <1>4, <1>5, BecomeKeeps

LEMMA LoadKeeps == ASSUME IInv, NEW p \in Processes, Load(p) PROVE IInv'
<1>1. PICK wanted \in Calls :
          To(p, [Idle EXCEPT
            !.pc = "next", !.wanted = wanted, !.todo = DOMAIN wanted,
            !.reusing = Root \in Local,
            !.evidence = IF Root \in Local THEN receipt ELSE NoReceipt,
            !.seen = [f \in DOMAIN wanted |->
                        IF file[f] = None THEN {} ELSE {file[f].content}]])
  BY DEF Load
<1> DEFINE evidence == IF Root \in Local THEN receipt ELSE NoReceipt
           seen == [f \in DOMAIN wanted |-> IF file[f] = None THEN {} ELSE {file[f].content}]
           c == [Idle EXCEPT !.pc = "next", !.wanted = wanted, !.todo = DOMAIN wanted,
                             !.reusing = Root \in Local, !.evidence = evidence, !.seen = seen]
<1>2. DOMAIN wanted \in SUBSET Files
  BY ReceiptAssumption
<1>3. seen \in UNION {[files -> SUBSET Contents] : files \in SUBSET Files}
  <2>1. seen \in [DOMAIN wanted -> SUBSET Contents]
    BY <1>2 DEF IInv, TypeOK, Entries
  <2> QED BY <1>2, <2>1
<1>4. evidence \in [Files -> Entries \cup {None}]
  BY DEF IInv, TypeOK, NoReceipt
<1>5. c \in Calling
  <2> DEFINE reusing == Root \in Local
  <2>1. reusing \in BOOLEAN
    OBVIOUS
  <2> HIDE DEF reusing, seen, evidence
  <2>2. [Idle EXCEPT !.pc = "next", !.wanted = wanted, !.todo = DOMAIN wanted,
                     !.reusing = reusing, !.evidence = evidence, !.seen = seen] \in Calling
    BY <1>2, <1>3, <1>4, <2>1, IdleCalling DEF Calling
  <2> QED BY <2>2 DEF reusing
<1>6. /\ c.pc = "next" /\ c.wanted = wanted /\ c.todo = DOMAIN wanted /\ c.now = 0
      /\ c.before = None /\ c.evidence = evidence /\ c.seen = seen
  BY DEF Idle
<1>7. Underway(c)
  BY <1>2, <1>6, ReceiptAssumption DEF Underway, IInv, TypeOK, Times
<1>8. \A f \in Files : Sound(c.evidence[f], f)
  BY <1>6 DEF IInv, Sound, NoReceipt
<1> QED BY <1>1, <1>5, <1>7, <1>8, OneCall DEF To

LEMMA ChooseKeeps == ASSUME IInv, NEW p \in Processes, Choose(p) PROVE IInv'
<1>1. PICK f \in call[p].todo :
          To(p, [call[p] EXCEPT !.pc = "stamp", !.at = f, !.now = clock])
  BY DEF Choose
<1> DEFINE c == [call[p] EXCEPT !.pc = "stamp", !.at = f, !.now = clock]
<1>2. call[p] \in Calling /\ Underway(call[p]) /\ call[p].pc = "next"
  BY DEF Choose, At, IInv, TypeOK
<1>3. /\ c \in Calling /\ c.pc = "stamp" /\ c.at = f /\ c.now = clock
      /\ c.evidence = call[p].evidence
  BY <1>2 DEF Calling, IInv, TypeOK
<1>4. Underway(c)
  BY <1>2, <1>3, ReceiptAssumption DEF Underway, Calling, IInv, TypeOK, Times
<1> QED BY <1>1, <1>3, <1>4, OneCall DEF To, IInv

\* What a process accepts as evidence is so.
LEMMA ReuseIsTrue ==
    ASSUME IInv, NEW p \in Processes, call[p].pc = "stamp", Eligible(p, call[p].at),
           Reusable(p, file[call[p].at].stamp)
    PROVE  file[call[p].at].content = call[p].wanted[call[p].at]
<1>1. call[p].at \in Files /\ Underway(call[p])
  BY DEF IInv, TypeOK, Calling, Underway
<1>2. Sound(call[p].evidence[call[p].at], call[p].at)
  BY <1>1 DEF IInv
<1> QED BY <1>2 DEF Sound, Eligible, Reusable

LEMMA StampKeeps == ASSUME IInv, NEW p \in Processes, Stamp(p) PROVE IInv'
<1> DEFINE f == call[p].at
           used == [call[p] EXCEPT !.used = @ \cup {f}]
           fresh == [used EXCEPT !.pc = "read", !.before = file[f].stamp]
           plain == [call[p] EXCEPT !.pc = "read"]
<1>1. call[p] \in Calling /\ Underway(call[p]) /\ call[p].pc = "stamp" /\ f \in Files
  BY DEF Stamp, At, IInv, TypeOK, Calling, Underway
<1>2. CASE ~Eligible(p, f)
  <2>1. plain \in Calling /\ Underway(plain) /\ plain.evidence = call[p].evidence
    BY <1>1 DEF Calling, Underway
  <2>2. To(p, plain)
    BY <1>2 DEF Stamp
  <2> QED BY <2>1, <2>2, OneCall DEF To, IInv
<1>3. CASE Eligible(p, f)
  <2>1. /\ used \in Calling /\ Underway(used) /\ used.evidence = call[p].evidence
        /\ used.at = f /\ used.wanted = call[p].wanted /\ used.seen = call[p].seen
        /\ used.todo = call[p].todo
    BY <1>1 DEF Calling, Underway
  <2>2. CASE Reusable(p, file[f].stamp)
    <3>1. used.at \in used.todo /\ used.wanted[used.at] \in used.seen[used.at]
      BY <1>1, <1>3, <2>1, <2>2, ReuseIsTrue DEF Underway, Eligible
    <3>2. /\ Matched(used) \in Calling /\ Underway(Matched(used))
          /\ Matched(used).evidence = call[p].evidence
      BY <2>1, <3>1, MatchedInOrder
    <3>3. To(p, Matched(used))
      BY <1>3, <2>2 DEF Stamp
    <3> QED BY <3>2, <3>3, OneCall DEF To, IInv
  <2>3. CASE ~Reusable(p, file[f].stamp)
    <3>1. file[f].stamp \in Stamps /\ file[f].stamp.device \in Local /\ None \notin Stamps
      BY <1>1, <1>3, ReceiptAssumption DEF IInv, TypeOK, Eligible, Entries
    <3>2. /\ fresh \in Calling /\ fresh.pc = "read" /\ fresh.before = file[f].stamp
          /\ fresh.evidence = call[p].evidence
      BY <2>1, <3>1 DEF Calling
    <3>3. Underway(fresh)
      BY <1>1, <3>1, <3>2 DEF Underway, Calling
    <3>4. To(p, fresh)
      BY <1>3, <2>3 DEF Stamp
    <3> QED BY <3>2, <3>3, <3>4, OneCall DEF To, IInv
  <2> QED BY <2>2, <2>3
<1> QED BY <1>2, <1>3

LEMMA ReadKeeps == ASSUME IInv, NEW p \in Processes, Read(p) PROVE IInv'
<1> DEFINE c == call[p]
           again == [c EXCEPT !.pc = "again"]
<1>1. c \in Calling /\ Underway(c) /\ c.pc = "read" /\ c.at \in Files /\ c.at \in DOMAIN c.wanted
  BY DEF Read, At, IInv, TypeOK, Calling, Underway
<1>2. CASE file[c.at] = None \/ file[c.at].content # c.wanted[c.at]
  BY <1>2, Ended DEF Read, To
<1>3. CASE file[c.at] # None /\ file[c.at].content = c.wanted[c.at]
  <2>1. c.wanted[c.at] \in c.seen[c.at] /\ c.at \in c.todo
    BY <1>1, <1>3 DEF Underway
  <2>2. CASE c.before = None
    <3>1. Matched(c) \in Calling /\ Underway(Matched(c)) /\ Matched(c).evidence = c.evidence
      BY <1>1, <2>1, MatchedInOrder
    <3>2. To(p, Matched(c))
      BY <1>3, <2>2 DEF Read
    <3> QED BY <3>1, <3>2, OneCall DEF To, IInv
  <2>3. CASE c.before # None
    <3>1. again \in Calling /\ again.pc = "again" /\ again.evidence = c.evidence
      BY <1>1 DEF Calling
    <3>2. Underway(again)
      BY <1>1, <1>3, <2>1, <2>3, <3>1 DEF Underway, Calling
    <3>3. To(p, again)
      BY <1>3, <2>3 DEF Read
    <3> QED BY <3>1, <3>2, <3>3, OneCall DEF To, IInv
  <2> QED BY <2>2, <2>3
<1> QED BY <1>2, <1>3

\* An entry is made of a stamp that was old before the file was read under it.
LEMMA EvidenceSound ==
    ASSUME IInv, NEW c \in Calling, Underway(c), c.pc = "again",
           \A f \in Files : Sound(c.evidence[f], f), c.at \in Files
    PROVE  /\ Evidence(c) \in Calling /\ Underway(Evidence(c))
           /\ \A f \in Files : Sound(Evidence(c).evidence[f], f)
           /\ Evidence(c).at = c.at /\ Evidence(c).todo = c.todo
           /\ Evidence(c).wanted = c.wanted /\ Evidence(c).seen = c.seen
<1> DEFINE entry == [content |-> c.wanted[c.at], stamp |-> c.before]
           e == [c EXCEPT !.evidence[c.at] = entry, !.changed = TRUE]
<1>1. CASE ~Settled(c.before, c.now)
  BY <1>1 DEF Evidence
<1>2. CASE Settled(c.before, c.now)
  <2>1. c.before \in Stamps /\ c.at \in DOMAIN c.wanted
    BY DEF Underway, Calling
  <2>2. c.wanted[c.at] \in Contents
    BY <2>1, ReceiptAssumption DEF Underway
  <2>3. entry \in Entries /\ entry # None
    BY <2>1, <2>2, ReceiptAssumption DEF Entries
  <2>4. Past(c.before)
    <3>1. c.before.device \in Local /\ c.now <= clock
      BY <2>1, ReceiptAssumption DEF Underway
    <3>2. c.now \in Nat /\ clock \in Nat /\ Settle \in Nat /\ c.before.ctime \in Nat
      BY <2>1, ReceiptAssumption DEF IInv, TypeOK, Calling, Times, Stamps
    <3> QED BY <1>2, <2>1, <3>1, <3>2 DEF Settled, Past
  <2>5. Sound(entry, c.at)
    BY <1>2, <2>4 DEF Sound, Underway
  <2>6. /\ e \in Calling /\ e.pc = c.pc /\ e.wanted = c.wanted /\ e.todo = c.todo
        /\ e.at = c.at /\ e.before = c.before /\ e.now = c.now /\ e.seen = c.seen
        /\ e.evidence = [c.evidence EXCEPT ![c.at] = entry]
    BY <2>3 DEF Calling
  <2>7. Underway(e)
    BY <2>6 DEF Underway
  <2>8. ASSUME NEW f \in Files PROVE Sound(e.evidence[f], f)
    <3>1. e.evidence[f] = IF f = c.at THEN entry ELSE c.evidence[f]
      BY <2>6 DEF Calling
    <3> QED BY <2>5, <3>1
  <2>9. Evidence(c) = e
    BY <1>2 DEF Evidence
  <2> HIDE DEF e
  <2> QED BY <2>6, <2>7, <2>8, <2>9
<1> QED BY <1>1, <1>2

LEMMA RestampKeeps == ASSUME IInv, NEW p \in Processes, Restamp(p) PROVE IInv'
<1> DEFINE c == call[p]
<1>1. /\ c \in Calling /\ Underway(c) /\ c.pc = "again" /\ c.at \in Files
      /\ \A f \in Files : Sound(c.evidence[f], f)
  BY DEF Restamp, At, IInv, TypeOK, Calling, Underway
<1>2. CASE file[c.at] # None /\ file[c.at].stamp = c.before
  <2>1. /\ Evidence(c) \in Calling /\ Underway(Evidence(c))
        /\ \A f \in Files : Sound(Evidence(c).evidence[f], f)
        /\ Evidence(c).at \in Evidence(c).todo
        /\ Evidence(c).wanted[Evidence(c).at] \in Evidence(c).seen[Evidence(c).at]
    BY <1>1, EvidenceSound DEF Underway
  <2>2. /\ Matched(Evidence(c)) \in Calling /\ Underway(Matched(Evidence(c)))
        /\ Matched(Evidence(c)).evidence = Evidence(c).evidence
    BY <2>1, MatchedInOrder
  <2>3. To(p, Matched(Evidence(c)))
    BY <1>2 DEF Restamp
  <2> QED BY <2>1, <2>2, <2>3, OneCall DEF To
<1>3. CASE ~(file[c.at] # None /\ file[c.at].stamp = c.before)
  BY <1>3, Ended DEF Restamp, To
<1> QED BY <1>2, <1>3

LEMMA SaveKeeps == ASSUME IInv, NEW p \in Processes, Save(p) PROVE IInv'
<1>1. /\ call' = [call EXCEPT ![p] = Idle] /\ clock' = clock /\ file' = file /\ writes' = writes
      /\ call[p] \in Calling
  BY DEF Save, IInv, TypeOK
<1>2. ASSUME NEW f \in Files
      PROVE  receipt'[f] \in {receipt[f], call[p].evidence[f], None}
  BY DEF Save
<1>3. receipt' \in [Files -> Entries \cup {None}]
  <2>1. call[p].evidence \in [Files -> Entries \cup {None}]
    BY <1>1 DEF Calling
  <2> QED BY <2>1 DEF Save, IInv, TypeOK
<1>4. TypeOK'
  BY <1>1, <1>3, IdleCalling DEF IInv, TypeOK
<1>5. ASSUME NEW f \in Files PROVE Sound(receipt[f], f)'
  <2>1. Sound(receipt[f], f) /\ Sound(call[p].evidence[f], f) /\ Sound(None, f)
    BY DEF IInv, Sound
  <2> QED BY <1>1, <1>2, <2>1 DEF Sound, Past
<1>6. ASSUME NEW q \in Processes
      PROVE  /\ \A f \in Files : Sound(call[q].evidence[f], f)'
             /\ (call[q].pc # "idle" => Underway(call[q]))'
  <2>1. CASE q = p
    <3>1. call'[q] = Idle
      BY <1>1, <2>1 DEF IInv, TypeOK
    <3> QED BY <3>1 DEF Idle, NoReceipt, Sound
  <2>2. CASE q # p
    <3>1. call'[q] = call[q]
      BY <1>1, <2>2 DEF IInv, TypeOK
    <3> QED BY <1>1, <3>1 DEF IInv, Sound, Past, Underway, Settled
  <2> QED BY <2>1, <2>2
<1> QED BY <1>4, <1>5, <1>6 DEF IInv

LEMMA LoseKeeps == ASSUME IInv, Lose PROVE IInv'
<1>1. TypeOK'
  BY DEF Lose, IInv, TypeOK, NoReceipt
<1>2. \A f \in Files : Sound(receipt[f], f)'
  BY DEF Lose, NoReceipt, Sound
<1> QED BY <1>1, <1>2 DEF Lose, IInv, Sound, Past, Underway, Settled

LEMMA StepInductive == IInv /\ [Next]_vars => IInv'
<1> SUFFICES ASSUME IInv, [Next]_vars PROVE IInv'
  OBVIOUS
<1>1. CASE Tick
  BY <1>1, TickKeeps
<1>2. CASE Lose
  BY <1>2, LoseKeeps
<1>3. ASSUME NEW f \in Files, Write(f) PROVE IInv'
  BY <1>3, WriteKeeps
<1>4. ASSUME NEW f \in Files, Remove(f) PROVE IInv'
  BY <1>4, BecomeKeeps DEF Remove
<1>5. ASSUME NEW p \in Processes, Load(p) PROVE IInv'
  BY <1>5, LoadKeeps
<1>6. ASSUME NEW p \in Processes, Choose(p) PROVE IInv'
  BY <1>6, ChooseKeeps
<1>7. ASSUME NEW p \in Processes, Stamp(p) PROVE IInv'
  BY <1>7, StampKeeps
<1>8. ASSUME NEW p \in Processes, Read(p) PROVE IInv'
  BY <1>8, ReadKeeps
<1>9. ASSUME NEW p \in Processes, Restamp(p) PROVE IInv'
  BY <1>9, RestampKeeps
<1>10. ASSUME NEW p \in Processes, Save(p) PROVE IInv'
  BY <1>10, SaveKeeps
<1>11. ASSUME NEW p \in Processes, Stop(p) PROVE IInv'
  BY <1>11, Ended DEF Stop, To
<1>12. CASE UNCHANGED vars
  BY <1>12 DEF vars, IInv, TypeOK, Sound, Past, Underway, Settled
<1> QED BY <1>1, <1>2, <1>3, <1>4, <1>5, <1>6, <1>7, <1>8, <1>9, <1>10, <1>11, <1>12 DEF Next

----------------------------------------------------------------------------
(* The theorems                                                              *)

\* Every state is one the inductive invariant describes.
THEOREM Invariance == Spec => []IInv
  BY InitInductive, StepInductive, PTL DEF Spec

\* The variables have their types, for any number of processes and files.
THEOREM Typing == Spec => []TypeOK
<1>1. IInv => TypeOK
  BY DEF IInv
<1> QED BY <1>1, Invariance, PTL

(* No entry, on disk or in a process, is false of a local file that has its  *)
(* stamp: reusing a receipt needs no trust in who wrote it or when           *)
(* (validated_digest.rs, Cache::matches and Cache::save).                    *)
THEOREM EvidenceIsTrue == Spec => []EvidenceTrue
<1>1. IInv => EvidenceTrue
  BY DEF IInv, EvidenceTrue, TrueOf, Sound
<1> QED BY <1>1, Invariance, PTL

(* A validation with receipts answers yes only where hashing every file      *)
(* could have answered yes during the same call.                             *)
THEOREM ReuseAnswersAsHashing == Spec => []AnswersAsHashing
<1>1. IInv => AnswersAsHashing
  BY DEF IInv, AnswersAsHashing, At, Underway
<1> QED BY <1>1, Invariance, PTL

----------------------------------------------------------------------------
(* CompilerSources: what each command holds in its hands is enough to say    *)
(* what it does next.  A copy's name says what was read when it was made     *)
(* (Staged), and of a place whose stamp has not changed it says what is      *)
(* there now (Traced); a receipt inherits that when it is minted (Evident).  *)
(* A worker's input is recorded by its package unless it lies inside the     *)
(* workspace, where no copy does (Recorded).  And where nothing happens      *)
(* besides, every command makes the same copies and the same selection of    *)
(* the one resolution (Calm), so none finds what it does not expect.         *)

\* The steps in which a command makes the copies of a layer, and selects them.
Copying == {"collect", "publish", "rename", "validate", "select"}
Layering == Copying \cup {"stamp", "mint"}
Loaded == {"key", "check", "compile"}
Steps == {"idle", "failed", "version", "drop", "reuse", "load"} \cup Layering \cup Loaded

\* What the first layer and the second leave of a resolution.
Backports == {Backported(content) : content \in Legacy}
FirstViews == {view \in Views : \E r \in Resolutions : /\ view["analyzer"] = r["analyzer"]
                                                       /\ view["runner"] \in {r["runner"]} \cup Backports}
\* A configuration that takes all packages from one copy.
AllIn(copy) == [q \in Packages |-> copy]
SecondViews == {AllIn(Copy("isolated", tree)) : tree \in Trees}

\* What a copy holds of a package, what a worker is keyed by, what a command
\* has in its hands, and what a receipt says.
Pieces == ({"compat"} \X Legacy) \cup ({"isolated"} \X Found)
Keys == [identity : Copies \cup {Absent}, lock : Resolutions, specs : [Packages -> {Pubspec[t] : t \in Texts}]]
Works ==
    [pc : Steps, mode : {"default", "isolated"}, layer : Layers \cup {Absent}, input : Views \cup {Absent},
     view : Views \cup {Absent}, todo : SUBSET Packages, tree : UNION {[D -> Pieces] : D \in SUBSET Packages},
     before : SUBSET (Dirs \cup Copies), outputs : SUBSET (Copies \cup {Selector}),
     missed : SUBSET (Dirs \cup Copies \cup {Selector}),
     packages : Views \cup {Absent}, dirs : Resolutions \cup {Absent},
     key : Keys \cup {Absent}]
Receipts == [input : FirstViews, copy : {Copy("isolated", tree) : tree \in Trees},
             sources : SUBSET (Dirs \cup Copies), outputs : SUBSET (Copies \cup {Selector}),
             missed : SUBSET (Dirs \cup Copies \cup {Selector})]

\* The copy a command makes, and what it holds in its hands at each step.
Own(c) == Copy(c.layer, c.tree)
Staged(c) ==
    /\ c.pc \in {"version", "drop"} => c.view \in Resolutions
    /\ c.pc \in Copying => c.layer \in Layers
    /\ c.pc \in Copying /\ c.layer = "compat" =>
          /\ c.view \in Resolutions
          /\ IF c.pc = "collect" THEN c.todo = {"runner"} /\ c.tree = <<>> ELSE Own(c) \in Backports
    /\ c.pc = "reuse" => c.mode = "isolated" /\ c.input = c.view /\ c.input \in FirstViews
    /\ c.pc \in Layering /\ c.layer = "isolated" =>
          /\ c.mode = "isolated" /\ c.input \in FirstViews
          /\ c.pc \in Copying => c.view = c.input
          /\ c.tree \in [Packages \ (IF c.pc = "collect" THEN c.todo ELSE {}) -> {"isolated"} \X Found]
    /\ c.pc \in {"stamp", "mint"} => c.layer = "isolated" /\ c.view = AllIn(Own(c))
    /\ c.pc = "load" => (c.layer = "isolated" <=> c.mode = "isolated")
    /\ c.pc \in Loaded =>
          /\ c.dirs \in Resolutions
          /\ c.packages \in IF c.mode = "isolated" THEN SecondViews ELSE FirstViews
          /\ c.mode = "isolated" => selector["isolated"] # Absent
    /\ c.pc \in {"check", "compile"} => c.key \in Keys /\ c.key.identity = Identity(c.packages)

\* The types, and what each command may rely on.
Kept ==
    /\ resolution \in Resolutions /\ source \in [Dirs -> Texts]
    /\ DOMAIN copies \subseteq Copies
    /\ \A copy \in DOMAIN copies :
          /\ copies[copy] \in [DOMAIN copy.tree -> Found \cup ({"isolated"} \X Found)]
          /\ copy \in Backports => copies[copy] \in [{"runner"} -> Found]
    /\ selector \in [Layers -> Views \cup {Absent}]
    /\ selector["compat"] # Absent => selector["compat"] \in FirstViews
    /\ selector["isolated"] # Absent => selector["isolated"] \in SecondViews
    /\ isolation # Absent => isolation \in Receipts
    /\ proc \in [Commands -> Works]
    /\ history \in [changes : 0..MaxChanges, faults : 0..MaxFaults]
    /\ \A p \in Commands : Staged(proc[p])

\* What a place still has that has kept, and not missed a write, the stamp it was
\* read under.
Was(place, package, content) == Exists(place) /\ content = Patched("isolated", ContentAt(place, package))
Traced(c) ==
    c.pc \in Layering /\ c.layer = "isolated" =>
        \A q \in DOMAIN c.tree : c.input[q] \in c.before \ c.missed => Was(c.input[q], q, c.tree[q])
\* What a receipt says of the places that have kept their stamps.
Evident ==
    isolation # Absent =>
        /\ \A q \in Packages : isolation.input[q] \in isolation.sources \ isolation.missed =>
              Was(isolation.input[q], q, isolation.copy.tree[q])
        /\ isolation.copy \in isolation.outputs \ isolation.missed =>
              isolation.copy \in DOMAIN copies /\ copies[isolation.copy] = isolation.copy.tree
        /\ Selector \in isolation.outputs => selector["isolated"] = AllIn(isolation.copy)

\* A worker's input is recorded by its package, or lies inside the workspace.
Recorded ==
    artifact # Absent => DOMAIN artifact.keys = Packages /\
        \A q \in Packages :
            \/ artifact.keys[q] = ByPackage(q)
            \/ /\ \E d \in Inside : artifact.keys[q] = ByPlace(d)
               /\ artifact.key.identity = Absent

(* Where nothing happens besides, all commands make the same of the          *)
(* resolution.                                                               *)
Undisturbed == history.changes = 0 /\ history.faults = 0 /\ \A d \in Dirs : source[d] \notin Alien
\* The runner resolved, the configurations made of the resolution, and whether
\* the backport is there.
Release == source[resolution["runner"]]
First == IF Release \in Legacy
         THEN [q \in Packages |-> IF q = "runner" THEN Backported(Release) ELSE resolution[q]]
         ELSE resolution
Second == Copy("isolated", [q \in Packages |-> Patched("isolated",
              IF q = "runner" /\ Release \in Legacy THEN Patched("compat", Release) ELSE source[resolution[q]])])
Present == Release \in Legacy => Backported(Release) \in DOMAIN copies
\* What each command has made of it so far.
Agreed(c) ==
    /\ c.pc # "failed"
    /\ c.pc \in {"version", "drop"} => c.view = resolution
    /\ c.pc = "drop" => Release \notin Legacy
    /\ c.pc \in Copying /\ c.layer = "compat" =>
          /\ c.view = resolution /\ Release \in Legacy
          /\ c.pc # "collect" => Own(c) = Backported(Release)
    /\ c.pc \in {"validate", "select"} => Own(c) \in DOMAIN copies
    /\ c.pc = "reuse" \/ (c.pc \in Layering /\ c.layer = "isolated") => c.input = First /\ Present
    /\ c.pc \in Layering /\ c.layer = "isolated" => \A q \in DOMAIN c.tree : c.tree[q] = Second.tree[q]
    /\ c.pc \in {"stamp", "mint"} => selector["isolated"] # Absent
    /\ c.pc = "load" =>
          /\ c.layer = Absent => Release \notin Legacy
          /\ c.layer = "compat" => Release \in Legacy /\ selector["compat"] # Absent
          /\ c.layer = "isolated" => selector["isolated"] # Absent
    /\ c.pc \in Loaded =>
          /\ c.packages = IF c.mode = "isolated" THEN AllIn(Second) ELSE First
          /\ c.mode = "default" /\ Release \in Legacy => selector["compat"] # Absent
Calm == Undisturbed =>
    /\ \A copy \in DOMAIN copies : copies[copy] = copy.tree
    /\ selector["compat"] # Absent => selector["compat"] = First /\ Release \in Legacy /\ Present
    /\ selector["isolated"] # Absent => selector["isolated"] = AllIn(Second) /\ Second \in DOMAIN copies
    /\ \A p \in Commands : Agreed(proc[p])

\* The inductive invariant.
Sure ==
    /\ Kept /\ Evident /\ Recorded /\ Calm
    /\ \A p \in Commands : Traced(proc[p])

----------------------------------------------------------------------------
(* Views, copies and what is in them.                                        *)

\* A configuration takes a package from a directory or from a copy, never from none.
LEMMA ViewsAre ==
    /\ Resolutions \subseteq FirstViews /\ FirstViews \subseteq Views /\ SecondViews \subseteq Views
    /\ Absent \notin Views
    /\ \A view \in FirstViews : view["analyzer"] \in Dirs /\ view["runner"] \in Dirs \cup Backports
    /\ \A view \in Resolutions : view["analyzer"] \in Dirs /\ view["runner"] \in Dirs
<1>1. Packages = {"runner", "analyzer"} BY DEF Packages
<1>2. \A view \in Resolutions : view \in [Packages -> Dirs]
  BY SourcesAssumption
<1>3. \A view \in Resolutions : view \in Views
  BY <1>2 DEF Views
<1>4. \A view \in Resolutions : view["analyzer"] \in Dirs /\ view["runner"] \in Dirs
  BY <1>1, <1>2
<1>5. SecondViews \subseteq Views
  BY DEF SecondViews, AllIn, Views, Copies
<1>6. Absent \notin Views BY SourcesAssumption
<1> QED BY <1>3, <1>4, <1>5, <1>6 DEF FirstViews

\* A backport is a copy of the runner.
LEMMA BackportsAre ==
    ASSUME NEW copy \in Backports
    PROVE  /\ copy \in Copies /\ copy \notin Dirs /\ copy.layer = "compat"
           /\ copy = Copy("compat", copy.tree)
           /\ copy.tree \in [{"runner"} -> {"compat"} \X Legacy]
<1>1. PICK content \in Legacy : copy = Backported(content)
  BY DEF Backports
<1>2. copy \in Copies BY <1>1 DEF Copies
<1>3. copy \notin Dirs BY <1>2, SourcesAssumption
<1>4. copy.layer = "compat" /\ copy = Copy("compat", copy.tree)
      /\ copy.tree = [q \in {"runner"} |-> <<"compat", content>>]
  BY <1>1 DEF Backported, Copy, Patched
<1> QED BY <1>2, <1>3, <1>4

\* An isolated copy has all packages, and is no backport.
LEMMA IsolatedAre ==
    ASSUME NEW tree \in Trees
    PROVE  /\ Copy("isolated", tree) \in Copies /\ Copy("isolated", tree) \notin Dirs
           /\ Copy("isolated", tree) \notin Backports
           /\ Copy("isolated", tree).tree = tree /\ Copy("isolated", tree).layer = "isolated"
           /\ DOMAIN tree = Packages
           /\ AllIn(Copy("isolated", tree)) \in SecondViews
<1>1. Copy("isolated", tree).layer = "isolated" /\ Copy("isolated", tree).tree = tree
  BY DEF Copy
<1>2. Copy("isolated", tree) \in Copies BY DEF Copies
<1> QED BY <1>1, <1>2, SourcesAssumption, BackportsAre DEF Trees, SecondViews

\* What lies where a configuration says a package is.
LEMMA FoundAt ==
    ASSUME Kept, NEW view \in FirstViews, NEW q \in Packages, Exists(view[q])
    PROVE  ContentAt(view[q], q) \in Found
<1>1. CASE view[q] \in Dirs
  BY <1>1 DEF ContentAt, Found, Kept
<1>2. CASE view[q] \notin Dirs
  <2>1. q = "runner" /\ view[q] \in Backports /\ view[q] \in DOMAIN copies
    BY <1>2, ViewsAre DEF Packages, Exists
  <2> QED BY <1>2, <2>1 DEF ContentAt, Kept
<1> QED BY <1>1, <1>2

----------------------------------------------------------------------------
(* Steps of one command                                                      *)

\* A change or a fault is counted, and the instance is no longer undisturbed.
LEMMA FaultIs ==
    ASSUME Kept, Fault
    PROVE  /\ history' \in [changes : 0..MaxChanges, faults : 0..MaxFaults]
           /\ ~Undisturbed'
<1>1. history.changes \in 0..MaxChanges /\ history.faults \in 0..MaxFaults /\ history.faults < MaxFaults
  BY DEF Kept, Fault
<1>2. history.faults + 1 \in 0..MaxFaults /\ history.faults + 1 # 0
  BY <1>1, SourcesAssumption
<1>3. history' = [history EXCEPT !.faults = history.faults + 1]
  BY DEF Fault
<1>4. history'.faults = history.faults + 1 BY <1>3 DEF Kept
<1> QED BY <1>2, <1>3, <1>4 DEF Kept, Undisturbed

LEMMA ChangeIs ==
    ASSUME Kept, Change
    PROVE  /\ history' \in [changes : 0..MaxChanges, faults : 0..MaxFaults]
           /\ ~Undisturbed'
<1>1. history.changes \in 0..MaxChanges /\ history.faults \in 0..MaxFaults /\ history.changes < MaxChanges
  BY DEF Kept, Change
<1>2. history.changes + 1 \in 0..MaxChanges /\ history.changes + 1 # 0
  BY <1>1, SourcesAssumption
<1>3. history' = [history EXCEPT !.changes = history.changes + 1]
  BY DEF Change
<1>4. history'.changes = history.changes + 1 BY <1>3 DEF Kept
<1> QED BY <1>2, <1>3, <1>4 DEF Kept, Undisturbed

\* A step of one command that leaves the files alone keeps the invariant if it
\* leaves the command, the receipt and the worker in order.
LEMMA Settling ==
    ASSUME Sure, NEW p \in Commands, NEW c \in Works, Goes(p, c),
           UNCHANGED <<resolution, source, copies, selector>>,
           isolation' # Absent => isolation' \in Receipts, Evident', Recorded',
           history' = history \/ Fault,
           Staged(c), Traced(c), Undisturbed /\ ~Fault => Agreed(c)
    PROVE  Sure'
<1>1. proc \in [Commands -> Works] BY DEF Sure, Kept
<1>2. proc' = [proc EXCEPT ![p] = c] BY DEF Goes
<1>3. proc' \in [Commands -> Works] /\ \A q \in Commands : proc'[q] = IF q = p THEN c ELSE proc[q]
  BY <1>1, <1>2
<1>4. history' \in [changes : 0..MaxChanges, faults : 0..MaxFaults]
  BY FaultIs DEF Sure, Kept
<1>5. ASSUME NEW q \in Commands PROVE Staged(proc[q])' /\ Traced(proc[q])'
  <2>1. CASE q = p
    <3>1. proc'[q] = c BY <1>3, <2>1
    <3>2. Staged(proc[q])' BY <3>1 DEF Staged
    <3>3. Traced(proc[q])' BY <3>1 DEF Traced, Was, Exists, ContentAt
    <3> QED BY <3>2, <3>3
  <2>2. CASE q # p
    <3>1. proc'[q] = proc[q] BY <1>3, <2>2
    <3>2. Staged(proc[q])' BY <3>1 DEF Staged, Sure, Kept
    <3>3. Traced(proc[q])' BY <3>1 DEF Traced, Was, Exists, ContentAt, Sure
    <3> QED BY <3>2, <3>3
  <2> QED BY <2>1, <2>2
<1>6. Kept'
  BY <1>3, <1>4, <1>5 DEF Sure, Kept
<1>7. Calm'
  <2>1. CASE Fault
    BY <2>1, FaultIs DEF Sure, Calm
  <2>2. CASE ~Fault
    <3> SUFFICES ASSUME Undisturbed' PROVE Calm' BY DEF Calm
    <3>1. Undisturbed BY <2>2 DEF Undisturbed
    <3>2. First' = First /\ Second' = Second /\ Present' = Present /\ Release' = Release
      BY DEF First, Second, Present, Release
    <3>3. ASSUME NEW q \in Commands PROVE Agreed(proc[q])'
      <4>1. CASE q = p
        <5>1. proc'[q] = c BY <1>3, <4>1
        <5>2. Agreed(c) BY <2>2, <3>1
        <5> QED BY <5>1, <5>2, <3>2 DEF Agreed
      <4>2. CASE q # p
        <5>1. proc'[q] = proc[q] BY <1>3, <4>2
        <5>2. Agreed(proc[q]) BY <3>1 DEF Sure, Calm
        <5> QED BY <5>1, <5>2, <3>2 DEF Agreed
      <4> QED BY <4>1, <4>2
    <3> QED BY <3>1, <3>2, <3>3 DEF Sure, Calm
  <2> QED BY <2>1, <2>2
<1> QED BY <1>3, <1>5, <1>6, <1>7 DEF Sure

\* So does one that leaves the receipt and the worker as they are.
LEMMA Alone ==
    ASSUME Sure, NEW p \in Commands, NEW c \in Works, Goes(p, c),
           UNCHANGED <<resolution, source, copies, selector, isolation, artifact>>,
           history' = history \/ Fault,
           Staged(c), Traced(c), Undisturbed /\ ~Fault => Agreed(c)
    PROVE  Sure'
<1>1. Evident' /\ Recorded'
  BY DEF Sure, Evident, Recorded, Was, Exists, ContentAt
<1>2. isolation' # Absent => isolation' \in Receipts BY DEF Sure, Kept
<1> QED BY <1>1, <1>2, Settling

\* The commands that rest, or begin, or have failed.
LEMMA AtRest ==
    ASSUME NEW c, c.pc \in {"idle", "failed", "version"}, c.pc = "version" => c.view \in Resolutions
    PROVE  Staged(c) /\ Traced(c)
BY DEF Staged, Traced, Copying, Layering, Loaded

LEMMA RestingIs ==
    Resting \in Works /\ Resting.pc = "idle" /\ Resting.view = Absent /\ Staged(Resting) /\ Traced(Resting)
<1>1. <<>> \in UNION {[D -> Pieces] : D \in SUBSET Packages}
  <2>1. <<>> \in [{} -> Pieces] OBVIOUS
  <2> QED BY <2>1
<1>2. Resting \in Works /\ Resting.pc = "idle" /\ Resting.view = Absent
  BY <1>1 DEF Resting, Works, Steps, Layers
<1> QED BY <1>2, AtRest

LEMMA FailedIs ==
    ASSUME NEW c
    PROVE  Failed(c) \in Works /\ Failed(c).pc = "failed" /\ Staged(Failed(c)) /\ Traced(Failed(c))
<1>1. Failed(c) \in Works /\ Failed(c).pc = "failed"
  BY RestingIs DEF Failed, Works, Steps
<1> QED BY <1>1, AtRest

LEMMA AbandonKeeps == ASSUME Sure, NEW p \in Commands, Abandon(p) PROVE Sure'
BY RestingIs, Alone DEF Abandon

\* The steps and layers by name.
LEMMA StepsAre ==
    /\ \A s \in {"idle", "failed", "version", "drop", "reuse", "load", "collect", "publish", "rename",
                 "validate", "select", "stamp", "mint", "key", "check", "compile"} : s \in Steps
    /\ "compat" \in Layers /\ "isolated" \in Layers
BY DEF Steps, Layering, Copying, Loaded, Layers

\* A command at its first steps.
LEMMA StartsIs ==
    ASSUME NEW pc \in Steps, NEW mode \in {"default", "isolated"}
    PROVE  [Resting EXCEPT !.pc = pc, !.mode = mode] \in Works
<1> DEFINE a == [Resting EXCEPT !.pc = pc]
<1>1. a \in Works BY RestingIs DEF Works
<1>2. [Resting EXCEPT !.pc = pc, !.mode = mode] = [a EXCEPT !.mode = mode] OBVIOUS
<1> HIDE DEF a
<1> QED BY <1>1, <1>2 DEF Works

\* What a command that begins knows.
Begun(mode, view) == [Resting EXCEPT !.pc = "version", !.mode = mode, !.view = view]

LEMMA BegunIs ==
    ASSUME NEW mode \in {"default", "isolated"}, NEW view \in Resolutions
    PROVE  Begun(mode, view) \in Works /\ Begun(mode, view).pc = "version" /\ Begun(mode, view).view = view
<1> DEFINE b == [Resting EXCEPT !.pc = "version", !.mode = mode]
<1>1. b \in Works BY StepsAre, StartsIs
<1>2. b.pc = "version" BY DEF Resting
<1>3. Begun(mode, view) = [b EXCEPT !.view = view] BY DEF Begun
<1> HIDE DEF b
<1>4. view \in Views BY ViewsAre
<1> QED BY <1>1, <1>2, <1>3, <1>4 DEF Works

LEMMA BeginKeeps == ASSUME Sure, NEW p \in Commands, Begin(p) PROVE Sure'
<1>1. PICK mode \in Modes : Goes(p, Begun(mode, resolution))
  BY DEF Begin, Begun
<1>2. mode \in {"default", "isolated"} /\ resolution \in Resolutions
  BY SourcesAssumption DEF Sure, Kept
<1> DEFINE c == Begun(mode, resolution)
<1>3. c \in Works /\ c.pc = "version" /\ c.view = resolution
  BY <1>2, BegunIs
<1>4. Goes(p, c) BY <1>1
<1> HIDE DEF c
<1>5. Staged(c) /\ Traced(c) BY <1>2, <1>3, AtRest
<1>6. Agreed(c)
  BY <1>3 DEF Agreed, Copying, Layering, Loaded
<1> QED BY <1>3, <1>4, <1>5, <1>6, Alone DEF Begin

\* What the invariant says of one command.
LEMMA Working ==
    ASSUME Sure, NEW p \in Commands
    PROVE  /\ proc[p] \in Works /\ Staged(proc[p]) /\ Traced(proc[p])
           /\ Undisturbed => Agreed(proc[p])
BY DEF Sure, Kept, Calm

\* What a command has in hand that begins to collect a layer.
LEMMA CollectingIs ==
    ASSUME NEW layer \in Layers, NEW packages \in SUBSET Packages, NEW w \in Works
    PROVE  /\ Collecting(layer, packages, w) \in Works
           /\ Collecting(layer, packages, w).pc = "collect"
           /\ Collecting(layer, packages, w).mode = w.mode
           /\ Collecting(layer, packages, w).layer = layer
           /\ Collecting(layer, packages, w).input = w.input
           /\ Collecting(layer, packages, w).view = w.view
           /\ Collecting(layer, packages, w).todo = packages
           /\ Collecting(layer, packages, w).tree = <<>>
<1> DEFINE a == [w EXCEPT !.pc = "collect", !.layer = layer]
<1>1. /\ a \in Works /\ a.pc = "collect" /\ a.layer = layer
      /\ a.mode = w.mode /\ a.input = w.input /\ a.view = w.view
  BY StepsAre DEF Works
<1>2. Collecting(layer, packages, w) = [a EXCEPT !.todo = packages, !.tree = <<>>] BY DEF Collecting
<1>3. <<>> \in UNION {[D -> Pieces] : D \in SUBSET Packages}
  <2>1. <<>> \in [{} -> Pieces] OBVIOUS
  <2> QED BY <2>1
<1> HIDE DEF a
<1> QED BY <1>1, <1>2, <1>3 DEF Works

\* A command that only goes on to another step.
LEMMA MovesTo ==
    ASSUME NEW w \in Works, NEW pc \in Steps, NEW c, c = [w EXCEPT !.pc = pc]
    PROVE  /\ c \in Works /\ c.pc = pc /\ c.mode = w.mode /\ c.layer = w.layer
           /\ c.input = w.input /\ c.view = w.view /\ c.todo = w.todo /\ c.tree = w.tree
           /\ c.before = w.before /\ c.missed = w.missed /\ c.outputs = w.outputs
           /\ c.packages = w.packages /\ c.dirs = w.dirs /\ c.key = w.key
BY DEF Works

LEMMA VersionKeeps == ASSUME Sure, NEW p \in Commands, Version(p) PROVE Sure'
<1> DEFINE w == proc[p]
<1>1. w \in Works /\ Staged(w) /\ Traced(w) /\ (Undisturbed => Agreed(w)) /\ w.pc = "version"
  BY Working DEF Version, On
<1>2. w.view \in Resolutions BY <1>1 DEF Staged
<1>3. CASE source[w.view["runner"]] \in Legacy
  <2> DEFINE c == Collecting("compat", {"runner"}, w)
  <2>1. Goes(p, c) BY <1>3 DEF Version
  <2>2. /\ c \in Works /\ c.pc = "collect" /\ c.layer = "compat" /\ c.view = w.view
        /\ c.todo = {"runner"} /\ c.tree = <<>>
    BY <1>1, CollectingIs, StepsAre DEF Packages
  <2> HIDE DEF w, c
  <2>3. Staged(c) /\ Traced(c)
    BY <1>2, <2>2, StepsAre DEF Staged, Traced, Copying, Layering, Loaded
  <2>4. Undisturbed => Agreed(c)
    BY <1>1, <1>3, <2>2 DEF Agreed, Copying, Layering, Loaded, Release
  <2> QED BY <2>1, <2>2, <2>3, <2>4, Alone DEF Version
<1>4. CASE source[w.view["runner"]] \notin Legacy
  <2> DEFINE c == [w EXCEPT !.pc = "drop"]
  <2>1. Goes(p, c) BY <1>4 DEF Version
  <2>2. c \in Works /\ c.pc = "drop" /\ c.view = w.view
    BY <1>1, MovesTo, StepsAre
  <2> HIDE DEF w, c
  <2>3. Staged(c) /\ Traced(c)
    BY <1>2, <2>2 DEF Staged, Traced, Copying, Layering, Loaded
  <2>4. Undisturbed => Agreed(c)
    BY <1>1, <1>4, <2>2 DEF Agreed, Copying, Layering, Loaded, Release
  <2> QED BY <2>1, <2>2, <2>3, <2>4, Alone DEF Version
<1> QED BY <1>3, <1>4

LEMMA PublishKeeps == ASSUME Sure, NEW p \in Commands, Publish(p) PROVE Sure'
<1> DEFINE w == proc[p]
           c == [w EXCEPT !.pc = IF Mine(p) \in DOMAIN copies THEN "validate" ELSE "rename"]
<1>1. w \in Works /\ Staged(w) /\ Traced(w) /\ (Undisturbed => Agreed(w)) /\ w.pc = "publish"
  BY Working DEF Publish, On
<1>2. /\ c \in Works /\ c.pc = IF Own(c) \in DOMAIN copies THEN "validate" ELSE "rename"
      /\ c.mode = w.mode /\ c.layer = w.layer /\ c.input = w.input /\ c.view = w.view
      /\ c.tree = w.tree /\ c.before = w.before /\ c.missed = w.missed
  BY <1>1, MovesTo, StepsAre DEF Mine, Own
<1>3. Goes(p, c) BY DEF Publish
<1> HIDE DEF w, c
<1>4. c.pc \in {"validate", "rename"} /\ (c.pc = "validate" => Own(c) \in DOMAIN copies) BY <1>2
<1>5. Staged(c) /\ Traced(c)
  BY <1>1, <1>2, <1>4 DEF Staged, Traced, Copying, Layering, Loaded, Own
<1>6. Undisturbed => Agreed(c)
  BY <1>1, <1>2, <1>4 DEF Agreed, Copying, Layering, Loaded, Own
<1> QED BY <1>2, <1>3, <1>5, <1>6, Alone DEF Publish

LEMMA ValidateKeeps == ASSUME Sure, NEW p \in Commands, Validate(p) PROVE Sure'
<1> DEFINE w == proc[p]
<1>1. w \in Works /\ Staged(w) /\ Traced(w) /\ (Undisturbed => Agreed(w)) /\ w.pc = "validate"
  BY Working DEF Validate, On
<1>2. Mine(p) = Own(w) BY DEF Mine, Own
<1>3. CASE Mine(p) \in DOMAIN copies /\ copies[Mine(p)] = w.tree
  <2> DEFINE c == [w EXCEPT !.pc = "select"]
  <2>1. Goes(p, c) BY <1>3 DEF Validate
  <2>2. /\ c \in Works /\ c.pc = "select"
        /\ c.mode = w.mode /\ c.layer = w.layer /\ c.input = w.input /\ c.view = w.view
        /\ c.tree = w.tree /\ c.before = w.before /\ c.missed = w.missed
    BY <1>1, MovesTo, StepsAre
  <2> HIDE DEF w, c
  <2>3. Staged(c) /\ Traced(c)
    BY <1>1, <2>2 DEF Staged, Traced, Copying, Layering, Loaded, Own
  <2>4. Undisturbed => Agreed(c)
    BY <1>1, <2>2 DEF Agreed, Copying, Layering, Loaded, Own
  <2> QED BY <2>1, <2>2, <2>3, <2>4, Alone DEF Validate
<1>4. CASE ~(Mine(p) \in DOMAIN copies /\ copies[Mine(p)] = w.tree)
  <2>1. Goes(p, Failed(w)) BY <1>4 DEF Validate
  <2>2. ~Undisturbed
    <3> SUFFICES ASSUME Undisturbed PROVE FALSE OBVIOUS
    <3>1. Own(w) \in DOMAIN copies BY <1>1 DEF Agreed
    <3>2. copies[Own(w)] = Own(w).tree BY <3>1 DEF Sure, Calm
    <3> QED BY <1>2, <1>4, <3>1, <3>2 DEF Own, Copy
  <2> HIDE DEF w
  <2> QED BY <2>1, <2>2, FailedIs, Alone DEF Validate
<1> QED BY <1>3, <1>4

\* Where nothing happens besides, both layers can be made.
LEMMA FirstIs ==
    ASSUME Sure
    PROVE  /\ First \in FirstViews /\ Release \in Texts
           /\ First["analyzer"] = resolution["analyzer"] /\ resolution \in Resolutions
           /\ First["runner"] = IF Release \in Legacy THEN Backported(Release) ELSE resolution["runner"]
           /\ Second.tree \in Trees /\ Second = Copy("isolated", Second.tree)
<1>1. /\ resolution \in Resolutions /\ source \in [Dirs -> Texts] BY DEF Sure, Kept
<1>2. resolution \in Views /\ resolution["analyzer"] \in Dirs /\ resolution["runner"] \in Dirs
  BY <1>1, ViewsAre
<1>3. Release \in Texts BY <1>1, <1>2 DEF Release
<1>4. /\ First["analyzer"] = resolution["analyzer"]
      /\ First["runner"] = IF Release \in Legacy THEN Backported(Release) ELSE resolution["runner"]
  BY DEF First, Packages
<1>5. First \in Views
  <2>1. CASE Release \in Legacy
    <3>1. Backported(Release) \in Copies BY <2>1 DEF Copies
    <3>2. \A q \in Packages : resolution[q] \in Dirs BY <1>2 DEF Packages
    <3> QED BY <2>1, <3>1, <3>2 DEF First, Views
  <2>2. CASE Release \notin Legacy
    BY <2>2, <1>2 DEF First
  <2> QED BY <2>1, <2>2
<1>6. First \in FirstViews
  BY <1>1, <1>4, <1>5 DEF FirstViews, Backports
<1>7. Second.tree \in Trees
  <2>1. \A q \in Packages : source[resolution[q]] \in Found
    BY <1>1, <1>2 DEF Packages, Found
  <2>2. Patched("compat", Release) \in Found
    BY <1>3 DEF Patched, Found
  <2>3. Second.tree = [q \in Packages |-> Patched("isolated",
            IF q = "runner" /\ Release \in Legacy THEN Patched("compat", Release) ELSE source[resolution[q]])]
    BY DEF Second, Copy
  <2>4. \A x \in Found : Patched("isolated", x) \in {"isolated"} \X Found BY DEF Patched
  <2> QED BY <2>1, <2>2, <2>3, <2>4 DEF Trees
<1>8. Second = Copy("isolated", Second.tree) BY DEF Second, Copy
<1> QED BY <1>1, <1>3, <1>4, <1>6, <1>7, <1>8

\* And what the second layer finds is what it makes its copy from.
LEMMA FirstServes ==
    ASSUME Sure, Undisturbed, Present, NEW q \in Packages
    PROVE  /\ Exists(First[q]) /\ ContentAt(First[q], q) \notin Alien
           /\ Second.tree[q] = Patched("isolated", ContentAt(First[q], q))
<1>1. /\ resolution["analyzer"] \in Dirs /\ resolution["runner"] \in Dirs
  BY FirstIs, ViewsAre
<1>2. Second.tree[q] = Patched("isolated",
          IF q = "runner" /\ Release \in Legacy THEN Patched("compat", Release) ELSE source[resolution[q]])
  BY DEF Second, Copy
<1>3. CASE q = "runner" /\ Release \in Legacy
  <2> DEFINE copy == Backported(Release)
  <2>1. First[q] = copy /\ copy \in DOMAIN copies BY <1>3, FirstIs DEF Present
  <2>2. copy \notin Dirs BY <1>3, BackportsAre DEF Backports
  <2>3. copies[copy] = copy.tree BY <2>1 DEF Sure, Calm
  <2>4. copy.tree["runner"] = Patched("compat", Release) BY DEF Backported, Copy
  <2>5. Patched("compat", Release) \notin Alien BY FirstIs, SourcesAssumption
  <2> HIDE DEF copy
  <2> QED BY <1>2, <1>3, <2>1, <2>2, <2>3, <2>4, <2>5 DEF Exists, ContentAt
<1>4. CASE ~(q = "runner" /\ Release \in Legacy)
  <2>1. First[q] = resolution[q] /\ resolution[q] \in Dirs
    BY <1>1, <1>4, FirstIs DEF Packages
  <2> QED BY <1>2, <1>4, <2>1 DEF Exists, ContentAt, Undisturbed
<1> QED BY <1>3, <1>4

\* A command that has read a package of the layer it collects.
Collected(w, package, tree) ==
    [w EXCEPT !.pc = IF w.todo = {package} THEN "publish" ELSE "collect",
              !.todo = @ \ {package}, !.tree = tree]

LEMMA CollectedIs ==
    ASSUME NEW w \in Works, NEW package \in w.todo, NEW tree,
           tree \in UNION {[D -> Pieces] : D \in SUBSET Packages},
           NEW c, c = Collected(w, package, tree)
    PROVE  /\ c \in Works /\ c.pc = IF w.todo = {package} THEN "publish" ELSE "collect"
           /\ c.mode = w.mode /\ c.layer = w.layer /\ c.input = w.input /\ c.view = w.view
           /\ c.todo = w.todo \ {package} /\ c.tree = tree /\ c.before = w.before /\ c.missed = w.missed
<1> DEFINE pc == IF w.todo = {package} THEN "publish" ELSE "collect"
           a == [w EXCEPT !.pc = pc, !.todo = w.todo \ {package}]
<1>1. pc \in Steps BY StepsAre
<1>2. w.todo \ {package} \in SUBSET Packages BY DEF Works
<1>3. c = [a EXCEPT !.tree = tree] BY DEF Works, Collected
<1> HIDE DEF pc
<1>4. /\ a \in Works /\ a.pc = pc /\ a.todo = w.todo \ {package}
      /\ a.mode = w.mode /\ a.layer = w.layer /\ a.input = w.input /\ a.view = w.view /\ a.before = w.before /\ a.missed = w.missed
  BY <1>1, <1>2 DEF Works
<1> HIDE DEF a
<1>5. c \in Works BY <1>3, <1>4 DEF Works
<1> QED BY <1>3, <1>4, <1>5 DEF Works, pc

\* The first layer reads the runner.
LEMMA CollectFirst ==
    ASSUME Sure, NEW p \in Commands, NEW w \in Works, Staged(w), Traced(w), Undisturbed => Agreed(w),
           w.pc = "collect", w.layer = "compat", NEW package \in w.todo,
           Exists(w.view[package]), Applies(w.layer, ContentAt(w.view[package], package)),
           NEW tree, tree = [q \in DOMAIN w.tree \cup {package} |->
                               IF q \in DOMAIN w.tree THEN w.tree[q]
                               ELSE Patched(w.layer, ContentAt(w.view[package], q))],
           Goes(p, Collected(w, package, tree)), UNCHANGED <<resolution, source, copies, selector, isolation, artifact, history>>
    PROVE  Sure'
<1>1. w.view \in Resolutions /\ w.todo = {"runner"} /\ w.tree = <<>> /\ package = "runner"
  BY DEF Staged, Copying
<1> DEFINE content == ContentAt(w.view["runner"], "runner")
           c == Collected(w, package, tree)
<1>2. content \in Legacy BY <1>1 DEF Applies
<1>3. tree = [q \in {"runner"} |-> Patched("compat", content)]
  <2>1. DOMAIN w.tree = {} BY <1>1
  <2>2. DOMAIN tree = {"runner"} BY <1>1, <2>1
  <2>3. tree["runner"] = Patched(w.layer, content) BY <1>1, <2>1
  <2>4. tree = [q \in DOMAIN tree |-> tree[q]] OBVIOUS
  <2> HIDE DEF content
  <2> QED BY <2>2, <2>3, <2>4
<1>4. tree \in UNION {[D -> Pieces] : D \in SUBSET Packages}
  <2>1. Patched("compat", content) \in Pieces BY <1>2 DEF Patched, Pieces
  <2>2. tree \in [{"runner"} -> Pieces] BY <1>3, <2>1
  <2> QED BY <2>2 DEF Packages
<1>5. content = source[w.view["runner"]]
  BY <1>1, ViewsAre DEF ContentAt
<1>6. /\ c \in Works /\ c.pc = IF w.todo = {package} THEN "publish" ELSE "collect"
      /\ c.layer = w.layer /\ c.view = w.view /\ c.tree = tree
  BY <1>4, CollectedIs
<1> HIDE DEF content, c
<1>7. /\ c \in Works /\ c.pc = "publish" /\ c.layer = "compat" /\ c.view = w.view /\ c.tree = tree
  BY <1>1, <1>6
<1>8. Own(c) = Backported(content)
  BY <1>3, <1>7 DEF Own, Backported
<1>9. Staged(c) /\ Traced(c)
  BY <1>1, <1>2, <1>7, <1>8, StepsAre DEF Staged, Traced, Copying, Layering, Loaded, Backports
<1>10. Undisturbed => Agreed(c)
  BY <1>5, <1>7, <1>8 DEF Agreed, Copying, Layering, Loaded, Release
<1>11. Goes(p, c) BY DEF c
<1> QED BY <1>7, <1>9, <1>10, <1>11, Alone

\* The second layer reads a package; its copy is traced to what was read.
LEMMA CollectSecond ==
    ASSUME Sure, NEW p \in Commands, NEW w \in Works, Staged(w), Traced(w), Undisturbed => Agreed(w),
           w.pc = "collect", w.layer = "isolated", NEW package \in w.todo,
           Exists(w.view[package]), Applies(w.layer, ContentAt(w.view[package], package)),
           NEW tree, tree = [q \in DOMAIN w.tree \cup {package} |->
                               IF q \in DOMAIN w.tree THEN w.tree[q]
                               ELSE Patched(w.layer, ContentAt(w.view[package], q))],
           Goes(p, Collected(w, package, tree)), UNCHANGED <<resolution, source, copies, selector, isolation, artifact, history>>
    PROVE  Sure'
<1>1. Traced(w) /\ (Undisturbed => Agreed(w)) OBVIOUS
<1>2. /\ w.mode = "isolated" /\ w.input \in FirstViews /\ w.view = w.input
      /\ w.tree \in [Packages \ w.todo -> {"isolated"} \X Found]
  BY DEF Staged, Copying, Layering
<1>3. w.todo \in SUBSET Packages BY DEF Works
<1> DEFINE content == ContentAt(w.view[package], package)
           c == Collected(w, package, tree)
<1>4. content \in Found BY <1>2, <1>3, FoundAt DEF Sure
<1>5. Patched("isolated", content) \in {"isolated"} \X Found BY <1>4 DEF Patched
<1>6. package \notin DOMAIN w.tree /\ DOMAIN w.tree = Packages \ w.todo BY <1>2
<1>7. /\ DOMAIN tree = (Packages \ w.todo) \cup {package}
      /\ tree[package] = Patched("isolated", content)
      /\ \A q \in Packages \ w.todo : tree[q] = w.tree[q]
  BY <1>6
<1>8. tree \in [Packages \ (w.todo \ {package}) -> {"isolated"} \X Found]
  <2>1. DOMAIN tree = Packages \ (w.todo \ {package}) BY <1>3, <1>7
  <2>2. \A q \in DOMAIN tree : tree[q] \in {"isolated"} \X Found BY <1>2, <1>5, <1>7
  <2>3. tree = [q \in DOMAIN tree |-> tree[q]] OBVIOUS
  <2> QED BY <2>1, <2>2, <2>3
<1>9. tree \in UNION {[D -> Pieces] : D \in SUBSET Packages}
  <2>1. tree \in [Packages \ (w.todo \ {package}) -> Pieces] BY <1>8 DEF Pieces
  <2> QED BY <2>1
<1>10. Goes(p, c) OBVIOUS
<1>11. /\ c \in Works /\ c.pc = IF w.todo = {package} THEN "publish" ELSE "collect"
       /\ c.mode = w.mode /\ c.layer = w.layer /\ c.input = w.input /\ c.view = w.view
       /\ c.todo = w.todo \ {package} /\ c.tree = tree /\ c.before = w.before /\ c.missed = w.missed
  BY <1>9, CollectedIs
<1> HIDE DEF c
<1>12. Staged(c)
  <2>1. c.tree \in [Packages \ (IF c.pc = "collect" THEN c.todo ELSE {}) -> {"isolated"} \X Found]
    BY <1>8, <1>11
  <2> QED BY <1>2, <1>11, <2>1, StepsAre DEF Staged, Copying, Layering, Loaded
<1>13. Traced(c)
  BY <1>1, <1>2, <1>6, <1>7, <1>11 DEF Traced, Was, Layering, Copying
<1>14. Undisturbed => Agreed(c)
  <2> SUFFICES ASSUME Undisturbed PROVE Agreed(c) OBVIOUS
  <2>1. c.input = First /\ Present BY <1>1, <1>11 DEF Agreed, Layering, Copying
  <2>2. tree[package] = Second.tree[package] BY <1>2, <1>3, <1>7, <1>11, <2>1, FirstServes
  <2>3. \A q \in DOMAIN w.tree : w.tree[q] = Second.tree[q] BY <1>1 DEF Agreed, Layering, Copying
  <2>4. \A q \in DOMAIN c.tree : c.tree[q] = Second.tree[q] BY <1>6, <1>7, <1>11, <2>2, <2>3
  <2> QED BY <1>11, <2>1, <2>4 DEF Agreed, Layering, Copying, Loaded
<1> QED BY <1>10, <1>11, <1>12, <1>13, <1>14, Alone

LEMMA CollectKeeps == ASSUME Sure, NEW p \in Commands, Collect(p) PROVE Sure'
<1> DEFINE w == proc[p]
<1>1. w \in Works /\ Staged(w) /\ Traced(w) /\ (Undisturbed => Agreed(w)) /\ w.pc = "collect"
  BY Working DEF Collect, On
<1>2. w.layer \in {"compat", "isolated"} BY <1>1 DEF Staged, Copying, Layers
<1>3. PICK package \in w.todo :
        Goes(p, IF ~Exists(w.view[package]) \/ ~Applies(w.layer, ContentAt(w.view[package], package))
                THEN Failed(w)
                ELSE [w EXCEPT !.pc = IF w.todo = {package} THEN "publish" ELSE "collect",
                               !.todo = @ \ {package},
                               !.tree = [q \in DOMAIN @ \cup {package} |->
                                          IF q \in DOMAIN @ THEN @[q]
                                          ELSE Patched(w.layer, ContentAt(w.view[package], q))]])
  BY DEF Collect
<1>4. CASE Exists(w.view[package]) /\ Applies(w.layer, ContentAt(w.view[package], package))
  <2> DEFINE tree == [q \in DOMAIN w.tree \cup {package} |->
                        IF q \in DOMAIN w.tree THEN w.tree[q]
                        ELSE Patched(w.layer, ContentAt(w.view[package], q))]
  <2>1. Goes(p, Collected(w, package, tree)) BY <1>3, <1>4 DEF Collected
  <2> HIDE DEF w
  <2>2. CASE w.layer = "compat" BY <1>1, <1>4, <2>1, <2>2, CollectFirst DEF Collect
  <2>3. CASE w.layer = "isolated" BY <1>1, <1>4, <2>1, <2>3, CollectSecond DEF Collect
  <2> QED BY <1>2, <2>2, <2>3
<1>5. CASE ~(Exists(w.view[package]) /\ Applies(w.layer, ContentAt(w.view[package], package)))
  <2>1. Goes(p, Failed(w)) BY <1>3, <1>5
  <2>2. ~Undisturbed
    <3> SUFFICES ASSUME Undisturbed PROVE FALSE OBVIOUS
    <3>1. Agreed(w) /\ w.todo \in SUBSET Packages BY <1>1 DEF Works
    <3>2. CASE w.layer = "compat"
      <4>1. w.view = resolution /\ Release \in Legacy /\ package = "runner"
        BY <1>1, <3>1, <3>2 DEF Agreed, Staged, Copying
      <4>2. resolution["runner"] \in Dirs BY FirstIs, ViewsAre
      <4> QED BY <1>5, <3>2, <4>1, <4>2 DEF Exists, Applies, ContentAt, Release
    <3>3. CASE w.layer = "isolated"
      <4>1. w.view = First /\ Present
        BY <1>1, <3>1, <3>3 DEF Agreed, Staged, Copying, Layering
      <4> QED BY <1>5, <3>1, <3>3, <4>1, FirstServes DEF Applies
    <3> QED BY <1>2, <3>2, <3>3
  <2> HIDE DEF w
  <2> QED BY <2>1, <2>2, FailedIs, Alone DEF Collect
<1> QED BY <1>4, <1>5

\* Where a receipt is reused, something is selected.
LEMMA ReuseSelects ==
    ASSUME Sure, NEW input, ReceiptReusable(input)
    PROVE  selector["isolated"] # Absent
<1>1. isolation \in Receipts /\ Selector \in isolation.outputs
  BY DEF Sure, Kept, ReceiptReusable
<1>2. PICK tree \in Trees : isolation.copy = Copy("isolated", tree) BY <1>1 DEF Receipts
<1>3. selector["isolated"] = AllIn(Copy("isolated", tree))
  BY <1>1, <1>2 DEF Sure, Evident, ReceiptReusable
<1> QED BY <1>2, <1>3, IsolatedAre, ViewsAre

(* A receipt that would be reused stands for what preparing again would      *)
(* give, if no stamp in it has missed a write.                               *)
LEMMA ReuseIs ==
    ASSUME Sure, NEW input \in FirstViews, ReceiptReusable(input), isolation.missed = {},
           NEW tree, tree = [q \in Packages |-> Patched("isolated", ContentAt(input[q], q))],
           NEW copy, copy = Copy("isolated", tree)
    PROVE  /\ copy \in DOMAIN copies /\ copies[copy] = tree
           /\ selector["isolated"] = AllIn(copy)
<1>1. /\ isolation \in Receipts /\ isolation.input = input /\ isolation.sources = Places(input)
      /\ isolation.outputs = {isolation.copy, Selector}
  BY DEF Sure, Kept, ReceiptReusable
<1>2. PICK held \in Trees : isolation.copy = Copy("isolated", held)
  BY <1>1 DEF Receipts
<1>3. isolation.copy.tree = held /\ held \in [Packages -> {"isolated"} \X Found]
  BY <1>2, IsolatedAre DEF Trees
<1>4. \A q \in Packages : held[q] = Patched("isolated", ContentAt(input[q], q))
  BY <1>1, <1>3 DEF Sure, Evident, Was, Places, ReceiptReusable
<1>5. held = tree
  BY <1>3, <1>4
<1>6. isolation.copy = copy /\ isolation.copy \in isolation.outputs /\ Selector \in isolation.outputs
  BY <1>1, <1>2, <1>5
<1>7. /\ copy \in DOMAIN copies /\ copies[copy] = tree /\ selector["isolated"] = AllIn(copy)
  BY <1>3, <1>5, <1>6 DEF Sure, Evident, ReceiptReusable
<1> QED BY <1>7

LEMMA ReuseKeeps == ASSUME Sure, NEW p \in Commands, Reuse(p) PROVE Sure'
<1> DEFINE w == proc[p]
<1>1. w \in Works /\ Staged(w) /\ Traced(w) /\ (Undisturbed => Agreed(w)) /\ w.pc = "reuse"
  BY Working DEF Reuse, On
<1>2. w.mode = "isolated" /\ w.view = w.input /\ w.input \in FirstViews BY <1>1 DEF Staged
<1>3. CASE ReceiptReusable(w.input)
  <2> DEFINE c == [w EXCEPT !.pc = "load", !.layer = "isolated"]
  <2>1. Goes(p, c) BY <1>3 DEF Reuse
  <2>2. selector["isolated"] # Absent BY <1>3, ReuseSelects
  <2> HIDE DEF w
  <2>3. c \in Works BY <1>1, StepsAre DEF Works
  <2>4. c.pc = "load" /\ c.layer = "isolated" /\ c.mode = w.mode BY <1>1 DEF Works
  <2> HIDE DEF c
  <2>5. Staged(c) /\ Traced(c)
    BY <1>2, <2>4 DEF Staged, Traced, Copying, Layering, Loaded
  <2>6. "isolated" # Absent BY SourcesAssumption, StepsAre
  <2>7. Undisturbed => Agreed(c)
    BY <2>2, <2>4, <2>6 DEF Agreed, Copying, Layering, Loaded
  <2> QED BY <2>1, <2>3, <2>5, <2>7, Alone DEF Reuse
<1>4. CASE ~ReceiptReusable(w.input)
  <2> DEFINE before == IF \A place \in Places(w.input) : Exists(place) THEN Places(w.input) ELSE {}
             d == Collecting("isolated", Packages, w)
             c == [d EXCEPT !.before = before]
  <2>1. Goes(p, c) BY <1>4 DEF Reuse
  <2>2. before \in SUBSET (Dirs \cup Copies)
    BY <1>2, ViewsAre DEF Places, Views
  <2> HIDE DEF before, w
  <2>3. /\ d \in Works /\ d.pc = "collect" /\ d.mode = w.mode /\ d.layer = "isolated"
        /\ d.input = w.input /\ d.view = w.view /\ d.todo = Packages /\ d.tree = <<>>
    BY <1>1, CollectingIs, StepsAre
  <2> HIDE DEF d
  <2>4. /\ c \in Works /\ c.pc = "collect" /\ c.mode = w.mode /\ c.layer = "isolated"
        /\ c.input = w.input /\ c.view = w.view /\ c.todo = Packages /\ c.tree = <<>>
    BY <2>2, <2>3 DEF Works
  <2> HIDE DEF c
  <2>5. c.tree \in [Packages \ Packages -> {"isolated"} \X Found] /\ DOMAIN c.tree = {}
    BY <2>4
  <2>6. Staged(c) /\ Traced(c)
    BY <1>2, <2>4, <2>5, StepsAre DEF Staged, Traced, Copying, Layering, Loaded
  <2>7. Undisturbed => Agreed(c)
    BY <1>1, <2>4, <2>5 DEF Agreed, Copying, Layering, Loaded
  <2> QED BY <2>1, <2>4, <2>6, <2>7, Alone DEF Reuse
<1> QED BY <1>3, <1>4

LEMMA StampOutputsKeeps == ASSUME Sure, NEW p \in Commands, StampOutputs(p) PROVE Sure'
<1> DEFINE w == proc[p]
           outputs == {place \in {Mine(p), Selector} : place = Selector \/ place \in DOMAIN copies}
           c == [w EXCEPT !.pc = "mint", !.outputs = outputs]
<1>1. w \in Works /\ Staged(w) /\ Traced(w) /\ (Undisturbed => Agreed(w)) /\ w.pc = "stamp"
  BY Working DEF StampOutputs, On
<1>2. Goes(p, c) BY DEF StampOutputs
<1>3. outputs \in SUBSET (Copies \cup {Selector})
  <2>1. w.layer = "isolated" /\ w.tree \in Trees
    BY <1>1 DEF Staged, Layering, Copying, Trees
  <2>2. Mine(p) \in Copies BY <2>1, IsolatedAre DEF Mine
  <2> QED BY <2>2
<1> HIDE DEF outputs, w
<1>4. c \in Works BY <1>1, <1>3, StepsAre DEF Works
<1>5. /\ c.pc = "mint" /\ c.mode = w.mode /\ c.layer = w.layer /\ c.input = w.input /\ c.view = w.view
      /\ c.tree = w.tree /\ c.before = w.before /\ c.missed = w.missed
  BY <1>1 DEF Works
<1> HIDE DEF c
<1>6. Staged(c) /\ Traced(c)
  BY <1>1, <1>5 DEF Staged, Traced, Copying, Layering, Loaded, Own
<1>7. Undisturbed => Agreed(c)
  BY <1>1, <1>5 DEF Agreed, Copying, Layering, Loaded, Own
<1> QED BY <1>2, <1>4, <1>6, <1>7, Alone DEF StampOutputs

\* What a command has in hand that has loaded a workspace.
Having(w, view) ==
    [Resting EXCEPT !.pc = "key", !.mode = w.mode, !.packages = view, !.dirs = resolution]

LEMMA HavingIs ==
    ASSUME NEW w \in Works, NEW view \in Views, resolution \in Resolutions
    PROVE  /\ Having(w, view) \in Works /\ Having(w, view).pc = "key" /\ Having(w, view).mode = w.mode
           /\ Having(w, view).packages = view /\ Having(w, view).dirs = resolution
<1> DEFINE a == [Resting EXCEPT !.pc = "key", !.mode = w.mode]
           d == [a EXCEPT !.packages = view]
<1>1. w.mode \in {"default", "isolated"} BY DEF Works
<1>2. a \in Works BY <1>1, StepsAre, StartsIs
<1>3. a.pc = "key" /\ a.mode = w.mode BY DEF Resting
<1>4. Having(w, view) = [d EXCEPT !.dirs = resolution] BY DEF Having
<1> HIDE DEF a
<1>5. d \in Works /\ d.pc = "key" /\ d.mode = w.mode /\ d.packages = view BY <1>2, <1>3 DEF Works
<1> HIDE DEF d
<1>6. Having(w, view) \in Works BY <1>4, <1>5 DEF Works
<1> QED BY <1>4, <1>5, <1>6 DEF Works

LEMMA LoadsKeeps == ASSUME Sure, NEW p \in Commands, LoadWorkspace(p) PROVE Sure'
<1> DEFINE w == proc[p]
           view == IF w.layer = Absent THEN resolution ELSE selector[w.layer]
<1>1. w \in Works /\ Staged(w) /\ Traced(w) /\ (Undisturbed => Agreed(w)) /\ w.pc = "load"
  BY Working DEF LoadWorkspace, On
<1>2. w.layer \in {"compat", "isolated", Absent} /\ (w.layer = "isolated" <=> w.mode = "isolated")
      /\ w.mode \in {"default", "isolated"}
  BY <1>1 DEF Works, Staged, Layers
<1>3. Absent # "compat" /\ Absent # "isolated" BY SourcesAssumption, StepsAre
<1>4. resolution \in Resolutions /\ resolution \in FirstViews /\ resolution # Absent
  BY ViewsAre DEF Sure, Kept
<1>5. view # Absent => view \in IF w.mode = "isolated" THEN SecondViews ELSE FirstViews
  BY <1>2, <1>3, <1>4 DEF Sure, Kept
<1>6. CASE view # Absent
  <2> DEFINE c == Having(w, view)
  <2>1. Goes(p, c) BY <1>6 DEF LoadWorkspace, Having
  <2>2. view \in Views BY <1>5, <1>6, ViewsAre
  <2>3. w.mode = "isolated" => view = selector["isolated"] BY <1>2, <1>3
  <2>4. w.mode = "default" => view = IF w.layer = Absent THEN resolution ELSE selector["compat"]
    BY <1>2
  <2> HIDE DEF view, w
  <2>5. c \in Works /\ c.pc = "key" /\ c.mode = w.mode /\ c.packages = view /\ c.dirs = resolution
    BY <1>1, <1>4, <2>2, HavingIs
  <2> HIDE DEF c
  <2>6. Staged(c) /\ Traced(c)
    BY <1>4, <1>5, <1>6, <2>3, <2>5 DEF Staged, Traced, Copying, Layering, Loaded
  <2>7. Undisturbed => Agreed(c)
    <3> SUFFICES ASSUME Undisturbed PROVE Agreed(c) OBVIOUS
    <3>1. Agreed(w) BY <1>1
    <3>2. w.mode = "isolated" => c.packages = AllIn(Second)
      BY <1>6, <2>3, <2>5 DEF Sure, Calm
    <3>3. w.mode = "default" =>
             c.packages = First /\ (Release \in Legacy => selector["compat"] # Absent)
      <4>1. CASE w.layer = Absent
        BY <1>1, <1>2, <2>4, <2>5, <3>1, <4>1 DEF Agreed, First
      <4>2. CASE w.layer # Absent
        BY <1>6, <2>4, <2>5, <4>2 DEF Sure, Calm
      <4> QED BY <4>1, <4>2
    <3> QED BY <1>2, <2>5, <3>2, <3>3 DEF Agreed, Copying, Layering, Loaded
  <2> QED BY <2>1, <2>5, <2>6, <2>7, Alone DEF LoadWorkspace
<1>7. CASE view = Absent
  <2>1. Goes(p, Failed(w)) BY <1>7 DEF LoadWorkspace
  <2>2. ~Undisturbed
    BY <1>1, <1>2, <1>4, <1>7 DEF Agreed
  <2> HIDE DEF view, w
  <2> QED BY <2>1, <2>2, FailedIs, Alone DEF LoadWorkspace
<1> QED BY <1>6, <1>7

LEMMA KeyKeeps == ASSUME Sure, NEW p \in Commands, Key(p) PROVE Sure'
<1> DEFINE w == proc[p]
           key == [identity |-> Identity(w.packages), lock |-> resolution,
                   specs |-> [q \in Packages |-> Pubspec[source[w.dirs[q]]]]]
           c == [w EXCEPT !.pc = "check", !.key = key]
<1>1. w \in Works /\ Staged(w) /\ Traced(w) /\ (Undisturbed => Agreed(w)) /\ w.pc = "key"
  BY Working DEF Key, On
<1>2. Goes(p, c) BY DEF Key
<1>3. /\ w.dirs \in Resolutions
      /\ w.packages \in IF w.mode = "isolated" THEN SecondViews ELSE FirstViews
      /\ w.mode = "isolated" => selector["isolated"] # Absent
  BY <1>1 DEF Staged, Loaded
<1>4. key \in Keys
  <2>1. w.packages \in Views BY <1>3, ViewsAre
  <2>2. Identity(w.packages) \in Copies \cup {Absent}
    BY <2>1 DEF Identity, Views, Packages
  <2>3. \A q \in Packages : source[w.dirs[q]] \in Texts
    BY <1>3, ViewsAre DEF Sure, Kept, Packages
  <2>4. [q \in Packages |-> Pubspec[source[w.dirs[q]]]] \in [Packages -> {Pubspec[t] : t \in Texts}]
    BY <2>3
  <2>5. resolution \in Resolutions BY DEF Sure, Kept
  <2> HIDE DEF w
  <2> QED BY <2>2, <2>4, <2>5 DEF Keys
<1>5. key.identity = Identity(w.packages) OBVIOUS
<1> HIDE DEF key, w
<1>6. c \in Works BY <1>1, <1>4, StepsAre DEF Works
<1>7. /\ c.pc = "check" /\ c.mode = w.mode /\ c.packages = w.packages /\ c.dirs = w.dirs /\ c.key = key
  BY <1>1 DEF Works
<1> HIDE DEF c
<1>8. Staged(c) /\ Traced(c)
  BY <1>3, <1>4, <1>5, <1>7 DEF Staged, Traced, Copying, Layering, Loaded
<1>9. Undisturbed => Agreed(c)
  BY <1>1, <1>7 DEF Agreed, Copying, Layering, Loaded
<1> QED BY <1>2, <1>6, <1>8, <1>9, Alone DEF Key

LEMMA CheckKeeps == ASSUME Sure, NEW p \in Commands, Check(p) PROVE Sure'
<1> DEFINE w == proc[p]
<1>1. w \in Works /\ Staged(w) /\ Traced(w) /\ (Undisturbed => Agreed(w)) /\ w.pc = "check"
  BY Working DEF Check, On
<1>2. CASE Acceptable(p)
  <2>1. Goes(p, Resting) BY <1>2 DEF Check
  <2>2. Agreed(Resting) BY RestingIs DEF Agreed, Copying, Layering, Loaded
  <2> QED BY <2>1, <2>2, RestingIs, Alone DEF Check
<1>3. CASE ~Acceptable(p)
  <2> DEFINE c == [w EXCEPT !.pc = "compile"]
  <2>1. Goes(p, c) BY <1>3 DEF Check
  <2>2. /\ c \in Works /\ c.pc = "compile" /\ c.mode = w.mode /\ c.packages = w.packages
        /\ c.dirs = w.dirs /\ c.key = w.key
    BY <1>1, MovesTo, StepsAre
  <2> HIDE DEF w, c
  <2>3. Staged(c) /\ Traced(c)
    BY <1>1, <2>2 DEF Staged, Traced, Copying, Layering, Loaded
  <2>4. Undisturbed => Agreed(c)
    BY <1>1, <2>2 DEF Agreed, Copying, Layering, Loaded
  <2> QED BY <2>1, <2>2, <2>3, <2>4, Alone DEF Check
<1> QED BY <1>2, <1>3

----------------------------------------------------------------------------
(* Steps that add a copy or select one take nothing from what others have.   *)

LEMMA WasStays ==
    ASSUME NEW place, NEW q, NEW content, Was(place, q, content),
           place \in Dirs => source'[place] = source[place],
           place \in DOMAIN copies => place \in DOMAIN copies' /\ copies'[place] = copies[place]
    PROVE  Was(place, q, content)'
BY DEF Was, Exists, ContentAt

LEMMA StagedStays ==
    ASSUME NEW c, Staged(c), selector["isolated"] # Absent => selector'["isolated"] # Absent
    PROVE  Staged(c)'
BY DEF Staged

LEMMA TracedStays ==
    ASSUME NEW c, Traced(c), source' = source,
           \A copy \in DOMAIN copies : copy \in DOMAIN copies' /\ copies'[copy] = copies[copy]
    PROVE  Traced(c)'
BY WasStays DEF Traced

LEMMA AgreedStays ==
    ASSUME NEW c, Agreed(c), UNCHANGED <<resolution, source>>, DOMAIN copies \subseteq DOMAIN copies',
           Release \in Legacy /\ selector["compat"] # Absent => selector'["compat"] # Absent,
           selector["isolated"] # Absent => selector'["isolated"] # Absent
    PROVE  Agreed(c)'
<1>1. First' = First /\ Second' = Second /\ Release' = Release
  BY DEF First, Second, Release
<1>2. Present => Present' BY <1>1 DEF Present
<1> QED BY <1>1, <1>2 DEF Agreed

LEMMA EvidentStays ==
    ASSUME Evident, isolation' = isolation, source' = source,
           \A copy \in DOMAIN copies : copy \in DOMAIN copies' /\ copies'[copy] = copies[copy],
           selector'["isolated"] = selector["isolated"]
    PROVE  Evident'
BY WasStays DEF Evident

LEMMA RenameKeeps == ASSUME Sure, NEW p \in Commands, Rename(p) PROVE Sure'
<1> DEFINE w == proc[p]
           c == [w EXCEPT !.pc = "validate"]
           own == Own(w)
<1>1. w \in Works /\ Staged(w) /\ Traced(w) /\ (Undisturbed => Agreed(w)) /\ w.pc = "rename"
  BY Working DEF Rename, On
<1>2. proc' = [proc EXCEPT ![p] = c] BY DEF Rename, Goes
<1>3. copies' = [copy \in DOMAIN copies \cup {own} |-> IF copy \in DOMAIN copies THEN copies[copy] ELSE copy.tree]
  BY DEF Rename, Mine, Own
<1>4. own.tree = w.tree /\ own.layer = w.layer BY DEF Own, Copy
<1>5. w.layer = "compat" => own \in Backports BY <1>1 DEF Staged, Copying
<1>6. w.layer = "isolated" => w.tree \in Trees BY <1>1 DEF Staged, Copying, Layering, Trees
<1>7. w.layer \in {"compat", "isolated"} BY <1>1 DEF Staged, Copying, Layers
<1>8. own \in Copies
  BY <1>5, <1>6, <1>7, BackportsAre, IsolatedAre DEF Own
<1>9. own.tree \in [DOMAIN own.tree -> Found \cup ({"isolated"} \X Found)]
  <2>1. {"compat"} \X Legacy \subseteq Found BY SourcesAssumption DEF Found
  <2>2. CASE w.layer = "compat" BY <1>5, <2>1, <2>2, BackportsAre
  <2>3. CASE w.layer = "isolated" BY <1>4, <1>6, <2>3 DEF Trees
  <2> QED BY <1>7, <2>2, <2>3
<1>10. own \in Backports => own.tree \in [{"runner"} -> Found]
  <2>1. {"compat"} \X Legacy \subseteq Found BY SourcesAssumption DEF Found
  <2> QED BY <2>1, BackportsAre
<1>11. /\ c \in Works /\ c.pc = "validate"
       /\ c.mode = w.mode /\ c.layer = w.layer /\ c.input = w.input /\ c.view = w.view
       /\ c.tree = w.tree /\ c.before = w.before /\ c.missed = w.missed
  BY <1>1, MovesTo, StepsAre
<1>12. Own(c) = own BY <1>11 DEF Own
<1>13. UNCHANGED <<resolution, source, selector, isolation, artifact, history>> BY DEF Rename
<1> HIDE DEF c, own, w
<1>14. \A copy \in DOMAIN copies : copy \in DOMAIN copies' /\ copies'[copy] = copies[copy]
  BY <1>3
<1>15. own \in DOMAIN copies' /\ DOMAIN copies \subseteq DOMAIN copies' BY <1>3
<1>16. Staged(c) /\ Traced(c)
  BY <1>1, <1>11 DEF Staged, Traced, Copying, Layering, Loaded, Own
<1>17. proc \in [Commands -> Works] BY DEF Sure, Kept
<1>18. proc' \in [Commands -> Works] /\ \A q \in Commands : proc'[q] = IF q = p THEN c ELSE proc[q]
  BY <1>2, <1>11, <1>17
<1>19. ASSUME NEW q \in Commands PROVE Staged(proc[q])' /\ Traced(proc[q])'
  <2>1. PICK d : d = proc'[q] /\ Staged(d) /\ Traced(d) BY <1>16, <1>18, Working
  <2>2. Staged(d)' /\ Traced(d)' BY <1>13, <1>14, <2>1, StagedStays, TracedStays
  <2>3. Staged(proc[q])' BY <2>1, <2>2 DEF Staged
  <2>4. Traced(proc[q])' BY <2>1, <2>2 DEF Traced, Was, Exists, ContentAt
  <2> QED BY <2>3, <2>4
<1>20. Kept'
  <2>1. DOMAIN copies' \subseteq Copies BY <1>3, <1>8 DEF Sure, Kept
  <2>2. ASSUME NEW copy \in DOMAIN copies'
        PROVE  /\ copies'[copy] \in [DOMAIN copy.tree -> Found \cup ({"isolated"} \X Found)]
               /\ copy \in Backports => copies'[copy] \in [{"runner"} -> Found]
    <3>1. CASE copy \in DOMAIN copies BY <1>14, <3>1 DEF Sure, Kept
    <3>2. CASE copy \notin DOMAIN copies BY <1>3, <1>9, <1>10, <3>2
    <3> QED BY <3>1, <3>2
  <2>3. \A q \in Commands : Staged(proc[q])' BY <1>19
  <2> QED BY <1>13, <1>18, <2>1, <2>2, <2>3 DEF Sure, Kept, Backports
<1>21. Evident' BY <1>13, <1>14, EvidentStays DEF Sure
<1>22. Recorded' BY <1>13 DEF Sure, Recorded
<1>23. Calm'
  <2> SUFFICES ASSUME Undisturbed' PROVE Calm' BY DEF Calm
  <2>1. Undisturbed BY <1>13 DEF Undisturbed
  <2>2. First' = First /\ Second' = Second /\ Release' = Release
    BY <1>13 DEF First, Second, Release
  <2>3. Present => Present' BY <1>15, <2>2 DEF Present
  <2>4. \A copy \in DOMAIN copies' : copies'[copy] = copy.tree
    BY <1>3, <2>1 DEF Sure, Calm
  <2>5. ASSUME NEW q \in Commands PROVE Agreed(proc[q])'
    <3>1. CASE q # p
      <4>1. PICK d : d = proc'[q] /\ Agreed(d) BY <1>18, <2>1, <3>1, Working
      <4>2. Agreed(d)' BY <1>13, <1>15, <4>1, AgreedStays
      <4> QED BY <4>1, <4>2 DEF Agreed
    <3>2. CASE q = p
      <4>1. PICK d : d = w /\ Agreed(d) BY <1>1, <2>1
      <4>2. Agreed(d)' BY <1>13, <1>15, <4>1, AgreedStays
      <4>3. proc'[q] = c BY <1>18, <3>2
      <4>4. Own(proc[q])' \in DOMAIN copies' BY <1>12, <1>15, <4>3 DEF Own
      <4> QED BY <1>1, <1>11, <4>1, <4>2, <4>3, <4>4 DEF Agreed, Copying, Layering, Loaded, Own
    <3> QED BY <3>1, <3>2
  <2> QED BY <1>13, <1>15, <2>1, <2>2, <2>3, <2>4, <2>5 DEF Sure, Calm
<1> QED BY <1>18, <1>19, <1>20, <1>21, <1>22, <1>23 DEF Sure

\* A step of one command that changes the selection of the first layer.
LEMMA Selecting ==
    ASSUME Sure, NEW p \in Commands, NEW c \in Works, Goes(p, c),
           UNCHANGED <<resolution, source, copies, isolation, artifact, history>>,
           selector' \in [Layers -> Views \cup {Absent}], selector'["isolated"] = selector["isolated"],
           selector'["compat"] # Absent => selector'["compat"] \in FirstViews,
           Staged(c), Traced(c),
           Undisturbed => /\ Release \in Legacy /\ selector["compat"] # Absent => selector'["compat"] # Absent
                          /\ selector'["compat"] # Absent =>
                                selector'["compat"] = First /\ Release \in Legacy /\ Present
                          /\ Agreed(c)'
    PROVE  Sure'
<1>1. proc' = [proc EXCEPT ![p] = c] /\ proc \in [Commands -> Works] BY DEF Goes, Sure, Kept
<1>2. proc' \in [Commands -> Works] /\ \A q \in Commands : proc'[q] = IF q = p THEN c ELSE proc[q]
  BY <1>1
<1>3. ASSUME NEW q \in Commands PROVE Staged(proc[q])' /\ Traced(proc[q])'
  <2>1. PICK d : d = proc'[q] /\ Staged(d) /\ Traced(d) BY <1>2, Working
  <2>2. Staged(d)' /\ Traced(d)' BY <2>1, StagedStays, TracedStays
  <2>3. Staged(proc[q])' BY <2>1, <2>2 DEF Staged
  <2>4. Traced(proc[q])' BY <2>1, <2>2 DEF Traced, Was, Exists, ContentAt
  <2> QED BY <2>3, <2>4
<1>4. Kept'
  <2>1. \A q \in Commands : Staged(proc[q])' BY <1>3
  <2> QED BY <1>2, <2>1 DEF Sure, Kept, Backports
<1>5. Evident' BY EvidentStays DEF Sure
<1>6. Recorded' BY DEF Sure, Recorded
<1>7. Calm'
  <2> SUFFICES ASSUME Undisturbed' PROVE Calm' BY DEF Calm
  <2>1. Undisturbed BY DEF Undisturbed
  <2>2. First' = First /\ Second' = Second /\ Release' = Release /\ Present' = Present
    BY DEF First, Second, Release, Present
  <2>3. ASSUME NEW q \in Commands PROVE Agreed(proc[q])'
    <3>1. CASE q # p
      <4>1. PICK d : d = proc'[q] /\ Agreed(d) BY <1>2, <2>1, <3>1, Working
      <4>2. Agreed(d)' BY <2>1, <4>1, AgreedStays
      <4> QED BY <4>1, <4>2 DEF Agreed
    <3>2. CASE q = p
      <4>1. proc'[q] = c /\ Agreed(c)' BY <1>2, <2>1, <3>2
      <4> QED BY <4>1 DEF Agreed
    <3> QED BY <3>1, <3>2
  <2> QED BY <2>1, <2>2, <2>3 DEF Sure, Calm
<1> QED BY <1>2, <1>3, <1>4, <1>5, <1>6, <1>7 DEF Sure

\* Where the first layer is left.
LEMMA LeaveIs ==
    ASSUME NEW w \in Works, w.view \in FirstViews, NEW selected \in {Absent, "compat"},
           NEW c, c = Leave(w, selected)
    PROVE  /\ c \in Works /\ c.mode = w.mode
           /\ w.mode = "isolated" => c.pc = "reuse" /\ c.input = w.view
           /\ w.mode # "isolated" => c.pc = "load" /\ c.layer = selected
           /\ Staged(c) /\ Traced(c)
<1>1. Absent # "compat" /\ Absent # "isolated" BY SourcesAssumption, StepsAre
<1>2. CASE w.mode = "isolated"
  <2>1. w.view \in Views BY ViewsAre
  <2>2. c = [w EXCEPT !.pc = "reuse", !.input = w.view] BY <1>2 DEF Leave
  <2>3. c \in Works /\ c.mode = w.mode /\ c.pc = "reuse" /\ c.input = w.view /\ c.view = w.view
    BY <2>1, <2>2, StepsAre DEF Works
  <2>4. Staged(c) /\ Traced(c) BY <1>2, <2>3 DEF Staged, Traced, Copying, Layering, Loaded
  <2> QED BY <1>2, <2>3, <2>4
<1>3. CASE w.mode # "isolated"
  <2>1. c = [w EXCEPT !.pc = "load", !.layer = selected] BY <1>3 DEF Leave
  <2>2. selected \in Layers \cup {Absent} BY StepsAre
  <2>3. c \in Works /\ c.mode = w.mode /\ c.pc = "load" /\ c.layer = selected
    BY <2>1, <2>2, StepsAre DEF Works
  <2>4. Staged(c) /\ Traced(c) BY <1>1, <1>3, <2>3 DEF Staged, Traced, Copying, Layering, Loaded
  <2> QED BY <1>3, <2>3, <2>4
<1> QED BY <1>2, <1>3

LEMMA DropKeeps == ASSUME Sure, NEW p \in Commands, Drop(p) PROVE Sure'
<1> DEFINE w == proc[p]
           c == Leave(w, Absent)
<1>1. w \in Works /\ Staged(w) /\ Traced(w) /\ (Undisturbed => Agreed(w)) /\ w.pc = "drop"
  BY Working DEF Drop, On
<1>2. Goes(p, c) BY DEF Drop
<1>3. w.view \in FirstViews BY <1>1, ViewsAre DEF Staged
<1> HIDE DEF w
<1>4. PICK d \in Works :
         /\ Goes(p, d) /\ d.mode = w.mode
         /\ w.mode = "isolated" => d.pc = "reuse" /\ d.input = w.view
         /\ w.mode # "isolated" => d.pc = "load" /\ d.layer = Absent
         /\ Staged(d) /\ Traced(d)
  BY <1>1, <1>2, <1>3, LeaveIs
<1>5. selector' = [selector EXCEPT !["compat"] = Absent] /\ selector \in [Layers -> Views \cup {Absent}]
  BY DEF Drop, Sure, Kept
<1>6. /\ selector' \in [Layers -> Views \cup {Absent}]
      /\ selector'["isolated"] = selector["isolated"] /\ selector'["compat"] = Absent
  BY <1>5, StepsAre
<1>7. ASSUME Undisturbed PROVE Release \notin Legacy /\ Agreed(d)'
  <2>1. w.view = resolution /\ Release \notin Legacy BY <1>1, <1>7 DEF Agreed
  <2>2. Release' = Release /\ First' = w.view /\ Present'
    BY <2>1 DEF Drop, Release, First, Present
  <2>3. Absent # "compat" /\ Absent # "isolated" BY SourcesAssumption, StepsAre
  <2>4. Agreed(d)'
    BY <1>4, <2>1, <2>2, <2>3 DEF Agreed, Copying, Layering, Loaded
  <2> QED BY <2>1, <2>4
<1> QED BY <1>4, <1>6, <1>7, Selecting DEF Drop

(* A write takes a place out of what others have stamped.                    *)

\* Or it leaves the stamp as it was, and what is read from the place is in doubt.
Touched(place, w, c) == c = Forget(place, w) \/ c = Miss(place, w)

LEMMA ForgetIs ==
    ASSUME NEW place, NEW w \in Works, NEW c, Touched(place, w, c)
    PROVE  /\ c \in Works /\ c.pc = w.pc /\ c.mode = w.mode /\ c.layer = w.layer /\ c.input = w.input
           /\ c.view = w.view /\ c.todo = w.todo /\ c.tree = w.tree /\ c.packages = w.packages
           /\ c.dirs = w.dirs /\ c.key = w.key
           /\ c.before \ c.missed = (w.before \ w.missed) \ {place}
<1>1. PICK before, outputs, missed :
         /\ before \in SUBSET (Dirs \cup Copies) /\ outputs \in SUBSET (Copies \cup {Selector})
         /\ missed \in SUBSET (Dirs \cup Copies \cup {Selector})
         /\ before \ missed = (w.before \ w.missed) \ {place}
         /\ c = [w EXCEPT !.before = before, !.outputs = outputs, !.missed = missed]
  <2>1. CASE c = Forget(place, w)
    <3> DEFINE before == w.before \ {place}
               outputs == w.outputs \ {place}
               missed == w.missed \ {place}
    <3>1. c = [w EXCEPT !.before = before, !.outputs = outputs, !.missed = missed] BY <2>1 DEF Forget
    <3>2. /\ before \in SUBSET (Dirs \cup Copies) /\ outputs \in SUBSET (Copies \cup {Selector})
          /\ missed \in SUBSET (Dirs \cup Copies \cup {Selector})
      BY DEF Works
    <3>3. before \ missed = (w.before \ w.missed) \ {place} OBVIOUS
    <3> HIDE DEF before, outputs, missed
    <3> QED BY <3>1, <3>2, <3>3
  <2>2. CASE c = Miss(place, w)
    <3> DEFINE missed == w.missed \cup ({place} \cap (w.before \cup w.outputs))
    <3>1. c = [w EXCEPT !.missed = missed] BY <2>2 DEF Miss
    <3>2. /\ w.before \in SUBSET (Dirs \cup Copies) /\ w.outputs \in SUBSET (Copies \cup {Selector})
          /\ missed \in SUBSET (Dirs \cup Copies \cup {Selector})
      BY DEF Works
    <3>3. w.before \ missed = (w.before \ w.missed) \ {place} OBVIOUS
    <3> HIDE DEF missed
    <3>4. c = [w EXCEPT !.before = w.before, !.outputs = w.outputs, !.missed = missed] BY <3>1 DEF Works
    <3> QED BY <3>2, <3>3, <3>4
  <2> QED BY <2>1, <2>2 DEF Touched
<1>2. c \in Works BY <1>1 DEF Works
<1>3. c.before = before /\ c.missed = missed BY <1>1 DEF Works
<1>4. /\ c.pc = w.pc /\ c.mode = w.mode /\ c.layer = w.layer /\ c.input = w.input
      /\ c.view = w.view /\ c.todo = w.todo /\ c.tree = w.tree /\ c.packages = w.packages
      /\ c.dirs = w.dirs /\ c.key = w.key
  BY <1>1 DEF Works
<1> QED BY <1>1, <1>2, <1>3, <1>4

\* A command in order stays so when a write touches one of its stamps.
LEMMA ForgettingKeeps ==
    ASSUME NEW place, NEW w \in Works, NEW c, Touched(place, w, c)
    PROVE  /\ Staged(w) => Staged(c)
           /\ Traced(w) => Traced(c)
           /\ Agreed(w) => Agreed(c)
<1>1. /\ c.pc = w.pc /\ c.mode = w.mode /\ c.layer = w.layer /\ c.input = w.input
      /\ c.view = w.view /\ c.todo = w.todo /\ c.tree = w.tree /\ c.packages = w.packages
      /\ c.dirs = w.dirs /\ c.key = w.key /\ c.before \ c.missed \subseteq w.before \ w.missed
  <2>1. c.before \ c.missed = (w.before \ w.missed) \ {place} BY ForgetIs
  <2>2. c.before \ c.missed \subseteq w.before \ w.missed BY <2>1
  <2> QED BY <2>2, ForgetIs
<1>2. Own(c) = Own(w) BY <1>1 DEF Own
<1>3. Staged(w) => Staged(c) BY <1>1, <1>2 DEF Staged
<1>4. Traced(w) => Traced(c) BY <1>1 DEF Traced
<1>5. Agreed(w) => Agreed(c) BY <1>1, <1>2 DEF Agreed
<1> QED BY <1>3, <1>4, <1>5

LEMMA ForgetIsolationIs ==
    ASSUME Kept, NEW place, NEW r, r = ForgetIsolation(place) \/ r = MissIsolation(place), r # Absent
    PROVE  /\ isolation # Absent /\ r \in Receipts
           /\ r.input = isolation.input /\ r.copy = isolation.copy
           /\ r.outputs \subseteq isolation.outputs
           /\ r = ForgetIsolation(place) => place \notin r.outputs
           /\ r.sources \ r.missed = (isolation.sources \ isolation.missed) \ {place}
           /\ r.outputs \ r.missed = (isolation.outputs \ isolation.missed) \ {place}
<1>1. isolation # Absent /\ isolation \in Receipts BY DEF ForgetIsolation, MissIsolation, Kept
<1>2. CASE r = ForgetIsolation(place)
  <2>1. r = [isolation EXCEPT !.sources = isolation.sources \ {place},
                              !.outputs = isolation.outputs \ {place},
                              !.missed = isolation.missed \ {place}]
    BY <1>1, <1>2 DEF ForgetIsolation
  <2> QED BY <1>1, <2>1 DEF Receipts
<1>3. CASE r # ForgetIsolation(place)
  <2> DEFINE missed == isolation.missed \cup ({place} \cap (isolation.sources \cup isolation.outputs))
  <2>1. r = [isolation EXCEPT !.missed = missed]
    BY <1>1, <1>3 DEF MissIsolation
  <2>2. missed \in SUBSET (Dirs \cup Copies \cup {Selector})
    BY <1>1 DEF Receipts
  <2>3. /\ isolation.sources \ missed = (isolation.sources \ isolation.missed) \ {place}
        /\ isolation.outputs \ missed = (isolation.outputs \ isolation.missed) \ {place}
    OBVIOUS
  <2> HIDE DEF missed
  <2> QED BY <1>1, <1>3, <2>1, <2>2, <2>3 DEF Receipts
<1> QED BY <1>1, <1>2, <1>3

(* The first layer selects its copy.                                         *)
LEMMA SelectFirst == ASSUME Sure, NEW p \in Commands, Select(p), proc[p].layer = "compat" PROVE Sure'
<1> DEFINE w == proc[p]
           view == [q \in Packages |-> IF q \in DOMAIN w.tree THEN Own(w) ELSE w.view[q]]
           chosen == [w EXCEPT !.view = view]
<1>1. w \in Works /\ w.layer = "compat" /\ w.pc = "select" /\ Staged(w) /\ (Undisturbed => Agreed(w))
  BY Working DEF Select, On
<1>2. /\ Goes(p, Leave(chosen, "compat")) /\ selector' = [selector EXCEPT !["compat"] = view]
      /\ UNCHANGED <<resolution, source, copies, isolation, artifact, history>>
  <2>1. Own(w) = Mine(p) BY DEF Own, Mine
  <2> QED BY <1>1, <2>1 DEF Select
<1>3. \A q \in Packages : view[q] = IF q \in DOMAIN w.tree THEN Own(w) ELSE w.view[q]
  OBVIOUS
<1>4. view = [q \in Packages |-> view[q]] OBVIOUS
<1>5. chosen = [w EXCEPT !.view = view] OBVIOUS
<1> HIDE DEF w, view, chosen
<1>6. w.view \in Resolutions /\ Own(w) \in Backports BY <1>1 DEF Staged, Copying
<1>7. Own(w).tree = w.tree BY DEF Own, Copy
<1>8. DOMAIN w.tree = {"runner"} BY <1>6, <1>7, BackportsAre
<1>9. view["runner"] = Own(w) /\ view["analyzer"] = w.view["analyzer"] BY <1>8, <1>3 DEF Packages
<1>10. view \in FirstViews
  <2>1. Own(w) \in Copies BY <1>6, BackportsAre
  <2>2. \A q \in Packages : view[q] \in Dirs \cup Copies
    BY <1>6, <1>9, <2>1, ViewsAre DEF Packages
  <2>3. view \in Views BY <1>4, <2>2 DEF Views
  <2> QED BY <1>6, <1>9, <2>3 DEF FirstViews
<1>11. chosen \in Works /\ chosen.view = view /\ chosen.mode = w.mode
  <2>1. view \in Views BY <1>10, ViewsAre
  <2> QED BY <1>1, <1>5, <2>1 DEF Works
<1>12. PICK d \in Works :
          /\ Goes(p, d) /\ d.mode = chosen.mode
          /\ chosen.mode = "isolated" => d.pc = "reuse" /\ d.input = view
          /\ chosen.mode # "isolated" => d.pc = "load" /\ d.layer = "compat"
          /\ Staged(d) /\ Traced(d)
  <2> DEFINE d == Leave(chosen, "compat")
  <2>1. /\ d \in Works /\ d.mode = chosen.mode
        /\ chosen.mode = "isolated" => d.pc = "reuse" /\ d.input = chosen.view
        /\ chosen.mode # "isolated" => d.pc = "load" /\ d.layer = "compat"
        /\ Staged(d) /\ Traced(d)
    BY <1>10, <1>11, LeaveIs
  <2>2. Goes(p, d) BY <1>2
  <2> HIDE DEF d
  <2> QED BY <1>11, <2>1, <2>2
<1>13. view # Absent BY <1>10, ViewsAre
<1>14. /\ selector' \in [Layers -> Views \cup {Absent}]
       /\ selector'["isolated"] = selector["isolated"] /\ selector'["compat"] = view
  <2>1. selector \in [Layers -> Views \cup {Absent}] BY DEF Sure, Kept
  <2>2. view \in Views BY <1>10, ViewsAre
  <2> QED BY <1>2, <2>1, <2>2, StepsAre
<1>15. ASSUME Undisturbed PROVE view = First /\ Release \in Legacy /\ Present /\ Agreed(d)'
  <2>1. /\ w.view = resolution /\ Release \in Legacy /\ Own(w) = Backported(Release)
        /\ Own(w) \in DOMAIN copies
    BY <1>1, <1>15 DEF Agreed, Copying
  <2>2. Present BY <2>1 DEF Present
  <2>3. view = First
    <3>1. First \in FirstViews /\ \A q \in Packages : First[q] = view[q]
      BY <1>8, <1>3, <2>1, FirstIs DEF Packages
    <3> QED BY <1>10, <3>1, ViewsAre DEF Views
  <2>4. First' = view /\ Present' /\ Release' \in Legacy
    BY <1>2, <2>1, <2>2, <2>3 DEF First, Present, Release
  <2>5. Absent # "compat" /\ Absent # "isolated" BY SourcesAssumption, StepsAre
  <2>6. Agreed(d)'
    BY <1>12, <1>13, <1>14, <2>4, <2>5 DEF Agreed, Copying, Layering, Loaded
  <2> QED BY <2>1, <2>2, <2>3, <2>6
<1> QED BY <1>2, <1>10, <1>12, <1>13, <1>14, <1>15, Selecting

(* The second layer selects its own, and if it is another one, its receipt   *)
(* is no longer good.                                                        *)
LEMMA SelectSecond == ASSUME Sure, NEW p \in Commands, Select(p), proc[p].layer = "isolated" PROVE Sure'
<1>1. PICK w : w = proc[p] OBVIOUS
<1>2. w \in Works /\ Staged(w) /\ Traced(w) /\ (Undisturbed => Agreed(w)) /\ w.pc = "select" /\ w.layer = "isolated"
  BY <1>1, Working DEF Select, On
<1>3. w.tree \in Trees /\ w.input \in FirstViews /\ w.mode = "isolated"
  BY <1>2 DEF Staged, Copying, Layering, Trees
<1>4. PICK view : view = AllIn(Own(w)) OBVIOUS
<1>5. PICK n : n = [w EXCEPT !.view = view, !.pc = "stamp"] OBVIOUS
<1>6. /\ selector' = [selector EXCEPT !["isolated"] = view]
      /\ IF selector["isolated"] = view THEN Goes(p, n) /\ UNCHANGED isolation
         ELSE /\ proc' = [q \in Commands |-> Forget(Selector, IF q = p THEN n ELSE proc[q])]
              /\ isolation' = ForgetIsolation(Selector)
      /\ UNCHANGED <<resolution, source, copies, artifact, history>>
  <2> DEFINE v == [q \in Packages |-> IF q \in DOMAIN w.tree THEN Mine(p) ELSE w.view[q]]
  <2>1. v = view BY <1>1, <1>3, <1>4 DEF AllIn, Mine, Own, Trees
  <2>2. [[w EXCEPT !.view = v] EXCEPT !.pc = "stamp"] = n BY <1>5, <2>1
  <2>3. /\ selector' = [selector EXCEPT ![w.layer] = v]
        /\ IF selector[w.layer] = v \/ w.layer = "compat"
           THEN Goes(p, [[w EXCEPT !.view = v] EXCEPT !.pc = "stamp"]) /\ UNCHANGED isolation
           ELSE /\ proc' = [q \in Commands |->
                              Forget(Selector, IF q = p THEN [[w EXCEPT !.view = v] EXCEPT !.pc = "stamp"] ELSE proc[q])]
                /\ isolation' = ForgetIsolation(Selector)
        /\ UNCHANGED <<resolution, source, copies, artifact, history>>
    BY <1>1, <1>2 DEF Select
  <2> HIDE DEF v
  <2> QED BY <1>2, <2>1, <2>2, <2>3
<1>7. view \in SecondViews /\ view \in Views /\ view # Absent
  BY <1>3, <1>2, <1>4, IsolatedAre, ViewsAre DEF Own
<1>8. /\ n \in Works /\ n.pc = "stamp" /\ n.view = view /\ n.mode = w.mode /\ n.layer = w.layer
      /\ n.input = w.input /\ n.tree = w.tree /\ n.before = w.before /\ n.missed = w.missed
  BY <1>2, <1>7, <1>5, StepsAre DEF Works
<1>9. Own(n) = Own(w) BY <1>8 DEF Own
<1>10. Staged(n) /\ Traced(n)
  BY <1>2, <1>3, <1>8, <1>9, <1>4 DEF Staged, Traced, Copying, Layering, Loaded
<1>11. ASSUME Undisturbed
       PROVE  /\ Own(w) = Second /\ Second \in DOMAIN copies
              /\ selector["isolated"] # Absent => Agreed(n)
  <2>1. Agreed(w) BY <1>2, <1>11
  <2>2. /\ w.input = First /\ Present /\ Own(w) \in DOMAIN copies
        /\ \A q \in Packages : w.tree[q] = Second.tree[q]
    BY <1>2, <1>3, <2>1, IsolatedAre DEF Agreed, Copying, Layering
  <2>3. w.tree = Second.tree BY <1>3, <2>2, FirstIs DEF Trees
  <2>4. Own(w) = Second BY <1>2, <2>3, FirstIs DEF Own
  <2>5. selector["isolated"] # Absent => Agreed(n)
    BY <1>2, <1>8, <2>2, <2>3, IsolatedAre DEF Agreed, Copying, Layering, Loaded
  <2> QED BY <2>2, <2>4, <2>5
<1>12. selector \in [Layers -> Views \cup {Absent}] BY DEF Sure, Kept
<1>13. CASE selector["isolated"] = view
  <2>1. selector' = selector BY <1>12, <1>13, <1>6
  <2>2. Undisturbed => Agreed(n) BY <1>7, <1>11, <1>13
  <2> QED BY <1>8, <1>10, <1>13, <1>6, <2>1, <2>2, Alone
<1>14. CASE selector["isolated"] # view
  <2>1. /\ proc' = [q \in Commands |-> Forget(Selector, IF q = p THEN n ELSE proc[q])]
        /\ isolation' = ForgetIsolation(Selector)
    BY <1>14, <1>6
  <2>2. /\ selector' \in [Layers -> Views \cup {Absent}] /\ selector'["isolated"] = view
        /\ selector'["compat"] = selector["compat"]
    BY <1>7, <1>12, <1>6, StepsAre
  <2>3. ASSUME NEW q \in Commands
        PROVE  \E d \in Works : /\ proc'[q] = Forget(Selector, d) /\ Staged(d) /\ Traced(d)
                                /\ IF q = p THEN d = n ELSE Undisturbed => Agreed(d)
    BY <1>1, <1>8, <1>10, <2>1, Working
  <2>4. proc' \in [Commands -> Works]
    <3>1. \A q \in Commands : proc'[q] \in Works BY <2>3, ForgetIs DEF Touched
    <3> QED BY <2>1, <3>1
  <2>5. ASSUME NEW q \in Commands PROVE Staged(proc[q])' /\ Traced(proc[q])'
    <3>1. PICK d \in Works : proc'[q] = Forget(Selector, d) /\ Staged(d) /\ Traced(d) BY <2>3
    <3>2. PICK e : e = proc'[q] /\ Staged(e) /\ Traced(e) BY <3>1, ForgettingKeeps DEF Touched
    <3>3. Staged(e)' /\ Traced(e)' BY <1>7, <1>6, <2>2, <3>2, StagedStays, TracedStays
    <3>4. Staged(proc[q])' BY <3>2, <3>3 DEF Staged
    <3>5. Traced(proc[q])' BY <3>2, <3>3 DEF Traced, Was, Exists, ContentAt
    <3> QED BY <3>4, <3>5
  <2>6. Kept'
    <3>1. \A q \in Commands : Staged(proc[q])' BY <2>5
    <3>2. isolation' # Absent => isolation' \in Receipts BY <2>1, ForgetIsolationIs DEF Sure
    <3> QED BY <1>7, <1>6, <2>2, <2>4, <3>1, <3>2 DEF Sure, Kept, Backports
  <2>7. Evident'
    <3> SUFFICES ASSUME isolation' # Absent PROVE Evident' BY DEF Evident
    <3>1. /\ isolation # Absent /\ isolation'.input = isolation.input /\ isolation'.copy = isolation.copy
          /\ Selector \notin isolation'.outputs
          /\ isolation'.sources \ isolation'.missed \subseteq isolation.sources \ isolation.missed
          /\ isolation'.outputs \ isolation'.missed \subseteq isolation.outputs \ isolation.missed
      <4>1. PICK x : x = isolation' OBVIOUS
      <4>2. /\ isolation # Absent /\ x.input = isolation.input /\ x.copy = isolation.copy
            /\ Selector \notin x.outputs
            /\ x.sources \ x.missed \subseteq isolation.sources \ isolation.missed
            /\ x.outputs \ x.missed \subseteq isolation.outputs \ isolation.missed
        BY <2>1, <4>1, ForgetIsolationIs DEF Sure
      <4> QED BY <4>1, <4>2
    <3>2. ASSUME NEW q \in Packages, isolation'.input[q] \in isolation'.sources \ isolation'.missed
          PROVE  Was(isolation.input[q], q, isolation.copy.tree[q])'
      BY <1>6, <3>1, <3>2 DEF Sure, Evident, Was, Exists, ContentAt
    <3> QED BY <1>6, <3>1, <3>2 DEF Sure, Evident, Was, Exists, ContentAt
  <2>8. Recorded' BY <1>6 DEF Sure, Recorded
  <2>9. Calm'
    <3> SUFFICES ASSUME Undisturbed' PROVE Calm' BY DEF Calm
    <3>1. Undisturbed BY <1>6 DEF Undisturbed
    <3>2. First' = First /\ Second' = Second /\ Release' = Release /\ Present' = Present
      BY <1>6 DEF First, Second, Release, Present
    <3>3. view = AllIn(Second) /\ Second \in DOMAIN copies BY <1>11, <1>4, <3>1
    <3>4. ASSUME NEW q \in Commands PROVE Agreed(proc[q])'
      <4>1. PICK d \in Works : /\ proc'[q] = Forget(Selector, d)
                               /\ IF q = p THEN d = n ELSE Agreed(d)
        BY <2>3, <3>1
      <4>2. PICK e : e = Forget(Selector, d) OBVIOUS
      <4>3. CASE q # p
        <5>1. Agreed(e) BY <4>1, <4>2, <4>3, ForgettingKeeps DEF Touched
        <5>2. Agreed(e)' BY <1>7, <1>6, <2>2, <5>1, AgreedStays
        <5> QED BY <4>1, <4>2, <5>2 DEF Agreed
      <4>4. CASE q = p
        <5>1. e = Forget(Selector, n) BY <4>1, <4>2, <4>4
        <5>2. /\ e.pc = "stamp" /\ e.mode = w.mode /\ e.layer = w.layer /\ e.input = w.input
              /\ e.view = view /\ e.tree = w.tree
          <6>1. /\ e.pc = n.pc /\ e.mode = n.mode /\ e.layer = n.layer /\ e.input = n.input
                /\ e.view = n.view /\ e.tree = n.tree
            BY ONLY <1>8, <5>1, ForgetIs DEF Touched
          <6> QED BY <1>8, <6>1
        <5>3. w.input = First /\ Present /\ \A x \in DOMAIN w.tree : w.tree[x] = Second.tree[x]
          BY <1>2, <3>1 DEF Agreed, Copying, Layering
        <5>4. Agreed(e)'
          BY <1>2, <1>7, <2>2, <3>2, <5>2, <5>3 DEF Agreed, Copying, Layering, Loaded
        <5> QED BY <4>1, <4>2, <5>4 DEF Agreed
      <4> QED BY <4>3, <4>4
    <3> QED BY <1>6, <2>2, <3>1, <3>2, <3>3, <3>4 DEF Sure, Calm
  <2> QED BY <2>4, <2>5, <2>6, <2>7, <2>8, <2>9 DEF Sure
<1> QED BY <1>13, <1>14

LEMMA SelectKeeps == ASSUME Sure, NEW p \in Commands, Select(p) PROVE Sure'
<1>1. proc[p].layer \in {"compat", "isolated"}
  BY Working DEF Select, On, Staged, Copying, Layers
<1> QED BY <1>1, SelectFirst, SelectSecond

\* A receipt is minted only of stamps taken before the sources were read.
LEMMA MintKeeps == ASSUME Sure, NEW p \in Commands, Mint(p) PROVE Sure'
<1> DEFINE w == proc[p]
           a == [w EXCEPT !.pc = "load", !.before = {}]
           c == [a EXCEPT !.outputs = {}, !.missed = {}]
<1>1. w \in Works /\ Staged(w) /\ Traced(w) /\ (Undisturbed => Agreed(w)) /\ w.pc = "mint"
  BY Working DEF Mint, On
<1>2. w.layer = "isolated" /\ w.mode = "isolated" /\ w.input \in FirstViews /\ w.tree \in Trees /\ w.view = AllIn(Own(w))
  BY <1>1 DEF Staged, Copying, Layering, Trees
<1>3. Goes(p, c) BY DEF Mint
<1>4. Mine(p) = Own(w) /\ Own(w) = Copy("isolated", w.tree) BY <1>2 DEF Mine, Own
<1>5. /\ UNCHANGED <<resolution, source, copies, selector, artifact>> /\ history' = history
      /\ isolation' = IF Mintable(p)
                      THEN [input |-> w.input, copy |-> Own(w),
                            sources |-> Places(w.input), outputs |-> {Own(w), Selector},
                            missed |-> w.missed]
                      ELSE isolation
  BY <1>4 DEF Mint
<1>6. Mintable(p) => /\ Own(w) \in DOMAIN copies /\ copies[Own(w)] = w.tree
                     /\ selector["isolated"] = w.view /\ w.before = Places(w.input)
  BY <1>4 DEF Mintable
<1> HIDE DEF w
<1>7. a \in Works /\ a.pc = "load" /\ a.mode = w.mode /\ a.layer = w.layer
  BY <1>1, StepsAre DEF Works
<1> HIDE DEF a
<1>8. c \in Works /\ c.pc = "load" /\ c.mode = w.mode /\ c.layer = w.layer
  BY <1>7 DEF Works
<1> HIDE DEF c
<1>9. Staged(c) /\ Traced(c) BY <1>2, <1>8 DEF Staged, Traced, Copying, Layering, Loaded
<1>10. Undisturbed => Agreed(c)
  <2>1. Absent # "compat" /\ Absent # "isolated" BY SourcesAssumption, StepsAre
  <2> QED BY <1>1, <1>2, <1>8, <2>1 DEF Agreed, Copying, Layering, Loaded
<1>11. Own(w) \in Copies /\ Own(w).tree = w.tree /\ DOMAIN w.tree = Packages
  BY <1>2, <1>4, IsolatedAre
<1>12. isolation' # Absent => isolation' \in Receipts
  <2>1. Places(w.input) \in SUBSET (Dirs \cup Copies) BY <1>2, ViewsAre DEF Places, Views
  <2>2. {Own(w), Selector} \in SUBSET (Copies \cup {Selector}) BY <1>11
  <2>3. Own(w) \in {Copy("isolated", tree) : tree \in Trees} BY <1>2, <1>4
  <2>4. w.missed \in SUBSET (Dirs \cup Copies \cup {Selector}) BY <1>1 DEF Works
  <2> QED BY <1>2, <1>5, <2>1, <2>2, <2>3, <2>4 DEF Receipts, Sure, Kept
<1>13. Evident'
  <2>1. CASE Mintable(p)
    <3>1. \A q \in Packages : w.input[q] \notin w.missed => Was(w.input[q], q, w.tree[q])
      BY <1>1, <1>2, <1>6, <1>11, <2>1 DEF Traced, Layering, Places
    <3>2. /\ isolation'.input = w.input /\ isolation'.copy = Own(w) /\ isolation'.sources = Places(w.input)
          /\ isolation'.outputs = {Own(w), Selector} /\ isolation'.missed = w.missed
      BY <1>5, <2>1
    <3> QED BY <1>2, <1>5, <1>6, <1>11, <2>1, <3>1, <3>2 DEF Evident, Was, Exists, ContentAt
  <2>2. CASE ~Mintable(p)
    BY <1>5, <2>2, EvidentStays DEF Sure
  <2> QED BY <2>1, <2>2
<1>14. Recorded' BY <1>5 DEF Sure, Recorded
<1> QED BY <1>3, <1>5, <1>8, <1>9, <1>10, <1>12, <1>13, <1>14, Settling

\* Where a compile finds the compiler's packages.
LEMMA SelectedIs ==
    ASSUME Sure, NEW w \in Works, Staged(w), w.pc = "compile"
    PROVE  /\ Selected(w.mode) \in IF w.mode = "isolated" THEN SecondViews ELSE FirstViews
           /\ w.mode = "default" => w.key.identity = Absent
           /\ Undisturbed /\ Agreed(w) =>
                /\ Selected(w.mode) = w.packages
                /\ \A q \in Packages : Exists(w.packages[q])
<1>1. /\ w.mode = "isolated" => selector["isolated"] # Absent
      /\ w.packages \in IF w.mode = "isolated" THEN SecondViews ELSE FirstViews
      /\ w.key.identity = Identity(w.packages)
  BY DEF Staged, Loaded
<1>2. w.mode \in {"default", "isolated"} BY DEF Works
<1>3. resolution \in FirstViews /\ resolution \in Resolutions BY ViewsAre DEF Sure, Kept
<1>4. Selected(w.mode) \in IF w.mode = "isolated" THEN SecondViews ELSE FirstViews
  BY <1>1, <1>2, <1>3 DEF Selected, Sure, Kept
<1>5. w.mode = "default" => w.key.identity = Absent
  BY <1>1, ViewsAre DEF Identity
<1>6. ASSUME Undisturbed, Agreed(w)
      PROVE  Selected(w.mode) = w.packages /\ \A q \in Packages : Exists(w.packages[q])
  <2>1. /\ w.packages = IF w.mode = "isolated" THEN AllIn(Second) ELSE First
        /\ w.mode = "default" /\ Release \in Legacy => selector["compat"] # Absent
    BY <1>6 DEF Agreed, Loaded
  <2>2. CASE w.mode = "isolated"
    <3>1. selector["isolated"] = AllIn(Second) /\ Second \in DOMAIN copies
      BY <1>1, <1>6, <2>2 DEF Sure, Calm
    <3> QED BY <1>1, <2>1, <2>2, <3>1 DEF Selected, Exists, AllIn
  <2>3. CASE w.mode = "default"
    <3>1. selector["compat"] # Absent => selector["compat"] = First /\ Present
      BY <1>6 DEF Sure, Calm
    <3>2. Release \notin Legacy => First = resolution /\ Present BY DEF First, Present
    <3>3. Present BY <2>1, <2>3, <3>1, <3>2
    <3>4. Selected(w.mode) = First BY <2>1, <2>3, <3>1, <3>2 DEF Selected
    <3>5. \A q \in Packages : Exists(First[q]) BY <1>6, <3>3, FirstServes
    <3> QED BY <2>1, <2>3, <3>4, <3>5
  <2> QED BY <1>2, <2>2, <2>3
<1> QED BY <1>4, <1>5, <1>6

\* A compile records what it read by package or, inside the workspace, by place.
LEMMA CompileKeeps == ASSUME Sure, NEW p \in Commands, Compile(p) PROVE Sure'
<1> DEFINE w == proc[p]
           view == Selected(w.mode)
           keys == [q \in Packages |-> DependencyKey(view[q], q, w.packages)]
           good == \A q \in Packages : Exists(view[q]) /\ keys[q] # Absent
<1>1. w \in Works /\ Staged(w) /\ Traced(w) /\ (Undisturbed => Agreed(w)) /\ w.pc = "compile"
  BY Working DEF Compile, On
<1>2. /\ IF good
         THEN /\ artifact' = [key |-> w.key, keys |-> keys,
                              compiled |-> [q \in Packages |-> ContentAt(view[q], q)]]
              /\ Goes(p, Resting)
         ELSE Goes(p, Failed(w)) /\ UNCHANGED artifact
      /\ UNCHANGED <<resolution, source, copies, selector, isolation, history>>
  BY DEF Compile
<1>3. \A q \in Packages : keys[q] = DependencyKey(view[q], q, w.packages) OBVIOUS
<1>4. w.mode \in {"default", "isolated"} BY <1>1 DEF Works
<1>5. DOMAIN keys = Packages OBVIOUS
<1> HIDE DEF w
<1>6. /\ view \in IF w.mode = "isolated" THEN SecondViews ELSE FirstViews
      /\ w.mode = "default" => w.key.identity = Absent
      /\ Undisturbed => view = w.packages /\ \A q \in Packages : Exists(w.packages[q])
  BY <1>1, SelectedIs
<1> HIDE DEF view, keys
<1>7. isolation' # Absent => isolation' \in Receipts BY <1>2 DEF Sure, Kept
<1>8. Evident' BY <1>2, EvidentStays DEF Sure
<1>9. CASE good
  <2>1. /\ artifact'.keys = keys /\ artifact'.key = w.key /\ Goes(p, Resting) BY <1>2, <1>9
  <2>2. ASSUME NEW q \in Packages
        PROVE  \/ keys[q] = ByPackage(q)
               \/ (\E d \in Inside : keys[q] = ByPlace(d)) /\ w.key.identity = Absent
    <3>1. keys[q] # Absent /\ keys[q] = DependencyKey(view[q], q, w.packages) BY <1>3, <1>9
    <3>2. CASE view[q] \notin Inside BY <3>1, <3>2 DEF DependencyKey
    <3>3. CASE view[q] \in Inside
      <4>1. view[q] \in Dirs /\ keys[q] = ByPlace(view[q]) BY <3>1, <3>3, SourcesAssumption DEF DependencyKey
      <4>2. w.mode = "default"
        <5>1. \A x \in SecondViews : x[q] \notin Dirs BY IsolatedAre DEF SecondViews, AllIn
        <5> QED BY <1>4, <1>6, <4>1, <5>1
      <4> QED BY <1>6, <3>3, <4>1, <4>2
    <3> QED BY <3>2, <3>3
  <2>3. Recorded' BY <1>5, <2>1, <2>2 DEF Recorded
  <2>4. Agreed(Resting) BY RestingIs DEF Agreed, Copying, Layering, Loaded
  <2> QED BY <1>2, <1>7, <1>8, <2>1, <2>3, <2>4, RestingIs, Settling
<1>10. CASE ~good
  <2>1. Goes(p, Failed(w)) /\ artifact' = artifact BY <1>2, <1>10
  <2>2. ~Undisturbed
    <3> SUFFICES ASSUME Undisturbed PROVE FALSE OBVIOUS
    <3>1. view = w.packages /\ \A q \in Packages : Exists(view[q]) BY <1>6
    <3>2. ASSUME NEW q \in Packages PROVE keys[q] # Absent
      <4>1. keys[q] = DependencyKey(view[q], q, view) BY <1>3, <3>1
      <4>2. \A x \in Inside : ByPlace(x) # Absent BY SourcesAssumption
      <4>3. ByPackage(q) # Absent BY SourcesAssumption
      <4> QED BY <4>1, <4>2, <4>3 DEF DependencyKey
    <3> QED BY <1>10, <3>1, <3>2
  <2> QED BY <1>2, <2>1, <2>2, FailedIs, Alone
<1> QED BY <1>9, <1>10

(* A write to one place leaves what is elsewhere as it was, whether or not   *)
(* the stamps see it.                                                        *)
Wipe(place) ==
    proc' = [p \in Commands |-> Forget(place, proc[p])] /\ isolation' = ForgetIsolation(place)

LEMMA Forgetting ==
    ASSUME Sure, NEW place, Rewrite(place) \/ Wipe(place), UNCHANGED <<selector, artifact>>,
           resolution' \in Resolutions, source' \in [Dirs -> Texts], DOMAIN copies' \subseteq Copies,
           \A copy \in DOMAIN copies' :
              /\ copies'[copy] \in [DOMAIN copy.tree -> Found \cup ({"isolated"} \X Found)]
              /\ copy \in Backports => copies'[copy] \in [{"runner"} -> Found],
           \A x \in Dirs \ {place} : source'[x] = source[x],
           \A x \in DOMAIN copies \ {place} : x \in DOMAIN copies' /\ copies'[x] = copies[x],
           history' \in [changes : 0..MaxChanges, faults : 0..MaxFaults], ~Undisturbed'
    PROVE  Sure'
<1>1. ASSUME NEW p \in Commands
      PROVE  /\ proc'[p] \in Works /\ Staged(proc[p])' /\ Traced(proc[p])'
  <2>1. PICK w \in Works : w = proc[p] /\ Staged(w) /\ Traced(w) BY Working
  <2>2. PICK c \in Works : c = proc'[p] /\ Touched(place, w, c)
    <3>1. proc'[p] = Forget(place, w) \/ proc'[p] = Miss(place, w) BY <2>1 DEF Rewrite, Wipe
    <3> QED BY <2>1, <3>1, ForgetIs DEF Touched
  <2>3. Staged(c) /\ Traced(c) /\ place \notin c.before \ c.missed
    <3>1. c.before \ c.missed = (w.before \ w.missed) \ {place} BY <2>2, ForgetIs
    <3>2. place \notin c.before \ c.missed BY <3>1
    <3> QED BY <2>1, <2>2, <3>2, ForgettingKeeps
  <2>4. Staged(c)' BY <2>3, StagedStays
  <2>5. Traced(c)' BY <2>3, WasStays DEF Traced
  <2>6. Staged(proc[p])' BY <2>2, <2>4 DEF Staged
  <2>7. Traced(proc[p])' BY <2>2, <2>5 DEF Traced, Was, Exists, ContentAt
  <2> QED BY <2>2, <2>6, <2>7
<1>2. proc' \in [Commands -> Works]
  <2>1. \A p \in Commands : proc'[p] \in Works BY <1>1
  <2>2. proc' = [p \in Commands |-> proc'[p]] BY DEF Rewrite, Wipe
  <2> QED BY <2>1, <2>2
<1>3. Kept'
  <2>1. isolation' # Absent => isolation' \in Receipts BY ForgetIsolationIs DEF Sure, Rewrite, Wipe
  <2>2. \A p \in Commands : Staged(proc[p])' BY <1>1
  <2> QED BY <1>2, <2>1, <2>2 DEF Sure, Kept, Backports
<1>4. Evident'
  <2> SUFFICES ASSUME isolation' # Absent PROVE Evident' BY DEF Evident
  <2>1. /\ isolation # Absent /\ isolation'.input = isolation.input /\ isolation'.copy = isolation.copy
        /\ isolation'.sources \ isolation'.missed = (isolation.sources \ isolation.missed) \ {place}
        /\ isolation'.outputs \ isolation'.missed = (isolation.outputs \ isolation.missed) \ {place}
        /\ isolation'.outputs \subseteq isolation.outputs
    <3>1. PICK x : x = isolation' OBVIOUS
    <3>2. /\ isolation # Absent /\ x.input = isolation.input /\ x.copy = isolation.copy
          /\ x.sources \ x.missed = (isolation.sources \ isolation.missed) \ {place}
          /\ x.outputs \ x.missed = (isolation.outputs \ isolation.missed) \ {place}
          /\ x.outputs \subseteq isolation.outputs
      BY <3>1, ForgetIsolationIs DEF Sure, Rewrite, Wipe
    <3> QED BY <3>1, <3>2
  <2>2. ASSUME NEW q \in Packages, isolation'.input[q] \in isolation'.sources \ isolation'.missed
        PROVE  Was(isolation.input[q], q, isolation.copy.tree[q])'
    <3>1. PICK x : x = isolation.input[q] OBVIOUS
    <3>2. PICK content : content = isolation.copy.tree[q] OBVIOUS
    <3>3. Was(x, q, content) /\ x # place BY <2>1, <2>2, <3>1, <3>2 DEF Sure, Evident
    <3>4. Was(x, q, content)' BY <3>3, WasStays
    <3> QED BY <2>1, <3>1, <3>2, <3>4 DEF Was, Exists, ContentAt
  <2>3. isolation'.copy \in isolation'.outputs \ isolation'.missed =>
           isolation'.copy \in DOMAIN copies' /\ copies'[isolation'.copy] = isolation'.copy.tree
    BY <2>1 DEF Sure, Evident
  <2>4. Selector \in isolation'.outputs => selector'["isolated"] = AllIn(isolation'.copy)
    BY <2>1 DEF Sure, Evident
  <2> QED BY <2>2, <2>3, <2>4 DEF Evident, Was, Exists, ContentAt
<1>5. Recorded' BY DEF Sure, Recorded
<1>6. Calm' BY DEF Calm
<1> QED BY <1>1, <1>3, <1>4, <1>5, <1>6 DEF Sure

LEMMA EditKeeps == ASSUME Sure, NEW d \in Dirs, Edit(d) PROVE Sure'
<1>1. history' \in [changes : 0..MaxChanges, faults : 0..MaxFaults] /\ ~Undisturbed'
  BY ChangeIs DEF Edit, Sure
<1>2. PICK content \in Texts : source' = [source EXCEPT ![d] = content] BY DEF Edit
<1>3. source \in [Dirs -> Texts] BY DEF Sure, Kept
<1>4. source' \in [Dirs -> Texts] /\ \A x \in Dirs \ {d} : source'[x] = source[x] BY <1>2, <1>3
<1>5. Rewrite(d) /\ UNCHANGED <<resolution, copies, selector, artifact>>
  BY DEF Edit
<1>6. /\ resolution' \in Resolutions /\ DOMAIN copies' \subseteq Copies
      /\ \A copy \in DOMAIN copies' :
              /\ copies'[copy] \in [DOMAIN copy.tree -> Found \cup ({"isolated"} \X Found)]
              /\ copy \in Backports => copies'[copy] \in [{"runner"} -> Found]
  BY <1>5 DEF Sure, Kept
<1>7. \A x \in DOMAIN copies \ {d} : x \in DOMAIN copies' /\ copies'[x] = copies[x] BY <1>5
<1> QED BY <1>1, <1>4, <1>5, <1>6, <1>7, Forgetting

LEMMA SpoilKeeps == ASSUME Sure, NEW copy \in DOMAIN copies, Damage(copy) \/ RemoveCopy(copy) PROVE Sure'
<1>1. history' \in [changes : 0..MaxChanges, faults : 0..MaxFaults] /\ ~Undisturbed'
  BY FaultIs DEF Damage, RemoveCopy, Sure
<1>2. (Rewrite(copy) \/ Wipe(copy)) /\ UNCHANGED <<resolution, source, selector, artifact>>
  BY DEF Damage, RemoveCopy, Wipe
<1>3. /\ DOMAIN copies' \subseteq DOMAIN copies
      /\ \A x \in DOMAIN copies \ {copy} : x \in DOMAIN copies' /\ copies'[x] = copies[x]
      /\ copy \in DOMAIN copies' =>
            \E package \in DOMAIN copy.tree : copies'[copy] = [copies[copy] EXCEPT ![package] = Damaged]
  <2>1. CASE copies' = Restrict(copies, DOMAIN copies \ {copy})
    BY <2>1 DEF Restrict
  <2>2. CASE \E package \in DOMAIN copy.tree : copies' = [copies EXCEPT ![copy][package] = Damaged]
    BY <2>2
  <2> QED BY <2>1, <2>2 DEF Damage, RemoveCopy
<1>4. DOMAIN copies' \subseteq Copies BY <1>3 DEF Sure, Kept
<1>5. ASSUME NEW x \in DOMAIN copies'
      PROVE  /\ copies'[x] \in [DOMAIN x.tree -> Found \cup ({"isolated"} \X Found)]
             /\ x \in Backports => copies'[x] \in [{"runner"} -> Found]
  <2>1. CASE x # copy BY <1>3, <2>1 DEF Sure, Kept
  <2>2. CASE x = copy
    <3>1. PICK package \in DOMAIN copy.tree : copies'[copy] = [copies[copy] EXCEPT ![package] = Damaged]
      BY <1>3, <2>2
    <3>2. Damaged \in Found BY DEF Found
    <3>3. /\ copies[copy] \in [DOMAIN copy.tree -> Found \cup ({"isolated"} \X Found)]
          /\ copy \in Backports => copies[copy] \in [{"runner"} -> Found]
      BY DEF Sure, Kept
    <3> QED BY <2>2, <3>1, <3>2, <3>3
  <2> QED BY <2>1, <2>2
<1>6. /\ resolution' \in Resolutions /\ source' \in [Dirs -> Texts]
      /\ \A x \in Dirs \ {copy} : source'[x] = source[x]
  BY <1>2 DEF Sure, Kept
<1> QED BY <1>1, <1>2, <1>3, <1>4, <1>5, <1>6, Forgetting

LEMMA ResolveKeeps == ASSUME Sure, Resolve PROVE Sure'
<1>1. history' \in [changes : 0..MaxChanges, faults : 0..MaxFaults] /\ ~Undisturbed'
  BY ChangeIs DEF Resolve, Sure
<1>2. resolution' \in Resolutions /\ UNCHANGED <<source, copies, selector, isolation, artifact, proc>>
  BY DEF Resolve
<1>3. ASSUME NEW p \in Commands PROVE Staged(proc[p])' /\ Traced(proc[p])'
  <2>1. PICK w : w = proc[p] /\ w = proc'[p] /\ Staged(w) /\ Traced(w) BY <1>2, Working
  <2>2. Staged(w)' /\ Traced(w)' BY <1>2, <2>1, StagedStays, TracedStays
  <2>3. Staged(proc[p])' BY <2>1, <2>2 DEF Staged
  <2>4. Traced(proc[p])' BY <2>1, <2>2 DEF Traced, Was, Exists, ContentAt
  <2> QED BY <2>3, <2>4
<1>4. Kept'
  <2>1. \A p \in Commands : Staged(proc[p])' BY <1>3
  <2> QED BY <1>1, <1>2, <2>1 DEF Sure, Kept, Backports
<1>5. Evident' /\ Recorded'
  BY <1>2 DEF Sure, Evident, Recorded, Was, Exists, ContentAt
<1>6. Calm' BY <1>1 DEF Calm
<1> QED BY <1>3, <1>4, <1>5, <1>6 DEF Sure

----------------------------------------------------------------------------
(* The invariant is inductive                                                *)

LEMMA CompilerInitInductive == CompilerInit => Sure
<1> SUFFICES ASSUME CompilerInit PROVE Sure OBVIOUS
<1>1. /\ resolution \in Resolutions /\ source \in [Dirs -> Texts] /\ DOMAIN copies = {}
      /\ selector = [layer \in Layers |-> Absent] /\ isolation = Absent /\ artifact = Absent
      /\ proc = [p \in Commands |-> Resting]
      /\ history \in [changes : 0..MaxChanges, faults : 0..MaxFaults]
  BY SourcesAssumption DEF CompilerInit
<1>2. selector["compat"] = Absent /\ selector["isolated"] = Absent BY <1>1, StepsAre
<1>3. \A p \in Commands : Staged(proc[p]) /\ Traced(proc[p]) BY <1>1, RestingIs
<1>4. Kept
  <2>1. proc \in [Commands -> Works] BY <1>1, RestingIs
  <2> QED BY <1>1, <1>2, <1>3, <2>1 DEF Kept
<1>5. Evident /\ Recorded BY <1>1 DEF Evident, Recorded
<1>6. Agreed(Resting) BY RestingIs DEF Agreed, Copying, Layering, Loaded
<1>7. Calm BY <1>1, <1>2, <1>6 DEF Calm
<1> QED BY <1>3, <1>4, <1>5, <1>7 DEF Sure

LEMMA CompilerStutters == ASSUME Sure, UNCHANGED compilerVars PROVE Sure'
<1>1. UNCHANGED <<resolution, source, copies, selector, isolation, artifact, proc, history>> BY DEF compilerVars
<1>2. ASSUME NEW p \in Commands PROVE Staged(proc[p])' /\ Traced(proc[p])'
  <2>1. PICK w : w = proc[p] /\ w = proc'[p] /\ Staged(w) /\ Traced(w) BY <1>1, Working
  <2>2. Staged(w)' /\ Traced(w)' BY <1>1, <2>1, StagedStays, TracedStays
  <2>3. Staged(proc[p])' BY <2>1, <2>2 DEF Staged
  <2>4. Traced(proc[p])' BY <2>1, <2>2 DEF Traced, Was, Exists, ContentAt
  <2> QED BY <2>3, <2>4
<1>3. Kept'
  <2>1. \A p \in Commands : Staged(proc[p])' BY <1>2
  <2> QED BY <1>1, <2>1 DEF Sure, Kept, Backports
<1>4. Evident' /\ Recorded'
  BY <1>1 DEF Sure, Evident, Recorded, Was, Exists, ContentAt
<1>5. Calm'
  <2> SUFFICES ASSUME Undisturbed' PROVE Calm' BY DEF Calm
  <2>1. Undisturbed BY <1>1 DEF Undisturbed
  <2>2. First' = First /\ Second' = Second /\ Release' = Release /\ Present' = Present
    BY <1>1 DEF First, Second, Release, Present
  <2>3. \A p \in Commands : Agreed(proc[p])' BY <1>1, <2>1, <2>2 DEF Agreed, Sure, Calm
  <2> QED BY <1>1, <2>1, <2>2, <2>3 DEF Sure, Calm
<1> QED BY <1>2, <1>3, <1>4, <1>5 DEF Sure

LEMMA CompilerStepInductive == Sure /\ [CompilerNext]_compilerVars => Sure'
<1> SUFFICES ASSUME Sure, [CompilerNext]_compilerVars PROVE Sure' OBVIOUS
<1>1. CASE Resolve BY <1>1, ResolveKeeps
<1>2. CASE \E d \in Dirs : Edit(d) BY <1>2, EditKeeps
<1>3. CASE \E copy \in DOMAIN copies : Damage(copy) \/ RemoveCopy(copy) BY <1>3, SpoilKeeps
<1>4. ASSUME NEW p \in Commands,
             \/ Abandon(p) \/ Begin(p) \/ Version(p) \/ Drop(p) \/ Collect(p) \/ Publish(p)
             \/ Rename(p) \/ Validate(p) \/ Select(p) \/ Reuse(p) \/ StampOutputs(p) \/ Mint(p)
             \/ LoadWorkspace(p) \/ Key(p) \/ Check(p) \/ Compile(p)
      PROVE  Sure'
  <2>1. CASE Abandon(p) BY <2>1, AbandonKeeps
  <2>2. CASE Begin(p) BY <2>2, BeginKeeps
  <2>3. CASE Version(p) BY <2>3, VersionKeeps
  <2>4. CASE Drop(p) BY <2>4, DropKeeps
  <2>5. CASE Collect(p) BY <2>5, CollectKeeps
  <2>6. CASE Publish(p) BY <2>6, PublishKeeps
  <2>7. CASE Rename(p) BY <2>7, RenameKeeps
  <2>8. CASE Validate(p) BY <2>8, ValidateKeeps
  <2>9. CASE Select(p) BY <2>9, SelectKeeps
  <2>10. CASE Reuse(p) BY <2>10, ReuseKeeps
  <2>11. CASE StampOutputs(p) BY <2>11, StampOutputsKeeps
  <2>12. CASE Mint(p) BY <2>12, MintKeeps
  <2>13. CASE LoadWorkspace(p) BY <2>13, LoadsKeeps
  <2>14. CASE Key(p) BY <2>14, KeyKeeps
  <2>15. CASE Check(p) BY <2>15, CheckKeeps
  <2>16. CASE Compile(p) BY <2>16, CompileKeeps
  <2> QED BY <1>4, <2>1, <2>2, <2>3, <2>4, <2>5, <2>6, <2>7, <2>8, <2>9, <2>10, <2>11, <2>12, <2>13, <2>14, <2>15, <2>16
<1>5. CASE UNCHANGED compilerVars BY <1>5, CompilerStutters
<1> QED BY <1>1, <1>2, <1>3, <1>4, <1>5 DEF CompilerNext

----------------------------------------------------------------------------
(* The theorems                                                              *)

\* Every state is one the inductive invariant describes.
THEOREM CompilerInvariance == CompilerSpec => []Sure
<1>1. CompilerInit => Sure BY CompilerInitInductive
<1>2. Sure /\ [CompilerNext]_compilerVars => Sure' BY CompilerStepInductive
<1> QED BY <1>1, <1>2, PTL DEF CompilerSpec

\* The variables have their types, for any commands, directories and contents.
THEOREM CompilerTyping == CompilerSpec => []CompilerTypeOK
<1>1. ASSUME Sure PROVE CompilerTypeOK
  <2>1. isolation # Absent => isolation.input \in Views /\ isolation.copy \in Copies
    BY <1>1, ViewsAre, IsolatedAre DEF Sure, Kept, Receipts
  <2> QED BY <1>1, <2>1 DEF Sure, Kept, Recorded, CompilerTypeOK
<1>2. Sure => CompilerTypeOK BY <1>1
<1> QED BY <1>2, CompilerInvariance, PTL

(* A path that names a copy has every package of the copy: whoever renames   *)
(* first has published all of it, whatever is damaged or killed later        *)
(* (runner_compatibility::publish).                                          *)
THEOREM PathsAreComplete == CompilerSpec => []CopiesWhole
<1>1. Sure => CopiesWhole BY DEF Sure, Kept, CopiesWhole
<1> QED BY <1>1, CompilerInvariance, PTL

(* A receipt that would be reused stands for what preparing again would      *)
(* give: the selector selects one complete copy made from what the sources   *)
(* are now (compile_isolation.rs, validation::reuse and validation::save),   *)
(* unless a recorded stamp has missed a write in its own tick.               *)
THEOREM ReceiptsAreTrue == CompilerSpec => []ReceiptTrue
<1>1. ASSUME Sure, NEW p \in Commands, On(p, "reuse"), ReceiptReusable(proc[p].input),
             isolation.missed = {}
      PROVE  LET tree == [q \in Packages |-> Patched("isolated", ContentAt(proc[p].input[q], q))]
                 copy == Copy("isolated", tree)
             IN  /\ copy \in DOMAIN copies /\ copies[copy] = tree
                 /\ selector["isolated"] = [q \in Packages |-> copy]
  <2> DEFINE input == proc[p].input
             tree == [q \in Packages |-> Patched("isolated", ContentAt(input[q], q))]
             copy == Copy("isolated", tree)
  <2>1. input \in FirstViews BY <1>1, Working DEF On, Staged
  <2>2. ReceiptReusable(input) BY <1>1
  <2> HIDE DEF input
  <2>3. copy \in DOMAIN copies /\ copies[copy] = tree /\ selector["isolated"] = AllIn(copy)
    BY <1>1, <2>1, <2>2, ReuseIs
  <2> QED BY <2>3 DEF AllIn, input
<1>2. Sure => ReceiptTrue BY <1>1 DEF ReceiptTrue
<1> QED BY <1>2, CompilerInvariance, PTL

(* However many commands of either mode prepare one resolution at once, none *)
(* fails where nothing else happens and every patch applies                  *)
(* (runner_compatibility::publish and publish_config_at).                    *)
THEOREM CommandsDoNotFail == CompilerSpec => []NoneInTheWay
<1>1. Sure => NoneInTheWay BY DEF Sure, Calm, Undisturbed, Agreed, NoneInTheWay, On
<1> QED BY <1>1, CompilerInvariance, PTL

(* A worker is accepted only if it was compiled from what the workspace's    *)
(* compiler packages hold, although the selectors may have changed between   *)
(* the load and the compile (Workspace::logical_dependency_key), unless it   *)
(* was compiled with a package inside the workspace and no isolated copy is  *)
(* involved.                                                                 *)
THEOREM CompiledIsLoaded == CompilerSpec => []CompiledAsLoaded
<1>1. ASSUME Sure, NEW p \in Commands, On(p, "check"), Acceptable(p), NEW q \in Packages
      PROVE  \/ CompiledInside(q) /\ proc[p].packages["analyzer"] \in Dirs
             \/ /\ Exists(proc[p].packages[q])
                /\ artifact.compiled[q] = ContentAt(proc[p].packages[q], q)
  <2>1. PICK w : w = proc[p] OBVIOUS
  <2>2. w \in Works /\ Staged(w) /\ w.pc = "check" BY <1>1, <2>1, Working DEF On
  <2>3. w.packages \in Views /\ w.key.identity = Identity(w.packages)
    BY <2>2, ViewsAre DEF Staged, Loaded
  <2>4. /\ artifact # Absent /\ artifact.key = w.key
        /\ Exists(PlaceOf(artifact.keys[q], w.packages))
        /\ ContentAt(PlaceOf(artifact.keys[q], w.packages), q) = artifact.compiled[q]
    BY <1>1, <2>1 DEF Acceptable
  <2>5. CASE artifact.keys[q] = ByPackage(q)
    BY <2>1, <2>4, <2>5 DEF ByPackage, PlaceOf
  <2>6. CASE artifact.keys[q] # ByPackage(q)
    <3>1. CompiledInside(q) /\ artifact.key.identity = Absent
      BY <1>1, <2>4, <2>6 DEF Sure, Recorded, CompiledInside
    <3>2. w.packages["analyzer"] \in Dirs \cup Copies BY <2>3 DEF Views, Packages
    <3>3. w.packages["analyzer"] \in Dirs
      BY <2>3, <2>4, <3>1, <3>2, SourcesAssumption DEF Identity
    <3> QED BY <2>1, <3>1, <3>3
  <2> QED BY <2>5, <2>6
<1>2. Sure => CompiledAsLoaded BY <1>1 DEF CompiledAsLoaded
<1> QED BY <1>2, CompilerInvariance, PTL
================================================================================
