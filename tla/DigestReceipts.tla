----------------------------- MODULE DigestReceipts -----------------------------
(* How the validation of a compiled worker avoids hashing files again        *)
(* (rust/src/validated_digest.rs, rust/src/file_stamp.rs).                   *)
(*                                                                           *)
(* A validation compares files with the digests that the worker's metadata   *)
(* record.  A receipt shared by all processes of a workspace remembers which *)
(* digest a file had under which change stamp; a file that still has the     *)
(* stamp is not read again.  Stamps are only as good as the file system's    *)
(* clock: two writes in one tick give the same stamp, a remote file system   *)
(* may give any.  Files are written and moved at any time, also between the  *)
(* steps of a validation, and validations run concurrently.                  *)
EXTENDS Naturals, FiniteSets

CONSTANTS
    Processes,
    Files,      \* the worker, its executable, and the dependencies
    Contents,
    Calls,      \* what metadata may record: functions from files to contents
    Devices,
    Local,      \* the devices of local file systems, after the mount table
    Precise,    \* those whose change times have a part below the second
    Granule,    \* how long a device's clock may stand still
    Root,       \* the device of the workspace
    Settle,     \* STAMP_SETTLE
    MaxClock,   \* bound: the time
    MaxWrites,  \* bound: writes, removals and moves of files
    None

Times == 0..MaxClock
(* Of a stamp's eight numbers the device and the change time are kept: the   *)
(* others may agree although the content differs.                            *)
Stamps == [device : Devices, ctime : Times]
Entries == [content : Contents, stamp : Stamps]

ASSUME ReceiptAssumption ==
    /\ Calls \subseteq UNION {[files -> Contents] : files \in (SUBSET Files) \ {{}}}
    /\ Local \subseteq Devices /\ Precise \subseteq Devices /\ Root \in Devices
    /\ Settle \in Nat /\ MaxClock \in Nat /\ MaxWrites \in Nat
    /\ Granule \in [Devices -> Nat]
    /\ None \notin Files \cup Contents \cup Stamps \cup Entries

\* What STAMP_SETTLE is chosen for: to outlast the ticks of local clocks.
ASSUME SettleAssumption == \A d \in Local \cap Precise : Granule[d] <= Settle

VARIABLES
    clock,
    file,    \* the files' contents and stamps; None: absent
    receipt, \* the receipt on disk, an entry or None for each file
    call,    \* the validation each process runs
    writes

vars == <<clock, file, receipt, call, writes>>

NoReceipt == [f \in Files |-> None]

Idle == [pc |-> "idle", wanted |-> <<>>, todo |-> {}, now |-> 0, at |-> None, before |-> None,
         reusing |-> FALSE, evidence |-> NoReceipt, used |-> {}, changed |-> FALSE, seen |-> <<>>]

Init ==
    /\ clock = 0
    /\ file \in [Files -> {now \in Entries : now.stamp.ctime = 0}]
    /\ receipt = NoReceipt
    /\ call = [p \in Processes |-> Idle]
    /\ writes = 0

----------------------------------------------------------------------------
(* The world                                                                 *)

Tick ==
    /\ clock < MaxClock /\ clock' = clock + 1
    /\ UNCHANGED <<file, receipt, call, writes>>

\* The change times that a write may leave now.
Given(d) == IF d \in Local THEN {t \in 0..clock : clock - t < Granule[d]} ELSE Times

\* What a running validation could have read of the file.
Seen(f, now) ==
    [p \in Processes |->
        IF f \in DOMAIN call[p].seen /\ now # None
        THEN [call[p] EXCEPT !.seen[f] = @ \cup {now.content}] ELSE call[p]]

Become(f, now) ==
    /\ writes < MaxWrites /\ writes' = writes + 1
    /\ file' = [file EXCEPT ![f] = now]
    /\ call' = Seen(f, now)
    /\ UNCHANGED <<clock, receipt>>

\* Written in place, replaced, or mounted from somewhere else.
Write(f) ==
    \E c \in Contents, d \in Devices : \E t \in Given(d) :
        Become(f, [content |-> c, stamp |-> [device |-> d, ctime |-> t]])
Remove(f) == Become(f, None)

\* The receipt is deleted, or cut short so that it does not parse.
Lose == receipt' = NoReceipt /\ UNCHANGED <<clock, file, call, writes>>

----------------------------------------------------------------------------
(* One validation: aot_metadata_is_current                                   *)

To(p, changed) ==
    /\ call' = [call EXCEPT ![p] = changed]
    /\ UNCHANGED <<clock, file, receipt, writes>>
At(p, step) == call[p].pc = step

\* Cache::load: without a local root there is no receipt to go by.
Load(p) ==
    /\ At(p, "idle")
    /\ \E wanted \in Calls :
         To(p, [Idle EXCEPT
            !.pc = "next", !.wanted = wanted, !.todo = DOMAIN wanted,
            !.reusing = Root \in Local,
            !.evidence = IF Root \in Local THEN receipt ELSE NoReceipt,
            !.seen = [f \in DOMAIN wanted |->
                        IF file[f] = None THEN {} ELSE {file[f].content}]])

\* Cache::matches takes the time before anything else.
Choose(p) ==
    /\ At(p, "next")
    /\ \E f \in call[p].todo :
         To(p, [call[p] EXCEPT !.pc = "stamp", !.at = f, !.now = clock])

\* is_settled
Settled(stamp, now) == stamp.device \in Precise /\ stamp.ctime + Settle < now

\* Mutant of Reusable: the digest is not compared with the one wanted.
ReusableAny(p, stamp) ==
    LET c == call[p]
    IN  /\ c.evidence[c.at] # None /\ c.evidence[c.at].stamp = stamp
        /\ Settled(stamp, c.now)
Reusable(p, stamp) ==
    LET c == call[p]
    IN  /\ c.evidence[c.at] # None /\ c.evidence[c.at].stamp = stamp
        /\ c.evidence[c.at].content = c.wanted[c.at]
        /\ Settled(stamp, c.now)

\* Mutant of Eligible: files of any mount.
EligibleAnywhere(p, f) == call[p].reusing /\ file[f] # None
\* The file has a stamp, of a device whose stamps can be relied on.
Eligible(p, f) ==
    /\ call[p].reusing
    /\ file[f] # None /\ file[f].stamp.device \in Local

Matched(c) == [c EXCEPT !.pc = IF c.todo = {c.at} THEN "save" ELSE "next",
                        !.todo = @ \ {c.at}, !.at = None, !.before = None]

Stamp(p) ==
    /\ At(p, "stamp")
    /\ LET f == call[p].at
       IN  To(p, IF ~Eligible(p, f) THEN [call[p] EXCEPT !.pc = "read"]
                 ELSE LET c == [call[p] EXCEPT !.used = @ \cup {f}]
                      IN  IF Reusable(p, file[f].stamp) THEN Matched(c)
                          ELSE [c EXCEPT !.pc = "read", !.before = file[f].stamp])

\* A file that is absent or different ends the validation, nothing is saved.
Read(p) ==
    /\ At(p, "read")
    /\ LET c == call[p]
       IN  To(p, IF file[c.at] = None \/ file[c.at].content # c.wanted[c.at] THEN Idle
                 ELSE IF c.before = None THEN Matched(c) ELSE [c EXCEPT !.pc = "again"])

\* Mutant of Evidence: a fresh stamp counts as well.
EvidenceFresh(c) ==
    [c EXCEPT !.evidence[c.at] = [content |-> c.wanted[c.at], stamp |-> c.before],
              !.changed = TRUE]
\* What was read is evidence for next time, if the stamp is old enough.
Evidence(c) ==
    IF Settled(c.before, c.now)
    THEN [c EXCEPT !.evidence[c.at] = [content |-> c.wanted[c.at], stamp |-> c.before],
                   !.changed = TRUE]
    ELSE c

Restamp(p) ==
    /\ At(p, "again")
    /\ LET c == call[p]
       IN  To(p, IF file[c.at] # None /\ file[c.at].stamp = c.before
                 THEN Matched(Evidence(c)) ELSE Idle)

\* Cache::save publishes by a rename, if anything changed; it may fail.
Save(p) ==
    /\ At(p, "save")
    /\ receipt' \in {receipt} \cup
         IF call[p].changed
         THEN {[f \in Files |-> IF f \in call[p].used THEN call[p].evidence[f] ELSE None]}
         ELSE {}
    /\ call' = [call EXCEPT ![p] = Idle]
    /\ UNCHANGED <<clock, file, writes>>

\* The process is killed.
Stop(p) == ~At(p, "idle") /\ To(p, Idle)

Next ==
    \/ Tick \/ Lose
    \/ \E f \in Files : Write(f) \/ Remove(f)
    \/ \E p \in Processes :
         Load(p) \/ Choose(p) \/ Stamp(p) \/ Read(p) \/ Restamp(p) \/ Save(p) \/ Stop(p)

Spec == Init /\ [][Next]_vars

----------------------------------------------------------------------------
(* What is promised                                                          *)

Calling == [pc : {"idle", "next", "stamp", "read", "again", "save"},
            wanted : Calls \cup {<<>>}, todo : SUBSET Files, now : Times,
            at : Files \cup {None}, before : Stamps \cup {None}, reusing : BOOLEAN,
            evidence : [Files -> Entries \cup {None}], used : SUBSET Files,
            changed : BOOLEAN, seen : UNION {[files -> SUBSET Contents] : files \in SUBSET Files}]

TypeOK ==
    /\ clock \in Times
    /\ file \in [Files -> Entries \cup {None}]
    /\ receipt \in [Files -> Entries \cup {None}]
    /\ call \in [Processes -> Calling]
    /\ writes \in 0..MaxWrites

(* A validation that answers yes has, for every file, an answer that reading *)
(* the file could have given at some moment of the call: whoever skips the   *)
(* hashing is told what hashing would have told (Cache::matches).            *)
AnswersAsHashing ==
    \A p \in Processes :
        At(p, "save") => \A f \in DOMAIN call[p].wanted : call[p].wanted[f] \in call[p].seen[f]

(* Evidence is never false, on disk or in a process, whichever writes and    *)
(* validations it raced with: an entry whose stamp a local file has now      *)
(* names the content the file has now.  Later processes rely on it           *)
(* (Cache::matches, Cache::save).                                            *)
TrueOf(entry, f) ==
    (/\ entry # None /\ file[f] # None /\ file[f].stamp = entry.stamp
     /\ entry.stamp.device \in Local)
        => file[f].content = entry.content
EvidenceTrue ==
    \A f \in Files :
        /\ TrueOf(receipt[f], f)
        /\ \A p \in Processes : TrueOf(call[p].evidence[f], f)
================================================================================
