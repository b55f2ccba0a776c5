------------------------------- MODULE BlobStore -------------------------------
(* The packed byte store of the analysis cache                               *)
(* (lib/src/indexed_blob_store.dart), shared by worker processes that come   *)
(* and go without telling each other.                                        *)
(*                                                                           *)
(* A store is a directory of generations and a small file `current` that     *)
(* names the one to use.  A generation is a pack: a data file of records, a  *)
(* journal of checksummed entries behind a random stamp, and the lease files *)
(* of its users.  A full pack is replaced by a new generation, seeded with   *)
(* the most recent records; generations nobody leases are removed.  Lookups  *)
(* take no lock at all; writers lock the data file and whoever opens, rolls  *)
(* over or removes generations locks `control`.  Neither lock is waited for: *)
(* a process that finds it taken gives the operation up.                     *)
(*                                                                           *)
(* Every write can be cut short, by a full disk or with the process; the     *)
(* machine may stop and keep a journal whose data is gone.                   *)
EXTENDS Integers, SequencesExt, FiniteSetsExt

CONSTANTS
    Procs,      \* process identifiers, which the system may use again
    MaxLive,    \* bound: processes that run at once
    Keys,
    Puts,       \* the pairs <<key, value>> that are ever put
    Names,      \* generation names; random and never met twice in the code
    Earlier,    \* what earlier processes left: functions from names to packs
    Limit,      \* records a pack takes (maxRecords)
    Seeds,      \* records carried over at a rollover
    MaxPuts,    \* bound: calls of put
    MaxFaults,  \* bound: kills, failed writes and removals, power losses
    None, Torn

ASSUME BlobAssumption ==
    /\ Names \subseteq Nat /\ MaxLive \in Nat \ {0} /\ MaxPuts \in Nat /\ MaxFaults \in Nat
    /\ Limit \in Nat \ {0} /\ Seeds \in 0..(Limit - 1)
    /\ IsFiniteSet(Names) => Cardinality(Names) > MaxLive + 1
    /\ \A put \in Puts : put = <<put[1], put[2]>> /\ put[1] \in Keys
    /\ None \notin Procs /\ None \notin Keys /\ None \notin Nat
    /\ Torn \notin Nat /\ Torn # None

VARIABLES
    dirs,       \* the generations on disk
    current,    \* the name the pointer file holds; None: missing or torn
    job,        \* what each process is doing
    pack,       \* the pack each process has attached, as it sees it
    latched,    \* a failed opening is not tried again by lookups
    puts, faults

vars == <<dirs, current, job, pack, latched, puts, faults>>

Stamps == 1..(MaxLive + 3)

(* A cell of the data file holds a pair of Puts, or Torn where the bytes are *)
(* not those of a record: key, length and checksum tell.  The i-th journal   *)
(* entry points at the i-th record, offsets being contiguous.  `ragged`: an  *)
(* incomplete entry follows the last one.  `leases`: the identifiers of      *)
(* processes that are gone and left their lease file.                        *)
EmptyPack == [data |-> <<>>, stamp |-> None, entries |-> <<>>,
              ragged |-> FALSE, leases |-> {}]

Packs == [data : Seq(Puts \cup {Torn}), stamp : Stamps \cup {None, Torn},
          entries : Seq(Keys), ragged : BOOLEAN, leases : SUBSET Procs]

(* No more generations than a store left by this program has.                *)
ASSUME EarlierAssumption ==
    \A left \in Earlier :
        /\ DOMAIN left \subseteq Names /\ left \in [DOMAIN left -> Packs]
        /\ IsFiniteSet(DOMAIN left) /\ Cardinality(DOMAIN left) <= MaxLive + 1

(* `stage`: "rotate" while a rollover follows the pointer and tries again,   *)
(* "full" once it knows it must allocate, "fresh" in the new generation.     *)
(* `upto`: the journal's length as a running refresh found it.               *)
Resting == [pc |-> "idle", op |-> None, put |-> None, control |-> FALSE,
            stage |-> "plain", target |-> None, batch |-> <<>>, upto |-> 0]

Gone == [Resting EXCEPT !.pc = "dead"]

(* `index` lists the keys of the journal entries read, in order.             *)
Detached == [name |-> None, stamp |-> None, index |-> <<>>, scanned |-> FALSE]

Init ==
    /\ dirs \in Earlier
    /\ current \in DOMAIN dirs \cup {None}
    /\ job = [p \in Procs |-> Gone]
    /\ pack = [p \in Procs |-> Detached]
    /\ latched = [p \in Procs |-> FALSE]
    /\ puts = 0 /\ faults = 0

--------------------------------------------------------------------------------
(* The pack.                                                                 *)

Live == {p \in Procs : job[p].pc # "dead"}
Users(g) == {p \in Live : pack[p].name = g}
Idle(p) == job[p].pc = "idle"

Writing == {"restamp", "cut", "data", "entry"}
DataLocked(g) == \E q \in Users(g) : job[q].pc \in Writing

Offset(view, k) == Max({0} \cup {i \in DOMAIN view.index : view.index[i] = k})

(* What a lookup answers: the record at the indexed offset, if it is there,  *)
(* is whole and is a record of this key.                                     *)
\* Mutant of Lookup: the record found is not bound to the key.
LookupUnbound(view, k) ==
    LET i == Offset(view, k)
        data == dirs[view.name].data
    IN IF view.name # None /\ i \in DOMAIN data /\ data[i] # Torn
       THEN data[i][2] ELSE None

Lookup(view, k) ==
    LET i == Offset(view, k)
        data == dirs[view.name].data
    IN IF view.name # None /\ i \in DOMAIN data /\ data[i] # Torn /\ data[i][1] = k
       THEN data[i][2] ELSE None

Readable(d) == d.stamp \notin {None, Torn}

(* Whether the index read so far still belongs to the journal found.         *)
SameJournal(view, d) ==
    view.stamp = d.stamp /\ Len(d.entries) >= Len(view.index)

Rebased(view, d) ==
    IF ~Readable(d) THEN [view EXCEPT !.stamp = None, !.index = <<>>]
    ELSE IF SameJournal(view, d) THEN view
    ELSE [view EXCEPT !.stamp = d.stamp, !.index = <<>>]

Extended(view, d, upto) ==
    [view EXCEPT !.index = @ \o SubSeq(d.entries, Len(@) + 1, upto)]

(* A new random journal stamp, met nowhere else for this generation.         *)
NewStamp(g) ==
    CHOOSE s \in Stamps : s # dirs[g].stamp /\ \A p \in Users(g) : s # pack[p].stamp

--------------------------------------------------------------------------------
(* The end of an operation and of its coordinated part.                      *)

(* A put scans the journal of a pack it meets first, then locks the data.    *)
PutAt(p) == IF pack[p].scanned THEN "lock" ELSE "header"

(* Coordination is over: an operation that has a pack now goes on.           *)
Left(j, view) ==
    IF j.stage # "plain" \/ view.name = None THEN Resting
    ELSE [j EXCEPT !.control = FALSE, !.target = None, !.pc = "header"]

Leave(p) == job' = [job EXCEPT ![p] = Left(@, pack[p])]

(* The same after an exception, which latches a store without a pack.        *)
Raise(p, view) ==
    /\ job' = [job EXCEPT ![p] = Left(@, view)]
    /\ latched' = [latched EXCEPT ![p] = @ \/ view.name = None]

(* The pointer has been followed: a rollover tries its record again.         *)
Followed(p) ==
    IF job[p].stage = "rotate"
    THEN job' = [job EXCEPT ![p].pc = PutAt(p), ![p].control = TRUE]
    ELSE Leave(p)

(* close(): the lease file goes with its lock.                               *)
Close(p) == pack' = [pack EXCEPT ![p] = Detached]

(* A put that was not stored although the pack has room: the lock was taken  *)
(* or a write failed.  In a new generation the store is closed.              *)
Refuse(p) ==
    IF job[p].stage = "fresh"
    THEN /\ job' = [job EXCEPT ![p].pc = "sweep"]
         /\ Close(p)
         /\ latched' = [latched EXCEPT ![p] = FALSE]
    ELSE job' = [job EXCEPT ![p] = Resting] /\ UNCHANGED <<pack, latched>>

(* The record is stored, or was there: a new generation is published now.    *)
Stored(p) ==
    IF job[p].stage = "fresh" THEN job' = [job EXCEPT ![p].pc = "publish"]
    ELSE job' = [job EXCEPT ![p] = Resting]

(* The pack is full: roll over, or allocate when the rollover is under way.  *)
(* A new generation that has no room is given up.                            *)
Full(p) ==
    IF job[p].stage = "fresh" THEN Refuse(p)
    ELSE /\ job' = IF job[p].stage = "plain"
                   THEN [job EXCEPT ![p].pc = "control", ![p].stage = "rotate"]
                   ELSE [job EXCEPT ![p].pc = "reclaim", ![p].stage = "full"]
         /\ UNCHANGED <<pack, latched>>

--------------------------------------------------------------------------------
(* What a process starts.                                                    *)

Start(p) ==
    /\ p \notin Live /\ Cardinality(Live) < MaxLive
    /\ job' = [job EXCEPT ![p] = Resting]
    /\ UNCHANGED <<dirs, current, pack, latched, puts, faults>>

(* get(): opens the store unless that failed before, and scans the journal   *)
(* once; with that done a lookup changes nothing.                            *)
BeginGet(p) ==
    /\ Idle(p) /\ ~pack[p].scanned
    /\ pack[p].name = None => ~latched[p]
    /\ job' = [job EXCEPT ![p].op = "get",
                   ![p].pc = IF pack[p].name = None THEN "control" ELSE "header"]
    /\ latched' = [latched EXCEPT ![p] = @ \/ pack[p].name = None]
    /\ UNCHANGED <<dirs, current, pack, puts, faults>>

(* refresh() and containsKeySuffix(): follow the pointer, read the journal.  *)
BeginRefresh(p) ==
    /\ Idle(p)
    /\ job' = [job EXCEPT ![p].op = "refresh", ![p].pc = "control"]
    /\ UNCHANGED <<dirs, current, pack, latched, puts, faults>>

(* put(): a store without a pack is opened again whatever happened before.   *)
BeginPut(p, put) ==
    /\ Idle(p) /\ puts < MaxPuts
    /\ puts' = puts + 1
    /\ job' = [job EXCEPT ![p].op = "put", ![p].put = put,
                   ![p].pc = IF pack[p].name = None THEN "control" ELSE PutAt(p)]
    /\ latched' = [latched EXCEPT ![p] = @ \/ pack[p].name = None]
    /\ UNCHANGED <<dirs, current, pack, faults>>

(* A worker that ends in order closes its store.                             *)
Exit(p) ==
    /\ Idle(p)
    /\ job' = [job EXCEPT ![p] = Gone]
    /\ Close(p)
    /\ latched' = [latched EXCEPT ![p] = FALSE]
    /\ UNCHANGED <<dirs, current, puts, faults>>

--------------------------------------------------------------------------------
(* Reading the journal without a lock: its length and stamp, then the rest.  *)

HaveRead(j) ==
    IF j.op = "put" THEN [j EXCEPT !.pc = "lock", !.upto = 0] ELSE Resting

ReadHeader(p) ==
    /\ job[p].pc = "header"
    /\ LET d == dirs[pack[p].name] IN
        /\ pack' = [pack EXCEPT ![p] = [Rebased(@, d) EXCEPT !.scanned = TRUE]]
        /\ job' = [job EXCEPT ![p] =
                    IF Readable(d) THEN [@ EXCEPT !.pc = "entries", !.upto = Len(d.entries)]
                    ELSE HaveRead(@)]
    /\ UNCHANGED <<dirs, current, latched, puts, faults>>

ReadEntries(p) ==
    /\ job[p].pc = "entries"
    /\ LET d == dirs[pack[p].name]
           upto == Min({job[p].upto, Len(d.entries)})
       IN pack' = [pack EXCEPT ![p] = Extended(@, d, upto)]
    /\ job' = [job EXCEPT ![p] = HaveRead(@)]
    /\ UNCHANGED <<dirs, current, latched, puts, faults>>

--------------------------------------------------------------------------------
(* IndexedBlobPack.put().                                                    *)

(* _adoptTail(): read what others published, then cut the journal back to    *)
(* its complete entries.  Data shorter than the journal voids them all.      *)
Adopted(view, d) ==
    LET read == Extended(Rebased(view, d), d, Len(d.entries))
    IN IF Readable(d) /\ Len(d.data) >= Len(read.index) THEN read
       ELSE [read EXCEPT !.stamp = None, !.index = <<>>]

Adopt(p) ==
    LET g == pack[p].name
        d == dirs[g]
        view == Adopted(pack[p], d)
        repair == view.stamp = None \/ d.ragged \/ Len(d.entries) # Len(view.index)
    IN /\ pack' = [pack EXCEPT ![p] = view]
       /\ dirs' = [dirs EXCEPT ![g].entries = view.index, ![g].ragged = FALSE,
                               ![g].stamp = IF view.stamp = None THEN None ELSE @]
       /\ job' = [job EXCEPT ![p].pc = IF repair THEN "restamp" ELSE "cut"]

(* The data file is the writer lock.                                         *)
LockData(p) ==
    /\ job[p].pc = "lock"
    /\ IF DataLocked(pack[p].name) THEN Refuse(p) /\ UNCHANGED dirs
       ELSE Adopt(p) /\ UNCHANGED latched
    /\ UNCHANGED <<current, puts, faults>>

(* A repaired journal gets a new stamp, so that every index of it is void.   *)
Restamp(p) ==
    /\ job[p].pc = "restamp"
    /\ LET g == pack[p].name IN
        /\ pack' = [pack EXCEPT ![p].stamp = NewStamp(g)]
        /\ dirs' = [dirs EXCEPT ![g].stamp = NewStamp(g)]
    /\ job' = [job EXCEPT ![p].pc = "cut"]
    /\ UNCHANGED <<current, latched, puts, faults>>

(* Unpublished data is discarded.  Only then is the key compared: with the   *)
(* same value there is nothing to do, otherwise the pack may be full.        *)
CutData(p) ==
    /\ job[p].pc = "cut"
    /\ LET g == pack[p].name
           kept == Len(pack[p].index)
       IN /\ dirs' = [dirs EXCEPT ![g].data = SubSeq(@, 1, kept)]
          /\ IF Lookup(pack[p], job[p].put[1]) = job[p].put[2]
             THEN Stored(p) /\ UNCHANGED <<pack, latched>>
             ELSE IF kept >= Limit THEN Full(p)
             ELSE job' = [job EXCEPT ![p].pc = "data"] /\ UNCHANGED <<pack, latched>>
    /\ UNCHANGED <<current, puts, faults>>

AppendData(p) ==
    /\ job[p].pc = "data"
    /\ dirs' = [dirs EXCEPT ![pack[p].name].data = Append(@, job[p].put)]
    /\ job' = [job EXCEPT ![p].pc = "entry"]
    /\ UNCHANGED <<current, pack, latched, puts, faults>>

AppendEntry(p) ==
    /\ job[p].pc = "entry"
    /\ dirs' = [dirs EXCEPT ![pack[p].name].entries = Append(@, job[p].put[1])]
    /\ pack' = [pack EXCEPT ![p].index = Append(@, job[p].put[1])]
    /\ Stored(p)
    /\ UNCHANGED <<current, latched, puts, faults>>

--------------------------------------------------------------------------------
(* Under the control lock.                                                   *)

(* With the lock taken the pointer is followed; a process that finds another *)
(* coordinating does without.                                                *)
LockControl(p) ==
    /\ job[p].pc = "control"
    /\ IF \E q \in Live : job[q].control THEN Raise(p, pack[p])
       ELSE /\ UNCHANGED latched
            /\ IF current = None
               THEN job' = [job EXCEPT ![p].pc = "reclaim", ![p].control = TRUE]
               ELSE IF current = pack[p].name THEN Followed(p)
               ELSE job' = [job EXCEPT ![p].pc = "attach", ![p].control = TRUE,
                                       ![p].target = current]
    /\ UNCHANGED <<dirs, current, pack, puts, faults>>

(* The identifier of this process on a lease it does not hold: it belongs to *)
(* a process that is gone, but closing the file could drop locks of this one *)
(* and so it is never opened.                                                *)
Unknown(p, g) == g \in DOMAIN dirs /\ p \in dirs[g].leases

(* Generations that are neither current, nor this process's, nor leased.     *)
\* Mutant of Reclaimable: leases are not looked at.
ReclaimableLeased(p) == DOMAIN dirs \ {current, pack[p].name}

Reclaimable(p) ==
    {g \in DOMAIN dirs \ {current, pack[p].name} : Users(g) = {} /\ ~Unknown(p, g)}

RemoveDirs(gone) == dirs' = [g \in DOMAIN dirs \ gone |-> dirs[g]]

(* Before a generation is allocated: all that can go must be gone.  If it is *)
(* not, a process that follows the pointer stays with the pack it has.       *)
MayAllocate(p, gone) ==
    /\ gone = Reclaimable(p)
    /\ \A g \in DOMAIN dirs \ {current, pack[p].name} : ~Unknown(p, g)

(* Removal of a generation fails, or it succeeds.                            *)
Reclaims(p, gone) ==
    /\ gone \subseteq Reclaimable(p)
    /\ gone # Reclaimable(p) => faults < MaxFaults
    /\ RemoveDirs(gone)
    /\ faults' = IF gone = Reclaimable(p) THEN faults ELSE faults + 1

(* A random name, met nowhere else.                                          *)
FreshName == CHOOSE g \in Names : g \notin DOMAIN dirs

Reclaim(p) ==
    /\ job[p].pc = "reclaim"
    /\ \E gone \in SUBSET DOMAIN dirs :
        /\ Reclaims(p, gone)
        /\ IF MayAllocate(p, gone)
           THEN job' = [job EXCEPT ![p].pc = "attach",
                                   ![p].target = FreshName]
           ELSE Followed(p)
    /\ UNCHANGED <<current, pack, latched, puts>>

(* Reclamation on the way: whether it was complete does not matter.          *)
Sweep(p) ==
    /\ job[p].pc = "sweep"
    /\ \E gone \in SUBSET DOMAIN dirs : Reclaims(p, gone)
    /\ Followed(p)
    /\ UNCHANGED <<current, pack, latched, puts>>

(* _recentRecords(): of the last keys written those that read back, but for  *)
(* the one that is being put; in the order they were written.                *)
Recent(p) ==
    LET view == pack[p]
        latest == {i \in DOMAIN view.index : Offset(view, view.index[i]) = i}
        window == {i \in latest : Cardinality({j \in latest : j > i}) < Seeds}
        kept == {i \in window : /\ view.index[i] # job[p].put[1]
                                /\ Lookup(view, view.index[i]) # None}
        orders == {order \in UNION {[1..n -> kept] : n \in 0..Seeds} :
                    /\ kept = {order[i] : i \in DOMAIN order}
                    /\ \A i, j \in DOMAIN order : i < j => order[i] < order[j]}
    IN {[i \in DOMAIN order |-> <<view.index[order[i]], Lookup(view, view.index[order[i]])>>] :
            order \in orders}

(* _attach(): the directory, a lease in it, and only then the old pack and   *)
(* its lease are let go.  An unknown lease there is an exception, as any     *)
(* failure to create or lock the new one.                                    *)
Attach(p) ==
    /\ job[p].pc = "attach" /\ ~Unknown(p, job[p].target)
    /\ LET g == job[p].target IN
        /\ dirs' = IF g \in DOMAIN dirs THEN [dirs EXCEPT ![g].leases = {}]
                   ELSE [h \in DOMAIN dirs \cup {g} |->
                            IF h = g THEN EmptyPack ELSE dirs[h]]
        /\ pack' = [pack EXCEPT ![p] = [Detached EXCEPT !.name = g]]
        /\ IF g # current /\ job[p].stage = "full"
           THEN \E batch \in Recent(p) :
                    job' = [job EXCEPT ![p].pc = "seed", ![p].stage = "fresh",
                                       ![p].target = None, ![p].batch = batch]
           ELSE job' = [job EXCEPT ![p].pc = IF g = current THEN "sweep" ELSE "publish",
                                   ![p].target = None]
        /\ latched' = [latched EXCEPT ![p] = FALSE]
    /\ UNCHANGED <<current, puts, faults>>

CannotAttach(p) ==
    /\ job[p].pc = "attach"
    /\ \/ Unknown(p, job[p].target) /\ UNCHANGED <<dirs, puts, faults>>
       \/ /\ faults < MaxFaults /\ faults' = faults + 1
          /\ dirs' = [h \in DOMAIN dirs \cup {job[p].target} |->
                        IF h \in DOMAIN dirs THEN dirs[h] ELSE EmptyPack]
    /\ Raise(p, pack[p])
    /\ UNCHANGED <<current, pack, puts>>

(* Data, stamp and journal of a generation no one else can see yet.          *)
Seeded(g, batch, stamp) ==
    [dirs EXCEPT ![g].data = batch, ![g].stamp = stamp,
                 ![g].entries = [i \in DOMAIN batch |-> batch[i][1]]]

Seed(p) ==
    /\ job[p].pc = "seed"
    /\ dirs' = IF job[p].batch = <<>> THEN dirs
               ELSE Seeded(pack[p].name, job[p].batch, NewStamp(pack[p].name))
    /\ job' = [job EXCEPT ![p].pc = "header", ![p].batch = <<>>]
    /\ UNCHANGED <<current, pack, latched, puts, faults>>

Publish(p) ==
    /\ job[p].pc = "publish"
    /\ current' = pack[p].name
    /\ IF job[p].stage = "fresh" THEN job' = [job EXCEPT ![p].pc = "sweep"]
       ELSE Followed(p)
    /\ UNCHANGED <<dirs, pack, latched, puts, faults>>

--------------------------------------------------------------------------------
(* Faults.                                                                   *)

(* What the disk may hold when the write a process is about to make is cut   *)
(* short: a part that does not check, or of an entry nothing at all.         *)
CutShort(p) ==
    LET g == pack[p].name
        Disk(d) == [dirs |-> d, current |-> current]
    IN CASE job[p].pc = "data" ->
                {Disk([dirs EXCEPT ![g].data = Append(@, Torn)])}
         [] job[p].pc = "entry" ->
                {Disk(dirs), Disk([dirs EXCEPT ![g].ragged = TRUE])}
         [] job[p].pc = "restamp" ->
                {Disk([dirs EXCEPT ![g].stamp = Torn])}
         [] job[p].pc = "seed" /\ job[p].batch # <<>> ->
                {Disk([dirs EXCEPT ![g].data = <<Torn>>]),
                 Disk([dirs EXCEPT ![g].data = job[p].batch, ![g].stamp = Torn]),
                 Disk([dirs EXCEPT ![g].data = job[p].batch, ![g].ragged = TRUE,
                                   ![g].stamp = NewStamp(g)])}
         [] job[p].pc = "publish" -> {[dirs |-> dirs, current |-> None]}
         [] OTHER -> {}

(* The write fails and the process goes on.  Failing to write the pointer is *)
(* an exception that closes the store first; a failed seed is left to the    *)
(* put that follows.                                                         *)
WriteFails(p) ==
    /\ faults < MaxFaults
    /\ \E disk \in CutShort(p) : dirs' = disk.dirs /\ current' = disk.current
    /\ CASE job[p].pc = "publish" -> Close(p) /\ Raise(p, Detached)
         [] job[p].pc = "seed" ->
                /\ job' = [job EXCEPT ![p].pc = "header", ![p].batch = <<>>]
                /\ UNCHANGED <<pack, latched>>
         [] OTHER -> Refuse(p)
    /\ faults' = faults + 1
    /\ UNCHANGED puts

(* The process is killed, perhaps in the middle of a write: the system drops *)
(* its locks and its lease files stay.                                       *)
Kill(p) ==
    /\ faults < MaxFaults /\ p \in Live
    /\ \E disk \in CutShort(p) \cup {[dirs |-> dirs, current |-> current]} :
        /\ current' = disk.current
        /\ dirs' = IF pack[p].name = None THEN disk.dirs
                   ELSE [disk.dirs EXCEPT ![pack[p].name].leases = @ \cup {p}]
    /\ job' = [job EXCEPT ![p] = Gone]
    /\ pack' = [pack EXCEPT ![p] = Detached]
    /\ latched' = [latched EXCEPT ![p] = FALSE]
    /\ faults' = faults + 1
    /\ UNCHANGED puts

(* Nothing is synchronised: the machine stops with journals on disk whose    *)
(* records are not, missing at the end or never filled in.                   *)
PowerLoss ==
    /\ faults < MaxFaults
    /\ \E g \in DOMAIN dirs, n \in 1..Limit :
        /\ n <= Len(dirs[g].data)
        /\ \E data \in {SubSeq(dirs[g].data, 1, n - 1), [dirs[g].data EXCEPT ![n] = Torn]} :
            dirs' = [h \in DOMAIN dirs |->
                        [dirs[h] EXCEPT !.data = IF h = g THEN data ELSE @,
                                        !.leases = @ \cup Users(h)]]
    /\ job' = [p \in Procs |-> Gone]
    /\ pack' = [p \in Procs |-> Detached]
    /\ latched' = [p \in Procs |-> FALSE]
    /\ faults' = faults + 1
    /\ UNCHANGED <<current, puts>>

Next ==
    \/ \E p \in Procs :
        \/ Start(p) \/ Exit(p)
        \/ BeginGet(p) \/ BeginRefresh(p) \/ (\E put \in Puts : BeginPut(p, put))
        \/ ReadHeader(p) \/ ReadEntries(p)
        \/ LockData(p) \/ Restamp(p) \/ CutData(p)
        \/ AppendData(p) \/ AppendEntry(p)
        \/ LockControl(p) \/ Reclaim(p) \/ Sweep(p)
        \/ Attach(p) \/ CannotAttach(p) \/ Seed(p) \/ Publish(p)
        \/ WriteFails(p) \/ Kill(p)
    \/ PowerLoss

Spec == Init /\ [][Next]_vars

--------------------------------------------------------------------------------
(* What the store promises.                                                  *)

TypeOK ==
    /\ DOMAIN dirs \subseteq Names
    /\ \A g \in DOMAIN dirs :
        /\ dirs[g].data \in Seq(Puts \cup {Torn})
        /\ dirs[g].entries \in Seq(Keys)
        /\ dirs[g].stamp \in Stamps \cup {None, Torn}
        /\ dirs[g].ragged \in BOOLEAN /\ dirs[g].leases \subseteq Procs
    /\ current \in Names \cup {None}
    /\ \A p \in Procs :
        /\ pack[p].name \in DOMAIN dirs \cup {None}
        /\ pack[p].stamp \in Stamps \cup {None}
        /\ pack[p].index \in Seq(Keys)
    /\ latched \in [Procs -> BOOLEAN] /\ puts \in 0..MaxPuts /\ faults \in 0..MaxFaults

(* Whatever was torn, repaired, emptied or begun again under a process that  *)
(* keeps its old index: a lookup answers a value that was put under that     *)
(* very key, or nothing.                                                     *)
AnswersTrue ==
    \A p \in Live, k \in Keys :
        Lookup(pack[p], k) # None => <<k, Lookup(pack[p], k)>> \in Puts

(* "Completed prefixes are immutable": while a process uses a generation its *)
(* published entries are neither cut nor replaced, and the generation is not *)
(* removed - unless the journal's own stamp was torn by a failed repair or   *)
(* its records were lost with the machine.                                   *)
Whole(d) == Readable(d) /\ Len(d.data) >= Len(d.entries)

PublishedKept ==
    [][\A g \in DOMAIN dirs :
        (Whole(dirs[g]) /\ \E p \in Users(g) : pack'[p].name = g)
            => g \in DOMAIN dirs' /\ IsPrefix(dirs[g].entries, dirs'[g].entries)]_vars

(* The stamp tells whether an index is still good: a process whose stamp is  *)
(* the journal's has read a beginning of that journal and nothing else, so   *)
(* that it sees all of it by reading on.                                     *)
StampBindsIndex ==
    \A p \in Live :
        LET g == pack[p].name IN
        (g # None /\ pack[p].stamp # None /\ pack[p].stamp = dirs[g].stamp)
            => IsPrefix(pack[p].index, dirs[g].entries)

(* Generations do not pile up: one per running process and one more, whoever *)
(* was killed at whatever moment and whatever could not be removed.          *)
GenerationsBounded == Cardinality(DOMAIN dirs) <= MaxLive + 1

================================================================================
