------------------------------ MODULE CommitRecovery ------------------------------
(***************************************************************************)
(* Publication of one build's outputs and graph under the undo journal of  *)
(* rust/src/build/recovery.rs and rust/src/build/commit.rs, and its        *)
(* recovery by the next command.                                           *)
(*                                                                         *)
(* The module follows one workspace.  The workspace lock keeps a second    *)
(* native command out, so there is one running command (pc, mode, plan,    *)
(* todo, undo: its memory) and one set of files that outlive it (disk,     *)
(* graph, temp, backup, savedGraph, pending, journal).  A command may stop *)
(* between any two file operations, killed or by an I/O error; external    *)
(* writers edit destinations, occupy temporary names and damage backups.   *)
(*                                                                         *)
(* Data that no property tells apart is abstracted: a file holds a member  *)
(* of Content, a digest is the content it is the digest of, an absent      *)
(* graph file is the empty graph, and the loops over sorted maps visit     *)
(* their elements in any order.                                            *)
(***************************************************************************)
EXTENDS Naturals

CONSTANTS Output,      \* destinations that builders own
          Cached,      \* those below the private artifact tree
          Source,      \* handwritten files a build may edit (part directives)
          Content,     \* file contents
          Absent,      \* "there is no file"
          Lost,        \* a backup that is missing or whose checksum fails
          GraphFile,   \* the graph, where it is treated as one more destination
          MaxBuilds,   \* bound: publications attempted
          MaxFaults,   \* bound: commands killed or failed
          MaxEdits,    \* bound: external edits of destinations and temporaries
          MaxDamages,  \* bound: backups lost
          MaxEvents    \* bound: all of these together

Path  == Output \cup Source
File  == Path \cup {GraphFile}
Value == Content \cup {Absent}

ASSUME ContentAssumption == Absent \notin Content /\ Lost \notin Value
ASSUME PathAssumption == Output \cap Source = {} /\ GraphFile \notin Path
ASSUME CacheAssumption == Cached \subseteq Output
ASSUME BoundAssumption ==
    {MaxBuilds, MaxFaults, MaxEdits, MaxDamages, MaxEvents} \subseteq Nat

Graph == [Path -> Value]                       \* what a graph records
Entry == [before : Value, after : Value]       \* one journal entry
Entries == UNION {[S -> Entry] : S \in SUBSET Path}
NoEntries == [p \in {} |-> Absent]
EmptyGraph == [p \in Path |-> Absent]
NoJournal == [entries |-> NoEntries, graph |-> EmptyGraph]

\* The staged result of a build: deletions, output writes, source edits, the
\* bytes to write, the source contents seen when the build began, whether the
\* artifact tree is discarded, and the files found in it.
Plan == { p \in [del : SUBSET Output, wr : SUBSET Output, ed : SUBSET Source,
                 new : UNION {[S -> Content] : S \in SUBSET Path},
                 snap : [Source -> Value], clean : BOOLEAN, old : SUBSET Cached] :
            DOMAIN p.new = p.wr \cup p.ed }
NoPlan == [del |-> {}, wr |-> {}, ed |-> {}, new |-> NoEntries,
           snap |-> [s \in Source |-> Absent], clean |-> FALSE, old |-> {}]

Recovering == {"check", "sweep", "restore", "restoreGraph", "rolledBack"}
Publishing == {"collect", "reserve", "backup", "journal", "clean", "delete",
               "write", "edit", "saveGraph", "published"}
Pc == {"idle", "load", "plan"} \cup Recovering \cup Publishing

VARIABLES
    disk,        \* contents of every destination
    graph,       \* the graph file: recorded digest of every destination
    temp,        \* the reserved sibling temporary of every file
    backup,      \* undo copies of destinations
    savedGraph,  \* undo copy of the graph
    pending,     \* does journal.json exist?
    journal,     \* its contents
    pc,          \* where the running command is
    mode,        \* "build", or "verify" for --only-check
    plan,        \* the staged transaction
    todo,        \* the destinations the current loop has not handled yet
    undo,        \* journal entries prepared in memory
    overlap,     \* do edits of this behaviour fall into builds as well?
    builds, faults, edits, damages

durable == <<disk, graph, temp, backup, savedGraph, pending, journal>>
memory  == <<pc, mode, plan, todo, undo>>
bounds  == <<overlap, builds, faults, edits, damages>>
vars    == <<durable, memory, bounds>>

DurableOK ==
    /\ disk \in [Path -> Value]
    /\ graph \in Graph
    /\ temp \in [File -> {"none", "own", "foreign"}]
    /\ backup \in [Path -> Content \cup {Lost}]
    /\ savedGraph \in Graph \cup {Lost}
    /\ pending \in BOOLEAN
    /\ journal \in [entries : Entries, graph : Graph]

MemoryOK ==
    /\ pc \in Pc
    /\ mode \in {"build", "verify"}
    /\ plan \in Plan
    /\ todo \in SUBSET File
    /\ undo \in Entries

BoundsOK ==
    /\ overlap \in BOOLEAN
    /\ builds \in 0..MaxBuilds
    /\ faults \in 0..MaxFaults
    /\ edits \in 0..MaxEdits
    /\ damages \in 0..MaxDamages

\* Every variable keeps its type.
TypeOK == DurableOK /\ MemoryOK /\ BoundsOK

Init ==
    /\ disk \in [Path -> Value]
    /\ graph = disk
    /\ temp = [f \in File |-> "none"]
    /\ backup = [p \in Path |-> Lost]
    /\ savedGraph = Lost
    /\ pending = FALSE
    /\ journal = NoJournal
    /\ pc = "idle" /\ mode = "build" /\ plan = NoPlan /\ todo = {} /\ undo = NoEntries
    /\ overlap \in BOOLEAN
    /\ builds = 0 /\ faults = 0 /\ edits = 0 /\ damages = 0

-----------------------------------------------------------------------------
(* Helpers *)

journaled == DOMAIN journal.entries
deletions == plan.del \cup plan.old
changes   == deletions \cup plan.wr \cup plan.ed
discarded == IF plan.clean THEN Cached ELSE {}

\* The command leaves its publication or recovery: its memory is gone.
Stop == /\ pc' = "idle"
        /\ mode' = "build"
        /\ plan' = NoPlan
        /\ todo' = {}
        /\ undo' = NoEntries

Goto(next, set) == pc' = next /\ todo' = set /\ UNCHANGED <<mode, plan, undo>>

Done(p) == todo' = todo \ {p} /\ UNCHANGED <<pc, mode, plan, undo>>

\* backup(): the copy is needed only where a file existed, and must be intact.
Intact(p) == journal.entries[p].before \in Content => backup[p] = journal.entries[p].before

\* Mutant: a destination that publication had deleted counts as an edit.
EvidenceValidPresent ==
    /\ \A p \in journaled :
        /\ disk[p] \in {journal.entries[p].before, journal.entries[p].after}
        /\ Intact(p)
    /\ savedGraph = journal.graph

\* Mutant: recovery trusts whatever the destinations hold.
EvidenceValidUnread == (\A p \in journaled : Intact(p)) /\ savedGraph = journal.graph

\* The evidence recover() demands before it touches anything.
EvidenceValid ==
    /\ \A p \in journaled :
        /\ disk[p] \in {Absent, journal.entries[p].before, journal.entries[p].after}
        /\ Intact(p)
    /\ savedGraph = journal.graph

\* write_output, first half: create_new on the reserved temporary.
CreateTemp(f) ==
    /\ temp[f] = "none"
    /\ temp' = [temp EXCEPT ![f] = "own"]
    /\ UNCHANGED <<disk, graph, backup, savedGraph, pending, journal, memory>>

\* write_output, second half: the rename over the destination.
RenameOver(p, v) ==
    /\ temp[p] = "own"
    /\ temp' = [temp EXCEPT ![p] = "none"]
    /\ disk' = [disk EXCEPT ![p] = v]
    /\ UNCHANGED <<graph, backup, savedGraph, pending, journal>>

\* One file is written at a time.
Writing == \E f \in File : temp[f] = "own"

-----------------------------------------------------------------------------
(* Start of a command, and what it loads *)

\* --only-check refuses an interrupted commit; a build goes on to recover it.
Start(m) ==
    /\ pc = "idle"
    /\ m = "verify" => ~pending
    /\ pc' = "load" /\ mode' = m
    /\ UNCHANGED <<plan, todo, undo, durable>>

Load ==
    /\ pc = "load"
    /\ Goto(IF pending THEN "check" ELSE "plan", {})
    /\ UNCHANGED durable

\* Every destination, temporary and backup is validated before any change.
Check ==
    /\ pc = "check"
    /\ IF EvidenceValid THEN Goto("sweep", journaled \cup {GraphFile}) ELSE Stop
    /\ UNCHANGED durable

Sweep(f) ==
    /\ pc = "sweep" /\ f \in todo
    /\ temp' = [temp EXCEPT ![f] = "none"]
    /\ Done(f)
    /\ UNCHANGED <<disk, graph, backup, savedGraph, pending, journal>>

Swept ==
    /\ pc = "sweep" /\ todo = {}
    /\ Goto("restore", journaled)
    /\ UNCHANGED durable

\* Mutant: an entry whose backup fails its second check is skipped.
RestoreSkipped(p) ==
    /\ pc = "restore" /\ p \in todo /\ ~Writing /\ ~Intact(p)
    /\ Done(p)
    /\ UNCHANGED durable

\* Each backup is checked again when its turn comes.
RestoreRefused(p) ==
    /\ pc = "restore" /\ p \in todo /\ ~Writing /\ ~Intact(p)
    /\ Stop
    /\ UNCHANGED durable

RestoreInPlace(p) ==
    /\ pc = "restore" /\ p \in todo /\ ~Writing /\ Intact(p)
    /\ journal.entries[p].before \in {disk[p], Absent}
    /\ disk' = [disk EXCEPT ![p] = journal.entries[p].before]
    /\ Done(p)
    /\ UNCHANGED <<graph, temp, backup, savedGraph, pending, journal>>

RestoreCreate(p) ==
    /\ pc = "restore" /\ p \in todo /\ ~Writing /\ Intact(p)
    /\ journal.entries[p].before \notin {disk[p], Absent}
    /\ CreateTemp(p)

RestoreRename(p) ==
    /\ pc = "restore" /\ p \in todo
    /\ RenameOver(p, journal.entries[p].before)
    /\ Done(p)

\* Mutant: rollback forgets the graph.
RestoredWithoutGraph ==
    /\ pc = "restore" /\ todo = {}
    /\ Goto("rolledBack", {})
    /\ UNCHANGED durable

Restored ==
    /\ pc = "restore" /\ todo = {}
    /\ Goto("restoreGraph", {})
    /\ UNCHANGED durable

RestoreGraphCreate ==
    /\ pc = "restoreGraph" /\ graph # journal.graph
    /\ CreateTemp(GraphFile)

RestoreGraphRename ==
    /\ pc = "restoreGraph" /\ temp[GraphFile] = "own"
    /\ temp' = [temp EXCEPT ![GraphFile] = "none"]
    /\ graph' = journal.graph
    /\ UNCHANGED <<disk, backup, savedGraph, pending, journal, memory>>

GraphRestored ==
    /\ pc = "restoreGraph" /\ graph = journal.graph /\ ~Writing
    /\ Goto("rolledBack", {})
    /\ UNCHANGED durable

\* finish(): the unlink is the commit point; the clean-up after it removes
\* any part of the undo directory, or none of it.
Unlink ==
    /\ pending' = FALSE
    /\ journal' = NoJournal
    /\ \E gone \in SUBSET File :
        /\ backup' = [p \in Path |-> IF p \in gone THEN Lost ELSE backup[p]]
        /\ savedGraph' = IF GraphFile \in gone THEN Lost ELSE savedGraph
    /\ UNCHANGED <<disk, graph, temp>>

FinishRecovery == pc = "rolledBack" /\ Unlink /\ Goto("plan", {})

-----------------------------------------------------------------------------
(* The build, up to the journal *)

\* --only-check runs the same plan and compares; it publishes nothing.
Verify == pc = "plan" /\ mode = "verify" /\ Stop /\ UNCHANGED durable

\* Nothing to run: only the snapshot the graph keeps of the sources moves.
NoWork ==
    /\ pc = "plan" /\ mode = "build"
    /\ graph' = [p \in Path |-> IF p \in Source THEN disk[p] ELSE graph[p]]
    /\ Stop
    /\ UNCHANGED <<disk, temp, backup, savedGraph, pending, journal>>

\* All actions ran and the transaction is staged.  A path both deleted and
\* written is one whose obsolete file goes first (remove_first).  The artifact
\* tree is discarded where there was no usable graph, and by a filtered build
\* under another configuration (PendingTransaction::new, filtered.rs).
Execute(del, wr, ed, new, clean) ==
    /\ pc = "plan" /\ mode = "build" /\ builds < MaxBuilds
    /\ \A s \in ed : disk[s] \in Content /\ new[s] # disk[s]
    /\ plan' = [del |-> del, wr |-> wr, ed |-> ed, new |-> new,
                snap |-> [s \in Source |-> disk[s]], clean |-> clean, old |-> {}]
    /\ pc' = IF clean THEN "collect" ELSE "reserve"
    /\ UNCHANGED <<mode, todo, undo, durable>>

\* collect_cache_deletions: what the artifact tree holds before it is discarded.
Collect ==
    /\ pc = "collect"
    /\ plan' = [plan EXCEPT !.old = {p \in discarded : disk[p] # Absent}]
    /\ pc' = "reserve"
    /\ UNCHANGED <<mode, todo, undo, durable>>

\* Mutant: the reserved names are not checked.
ReservableAlways == ~pending /\ \A s \in plan.ed : disk[s] = plan.snap[s]

\* prepare(), checks: no journal, sources as they were read, and every
\* temporary name free, the graph's included.
Reservable ==
    /\ ~pending
    /\ \A s \in plan.ed : disk[s] = plan.snap[s]
    /\ \A f \in changes \cup {GraphFile} : temp[f] = "none"

Reserve ==
    /\ pc = "reserve"
    /\ IF changes = {} \/ Reservable THEN Goto("backup", changes) ELSE Stop
    /\ UNCHANGED durable

After(p) == IF p \in plan.wr \cup plan.ed THEN plan.new[p] ELSE Absent

\* Mutant: equal bytes are skipped although a deletion goes first.
UnchangedBytes(p) == disk[p] = After(p)

\* Equal bytes need no publication, unless a deletion goes first.
Unchanged(p) == p \notin deletions /\ disk[p] = After(p)

BackUp(p) ==
    /\ pc = "backup" /\ p \in todo
    /\ IF Unchanged(p)
       THEN UNCHANGED <<undo, backup>>
       ELSE /\ undo' = [q \in DOMAIN undo \cup {p} |->
                          IF q = p THEN [before |-> disk[p], after |-> After(p)]
                                   ELSE undo[q]]
            /\ backup' = IF disk[p] \in Content
                         THEN [backup EXCEPT ![p] = disk[p]] ELSE backup
    /\ todo' = todo \ {p}
    /\ UNCHANGED <<pc, mode, plan, disk, graph, temp, savedGraph, pending, journal>>

NothingToJournal ==
    /\ pc = "backup" /\ todo = {} /\ DOMAIN undo = {}
    /\ Goto("clean", discarded)
    /\ UNCHANGED durable

BackUpGraph ==
    /\ pc = "backup" /\ todo = {} /\ DOMAIN undo # {}
    /\ savedGraph' = graph
    /\ Goto("journal", {})
    /\ UNCHANGED <<disk, graph, temp, backup, pending, journal>>

PublishJournal ==
    /\ pc = "journal"
    /\ pending' = TRUE
    /\ journal' = [entries |-> undo, graph |-> graph]
    /\ pc' = "clean" /\ todo' = discarded /\ undo' = NoEntries
    /\ UNCHANGED <<mode, plan, disk, graph, temp, backup, savedGraph>>

-----------------------------------------------------------------------------
(* Publication under the journal *)

\* remove_dir_all on the artifact tree: each file that is there when its turn
\* comes, the journaled ones and any that others have put there since.
Clean(p) ==
    /\ pc = "clean" /\ p \in todo
    /\ disk' = [disk EXCEPT ![p] = Absent]
    /\ temp' = [temp EXCEPT ![p] = "none"]
    /\ Done(p)
    /\ UNCHANGED <<graph, backup, savedGraph, pending, journal>>

\* A directory into which something was put after its files were removed is
\* not empty, which is an error.
Emptied == \A p \in discarded : disk[p] = Absent /\ temp[p] = "none"

Cleaned ==
    /\ pc = "clean" /\ todo = {}
    /\ IF Emptied THEN Goto("delete", plan.del) ELSE Stop
    /\ UNCHANGED durable

Delete(p) ==
    /\ pc = "delete" /\ p \in todo
    /\ disk' = [disk EXCEPT ![p] = Absent]
    /\ Done(p)
    /\ UNCHANGED <<graph, temp, backup, savedGraph, pending, journal>>

Deleted ==
    /\ pc = "delete" /\ todo = {}
    /\ Goto("write", plan.wr \cap journaled)
    /\ UNCHANGED durable

WriteCreate(p) ==
    /\ pc = "write" /\ p \in todo /\ ~Writing
    /\ CreateTemp(p)

Written ==
    /\ pc = "write" /\ todo = {}
    /\ Goto("edit", plan.ed)
    /\ UNCHANGED durable

\* The source is read again just before it is replaced; one whose bytes were
\* already right when the journal was prepared is left alone.
EditCreate(s) ==
    /\ pc = "edit" /\ s \in todo /\ ~Writing
    /\ disk[s] = plan.snap[s]
    /\ IF s \in journaled THEN CreateTemp(s) ELSE Done(s) /\ UNCHANGED durable

EditRefused(s) ==
    /\ pc = "edit" /\ s \in todo /\ ~Writing
    /\ disk[s] # plan.snap[s]
    /\ Stop
    /\ UNCHANGED durable

WriteRename(p) ==
    /\ pc \in {"write", "edit"} /\ p \in todo
    /\ RenameOver(p, plan.new[p])
    /\ Done(p)

\* A file someone put at a reserved name since: create_new fails.
WriteRefused(p) ==
    /\ pc \in {"write", "edit"} /\ p \in todo /\ temp[p] = "foreign"
    /\ Stop
    /\ UNCHANGED durable

\* Mutant: the journal is unlinked although the graph is not saved yet.
EditedWithoutGraph ==
    /\ pc = "edit" /\ todo = {}
    /\ IF pending THEN Goto("published", {}) ELSE Stop
    /\ UNCHANGED durable

Edited ==
    /\ pc = "edit" /\ todo = {}
    /\ Goto("saveGraph", {})
    /\ UNCHANGED durable

\* What the saved graph records: the digests of the outputs this build wrote,
\* nothing of a discarded one it did not write, the contents sources had when it
\* began, and, for the sources it edited, what the scan after publication finds.
NewGraph == [p \in Path |->
    CASE p \in plan.wr -> plan.new[p]
      [] p \in (plan.del \cup discarded) \ plan.wr -> Absent
      [] p \in plan.ed -> disk[p]
      [] p \in Source \ plan.ed -> plan.snap[p]
      [] OTHER -> graph[p]]

SaveGraph ==
    /\ pc = "saveGraph"
    /\ graph' = NewGraph
    /\ IF pending THEN Goto("published", {}) ELSE Stop
    /\ UNCHANGED <<disk, temp, backup, savedGraph, pending, journal>>

FinishCommit == pc = "published" /\ Unlink /\ Stop

-----------------------------------------------------------------------------
(* Faults and external writers *)

Fail == pc # "idle" /\ faults < MaxFaults /\ Stop /\ UNCHANGED durable

EditAllowed == pc = "idle" \/ (overlap /\ pc \notin Recovering)

ExternalEdit(p, v) ==
    /\ EditAllowed /\ edits < MaxEdits /\ disk[p] # v
    /\ disk' = [disk EXCEPT ![p] = v]
    /\ UNCHANGED <<graph, temp, backup, savedGraph, pending, journal, memory>>

ExternalTemp(f) ==
    /\ EditAllowed /\ edits < MaxEdits /\ temp[f] # "own"
    /\ temp' = [temp EXCEPT ![f] = IF temp[f] = "none" THEN "foreign" ELSE "none"]
    /\ UNCHANGED <<disk, graph, backup, savedGraph, pending, journal, memory>>

DamageBackup(p) ==
    /\ damages < MaxDamages /\ backup[p] # Lost
    /\ backup' = [backup EXCEPT ![p] = Lost]
    /\ UNCHANGED <<disk, graph, temp, savedGraph, pending, journal, memory>>

DamageGraphBackup ==
    /\ damages < MaxDamages /\ savedGraph # Lost
    /\ savedGraph' = Lost
    /\ UNCHANGED <<disk, graph, temp, backup, pending, journal, memory>>

-----------------------------------------------------------------------------
Recover ==
    \/ Check \/ Swept \/ Restored \/ RestoreGraphCreate \/ RestoreGraphRename
    \/ GraphRestored \/ FinishRecovery
    \/ \E f \in File : Sweep(f)
    \/ \E p \in Path : RestoreRefused(p) \/ RestoreInPlace(p) \/ RestoreCreate(p)
                       \/ RestoreRename(p)

Commit ==
    \/ Collect \/ Reserve \/ NothingToJournal \/ BackUpGraph \/ PublishJournal \/ Cleaned
    \/ Deleted \/ Written \/ Edited \/ SaveGraph \/ FinishCommit
    \/ \E p \in Path : BackUp(p) \/ Clean(p) \/ Delete(p) \/ WriteCreate(p) \/ WriteRename(p)
                       \/ WriteRefused(p) \/ EditCreate(p) \/ EditRefused(p)

Stage ==
    \E del, wr \in SUBSET Output, ed \in SUBSET Source, clean \in BOOLEAN :
        \E new \in [wr \cup ed -> Content] : Execute(del, wr, ed, new, clean)

Proceed == (Load \/ Recover \/ Verify \/ NoWork \/ Commit) /\ UNCHANGED bounds

Begin == (\E m \in {"build", "verify"} : Start(m)) /\ UNCHANGED bounds

\* To overlap counts for one event, so that such behaviours are shorter.
Bounded == builds + faults + edits + damages + (IF overlap THEN 1 ELSE 0) < MaxEvents

Execution == Bounded /\ Stage /\ builds' = builds + 1 /\ UNCHANGED <<overlap, faults, edits, damages>>

Fault == Bounded /\ Fail /\ faults' = faults + 1 /\ UNCHANGED <<overlap, builds, edits, damages>>

ExternalWrite ==
    /\ Bounded
    /\ \/ \E p \in Path, v \in Value : ExternalEdit(p, v)
       \/ \E f \in File : ExternalTemp(f)
    /\ edits' = edits + 1 /\ UNCHANGED <<overlap, builds, faults, damages>>

Damage ==
    /\ Bounded
    /\ (\E p \in Path : DamageBackup(p)) \/ DamageGraphBackup
    /\ damages' = damages + 1 /\ UNCHANGED <<overlap, builds, faults, edits>>

Command == Begin \/ Proceed \/ Execution

Next == Command \/ Fault \/ ExternalWrite \/ Damage

Spec == Init /\ [][Next]_vars

\* A command that runs keeps running, and someone runs an ordinary build again.
Fairness == WF_vars(Proceed) /\ WF_vars(Begin /\ mode' = "build")

FairSpec == Spec /\ Fairness

-----------------------------------------------------------------------------
(* Properties *)

\* While a journal is on disk, rollback is possible: every destination that
\* existed, and the graph, has its old contents in the undo directory, unless
\* someone damaged it there (prepare publishes the journal last).
RollbackPossible ==
    pending /\ damages = 0 => /\ \A p \in journaled : Intact(p)
                            /\ savedGraph = journal.graph

\* A partial temporary of this program is never orphaned: the journal on disk
\* names its destination, so recovery will remove it (write_output, recover).
TempsReserved ==
    \A f \in File : temp[f] = "own" => pending /\ f \in journaled \cup {GraphFile}

\* The tree and graph a reader would get after recovering.
CommittedFiles == [p \in Path |-> IF pending /\ p \in journaled
                                  THEN journal.entries[p].before ELSE disk[p]]
CommittedGraph == IF pending THEN journal.graph ELSE graph

\* Without external edits the graph describes the tree exactly, at every step
\* of every command, through kills, errors and failed recoveries.
GraphDescribesTree == edits = 0 => CommittedFiles = CommittedGraph

\* A file that was put into the artifact tree, by someone who edits during
\* builds, after the files to discard were collected.
LateArtifact(p) == overlap /\ pc = "clean" /\ p \in discarded \ plan.old

\* Only a journal that is on disk and names it lets a command change a
\* destination, so that whatever is deleted or written could be put back.  The
\* one exception are late files in an artifact tree that is discarded as a whole.
OnlyJournaledChange ==
    [][ Command => \A p \in Path :
            disk'[p] # disk[p] => \/ pending /\ pending' /\ p \in journaled
                                  \/ LateArtifact(p) ]_vars

\* Recovery never replaces an edit someone made after the interruption or
\* during the publication: what it overwrites is absent or one of the two
\* contents the journal names.
EditsSurviveRecovery ==
    [][ Recover => \A p \in Path :
            disk'[p] # disk[p] =>
                disk[p] \in {journal.entries[p].before, journal.entries[p].after, Absent} ]_vars

\* Rollback ends with the tree and graph of the journal, whatever happened to
\* the backups meanwhile: no lost backup is ever restored as an empty file.
RollbackRestoresAll ==
    pc = "rolledBack" => /\ \A p \in journaled : disk[p] = journal.entries[p].before
                         /\ graph = journal.graph

\* --only-check leaves outputs, graph and undo state as they are
\* (require_clean_verification, commit_inner).
VerifyReadOnly == [][ mode = "verify" /\ Command => UNCHANGED durable ]_vars

\* Where nobody writes during builds, a journal reserves only names that are free
\* when it appears, so what a recovery sweeps is no file that stood there before.
ReservedNamesFree ==
    [][ ~overlap /\ ~pending /\ pending' =>
            \A f \in DOMAIN journal'.entries \cup {GraphFile} : temp'[f] = "none" ]_vars

\* What the graph records of a source is something a build has acted on: the
\* contents at its start, or the edit it made itself.  Otherwise a later edit
\* would look already incorporated ("so the queued event still makes them
\* dirty next cycle", commit.rs:320).  No run has it: TLC refutes it with three
\* contents and an edit that overlaps the build (README, observations).
SourceEvidenceActedOn ==
    [][ SaveGraph => \A s \in Source :
            graph'[s] \in {plan.snap[s]} \cup (IF s \in plan.ed THEN {plan.new[s]} ELSE {}) ]_vars

\* An interrupted commit is resolved once builds are run again, unless someone
\* has edited the tree or damaged a backup: recovery then refuses, and the
\* journal waits for a user (`recover`).
InterruptionResolved == pending ~> \/ ~pending
                                   \/ edits > 0
                                   \/ damages > 0

\* Outputs and graph are published together or not at all.  This is promised to
\* users who leave the tree alone during builds (ADR 0040): for others, nothing
\* is said of it.
Promised(g) == IF overlap THEN EmptyGraph ELSE g
Atomic == INSTANCE AtomicPublication
              WITH files <- Promised(CommittedFiles), evidence <- Promised(CommittedGraph)
ImplementsAtomicPublication == Atomic!Spec
=============================================================================
