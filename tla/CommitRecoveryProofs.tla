--------------------------- MODULE CommitRecoveryProofs ---------------------------
(* Theorems about CommitRecovery, for every value of its constants. *)
EXTENDS CommitRecovery, TLAPS

USE DEF durable, memory, bounds, vars, deletions, discarded

-----------------------------------------------------------------------------
(* The inductive invariant.  A loop's remaining work lies in the set the loop
   ranges over; a journal exists in exactly the steps that need one; partial
   temporaries lie in the loop that is writing; and the undo copies are
   complete before the journal names them. *)

LoopRange ==
    /\ plan.old \subseteq discarded
    /\ pc = "backup" => todo \subseteq changes /\ deletions \ todo \subseteq DOMAIN undo
    /\ pc = "journal" => deletions \subseteq DOMAIN undo
    /\ pc = "clean" => todo \subseteq discarded /\ deletions \subseteq journaled
    /\ pc = "sweep" => todo \subseteq journaled \cup {GraphFile}
    /\ pc \in {"restore", "delete"} => todo \subseteq journaled
    /\ pc = "write" => todo \subseteq plan.wr \cap journaled
    /\ pc = "edit" => todo \subseteq plan.ed

JournalPhase ==
    /\ ~pending => journaled = {}
    /\ pc \in Recovering \cup {"published"} => pending
    /\ pc \in {"plan", "collect", "reserve", "backup", "journal"} => ~pending

Own == {f \in File : temp[f] = "own"}

TempsInLoop ==
    /\ TempsReserved
    /\ pc \in {"sweep", "restore", "write", "edit"} => Own \subseteq todo
    /\ pc = "restoreGraph" => Own \subseteq {GraphFile}
    /\ pc \in {"clean", "delete", "rolledBack", "saveGraph", "published"} => Own = {}

BackupsReady ==
    /\ RollbackPossible
    /\ damages = 0 /\ pc \in {"backup", "journal"} =>
           \A p \in DOMAIN undo : undo[p].before \in Content => backup[p] = undo[p].before
    /\ damages = 0 /\ pc = "journal" => savedGraph = graph
    /\ pc \notin {"backup", "journal"} => DOMAIN undo = {}

\* What recovery has validated stays so while it sweeps and restores, and what
\* it has restored stays restored: nobody else writes meanwhile.
RollbackProgress ==
    /\ pc \in {"sweep", "restore"} => \A p \in journaled :
           disk[p] \in {Absent, journal.entries[p].before, journal.entries[p].after}
    /\ pc = "restore" => \A p \in journaled \ todo : disk[p] = journal.entries[p].before
    /\ pc \in {"restoreGraph", "rolledBack"} =>
           \A p \in journaled : disk[p] = journal.entries[p].before
    /\ pc = "rolledBack" => graph = journal.graph

\* Where no external edit overlaps a build, how far publication has got: what
\* the loops have done, and what the graph records once it is saved.
Touched == plan.wr \cup plan.del \cup discarded \cup Source

CommitProgress ==
    /\ pc \in Publishing \ {"published"} => \A s \in Source \ plan.ed : disk[s] = plan.snap[s]
    /\ pc \in {"reserve", "backup", "journal", "clean"} =>
           \A p \in discarded \ plan.old : disk[p] = Absent
    /\ pc \in {"backup", "journal"} =>
           /\ DOMAIN undo \subseteq changes
           /\ \A p \in DOMAIN undo : undo[p].before = disk[p]
           /\ \A p \in changes \ (todo \cup DOMAIN undo) : p \notin deletions /\ disk[p] = After(p)
    /\ pc = "journal" => todo = {}
    /\ pc \in {"clean", "delete", "write", "edit", "saveGraph"} =>
           /\ journaled \subseteq changes
           /\ \A p \in changes \ journaled : p \notin deletions /\ disk[p] = After(p)
           /\ pending => graph = journal.graph
    /\ pc = "delete" => \A p \in (plan.del \ todo) \cup discarded : disk[p] = Absent
    /\ pc \in {"write", "edit", "saveGraph"} =>
           \A p \in (plan.del \cup discarded) \ plan.wr : disk[p] = Absent
    /\ pc = "write" => \A p \in plan.wr \ todo : disk[p] = plan.new[p]
    /\ pc \in {"edit", "saveGraph"} => \A p \in plan.wr : disk[p] = plan.new[p]
    /\ pc = "published" =>
           /\ journaled \subseteq Touched
           /\ \A p \in Touched : disk[p] = graph[p]
           /\ \A p \in Path \ Touched : graph[p] = journal.graph[p]

-----------------------------------------------------------------------------
(* Type correctness *)

LEMMA NoEntriesType == NoEntries \in Entries
  BY DEF NoEntries, Entries

LEMMA NoPlanType == NoPlan \in Plan
<1>1. NoEntries \in [{} -> Content]
  BY DEF NoEntries
<1>2. NoPlan.new \in UNION {[S -> Content] : S \in SUBSET Path}
  BY <1>1 DEF NoPlan
<1>3. DOMAIN NoPlan.new = NoPlan.wr \cup NoPlan.ed
  BY DEF NoPlan, NoEntries
<1>4. NoPlan.snap \in [Source -> Value]
  BY DEF NoPlan, Value
<1> QED BY <1>2, <1>3, <1>4 DEF Plan, NoPlan

\* Leaving a command resets its memory to the initial one.
LEMMA StopType == Stop => MemoryOK'
  BY NoPlanType, NoEntriesType DEF Stop, MemoryOK, Pc, File

\* A jump to another step keeps the rest of the memory.
LEMMA GotoType ==
    ASSUME MemoryOK, NEW next \in Pc, NEW set \in SUBSET File, Goto(next, set)
    PROVE  MemoryOK'
  BY DEF Goto, MemoryOK

LEMMA DoneType == ASSUME MemoryOK, NEW p, Done(p) PROVE MemoryOK'
  BY DEF Done, MemoryOK

\* What a reserved write does to the files, in its two halves.
LEMMA CreateTempType ==
    ASSUME TypeOK, NEW f \in File, CreateTemp(f) PROVE DurableOK' /\ MemoryOK'
  BY DEF TypeOK, DurableOK, MemoryOK, CreateTemp

LEMMA RenameOverType ==
    ASSUME DurableOK, NEW p \in Path, NEW v \in Value, RenameOver(p, v)
    PROVE  DurableOK'
  BY DEF DurableOK, RenameOver, File

\* The destinations of a journal and of a plan are destinations.
LEMMA JournalType ==
    ASSUME DurableOK
    PROVE  /\ journaled \in SUBSET Path
           /\ \A p \in journaled : journal.entries[p] \in Entry
           /\ journal.graph \in Graph
  BY DEF DurableOK, journaled, Entries

LEMMA PlanType ==
    ASSUME MemoryOK
    PROVE  /\ plan.del \in SUBSET Path /\ plan.wr \in SUBSET Path
           /\ plan.ed \in SUBSET Path /\ changes \in SUBSET File
           /\ plan.old \in SUBSET Path /\ discarded \in SUBSET Path
           /\ \A p \in plan.wr \cup plan.ed : plan.new[p] \in Content
           /\ plan.snap \in [Source -> Value]
  BY CacheAssumption DEF MemoryOK, Plan, changes, Path, File

LEMMA NoJournalType == NoJournal \in [entries : Entries, graph : Graph]
  BY DEF NoJournal, NoEntries, Entries, EmptyGraph, Graph, Value

LEMMA UnlinkType == ASSUME DurableOK, Unlink PROVE DurableOK'
  BY NoJournalType DEF DurableOK, Unlink

LEMMA NewGraphType == ASSUME TypeOK PROVE NewGraph \in Graph
<1>1. ASSUME NEW p \in Path
      PROVE  (CASE p \in plan.wr -> plan.new[p]
                [] p \in (plan.del \cup discarded) \ plan.wr -> Absent
                [] p \in plan.ed -> disk[p]
                [] p \in Source \ plan.ed -> plan.snap[p]
                [] OTHER -> graph[p]) \in Value
  <2>1. CASE p \in plan.wr
    BY <2>1, PlanType, PathAssumption DEF TypeOK, Value, MemoryOK, Plan
  <2>2. CASE p \in (plan.del \cup discarded) \ plan.wr
    BY <2>2, PathAssumption, CacheAssumption DEF TypeOK, Value, MemoryOK, Plan
  <2>3. CASE p \in Source
    BY <2>3, PathAssumption, CacheAssumption DEF TypeOK, DurableOK, MemoryOK, Plan
  <2>4. CASE p \notin plan.wr \cup plan.del \cup discarded \cup Source
    BY <2>4 DEF TypeOK, DurableOK, MemoryOK, Plan, Graph
  <2> QED BY <2>1, <2>2, <2>3, <2>4
<1> QED BY <1>1 DEF NewGraph, Graph

LEMMA BackUpType ==
    ASSUME TypeOK, NEW p \in Path, p \in changes, BackUp(p)
    PROVE  DurableOK' /\ MemoryOK'
<1>1. [before |-> disk[p], after |-> After(p)] \in Entry
  BY PlanType DEF TypeOK, DurableOK, Entry, After, Value
<1>2. undo' \in Entries
  <2>1. CASE Unchanged(p)
    BY <2>1 DEF BackUp, TypeOK, MemoryOK
  <2>2. CASE ~Unchanged(p)
    <3>1. PICK S \in SUBSET Path : undo \in [S -> Entry]
      BY DEF TypeOK, MemoryOK, Entries
    <3>2. undo' \in [S \cup {p} -> Entry]
      BY <1>1, <2>2, <3>1 DEF BackUp
    <3> QED BY <3>2 DEF Entries
  <2> QED BY <2>1, <2>2
<1>3. backup' \in [Path -> Content \cup {Lost}]
  BY DEF BackUp, TypeOK, DurableOK
<1> QED BY <1>2, <1>3 DEF BackUp, TypeOK, DurableOK, MemoryOK

\* One lemma per group of actions, as in the specification.
LEMMA RecoverType ==
    ASSUME TypeOK, LoopRange, Recover PROVE DurableOK' /\ MemoryOK'
<1> USE DEF TypeOK
<1>1. CASE Check
  BY <1>1, StopType, GotoType, JournalType DEF Check, DurableOK, Pc, Recovering, File
<1>2. CASE Swept
  BY <1>2, GotoType, JournalType DEF Swept, DurableOK, Pc, Recovering, File
<1>3. CASE Restored
  BY <1>3, GotoType DEF Restored, DurableOK, Pc, Recovering
<1>4. CASE RestoreGraphCreate
  BY <1>4, CreateTempType DEF RestoreGraphCreate, File
<1>5. CASE RestoreGraphRename
  BY <1>5, JournalType DEF RestoreGraphRename, DurableOK, MemoryOK
<1>6. CASE GraphRestored
  BY <1>6, GotoType DEF GraphRestored, DurableOK, Pc, Recovering
<1>7. CASE FinishRecovery
  BY <1>7, GotoType, UnlinkType DEF FinishRecovery, Pc
<1>8. ASSUME NEW f \in File, Sweep(f) PROVE DurableOK' /\ MemoryOK'
  BY <1>8, DoneType DEF Sweep, DurableOK
<1>9. ASSUME NEW p \in Path, RestoreRefused(p) PROVE DurableOK' /\ MemoryOK'
  BY <1>9, StopType DEF RestoreRefused, DurableOK
<1>10. ASSUME NEW p \in Path, RestoreInPlace(p) PROVE DurableOK' /\ MemoryOK'
  BY <1>10, DoneType DEF RestoreInPlace, DurableOK, Value
<1>11. ASSUME NEW p \in Path, RestoreCreate(p) PROVE DurableOK' /\ MemoryOK'
  BY <1>11, CreateTempType DEF RestoreCreate, File
<1>12. ASSUME NEW p \in Path, RestoreRename(p) PROVE DurableOK' /\ MemoryOK'
  BY <1>12, DoneType, RenameOverType, JournalType DEF RestoreRename, LoopRange, Entry
<1> QED
  BY <1>1, <1>2, <1>3, <1>4, <1>5, <1>6, <1>7, <1>8, <1>9, <1>10,
     <1>11, <1>12
     DEF Recover

LEMMA CommitType ==
    ASSUME TypeOK, LoopRange, Commit PROVE DurableOK' /\ MemoryOK'
<1> USE DEF TypeOK
<1>1. CASE Reserve
  BY <1>1, StopType, GotoType, PlanType DEF Reserve, DurableOK, Pc, Publishing
<1>2. CASE NothingToJournal
  BY <1>2, GotoType, PlanType DEF NothingToJournal, DurableOK, Pc, Publishing, File
<1>3. CASE BackUpGraph
  BY <1>3, GotoType DEF BackUpGraph, DurableOK, Pc, Publishing
<1>4. CASE PublishJournal
  BY <1>4, PlanType, NoEntriesType DEF PublishJournal, DurableOK, MemoryOK, Pc, Publishing, File
<1>5. CASE Deleted
  BY <1>5, GotoType, PlanType DEF Deleted, DurableOK, Pc, Publishing, File
<1>6. CASE Written
  BY <1>6, GotoType, PlanType DEF Written, DurableOK, Pc, Publishing, File
<1>7. CASE Edited
  BY <1>7, GotoType DEF Edited, DurableOK, Pc, Publishing
<1>8. CASE SaveGraph
  BY <1>8, StopType, GotoType, NewGraphType DEF SaveGraph, DurableOK, Pc, Publishing
<1>9. CASE FinishCommit
  BY <1>9, StopType, UnlinkType DEF FinishCommit
<1>10. ASSUME NEW p \in Path, BackUp(p) PROVE DurableOK' /\ MemoryOK'
  BY <1>10, BackUpType DEF BackUp, LoopRange
<1>11. ASSUME NEW p \in Path, Delete(p) PROVE DurableOK' /\ MemoryOK'
  BY <1>11, DoneType DEF Delete, DurableOK, Value
<1>12. ASSUME NEW p \in Path, WriteCreate(p) PROVE DurableOK' /\ MemoryOK'
  BY <1>12, CreateTempType DEF WriteCreate, File
<1>13. ASSUME NEW p \in Path, WriteRename(p) PROVE DurableOK' /\ MemoryOK'
  BY <1>13, DoneType, RenameOverType, PlanType DEF WriteRename, LoopRange, Value
<1>14. ASSUME NEW p \in Path, WriteRefused(p) PROVE DurableOK' /\ MemoryOK'
  BY <1>14, StopType DEF WriteRefused, DurableOK
<1>15. ASSUME NEW p \in Path, EditCreate(p) PROVE DurableOK' /\ MemoryOK'
  BY <1>15, CreateTempType, DoneType DEF EditCreate, DurableOK, File
<1>16. ASSUME NEW p \in Path, EditRefused(p) PROVE DurableOK' /\ MemoryOK'
  BY <1>16, StopType DEF EditRefused, DurableOK
<1>17. CASE Collect
  <2>1. plan' \in Plan /\ UNCHANGED <<mode, todo, undo, durable>> /\ pc' = "reserve"
    BY <1>17 DEF Collect, MemoryOK, Plan
  <2> QED BY <2>1 DEF DurableOK, MemoryOK, Pc, Publishing
<1>18. CASE Cleaned
  BY <1>18, StopType, GotoType, PlanType DEF Cleaned, DurableOK, Pc, Publishing, File
<1>19. ASSUME NEW p \in Path, Clean(p) PROVE DurableOK' /\ MemoryOK'
  BY <1>19, DoneType DEF Clean, DurableOK, Value
<1> QED
  BY <1>1, <1>2, <1>3, <1>4, <1>5, <1>6, <1>7, <1>8, <1>9, <1>10,
     <1>11, <1>12, <1>13, <1>14, <1>15, <1>16, <1>17, <1>18, <1>19
     DEF Commit

LEMMA StageType ==
    ASSUME TypeOK, NEW del \in SUBSET Output, NEW wr \in SUBSET Output,
           NEW ed \in SUBSET Source, NEW new \in [wr \cup ed -> Content],
           NEW clean \in BOOLEAN, Execute(del, wr, ed, new, clean)
    PROVE  DurableOK' /\ MemoryOK'
<1>1. plan' \in Plan
  <2>1. wr \cup ed \in SUBSET Path /\ DOMAIN new = wr \cup ed
    BY DEF Path
  <2>2. [s \in Source |-> disk[s]] \in [Source -> Value]
    BY DEF TypeOK, DurableOK, Path
  <2> QED BY <2>1, <2>2 DEF Execute, Plan
<1> QED BY <1>1 DEF Execute, TypeOK, DurableOK, MemoryOK, Pc, Publishing

LEMMA EnvironmentType ==
    ASSUME TypeOK, ExternalWrite \/ Damage PROVE DurableOK' /\ MemoryOK'
<1> USE DEF TypeOK, DurableOK, MemoryOK
<1>1. ASSUME NEW p \in Path, NEW v \in Value, ExternalEdit(p, v) PROVE DurableOK' /\ MemoryOK'
  BY <1>1 DEF ExternalEdit
<1>2. ASSUME NEW f \in File, ExternalTemp(f) PROVE DurableOK' /\ MemoryOK'
  BY <1>2 DEF ExternalTemp
<1>3. ASSUME NEW p \in Path, DamageBackup(p) PROVE DurableOK' /\ MemoryOK'
  BY <1>3 DEF DamageBackup
<1>4. CASE DamageGraphBackup
  BY <1>4 DEF DamageGraphBackup
<1> QED BY <1>1, <1>2, <1>3, <1>4 DEF ExternalWrite, Damage

LEMMA ProceedType ==
    ASSUME TypeOK, LoopRange, Load \/ Verify \/ NoWork PROVE DurableOK' /\ MemoryOK'
<1>1. CASE Load
  BY <1>1, GotoType DEF Load, TypeOK, DurableOK, Pc, Recovering
<1>2. CASE Verify
  BY <1>2, StopType DEF Verify, TypeOK, DurableOK
<1>3. CASE NoWork
  BY <1>3, StopType DEF NoWork, TypeOK, DurableOK, Graph
<1> QED BY <1>1, <1>2, <1>3

\* A counter is raised only below its bound.
LEMMA BoundsType == ASSUME TypeOK, [Next]_vars PROVE BoundsOK'
<1> USE BoundAssumption DEF TypeOK, BoundsOK
<1>1. CASE Begin \/ Proceed \/ UNCHANGED vars
  BY <1>1 DEF Begin, Proceed
<1>2. CASE Execution
  BY <1>2 DEF Execution, Stage, Execute
<1>3. CASE Fault
  BY <1>3 DEF Fault, Fail
<1>4. CASE ExternalWrite
  BY <1>4 DEF ExternalWrite, ExternalEdit, ExternalTemp
<1>5. CASE Damage
  BY <1>5 DEF Damage, DamageBackup, DamageGraphBackup
<1> QED BY <1>1, <1>2, <1>3, <1>4, <1>5 DEF Next, Command

LEMMA TypeStep == ASSUME TypeOK, LoopRange, [Next]_vars PROVE TypeOK'
<1> SUFFICES DurableOK' /\ MemoryOK'
  BY BoundsType DEF TypeOK
<1>1. CASE Begin
  BY <1>1 DEF Begin, Start, TypeOK, DurableOK, MemoryOK, Pc
<1>2. CASE Proceed
  BY <1>2, ProceedType, RecoverType, CommitType DEF Proceed
<1>3. CASE Execution
  BY <1>3, StageType DEF Execution, Stage
<1>4. CASE Fault
  BY <1>4, StopType DEF Fault, Fail, TypeOK, DurableOK
<1>5. CASE ExternalWrite \/ Damage
  BY <1>5, EnvironmentType
<1>6. CASE UNCHANGED vars
  BY <1>6 DEF TypeOK, DurableOK, MemoryOK
<1> QED BY <1>1, <1>2, <1>3, <1>4, <1>5, <1>6 DEF Next, Command

-----------------------------------------------------------------------------
(* The loops and the journal *)

\* Every loop starts on the set it ranges over, and only shrinks.
LEMMA RangeRecover ==
    ASSUME TypeOK, LoopRange, Recover PROVE LoopRange'
<1>1. CASE Check
  BY <1>1 DEF Check, Goto, Stop, NoPlan, LoopRange, journaled, changes
<1>2. CASE Swept
  BY <1>2 DEF Swept, Goto, LoopRange, journaled, changes
<1>3. CASE Restored
  BY <1>3 DEF Restored, Goto, LoopRange, journaled, changes
<1>4. CASE RestoreGraphCreate
  BY <1>4 DEF RestoreGraphCreate, CreateTemp, LoopRange, journaled, changes
<1>5. CASE RestoreGraphRename
  BY <1>5 DEF RestoreGraphRename, LoopRange, journaled, changes
<1>6. CASE GraphRestored
  BY <1>6 DEF GraphRestored, Goto, LoopRange, journaled, changes
<1>7. CASE FinishRecovery
  BY <1>7 DEF FinishRecovery, Unlink, Goto, LoopRange, journaled, changes
<1>8. ASSUME NEW f \in File, Sweep(f) PROVE LoopRange'
  BY <1>8 DEF Sweep, Done, LoopRange, journaled, changes
<1>9. ASSUME NEW p \in Path, RestoreRefused(p) PROVE LoopRange'
  BY <1>9 DEF RestoreRefused, Stop, NoPlan, LoopRange, journaled, changes
<1>10. ASSUME NEW p \in Path, RestoreInPlace(p) PROVE LoopRange'
  BY <1>10 DEF RestoreInPlace, Done, LoopRange, journaled, changes
<1>11. ASSUME NEW p \in Path, RestoreCreate(p) PROVE LoopRange'
  BY <1>11 DEF RestoreCreate, CreateTemp, LoopRange, journaled, changes
<1>12. ASSUME NEW p \in Path, RestoreRename(p) PROVE LoopRange'
  BY <1>12 DEF RestoreRename, RenameOver, Done, LoopRange, journaled, changes
<1> QED
  BY <1>1, <1>2, <1>3, <1>4, <1>5, <1>6, <1>7, <1>8, <1>9, <1>10,
     <1>11, <1>12
     DEF Recover

LEMMA RangeCommit ==
    ASSUME TypeOK, LoopRange, Commit PROVE LoopRange'
<1>1. CASE Reserve
  BY <1>1 DEF Reserve, Goto, Stop, NoPlan, LoopRange, journaled, changes
<1>2. CASE NothingToJournal
  BY <1>2 DEF NothingToJournal, Goto, LoopRange, journaled, changes
<1>3. CASE BackUpGraph
  BY <1>3 DEF BackUpGraph, Goto, LoopRange, journaled, changes
<1>4. CASE PublishJournal
  BY <1>4 DEF PublishJournal, LoopRange, journaled, changes
<1>5. CASE Deleted
  BY <1>5 DEF Deleted, Goto, LoopRange, journaled, changes
<1>6. CASE Written
  BY <1>6 DEF Written, Goto, LoopRange, journaled, changes
<1>7. CASE Edited
  BY <1>7 DEF Edited, Goto, LoopRange, journaled, changes
<1>8. CASE SaveGraph
  BY <1>8 DEF SaveGraph, Goto, Stop, NoPlan, LoopRange, journaled, changes
<1>9. CASE FinishCommit
  BY <1>9 DEF FinishCommit, Unlink, Stop, NoPlan, LoopRange, journaled, changes
<1>10. ASSUME NEW p \in Path, BackUp(p) PROVE LoopRange'
  BY <1>10 DEF BackUp, Unchanged, LoopRange, journaled, changes
<1>11. ASSUME NEW p \in Path, Delete(p) PROVE LoopRange'
  BY <1>11 DEF Delete, Done, LoopRange, journaled, changes
<1>12. ASSUME NEW p \in Path, WriteCreate(p) PROVE LoopRange'
  BY <1>12 DEF WriteCreate, CreateTemp, LoopRange, journaled, changes
<1>13. ASSUME NEW p \in Path, WriteRename(p) PROVE LoopRange'
  BY <1>13 DEF WriteRename, RenameOver, Done, LoopRange, journaled, changes
<1>14. ASSUME NEW p \in Path, WriteRefused(p) PROVE LoopRange'
  BY <1>14 DEF WriteRefused, Stop, NoPlan, LoopRange, journaled, changes
<1>15. ASSUME NEW p \in Path, EditCreate(p) PROVE LoopRange'
  BY <1>15 DEF EditCreate, CreateTemp, Done, LoopRange, journaled, changes
<1>16. ASSUME NEW p \in Path, EditRefused(p) PROVE LoopRange'
  BY <1>16 DEF EditRefused, Stop, NoPlan, LoopRange, journaled, changes
<1>17. CASE Collect
  BY <1>17 DEF Collect, LoopRange, journaled, changes
<1>18. CASE Cleaned
  BY <1>18 DEF Cleaned, Goto, Stop, NoPlan, LoopRange, journaled, changes
<1>19. ASSUME NEW p \in Path, Clean(p) PROVE LoopRange'
  BY <1>19 DEF Clean, Done, LoopRange, journaled, changes
<1> QED
  BY <1>1, <1>2, <1>3, <1>4, <1>5, <1>6, <1>7, <1>8, <1>9, <1>10,
     <1>11, <1>12, <1>13, <1>14, <1>15, <1>16, <1>17, <1>18, <1>19
     DEF Commit

LEMMA RangeStep ==
    ASSUME TypeOK, LoopRange, [Next]_vars PROVE LoopRange'
<1>1. CASE Begin
  BY <1>1 DEF Begin, Start, LoopRange, journaled, changes
<1>2. CASE Load
  BY <1>2 DEF Load, Goto, LoopRange, journaled, changes
<1>3. CASE Verify
  BY <1>3 DEF Verify, Stop, NoPlan, LoopRange, journaled, changes
<1>4. CASE NoWork
  BY <1>4 DEF NoWork, Stop, NoPlan, LoopRange, journaled, changes
<1>5. CASE Execution
  BY <1>5 DEF Execution, Stage, Execute, LoopRange, journaled, changes
<1>6. CASE Fault
  BY <1>6 DEF Fault, Fail, Stop, NoPlan, LoopRange, journaled, changes
<1>7. CASE ExternalWrite
  BY <1>7 DEF ExternalWrite, ExternalEdit, ExternalTemp, EditAllowed, LoopRange, journaled, changes
<1>8. CASE Damage
  BY <1>8 DEF Damage, DamageBackup, DamageGraphBackup, LoopRange, journaled, changes
<1>9. CASE UNCHANGED vars
  BY <1>9 DEF LoopRange, journaled, changes
<1> QED
  BY <1>1, <1>2, <1>3, <1>4, <1>5, <1>6, <1>7, <1>8, <1>9,
     RangeRecover, RangeCommit
     DEF Next, Command, Proceed

\* A journal is pending in the steps that recover or complete it, and in no
\* step that prepares one.
LEMMA PhaseRecover ==
    ASSUME TypeOK, LoopRange, JournalPhase, Recover PROVE JournalPhase'
<1>1. CASE Check
  BY <1>1 DEF Check, Goto, Stop, JournalPhase, journaled, Recovering, NoJournal, NoEntries
<1>2. CASE Swept
  BY <1>2 DEF Swept, Goto, JournalPhase, journaled, Recovering, NoJournal, NoEntries
<1>3. CASE Restored
  BY <1>3 DEF Restored, Goto, JournalPhase, journaled, Recovering, NoJournal, NoEntries
<1>4. CASE RestoreGraphCreate
  BY <1>4 DEF RestoreGraphCreate, CreateTemp, JournalPhase, journaled, Recovering, NoJournal, NoEntries
<1>5. CASE RestoreGraphRename
  BY <1>5 DEF RestoreGraphRename, JournalPhase, journaled, Recovering, NoJournal, NoEntries
<1>6. CASE GraphRestored
  BY <1>6 DEF GraphRestored, Goto, JournalPhase, journaled, Recovering, NoJournal, NoEntries
<1>7. CASE FinishRecovery
  BY <1>7 DEF FinishRecovery, Unlink, Goto, JournalPhase, journaled, Recovering, NoJournal, NoEntries
<1>8. ASSUME NEW f \in File, Sweep(f) PROVE JournalPhase'
  BY <1>8 DEF Sweep, Done, JournalPhase, journaled, Recovering, NoJournal, NoEntries
<1>9. ASSUME NEW p \in Path, RestoreRefused(p) PROVE JournalPhase'
  BY <1>9 DEF RestoreRefused, Stop, JournalPhase, journaled, Recovering, NoJournal, NoEntries
<1>10. ASSUME NEW p \in Path, RestoreInPlace(p) PROVE JournalPhase'
  BY <1>10 DEF RestoreInPlace, Done, JournalPhase, journaled, Recovering, NoJournal, NoEntries
<1>11. ASSUME NEW p \in Path, RestoreCreate(p) PROVE JournalPhase'
  BY <1>11 DEF RestoreCreate, CreateTemp, JournalPhase, journaled, Recovering, NoJournal, NoEntries
<1>12. ASSUME NEW p \in Path, RestoreRename(p) PROVE JournalPhase'
  BY <1>12 DEF RestoreRename, RenameOver, Done, JournalPhase, journaled, Recovering, NoJournal, NoEntries
<1> QED
  BY <1>1, <1>2, <1>3, <1>4, <1>5, <1>6, <1>7, <1>8, <1>9, <1>10,
     <1>11, <1>12
     DEF Recover

LEMMA PhaseCommit ==
    ASSUME TypeOK, LoopRange, JournalPhase, Commit PROVE JournalPhase'
<1>1. CASE Reserve
  BY <1>1 DEF Reserve, Goto, Stop, JournalPhase, journaled, Recovering, NoJournal, NoEntries
<1>2. CASE NothingToJournal
  BY <1>2 DEF NothingToJournal, Goto, JournalPhase, journaled, Recovering, NoJournal, NoEntries
<1>3. CASE BackUpGraph
  BY <1>3 DEF BackUpGraph, Goto, JournalPhase, journaled, Recovering, NoJournal, NoEntries
<1>4. CASE PublishJournal
  BY <1>4 DEF PublishJournal, JournalPhase, journaled, Recovering, NoJournal, NoEntries
<1>5. CASE Deleted
  BY <1>5 DEF Deleted, Goto, JournalPhase, journaled, Recovering, NoJournal, NoEntries
<1>6. CASE Written
  BY <1>6 DEF Written, Goto, JournalPhase, journaled, Recovering, NoJournal, NoEntries
<1>7. CASE Edited
  BY <1>7 DEF Edited, Goto, JournalPhase, journaled, Recovering, NoJournal, NoEntries
<1>8. CASE SaveGraph
  BY <1>8 DEF SaveGraph, Goto, Stop, JournalPhase, journaled, Recovering
<1>9. CASE FinishCommit
  BY <1>9 DEF FinishCommit, Unlink, Stop, JournalPhase, journaled, Recovering, NoJournal, NoEntries
<1>10. ASSUME NEW p \in Path, BackUp(p) PROVE JournalPhase'
  BY <1>10 DEF BackUp, JournalPhase, journaled, Recovering, NoJournal, NoEntries
<1>11. ASSUME NEW p \in Path, Delete(p) PROVE JournalPhase'
  BY <1>11 DEF Delete, Done, JournalPhase, journaled, Recovering, NoJournal, NoEntries
<1>12. ASSUME NEW p \in Path, WriteCreate(p) PROVE JournalPhase'
  BY <1>12 DEF WriteCreate, CreateTemp, JournalPhase, journaled, Recovering, NoJournal, NoEntries
<1>13. ASSUME NEW p \in Path, WriteRename(p) PROVE JournalPhase'
  BY <1>13 DEF WriteRename, RenameOver, Done, JournalPhase, journaled, Recovering, NoJournal, NoEntries
<1>14. ASSUME NEW p \in Path, WriteRefused(p) PROVE JournalPhase'
  BY <1>14 DEF WriteRefused, Stop, JournalPhase, journaled, Recovering, NoJournal, NoEntries
<1>15. ASSUME NEW p \in Path, EditCreate(p) PROVE JournalPhase'
  BY <1>15 DEF EditCreate, CreateTemp, Done, JournalPhase, journaled, Recovering, NoJournal, NoEntries
<1>16. ASSUME NEW p \in Path, EditRefused(p) PROVE JournalPhase'
  BY <1>16 DEF EditRefused, Stop, JournalPhase, journaled, Recovering, NoJournal, NoEntries
<1>17. CASE Collect
  BY <1>17 DEF Collect, JournalPhase, journaled, Recovering, NoJournal, NoEntries
<1>18. CASE Cleaned
  BY <1>18 DEF Cleaned, Goto, Stop, JournalPhase, journaled, Recovering, NoJournal, NoEntries
<1>19. ASSUME NEW p \in Path, Clean(p) PROVE JournalPhase'
  BY <1>19 DEF Clean, Done, JournalPhase, journaled, Recovering, NoJournal, NoEntries
<1> QED
  BY <1>1, <1>2, <1>3, <1>4, <1>5, <1>6, <1>7, <1>8, <1>9, <1>10,
     <1>11, <1>12, <1>13, <1>14, <1>15, <1>16, <1>17, <1>18, <1>19
     DEF Commit

LEMMA PhaseStep ==
    ASSUME TypeOK, LoopRange, JournalPhase, [Next]_vars PROVE JournalPhase'
<1>1. CASE Begin
  BY <1>1 DEF Begin, Start, JournalPhase, journaled, Recovering, NoJournal, NoEntries
<1>2. CASE Load
  BY <1>2 DEF Load, Goto, JournalPhase, journaled, Recovering, NoJournal, NoEntries
<1>3. CASE Verify
  BY <1>3 DEF Verify, Stop, JournalPhase, journaled, Recovering, NoJournal, NoEntries
<1>4. CASE NoWork
  BY <1>4 DEF NoWork, Stop, JournalPhase, journaled, Recovering, NoJournal, NoEntries
<1>5. CASE Execution
  BY <1>5 DEF Execution, Stage, Execute, JournalPhase, journaled, Recovering, NoJournal, NoEntries
<1>6. CASE Fault
  BY <1>6 DEF Fault, Fail, Stop, JournalPhase, journaled, Recovering, NoJournal, NoEntries
<1>7. CASE ExternalWrite
  BY <1>7 DEF ExternalWrite, ExternalEdit, ExternalTemp, EditAllowed, JournalPhase, journaled, Recovering, NoJournal, NoEntries
<1>8. CASE Damage
  BY <1>8 DEF Damage, DamageBackup, DamageGraphBackup, JournalPhase, journaled, Recovering, NoJournal, NoEntries
<1>9. CASE UNCHANGED vars
  BY <1>9 DEF JournalPhase, journaled, Recovering, NoJournal, NoEntries
<1> QED
  BY <1>1, <1>2, <1>3, <1>4, <1>5, <1>6, <1>7, <1>8, <1>9,
     PhaseRecover, PhaseCommit
     DEF Next, Command, Proceed

\* A partial temporary belongs to the loop that writes it, and to a journal.
LEMMA TempsRecover ==
    ASSUME TypeOK, LoopRange, JournalPhase, TempsInLoop, Recover PROVE TempsInLoop'
<1>1. CASE Check
  BY <1>1 DEF Check, Goto, Stop, TempsInLoop, TempsReserved, Own, journaled
<1>2. CASE Swept
  BY <1>2 DEF Swept, Goto, TempsInLoop, TempsReserved, Own, journaled
<1>3. CASE Restored
  BY <1>3 DEF Restored, Goto, TempsInLoop, TempsReserved, Own, journaled
<1>4. CASE RestoreGraphCreate
  BY <1>4 DEF RestoreGraphCreate, CreateTemp, JournalPhase, Recovering, File, TypeOK, DurableOK, TempsInLoop, TempsReserved, Own, journaled
<1>5. CASE RestoreGraphRename
  BY <1>5 DEF RestoreGraphRename, TempsInLoop, TempsReserved, Own, journaled
<1>6. CASE GraphRestored
  BY <1>6 DEF GraphRestored, Goto, Writing, TempsInLoop, TempsReserved, Own, journaled
<1>7. CASE FinishRecovery
  BY <1>7 DEF FinishRecovery, Unlink, Goto, TempsInLoop, TempsReserved, Own, journaled
<1>8. ASSUME NEW f \in File, Sweep(f) PROVE TempsInLoop'
  BY <1>8 DEF Sweep, Done, TypeOK, DurableOK, TempsInLoop, TempsReserved, Own, journaled
<1>9. ASSUME NEW p \in Path, RestoreRefused(p) PROVE TempsInLoop'
  BY <1>9 DEF RestoreRefused, Stop, TempsInLoop, TempsReserved, Own, journaled
<1>10. ASSUME NEW p \in Path, RestoreInPlace(p) PROVE TempsInLoop'
  BY <1>10 DEF RestoreInPlace, Done, Writing, TempsInLoop, TempsReserved, Own, journaled
<1>11. ASSUME NEW p \in Path, RestoreCreate(p) PROVE TempsInLoop'
  BY <1>11 DEF RestoreCreate, CreateTemp, LoopRange, JournalPhase, Recovering, File, Writing, TypeOK, DurableOK, TempsInLoop, TempsReserved, Own, journaled
<1>12. ASSUME NEW p \in Path, RestoreRename(p) PROVE TempsInLoop'
  BY <1>12 DEF RestoreRename, RenameOver, Done, File, TypeOK, DurableOK, TempsInLoop, TempsReserved, Own, journaled
<1> QED
  BY <1>1, <1>2, <1>3, <1>4, <1>5, <1>6, <1>7, <1>8, <1>9, <1>10,
     <1>11, <1>12
     DEF Recover

LEMMA TempsCommit ==
    ASSUME TypeOK, LoopRange, JournalPhase, TempsInLoop, Commit PROVE TempsInLoop'
<1>1. CASE Reserve
  BY <1>1 DEF Reserve, Goto, Stop, TempsInLoop, TempsReserved, Own, journaled
<1>2. CASE NothingToJournal
  BY <1>2 DEF NothingToJournal, Goto, JournalPhase, TempsInLoop, TempsReserved, Own, journaled
<1>3. CASE BackUpGraph
  BY <1>3 DEF BackUpGraph, Goto, TempsInLoop, TempsReserved, Own, journaled
<1>4. CASE PublishJournal
  BY <1>4 DEF PublishJournal, JournalPhase, TempsInLoop, TempsReserved, Own, journaled
<1>5. CASE Deleted
  BY <1>5 DEF Deleted, Goto, TempsInLoop, TempsReserved, Own, journaled
<1>6. CASE Written
  BY <1>6 DEF Written, Goto, TempsInLoop, TempsReserved, Own, journaled
<1>7. CASE Edited
  BY <1>7 DEF Edited, Goto, TempsInLoop, TempsReserved, Own, journaled
<1>8. CASE SaveGraph
  BY <1>8 DEF SaveGraph, Goto, Stop, TempsInLoop, TempsReserved, Own, journaled
<1>9. CASE FinishCommit
  BY <1>9 DEF FinishCommit, Unlink, Stop, TempsInLoop, TempsReserved, Own, journaled
<1>10. ASSUME NEW p \in Path, BackUp(p) PROVE TempsInLoop'
  BY <1>10 DEF BackUp, TempsInLoop, TempsReserved, Own, journaled
<1>11. ASSUME NEW p \in Path, Delete(p) PROVE TempsInLoop'
  BY <1>11 DEF Delete, Done, TempsInLoop, TempsReserved, Own, journaled
<1>12. ASSUME NEW p \in Path, WriteCreate(p) PROVE TempsInLoop'
  BY <1>12 DEF WriteCreate, CreateTemp, LoopRange, JournalPhase, File, Writing, TypeOK, DurableOK, TempsInLoop, TempsReserved, Own, journaled
<1>13. ASSUME NEW p \in Path, WriteRename(p) PROVE TempsInLoop'
  BY <1>13 DEF WriteRename, RenameOver, Done, File, TypeOK, DurableOK, TempsInLoop, TempsReserved, Own, journaled
<1>14. ASSUME NEW p \in Path, WriteRefused(p) PROVE TempsInLoop'
  BY <1>14 DEF WriteRefused, Stop, TempsInLoop, TempsReserved, Own, journaled
<1>15. ASSUME NEW p \in Path, EditCreate(p) PROVE TempsInLoop'
  BY <1>15 DEF EditCreate, CreateTemp, Done, LoopRange, JournalPhase, File, Writing, TypeOK, DurableOK, TempsInLoop, TempsReserved, Own, journaled
<1>16. ASSUME NEW p \in Path, EditRefused(p) PROVE TempsInLoop'
  BY <1>16 DEF EditRefused, Stop, TempsInLoop, TempsReserved, Own, journaled
<1>17. CASE Collect
  BY <1>17 DEF Collect, TypeOK, DurableOK, TempsInLoop, TempsReserved, Own, journaled
<1>18. CASE Cleaned
  BY <1>18 DEF Cleaned, Goto, Stop, TypeOK, DurableOK, TempsInLoop, TempsReserved, Own, journaled
<1>19. ASSUME NEW p \in Path, Clean(p) PROVE TempsInLoop'
  BY <1>19 DEF Clean, Done, TypeOK, DurableOK, TempsInLoop, TempsReserved, Own, journaled
<1> QED
  BY <1>1, <1>2, <1>3, <1>4, <1>5, <1>6, <1>7, <1>8, <1>9, <1>10,
     <1>11, <1>12, <1>13, <1>14, <1>15, <1>16, <1>17, <1>18, <1>19
     DEF Commit

LEMMA TempsStep ==
    ASSUME TypeOK, LoopRange, JournalPhase, TempsInLoop, [Next]_vars PROVE TempsInLoop'
<1>1. CASE Begin
  BY <1>1 DEF Begin, Start, TempsInLoop, TempsReserved, Own, journaled
<1>2. CASE Load
  BY <1>2 DEF Load, Goto, TempsInLoop, TempsReserved, Own, journaled
<1>3. CASE Verify
  BY <1>3 DEF Verify, Stop, TempsInLoop, TempsReserved, Own, journaled
<1>4. CASE NoWork
  BY <1>4 DEF NoWork, Stop, TempsInLoop, TempsReserved, Own, journaled
<1>5. CASE Execution
  BY <1>5 DEF Execution, Stage, Execute, TempsInLoop, TempsReserved, Own, journaled
<1>6. CASE Fault
  BY <1>6 DEF Fault, Fail, Stop, TempsInLoop, TempsReserved, Own, journaled
<1>7. CASE ExternalWrite
  BY <1>7 DEF ExternalWrite, ExternalEdit, ExternalTemp, TypeOK, DurableOK, TempsInLoop, TempsReserved, Own, journaled
<1>8. CASE Damage
  BY <1>8 DEF Damage, DamageBackup, DamageGraphBackup, TempsInLoop, TempsReserved, Own, journaled
<1>9. CASE UNCHANGED vars
  BY <1>9 DEF TempsInLoop, TempsReserved, Own, journaled
<1> QED
  BY <1>1, <1>2, <1>3, <1>4, <1>5, <1>6, <1>7, <1>8, <1>9,
     TempsRecover, TempsCommit
     DEF Next, Command, Proceed

\* The copies are complete before the journal is published, and only damage
\* loses one while it is pending.
LEMMA BackupsRecover ==
    ASSUME TypeOK, LoopRange, JournalPhase, BackupsReady, Recover, UNCHANGED bounds
    PROVE  BackupsReady'
<1>1. CASE Check
  BY <1>1 DEF Check, Goto, Stop, NoEntries, BackupsReady, RollbackPossible, Intact, journaled
<1>2. CASE Swept
  BY <1>2 DEF Swept, Goto, BackupsReady, RollbackPossible, Intact, journaled
<1>3. CASE Restored
  BY <1>3 DEF Restored, Goto, BackupsReady, RollbackPossible, Intact, journaled
<1>4. CASE RestoreGraphCreate
  BY <1>4 DEF RestoreGraphCreate, CreateTemp, BackupsReady, RollbackPossible, Intact, journaled
<1>5. CASE RestoreGraphRename
  BY <1>5 DEF RestoreGraphRename, BackupsReady, RollbackPossible, Intact, journaled
<1>6. CASE GraphRestored
  BY <1>6 DEF GraphRestored, Goto, BackupsReady, RollbackPossible, Intact, journaled
<1>7. CASE FinishRecovery
  BY <1>7 DEF FinishRecovery, Unlink, Goto, BackupsReady, RollbackPossible, Intact, journaled
<1>8. ASSUME NEW f \in File, Sweep(f) PROVE BackupsReady'
  BY <1>8 DEF Sweep, Done, BackupsReady, RollbackPossible, Intact, journaled
<1>9. ASSUME NEW p \in Path, RestoreRefused(p) PROVE BackupsReady'
  BY <1>9 DEF RestoreRefused, Stop, NoEntries, BackupsReady, RollbackPossible, Intact, journaled
<1>10. ASSUME NEW p \in Path, RestoreInPlace(p) PROVE BackupsReady'
  BY <1>10 DEF RestoreInPlace, Done, BackupsReady, RollbackPossible, Intact, journaled
<1>11. ASSUME NEW p \in Path, RestoreCreate(p) PROVE BackupsReady'
  BY <1>11 DEF RestoreCreate, CreateTemp, BackupsReady, RollbackPossible, Intact, journaled
<1>12. ASSUME NEW p \in Path, RestoreRename(p) PROVE BackupsReady'
  BY <1>12 DEF RestoreRename, RenameOver, Done, BackupsReady, RollbackPossible, Intact, journaled
<1> QED
  BY <1>1, <1>2, <1>3, <1>4, <1>5, <1>6, <1>7, <1>8, <1>9, <1>10,
     <1>11, <1>12
     DEF Recover

LEMMA BackupsCommit ==
    ASSUME TypeOK, LoopRange, JournalPhase, BackupsReady, Commit, UNCHANGED bounds
    PROVE  BackupsReady'
<1>1. CASE Reserve
  BY <1>1 DEF Reserve, Goto, Stop, NoEntries, BackupsReady, RollbackPossible, Intact, journaled
<1>2. CASE NothingToJournal
  BY <1>2 DEF NothingToJournal, Goto, JournalPhase, BackupsReady, RollbackPossible, Intact, journaled
<1>3. CASE BackUpGraph
  BY <1>3 DEF BackUpGraph, Goto, JournalPhase, BackupsReady, RollbackPossible, Intact, journaled
<1>4. CASE PublishJournal
  BY <1>4 DEF PublishJournal, NoEntries, BackupsReady, RollbackPossible, Intact, journaled
<1>5. CASE Deleted
  BY <1>5 DEF Deleted, Goto, BackupsReady, RollbackPossible, Intact, journaled
<1>6. CASE Written
  BY <1>6 DEF Written, Goto, BackupsReady, RollbackPossible, Intact, journaled
<1>7. CASE Edited
  BY <1>7 DEF Edited, Goto, BackupsReady, RollbackPossible, Intact, journaled
<1>8. CASE SaveGraph
  BY <1>8 DEF SaveGraph, Goto, Stop, NoEntries, BackupsReady, RollbackPossible, Intact, journaled
<1>9. CASE FinishCommit
  BY <1>9 DEF FinishCommit, Unlink, Stop, NoEntries, BackupsReady, RollbackPossible, Intact, journaled
<1>10. ASSUME NEW p \in Path, BackUp(p) PROVE BackupsReady'
  <2>1. pc = "backup" /\ UNCHANGED <<pc, pending, damages>> /\ ~pending
    BY <1>10 DEF BackUp, JournalPhase
  <2>2. ASSUME damages = 0, NEW q \in DOMAIN undo', undo'[q].before \in Content
        PROVE  backup'[q] = undo'[q].before
    <3>1. CASE Unchanged(p)
      BY <1>10, <2>1, <2>2, <3>1 DEF BackUp, BackupsReady
    <3>2. CASE ~Unchanged(p)
      <4>1. DOMAIN undo' = DOMAIN undo \cup {p}
        BY <1>10, <3>2 DEF BackUp
      <4> q \in Path
        BY <2>2, <4>1 DEF TypeOK, MemoryOK, Entries
      <4>2. CASE q = p
        BY <1>10, <2>2, <3>2, <4>1, <4>2 DEF BackUp, TypeOK, DurableOK
      <4>3. CASE q # p
        BY <1>10, <2>1, <2>2, <3>2, <4>1, <4>3 DEF BackUp, TypeOK, DurableOK, BackupsReady
      <4> QED BY <4>2, <4>3
    <3> QED BY <3>1, <3>2
  <2> QED BY <2>1, <2>2 DEF BackupsReady, RollbackPossible
<1>11. ASSUME NEW p \in Path, Delete(p) PROVE BackupsReady'
  BY <1>11 DEF Delete, Done, BackupsReady, RollbackPossible, Intact, journaled
<1>12. ASSUME NEW p \in Path, WriteCreate(p) PROVE BackupsReady'
  BY <1>12 DEF WriteCreate, CreateTemp, BackupsReady, RollbackPossible, Intact, journaled
<1>13. ASSUME NEW p \in Path, WriteRename(p) PROVE BackupsReady'
  BY <1>13 DEF WriteRename, RenameOver, Done, BackupsReady, RollbackPossible, Intact, journaled
<1>14. ASSUME NEW p \in Path, WriteRefused(p) PROVE BackupsReady'
  BY <1>14 DEF WriteRefused, Stop, NoEntries, BackupsReady, RollbackPossible, Intact, journaled
<1>15. ASSUME NEW p \in Path, EditCreate(p) PROVE BackupsReady'
  BY <1>15 DEF EditCreate, CreateTemp, Done, BackupsReady, RollbackPossible, Intact, journaled
<1>16. ASSUME NEW p \in Path, EditRefused(p) PROVE BackupsReady'
  BY <1>16 DEF EditRefused, Stop, NoEntries, BackupsReady, RollbackPossible, Intact, journaled
<1>17. CASE Collect
  BY <1>17 DEF Collect, BackupsReady, RollbackPossible, Intact, journaled
<1>18. CASE Cleaned
  BY <1>18 DEF Cleaned, Goto, Stop, NoEntries, BackupsReady, RollbackPossible, Intact, journaled
<1>19. ASSUME NEW p \in Path, Clean(p) PROVE BackupsReady'
  BY <1>19 DEF Clean, Done, BackupsReady, RollbackPossible, Intact, journaled
<1> QED
  BY <1>1, <1>2, <1>3, <1>4, <1>5, <1>6, <1>7, <1>8, <1>9, <1>10,
     <1>11, <1>12, <1>13, <1>14, <1>15, <1>16, <1>17, <1>18, <1>19
     DEF Commit

LEMMA BackupsStep ==
    ASSUME TypeOK, LoopRange, JournalPhase, BackupsReady, [Next]_vars PROVE BackupsReady'
<1>1. CASE Begin
  BY <1>1 DEF Begin, Start, BackupsReady, RollbackPossible, Intact, journaled
<1>2. CASE Load /\ UNCHANGED bounds
  BY <1>2 DEF Load, Goto, BackupsReady, RollbackPossible, Intact, journaled
<1>3. CASE Verify /\ UNCHANGED bounds
  BY <1>3 DEF Verify, Stop, NoEntries, BackupsReady, RollbackPossible, Intact, journaled
<1>4. CASE NoWork /\ UNCHANGED bounds
  BY <1>4 DEF NoWork, Stop, NoEntries, BackupsReady, RollbackPossible, Intact, journaled
<1>5. CASE Execution
  BY <1>5 DEF Execution, Stage, Execute, BackupsReady, RollbackPossible, Intact, journaled
<1>6. CASE Fault
  BY <1>6 DEF Fault, Fail, Stop, NoEntries, BackupsReady, RollbackPossible, Intact, journaled
<1>7. CASE ExternalWrite
  BY <1>7 DEF ExternalWrite, ExternalEdit, ExternalTemp, EditAllowed, BackupsReady, RollbackPossible, Intact, journaled
<1>8. CASE Damage
  <2>1. damages' # 0
    BY <1>8, BoundAssumption DEF Damage, BoundsOK, TypeOK
  <2>2. UNCHANGED <<pc, undo>>
    BY <1>8 DEF Damage, DamageBackup, DamageGraphBackup
  <2> QED BY <2>1, <2>2 DEF BackupsReady, RollbackPossible
<1>9. CASE UNCHANGED vars
  BY <1>9 DEF BackupsReady, RollbackPossible, Intact, journaled
<1> QED
  BY <1>1, <1>2, <1>3, <1>4, <1>5, <1>6, <1>7, <1>8, <1>9,
     BackupsRecover, BackupsCommit
     DEF Next, Command, Proceed

\* Recovery overwrites only what it has validated.
LEMMA RollbackRecover ==
    ASSUME TypeOK, LoopRange, JournalPhase, RollbackProgress, Recover PROVE RollbackProgress'
<1>1. CASE Check
  BY <1>1 DEF Check, Goto, Stop, EvidenceValid, RollbackProgress, RollbackRestoresAll, journaled
<1>2. CASE Swept
  BY <1>2 DEF Swept, Goto, RollbackProgress, RollbackRestoresAll, journaled
<1>3. CASE Restored
  BY <1>3 DEF Restored, Goto, RollbackProgress, RollbackRestoresAll, journaled
<1>4. CASE RestoreGraphCreate
  BY <1>4 DEF RestoreGraphCreate, CreateTemp, RollbackProgress, RollbackRestoresAll, journaled
<1>5. CASE RestoreGraphRename
  BY <1>5 DEF RestoreGraphRename, RollbackProgress, RollbackRestoresAll, journaled
<1>6. CASE GraphRestored
  BY <1>6 DEF GraphRestored, Goto, RollbackProgress, RollbackRestoresAll, journaled
<1>7. CASE FinishRecovery
  BY <1>7 DEF FinishRecovery, Unlink, Goto, RollbackProgress, RollbackRestoresAll, journaled
<1>8. ASSUME NEW f \in File, Sweep(f) PROVE RollbackProgress'
  BY <1>8 DEF Sweep, Done, RollbackProgress, RollbackRestoresAll, journaled
<1>9. ASSUME NEW p \in Path, RestoreRefused(p) PROVE RollbackProgress'
  BY <1>9 DEF RestoreRefused, Stop, RollbackProgress, RollbackRestoresAll, journaled
<1>10. ASSUME NEW p \in Path, RestoreInPlace(p) PROVE RollbackProgress'
  BY <1>10 DEF RestoreInPlace, Done, TypeOK, DurableOK, RollbackProgress, RollbackRestoresAll, journaled
<1>11. ASSUME NEW p \in Path, RestoreCreate(p) PROVE RollbackProgress'
  BY <1>11 DEF RestoreCreate, CreateTemp, RollbackProgress, RollbackRestoresAll, journaled
<1>12. ASSUME NEW p \in Path, RestoreRename(p) PROVE RollbackProgress'
  BY <1>12 DEF RestoreRename, RenameOver, Done, TypeOK, DurableOK, RollbackProgress, RollbackRestoresAll, journaled
<1> QED
  BY <1>1, <1>2, <1>3, <1>4, <1>5, <1>6, <1>7, <1>8, <1>9, <1>10,
     <1>11, <1>12
     DEF Recover

LEMMA RollbackCommit ==
    ASSUME TypeOK, LoopRange, JournalPhase, RollbackProgress, Commit PROVE RollbackProgress'
<1>1. CASE Reserve
  BY <1>1 DEF Reserve, Goto, Stop, RollbackProgress, RollbackRestoresAll, journaled
<1>2. CASE NothingToJournal
  BY <1>2 DEF NothingToJournal, Goto, RollbackProgress, RollbackRestoresAll, journaled
<1>3. CASE BackUpGraph
  BY <1>3 DEF BackUpGraph, Goto, RollbackProgress, RollbackRestoresAll, journaled
<1>4. CASE PublishJournal
  BY <1>4 DEF PublishJournal, RollbackProgress, RollbackRestoresAll, journaled
<1>5. CASE Deleted
  BY <1>5 DEF Deleted, Goto, RollbackProgress, RollbackRestoresAll, journaled
<1>6. CASE Written
  BY <1>6 DEF Written, Goto, RollbackProgress, RollbackRestoresAll, journaled
<1>7. CASE Edited
  BY <1>7 DEF Edited, Goto, RollbackProgress, RollbackRestoresAll, journaled
<1>8. CASE SaveGraph
  BY <1>8 DEF SaveGraph, Goto, Stop, RollbackProgress, RollbackRestoresAll, journaled
<1>9. CASE FinishCommit
  BY <1>9 DEF FinishCommit, Unlink, Stop, RollbackProgress, RollbackRestoresAll, journaled
<1>10. ASSUME NEW p \in Path, BackUp(p) PROVE RollbackProgress'
  BY <1>10 DEF BackUp, RollbackProgress, RollbackRestoresAll, journaled
<1>11. ASSUME NEW p \in Path, Delete(p) PROVE RollbackProgress'
  BY <1>11 DEF Delete, Done, RollbackProgress, RollbackRestoresAll, journaled
<1>12. ASSUME NEW p \in Path, WriteCreate(p) PROVE RollbackProgress'
  BY <1>12 DEF WriteCreate, CreateTemp, RollbackProgress, RollbackRestoresAll, journaled
<1>13. ASSUME NEW p \in Path, WriteRename(p) PROVE RollbackProgress'
  BY <1>13 DEF WriteRename, RenameOver, Done, RollbackProgress, RollbackRestoresAll, journaled
<1>14. ASSUME NEW p \in Path, WriteRefused(p) PROVE RollbackProgress'
  BY <1>14 DEF WriteRefused, Stop, RollbackProgress, RollbackRestoresAll, journaled
<1>15. ASSUME NEW p \in Path, EditCreate(p) PROVE RollbackProgress'
  BY <1>15 DEF EditCreate, CreateTemp, Done, RollbackProgress, RollbackRestoresAll, journaled
<1>16. ASSUME NEW p \in Path, EditRefused(p) PROVE RollbackProgress'
  BY <1>16 DEF EditRefused, Stop, RollbackProgress, RollbackRestoresAll, journaled
<1>17. CASE Collect
  BY <1>17 DEF Collect, RollbackProgress, RollbackRestoresAll, journaled
<1>18. CASE Cleaned
  BY <1>18 DEF Cleaned, Goto, Stop, RollbackProgress, RollbackRestoresAll, journaled
<1>19. ASSUME NEW p \in Path, Clean(p) PROVE RollbackProgress'
  BY <1>19 DEF Clean, Done, RollbackProgress, RollbackRestoresAll, journaled
<1> QED
  BY <1>1, <1>2, <1>3, <1>4, <1>5, <1>6, <1>7, <1>8, <1>9, <1>10,
     <1>11, <1>12, <1>13, <1>14, <1>15, <1>16, <1>17, <1>18, <1>19
     DEF Commit

LEMMA RollbackStep ==
    ASSUME TypeOK, LoopRange, JournalPhase, RollbackProgress, [Next]_vars PROVE RollbackProgress'
<1>1. CASE Begin
  BY <1>1 DEF Begin, Start, RollbackProgress, RollbackRestoresAll, journaled
<1>2. CASE Load
  BY <1>2 DEF Load, Goto, RollbackProgress, RollbackRestoresAll, journaled
<1>3. CASE Verify
  BY <1>3 DEF Verify, Stop, RollbackProgress, RollbackRestoresAll, journaled
<1>4. CASE NoWork
  BY <1>4 DEF NoWork, Stop, RollbackProgress, RollbackRestoresAll, journaled
<1>5. CASE Execution
  BY <1>5 DEF Execution, Stage, Execute, RollbackProgress, RollbackRestoresAll, journaled
<1>6. CASE Fault
  BY <1>6 DEF Fault, Fail, Stop, RollbackProgress, RollbackRestoresAll, journaled
<1>7. CASE ExternalWrite
  BY <1>7 DEF ExternalWrite, ExternalEdit, ExternalTemp, EditAllowed, Recovering, RollbackProgress, RollbackRestoresAll, journaled
<1>8. CASE Damage
  BY <1>8 DEF Damage, DamageBackup, DamageGraphBackup, RollbackProgress, RollbackRestoresAll, journaled
<1>9. CASE UNCHANGED vars
  BY <1>9 DEF RollbackProgress, RollbackRestoresAll, journaled
<1> QED
  BY <1>1, <1>2, <1>3, <1>4, <1>5, <1>6, <1>7, <1>8, <1>9,
     RollbackRecover, RollbackCommit
     DEF Next, Command, Proceed

-----------------------------------------------------------------------------
(* The theorems *)

Inv == TypeOK /\ LoopRange /\ JournalPhase /\ TempsInLoop /\ BackupsReady /\ RollbackProgress

LEMMA InitInv == Init => Inv
<1> SUFFICES ASSUME Init PROVE Inv
  OBVIOUS
<1>1. undo \in Entries /\ journal \in [entries : Entries, graph : Graph] /\ journaled = {}
  BY NoEntriesType, NoJournalType DEF Init, journaled, NoJournal, NoEntries
<1>2. DOMAIN undo = {}
  BY DEF Init, NoEntries
<1>3. plan \in Plan
  BY NoPlanType DEF Init
<1>4. TypeOK
  <2>1. DurableOK
    BY <1>1 DEF Init, DurableOK, Graph
  <2>2. MemoryOK
    BY <1>1, <1>3 DEF Init, MemoryOK, Pc
  <2>3. BoundsOK
    <3>1. MaxBuilds \in Nat /\ MaxFaults \in Nat /\ MaxEdits \in Nat /\ MaxDamages \in Nat
      BY BoundAssumption
    <3> QED BY <3>1 DEF Init, BoundsOK
  <2> QED BY <2>1, <2>2, <2>3 DEF TypeOK
<1> QED BY <1>1, <1>2, <1>4 DEF Init, Inv, NoPlan, LoopRange, JournalPhase, Recovering, TempsInLoop,
           TempsReserved, Own, BackupsReady, RollbackPossible, RollbackProgress, Intact

LEMMA InvStep == Inv /\ [Next]_vars => Inv'
  BY TypeStep, RangeStep, PhaseStep, TempsStep, BackupsStep, RollbackStep DEF Inv

THEOREM Invariance == Spec => []Inv
  BY InitInv, InvStep, PTL DEF Spec

\* Every variable keeps its type, whatever the numbers of outputs, sources,
\* contents and faults.
THEOREM Typing == Spec => []TypeOK
<1>1. Inv => TypeOK
  BY DEF Inv
<1> QED BY <1>1, Invariance, PTL

\* No partial temporary is ever orphaned: a journal on disk names it.
THEOREM TemporariesReserved == Spec => []TempsReserved
<1>1. Inv => TempsReserved
  BY DEF Inv, TempsInLoop
<1> QED BY <1>1, Invariance, PTL

\* While the journal is on disk every undo copy it names is intact.
THEOREM RollbackStaysPossible == Spec => []RollbackPossible
<1>1. Inv => RollbackPossible
  BY DEF Inv, BackupsReady
<1> QED BY <1>1, Invariance, PTL

\* A rollback that completes has restored every destination and the graph.
THEOREM RollbackComplete == Spec => []RollbackRestoresAll
<1>1. Inv => RollbackRestoresAll
  BY DEF Inv, RollbackProgress, RollbackRestoresAll
<1> QED BY <1>1, Invariance, PTL

-----------------------------------------------------------------------------
(* Action properties *)

\* Only five actions of a command write to a destination.
LEMMA Writers ==
    ASSUME TypeOK, Command, NEW q \in Path, disk'[q] # disk[q]
    PROVE  RestoreInPlace(q) \/ RestoreRename(q) \/ Clean(q) \/ Delete(q) \/ WriteRename(q)
<1>1. CASE Begin \/ Execution
  BY <1>1 DEF Begin, Start, Execution, Stage, Execute
<1>2. CASE Load \/ Verify \/ NoWork
  BY <1>2 DEF Load, Verify, NoWork
<1>3. CASE Recover
  <2>1. ASSUME NEW p \in Path, RestoreInPlace(p) \/ RestoreRename(p)
        PROVE  RestoreInPlace(q) \/ RestoreRename(q)
    <3>1. p = q
      BY <2>1 DEF RestoreInPlace, RestoreRename, RenameOver, TypeOK, DurableOK
    <3> QED BY <2>1, <3>1
  <2> QED
    BY <1>3, <2>1 DEF Recover, Check, Swept, Restored, RestoreGraphCreate,
       RestoreGraphRename, GraphRestored, FinishRecovery, Unlink, Sweep,
       RestoreRefused, RestoreCreate, CreateTemp
<1>4. CASE Commit
  <2>1. ASSUME NEW p \in Path, Clean(p) \/ Delete(p) \/ WriteRename(p)
        PROVE  Clean(q) \/ Delete(q) \/ WriteRename(q)
    <3>1. p = q
      BY <2>1 DEF Clean, Delete, WriteRename, RenameOver, TypeOK, DurableOK
    <3> QED BY <2>1, <3>1
  <2> QED
    BY <1>4, <2>1 DEF Commit, Collect, Reserve, NothingToJournal, BackUpGraph, PublishJournal,
       Cleaned, Deleted, Written, Edited, SaveGraph, FinishCommit, Unlink, BackUp, WriteCreate,
       WriteRefused, EditCreate, EditRefused, CreateTemp
<1> QED BY <1>1, <1>2, <1>3, <1>4 DEF Command, Proceed

\* What a recovery overwrites is absent or one of the two contents the journal
\* names, never someone's edit.
THEOREM EditsSurvive == Spec => EditsSurviveRecovery
<1>1. ASSUME Inv, Recover, NEW q \in Path, disk'[q] # disk[q]
      PROVE  disk[q] \in {journal.entries[q].before, journal.entries[q].after, Absent}
  <2>1. ASSUME NEW p \in Path, RestoreInPlace(p) \/ RestoreRename(p)
        PROVE  p = q /\ pc = "restore" /\ p \in todo
    BY <1>1, <2>1 DEF Inv, TypeOK, DurableOK, RestoreInPlace, RestoreRename, RenameOver
  <2>2. pc = "restore" /\ q \in todo
    BY <1>1, <2>1 DEF Recover, Check, Swept, Restored, RestoreGraphCreate,
       RestoreGraphRename, GraphRestored, FinishRecovery, Unlink, Sweep,
       RestoreRefused, RestoreCreate, CreateTemp
  <2> QED BY <1>1, <2>2 DEF Inv, LoopRange, RollbackProgress
<1>2. Inv /\ [Next]_vars => [Recover => \A p \in Path : disk'[p] # disk[p] =>
          disk[p] \in {journal.entries[p].before, journal.entries[p].after, Absent}]_vars
  BY <1>1
<1> QED BY <1>2, Invariance, PTL DEF Spec, EditsSurviveRecovery

-----------------------------------------------------------------------------
(* Atomic publication, where no external edit overlaps a running command *)

Plain == INSTANCE AtomicPublication WITH files <- CommittedFiles, evidence <- CommittedGraph

\* What each loop of a publication has achieved.
LEMMA ProgressRecover ==
    ASSUME Inv, CommitProgress, Recover PROVE CommitProgress'
<1> USE DEF Inv
<1>1. CASE Check
  BY <1>1 DEF Check, Goto, Stop, CommitProgress, journaled, changes, After, Touched, Publishing
<1>2. CASE Swept
  BY <1>2 DEF Swept, Goto, CommitProgress, journaled, changes, After, Touched, Publishing
<1>3. CASE Restored
  BY <1>3 DEF Restored, Goto, CommitProgress, journaled, changes, After, Touched, Publishing
<1>4. CASE RestoreGraphCreate
  BY <1>4 DEF RestoreGraphCreate, CreateTemp, CommitProgress, journaled, changes, After, Touched, Publishing
<1>5. CASE RestoreGraphRename
  BY <1>5 DEF RestoreGraphRename, CommitProgress, journaled, changes, After, Touched, Publishing
<1>6. CASE GraphRestored
  BY <1>6 DEF GraphRestored, Goto, CommitProgress, journaled, changes, After, Touched, Publishing
<1>7. CASE FinishRecovery
  BY <1>7 DEF FinishRecovery, Unlink, Goto, CommitProgress, journaled, changes, After, Touched, Publishing
<1>8. ASSUME NEW f \in File, Sweep(f) PROVE CommitProgress'
  BY <1>8 DEF Sweep, Done, CommitProgress, journaled, changes, After, Touched, Publishing
<1>9. ASSUME NEW p \in Path, RestoreRefused(p) PROVE CommitProgress'
  BY <1>9 DEF RestoreRefused, Stop, CommitProgress, journaled, changes, After, Touched, Publishing
<1>10. ASSUME NEW p \in Path, RestoreInPlace(p) PROVE CommitProgress'
  BY <1>10 DEF RestoreInPlace, RenameOver, Done, CommitProgress, journaled, changes, After, Touched, Publishing
<1>11. ASSUME NEW p \in Path, RestoreCreate(p) PROVE CommitProgress'
  BY <1>11 DEF RestoreCreate, CreateTemp, CommitProgress, journaled, changes, After, Touched, Publishing
<1>12. ASSUME NEW p \in Path, RestoreRename(p) PROVE CommitProgress'
  BY <1>12 DEF RestoreRename, RenameOver, Done, CommitProgress, journaled, changes, After, Touched, Publishing
<1> QED
  BY <1>1, <1>2, <1>3, <1>4, <1>5, <1>6, <1>7, <1>8, <1>9, <1>10,
     <1>11, <1>12
     DEF Recover

LEMMA ProgressCommit ==
    ASSUME Inv, CommitProgress, Commit PROVE CommitProgress'
<1> USE DEF Inv
<1>1. CASE Reserve
  BY <1>1 DEF Reserve, Goto, Stop, NoEntries, BackupsReady, CommitProgress, journaled, changes, After, Touched, Publishing
<1>2. CASE NothingToJournal
  BY <1>2 DEF NothingToJournal, Goto, JournalPhase, CommitProgress, journaled, changes, After, Touched, Publishing
<1>3. CASE BackUpGraph
  BY <1>3 DEF BackUpGraph, Goto, CommitProgress, journaled, changes, After, Touched, Publishing
<1>4. CASE PublishJournal
  BY <1>4 DEF PublishJournal, CommitProgress, journaled, changes, After, Touched, Publishing
<1>5. CASE Deleted
  BY <1>5, PlanType, PathAssumption DEF Deleted, Goto, LoopRange, TypeOK, DurableOK, MemoryOK, Plan, CommitProgress, journaled, changes, After, Touched, Publishing
<1>6. CASE Written
  BY <1>6, PlanType, PathAssumption DEF Written, Goto, LoopRange, TypeOK, DurableOK, MemoryOK, Plan, CommitProgress, journaled, changes, After, Touched, Publishing
<1>7. CASE Edited
  BY <1>7 DEF Edited, Goto, CommitProgress, journaled, changes, After, Touched, Publishing
<1>8. CASE SaveGraph
  <2>1. CASE pending
    <3>1. pc' = "published" /\ UNCHANGED <<disk, pending, journal, plan>> /\ graph' = NewGraph
      BY <1>8, <2>1 DEF SaveGraph, Goto
    <3>2. pc = "saveGraph" /\ plan \in Plan
      BY <1>8 DEF SaveGraph, TypeOK, MemoryOK
    <3>3. Touched \in SUBSET Path /\ journaled \subseteq Touched
      BY <3>2, PlanType DEF CommitProgress, changes, Touched, LoopRange, Path, Plan, TypeOK
    <3>4. ASSUME NEW p \in Touched PROVE NewGraph[p] = disk[p]
      BY <3>2, <3>3, <3>4, PathAssumption, CacheAssumption
         DEF NewGraph, CommitProgress, Publishing, Touched, Plan
    <3>5. ASSUME NEW p \in Path \ Touched PROVE NewGraph[p] = journal.graph[p]
      BY <2>1, <3>2, <3>5 DEF NewGraph, CommitProgress, Touched, Plan
    <3> QED BY <3>1, <3>3, <3>4, <3>5 DEF CommitProgress, journaled, Touched, Publishing
  <2>2. CASE ~pending
    BY <1>8, <2>2 DEF SaveGraph, Stop, CommitProgress, Publishing
  <2> QED BY <2>1, <2>2
<1>9. CASE FinishCommit
  BY <1>9 DEF FinishCommit, Unlink, Stop, CommitProgress, journaled, changes, After, Touched, Publishing
<1>10. ASSUME NEW p \in Path, BackUp(p) PROVE CommitProgress'
  <2>1. pc = "backup" /\ pc' = "backup" /\ UNCHANGED <<disk, plan>> /\ todo' = todo \ {p}
    BY <1>10 DEF BackUp
  <2>2. p \in changes
    BY <1>10, <2>1 DEF BackUp, LoopRange
  <2>3. CASE Unchanged(p)
    <3>1. undo' = undo
      BY <1>10, <2>3 DEF BackUp
    <3> QED BY <2>1, <2>2, <2>3, <3>1 DEF Unchanged, CommitProgress, changes, After, Publishing
  <2>4. CASE ~Unchanged(p)
    <3>1. undo' = [q \in DOMAIN undo \cup {p} |->
                     IF q = p THEN [before |-> disk[p], after |-> After(p)] ELSE undo[q]]
      BY <1>10, <2>4 DEF BackUp
    <3>2. DOMAIN undo' = DOMAIN undo \cup {p}
      BY <3>1
    <3>3. \A q \in DOMAIN undo' : undo'[q].before = disk[q]
      BY <2>1, <3>1, <3>2 DEF CommitProgress
    <3> QED BY <2>1, <2>2, <3>2, <3>3 DEF CommitProgress, changes, After, Publishing
  <2> QED BY <2>3, <2>4
<1>11. ASSUME NEW p \in Path, Delete(p) PROVE CommitProgress'
  BY <1>11, PathAssumption DEF Delete, Done, LoopRange, TypeOK, DurableOK, MemoryOK, Path, Plan, CommitProgress, journaled, changes, After, Touched, Publishing
<1>12. ASSUME NEW p \in Path, WriteCreate(p) PROVE CommitProgress'
  BY <1>12 DEF WriteCreate, CreateTemp, CommitProgress, journaled, changes, After, Touched, Publishing
<1>13. ASSUME NEW p \in Path, WriteRename(p) PROVE CommitProgress'
  BY <1>13, PlanType, PathAssumption, CacheAssumption DEF WriteRename, RenameOver, Done, LoopRange, TypeOK, DurableOK, MemoryOK, Path, Plan, CommitProgress, journaled, changes, After, Touched, Publishing
<1>14. ASSUME NEW p \in Path, WriteRefused(p) PROVE CommitProgress'
  BY <1>14 DEF WriteRefused, Stop, CommitProgress, journaled, changes, After, Touched, Publishing
<1>15. ASSUME NEW p \in Path, EditCreate(p) PROVE CommitProgress'
  BY <1>15 DEF EditCreate, CreateTemp, Done, CommitProgress, journaled, changes, After, Touched, Publishing
<1>16. ASSUME NEW p \in Path, EditRefused(p) PROVE CommitProgress'
  BY <1>16 DEF EditRefused, Stop, CommitProgress, journaled, changes, After, Touched, Publishing
<1>17. CASE Collect
  BY <1>17 DEF Collect, CommitProgress, journaled, changes, After, Touched, Publishing
<1>18. CASE Cleaned
  BY <1>18 DEF Cleaned, Emptied, Goto, Stop, CommitProgress, journaled, changes, After, Touched, Publishing
<1>19. ASSUME NEW p \in Path, Clean(p) PROVE CommitProgress'
  BY <1>19, PlanType, PathAssumption, CacheAssumption DEF Clean, Done, LoopRange, TypeOK, DurableOK, MemoryOK, Path, Plan, CommitProgress, journaled, changes, After, Touched, Publishing
<1> QED
  BY <1>1, <1>2, <1>3, <1>4, <1>5, <1>6, <1>7, <1>8, <1>9, <1>10,
     <1>11, <1>12, <1>13, <1>14, <1>15, <1>16, <1>17, <1>18, <1>19
     DEF Commit

LEMMA ProgressStep ==
    ASSUME ~overlap \/ ~ExternalWrite, Inv, CommitProgress, [Next]_vars
    PROVE  CommitProgress'
<1> USE DEF Inv
<1>1. CASE Begin
  BY <1>1 DEF Begin, Start, CommitProgress, journaled, changes, After, Touched, Publishing
<1>2. CASE Load
  BY <1>2 DEF Load, Goto, CommitProgress, journaled, changes, After, Touched, Publishing
<1>3. CASE Verify
  BY <1>3 DEF Verify, Stop, CommitProgress, journaled, changes, After, Touched, Publishing
<1>4. CASE NoWork
  BY <1>4 DEF NoWork, Stop, CommitProgress, journaled, changes, After, Touched, Publishing
<1>5. CASE Execution
  BY <1>5 DEF Execution, Stage, Execute, CommitProgress, journaled, changes, After, Touched, Publishing
<1>6. CASE Fault
  BY <1>6 DEF Fault, Fail, Stop, CommitProgress, journaled, changes, After, Touched, Publishing
<1>7. CASE ExternalWrite
  BY <1>7 DEF ExternalWrite, ExternalEdit, ExternalTemp, EditAllowed, CommitProgress, journaled, changes, After, Touched, Publishing
<1>8. CASE Damage
  BY <1>8 DEF Damage, DamageBackup, DamageGraphBackup, CommitProgress, journaled, changes, After, Touched, Publishing
<1>9. CASE UNCHANGED vars
  BY <1>9 DEF CommitProgress, journaled, changes, After, Touched, Publishing
<1> QED
  BY <1>1, <1>2, <1>3, <1>4, <1>5, <1>6, <1>7, <1>8, <1>9,
     ProgressRecover, ProgressCommit
     DEF Next, Command, Proceed

\* The tree and graph one gets after recovering.
Committed == <<CommittedFiles, CommittedGraph>>

\* A step that touches neither a destination, the graph nor the journal, or
\* touches only destinations of a pending journal, changes nothing committed.
LEMMA KeepsCommitted ==
    ASSUME UNCHANGED <<pending, journal>>,
           pending \/ UNCHANGED graph,
           \A p \in Path : disk'[p] = disk[p] \/ (pending /\ p \in journaled)
    PROVE  UNCHANGED Committed
  BY DEF Committed, CommittedFiles, CommittedGraph, journaled

LEMMA RecoverKeeps == ASSUME Inv, Recover PROVE UNCHANGED Committed
<1> USE DEF Inv
<1>1. CASE FinishRecovery
  <2>1. pending /\ ~pending' /\ UNCHANGED <<disk, graph>> /\ pc = "rolledBack"
    BY <1>1 DEF FinishRecovery, Unlink, JournalPhase, Recovering
  <2>2. graph = journal.graph /\ \A p \in journaled : disk[p] = journal.entries[p].before
    BY <2>1 DEF RollbackProgress
  <2>3. disk \in [Path -> Value]
    BY DEF TypeOK, DurableOK
  <2> QED BY <2>1, <2>2, <2>3 DEF Committed, CommittedFiles, CommittedGraph
<1>2. CASE ~FinishRecovery
  <2>1. UNCHANGED <<pending, journal>>
    BY <1>2 DEF Recover, Check, Swept, Restored, RestoreGraphCreate, RestoreGraphRename,
       GraphRestored, Sweep, RestoreRefused, RestoreInPlace, RestoreCreate,
       RestoreRename, CreateTemp, RenameOver
  <2>2. pending
    BY <1>2 DEF JournalPhase, Recovering, Recover, Check, Swept, Restored,
       RestoreGraphCreate, RestoreGraphRename, GraphRestored, Sweep, RestoreRefused,
       RestoreInPlace, RestoreCreate, RestoreRename
  <2>3. \A p \in Path : disk'[p] = disk[p] \/ p \in journaled
    <3>1. ASSUME NEW q \in Path, RestoreInPlace(q) \/ RestoreRename(q)
          PROVE  \A p \in Path : disk'[p] = disk[p] \/ p \in journaled
      BY <3>1 DEF RestoreInPlace, RestoreRename, RenameOver, LoopRange, TypeOK, DurableOK
    <3> QED
      BY <1>2, <3>1 DEF Recover, Check, Swept, Restored, RestoreGraphCreate,
         RestoreGraphRename, GraphRestored, Sweep, RestoreRefused, RestoreCreate, CreateTemp
  <2> QED BY <2>1, <2>2, <2>3, KeepsCommitted
<1> QED BY <1>1, <1>2

\* The journal takes its old contents from the files themselves.
LEMMA JournalKeeps ==
    ASSUME Inv, CommitProgress, PublishJournal PROVE UNCHANGED Committed
<1>1. ~pending /\ pending' /\ UNCHANGED <<disk, graph>>
  BY DEF PublishJournal, Inv, JournalPhase
<1>2. journal' = [entries |-> undo, graph |-> graph]
  BY DEF PublishJournal
<1>3. \A p \in DOMAIN undo : undo[p].before = disk[p]
  BY DEF PublishJournal, CommitProgress
<1>4. journaled' = DOMAIN undo
  BY <1>2 DEF journaled
<1>5. CommittedFiles' = CommittedFiles
  BY <1>1, <1>2, <1>3, <1>4 DEF CommittedFiles
<1>6. CommittedGraph' = CommittedGraph
  BY <1>1, <1>2 DEF CommittedGraph
<1> QED BY <1>5, <1>6 DEF Committed

\* A pair of a tree and a graph that agree where they changed is a publication.
LEMMA PublishStep ==
    ASSUME NEW changed \in SUBSET Path,
           CommittedFiles' \in [Path -> Value],
           \A p \in changed : CommittedGraph'[p] = CommittedFiles'[p],
           \A p \in Path \ changed :
               /\ CommittedFiles'[p] = CommittedFiles[p]
               /\ CommittedGraph'[p] = CommittedGraph[p],
           CommittedGraph \in [Path -> Value], CommittedGraph' \in [Path -> Value]
    PROVE  Plain!Publish
<1> DEFINE new == [p \in changed |-> CommittedFiles'[p]]
<1>1. new \in [changed -> Value]
  OBVIOUS
<1>3. DOMAIN CommittedFiles = Path /\ DOMAIN CommittedGraph = Path
  BY DEF CommittedFiles
<1>4. CommittedFiles' = Plain!Override(new, CommittedFiles)
  BY <1>3 DEF Plain!Override
<1>5. CommittedGraph' = Plain!Override(new, CommittedGraph)
  BY <1>3 DEF Plain!Override
<1> QED BY <1>1, <1>4, <1>5 DEF Plain!Publish

LEMMA CommittedType ==
    ASSUME TypeOK
    PROVE  CommittedFiles \in [Path -> Value] /\ CommittedGraph \in [Path -> Value]
  BY JournalType DEF TypeOK, DurableOK, CommittedFiles, CommittedGraph, Graph, Entry

\* Unlinking the journal of a completed commit publishes it.
LEMMA FinishPublishes ==
    ASSUME Inv, Inv', CommitProgress, FinishCommit PROVE Plain!Publish
<1>1. pc = "published" /\ pending /\ ~pending' /\ UNCHANGED <<disk, graph>>
  BY DEF FinishCommit, Unlink, Inv, JournalPhase
<1>2. Touched \in SUBSET Path
  BY PlanType DEF Touched, Path, Inv, TypeOK
<1>3. CommittedFiles' = [p \in Path |-> disk[p]] /\ CommittedGraph' = graph
  BY <1>1 DEF CommittedFiles, CommittedGraph
<1>4. \A p \in Touched : CommittedGraph'[p] = CommittedFiles'[p]
  BY <1>1, <1>2, <1>3 DEF CommitProgress
<1>5. \A p \in Path \ Touched : /\ CommittedFiles'[p] = CommittedFiles[p]
                               /\ CommittedGraph'[p] = CommittedGraph[p]
  BY <1>1, <1>3 DEF CommitProgress, CommittedFiles, CommittedGraph
<1>6. disk \in [Path -> Value] /\ graph \in [Path -> Value]
  BY DEF Inv, TypeOK, DurableOK, Graph
<1>7. CommittedGraph \in [Path -> Value]
  BY CommittedType DEF Inv
<1>8. CommittedFiles' \in [Path -> Value] /\ CommittedGraph' \in [Path -> Value]
  BY <1>3, <1>6
<1> QED BY <1>2, <1>4, <1>5, <1>7, <1>8, PublishStep

\* Saving a graph that records the tree as it is publishes the changed part.
LEMMA SavePublishes ==
    ASSUME Inv, Inv', CommitProgress, SaveGraph, ~pending PROVE Plain!Publish
<1>1. pc = "saveGraph" /\ ~pending' /\ UNCHANGED disk /\ graph' = NewGraph
  BY DEF SaveGraph
<1>2. Touched \in SUBSET Path
  BY PlanType DEF Touched, Path, Inv, TypeOK
<1>3. /\ CommittedFiles = [p \in Path |-> disk[p]] /\ CommittedFiles' = CommittedFiles
      /\ CommittedGraph = graph /\ CommittedGraph' = NewGraph
  BY <1>1 DEF CommittedFiles, CommittedGraph
<1>4. ASSUME NEW p \in Touched PROVE NewGraph[p] = disk[p]
  BY <1>1, <1>2, <1>4, PathAssumption, CacheAssumption
     DEF NewGraph, CommitProgress, Publishing, Touched, Inv, TypeOK, MemoryOK, Plan
<1>5. ASSUME NEW p \in Path \ Touched PROVE NewGraph[p] = graph[p]
  BY <1>5 DEF NewGraph, Touched, Inv, TypeOK, MemoryOK, Plan
<1>6. disk \in [Path -> Value] /\ graph' \in [Path -> Value]
  BY DEF Inv, TypeOK, DurableOK, Graph
<1>7. CommittedGraph \in [Path -> Value]
  BY CommittedType DEF Inv
<1>8. CommittedFiles' \in [Path -> Value] /\ CommittedGraph' \in [Path -> Value]
  BY <1>1, <1>3, <1>6
<1>9. \A p \in Touched : CommittedGraph'[p] = CommittedFiles'[p]
  BY <1>2, <1>3, <1>4
<1>10. \A p \in Path \ Touched :
          CommittedFiles'[p] = CommittedFiles[p] /\ CommittedGraph'[p] = CommittedGraph[p]
  BY <1>3, <1>5
<1> QED BY <1>2, <1>7, <1>8, <1>9, <1>10, PublishStep

LEMMA NoWorkPublishes ==
    ASSUME Inv, Inv', NoWork PROVE Plain!Publish
<1>1. /\ ~pending /\ ~pending' /\ UNCHANGED disk
      /\ graph' = [p \in Path |-> IF p \in Source THEN disk[p] ELSE graph[p]]
  BY DEF NoWork, Inv, JournalPhase
<1>2. Source \in SUBSET Path
  BY DEF Path
<1>3. /\ CommittedFiles = [p \in Path |-> disk[p]] /\ CommittedFiles' = CommittedFiles
      /\ CommittedGraph = graph /\ CommittedGraph' = graph'
  BY <1>1 DEF CommittedFiles, CommittedGraph
<1>4. \A p \in Source : CommittedGraph'[p] = CommittedFiles'[p]
  BY <1>1, <1>2, <1>3
<1>5. \A p \in Path \ Source : CommittedGraph'[p] = CommittedGraph[p]
  BY <1>1, <1>3
<1>6. disk \in [Path -> Value] /\ graph' \in [Path -> Value]
  BY DEF Inv, TypeOK, DurableOK, Graph
<1>7. CommittedGraph \in [Path -> Value]
  BY CommittedType DEF Inv
<1>8. CommittedFiles' \in [Path -> Value] /\ CommittedGraph' \in [Path -> Value]
  BY <1>3, <1>6
<1> QED BY <1>2, <1>3, <1>4, <1>5, <1>7, <1>8, PublishStep

LEMMA CommitKeeps ==
    ASSUME Inv, Inv', CommitProgress, Commit
    PROVE  Plain!Publish \/ UNCHANGED Committed
<1> USE DEF Inv
<1>1. CASE FinishCommit
  BY <1>1, FinishPublishes
<1>2. CASE PublishJournal
  BY <1>2, JournalKeeps
<1>3. CASE SaveGraph /\ ~pending
  BY <1>3, SavePublishes
<1>4. CASE SaveGraph /\ pending
  BY <1>4, KeepsCommitted DEF SaveGraph
<1>5. ASSUME NEW q \in Path, Delete(q) \/ WriteRename(q) PROVE UNCHANGED Committed
  <2>1. q \in journaled /\ pending
    <3>1. CASE Delete(q)
      BY <3>1 DEF Delete, LoopRange, JournalPhase
    <3>2. CASE WriteRename(q)
      BY <3>2, PathAssumption DEF WriteRename, RenameOver, TempsInLoop, TempsReserved, File
    <3> QED BY <1>5, <3>1, <3>2
  <2>2. \A p \in Path : disk'[p] = disk[p] \/ p = q
    BY <1>5 DEF Delete, WriteRename, RenameOver, TypeOK, DurableOK
  <2> QED BY <1>5, <2>1, <2>2, KeepsCommitted DEF Delete, WriteRename, RenameOver
<1>6. ASSUME UNCHANGED <<disk, graph, pending, journal>> PROVE UNCHANGED Committed
  BY <1>6, KeepsCommitted
<1>7. ASSUME NEW q \in Path, Clean(q) PROVE UNCHANGED Committed
  <2>1. /\ UNCHANGED <<graph, pending, journal>> /\ disk' = [disk EXCEPT ![q] = Absent]
        /\ q \in discarded /\ pc = "clean" /\ disk \in [Path -> Value]
    BY <1>7 DEF Clean, LoopRange, TypeOK, DurableOK
  <2>2. CASE q \in plan.old
    BY <2>1, <2>2, KeepsCommitted DEF LoopRange, JournalPhase
  <2>3. CASE q \notin plan.old
    BY <2>1, <2>3, KeepsCommitted DEF CommitProgress
  <2> QED BY <2>2, <2>3
<1> QED
  BY <1>1, <1>2, <1>3, <1>4, <1>5, <1>6, <1>7 DEF Commit, Collect, Reserve, NothingToJournal,
     BackUpGraph, Cleaned, Deleted, Written, Edited, BackUp, WriteCreate, WriteRefused, EditCreate, EditRefused,
     CreateTemp

LEMMA ExternalKeeps ==
    ASSUME Inv, ExternalWrite PROVE Plain!Edit \/ UNCHANGED Committed
<1> USE DEF Inv
<1>1. ASSUME NEW p \in Path, NEW v \in Value, ExternalEdit(p, v)
      PROVE  Plain!Edit \/ UNCHANGED Committed
  <2>1. /\ UNCHANGED <<graph, pending, journal>> /\ disk \in [Path -> Value]
        /\ disk' = [disk EXCEPT ![p] = v]
    BY <1>1 DEF ExternalEdit, TypeOK, DurableOK
  <2>2. CASE pending /\ p \in journaled
    BY <2>1, <2>2, KeepsCommitted
  <2>3. CASE ~(pending /\ p \in journaled)
    <3>1. CommittedFiles' = [CommittedFiles EXCEPT ![p] = v]
      BY <2>1, <2>3 DEF CommittedFiles, journaled
    <3>2. CommittedGraph' = CommittedGraph
      BY <2>1 DEF CommittedGraph
    <3> QED BY <3>1, <3>2 DEF Plain!Edit
  <2> QED BY <2>2, <2>3
<1>2. ASSUME NEW f \in File, ExternalTemp(f) PROVE UNCHANGED Committed
  BY <1>2, KeepsCommitted DEF ExternalTemp
<1> QED BY <1>1, <1>2 DEF ExternalWrite

LEMMA RefinementStep ==
    ASSUME Inv, Inv', CommitProgress, [Next]_vars PROVE [Plain!Next]_Committed
<1>1. CASE Recover
  BY <1>1, RecoverKeeps
<1>2. CASE Commit
  BY <1>2, CommitKeeps DEF Plain!Next
<1>3. CASE NoWork
  BY <1>3, NoWorkPublishes DEF Plain!Next
<1>4. CASE ExternalWrite
  BY <1>4, ExternalKeeps DEF Plain!Next
<1>5. CASE Load \/ Verify \/ Begin \/ Execution \/ Fault \/ Damage \/ UNCHANGED vars
  <2>1. UNCHANGED <<disk, graph, pending, journal>>
    BY <1>5 DEF Load, Verify, Begin, Start, Execution, Stage, Execute, Fault, Fail, Damage,
       DamageBackup, DamageGraphBackup
  <2> QED BY <2>1, KeepsCommitted
<1> QED BY <1>1, <1>2, <1>3, <1>4, <1>5 DEF Next, Command, Proceed

\* Whether external writers keep out of running commands is settled at the start.
LEMMA OverlapFixed == [Next]_vars => overlap' = overlap
  BY DEF Next, Command, Begin, Proceed, Execution, Fault, ExternalWrite, Damage

\* Where they do, the loops of a publication have got as far as they should.
Progress == ~overlap => CommitProgress

LEMMA ProgressInitially == Init => Progress
  BY DEF Init, Progress, CommitProgress, Publishing

LEMMA ProgressKept == Inv /\ Progress /\ [Next]_vars => Progress'
  BY OverlapFixed, ProgressStep DEF Progress

\* The refinement, for the behaviours to which publication promises something.
LEMMA AtomicStep == ASSUME Inv, Inv', Progress, [Next]_vars PROVE [Atomic!Next]_Atomic!vars
<1>1. overlap' = overlap
  BY OverlapFixed
<1>2. CASE overlap
  BY <1>1, <1>2 DEF Atomic!vars, Promised
<1>3. CASE ~overlap
  <2>1. [Plain!Next]_Committed
    BY <1>3, RefinementStep DEF Progress
  <2>2. /\ Promised(CommittedFiles) = CommittedFiles
        /\ Promised(CommittedGraph) = CommittedGraph
    BY <1>3 DEF Promised
  <2>3. /\ Promised(CommittedFiles)' = CommittedFiles'
        /\ Promised(CommittedGraph)' = CommittedGraph'
    BY <1>1, <1>3 DEF Promised
  <2>4. CASE Plain!Publish
    BY <2>2, <2>3, <2>4 DEF Plain!Publish, Plain!Override, Atomic!Publish, Atomic!Override,
       Atomic!Next
  <2>5. CASE Plain!Edit
    BY <2>2, <2>3, <2>5 DEF Plain!Edit, Atomic!Edit, Atomic!Next
  <2>6. CASE UNCHANGED Committed
    BY <2>2, <2>3, <2>6 DEF Committed, Atomic!vars
  <2> QED BY <2>1, <2>4, <2>5, <2>6 DEF Plain!Next
<1> QED BY <1>2, <1>3

\* Where external writers keep out of running commands, publication is atomic:
\* however often commands are killed, fail or are refused, the tree and graph
\* one gets after recovering change together, by a whole build or not at all.
THEOREM AtomicityOfPublication == Spec => ImplementsAtomicPublication
<1>1. Init => Atomic!Init
  <2> SUFFICES ASSUME Init PROVE Atomic!Init
    OBVIOUS
  <2>1. CommittedFiles = disk /\ CommittedGraph = graph
    BY DEF Init, CommittedFiles, CommittedGraph
  <2>2. Promised(CommittedFiles) = Promised(CommittedGraph)
    BY <2>1 DEF Init, Promised
  <2>3. Promised(CommittedFiles) \in [Path -> Value]
    BY <2>1 DEF Init, Promised, EmptyGraph, Value
  <2> QED BY <2>2, <2>3 DEF Atomic!Init, Atomic!TypeOK
<1> QED
  BY <1>1, ProgressInitially, ProgressKept, AtomicStep, Invariance, PTL
     DEF Spec, ImplementsAtomicPublication, Atomic!Spec

\* What is discarded was there when the journal was prepared and is named by it,
\* unless someone who edits during builds has put it there since.
LEMMA CleanJournaled ==
    ASSUME Inv, Progress, NEW q \in Path, Clean(q), disk'[q] # disk[q], ~LateArtifact(q)
    PROVE  q \in journaled
<1>1. q \in discarded /\ pc = "clean" /\ disk[q] # Absent
  BY DEF Clean, Inv, LoopRange, TypeOK, DurableOK
<1>2. q \in plan.old
  <2>1. CASE overlap
    BY <1>1, <2>1 DEF LateArtifact
  <2>2. CASE ~overlap
    BY <1>1, <2>2 DEF Progress, CommitProgress
  <2> QED BY <2>1, <2>2
<1> QED BY <1>1, <1>2 DEF Inv, LoopRange

\* No command touches a destination that the journal on disk does not name,
\* the late files of an artifact tree that is discarded excepted.
THEOREM JournalCoversChanges == Spec => OnlyJournaledChange
<1>1. ASSUME Inv, Progress, Command, NEW q \in Path, disk'[q] # disk[q], ~LateArtifact(q)
      PROVE  pending /\ pending' /\ q \in journaled
  <2>1. q \in journaled
    <3>1. CASE RestoreInPlace(q)
      BY <1>1, <3>1 DEF RestoreInPlace, Inv, LoopRange
    <3>2. CASE RestoreRename(q)
      BY <1>1, <3>2 DEF RestoreRename, Inv, LoopRange
    <3>3. CASE Clean(q)
      BY <1>1, <3>3, CleanJournaled
    <3>4. CASE Delete(q)
      BY <1>1, <3>4 DEF Delete, Inv, LoopRange
    <3>5. CASE WriteRename(q)
      BY <1>1, <3>5, PathAssumption
         DEF WriteRename, RenameOver, Inv, TempsInLoop, TempsReserved, File
    <3> QED BY <1>1, <3>1, <3>2, <3>3, <3>4, <3>5, Writers DEF Inv
  <2>2. UNCHANGED pending
    BY <1>1, Writers DEF Inv, RestoreInPlace, RestoreRename, Clean, Delete, WriteRename, RenameOver
  <2> QED BY <1>1, <2>1, <2>2 DEF Inv, JournalPhase
<1>2. Inv /\ Progress /\ [Next]_vars => [Command => \A p \in Path : disk'[p] # disk[p] =>
          \/ pending /\ pending' /\ p \in journaled
          \/ LateArtifact(p)]_vars
  BY <1>1
<1> QED BY <1>2, ProgressInitially, ProgressKept, Invariance, PTL DEF Spec, OnlyJournaledChange

-----------------------------------------------------------------------------
(* The graph and the tree                                                    *)

LEMMA DescribesInitially == ASSUME Init PROVE CommitProgress /\ GraphDescribesTree
<1>1. CommittedFiles = disk /\ CommittedGraph = graph
  BY DEF Init, CommittedFiles, CommittedGraph
<1> QED BY <1>1 DEF Init, CommitProgress, Publishing, GraphDescribesTree

\* A whole build changes both in the same places.
LEMMA PublishDescribes ==
    ASSUME CommittedFiles = CommittedGraph, Plain!Publish
    PROVE  (CommittedFiles = CommittedGraph)'
  BY DEF Plain!Publish, Plain!Override

LEMMA DescribesStep ==
    ASSUME Inv, Inv', [Next]_vars, edits' = 0,
           edits = 0 => CommitProgress /\ CommittedFiles = CommittedGraph
    PROVE  CommitProgress' /\ (CommittedFiles = CommittedGraph)'
<1>1. edits \in Nat
  BY BoundAssumption DEF Inv, TypeOK, BoundsOK
<1>2. ~ExternalWrite
  BY <1>1 DEF ExternalWrite
<1>3. edits = 0
  BY <1>2 DEF Next, Command, Begin, Proceed, Execution, Fault, Damage
<1>4. CommitProgress'
  BY <1>2, <1>3, ProgressStep
<1>5. CASE Recover
  BY <1>3, <1>4, <1>5, RecoverKeeps DEF Committed
<1>6. CASE Commit
  BY <1>3, <1>4, <1>6, CommitKeeps, PublishDescribes DEF Committed
<1>7. CASE NoWork
  BY <1>3, <1>4, <1>7, NoWorkPublishes, PublishDescribes
<1>8. CASE Load \/ Verify \/ Begin \/ Execution \/ Fault \/ Damage \/ UNCHANGED vars
  <2>1. UNCHANGED <<disk, graph, pending, journal>>
    BY <1>8 DEF Load, Verify, Begin, Start, Execution, Stage, Execute, Fault, Fail, Damage,
       DamageBackup, DamageGraphBackup
  <2> QED BY <1>3, <1>4, <2>1, KeepsCommitted DEF Committed
<1> QED BY <1>2, <1>4, <1>5, <1>6, <1>7, <1>8 DEF Next, Command, Proceed

\* As long as nobody else writes, the graph describes the tree exactly, at
\* every step of every command, through kills, errors and refused recoveries
\* (commit.rs, recover).
THEOREM GraphIsTheTree == Spec => []GraphDescribesTree
<1>1. Init => (edits = 0 => CommitProgress /\ CommittedFiles = CommittedGraph)
  BY DescribesInitially DEF GraphDescribesTree
<1>2. Inv /\ Inv' /\ [Next]_vars /\ (edits = 0 => CommitProgress /\ CommittedFiles = CommittedGraph)
        => (edits = 0 => CommitProgress /\ CommittedFiles = CommittedGraph)'
  BY DescribesStep
<1>3. (edits = 0 => CommitProgress /\ CommittedFiles = CommittedGraph) => GraphDescribesTree
  BY DEF GraphDescribesTree
<1> QED BY <1>1, <1>2, <1>3, Invariance, PTL DEF Spec

-----------------------------------------------------------------------------
(* Verification                                                              *)

\* A verification has no journal before it and no step beyond its plan.
Verifying == mode = "verify" => ~pending /\ pc \in {"load", "plan"}

LEMMA VerifyingStep == ASSUME TypeOK, Verifying, [Next]_vars PROVE Verifying'
<1>1. CASE Begin
  BY <1>1 DEF Begin, Start, Verifying
<1>2. CASE Stop /\ mode = "verify"
  BY <1>2 DEF Stop, Verifying
<1>3. CASE mode = "verify" /\ ~Begin /\ ~Stop
  <2>1. ~pending /\ pc \in {"load", "plan"}
    BY <1>3 DEF Verifying
  <2>2. ~Recover
    BY <2>1 DEF Recover, Check, Swept, Restored, RestoreGraphCreate, RestoreGraphRename,
       GraphRestored, FinishRecovery, Sweep, RestoreRefused, RestoreInPlace, RestoreCreate,
       RestoreRename
  <2>3. ~Commit
    BY <2>1 DEF Commit, Collect, Reserve, NothingToJournal, BackUpGraph, PublishJournal, Cleaned, Clean,
       Deleted, Written,
       Edited, SaveGraph, FinishCommit, BackUp, Delete, WriteCreate, WriteRename, WriteRefused,
       EditCreate, EditRefused
  <2>4. UNCHANGED <<pending, pc>> \/ (UNCHANGED pending /\ pc' = "plan")
    BY <1>3, <2>1, <2>2, <2>3 DEF Next, Command, Proceed, Load, Goto, Verify, NoWork, Execution,
       Stage, Execute, Fault, Fail, ExternalWrite, ExternalEdit, ExternalTemp, Damage,
       DamageBackup, DamageGraphBackup
  <2> QED BY <2>1, <2>4 DEF Verifying
<1>4. CASE mode # "verify" /\ ~Begin
  <2>1. mode' = mode \/ mode' = "build"
    <3>1. CASE Recover
      BY <3>1 DEF Recover, Check, Swept, Restored, RestoreGraphCreate, RestoreGraphRename,
         GraphRestored, FinishRecovery, Sweep, RestoreRefused, RestoreInPlace, RestoreCreate,
         RestoreRename, Goto, Stop, Done, CreateTemp
    <3>2. CASE Commit
      BY <3>2 DEF Commit, Collect, Reserve, NothingToJournal, BackUpGraph, PublishJournal, Cleaned, Clean,
       Deleted, Written,
         Edited, SaveGraph, FinishCommit, BackUp, Delete, WriteCreate, WriteRename, WriteRefused,
         EditCreate, EditRefused, Goto, Stop, Done, CreateTemp
    <3>3. CASE ~Recover /\ ~Commit
      BY <1>4, <3>3 DEF Next, Command, Proceed, Load, Goto, Verify, NoWork, Stop, Execution,
         Stage, Execute, Fault, Fail, ExternalWrite, ExternalEdit, ExternalTemp, Damage,
         DamageBackup, DamageGraphBackup
    <3> QED BY <3>1, <3>2, <3>3
  <2> QED BY <1>4, <2>1 DEF Verifying
<1> QED BY <1>1, <1>2, <1>3, <1>4

\* --only-check changes no file, whatever interruption or edit came before it
\* (require_clean_verification, commit_inner).
THEOREM VerificationReadsOnly == Spec => VerifyReadOnly
<1>1. ASSUME Verifying, [Next]_vars
      PROVE  [mode = "verify" /\ Command => UNCHANGED durable]_vars
  <2> SUFFICES ASSUME mode = "verify", Command PROVE UNCHANGED durable
    OBVIOUS
  <2>1. ~pending /\ pc \in {"load", "plan"}
    BY <1>1 DEF Verifying
  <2>2. ~Recover
    BY <2>1 DEF Recover, Check, Swept, Restored, RestoreGraphCreate, RestoreGraphRename,
       GraphRestored, FinishRecovery, Sweep, RestoreRefused, RestoreInPlace, RestoreCreate,
       RestoreRename
  <2>3. ~Commit
    BY <2>1 DEF Commit, Collect, Reserve, NothingToJournal, BackUpGraph, PublishJournal, Cleaned, Clean,
       Deleted, Written,
       Edited, SaveGraph, FinishCommit, BackUp, Delete, WriteCreate, WriteRename, WriteRefused,
       EditCreate, EditRefused
  <2> QED BY <2>2, <2>3 DEF Command, Proceed, Begin, Start, Execution, Stage, Execute, Load, Verify,
     NoWork
<1>2. Init => Verifying
  BY DEF Init, Verifying
<1>3. TypeOK /\ Verifying /\ [Next]_vars => Verifying'
  BY VerifyingStep
<1> QED BY <1>1, <1>2, <1>3, Typing, PTL DEF Spec, VerifyReadOnly

-----------------------------------------------------------------------------
(* Reserved names, where no external edit overlaps a running command         *)

\* From the check of the names to the journal, they stay free.
NamesFree ==
    /\ ~overlap /\ pc \in {"backup", "journal"} /\ changes # {} =>
           \A f \in changes \cup {GraphFile} : temp[f] = "none"
    /\ pc \in {"backup", "journal"} => DOMAIN undo \subseteq changes
    /\ pc = "journal" => DOMAIN undo # {}

LEMMA NamesFreeRecover == ASSUME Inv, NamesFree, Recover, overlap' = overlap PROVE NamesFree'
<1>1. pc' \notin {"backup", "journal"}
  BY DEF Recover, Check, Swept, Restored, RestoreGraphCreate, RestoreGraphRename,
     GraphRestored, FinishRecovery, Sweep, RestoreRefused, RestoreInPlace, RestoreCreate,
     RestoreRename, Goto, Stop, Done, CreateTemp
<1> QED BY <1>1 DEF NamesFree

LEMMA NamesFreeCommit == ASSUME Inv, NamesFree, Commit, overlap' = overlap PROVE NamesFree'
<1>1. CASE Reserve
  BY <1>1 DEF Reserve, Reservable, Goto, Stop, NamesFree, changes, Inv, BackupsReady
<1>2. CASE BackUpGraph
  BY <1>2 DEF BackUpGraph, Goto, NamesFree, changes
<1>3. ASSUME NEW p \in Path, BackUp(p) PROVE NamesFree'
  <2>1. p \in changes
    BY <1>3 DEF BackUp, Inv, LoopRange
  <2>2. DOMAIN undo' \subseteq DOMAIN undo \cup {p}
    BY <1>3 DEF BackUp
  <2> QED BY <1>3, <2>1, <2>2 DEF BackUp, NamesFree, changes
<1>4. CASE pc' \notin {"backup", "journal"}
  BY <1>4 DEF NamesFree
<1> QED
  BY <1>1, <1>2, <1>3, <1>4 DEF Commit, Collect, NothingToJournal, PublishJournal, Cleaned, Clean, Deleted,
     Written, Edited, SaveGraph, FinishCommit, Delete, WriteCreate, WriteRename, WriteRefused,
     EditCreate, EditRefused, Goto, Stop, Done, CreateTemp

LEMMA NamesFreeStep ==
    ASSUME Inv, NamesFree, [Next]_vars PROVE NamesFree'
<1>0. overlap' = overlap
  BY OverlapFixed
<1>1. CASE Begin \/ Load \/ Verify \/ NoWork \/ Execution \/ Fault
  <2>1. pc' \notin {"backup", "journal"}
    BY <1>1 DEF Begin, Start, Load, Goto, Verify, NoWork, Stop, Execution, Stage, Execute, Fault,
       Fail
  <2> QED BY <2>1 DEF NamesFree
<1>2. CASE ExternalWrite
  <2>1. UNCHANGED <<pc, plan, undo>>
    BY <1>2 DEF ExternalWrite, ExternalEdit, ExternalTemp
  <2>2. ~overlap => pc \notin {"backup", "journal"}
    BY <1>2 DEF ExternalWrite, ExternalEdit, ExternalTemp, EditAllowed
  <2> QED BY <1>0, <2>1, <2>2 DEF NamesFree, changes
<1>3. CASE Damage
  BY <1>0, <1>3 DEF Damage, DamageBackup, DamageGraphBackup, NamesFree, changes
<1>4. CASE UNCHANGED vars
  BY <1>4 DEF NamesFree, changes
<1> QED
  BY <1>0, <1>1, <1>2, <1>3, <1>4, NamesFreeRecover, NamesFreeCommit DEF Next, Command, Proceed

\* The temporaries a recovery may sweep were all free when the journal that
\* reserves them appeared (commit.rs, prepare).
THEOREM NamesReservedFree == Spec => ReservedNamesFree
<1>1. ASSUME Inv, NamesFree, [Next]_vars
      PROVE  [~overlap /\ ~pending /\ pending' =>
                \A f \in DOMAIN journal'.entries \cup {GraphFile} : temp'[f] = "none"]_vars
  <2> SUFFICES ASSUME Next, ~overlap, ~pending, pending'
               PROVE  \A f \in DOMAIN journal'.entries \cup {GraphFile} : temp'[f] = "none"
    BY <1>1
  <2>1. ~Recover
    BY <1>1 DEF Inv, JournalPhase, Recovering, Recover, Check, Swept, Restored,
       RestoreGraphCreate, RestoreGraphRename, GraphRestored, FinishRecovery, Sweep,
       RestoreRefused, RestoreInPlace, RestoreCreate, RestoreRename
  <2>2. PublishJournal
    BY <2>1 DEF Next, Command, Proceed, Commit, Begin, Start, Load, Verify, NoWork, Execution,
       Stage, Execute, Fault, Fail, ExternalWrite, ExternalEdit, ExternalTemp, Damage,
       DamageBackup, DamageGraphBackup, Collect, Reserve, NothingToJournal, BackUpGraph, Cleaned, Clean, Deleted,
       Written, Edited, SaveGraph, FinishCommit, Unlink, BackUp, Delete, WriteCreate, WriteRename,
       WriteRefused, EditCreate, EditRefused, CreateTemp, RenameOver
  <2>3. journal'.entries = undo /\ temp' = temp /\ pc = "journal"
    BY <2>2 DEF PublishJournal
  <2> QED BY <1>1, <2>3 DEF NamesFree
<1>2. Init => NamesFree
  BY DEF Init, NamesFree
<1>3. Inv /\ NamesFree /\ [Next]_vars => NamesFree'
  BY NamesFreeStep
<1> QED BY <1>1, <1>2, <1>3, Invariance, PTL DEF Spec, ReservedNamesFree
=============================================================================
