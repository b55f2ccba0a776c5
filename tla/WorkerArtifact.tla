---------------------------- MODULE WorkerArtifact ----------------------------
(* The compiled worker of a workspace (rust/src/worker_kernel.rs).  Several   *)
(* commands may want it at once: one build or watch, any number of prewarms, *)
(* and the helpers that a watch or a detached prewarm leaves behind.  They   *)
(* share the workspace's artifact, a lock file that only serves to avoid     *)
(* double work, and a store that all workspaces of the machine publish to    *)
(* and restore from.  A process may be killed between any two file           *)
(* operations, and the sources may be edited at any time.                    *)
EXTENDS Naturals, Sequences, SequencesExt, FiniteSets

CONSTANTS
    Processes,
    Roles,      \* the roles looked at: process -> "foreground", "watch" or "detached"
    MaxEdits,   \* bound: edits of the worker entrypoint or of a dependency
    MaxFaults,  \* bound: failed compiles and file operations, kills, lapsed locks
    Foreigners, \* what other workspaces compile, and what they find when they digest it
    MaxForeign, \* bound: files that these write to the store
    None

Keys == 0..MaxEdits
Sources == [key : Keys, dep : 0..MaxEdits]

ASSUME ArtifactAssumption ==
    /\ Roles \subseteq [Processes -> {"foreground", "watch", "detached"}]
    /\ Foreigners \subseteq Sources \X Sources
    /\ None \notin Sources
    /\ \A key, worker, dep \in Keys, executable \in Sources :
         None # [key |-> key, worker |-> worker, dep |-> dep, executable |-> executable]
    /\ MaxEdits \in Nat /\ MaxFaults \in Nat /\ MaxForeign \in Nat

VARIABLES
    source,  \* what the workspace has contained, the present last
    local,   \* the workspace's executable and metadata
    shared,  \* the same in the machine's store, by cache key
    lock,    \* the compile lock file: "free", "held" or "stale"
    proc,    \* the processes
    history  \* edits, faults, foreign files, deadlines, compiles and torn compiles so far

vars == <<source, local, shared, lock, proc, history>>

----------------------------------------------------------------------------
(* Executables are known by what they were compiled from.  The key stands    *)
(* for the entrypoint and all else that goes into aot_cache_key, `dep` for   *)
(* the dependencies the key does not cover.                                  *)

Now == Last(source)
NoPair == [executable |-> None, meta |-> None]

\* build_aot_metadata digests the entrypoint and the dependencies after the
\* compiler has returned; the key is the one the process began with.
Metadata(key, executable) ==
    [key |-> key, worker |-> Now.key, dep |-> Now.dep, executable |-> executable]

\* Mutant of Matches: the metadata is not bound to one executable.
MatchesUnbound(meta, executable, key) ==
    /\ executable # None /\ meta # None
    /\ meta.key = key /\ meta.worker = Now.key /\ meta.dep = Now.dep
\* aot_metadata_is_current
Matches(meta, executable, key) ==
    /\ executable # None /\ meta # None
    /\ meta.key = key /\ meta.worker = Now.key /\ meta.dep = Now.dep
    /\ meta.executable = executable

----------------------------------------------------------------------------
\* `at` says which of its checks a process is in: the one it begins with, the
\* two waits for another's compile, or the one under the lock.
Start(role) ==
    [role |-> role, pc |-> IF role = "detached" THEN "acquire" ELSE "start", at |-> "begin",
     guard |-> FALSE, again |-> FALSE, late |-> FALSE, key |-> 0, began |-> 1, meta |-> None,
     staged |-> None, accepted |-> None]

Init ==
    /\ source = <<[key |-> 0, dep |-> 0]>>
    /\ local = NoPair
    /\ shared = [key \in Keys |-> NoPair]
    /\ lock = "free"
    /\ \E roles \in Roles : proc = [p \in Processes |-> Start(roles[p])]
    /\ history = [edits |-> 0, faults |-> 0, foreign |-> 0, late |-> FALSE, compiles |-> 0,
                  torn |-> {}]

At(p, step) == proc[p].pc = step
To(p, changed) == proc' = [proc EXCEPT ![p] = changed]
Goto(p, step) == To(p, [proc[p] EXCEPT !.pc = step])
Fault == history.faults < MaxFaults /\ history' = [history EXCEPT !.faults = @ + 1]

\* What a call leaves with: nothing, or an executable.
Left(c) == [c EXCEPT !.pc = "return", !.meta = None, !.staged = None]
Accept(c, executable) == Left([c EXCEPT !.accepted = executable])

\* Where a process goes when the local artifact is not current, ...
NotCurrent(p) ==
    LET c == [proc[p] EXCEPT !.meta = None]
    IN  [c EXCEPT !.pc = IF c.at \in {"first", "second"} THEN "test"
                         ELSE IF c.role = "watch" THEN "acquire" ELSE "stage"]
\* ... nor anything restored from the store.  A second wait ends without the lock.
NotRestored(c) ==
    [c EXCEPT !.staged = None, !.meta = None,
              !.pc = CASE c.at = "begin"   -> "wait"
                       [] c.at = "first"   -> IF c.role = "helper" THEN "check" ELSE "acquire"
                       [] c.at = "second"  -> "check"
                       [] c.at = "recheck" -> "compile",
              !.at = CASE c.at = "begin" -> "first"
                       [] c.at = "first" /\ c.role # "helper" -> "first"
                       [] OTHER -> "recheck"]

\* prepare_aot_context
Begin(p) ==
    /\ At(p, "start") \/ At(p, "spawned")
    /\ To(p, [proc[p] EXCEPT !.pc = "check", !.at = "begin", !.key = Now.key,
                             !.began = Len(source)])
    /\ UNCHANGED <<source, local, shared, lock, history>>

\* current_aot_from_context reads the metadata and then digests the files.
Check(p) ==
    /\ At(p, "check")
    /\ To(p, IF local.executable # None /\ local.meta # None /\ local.meta.key = proc[p].key
             THEN [proc[p] EXCEPT !.pc = "match", !.meta = local.meta]
             ELSE NotCurrent(p))
    /\ UNCHANGED <<source, local, shared, lock, history>>
Match(p) ==
    /\ At(p, "match")
    /\ LET executable == local.executable
       IN  To(p, IF Matches(proc[p].meta, executable, proc[p].key)
                 THEN Accept(proc[p], executable) ELSE NotCurrent(p))
    /\ UNCHANGED <<source, local, shared, lock, history>>

----------------------------------------------------------------------------
(* restore_shared_aot and publish_shared_aot                                 *)

Stage(p) ==
    /\ At(p, "stage")
    /\ LET executable == shared[proc[p].key].executable
       IN  To(p, IF executable = None THEN NotRestored(proc[p])
                 ELSE [proc[p] EXCEPT !.pc = "stageMeta", !.staged = executable])
    /\ UNCHANGED <<source, local, shared, lock, history>>

\* The staged copies are validated, which no other process can change.
StageMetadata(p) ==
    /\ At(p, "stageMeta")
    /\ LET c == proc[p]
           meta == shared[c.key].meta
       IN  To(p, IF Matches(meta, c.staged, c.key)
                 THEN [c EXCEPT !.pc = "install", !.meta = meta, !.accepted = c.staged]
                 ELSE NotRestored(c))
    /\ UNCHANGED <<source, local, shared, lock, history>>

Install(p) ==
    /\ At(p, "install")
    /\ local' = [local EXCEPT !.executable = proc[p].staged]
    /\ Goto(p, "installMeta") /\ UNCHANGED <<source, shared, lock, history>>
InstallMetadata(p) ==
    /\ At(p, "installMeta")
    /\ local' = [local EXCEPT !.meta = proc[p].meta]
    /\ To(p, Left(proc[p])) /\ UNCHANGED <<source, shared, lock, history>>

\* An error of a restore is taken for a miss.
RestoreFails(p) ==
    /\ At(p, "install") \/ At(p, "installMeta") \/ At(p, "stageMeta")
    /\ Fault /\ To(p, NotRestored([proc[p] EXCEPT !.accepted = None]))
    /\ UNCHANGED <<source, local, shared, lock>>

\* The workspace's files are copied as they are by then.
ShareExecutable(p) ==
    /\ At(p, "share")
    /\ shared' = [shared EXCEPT ![proc[p].key].executable = local.executable]
    /\ Goto(p, "shareMeta") /\ UNCHANGED <<source, local, lock, history>>
ShareMetadata(p) ==
    /\ At(p, "shareMeta")
    /\ shared' = [shared EXCEPT ![proc[p].key].meta = local.meta]
    /\ To(p, Left(proc[p])) /\ UNCHANGED <<source, local, lock, history>>
ShareFails(p) ==
    /\ At(p, "share") \/ At(p, "shareMeta")
    /\ Fault /\ To(p, Left(proc[p])) /\ UNCHANGED <<source, local, shared, lock>>

----------------------------------------------------------------------------
(* wait_for_aot_winner: only another's fresh lock is waited for.             *)

Wait(p) ==
    /\ At(p, "wait")
    /\ To(p, IF proc[p].role = "helper" \/ lock # "held" THEN NotRestored(proc[p])
             ELSE [proc[p] EXCEPT !.pc = "check"])
    /\ UNCHANGED <<source, local, shared, lock, history>>

\* Mutant of GivesUp: the wait has no deadline.
GivesUpNever(p) == lock # "held"
\* The winner has finished or died, or the deadline has passed.
GivesUp(p) == lock # "held" \/ proc[p].late
Test(p) ==
    /\ At(p, "test")
    /\ Goto(p, IF GivesUp(p) THEN "stage" ELSE "check")
    /\ UNCHANGED <<source, local, shared, lock, history>>

\* 300 seconds for both waits together.
Waiting(p) == proc[p].at \in {"first", "second"} /\ proc[p].pc \in {"check", "match", "test"}
Deadline(p) ==
    /\ Waiting(p) /\ ~proc[p].late
    /\ To(p, [proc[p] EXCEPT !.late = TRUE]) /\ history' = [history EXCEPT !.late = TRUE]
    /\ UNCHANGED <<source, local, shared, lock>>

----------------------------------------------------------------------------
(* acquire_background_aot_lock                                               *)

Foreground(p) == proc[p].role = "foreground"

\* Mutant of Acquired: nothing is looked at again under the lock.
AcquiredUnchecked(p) ==
    [proc[p] EXCEPT !.guard = TRUE, !.again = FALSE,
        !.pc = IF Foreground(p) THEN "compile" ELSE "spawned",
        !.at = IF Foreground(p) THEN "recheck" ELSE "begin",
        !.role = IF Foreground(p) THEN @ ELSE "helper"]
\* A watch or a detached prewarm hands the lock to the helper it starts and is
\* done with; the helper goes on in its place.
Acquired(p) ==
    [proc[p] EXCEPT !.guard = TRUE, !.again = FALSE,
        !.pc = IF Foreground(p) THEN "check" ELSE "spawned",
        !.at = IF Foreground(p) THEN "recheck" ELSE "begin",
        !.role = IF Foreground(p) THEN @ ELSE "helper"]
\* A foreground command that loses waits once more, others leave it at that.
NotAcquired(p) ==
    IF Foreground(p) THEN [proc[p] EXCEPT !.again = FALSE, !.pc = "wait", !.at = "second"]
    ELSE Left(proc[p])

Acquire(p) ==
    /\ At(p, "acquire")
    /\ lock' = IF lock = "free" THEN "held" ELSE lock
    /\ To(p, CASE lock = "free" -> Acquired(p)
               [] lock = "stale" /\ ~proc[p].again -> [proc[p] EXCEPT !.pc = "takeover"]
               [] OTHER -> NotAcquired(p))
    /\ UNCHANGED <<source, local, shared, history>>

\* A lock found stale is removed, whoever has it by now.
TakeOver(p) ==
    /\ At(p, "takeover")
    /\ lock' = "free"
    /\ To(p, [proc[p] EXCEPT !.pc = "acquire", !.again = TRUE])
    /\ UNCHANGED <<source, local, shared, history>>

\* The helper cannot be started.
SpawnFails(p) ==
    /\ At(p, "spawned") /\ Fault /\ To(p, Left(proc[p]))
    /\ UNCHANGED <<source, local, shared, lock>>

\* BackgroundAotLock::drop removes the path, whoever's file it is by now.
Released(p) == IF proc[p].guard THEN "free" ELSE lock
Ended == [Start("foreground") EXCEPT !.pc = "done"]
\* A return of prepare_worker_aot drops the lock it took; a helper's lock is
\* dropped at the end of its command.
Return(p) ==
    /\ At(p, "return")
    /\ lock' = Released(p) /\ To(p, Ended)
    /\ UNCHANGED <<source, local, shared, history>>

----------------------------------------------------------------------------
(* The compile                                                               *)

Compile(p) ==
    /\ At(p, "compile")
    /\ To(p, [proc[p] EXCEPT !.pc = "emit", !.staged = Now])
    /\ history' = [history EXCEPT !.compiles = @ + 1]
    /\ UNCHANGED <<source, local, shared, lock>>
Emit(p) ==
    /\ At(p, "emit")
    /\ To(p, [proc[p] EXCEPT !.pc = "publish",
                             !.meta = Metadata(proc[p].key, proc[p].staged)])
    /\ UNCHANGED <<source, local, shared, lock, history>>
PublishMetadata(p) ==
    /\ At(p, "publish")
    /\ local' = [local EXCEPT !.meta = proc[p].meta]
    /\ Goto(p, "executable") /\ UNCHANGED <<source, shared, lock, history>>
PublishExecutable(p) ==
    /\ At(p, "executable")
    /\ local' = [local EXCEPT !.executable = proc[p].staged]
    /\ To(p, [proc[p] EXCEPT !.pc = "share", !.accepted = proc[p].staged])
    /\ UNCHANGED <<source, shared, lock, history>>

\* The compiler or a rename fails, or what a helper prepares before.
Fails(p) ==
    /\ proc[p].pc \in {"emit", "publish", "executable"} \/ (proc[p].role = "helper" /\ At(p, "check"))
    /\ Fault /\ To(p, Left(proc[p])) /\ UNCHANGED <<source, local, shared, lock>>

----------------------------------------------------------------------------
(* The rest of the world                                                     *)

\* An edit may fall into compiles: the compiler has read the edited file, or
\* another, before or reads it only now.  A compile is torn when what it has read
\* is not what will be digested.
Compiling == {p \in Processes : At(p, "emit")}
Mixed(compiled, changed) ==
    [key : {compiled.key, changed.key}, dep : {compiled.dep, changed.dep}]
Edit ==
    /\ history.edits < MaxEdits
    /\ \E changed \in {[Now EXCEPT !.key = @ + 1], [Now EXCEPT !.dep = @ + 1]},
          reads \in [Compiling -> Sources] :
         /\ \A p \in Compiling : reads[p] \in Mixed(proc[p].staged, changed)
         /\ source' = Append(source, changed)
         /\ proc' = [p \in Processes |->
                       IF p \in Compiling THEN [proc[p] EXCEPT !.staged = reads[p]] ELSE proc[p]]
         /\ history' = [history EXCEPT !.edits = @ + 1, !.torn = @ \union
                          {<<reads[p], changed>> : p \in {q \in Compiling : reads[q] # changed}}]
    /\ UNCHANGED <<local, shared, lock>>

\* After an hour a lock counts as abandoned, be its owner dead or slow.
Lapse ==
    /\ lock = "held" /\ Fault /\ lock' = "stale"
    /\ UNCHANGED <<source, local, shared, proc>>

\* Commands in other workspaces publish what they compiled under the same key,
\* with their own dependencies, one file at a time and several at once, and their
\* compiles may be torn as well.
Foreign ==
    /\ history.foreign < MaxForeign
    /\ \E foreigner \in Foreigners :
         LET compiled == foreigner[1]
             digested == foreigner[2]
             counted  == [history EXCEPT !.foreign = @ + 1]
         IN  \/ /\ shared' = [shared EXCEPT ![compiled.key].executable = compiled]
                /\ history' = counted
             \/ /\ shared' = [shared EXCEPT ![compiled.key].meta =
                       [key |-> compiled.key, worker |-> digested.key, dep |-> digested.dep,
                        executable |-> compiled]]
                /\ history' = [counted EXCEPT !.torn = IF digested = compiled THEN @
                                                      ELSE @ \union {foreigner}]
    /\ UNCHANGED <<source, local, lock, proc>>

\* What it had staged is lost, the lock file is not.
Kill(p) ==
    /\ proc[p].pc \notin {"start", "done"}
    /\ Fault /\ To(p, Ended)
    /\ UNCHANGED <<source, local, shared, lock>>

----------------------------------------------------------------------------
Step(p) ==
    \/ Begin(p) \/ Check(p) \/ Match(p) \/ Stage(p) \/ StageMetadata(p) \/ Install(p)
    \/ InstallMetadata(p) \/ ShareExecutable(p) \/ ShareMetadata(p) \/ Wait(p) \/ Test(p)
    \/ Acquire(p) \/ TakeOver(p) \/ Return(p) \/ Compile(p) \/ Emit(p)
    \/ PublishMetadata(p) \/ PublishExecutable(p)

Trouble == \/ \E p \in Processes : RestoreFails(p) \/ ShareFails(p) \/ SpawnFails(p)
                                   \/ Fails(p) \/ Kill(p)
           \/ Edit \/ Lapse \/ Foreign

Next == (\E p \in Processes : Step(p) \/ Deadline(p)) \/ Trouble

Spec == Init /\ [][Next]_vars

\* Every process runs, and time passes for one that waits.  That an hour passes
\* is not needed.
FairSpec == Spec /\ \A p \in Processes : WF_vars(Step(p)) /\ WF_vars(Deadline(p))

----------------------------------------------------------------------------
(* Properties                                                                *)

\* A worker is accepted only if it was compiled from what its workspace has
\* contained since the command began, whatever mixture of files concurrent
\* publishers, restores, kills and failures of this and other workspaces left.
\* The one exception is a compile into which an edit fell: the digests that vouch
\* for it are taken when the compiler has returned, so that it is accepted for
\* what the workspace contained then (prepare_worker_aot).
AcceptedWhole ==
    \A p \in Processes : proc[p].accepted # None =>
        \E i \in proc[p].began..Len(source) :
            source[i] = proc[p].accepted \/ <<proc[p].accepted, source[i]>> \in history.torn

\* Single flight: a workspace whose sources stay as they are compiles once,
\* however many commands ask, unless a fault, a deadline or the torn compile of
\* another workspace comes in between.
Disturbed == Len(source) > 1 \/ history.faults > 0 \/ history.late \/ history.torn # {}
CompiledOnce == Disturbed \/ history.compiles <= 1

\* Every command ends, also one that waits for a process that was killed.
Ends == \A p \in Processes : <>At(p, "done")
=============================================================================
