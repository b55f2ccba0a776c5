# Verification of build_runner_accelerator

TLA+ specifications of the native build engine, model-checked with TLC, and
theorems about them checked with TLAPS. Paths below are relative to the
repository: `rust/src/` is the engine ("the frontend"), `lib/src/` the Dart
worker, launcher and caches. `PROJECT.json` lists every run, the source lines
each definition translates, the hazards, and which of them are covered.

## The system

A native command (`build`, `watch`, `build --workspace`) runs as one Rust
process. It plans which builder actions are dirty, has resident Dart worker
processes evaluate them, collects their results in a transaction in memory, and
publishes outputs and a persisted graph only when every action succeeded.

| Part | State it keeps | Operations | What makes it correct |
|---|---|---|---|
| Publication and recovery (`build/commit.rs`, `build/recovery.rs`) | destinations, graph file, undo directory with journal, backups and reserved temporaries | prepare, publish, finish, recover, verify-only | outputs and graph change together or not at all; rollback is always possible, complete, and never overwrites a user's edit |
| Workspace scheduler (`build/workspace_execution.rs`, `workspace_ready.rs`, `worker/workspace.rs`, `worker/scheduling.rs`) | phases, ready queue, leases, baselines, the processes' resident views, the transaction | begin a phase, prepare, lease, run, receive, fail, join | parallel execution stages what sequential execution would; no stall; no lost failure |
| Filtered demand (`worker/lazy.rs`, `worker/pool.rs`) | the coordinator (states, waits, latch, observations) under one mutex; a stack per worker | claim, complete, fail, wait, observe a source | single flight, agreement, no lost wakeup, no deadlock, no false cycle |
| Watch loop (`watch.rs`, `watch/graph.rs`) | event queue, cached configuration, pool, resident graph with a file stamp | wait and debounce, classify, rebuild, publish or drop | every relevant edit leads to a rebuild; a stale graph or configuration is never used |
| Worker pool (`worker/pool.rs`, `worker/client.rs`) | processes, initialization signature, artifact | start, initialize, reset, restart, batch | results of the right build reach the right action; dead processes are replaced |
| Ordinary execution (`build.rs`, `build/execution.rs`, `build/results.rs`, `build/shared_parts.rs`) | transaction, phase loop, directive replay | run a phase, record, replay, prune | phase order, replay convergence |
| Dirty analysis and planning (`build/dirty.rs`, `graph.rs`, `plan.rs`) | the graph's recorded digests and reads | scan, analyse, reuse | an incremental build equals a clean one |
| Locks (`workspace_lock.rs`) | lock files of packages | acquire one, all, coordinate | one writer per package; no partial ownership |
| Worker artifact (`worker_kernel.rs`) | lock file, executable, depfile, shared store | compile, wait, take over, publish, restore | a published artifact is current and whole |
| Digest receipts (`validated_digest.rs`, `file_stamp.rs`) | digests with the change stamps under which they were taken | load, match, save | reuse answers as hashing would |
| Compiler sources (`runner_compatibility.rs`, `compile_isolation.rs`) | copies named by content, a selector per layer, a receipt | prepare, publish, select, reuse, load | a compiler sees whole copies of what the sources hold; a worker is accepted only for what it was compiled from |
| Packed byte store (`lib/src/indexed_blob_store.dart`) | generations, pointer, leases, pack and journal | put, get, rollover, reclaim, repair | live generations survive; dead ones do not accumulate |
| Dart worker (`lib/src/worker.dart`, ...) | the package context and analysis view of one process | initialize, reset, build, read assets | no state of one build leaks into the next |
| Release cache and launcher (`lib/src/release_cache.dart`, ...) | installed executables, lock | install, verify | a partial download is never run |

They interact as follows. The workspace lock leaves one native command per
package; it recovers an interrupted publication before it loads the graph. The
planner reads graph and snapshot; the executor (ordinary, filtered or
workspace) calls the pool; a pool thread speaks a line protocol with its Dart
process, which calls back for assets while it builds; results go to the
transaction; the commit publishes the transaction. The watch loop repeats this
with a resident graph and pool.

The hard behaviours are: kills and I/O errors between file operations, and
users who edit files meanwhile (publication, recovery, watch); threads that
share a coordinator (filtered demand); completions in any order and processes
that keep state between packages (workspace scheduler); processes of several
commands that share lock files and stores (artifacts, blob store, releases).

## Modules

| Module | Role |
|---|---|
| `AtomicPublication` | abstract: files and graph change in one step, or a user edits one file |
| `CommitRecovery` | publication and recovery, one action per file operation |
| `CommitRecoveryProofs` | theorems about `CommitRecovery` |
| `WorkspaceScheduler` | controller, worker threads and resident processes of `build --workspace`; holds its own sequential reference, `Sequential` |
| `FilteredDemand` | workers and coordinator of a filtered build |
| `WatchSession` | the watch loop with its channel, configuration, worker pool and resident graph, beside a user |
| `WorkerArtifact` | commands that share a workspace's compiled worker, its lock file and the machine's store |
| `DigestReceipts` | processes that validate a file through the shared receipt, beside writers and mounts |
| `CompilerSources` | commands of both modes that prepare, load, key, check and compile, beside package resolution and edits |
| `BlobStore` | processes that share the packed byte store |
| `WorkerDialogue` | the frontend and one resident worker: attempts, batches, asset requests, nested builds, caches and resets |
| `WorkspaceSchedulerProofs`, `FilteredDemandProofs`, `WatchSessionProofs`, `WorkerArtifactProofs`, `BlobStoreProofs`, `WorkerDialogueProofs` | theorems about the module each is named after; that a parallel workspace build is a sequential one is in the first |
| `ReceiptProofs` | theorems about `DigestReceipts` and `CompilerSources` |
| `IncrementalBuild` | scan, plan, dirty analysis, execution and commit of one package's builds, with a build from nothing as reference |
| `MC...` | instances for TLC: symmetry, workspaces, demand graphs, sessions, roles, stores left behind, packages |

### CommitRecovery

State that outlives a command: `disk`, `graph`, `temp` (the reserved sibling
`.name.build-runner-accelerator-commit.tmp`), `backup`, `savedGraph`, `pending`
and `journal`. A command's memory: `pc`, `mode`, `plan`, `todo`, `undo`. `Fail`
erases the memory at any step and stands for a kill and for every early return
on an I/O error.

* `Start`, `Load`: `require_clean_verification` for `--only-check`, then `recover`.
* `Check`, `Sweep`, `Restore...`, `FinishRecovery`: `recover`. All evidence is
  validated first, reserved temporaries are removed, then each destination is
  restored from a backup that is read again; the unlink is the end.
* `Execute`: all actions have run; any set of deletions, writes and edits of
  sources is staged. A path both deleted and written is `remove_first`.
* `Collect`: where the artifact tree is to be discarded, the files found in it
  (`collect_cache_deletions`); `Reserve`, `BackUp`, `BackUpGraph`, `PublishJournal`: `prepare`.
* `Clean`, `Cleaned`: `remove_dir_all` on the artifact tree. It takes what it finds, also
  a file that was put there after `Collect`, and fails if one comes after its turn.
* `Delete`, `WriteCreate`/`WriteRename`, `EditCreate`, `SaveGraph`,
  `FinishCommit`: the rest of `commit_inner`. A write is two steps because the
  temporary can outlive the command.
* `ExternalEdit`, `ExternalTemp`, `DamageBackup`: writers outside the program. The
  variable `overlap`, chosen once, says whether they write during builds as well.

Abstractions: a digest is the content it identifies; a file that is absent is
the value `Absent`; sorted maps are visited in any order; symbolic links and
paths that are not regular files (refused by the code) do not occur; a kill does
not lose completed file operations, because the code does not fsync and claims
nothing about power loss.

`NewGraph` keeps the code's distinction between outputs (digest of the written
bytes), sources (digest seen when the build began) and sources the build edited
(digest found by the scan after publication). The last one is an observation, below.

### WorkspaceScheduler

The controller is a program counter over the loop of `Schedule::run`; each
worker thread has a channel (`lane`) and shares `completions`. The state of a
Dart process that matters, `resident`, is its package, the baseline it was last
reset to and the generated assets its analysis view holds. `Hydrate` is the
sequence initialize/reset in `run_worker`; `ViewOf` applies the phase guard and
the lease's deletions as `build_batch` does. `Prepare` checks primary inputs
against the transaction as it is when the application becomes ready, not when
the phase began. `Preferred` and `Candidates` are `ReadyInputs::choose` and the
rules of `insert`; the order among equals is the application's index, as there.

What an action *observes* is recorded with its result (`transaction.seen`), so
that equality with `Sequential` compares the views of all actions as well as
what was written and deleted.

Each asset is the action that writes it, and every action writes its one
output; dirty actions only are scheduled. The prefilter for part directives, by which
`Prepare`'s code records an action as done without a worker
(`workspace_execution.rs:117`), is left out. Elapsed time is any time, which makes
any size of a further lease possible within `AdaptiveBatch`'s limits.

### FilteredDemand

`Claiming` and `Complete`/`FailAction` are the critical sections of
`FilteredDemandCoordinator`; everything else happens outside the lock, so other
workers interleave there. A worker's stack of `Frame`s is the recursion of
`ensure_optional_output` through asset requests of the builder being run. A
sleeping worker is woken by every notification, and checks again. `view` is the
worker's private copy of overlay and built keys. `ReadSource`/`PublishSource`
are the unlocked read and the `or_insert` of `observe_filtered_source`. Builders
fail, catch a failed read (`Catch`) and finish with any outcome; a builder that
fails and a lost process look alike to the coordinator and are one action.

### WatchSession

The session is a program counter through one attempt (`run_watch_build`, then
`run_with_config_session`) and the loop of `run` around it: `LoadWorkspace`,
`TakeForBuild` (recover and choose between the resident graph and the file),
`Configure`, `Subscribe`, `StartPool`, `Scan`, then per builder package
`Initialize`, `Prepare`, `Dispatch`, then `Commit`, `Publish`; after that
`BeginLoop`/`Classify` and the wait with its debounce window (`Receive`,
`Coalesce`, `Expire`). Each fallible step has a `...Fails` partner that leaves
the pool and the disk as the code leaves them: `PendingFails` (some processes
initialized, the count not advanced), `RestartFails` (all retired, none
started), `CommitFails` (undo evidence on disk).

The channel is a sequence of event kinds, and `IsRelevantEvent` is the code's
classification by paths. Versions of source and configuration are numbers; a
build's output is there or not. A file stamp is abstracted to `disk.stamped`: the graph file is
still the one the stamp was taken of (the code compares identity, size and times).
A process remembers the signature it was initialized with and whether a build
has used it since it was cleared; a dead one is noticed when it is spoken to.

Limits: the graph file is replaced only while the session waits (ADR 0037 asks
users to stop the session for other writers); edits fall only before steps that
read something, since between others they commute; a build is one or two
packages with their requests, not its actions (`IncrementalBuild`,
`WorkspaceScheduler`).

### WorkerArtifact

Each process goes through `prepare_worker_aot`: look at the local artifact
(`Check`, `Match`), try the store (`Stage` to `InstallMetadata`), wait for
another's compile (`Wait`, `Test`, `Deadline`), take the lock (`Acquire`,
`TakeOver`), look again, compile (`Compile`, `Emit`), publish in the code's
order and share. Roles: `foreground` commands wait and compile themselves;
`watch` and `detached` commands hand the lock to a helper process, which goes on
as `helper`. `Kill`, `Fails`, `RestoreFails`, `ShareFails`, `SpawnFails` and
`Lapse` (a lock older than an hour counts as abandoned, whoever holds it) are
the faults; `Foreign` is the rest of the machine writing to the store one file
at a time.

An executable is known by what it was compiled from. `key` stands for all that
goes into `aot_cache_key` (entrypoint, lock file, packages, SDK), `dep` for the
dependencies that only the metadata's digests cover.

A compile lasts from `Compile` to `Emit`, and edits fall into it: the compiler has read
each input before or after the edit (`Mixed`). The code takes the digests of
the inputs after the compiler has returned (`worker_kernel.rs:753`), so such a
*torn* compile is recorded as one of the files as they are then, and its
worker is accepted. Nothing in the repository promises otherwise;
`AcceptedWhole` names these workers as its one exception, with what was
compiled and what was digested (`history.torn`), and admits no other. Compiles of
other workspaces may be torn as well.

Limits: the dependency list is left out, since it only names what the metadata
digests; process identifiers are not used again; `AcceptedWhole` speaks of the
moment a worker is accepted: the launch after it, before which another command may rename
its executable over the path (`worker_kernel.rs:577`), is not modelled.

### DigestReceipts

A `Cache` is one call: `Load` (with the receipt of the workspace and the devices
whose stamps count), then for each file `Choose`, `Stamp`, `Read`, `Restamp`, and
`Save` by rename. Of a stamp's eight numbers device and change time are kept, since
the others may agree by chance; digests are contents. A file is written, replaced or
removed at any moment, and may lie on a local device, on one with whole seconds or on
a remote one (`file_stamp.rs:52`), which may give any time. A local clock may
stand still for `Granule`, so that two writes leave one stamp; this is what `Settled` is
for: evidence is used and recorded only for stamps older by `STAMP_SETTLE`
(`SettleAssumption`: this outlasts a tick). The run has one file, since files meet only in
the one rename of the receipt; the theorems have any number. The system's clock is
assumed not to be set back.

### CompilerSources

`Version` to `Select` is `runner_compatibility::prepare`, once for each layer:
`Drop` where the runner needs no backport, else `Collect`, `Publish`, `Rename`,
`Validate`, `Select`; the second layer, `compile_isolation::prepare`, begins with
`Reuse` and ends with `StampOutputs` and `Mint`. `LoadWorkspace`, `Key`, `Check`
and `Compile` follow the workspace from there to the compiled worker.

A package is one file, so a copy is whole if it has every package of its layer;
what a patch makes of a content is `Patched`, and `Alien` are contents that no
patch applies to. Change stamps are represented by what the snapshots that were taken of
a place still match: a write takes the place out of all of them (`Forget`), or,
if it is the second one in a tick of the clock and of the same length, leaves
them as they are, and the place is noted as `missed` (`Miss`). `compile_isolation.rs`
compares stamps without regard to their age, so any write may be of this kind. Not so the
removal of a copy or another selector: they come as new files, and that
their numbers agree with those of the old by chance is left out. `publish_config_at`'s
temporary and the rename are one step. `worker_kernel.rs` holds locks around the
compile; `WorkerArtifact` has them, this module has the compile alone.

### BlobStore

A generation is a pack (`data`, `stamp`, `entries`, a `ragged` tail, `leases` of
processes that are gone); `current` is the pointer file. A process's `pack` is
its attachment and the index it has read; `job` is the operation it is in.
`LockData`, `Restamp`, `CutData`, `AppendData`, `AppendEntry` are
`IndexedBlobPack.put` with its repair; `LockControl`, `Reclaim`, `Sweep`,
`Attach`, `Seed`, `Publish` are what runs under the control lock, a rollover
included; `ReadHeader` and `ReadEntries` are the lookups' refresh, without any
lock. Neither lock is waited for, as in the code. Every write can be cut short
(`CutShort`), with the process or without it; `PowerLoss` may lose records below
a journal that is on disk; process identifiers are used again.

Abstractions: records of one size, so that a cell is a record; checksums that
always tell; a random name or stamp is some unused one; one store
instance per process with the same limits; the limits on keys and values, and
read errors of an open local file, are left out.

### WorkerDialogue

Both ends of the two pipes (`down`, `up`). The frontend's stack has a frame per call of
`build_batch`, `build_batch_lazy` or `build_lazy` (`Demand`, `NestedEnds`, `BatchEnds`); the
worker's has one per action inside `_runBuild` (`BatchBegins`, `NestedBegins`,
`NestedSucceeds`, `Succeeds`, `Fails`). They are apart after an error: `Erred` ends
one level of the frontend and answers the request of the next, or ends the attempt, while the
worker stays where it is; `Begin` then sends the next attempt's reset into whatever waits there,
which is what a watch session does. `Expected` is the check of a request's
context, `Answers` the comparison of request numbers that each `RpcSession` starts anew,
`Control` and `Cleared` what a reset forgets, `Unsent` the edges a worker has not
sent yet. The worker's caches (`cache`, `readable`) belong to no action;
`Ask`, `Recall` and `AnswerArrives` use them as `remote_build_step.dart` does.

A content is the number of edits of a source, or the attempt that has built an output. Edits
count sources up, so that "not older than the attempt" is a comparison.
A builder makes any requests in any order, may catch any error and may end at
any time. What a demanded action's primary input is made of is demanded before it
(`batch.rests`), and an action whose input was not produced is skipped (`Skip`).

Limits: every optional action is dirty and emits its output unless it is skipped or
fails; what an action reads counts as what it has resolved; one worker; requests of one
action do not overlap (`RpcSession.call` keeps them apart, but see the observations).
`reset_resolver`, which drops part of the caches between phases, is left out, since
an attempt has one batch here: `TrueToView` is about nested builds and about attempts, and says
nothing of the caches from one phase of an attempt to the next.
Two branches of the worker that nothing reaches are simplified: its loop also runs a single
`build` (`worker.dart:193`; attempts send batches), and it stores an answer's bytes under the asset
it has asked for, whatever the answer is to (`remote_build_step.dart:344`; in every
state of the run an answer that is not refused is to the request that waits).

### IncrementalBuild

One action per stage: `Begin` (scan, plan and analysis; `save_no_work` if there is
nothing to do), `RunNext` (one selected action in execution order, with the
optional producers it demands), `Fail`, `Commit` (post-build scan and the graph
to save; one step here, `CommitRecovery` has its parts). The user edits sources,
outputs and configuration between any two of them. A builder is a deterministic
function of what it sees, and its bytes name every observation it made, so a
missed rebuild shows in the bytes. What content makes a builder do (emit, read
another asset, list a glob, nothing) is `Habit`.

`CleanTree` is the reference: all enabled actions from the sources alone, each
seeing the earlier phases. It is written without the graph, the dirty analysis or
the transaction. What nobody asked for (`Unwanted`) is excepted: the code leaves
an old output of an optional action until a build has something to do.

Limits: users do not create sources while a build runs (what such a build has seen
of them is not decided; `commit.rs:321`, ADR 0032); an edit is not undone before a build
has seen it (digests cannot tell); foreign files are planted at cached outputs
of normal actions only; every asset has one place. Left out: resolver reads and
the analyzer's dependency graph, shared parts with their directive replay, the
part prefilter, triggers, `deletePrimaryInput` (in `WorkspaceScheduler`),
conflicts of cached outputs with package paths, filters and retained outputs.
The module uses `RECURSIVE` operators and is not proved about.

## Runs

| Run | Instance | Shows |
|---|---|---|
| `commit` | 1 output in the artifact tree, 1 source, 2 contents, 2 builds, 2 faults, 1 edit, 1 damaged backup, together 4; edits between commands, or at any time outside recovery; fair | only journaled destinations change; recovery respects edits; graph and tree agree; rollback is complete; where edits keep out of builds, refinement of `AtomicPublication`, and reserved names were free; an interruption is resolved |
| `schedule` | 6 workspaces, 3 workers, 2 failures, fair | equality with sequential execution; no stall; failures are reported; the schedule returns |
| `demand` | 5 filtered builds, 3 workers, 1 failure, 1 edit, fair | single flight, one content per source, no lost wakeup, no false cycle, right verdict; every worker ends |
| `watch` | 4 kinds of session, after a complete or an interrupted command, 2 jobs, 2 edits, 1 fault, fair | attempts start from the graph on disk; results come from clean processes of the right signature; a session at rest is current; every edit is answered |
| `artifact` | 2 commands in three pairs of roles, 1 edit (during a compile as well), 1 fault, 2 foreign files, fair | no stale or mixed worker is accepted but those of torn compiles; an undisturbed workspace compiles once; every command ends |
| `receipts` | 2 processes, 1 file, 3 kinds of device, 2 writes, clock to 3, kills, lost receipts | reused answers are those of hashing; evidence is true of its stamp |
| `compiler` | 2 commands of 2 modes, 2 packages in 3 directories (two of them in the workspace, one for each package), 1 edit (seen by stamps or missed) or resolution, 1 fault | whole copies; receipts stand for what copying again would give; workers are accepted for what they were compiled from; nobody is in another's way |
| `compiler_tick` | 1 command, isolated mode, 1 edit | a finding |
| `blobs` | 2 processes, packs of 2 records, 1 seeded, 2 puts, 2 faults, 4 initial stores | lookups answer what was put; published entries stay |
| `dialogue` | 1 worker, 2 optional actions, the second of which may ask for the first or be made from it, a demand-driven batch of 1 and a plain one of 2 actions, 2 attempts, 2 requests of the action and of the second optional one, 1 of the others, 1 edit, 1 fault, fair | builders are told what their phase and attempt may see; answers reach the request they are for; the graph learns all edges; one message at a time; nothing fails undisturbed; every attempt ends |
| `incremental` | 2 packages of 6 and 5 actions (normal, optional chains, listers, post-process), 2 sources, 2 configurations, 3 builds, 3 edits | an undisturbed build ends where a clean build would; the next has nothing to do |
| `incremental_chain` | a chain of 3 actions | a finding |

Sizes, in distinct states: `commit` 1.5 million, `watch` 0.9 million, `artifact` 1.3 million, `blobs`
1.9 million, `receipts` 2.6 million, `compiler` 2.3 million, `incremental` 0.6 million, `dialogue` 1.3 million; each run
ends in about three minutes or less on two workers.

A property that has no run here but a theorem (`TempsReserved`, `RollbackPossible`,
`PredecessorsComplete`, `ViewsAgree`, `StampBindsIndex`, `GenerationsBounded` and the like) was checked on
the instance of its component's run before it was proved.

### Bounds, and why they are enough

* Publication: every rule is about one destination and the graph, or about two
  destinations (one restored, one not yet). One output and one source are two;
  two contents tell "before", "after" and a stranger apart
  together with `Absent`. One fault and a later command is one recovery, two faults
  interrupt the recovery as well. `MaxEvents`, four, counts builds, faults, edits and
  damages together, and one for a behaviour whose edits overlap builds: a build,
  a kill and an edit in its midst, say, or two builds and an interrupted recovery.
  The theorems drop all of these bounds.
* Scheduler: the workspaces are chosen so that each rule decides something:
  `Chain` (generated inputs, two builders of a package per phase), `CleanUp`
  (post-process deletion seen and not seen), `Diamond` (two predecessors),
  `Cycle` (packages that reach each other), `Serial` (manifests without
  evidence), `Batch` (leases of more than one input). Three workers let two
  applications and a third one that must wait be in flight.
* Demand: `Shared` (one producer, one source, two roots), `Wide` (as many roots
  as workers), `Chain` (generated
  primary inputs), `Crossed` (opposite orders of the same demands), `Cyclic` (a
  cycle through the stacks of two workers). The phase guard keeps cyclic demands
  out of a whole build; the coordinator is specified, and unit-tested in
  `worker/lazy.rs`, without relying on it, and so is the model.
* Watch: two edits let one fall before and one into an attempt, or an edit meet
  a removed graph; one fault with a later attempt shows what a failure leaves to
  the next. Two jobs are one process that exists and one that is added.
* Artifact: one edit falls before, into or after a compile. Two commands are a winner and a waiter, or two that take a stale lock;
  a third party's files come from `Foreign`. The proofs drop these bounds for
  `AcceptedWhole` and `CompiledOnce`; `Ends` is checked for two.
* Receipts: two writes are one before and one after the evidence; a clock of three
  has a stamp that is settled and one that is not. The theorems drop both bounds.
* Compiler: at first, the runner is resolved to a legacy release, so that both layers have
  copies to make. One change is a source edited (to a release that needs no backport, say)
  or a resolution replaced; a directory in the
  workspace for each package is recorded by its place, the third one by its package; two commands
  are one that has read the old state and one that reads the new. One fault is a
  damaged copy that the next preparation meets, or a command killed half-way.
* Store: a pack of two is full after two puts and is seeded with one; two faults
  are a kill and a failure of the repair after it; an identifier can come back.
* Dialogue: the second attempt meets what the first has left. Two optional actions are a
  nested build inside a nested build, the second demanding the first; two requests of one action
  are a cached and a fresh one, or one before and one after an error. Two requests of every
  action were checked without liveness. One fault is any one level that fails.
  (Three attempts and two faults were checked without liveness.)
* Incremental: three edits can change a source, spoil an output and switch the
  configuration; three builds are one to set up, one disturbed, one
  to settle.
* `MaxBuilds`, `MaxFaults`, `MaxEdits`, `MaxDamages`, `MaxFailures`, `MaxForeign`,
  `MaxEvents`, `MaxPuts` and `MaxLive` bound the environment only. Deadlock is checked in the
  `commit` run; the other systems stop when the work or the environment's budget
  is used up, so it is off there, and `Returns`, `Terminates`, `Answered`, `AttemptEnds` and
  `Ends` show that they stop nowhere else. `BlobStore` has no liveness property: no operation waits.

### Fairness

* `CommitRecovery`: `WF(Proceed)`: a running command continues, since each file
  operation returns. `WF(Begin /\ mode' = "build")`: somebody runs a build
  again. Without the second nothing would ever recover, and nothing in the
  program promises it; the property is about what happens if they do. Faults and
  edits have no fairness.
* `WorkspaceScheduler`: `WF(Controller)` and `WF(Thread(w))`: threads of one
  process are scheduled, and a batch ends, with results or an error (the
  process dies, the pipe closes, a panic is caught and sent as a completion). A
  builder that never returns is outside this assumption and the code has no
  timeout for it.
* `FilteredDemand`: `WF(Step(w))` for each worker, for the same reasons; a
  sleeping worker has no step, so fairness promises no wakeup.
* `WatchSession`: `WF(Step)`: the session's one thread runs and its calls return.
  The user, the repair of `package_config.json` included, has no fairness.
* `WorkerArtifact`: `WF(Step(p))` and `WF(Deadline(p))`: a process that is not
  killed runs, the compiler returns, and 300 seconds pass for one that waits.
  The hour after which a lock lapses need not pass, and a killed process has no
  step that would remove its lock.

* `WorkerDialogue`: `WF(FrontendStep)` and `WF(WorkerStep)`: each side reads what has arrived
  and goes on, and a builder ends (its own end is a step; that it asks again is not
  forced, nor is a fault).

## Findings

Two properties that comments of the code state are refuted by TLC, each in a run of its own:

1. `incremental_chain` refutes `SkippedReconsidered`: skipped consumers "need a
   chance to check whether their primary input became available"
   (`rust/src/build/dirty.rs:585`). A dirty action that was itself skipped
   contributes no possible outputs. In a chain A, B, C where A first emits nothing,
   B and C are skipped; when A emits again B runs, C does not, and the graph saved
   then makes the next build believe that nothing changed. C's output stays
   missing.
2. `compiler_tick` refutes `RacingEditNeverMints`: "a racing source/copy edit must
   never mint a reusable receipt" (`rust/src/compile_isolation.rs:212`). The
   snapshots before and after are compared by stamps alone. A source that was
   written, stamped and copied, and then written again in the same tick of the
   clock at the same length, passes the comparison, and the receipt of the older
   bytes is reused from then on. `validated_digest.rs` excludes this by the age a stamp
   must have (`STAMP_SETTLE`, `rust/src/file_stamp.rs:71`).

### Observations

No run of the list shows these. Where a property is named that no run has, TLC
gives the counterexample when it is added to the instance named.

* `SourceEvidenceActedOn` of `CommitRecovery`, with three contents and one edit.
  `commit.rs` keeps the digests of sources as they were when the build began, "so
  the queued event still makes them dirty next cycle" (`rust/src/build/commit.rs:318`),
  but skips sources that the build itself rewrote (shared-part directives), for
  which the scan after publication decides. An edit a user makes between the rename
  of the source and that scan enters the graph as if a build had acted on it.
* `RetainedUntilRecognized` of `WatchSession`, on the sessions of `watch`: a
  configuration named in an unusual spelling is kept "until a recognized
  configuration change occurs" (`rust/src/watch.rs:103`). The flag of a recognized
  change belongs to one attempt; when that attempt fails before it has resolved
  the configuration, the next one, woken by any other event, keeps the old plan.
* `AdmittedChecked` of `WatchSession`, on the sessions of `watch`: "each newly admitted process must
  pass worker IPC checks" (`rust/src/worker/pool.rs:201`). `restart_workers`
  retires all processes before it starts new ones. If a start fails, the pool is
  empty but still has the old signature and count; the next build of that old
  signature starts one process and takes it for an initialized one. It is reset,
  which the Dart runtime ignores before a first initialization, and gets
  requests. (It answers none of them, so `TrustedResults` holds: the build fails.)
* `NestedFailureAborts` of `WorkerDialogue`, on the instance of `dialogue`: "Any nested demand
  failure returns to the transaction owner, which must abort publication"
  (`rust/src/worker/pool.rs:823`; `protocol/v1.md:415`, "only after every dirty action
  succeeds"). A failed demand is an error response to the builder that
  asked. In a filtered build it is latched as well (`rust/src/worker/lazy.rs:693`); in an
  unfiltered one nothing is, so that a builder that catches the error succeeds and
  the attempt is published without the demanded output.
* `EdgesOwn` of `WorkerDialogue`, there too: `build_parallel` drops the edges that a failed dispatch
  has reported, since "a resident watch pool must not leak them into the next
  build" (`rust/src/worker/pool.rs:800`). `build_parallel_lazy` does not, and
  they enter the graph of the next attempt that succeeds. (`EdgesKnown` holds: its own
  edges replace them.)
* Read in the code, outside the model: while a nested action runs, requests of the
  suspended one that overlap it (builders may await several reads at once) go through
  `_RemoteIoState._active`, which is the nested action's session, view and tracking
  (`lib/src/remote_build_step.dart:18`), although "the worker must keep the suspended outer
  action's IO context intact" (`protocol/v1.md:228`).
* What `AttemptEnds` does not promise: after an error with the worker mid-request, each
  following attempt is refused until its resets have unwound the worker's stack, one level
  each; a dead worker stays in the pool until the signature changes, and every
  attempt fails until then.
* What `CompiledAsLoaded` of `CompilerSources` excepts: a package that the worker was
  compiled with from a directory inside the workspace is recorded by its place. Let the
  runner lie there and be edited from an old release to a new one, with two commands: the
  first has prepared the backport of the old runner and loaded it when the runner is edited; the
  second finds the new release, drops the selector, compiles the runner from the
  workspace and records it by its path; the first then accepts that worker although
  it has loaded the backport. The same with two resolutions that place a package in
  different directories of the workspace. Workers of isolated copies are no exception,
  since the copy is part of the key.

## Proofs

Every theorem holds for all values of the constants, under the named assumptions
of the module it is about; no bound of a run is left in it. For each component
the invariant was first checked by TLC on the instance of its run. Theorems named
after a property are about `Spec`, without fairness.

| About | Theorems | Properties |
|---|---|---|
| `CommitRecovery` | 11 | all but `InterruptionResolved`; also types, and that `--only-check` writes nothing |
| `WorkspaceScheduler` | 7 | all but `Returns`; also types, and that leases partition inputs |
| `FilteredDemand` | 8 | all but `Terminates`; also types |
| `WatchSession` | 5 | all but `Answered`, and but `AdmittedChecked` (observations); also types |
| `WorkerArtifact` | 2 | all but `Ends` |
| `DigestReceipts` | 4 | all |
| `CompilerSources` | 6 | all but `RacingEditNeverMints` (findings); also types |
| `BlobStore` | 5 | all |
| `WorkerDialogue` | 7 | all but `AttemptEnds`, and but `NestedFailureAborts` and `EdgesOwn` (observations); also types |

### CommitRecoveryProofs

`CommitRecoveryProofs` proves, for all sets of outputs, sources and contents and
all bounds, under the assumptions named in `CommitRecovery` (`Absent` and `Lost`
are no contents; outputs, sources and the graph file are different;
bounds are naturals):

| Theorem | Statement |
|---|---|
| `Invariance` | `Spec => []Inv` |
| `Typing` | `Spec => []TypeOK` |
| `TemporariesReserved` | `Spec => []TempsReserved` |
| `RollbackStaysPossible` | `Spec => []RollbackPossible` |
| `RollbackComplete` | `Spec => []RollbackRestoresAll` |
| `JournalCoversChanges` | `Spec => OnlyJournaledChange` |
| `EditsSurvive` | `Spec => EditsSurviveRecovery` |
| `AtomicityOfPublication` | `Spec => ImplementsAtomicPublication` |
| `GraphIsTheTree` | `Spec => []GraphDescribesTree` |
| `VerificationReadsOnly` | `Spec => VerifyReadOnly` |
| `NamesReservedFree` | `Spec => ReservedNamesFree` |

None of these properties is inductive alone. `Inv` adds what the loops know:

* `LoopRange`: `todo` lies in the set its loop ranges over; without it a step of
  the loop could touch a destination the journal does not name.
* `JournalPhase`: the journal exists exactly in the steps that need it.
* `TempsInLoop`: partial temporaries belong to the element the loop is writing.
* `BackupsReady`: before the journal appears, every entry prepared in memory
  already has its undo copy; this is why publishing the journal last works.
* `RollbackProgress`: what recovery has validated stays valid and what it has
  restored stays restored, since recovery alone writes meanwhile.

Each conjunct has a lemma per group of actions (recover, commit, environment)
and one for the step; `InvStep` puts them together. Atomicity needs one more
invariant, `CommitProgress`, true where no edit overlaps a build: how much of the
plan the loops have carried out, and that the saved graph records just that.
With it every step maps to `Publish` (the unlink, or a graph saved without a
journal), to `Edit`, or to a stutter.

Atomicity and free names are promised to behaviours without `overlap`: the abstract
specification lets an edit and a publication happen one after the other, and an
edit in the middle of a publication can be overwritten by it. All other theorems
hold with `overlap` as well, with one exception named in `OnlyJournaledChange`: when
a cold build discards the artifact tree, a file that somebody put into it after its
files were collected for the journal is removed with the rest (`LateArtifact`;
`commit.rs:210`), and no rollback brings it back. ADR 0040 asks other writers to keep
out of builds.

`GraphIsTheTree` uses the same `CommitProgress` with "no edit so far" in place of
`~overlap`, so it holds for commands of either kind. `VerificationReadsOnly`
needs that a verifying command never gets as far as a step that writes
(`Verifying`). `NamesReservedFree` needs that what a build found free, and what it has
put there itself, stays so until the journal appears (`NamesFree`); a user who
puts a file at a reserved name in between is what `~overlap` excludes.

### WorkspaceSchedulerProofs

For any configured builders (`ConfigurationsAssumption`: primary inputs are
sources or what an earlier phase of the same package generates, only
post-process actions delete theirs, a manifest's evidence is the truth), any number of threads
and of failures:

| Theorem | Statement |
|---|---|
| `ScheduleInvariant` | `Spec => []Inv` |
| `TypesStay` | `Spec => []TypeOK` |
| `AlwaysRunnable` | `Spec => []NeverStalled` |
| `LeasesPartition` | `Spec => []InputsLeasedOnce` |
| `FailuresSurface` | `Spec => []FailureReported` |
| `LeasesFollowTheirInputs` | `Spec => PredecessorsComplete` |

`Inv` is what the controller relies on without saying so:

* `Whole`: phases are begun whole and in execution order, so that all
  applications not begun come after all that are.
* `Counted`: the counter of an application is the number of its dependencies
  that are not finished. It is decremented once per finished dependency, and
  nobody recomputes it.
* `Sound`: leases in flight are of prepared applications, overlap nowhere and add up
  with what is completed to what was handed out.
* `Channelled`, `Ended`: a lease is in the thread's channel, in a completion or
  nowhere, and never in two places; a thread that is gone has an error on the way.
* `Reported`: a failure is in the queue, or known to the controller.
* `Offered`: a worker passed over in this round had no candidate.
* `Progressed`: what is finished is recorded, action by action, as seen or missing.

`NeverStalled` is the deepest of them. When the controller has gone past its last
worker with nothing in flight, take the first unfinished application in execution
order. All that it depends on comes before it, so it is finished, so the counter
is zero and it is prepared; with nothing in flight `Sound` leaves it inputs that are not
handed out, and then the first worker had a candidate, against `Offered`. The same order
gives `PredecessorsComplete`: an application of an earlier phase is finished because
phases are whole, and one of the same phase that can be read is a dependency,
because independence requires that neither package reaches the other.

`InOrder`, `Preferred` and `Take` are proved total on the way: the lemmas `LeastBy`, `Ordering`
and `InOrderHasAll` say that minima over the code's five criteria exist, that `Before`
is a strict order and that listing a finite set by rank loses nothing.

#### Parallel is sequential

The second half of the module proves `ParallelIsSequential`, `Spec => []AsSequential`, under the same assumption: whatever
the order of completions, the number of threads, the packages and baselines the
processes come from, a schedule that succeeds leaves the transaction that
`Sequential` computes by running one application after the other, with the view
every action observed.

`AsSequential` speaks of the end only. The invariant `Parallel`, added to `Inv`,
says what makes it come out, for each step on the way:

* `Phased`: all earlier phases are recorded when one begins; success means that
  everything is started and finished.
* `Matched`: what is recorded or missing so far is, action by action, what the
  reference has there. A transaction is *closed*: what it has written and deleted
  is determined by which actions are recorded, so the order in which results arrive
  leaves no trace.
* `Based`: a baseline on its way to a process shows all that is recorded and visible in the
  phase, no two of them share an identity, and an application that has one would
  observe with it what it observes in turn.
* `Aware`: a process holds the overlay of the baseline it was last reset to, if that
  is alive, and nothing that was never produced.
* `Answering`: a result in the queue has the view of the reference.

The heart is `AlikeFound`: when an application's counter is zero, what it can
reach is recorded, and what is recorded besides cannot be seen by it. It rests on
`ReachDepends`, that two applications of a phase one of which can read the other are
ordered even when only one of their manifests has evidence of its packages: this is why
`Independent` has to ask in both directions. `HydrateHolds` is the counterpart for a
process: incremental hydration, from any package and baseline it held, is as good as
a fresh one.

`InTurn`, the reference, is a recursive function over the sets of applications. That
such a function exists is itself proved (`InTurnIs`): the least number of
applications for which it could not be defined would be one more than a number for which
it can. TLC confirms `Parallel` on the instance of `schedule`.

### FilteredDemandProofs

For any number of workers and any filtered build whose roots and demands are
actions of it (`DemandBuildsAssumption`), acyclic or not:

| Theorem | Statement |
|---|---|
| `DemandInvariant` | `Spec => [](Coherent /\ Answered /\ Ordered)` |
| `TypesKept` | `Spec => []TypeOK` |
| `EvaluatedOnce` | `Spec => []SingleFlight` |
| `OneOutcome` | `Spec => []ViewsAgree` |
| `ReadOnce` | `Spec => []SourceReadOnce` |
| `WakeupsArrive` | `Spec => []NoLostWakeup` |
| `VerdictIsRight` | `Spec => []VerdictRight` |
| `CyclesAreReal` | `Spec => []NoFalseCycle` |

`Coherent` ties the coordinator to the stacks: a running action is held by one frame
of one worker's stack (`OneFrame`), a complete one has its outcome and has run once, a
worker's copy of an outcome is the published one, a sleeper waits for a running
action that it has not (`Sleeping`), and the first observation is the only one
used. `Answered` follows the roots: each root handed out is complete, or some worker is
evaluating it or has failed; as many workers have left the loop as the counter
has run past the end (`Counted`); a latched failure has a worker that owns up to
it, also when the builder that met it caught the error (`Blamed`).

`Ordered` is about cycles. `NoFalseCycle` says that a plan whose actions can be
ranked above what they demand is never refused for a cycle. Every frame's demands, and
every edge of the wait graph, are demands of the plan (`Demanded`). An action
that `Follow` reaches along waits is then ranked no higher than where it started, while the
parent, which demands that start, is ranked above it: it cannot be reached.
`Follow` is written as the smallest set closed under the waits, which is what the code's
loop computes and can be reasoned about without induction.

### WatchSessionProofs

For any set of sessions, any number of jobs, edits and faults:

| Theorem | Statement |
|---|---|
| `SessionInvariant` | `Spec => []Inv` |
| `TypesHold` | `Spec => []TypeOK` |
| `ResultsAreTrusted` | `Spec => []TrustedResults` |
| `RestIsCurrent` | `Spec => []QuietIsCurrent` |
| `AttemptsStartFromDisk` | `Spec => BuildsFromDisk` |

* `Told` carries `QuietIsCurrent`: from the moment of the scan, a source that is not what
  was scanned has an event in the channel, likewise an output that is gone and a
  configuration announced after it was read. It holds since the session subscribes
  before it scans, and since no step drops a relevant event without beginning an
  attempt.
* `Admitted` and `Fresh` carry `TrustedResults`: the processes counted as initialized
  are of the pool's signature or of none (the gap behind `AdmittedChecked`), and from
  initialization to dispatch they are all of the one in hand, and clear.
* `Grounded` carries `BuildsFromDisk`: a resident graph that still has the file's stamp
  equals the file, and an attempt that has a graph has no undo evidence beside it.
* `Equipped`: plan and pool are there where they are used.

### WorkerArtifactProofs

`NoStaleWorker`: `Spec => []AcceptedWhole`, for any number of processes, edits, kills, failed operations, lapsed locks and foreign files, under
`ArtifactAssumption` (`None` is no executable and no metadata; bounds are
naturals). The proof does not use the lock at all: it avoids double work, and two
compilers at once are harmless. The invariant, `Current`, is

* `Typed` and `EditsCounted`: types, and that no version lies beyond the edits;
* `FilesTrue`: metadata in the workspace or the store tells the truth about the
  executable it is bound to by digest, or is that of a torn compile, whatever executable
  lies beside it;
* `Held` for each process: the same of the metadata in its hands; what it has
  staged from its own compile, and what it has accepted, was in the workspace
  at some moment since it began to look. `AcceptedWhole` alone says nothing of the
  files a later process will accept.

There is one lemma per group of steps (`CheckKeeps`, `MatchKeeps`, ...), and for the steps
that change one process only a lemma each for those that leave it with nothing
(`IdleStep`) and those that end its call (`LeavingStep`). An edit makes every compile
it falls into a torn one, or finds that all has been read after it (`EditKeeps`).

`CompiledBySingleFlight`: `Spec => []CompiledOnce`. A torn compile counts as a disturbance: its
metadata may be taken for current though its executable is not. Here
the lock is what matters. While nothing disturbs the workspace, a process that
compiles or publishes is the holder of the lock and the only one to compile
(`Lone`); once it has published, what is in the workspace is current and every
other process accepts it, waits for it or finds it when it looks again. The lock
is given back only after the publication; the second look, after the lock
is taken, is what makes the argument close.

### ReceiptProofs

#### Digest receipts

For any number of processes, contents, kinds of file system, writes and faults, under
`ReceiptAssumption` and `SettleAssumption`:

| Theorem | Statement |
|---|---|
| `Invariance` | `Spec => []IInv` |
| `Typing` | `Spec => []TypeOK` |
| `EvidenceIsTrue` | `Spec => []EvidenceTrue` |
| `ReuseAnswersAsHashing` | `Spec => []AnswersAsHashing` |

`EvidenceTrue` speaks of entries whose stamp the file has now. What is inductive is
about all entries: a stamp on a trusted device that is older than the present tick
belongs to one content for ever, because every later write carries a later time
(`TrueOf`, `Sound`). A process between its two stamps has evidence that will be of this kind
if the second stamp agrees, and a settled first stamp is what rules out that a write of
the same tick comes between. `AnswersAsHashing` then compares the entry with the contents
the file has had since the call began (`Underway`).

#### Compiler sources

For any number of commands, directories, contents, resolutions, edits and faults, under
`SourcesAssumption`: copies lie beside all package directories, what the first layer has
patched the second can patch, and nothing passes for what is absent.

| Theorem | Statement |
|---|---|
| `CompilerInvariance` | `CompilerSpec => []Sure` |
| `CompilerTyping` | `CompilerSpec => []CompilerTypeOK` |
| `PathsAreComplete` | `CompilerSpec => []CopiesWhole` |
| `ReceiptsAreTrue` | `CompilerSpec => []ReceiptTrue` |
| `CommandsDoNotFail` | `CompilerSpec => []NoneInTheWay` |
| `CompiledIsLoaded` | `CompilerSpec => []CompiledAsLoaded` |

Every command reads files, writes copies and looks at selectors that others change in
between, so what is inductive is about what each holds in its hands:

* `Kept` with `Staged`: types, and what a step can rely on; a first layer's copy is a
  backport, a second layer's has all packages; a selector selects what its layer makes,
  and the isolated one is never removed.
* `Traced`: what is collected of a place whose stamp, taken before the collecting, has
  not changed and missed no write is what the place has now. This is why the stamps must
  be compared a second time: a receipt is minted (`Mintable`) only if all of them are unchanged.
* `Evident`: so a receipt names, of each place that has kept its stamp and missed no
  write, what is there; of its copy and selector likewise. If all have, the copy it names is the one
  that would be made now (lemma `ReuseIs`). It matters that the name is
  computed from the contents: a reused copy need not be compared with the sources.
  That a missed write is the only exception to `ReceiptTrue` is what the theorem
  adds to the finding of `compiler_tick`.
* `Recorded`: a worker's input is recorded by package, or lies inside the
  workspace, and then the worker is none of isolated copies. A command that accepts it
  by package compares with its own package; by place, only if that is the
  exception of `CompiledAsLoaded`, since the copies' identity is in the key.
* `Calm`: as long as nothing is edited, resolved anew, damaged or killed, all commands
  hold pieces of one and the same copies (`First`, `Second`), every selector that is set
  selects them, and what a step expects on disk is there. The receipt is part of the
  argument: a command that reuses it goes on without looking for the copy.

The lemma `Settling` covers steps of one command that leave the files alone, `Forgetting`
all writes, whether stamps see them or not, `Selecting` the selector of the first layer; the rest
is a lemma per action.

### BlobStoreProofs

For any number of processes, keys and generations, any pack limits, any number of puts and
faults, and any store found at the start (`EarlierAssumption`: no more generations
than this program leaves). `BlobAssumption` has enough names for one more
generation than can be in use, which random names of 128 bits are.

| Theorem | Statement |
|---|---|
| `StoreInvariant` | `Spec => []Inv` |
| `AnswersAreTrue` | `Spec => []AnswersTrue` |
| `StampsBind` | `Spec => []StampBindsIndex` |
| `GenerationsStayFew` | `Spec => []GenerationsBounded` |
| `PublishedStays` | `Spec => PublishedKept` |

* `OneCoordinator`, `OneWriter`: the control lock has one holder, and a generation one
  writer, which has read all of its journal before it appends.
* `StampBindsIndex` is inductive with `OneWriter` and `Covered`: the journal under a stamp
  only grows, since whoever empties it gives it another stamp first.
* `Alone`: a generation that is being seeded is empty and nobody else's, so its journal
  can be written without the data lock.
* `Pointed`, `FewLive`, `FewGenerations`: whoever allocates has first removed all
  generations without a live user or has been refused, which leaves at most one
  generation per running process; a failed removal forbids the allocation.

`AnswersTrue` needs of all this only that the data consists of what was put and of
torn records: `IndexedBlobPack.get` compares key, length and checksum of the record it
has read with what it looks for, so that an index that is out of date costs a
miss and not a wrong answer. `StampBindsIndex` says when it is not out of date.

### WorkerDialogueProofs

For any batches, phases, optional actions, requests, number of attempts, edits and
failures, under `DialogueAssumption`: a batch is not empty, is of one phase and has no
action that runs on demand (`execution.rs` runs phase by phase), and neither a path nor
the absence of a request can be taken for a content or a request.

| Theorem | Statement |
|---|---|
| `Typing` | `Spec => [](Typed /\ Shaped) /\ []TypeOK` |
| `Invariance` | `Spec => []Inv` |
| `TakingTurns` | `Spec => []HalfDuplex` |
| `TruthTold` | `Spec => []TrueToView` |
| `AnswersOwn` | `Spec => []OwnAnswers` |
| `EdgesComplete` | `Spec => []EdgesKnown` |
| `FailsForCause` | `Spec => []UndisturbedSucceeds` |

The difficulty is that an error ends one level of the frontend's stack, while the worker
may still be inside the levels above, and goes on there: it may ask, finish and fail
in a run that nobody waits for. Numbers of requests are of no help, since every session
counts from one. `Inv` says why nothing of this is taken for something else:

* `Turn`: either the frontend handles a request or is between attempts, or exactly
  one message is in the pipes, or the worker is free; all of its runs but the
  last wait for an answer.
* `Ladder`, `Posed`: nested builds have ever larger numbers, are of optional actions and of
  phases before that of the batch; a request has the number and phase of its run.
* `Loop`, `Paired`, `Placed`: the worker has a run for every frame it has been told of,
  number by number. What it has besides has a number beyond those of all frames
  (`Beyond`). So the frontend expects a request exactly when the stacks are of one
  height (lemma `Expecting`), refuses all others, and no result of a run that was given up
  matches; a worker that has answered for its last extra run is back in step.
* `Taken`: nothing that went astray is in what the frontend has taken.
* `Cleaned`: an acknowledged greeting comes from a worker whose caches are cleared, since
  `reset` goes only to a worker that was initialized. `Current` builds on it: files,
  overlay, answers and caches have nothing older than the attempt, and what is built on
  demand is from the attempt. That caches are shared by all actions is no
  exception, because what is hidden from an action is hidden by its phase.
* `Edged`: an edge that the worker takes for sent is the frontend's, or is in the
  result that is on its way. An error between the two ends the attempt, and the next one
  begins with the reset that makes the worker forget what it has sent.
* `Healthy`: as long as nothing has failed the stacks agree, and the only refusals are those
  that a prefetch expects.

What the frontend has resolved must be its own also while it is greeting (`Edged`), and
its overlay must be of the attempt from the first greeting on (`Current`): both were
missing from the first version of the invariant, which held in every state of the run
and was not inductive. TLC confirms all parts of `Inv` on the instance of `dialogue`.

### Only model-checked

* Liveness (`InterruptionResolved`, `Returns`, `Terminates`, `Answered`, `AttemptEnds`, `Ends`): the
  backends do not reason about fairness and ENABLED.
* `IncrementalBuild`: `SameAsClean`, `SettledIsQuiet`. The module is built on
  `RECURSIVE` operators, with which the prover loses its arithmetic backend.
* What findings and observations name, which TLC refutes.

Induction needs no library theorem with an operator parameter where a least counterexample
will do: `WellFoundedInduction` has the fact that a set of naturals has a least
element, and the proofs about minima use it in this form.

Three things came out of the proofs. `NotCurrent` of `WorkerArtifact` and `Impact` of
`IncrementalBuild` were CASEs whose arms overlap; TLC takes the first true arm,
the language does not say which, and they are chains of IF now. `Recent` of `BlobStore`
listed the records to seed in another order than the code does. And the initial store of `BlobStore` had the smallest
generation as its current one; the proofs need no such thing, and the model has any now.

## Plan

Done: publication and recovery, workspace scheduler, filtered demand, watch
session, worker artifact, digest receipts, compiler sources, packed byte store, worker dialogue, incremental against clean builds.

Left, most important first:

1. Shared parts: the directive replay loop (`build/execution.rs:406`, at most eight
   rounds) and what it stages when it does not converge.
2. Resolver reads: entrypoints and their dependency graph in `IncrementalBuild`,
   with the analyzer as an external function.
3. Filtered and retained builds across attempts: retained outputs, and the set of
   generated sources to forget, which is decided from one attempt's changes
   (`build.rs:245`) although a failed attempt's are not kept.
4. Several workers, overlapping requests and `reset_resolver` in `WorkerDialogue`.
5. `ReleaseCache`: installers that share a lock; builder ordering as a pure
   function.

Theorems to come: an `IncrementalBuild` without `RECURSIVE`, to
prove `SettledIsQuiet` from what a commit records; and, for what the plan adds, the
same pair of an invariant and its theorems.

## Not modelled

* `workspace_lock.rs`: OS file locks taken in one order with `try_lock` and
  released with the value that owns them. A failed acquisition never waits, so
  there is no interleaving for a model to decide. `CommitRecovery` and
  `WatchSession` rely on its result, one writing command per package.
* Formats, paths, globs, digests as functions, encoding of the graph and
  manifest: data conversions without state.
* The analyzer, `package:build` and builders: external, present as outcomes.
* Command line, metrics, tracing, downloads, process signals: I/O at the edge.
* `prepare_worker_kernel` (one process, one rename) and links to SDK files.
* The directory left by a killed process in which it prepared a copy: a later process
  with the same number cannot create it (`runner_compatibility.rs:206`) and reports so.
* Windows in the code that no property can close, because nothing is claimed
  about them: an edit between a comparison and the rename after it
  (`commit.rs:260`), an edit during recovery (`recovery.rs:365`), a newer
  executable renamed over an accepted path (`worker_kernel.rs:577`).
* Two suspicions outside the models: a read error while a tail is adopted makes
  the repair truncate the whole journal (`indexed_blob_store.dart:610`), and in an
  ordinary build the deletion of an obsolete output hides a path from the reader
  of its optional replacement (`worker/lazy.rs:1172`; the filtered branch lifts it).
* The parts of the plan above that are not done; `PROJECT.json` says per
  component what is missing.
