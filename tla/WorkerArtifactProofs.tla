------------------------- MODULE WorkerArtifactProofs -------------------------
(* No stale worker is accepted, and an undisturbed workspace compiles once,  *)
(* for any number of processes, edits, faults and foreign publications:      *)
(* theorems about WorkerArtifact.                                            *)
EXTENDS WorkerArtifact, TLAPS

----------------------------------------------------------------------------
(* The inductive invariant: what the files and the processes hold, that      *)
(* metadata tells the truth about the executable it is bound to unless the   *)
(* compile was torn, and that a process has compiled and accepted only what  *)
(* was there since it began, or a torn compile that was digested since then. *)

Meta == [key : Keys, worker : Keys, dep : Keys, executable : Sources]
Pair == [executable : Sources \union {None}, meta : Meta \union {None}]
Flag == BOOLEAN
Steps == {"start", "check", "match", "wait", "test", "acquire", "takeover", "spawned", "compile",
          "emit", "publish", "executable", "share", "shareMeta", "stage", "stageMeta",
          "install", "installMeta", "return", "done"}
Process ==
    [role : {"foreground", "watch", "detached", "helper"}, pc : Steps, at : {"begin", "first", "second", "recheck"}, guard : Flag, again : Flag, late : Flag,
     key : Keys, began : Nat, meta : Meta \union {None}, staged : Sources \union {None},
     accepted : Sources \union {None}]

Typed ==
    /\ source \in Seq(Sources) /\ Len(source) > 0
    /\ proc \in [Processes -> Process]
    /\ \A p \in Processes : proc[p].began \in 1..Len(source)

History == [edits : Nat, faults : Nat, foreign : Nat, late : Flag, compiles : Nat,
            torn : SUBSET (Sources \X Sources)]
EditsCounted ==
    /\ history \in History
    /\ history.edits <= MaxEdits
    /\ \A i \in 1..Len(source) : source[i].key <= history.edits /\ source[i].dep <= history.edits

\* What stands for what: itself, or what was digested for it.
Stands(executable, digested) == executable = digested \/ <<executable, digested>> \in history.torn
Digested(meta) == [key |-> meta.worker, dep |-> meta.dep]
True(meta) == meta # None => Stands(meta.executable, Digested(meta))

FilesTrue ==
    /\ local \in Pair /\ True(local.meta)
    /\ shared \in [Keys -> Pair] /\ \A key \in Keys : True(shared[key].meta)

SinceBegun(c, executable) == \E i \in c.began..Len(source) : Stands(executable, source[i])

\* Steps in which a process has accepted nothing yet, or no longer.
Idle == {"start", "check", "wait", "test", "acquire", "takeover", "spawned", "compile", "stage",
         "done"}

Held(c) ==
    /\ True(c.meta)
    /\ c.pc \in Idle \union {"stageMeta"} => c.accepted = None /\ c.meta = None
    /\ c.pc = "emit" => Stands(c.staged, Now)
    /\ c.pc \in {"emit", "publish", "executable"} => c.staged # None /\ SinceBegun(c, c.staged)
    /\ c.pc \in {"stageMeta", "install"} => c.staged # None
    /\ c.pc \in {"publish", "executable", "match", "install", "installMeta"} =>
           c.meta # None
    /\ c.pc \in {"match", "emit", "publish", "executable"} => c.accepted = None
    /\ c.accepted # None => SinceBegun(c, c.accepted)

Current == Typed /\ EditsCounted /\ FilesTrue /\ \A p \in Processes : Held(proc[p])

----------------------------------------------------------------------------
(* What the operators on a process return.                                   *)

\* None is none of the values it stands beside.
LEMMA NoneIsNoSource == \A executable \in Sources : executable # None
BY ArtifactAssumption
LEMMA NoneIsNoMetadata == \A meta \in Meta : meta # None
BY ArtifactAssumption DEF Meta

\* The present contents are the last of the source's versions.
LEMMA NowIsLast ==
    ASSUME Typed
    PROVE  Now = source[Len(source)] /\ Now \in Sources
BY DEF Typed, Now, Last

\* Whatever a call leaves with, it has nothing staged and no metadata.
LEMMA LeftProcess ==
    ASSUME NEW c \in Process
    PROVE  /\ Left(c) \in Process
           /\ Left(c).pc = "return" /\ Left(c).meta = None
           /\ Left(c).began = c.began /\ Left(c).accepted = c.accepted
BY DEF Left, Process, Steps

\* A miss in the store leads on, to a step that holds nothing.
LEMMA NotRestoredProcess ==
    ASSUME NEW c \in Process
    PROVE  /\ NotRestored(c) \in Process
           /\ NotRestored(c).pc \in {"wait", "check", "acquire", "compile"}
           /\ NotRestored(c).meta = None
           /\ NotRestored(c).began = c.began /\ NotRestored(c).accepted = c.accepted
<1>1. c.at \in {"begin", "first", "second", "recheck"} BY DEF Process
<1>2. CASE c.at = "begin" BY <1>2 DEF NotRestored, Process, Steps
<1>3. CASE c.at = "first" BY <1>3 DEF NotRestored, Process, Steps
<1>4. CASE c.at = "second" BY <1>4 DEF NotRestored, Process, Steps
<1>5. CASE c.at = "recheck" BY <1>5 DEF NotRestored, Process, Steps
<1> QED BY <1>1, <1>2, <1>3, <1>4, <1>5

\* The same of a local artifact that is not current.
LEMMA NotCurrentProcess ==
    ASSUME NEW p \in Processes, proc[p] \in Process
    PROVE  /\ NotCurrent(p) \in Process
           /\ NotCurrent(p).pc \in {"test", "acquire", "stage"}
           /\ NotCurrent(p).meta = None
           /\ NotCurrent(p).began = proc[p].began /\ NotCurrent(p).accepted = proc[p].accepted
<1>1. CASE proc[p].at \in {"first", "second"} BY <1>1 DEF NotCurrent, Process, Steps
<1>2. CASE proc[p].at \notin {"first", "second"} /\ proc[p].role = "watch"
      BY <1>2 DEF NotCurrent, Process, Steps
<1>3. CASE proc[p].at \notin {"first", "second"} /\ proc[p].role # "watch"
      BY <1>3 DEF NotCurrent, Process, Steps
<1> QED BY <1>1, <1>2, <1>3

\* True metadata that matches an executable was made for the present contents.
LEMMA MatchIsNow ==
    ASSUME Typed, NEW meta \in Meta \union {None}, True(meta), NEW executable, NEW key,
           Matches(meta, executable, key)
    PROVE  executable \in Sources /\ Stands(executable, Now)
<1>1. meta \in Meta /\ meta # None /\ meta.executable = executable BY DEF Matches
<1>2. executable \in Sources /\ Now \in Sources BY <1>1, NowIsLast DEF Meta
<1>3. Digested(meta) = Now BY <1>2 DEF Matches, Digested, Sources
<1> QED BY <1>1, <1>2, <1>3 DEF True

\* Something that stands for the present contents is new enough for any process.
LEMMA NowIsSince ==
    ASSUME Typed, NEW c, c.began \in 1..Len(source), NEW executable, Stands(executable, Now)
    PROVE  SinceBegun(c, executable)
<1>1. Len(source) \in c.began..Len(source) BY DEF Typed
<1> QED BY <1>1, NowIsLast DEF SinceBegun

\* Torn compiles are not forgotten.
LEMMA StandsStay ==
    ASSUME history.torn \subseteq history'.torn
    PROVE  /\ \A executable, digested :
                 Stands(executable, digested) => Stands(executable, digested)'
           /\ \A meta : True(meta) => True(meta)'
BY DEF Stands, True, Digested

\* What the changes of a history leave of it, whatever it takes torn compiles for.
LEMMA HistoryOf ==
    ASSUME NEW Torn, NEW torn \in Torn, NEW edits \in Nat, NEW foreign \in Nat,
           NEW h \in [edits : Nat, faults : Nat, foreign : Nat, late : Flag, compiles : Nat,
                      torn : Torn],
           NEW new, new = [h EXCEPT !.edits = edits, !.torn = torn]
                    \/ new = [h EXCEPT !.foreign = foreign, !.torn = torn]
    PROVE  new \in [edits : Nat, faults : Nat, foreign : Nat, late : Flag, compiles : Nat,
                    torn : Torn]
OBVIOUS
LEMMA HistoryTyped ==
    ASSUME history \in History, NEW torn \in SUBSET (Sources \X Sources),
           NEW edited, edited = [history EXCEPT !.edits = @ + 1, !.torn = torn],
           NEW other, other = [history EXCEPT !.foreign = @ + 1, !.torn = torn]
    PROVE  /\ edited \in History /\ other \in History
           /\ edited.torn = torn /\ edited.edits = history.edits + 1
           /\ other.torn = torn /\ other.edits = history.edits
           /\ other.faults = history.faults /\ other.late = history.late
           /\ other.compiles = history.compiles
<1> DEFINE Torn == SUBSET (Sources \X Sources)
<1>1. history \in [edits : Nat, faults : Nat, foreign : Nat, late : Flag, compiles : Nat,
                   torn : Torn] /\ torn \in Torn
      BY DEF History
<1> HIDE DEF Torn
<1>2. PICK edits \in Nat, foreign \in Nat :
         edits = history.edits + 1 /\ foreign = history.foreign + 1
      BY <1>1
<1>3. /\ edited = [history EXCEPT !.edits = edits, !.torn = torn]
      /\ other = [history EXCEPT !.foreign = foreign, !.torn = torn]
      BY <1>2
<1>4. edited \in [edits : Nat, faults : Nat, foreign : Nat, late : Flag, compiles : Nat,
                  torn : Torn]
      BY <1>1, <1>3, HistoryOf
<1>5. other \in [edits : Nat, faults : Nat, foreign : Nat, late : Flag, compiles : Nat,
                 torn : Torn]
      BY <1>1, <1>3, HistoryOf
<1>6. edited \in History /\ other \in History BY <1>4, <1>5 DEF History, Torn
<1> QED BY <1>1, <1>2, <1>3, <1>6

\* What the invariant says of one process.
LEMMA ProcessTyped ==
    ASSUME Current, NEW p \in Processes
    PROVE  proc[p] \in Process /\ Held(proc[p]) /\ proc[p].began \in 1..Len(source)
BY DEF Current, Typed

\* Nothing is edited, and no compile torn.
Counts == history' \in History /\ history'.edits = history.edits /\ history'.torn = history.torn

\* A fault, or no fault, leaves the count of edits as it is.
LEMMA FaultCounts ==
    ASSUME Current, Fault \/ UNCHANGED history
    PROVE  Counts
BY DEF Counts, Current, EditsCounted, History, Fault

USE DEF Counts

\* Files that are left alone stay true.
LEMMA FilesKept ==
    ASSUME Current, UNCHANGED <<local, shared>>, history.torn \subseteq history'.torn
    PROVE  FilesTrue'
BY StandsStay DEF Current, FilesTrue

\* A step of one process that leaves the sources as they are keeps the
\* invariant if what it makes of the process and of the files is right.
LEMMA OneProcess ==
    ASSUME Current, NEW p \in Processes, NEW c \in Process, To(p, c),
           c.began \in 1..Len(source), Held(c), UNCHANGED source, FilesTrue',
           Counts
    PROVE  Current'
<1>1. proc' \in [Processes -> Process] /\ proc'[p] = c
      /\ \A q \in Processes \ {p} : proc'[q] = proc[q]
      BY DEF Current, Typed, To
<1>2. Typed' BY <1>1 DEF Current, Typed
<1>3. EditsCounted' BY DEF Counts, Current, EditsCounted
<1>5. ASSUME NEW q \in Processes PROVE Held(proc[q])'
      <2>1. Held(proc'[q]) BY <1>1 DEF Current
      <2> QED BY <2>1 DEF Counts, Held, SinceBegun, Now, True, Stands
<1> QED BY <1>2, <1>3, <1>5 DEF Current

\* A process may always go where it holds nothing, and has accepted nothing.
LEMMA IdleStep ==
    ASSUME Current, NEW p \in Processes, NEW c \in Process, To(p, c),
           c.began \in 1..Len(source), c.accepted = None, c.pc \in Idle, c.meta = None,
           UNCHANGED <<source, local, shared>>,
           Counts
    PROVE  Current'
<1>1. Held(c) BY DEF Idle, Held, True
<1>2. FilesTrue' BY FilesKept
<1> QED BY <1>1, <1>2, OneProcess

\* A process may always leave, with what was there since it began.
LEMMA LeavingStep ==
    ASSUME Current, NEW p \in Processes, NEW c \in Process, To(p, Left(c)),
           c.began \in 1..Len(source), c.accepted # None => SinceBegun(c, c.accepted),
           UNCHANGED source, FilesTrue',
           Counts
    PROVE  Current'
<1> DEFINE d == Left(c)
<1>1. d \in Process /\ d.pc = "return" /\ d.meta = None
      /\ d.began = c.began /\ d.accepted = c.accepted
      BY LeftProcess
<1> HIDE DEF d
<1>2. Held(d) BY <1>1 DEF Held, True, SinceBegun, Idle
<1>3. To(p, d) BY DEF d
<1> QED BY <1>1, <1>2, <1>3, OneProcess

----------------------------------------------------------------------------
(* The steps of a process.                                                   *)

\* It begins with the present key.
LEMMA BeginKeeps ==
    ASSUME Current, NEW p \in Processes, Begin(p)
    PROVE  Current'
<1> DEFINE c == [proc[p] EXCEPT !.pc = "check", !.at = "begin", !.key = Now.key,
                                !.began = Len(source)]
<1>1. To(p, c) /\ UNCHANGED <<source, local, shared, history>> BY DEF Begin
<1>2. proc[p] \in Process /\ proc[p].accepted = None /\ proc[p].meta = None
      BY ProcessTyped DEF Begin, At, Held, Idle
<1>3. Now.key \in Keys /\ Len(source) \in Nat /\ Len(source) \in 1..Len(source)
      BY NowIsLast DEF Current, Typed, Sources
<1>4. c \in Process /\ c.pc = "check" /\ c.began = Len(source) /\ c.meta = None
      /\ c.accepted = None
      BY <1>2, <1>3 DEF Process, Steps
<1> HIDE DEF c
<1>5. Counts BY <1>1, FaultCounts
<1> QED BY <1>1, <1>3, <1>4, <1>5, IdleStep DEF Idle

\* A miss leads to a check elsewhere.
LEMMA MissKeeps ==
    ASSUME Current, NEW p \in Processes, proc[p].accepted = None, To(p, NotCurrent(p)),
           UNCHANGED <<source, local, shared, history>>
    PROVE  Current'
<1> DEFINE c == NotCurrent(p)
<1>1. c \in Process /\ c.pc \in Idle /\ c.meta = None /\ c.accepted = None
      /\ c.began \in 1..Len(source)
      BY ProcessTyped, NotCurrentProcess DEF Idle
<1> HIDE DEF c
<1>2. To(p, c) BY DEF c
<1>3. Counts BY FaultCounts
<1> QED BY <1>1, <1>2, <1>3, IdleStep

\* So does a miss in the store.
LEMMA StoreMissKeeps ==
    ASSUME Current, NEW p \in Processes, NEW d \in Process, d.accepted = None,
           d.began = proc[p].began, To(p, NotRestored(d)),
           UNCHANGED <<source, local, shared>>, Fault \/ UNCHANGED history
    PROVE  Current'
<1> DEFINE c == NotRestored(d)
<1>1. c \in Process /\ c.pc \in Idle /\ c.meta = None /\ c.accepted = None
      /\ c.began \in 1..Len(source)
      BY ProcessTyped, NotRestoredProcess DEF Idle
<1> HIDE DEF c
<1>2. To(p, c) BY DEF c
<1>3. Counts BY FaultCounts
<1> QED BY <1>1, <1>2, <1>3, IdleStep

\* The metadata that is read of the local artifact is true.
LEMMA CheckKeeps ==
    ASSUME Current, NEW p \in Processes, Check(p)
    PROVE  Current'
<1>1. proc[p].accepted = None /\ proc[p] \in Process
      BY ProcessTyped DEF Check, At, Held, Idle
<1>2. CASE local.executable # None /\ local.meta # None /\ local.meta.key = proc[p].key
      <2> DEFINE c == [proc[p] EXCEPT !.pc = "match", !.meta = local.meta]
      <2>1. To(p, c) /\ UNCHANGED <<source, local, shared, history>> BY <1>2 DEF Check
      <2>2. local.meta \in Meta \union {None} /\ True(local.meta)
            BY DEF Current, FilesTrue, Pair
      <2>3. c \in Process /\ c.pc = "match" /\ c.meta = local.meta /\ c.accepted = None
            /\ c.began = proc[p].began
            BY ZenonT(40), <1>1, <2>2 DEF Process, Steps
      <2> HIDE DEF c
      <2>4. Held(c) BY <1>2, <2>2, <2>3 DEF Held, Idle
      <2>5. Counts /\ FilesTrue'
            BY <2>1, FaultCounts, FilesKept
      <2> QED BY <2>1, <2>3, <2>4, <2>5, ProcessTyped, OneProcess
<1>3. CASE ~(local.executable # None /\ local.meta # None /\ local.meta.key = proc[p].key)
      BY <1>1, <1>3, MissKeeps DEF Check
<1> QED BY <1>2, <1>3

\* What matches true metadata is what the sources are now.
LEMMA MatchKeeps ==
    ASSUME Current, NEW p \in Processes, Match(p)
    PROVE  Current'
<1> DEFINE executable == local.executable
<1>1. proc[p].accepted = None /\ proc[p] \in Process /\ True(proc[p].meta)
      /\ proc[p].began \in 1..Len(source)
      BY ProcessTyped DEF Match, At, Held
<1>2. CASE Matches(proc[p].meta, executable, proc[p].key)
      <2> DEFINE c == [proc[p] EXCEPT !.accepted = executable]
      <2>1. To(p, Left(c)) /\ UNCHANGED <<source, local, shared, history>>
            BY <1>2 DEF Match, Accept
      <2>2. proc[p].meta \in Meta \union {None} BY <1>1 DEF Process
      <2>3. executable \in Sources /\ Stands(executable, Now)
            BY <1>1, <1>2, <2>2, MatchIsNow DEF Current
      <2>4. c \in Process /\ c.accepted = executable /\ c.began = proc[p].began
            BY <1>1, <2>3 DEF Process
      <2> HIDE DEF c
      <2>6. SinceBegun(c, c.accepted) BY <1>1, <2>3, <2>4, NowIsSince DEF Current
      <2>7. Counts /\ FilesTrue'
            BY <2>1, FaultCounts, FilesKept
      <2> QED BY <1>1, <2>1, <2>4, <2>6, <2>7, LeavingStep
<1>3. CASE ~Matches(proc[p].meta, executable, proc[p].key)
      BY <1>1, <1>3, MissKeeps DEF Match
<1> QED BY <1>2, <1>3

----------------------------------------------------------------------------
(* The machine's store                                                       *)

\* What is staged may be anything the store holds.
LEMMA StageKeeps ==
    ASSUME Current, NEW p \in Processes, Stage(p)
    PROVE  Current'
<1> DEFINE executable == shared[proc[p].key].executable
<1>1. proc[p] \in Process /\ proc[p].accepted = None /\ proc[p].meta = None
      /\ proc[p].began \in 1..Len(source)
      BY ProcessTyped DEF Stage, At, Held, Idle
<1>2. executable \in Sources \union {None}
      BY <1>1 DEF Process, Current, FilesTrue, Pair
<1>3. CASE executable = None
      BY <1>1, <1>3, StoreMissKeeps DEF Stage
<1>4. CASE executable # None
      <2> DEFINE c == [proc[p] EXCEPT !.pc = "stageMeta", !.staged = executable]
      <2>1. To(p, c) /\ UNCHANGED <<source, local, shared, history>> BY <1>4 DEF Stage
      <2>2. c \in Process /\ c.pc = "stageMeta" /\ c.meta = None /\ c.accepted = None
            /\ c.began = proc[p].began /\ c.staged # None
            BY <1>1, <1>2, <1>4 DEF Process, Steps
      <2> HIDE DEF c
      <2>3. Held(c) BY <2>2 DEF Held, True
      <2>4. Counts /\ FilesTrue'
            BY <2>1, FaultCounts, FilesKept
      <2> QED BY <1>1, <2>1, <2>2, <2>3, <2>4, OneProcess
<1> QED BY <1>3, <1>4

\* Only a staged pair that matches is kept, and it is of the present sources.
LEMMA StageMetadataKeeps ==
    ASSUME Current, NEW p \in Processes, StageMetadata(p)
    PROVE  Current'
<1> DEFINE meta == shared[proc[p].key].meta
<1>1. proc[p] \in Process /\ proc[p].accepted = None /\ proc[p].began \in 1..Len(source)
      BY ProcessTyped DEF StageMetadata, At, Held
<1>2. meta \in Meta \union {None} /\ True(meta)
      BY <1>1 DEF Process, Current, FilesTrue, Pair
<1>3. CASE Matches(meta, proc[p].staged, proc[p].key)
      <2> DEFINE c == [proc[p] EXCEPT !.pc = "install", !.meta = meta, !.accepted = proc[p].staged]
      <2>1. To(p, c) /\ UNCHANGED <<source, local, shared, history>> BY <1>3 DEF StageMetadata
      <2>2. proc[p].staged \in Sources /\ Stands(proc[p].staged, Now)
            BY <1>2, <1>3, MatchIsNow DEF Current
      <2>3. proc[p].staged # None /\ meta # None BY <1>3 DEF Matches
      <2>4. c \in Process /\ c.pc = "install" /\ c.meta = meta /\ c.accepted = proc[p].staged
            /\ c.began = proc[p].began /\ c.staged = proc[p].staged
            BY ZenonT(40), <1>1, <1>2, <2>2 DEF Process, Steps
      <2> HIDE DEF c
      <2>6. SinceBegun(c, c.accepted) BY <1>1, <2>2, <2>4, NowIsSince DEF Current
      <2>7. Held(c) BY <1>2, <2>2, <2>3, <2>4, <2>6 DEF Held, Idle
      <2>8. Counts /\ FilesTrue'
            BY <2>1, FaultCounts, FilesKept
      <2> QED BY <1>1, <2>1, <2>4, <2>7, <2>8, OneProcess
<1>4. CASE ~Matches(meta, proc[p].staged, proc[p].key)
      BY <1>1, <1>4, StoreMissKeeps DEF StageMetadata
<1> QED BY <1>3, <1>4

\* A step to another that holds no less.
LEMMA GotoHeld ==
    ASSUME Current, NEW p \in Processes, NEW step \in Steps, Goto(p, step),
           <<proc[p].pc, step>> \in {<<"install", "installMeta">>, <<"publish", "executable">>,
                                     <<"share", "shareMeta">>},
           UNCHANGED <<source, history>>, FilesTrue'
    PROVE  Current'
<1> DEFINE c == [proc[p] EXCEPT !.pc = step]
<1>1. To(p, c) BY DEF Goto
<1>2. proc[p] \in Process /\ Held(proc[p]) /\ proc[p].began \in 1..Len(source)
      BY ProcessTyped
<1>3. c \in Process /\ c.pc = step /\ c.meta = proc[p].meta /\ c.accepted = proc[p].accepted
      /\ c.began = proc[p].began /\ c.staged = proc[p].staged
      BY <1>2 DEF Process
<1> HIDE DEF c
<1>4. Held(c) BY <1>2, <1>3 DEF Held, Idle, SinceBegun
<1>5. Counts BY FaultCounts
<1> QED BY <1>1, <1>2, <1>3, <1>4, <1>5, OneProcess

\* An executable put beside metadata that is not its own does no harm.
LEMMA InstallKeeps ==
    ASSUME Current, NEW p \in Processes, Install(p)
    PROVE  Current'
<1>1. proc[p] \in Process /\ proc[p].staged # None /\ proc[p].meta # None
      BY ProcessTyped DEF Install, At, Held
<1>2. FilesTrue' BY <1>1 DEF Install, Current, FilesTrue, Pair, True, Stands, Digested, Process
<1> QED BY <1>1, <1>2, GotoHeld DEF Install, At, Steps
LEMMA InstallMetadataKeeps ==
    ASSUME Current, NEW p \in Processes, InstallMetadata(p)
    PROVE  Current'
<1>1. proc[p] \in Process /\ Held(proc[p]) /\ proc[p].began \in 1..Len(source)
      BY ProcessTyped
<1>2. FilesTrue'
            BY <1>1 DEF InstallMetadata, Current, FilesTrue, Pair, True, Stands, Digested, Process, Held
<1>3. Counts BY FaultCounts DEF InstallMetadata
<1> QED BY <1>1, <1>2, <1>3, LeavingStep DEF InstallMetadata, Held

\* A restore that fails has accepted nothing.
LEMMA RestoreFailsKeeps ==
    ASSUME Current, NEW p \in Processes, RestoreFails(p)
    PROVE  Current'
<1> DEFINE d == [proc[p] EXCEPT !.accepted = None]
<1>1. d \in Process /\ d.accepted = None /\ d.began = proc[p].began
      BY ProcessTyped DEF Process
<1> HIDE DEF d
<1>2. To(p, NotRestored(d)) BY DEF RestoreFails, d
<1> QED BY <1>1, <1>2, StoreMissKeeps DEF RestoreFails

\* Publishing to the store copies true files.
LEMMA ShareKeeps ==
    ASSUME Current, NEW p \in Processes,
           ShareExecutable(p) \/ ShareMetadata(p) \/ ShareFails(p)
    PROVE  Current'
<1>1. proc[p] \in Process /\ Held(proc[p]) /\ proc[p].began \in 1..Len(source)
      BY ProcessTyped
<1>2. CASE ShareExecutable(p)
      <2>1. FilesTrue'
            BY <1>1, <1>2 DEF ShareExecutable, Current, FilesTrue, Pair, True, Stands, Digested, Process
      <2> QED BY <1>2, <2>1, GotoHeld DEF ShareExecutable, At, Steps
<1>3. CASE ShareMetadata(p)
      <2>1. FilesTrue'
            BY <1>1, <1>3 DEF ShareMetadata, Current, FilesTrue, Pair, True, Stands, Digested, Process
      <2>2. Counts
            BY <1>3, FaultCounts DEF ShareMetadata
      <2> QED BY <1>1, <1>3, <2>1, <2>2, LeavingStep DEF ShareMetadata, Held
<1>4. CASE ShareFails(p)
      <2>1. FilesTrue' /\ Counts
            BY <1>4, FaultCounts, FilesKept DEF ShareFails
      <2> QED BY <1>1, <1>4, <2>1, LeavingStep DEF ShareFails, Held
<1> QED BY <1>2, <1>3, <1>4

----------------------------------------------------------------------------
(* The lock, which the invariant does not depend on                          *)

\* Waiting, taking and losing the lock hold nothing.
LEMMA LockKeeps ==
    ASSUME Current, NEW p \in Processes,
           Wait(p) \/ Test(p) \/ Deadline(p) \/ Acquire(p) \/ TakeOver(p)
    PROVE  Current'
<1>1. proc[p] \in Process /\ Held(proc[p]) /\ proc[p].began \in 1..Len(source)
      BY ProcessTyped
<1>2. CASE Wait(p)
      <2>1. proc[p].accepted = None BY <1>1, <1>2 DEF Wait, At, Held, Idle
      <2>2. CASE To(p, NotRestored(proc[p]))
            BY <1>1, <1>2, <2>1, <2>2, StoreMissKeeps DEF Wait
      <2>3. CASE To(p, [proc[p] EXCEPT !.pc = "check"])
            <3> DEFINE c == [proc[p] EXCEPT !.pc = "check"]
            <3>1. c \in Process /\ c.pc = "check" /\ c.meta = None /\ c.accepted = None
                  /\ c.began = proc[p].began
                  BY <1>1, <1>2 DEF Wait, At, Held, Idle, Process, Steps
            <3> HIDE DEF c
            <3>2. To(p, c) BY <2>3 DEF c
            <3>3. Counts
                  BY <1>2, FaultCounts DEF Wait
            <3> QED BY <1>1, <1>2, <3>1, <3>2, <3>3, IdleStep DEF Wait, Idle
      <2> QED BY <1>2, <2>2, <2>3 DEF Wait
<1>3. CASE Test(p)
      <2> DEFINE c == [proc[p] EXCEPT !.pc = IF GivesUp(p) THEN "stage" ELSE "check"]
      <2>1. c \in Process /\ c.pc \in {"stage", "check"} /\ c.meta = None /\ c.accepted = None
            /\ c.began = proc[p].began
            BY <1>1, <1>3 DEF Test, At, Held, Idle, Process, Steps
      <2> HIDE DEF c
      <2>2. To(p, c) BY <1>3 DEF Test, Goto, c
      <2>3. Counts
            BY <1>3, FaultCounts DEF Test
      <2> QED BY <1>1, <1>3, <2>1, <2>2, <2>3, IdleStep DEF Test, Idle
<1>4. CASE Deadline(p)
      <2> DEFINE c == [proc[p] EXCEPT !.late = TRUE]
      <2>1. TRUE \in Flag BY DEF Flag
      <2>2. c \in Process /\ c.pc = proc[p].pc /\ c.meta = proc[p].meta
            /\ c.accepted = proc[p].accepted /\ c.began = proc[p].began
            /\ c.staged = proc[p].staged
            BY <1>1, <2>1 DEF Process
      <2> HIDE DEF c
      <2>3. To(p, c) BY <1>4 DEF Deadline, c
      <2>4. Held(c) BY <1>1, <2>2 DEF Held, Idle, SinceBegun
      <2>5. Counts
            BY <1>4, <2>1 DEF Deadline, Current, EditsCounted, History
      <2>6. FilesTrue' BY <1>4, FilesKept DEF Deadline
      <2> QED BY <1>1, <1>4, <2>2, <2>3, <2>4, <2>5, <2>6, OneProcess DEF Deadline
<1>5. CASE Acquire(p)
      <2>1. proc[p].accepted = None /\ proc[p].meta = None BY <1>1, <1>5 DEF Acquire, At, Held, Idle
      <2>2. TRUE \in Flag /\ FALSE \in Flag BY DEF Flag
      <2>3. Counts /\ FilesTrue'
            BY <1>5, FaultCounts, FilesKept DEF Acquire
      <2>4. CASE To(p, Acquired(p))
            <3> DEFINE c == Acquired(p)
            <3>1. c \in Process /\ c.pc \in {"check", "spawned"} /\ c.meta = None
                  /\ c.accepted = None /\ c.began = proc[p].began
                  BY ZenonT(40), <1>1, <2>1, <2>2 DEF Acquired, Foreground, Process, Steps
            <3> HIDE DEF c
            <3>2. To(p, c) BY <2>4 DEF c
            <3> QED BY <1>1, <1>5, <2>3, <3>1, <3>2, IdleStep DEF Acquire, Idle
      <2>5. CASE To(p, [proc[p] EXCEPT !.pc = "takeover"])
            <3> DEFINE c == [proc[p] EXCEPT !.pc = "takeover"]
            <3>1. c \in Process /\ c.pc = "takeover" /\ c.meta = None
                  /\ c.accepted = None /\ c.began = proc[p].began
                  BY <1>1, <2>1 DEF Process, Steps
            <3> HIDE DEF c
            <3>2. To(p, c) BY <2>5 DEF c
            <3> QED BY <1>1, <1>5, <2>3, <3>1, <3>2, IdleStep DEF Acquire, Idle
      <2>6. CASE To(p, NotAcquired(p)) /\ Foreground(p)
            <3> DEFINE c == [proc[p] EXCEPT !.again = FALSE, !.pc = "wait", !.at = "second"]
            <3>1. c \in Process /\ c.pc = "wait" /\ c.meta = None
                  /\ c.accepted = None /\ c.began = proc[p].began
                  BY <1>1, <2>1, <2>2 DEF Process, Steps
            <3> HIDE DEF c
            <3>2. To(p, c) BY <2>6 DEF NotAcquired, c
            <3> QED BY <1>1, <1>5, <2>3, <3>1, <3>2, IdleStep DEF Acquire, Idle
      <2>7. CASE To(p, NotAcquired(p)) /\ ~Foreground(p)
            <3>1. To(p, Left(proc[p])) BY <2>7 DEF NotAcquired
            <3> QED BY <1>1, <1>5, <2>1, <2>3, <3>1, LeavingStep DEF Acquire
      <2> QED BY <1>5, <2>4, <2>5, <2>6, <2>7 DEF Acquire
<1>6. CASE TakeOver(p)
      <2> DEFINE c == [proc[p] EXCEPT !.pc = "acquire", !.again = TRUE]
      <2>1. TRUE \in Flag BY DEF Flag
      <2>2. c \in Process /\ c.pc = "acquire" /\ c.meta = None /\ c.accepted = None
            /\ c.began = proc[p].began
            BY <1>1, <1>6, <2>1 DEF TakeOver, At, Held, Idle, Process, Steps
      <2> HIDE DEF c
      <2>3. To(p, c) BY <1>6 DEF TakeOver, c
      <2>4. Counts
            BY <1>6, FaultCounts DEF TakeOver
      <2> QED BY <1>1, <1>6, <2>2, <2>3, <2>4, IdleStep DEF TakeOver, Idle
<1> QED BY <1>2, <1>3, <1>4, <1>5, <1>6

\* Leaving by failure, by return or by force.
LEMMA EndKeeps ==
    ASSUME Current, NEW p \in Processes, SpawnFails(p) \/ Fails(p) \/ Return(p) \/ Kill(p)
    PROVE  Current'
<1>1. proc[p] \in Process /\ Held(proc[p]) /\ proc[p].began \in 1..Len(source)
      BY ProcessTyped
<1>2. CASE SpawnFails(p) \/ Fails(p)
      <2>1. FilesTrue' /\ Counts
            BY <1>2, FaultCounts, FilesKept DEF SpawnFails, Fails
      <2> QED BY <1>1, <1>2, <2>1, LeavingStep DEF SpawnFails, Fails, Held
<1>3. CASE Return(p) \/ Kill(p)
      <2>1. FALSE \in Flag /\ 0 \in Keys BY ArtifactAssumption DEF Flag, Keys
      <2>2. Ended \in Process /\ Ended.pc = "done" /\ Ended.meta = None /\ Ended.accepted = None
            /\ Ended.began = 1
            BY <2>1 DEF Ended, Start, Process, Steps
      <2>3. 1 \in 1..Len(source) BY DEF Current, Typed
      <2>4. Counts
            BY <1>3, FaultCounts DEF Return, Kill
      <2> QED BY <1>3, <2>2, <2>3, <2>4, IdleStep DEF Return, Kill, Idle
<1> QED BY <1>2, <1>3

----------------------------------------------------------------------------
(* The compile                                                               *)

\* It reads what the workspace contains.
LEMMA CompileKeeps ==
    ASSUME Current, NEW p \in Processes, Compile(p)
    PROVE  Current'
<1> DEFINE c == [proc[p] EXCEPT !.pc = "emit", !.staged = Now]
<1>1. proc[p] \in Process /\ proc[p].began \in 1..Len(source)
      /\ proc[p].accepted = None /\ proc[p].meta = None
      BY ProcessTyped DEF Compile, At, Held, Idle
<1>2. Now \in Sources /\ Now = source[Len(source)] BY NowIsLast DEF Current
<1>3. c \in Process /\ c.pc = "emit" /\ c.staged = Now /\ c.meta = None /\ c.accepted = None
      /\ c.began = proc[p].began
      BY <1>1, <1>2 DEF Process, Steps
<1> HIDE DEF c
<1>4. Stands(c.staged, Now) BY <1>3 DEF Stands
<1>5. SinceBegun(c, c.staged) BY <1>1, <1>3, <1>4, NowIsSince DEF Current
<1>6. c.staged # None BY <1>2, <1>3, NoneIsNoSource
<1>7. Held(c) BY <1>3, <1>4, <1>5, <1>6 DEF Held, Idle, True
<1>8. To(p, c) BY DEF Compile, c
<1>9. Counts
      BY DEF Compile, Current, EditsCounted, History
<1>10. FilesTrue' BY FilesKept DEF Compile
<1> QED BY <1>1, <1>3, <1>7, <1>8, <1>9, <1>10, OneProcess DEF Compile

\* The metadata is true: an edit since the compile began has torn it, or been read.
LEMMA EmitKeeps ==
    ASSUME Current, NEW p \in Processes, Emit(p)
    PROVE  Current'
<1> DEFINE meta == Metadata(proc[p].key, proc[p].staged)
           c == [proc[p] EXCEPT !.pc = "publish", !.meta = meta]
<1>1. proc[p] \in Process /\ Held(proc[p]) /\ proc[p].began \in 1..Len(source)
      /\ Stands(proc[p].staged, Now) /\ proc[p].staged # None /\ proc[p].accepted = None
      BY ProcessTyped DEF Emit, At, Held
<1>2. Now \in Sources BY NowIsLast DEF Current
<1>3. meta \in Meta /\ True(meta)
      <2>1. meta \in Meta BY <1>1, <1>2 DEF Metadata, Meta, Sources, Keys, Process
      <2>2. Digested(meta) = Now /\ meta.executable = proc[p].staged
            BY <1>2 DEF Metadata, Digested, Sources
      <2> QED BY <1>1, <2>1, <2>2 DEF True
<1>4. meta # None BY <1>3, NoneIsNoMetadata
<1> HIDE DEF meta
<1>5. c \in Process /\ c.pc = "publish" /\ c.meta = meta /\ c.accepted = None
      /\ c.began = proc[p].began /\ c.staged = proc[p].staged
      BY ZenonT(40), <1>1, <1>3 DEF Process, Steps
<1>6. To(p, c) BY DEF Emit, meta
<1> HIDE DEF c
<1>7. c.staged # None /\ SinceBegun(c, c.staged) BY <1>1, <1>5 DEF Emit, At, Held, SinceBegun
<1>8. Held(c) BY <1>3, <1>4, <1>5, <1>7 DEF Held, Idle
<1>9. Counts /\ FilesTrue'
      BY FaultCounts, FilesKept DEF Emit
<1> QED BY <1>1, <1>5, <1>6, <1>8, <1>9, OneProcess DEF Emit

\* Either file of a true pair may be replaced by that of another.
LEMMA PublishKeeps ==
    ASSUME Current, NEW p \in Processes, PublishMetadata(p) \/ PublishExecutable(p)
    PROVE  Current'
<1>1. proc[p] \in Process /\ Held(proc[p]) /\ proc[p].began \in 1..Len(source)
      BY ProcessTyped
<1>2. CASE PublishMetadata(p)
      <2>1. FilesTrue'
            BY <1>1, <1>2 DEF PublishMetadata, Current, FilesTrue, Pair, True, Stands, Digested, Process, Held
      <2> QED BY <1>2, <2>1, GotoHeld DEF PublishMetadata, At, Steps
<1>3. CASE PublishExecutable(p)
      <2> DEFINE c == [proc[p] EXCEPT !.pc = "share", !.accepted = proc[p].staged]
      <2>1. c \in Process /\ c.pc = "share" /\ c.meta = proc[p].meta
            /\ c.accepted = proc[p].staged /\ c.began = proc[p].began
            BY <1>1 DEF Process, Steps
      <2> HIDE DEF c
      <2>2. SinceBegun(c, c.accepted) BY <1>1, <1>3, <2>1 DEF PublishExecutable, At, Held, SinceBegun
      <2>3. Held(c) BY <1>1, <2>1, <2>2 DEF Held, Idle
      <2>4. To(p, c) BY <1>3 DEF PublishExecutable, c
      <2>5. FilesTrue'
            BY <1>1, <1>3 DEF PublishExecutable, Current, FilesTrue, Pair, True, Stands, Digested, Process
      <2>6. Counts
            BY <1>3, FaultCounts DEF PublishExecutable
      <2> QED BY <1>1, <1>3, <2>1, <2>3, <2>4, <2>5, <2>6, OneProcess DEF PublishExecutable
<1> QED BY <1>2, <1>3

----------------------------------------------------------------------------
(* The rest of the world                                                     *)

\* An edit adds to what there was since a process began, and tears the compiles
\* that have not read it.
LEMMA EditKeeps ==
    ASSUME Current, Edit
    PROVE  Current'
<1>1. PICK changed \in {[Now EXCEPT !.key = @ + 1], [Now EXCEPT !.dep = @ + 1]},
           reads \in [Compiling -> Sources] :
         /\ source' = Append(source, changed)
         /\ proc' = [p \in Processes |->
                       IF p \in Compiling THEN [proc[p] EXCEPT !.staged = reads[p]] ELSE proc[p]]
         /\ history' = [history EXCEPT !.edits = @ + 1, !.torn = @ \union
                          {<<reads[p], changed>> : p \in {q \in Compiling : reads[q] # changed}}]
      BY DEF Edit
<1>2. Now \in Sources /\ Now = source[Len(source)] BY NowIsLast DEF Current
<1>3. history \in History /\ history.edits \in Nat /\ history.edits < MaxEdits /\ MaxEdits \in Nat
      BY ArtifactAssumption DEF Edit, Current, EditsCounted, History
<1>4. Len(source) \in 1..Len(source) /\ source \in Seq(Sources) BY DEF Current, Typed
<1>5. Now.key <= history.edits /\ Now.dep <= history.edits /\ Now.key \in Nat /\ Now.dep \in Nat
      BY <1>2, <1>4 DEF Current, EditsCounted, Sources, Keys
<1>6. changed \in Sources /\ changed.key <= history.edits + 1 /\ changed.dep <= history.edits + 1
      <2>1. Now = [key |-> Now.key, dep |-> Now.dep] BY <1>2 DEF Sources
      <2>2. \/ changed = [key |-> Now.key + 1, dep |-> Now.dep]
            \/ changed = [key |-> Now.key, dep |-> Now.dep + 1]
            BY <2>1
      <2> QED BY <1>3, <1>5, <2>2 DEF Sources, Keys
<1>7. source' \in Seq(Sources) /\ Len(source') = Len(source) + 1
      /\ source'[Len(source) + 1] = changed
      /\ \A i \in 1..Len(source) : source'[i] = source[i]
      BY <1>1, <1>4, <1>6
<1> DEFINE torn == {<<reads[p], changed>> : p \in {q \in Compiling : reads[q] # changed}}
<1>8. /\ history' \in History /\ history'.edits = history.edits + 1
      /\ history'.torn = history.torn \union torn
      <2>1. ASSUME NEW p \in Compiling PROVE <<reads[p], changed>> \in Sources \X Sources
            BY <1>6
      <2>3. torn \subseteq Sources \X Sources BY <2>1
      <2>2. history' = [history EXCEPT !.edits = @ + 1, !.torn = @ \union torn] BY <1>1
      <2> HIDE DEF torn
      <2>4. PICK all : all = history.torn \union torn OBVIOUS
      <2>5. all \in SUBSET (Sources \X Sources) BY <2>3, <2>4, <1>3 DEF History
      <2>6. history' = [history EXCEPT !.edits = @ + 1, !.torn = all] BY <2>2, <2>4
      <2> QED BY <2>4, <2>5, <2>6, <1>3, HistoryTyped
<1>9. ASSUME NEW p \in Compiling PROVE reads[p] = changed \/ <<reads[p], changed>> \in torn
      OBVIOUS
<1> HIDE DEF torn
<1>10. ASSUME NEW p \in Processes
       PROVE  /\ proc'[p] \in Process /\ proc'[p].began = proc[p].began
              /\ proc'[p].pc = proc[p].pc /\ proc'[p].meta = proc[p].meta
              /\ proc'[p].accepted = proc[p].accepted
              /\ proc[p].pc = "emit" =>
                     proc'[p].staged = reads[p] /\ reads[p] \in Sources /\ p \in Compiling
              /\ proc[p].pc # "emit" => proc'[p].staged = proc[p].staged
       <2>1. proc[p] \in Process BY ProcessTyped
       <2>2. CASE p \in Compiling
             <3>1. proc'[p] = [proc[p] EXCEPT !.staged = reads[p]] /\ reads[p] \in Sources
                   BY <1>1, <2>2
             <3> QED BY <2>1, <2>2, <3>1 DEF Process, Compiling, At
       <2>3. CASE p \notin Compiling
             <3>1. proc'[p] = proc[p] /\ proc[p].pc # "emit" BY <1>1, <2>3 DEF Compiling, At
             <3> QED BY <2>1, <3>1
       <2> QED BY <2>2, <2>3
<1>11. Typed'
       <2>1. proc' \in [Processes -> Process] BY <1>1, <1>10
       <2>2. \A p \in Processes : proc'[p].began \in 1..Len(source')
             BY <1>4, <1>7, <1>10, ProcessTyped
       <2> QED BY <1>7, <2>1, <2>2, <1>4 DEF Typed
<1>12. EditsCounted'
      <2>1. ASSUME NEW i \in 1..Len(source')
            PROVE  source'[i].key <= history'.edits /\ source'[i].dep <= history'.edits
            <3>1. CASE i = Len(source) + 1 BY <3>1, <1>6, <1>7, <1>8
            <3>2. CASE i \in 1..Len(source)
                  <4>1. source[i] \in Sources /\ source[i].key <= history.edits
                        /\ source[i].dep <= history.edits
                        BY <3>2, <1>4 DEF Current, EditsCounted
                  <4> QED BY <3>2, <4>1, <1>3, <1>7, <1>8 DEF Sources, Keys
            <3> QED BY <3>1, <3>2, <1>4, <1>7
      <2> QED BY <2>1, <1>3, <1>8 DEF EditsCounted
<1>13. FilesTrue' BY <1>8, FilesKept DEF Edit
<1>14. ASSUME NEW p \in Processes PROVE Held(proc[p])'
      <2> PICK c : c = proc'[p] OBVIOUS
      <2>1. proc[p] \in Process /\ Held(proc[p]) /\ proc[p].began \in 1..Len(source)
            BY ProcessTyped
      <2>2. c.began \in 1..Len(source') /\ Now' = changed
            BY <1>4, <1>7, <1>10, <2>1 DEF Now, Last
      <2>3. \A executable : SinceBegun(proc[p], executable) => SinceBegun(c, executable)'
            <3> SUFFICES ASSUME NEW executable, SinceBegun(proc[p], executable)
                         PROVE  SinceBegun(c, executable)'
                OBVIOUS
            <3>1. PICK i \in proc[p].began..Len(source) : Stands(executable, source[i])
                  BY DEF SinceBegun
            <3>2. i \in 1..Len(source) /\ i \in c.began..Len(source')
                  BY <1>4, <1>7, <1>10, <2>1, <3>1
            <3>3. Stands(executable, source[i])' BY <1>7, <1>8, <3>1, <3>2 DEF Stands
            <3> QED BY <3>2, <3>3 DEF SinceBegun
      <2>4. True(c.meta)' BY <1>8, <1>10, <2>1, StandsStay DEF Held
      <2>5. CASE proc[p].pc = "emit"
            <3>1. c.pc = "emit" /\ c.staged = reads[p] /\ c.staged # None
                  BY <1>10, <2>5, NoneIsNoSource
            <3>2. Stands(c.staged, Now)' BY <1>8, <1>9, <1>10, <2>2, <2>5 DEF Stands
            <3>3. SinceBegun(c, c.staged)'
                  <4>1. Len(source') \in c.began..Len(source') BY <2>2, <1>11 DEF Typed
                  <4> QED BY <1>7, <2>2, <3>2, <4>1 DEF SinceBegun
            <3>4. c.accepted = None BY <1>10, <2>1, <2>5 DEF Held
            <3> QED BY <2>4, <3>1, <3>2, <3>3, <3>4 DEF Held, Idle
      <2>6. CASE proc[p].pc # "emit"
            <3>1. c.pc = proc[p].pc /\ c.staged = proc[p].staged /\ c.meta = proc[p].meta
                  /\ c.accepted = proc[p].accepted
                  BY <1>10, <2>6
            <3> QED BY <2>1, <2>3, <2>4, <2>6, <3>1 DEF Held, Idle
      <2> QED BY <2>5, <2>6
<1> QED BY <1>11, <1>12, <1>13, <1>14 DEF Current

\* What other workspaces compile may be torn.
LEMMA ForeignCounts ==
    ASSUME Current, Foreign
    PROVE  /\ history' \in History /\ history'.edits = history.edits
           /\ history.torn \subseteq history'.torn /\ history'.late = history.late
           /\ history'.faults = history.faults /\ history'.compiles = history.compiles
<1>1. PICK foreigner \in Foreigners :
         \/ history' = [history EXCEPT !.foreign = @ + 1]
         \/ history' = [[history EXCEPT !.foreign = @ + 1] EXCEPT !.torn =
                           IF foreigner[2] = foreigner[1] THEN @ ELSE @ \union {foreigner}]
      BY DEF Foreign
<1>2. history \in History BY DEF Current, EditsCounted
<1>3. PICK all : all \in {history.torn, history.torn \union {foreigner}}
                 /\ history' = [history EXCEPT !.foreign = @ + 1, !.torn = all]
      BY <1>1, <1>2 DEF History
<1>4. foreigner \in Sources \X Sources BY ArtifactAssumption
<1>5. all \in SUBSET (Sources \X Sources) /\ history.torn \subseteq all
      BY <1>2, <1>3, <1>4 DEF History
<1> QED BY <1>2, <1>3, <1>5, HistoryTyped

\* Other workspaces publish metadata that is true or torn, and executables that
\* it may not be bound to.
LEMMA ForeignKeeps ==
    ASSUME Current, Foreign
    PROVE  Current'
<1>1. PICK foreigner \in Foreigners :
         \/ /\ shared' = [shared EXCEPT ![foreigner[1].key].executable = foreigner[1]]
            /\ history' = [history EXCEPT !.foreign = @ + 1]
         \/ /\ shared' = [shared EXCEPT ![foreigner[1].key].meta =
                   [key |-> foreigner[1].key, worker |-> foreigner[2].key,
                    dep |-> foreigner[2].dep, executable |-> foreigner[1]]]
            /\ history' = [[history EXCEPT !.foreign = @ + 1] EXCEPT !.torn =
                             IF foreigner[2] = foreigner[1] THEN @ ELSE @ \union {foreigner}]
      BY DEF Foreign
<1>2. PICK compiled \in Sources, digested \in Sources : foreigner = <<compiled, digested>>
      BY ArtifactAssumption
<1>3. compiled.key \in Keys /\ digested.key \in Keys /\ digested.dep \in Keys
      BY DEF Sources, Keys
<1>4. shared \in [Keys -> Pair] /\ history \in History
      BY DEF Current, FilesTrue, EditsCounted
<1>5. /\ history' \in History /\ history'.edits = history.edits
      /\ history.torn \subseteq history'.torn
      BY ForeignCounts
<1>6. FilesTrue'
      <2>1. CASE shared' = [shared EXCEPT ![compiled.key].executable = compiled]
            <3>1. \A key \in Keys : shared'[key].meta = shared[key].meta
                  BY <1>3, <1>4, <2>1 DEF Pair
            <3>2. shared' \in [Keys -> Pair] BY <1>3, <1>4, <2>1 DEF Pair
            <3> QED BY <1>5, <3>1, <3>2, StandsStay DEF Foreign, Current, FilesTrue
      <2>2. CASE /\ shared' = [shared EXCEPT ![compiled.key].meta =
                        [key |-> compiled.key, worker |-> digested.key, dep |-> digested.dep,
                         executable |-> compiled]]
                 /\ history' = [[history EXCEPT !.foreign = @ + 1] EXCEPT !.torn =
                        IF digested = compiled THEN @ ELSE @ \union {<<compiled, digested>>}]
            <3> DEFINE meta == [key |-> compiled.key, worker |-> digested.key,
                                dep |-> digested.dep, executable |-> compiled]
            <3>1. meta \in Meta BY <1>3 DEF Meta
            <3>2. Digested(meta) = digested BY DEF Digested, Sources
            <3>3. digested # compiled => <<compiled, digested>> \in history'.torn
                  BY <1>4, <2>2 DEF History
            <3>4. True(meta)' BY <3>2, <3>3 DEF True, Stands
            <3>5. shared' = [shared EXCEPT ![compiled.key].meta = meta] BY <2>2
            <3> HIDE DEF meta
            <3>6. \A key \in Keys : shared'[key].meta \in {shared[key].meta, meta}
                  BY <1>3, <1>4, <3>5 DEF Pair
            <3>7. shared' \in [Keys -> Pair] BY <1>3, <1>4, <3>1, <3>5 DEF Pair
            <3> QED BY <1>5, <3>4, <3>6, <3>7, StandsStay DEF Foreign, Current, FilesTrue
      <2> QED BY <1>1, <1>2, <2>1, <2>2
<1>7. Typed' BY DEF Foreign, Current, Typed
<1>8. EditsCounted' BY <1>5 DEF Foreign, Current, EditsCounted
<1>9. ASSUME NEW p \in Processes PROVE Held(proc[p])'
      <2>1. Held(proc[p]) /\ UNCHANGED <<source, proc>> BY DEF Foreign, Current
      <2>2. \A c, executable : SinceBegun(c, executable) => SinceBegun(c, executable)'
            BY <1>5, <2>1, StandsStay DEF SinceBegun
      <2> QED BY <1>5, <2>1, <2>2, StandsStay DEF Held, Now
<1> QED BY <1>6, <1>7, <1>8, <1>9 DEF Current

\* A lapsed lock changes nothing else, and a step of nothing nothing.
LEMMA RestKeeps ==
    ASSUME Current, Lapse \/ UNCHANGED vars
    PROVE  Current'
<1>1. UNCHANGED <<source, local, shared, proc>> /\ (Fault \/ UNCHANGED history)
      BY DEF Lapse, vars
<1>2. Counts BY <1>1, FaultCounts
<1>3. Typed' BY <1>1 DEF Current, Typed
<1>4. EditsCounted' BY <1>1, <1>2 DEF Counts, Current, EditsCounted
<1>5. FilesTrue' BY <1>1, <1>2, FilesKept DEF Counts
<1>6. ASSUME NEW p \in Processes PROVE Held(proc[p])'
      BY <1>1, <1>2 DEF Counts, Current, Held, SinceBegun, True, Stands, Now
<1> QED BY <1>3, <1>4, <1>5, <1>6 DEF Current

----------------------------------------------------------------------------
\* At first there is no file, and nobody has anything.
LEMMA Initially == Init => Current
<1> SUFFICES ASSUME Init PROVE Current
    OBVIOUS
<1>1. 0 \in Keys /\ FALSE \in Flag BY ArtifactAssumption DEF Keys, Flag
<1>2. source = <<[key |-> 0, dep |-> 0]>> /\ Len(source) = 1 /\ source \in Seq(Sources)
      /\ source[1] = [key |-> 0, dep |-> 0]
      BY <1>1 DEF Init, Sources, Keys
<1>3. PICK roles \in Roles : proc = [p \in Processes |-> Start(roles[p])] BY DEF Init
<1>4. ASSUME NEW p \in Processes
      PROVE  proc[p] \in Process /\ proc[p].pc \in {"start", "acquire"} /\ proc[p].meta = None
             /\ proc[p].accepted = None /\ proc[p].began = 1
      <2>1. roles[p] \in {"foreground", "watch", "detached"} BY ArtifactAssumption
      <2> QED BY <1>1, <1>3, <2>1 DEF Start, Process, Steps
<1>5. Typed BY <1>2, <1>3, <1>4 DEF Typed
<1>6. EditsCounted
      <2>1. history \in History /\ history.edits = 0 BY <1>1 DEF Init, History
      <2>2. source[1].key = 0 /\ source[1].dep = 0 BY <1>2
      <2> QED BY <1>2, <2>1, <2>2, ArtifactAssumption DEF EditsCounted
<1>7. FilesTrue BY DEF Init, FilesTrue, Pair, NoPair, True
<1>8. \A p \in Processes : Held(proc[p]) BY <1>4 DEF Held, Idle, True
<1> QED BY <1>5, <1>6, <1>7, <1>8 DEF Current

\* Every step keeps the invariant.
LEMMA Inductive == Current /\ [Next]_vars => Current'
<1> SUFFICES ASSUME Current, [Next]_vars PROVE Current'
    OBVIOUS
<1>1. ASSUME NEW p \in Processes, Step(p) PROVE Current'
      BY <1>1, BeginKeeps, CheckKeeps, MatchKeeps, StageKeeps, StageMetadataKeeps, InstallKeeps,
         InstallMetadataKeeps, ShareKeeps, LockKeeps, EndKeeps, CompileKeeps, EmitKeeps,
         PublishKeeps
      DEF Step
<1>2. ASSUME NEW p \in Processes, Deadline(p) PROVE Current'
      BY <1>2, LockKeeps
<1>3. CASE Trouble
      BY <1>3, RestoreFailsKeeps, ShareKeeps, EndKeeps, EditKeeps, RestKeeps, ForeignKeeps
      DEF Trouble
<1>4. CASE UNCHANGED vars BY <1>4, RestKeeps
<1> QED BY <1>1, <1>2, <1>3, <1>4 DEF Next

\* No worker is accepted that was compiled from what its workspace has not
\* contained since the command began (worker_kernel.rs, prepare_worker_aot and
\* aot_metadata_is_current), unless an edit fell into its compile: it was then
\* digested from what the workspace has contained since the command began.
THEOREM NoStaleWorker == Spec => []AcceptedWhole
<1>1. Current => AcceptedWhole BY DEF Current, Held, AcceptedWhole, SinceBegun, Stands
<1> QED BY <1>1, Initially, Inductive, PTL DEF Spec

----------------------------------------------------------------------------
(* Single flight.  In a workspace that nothing disturbs there is one version *)
(* of the sources, so that whatever is published to it stays right: once the *)
(* artifact is there, each process finds it.  Only the holder of the lock    *)
(* compiles, after a look at the artifact under the lock, and leaves the     *)
(* lock only when the artifact is there.                                     *)

First == [key |-> 0, dep |-> 0]
Original == [key |-> 0, worker |-> 0, dep |-> 0, executable |-> First]
Ready == local.executable # None /\ local.meta # None

Producing == {"emit", "publish", "executable"}
Sharing == {"share", "shareMeta"}
Installing == {"install", "installMeta"}

\* What a process has read and staged, and how far it has published.
Honest(c) ==
    /\ c.key = 0 /\ c.meta \in {None, Original} /\ ~c.again /\ ~c.late /\ c.pc # "takeover"
    /\ c.pc \in Installing \union Producing => c.staged = First
    /\ c.pc = "installMeta" => local.executable # None
    /\ c.pc \in {"match", "executable"} => local.meta # None
    /\ c.pc \in Sharing => Ready

\* Who has the lock, and what the checks a process is in say about it.
Locked(c) ==
    /\ c.guard => /\ lock = "held" /\ c.role \in {"foreground", "helper"} /\ c.pc # "acquire"
                  /\ c.role = "foreground" => c.at = "recheck"
                  /\ c.pc = "return" => Ready
    /\ c.role = "helper" => c.guard
    /\ c.pc = "start" => ~c.guard
    /\ c.pc = "spawned" => c.role = "helper"
    /\ c.pc \in {"wait", "test"} => c.at \in {"first", "second"}
    /\ c.pc = "compile" => c.at = "recheck"
    /\ c.pc \in {"compile"} \union Producing \union Sharing => c.guard

\* After its second wait, or under the lock, a process misses the artifact only
\* if nobody has compiled it yet.
Informed(c) ==
    /\ c.at = "second" => Ready \/ (lock = "held" /\ c.pc \in {"wait", "check", "match", "test"})
    /\ c.at = "recheck" /\ ~c.guard => Ready /\ c.pc \in {"check", "match", "return", "done"}
    /\ c.at = "recheck" /\ c.guard /\ c.pc \in {"stage", "stageMeta", "compile"} =>
          history.compiles = 0

Calm(c) == Honest(c) /\ Locked(c) /\ Informed(c)

Lone ==
    /\ source = <<First>>
    /\ local.executable \in {None, First} /\ local.meta \in {None, Original}
    /\ lock \in {"free", "held"}
    /\ \A p \in Processes : Calm(proc[p])
    /\ \A p, q \in Processes : proc[p].guard /\ proc[q].guard => p = q
    /\ history.compiles \in {0, 1}
    /\ \/ history.compiles = 0 \/ Ready
       \/ \E p \in Processes : proc[p].guard /\ proc[p].pc \in Producing

Single == Current /\ (Disturbed \/ Lone)

----------------------------------------------------------------------------
(* What the invariant says of a process, and when a step keeps it.           *)

\* There is one version of the sources, and one pair that describes it.
LEMMA Alone ==
    ASSUME Lone
    PROVE  /\ Now = First /\ Len(source) = 1 /\ First # None /\ Original # None
           /\ First \in Sources
           /\ local.meta # None => local.meta = Original
           /\ local.executable # None => local.executable = First
<1>1. 0 \in Keys BY ArtifactAssumption DEF Keys
<1>2. First \in Sources BY <1>1 DEF First, Sources, Keys
<1>3. Original \in Meta BY <1>1, <1>2 DEF Original, Meta
<1>4. source = <<First>> BY DEF Lone
<1> QED BY <1>2, <1>3, <1>4, NoneIsNoSource, NoneIsNoMetadata DEF Lone, Now, Last

\* What there is of the pair stays there.
LEMMA ReadyStays ==
    ASSUME Lone, local'.executable \in {local.executable, First},
           local'.meta \in {local.meta, Original}
    PROVE  /\ local.executable # None => local'.executable # None
           /\ local.meta # None => local'.meta # None
           /\ Ready => Ready'
           /\ local'.executable \in {None, First} /\ local'.meta \in {None, Original}
BY Alone DEF Lone, Ready

\* A step of one process, which may take the free lock, leave its own when the
\* artifact is there, publish what is right and compile if nobody has, keeps
\* the others calm.
LEMMA OthersCalm ==
    ASSUME Lone, NEW p \in Processes, NEW q \in Processes, q # p,
           local'.executable \in {local.executable, First},
           local'.meta \in {local.meta, Original},
           lock' = lock \/ lock = "free" \/ (proc[p].guard /\ Ready),
           history'.compiles = history.compiles \/ proc[p].guard,
           proc'[q] = proc[q]
    PROVE  Calm(proc[q])'
<1> PICK d : d = proc[q] OBVIOUS
<1>1. Calm(d) BY DEF Lone
<1>2. ~(proc[p].guard /\ d.guard) BY DEF Lone
<1>3. Honest(d)' BY <1>1, ReadyStays DEF Calm, Honest
<1>4. d.guard => lock' = lock BY <1>1, <1>2 DEF Calm, Locked
<1>5. Locked(d)' BY <1>1, <1>4, ReadyStays DEF Calm, Locked
<1>6. d.guard => history'.compiles = history.compiles BY <1>2
<1>7. Informed(d)' BY <1>1, <1>6, ReadyStays DEF Calm, Informed
<1>8. proc'[q] = d OBVIOUS
<1> QED BY <1>3, <1>5, <1>7, <1>8 DEF Calm, Honest, Locked, Informed, Ready

\* So it keeps the invariant, if the process itself remains calm and a compiler
\* publishes all it compiled.
LEMMA OneCalm ==
    ASSUME Current, Lone, NEW p \in Processes, NEW c \in Process, To(p, c), UNCHANGED source,
           local'.executable \in {local.executable, First},
           local'.meta \in {local.meta, Original},
           lock' \in {"free", "held"},
           lock' = lock \/ lock = "free" \/ (proc[p].guard /\ Ready),
           c.guard => proc[p].guard \/ lock = "free",
           history'.compiles = history.compiles
             \/ (proc[p].guard /\ history.compiles = 0 /\ history'.compiles = 1),
           Calm(c)',
           \/ history'.compiles = 0 \/ Ready'
           \/ c.guard /\ c.pc \in Producing
           \/ history'.compiles = history.compiles /\ proc[p].pc \notin Producing
    PROVE  Lone'
<1>1. proc' \in [Processes -> Process] /\ proc'[p] = c
      /\ \A q \in Processes \ {p} : proc'[q] = proc[q]
      BY DEF Current, Typed, To
<1>2. \A q \in Processes : Calm(proc[q])'
      <2> SUFFICES ASSUME NEW q \in Processes PROVE Calm(proc[q])'
          OBVIOUS
      <2>1. CASE q = p BY <1>1, <2>1 DEF Calm, Honest, Locked, Informed, Ready
      <2>2. CASE q # p BY <1>1, <2>2, OthersCalm
      <2> QED BY <2>1, <2>2
<1>3. ASSUME NEW q \in Processes, NEW r \in Processes, proc'[q].guard, proc'[r].guard
      PROVE  q = r
      <2>1. ASSUME NEW s \in Processes, proc[s].guard PROVE lock = "held"
            BY <2>1 DEF Lone, Calm, Locked
      <2> QED BY <1>1, <1>3, <2>1 DEF Lone
<1>4. history'.compiles \in {0, 1} BY DEF Lone
<1>5. \/ history'.compiles = 0 \/ Ready'
      \/ \E q \in Processes : proc'[q].guard /\ proc'[q].pc \in Producing
      <2>1. CASE c.guard /\ c.pc \in Producing BY <1>1, <2>1
      <2>2. CASE history'.compiles = history.compiles /\ proc[p].pc \notin Producing
            <3>1. CASE Ready BY <3>1, ReadyStays
            <3>2. CASE \E q \in Processes : proc[q].guard /\ proc[q].pc \in Producing
                  <4>1. PICK q \in Processes : proc[q].guard /\ proc[q].pc \in Producing
                        BY <3>2
                  <4>2. q # p BY <2>2, <4>1
                  <4> QED BY <1>1, <4>1, <4>2
            <3> QED BY <2>2, <3>1, <3>2 DEF Lone
      <2> QED BY <2>1, <2>2
<1>6. source' = <<First>> BY DEF Lone
<1> QED BY <1>2, <1>3, <1>4, <1>5, <1>6, ReadyStays DEF Lone

\* The same of a step that changes nothing but the process.
LEMMA QuietStep ==
    ASSUME Current, Lone, NEW p \in Processes, NEW c \in Process, To(p, c),
           UNCHANGED <<source, local, lock, history>>, c.guard = proc[p].guard, Calm(c),
           proc[p].pc \notin Producing \/ (c.guard /\ c.pc \in Producing)
    PROVE  Lone'
<1>1. Calm(c)' BY DEF Calm, Honest, Locked, Informed, Ready
<1>2. lock' \in {"free", "held"} BY DEF Lone
<1> QED BY <1>1, <1>2, OneCalm

----------------------------------------------------------------------------
(* The checks of a process                                                   *)

\* A process that is not publishing finds the artifact once one was compiled.
LEMMA FoundIfCompiled ==
    ASSUME Lone, NEW p \in Processes, proc[p].guard, proc[p].pc \notin Producing, ~Ready
    PROVE  history.compiles = 0
BY DEF Lone

\* It begins with the key there is.
LEMMA BeginsCalm ==
    ASSUME Current, Lone, NEW p \in Processes, Begin(p)
    PROVE  Lone'
<1> DEFINE c == [proc[p] EXCEPT !.pc = "check", !.at = "begin", !.key = Now.key,
                                !.began = Len(source)]
<1>1. proc[p] \in Process /\ Calm(proc[p]) BY ProcessTyped DEF Lone
<1>2. Now.key = 0 /\ Now.key \in Keys /\ Len(source) \in Nat BY Alone DEF First, Sources
<1>3. c \in Process /\ c.pc = "check" /\ c.at = "begin" /\ c.key = 0 /\ c.guard = proc[p].guard
      /\ c.role = proc[p].role /\ c.again = proc[p].again /\ c.late = proc[p].late
      /\ c.meta = proc[p].meta
      BY <1>1, <1>2 DEF Process, Steps
<1>4. To(p, c) /\ UNCHANGED <<source, local, lock, history>> BY DEF Begin
<1>5. proc[p].pc \in {"start", "spawned"} BY DEF Begin, At
<1> HIDE DEF c
<1>6. Calm(c) BY <1>1, <1>3, <1>5 DEF Calm, Honest, Locked, Informed, Installing, Producing, Sharing
<1> QED BY <1>3, <1>4, <1>5, <1>6, QuietStep DEF Producing

\* Where a miss leads.
LEMMA NotCurrentGoes ==
    ASSUME NEW p \in Processes, proc[p] \in Process
    PROVE  NotCurrent(p).pc = IF proc[p].at \in {"first", "second"} THEN "test"
                              ELSE IF proc[p].role = "watch" THEN "acquire" ELSE "stage"
BY DEF NotCurrent, Process

\* A miss is taken for what it is: there is no artifact yet.
LEMMA MissIsCalm ==
    ASSUME Current, Lone, NEW p \in Processes, proc[p].pc \in {"check", "match"}, ~Ready,
           To(p, NotCurrent(p)), UNCHANGED <<source, local, lock, history>>
    PROVE  Lone'
<1> DEFINE c == NotCurrent(p)
<1>1. proc[p] \in Process /\ Calm(proc[p]) BY ProcessTyped DEF Lone
<1>2. c \in Process /\ c.pc \in {"test", "acquire", "stage"} /\ c.meta = None
      BY <1>1, NotCurrentProcess
<1>3. /\ c.at = proc[p].at /\ c.key = proc[p].key /\ c.guard = proc[p].guard
      /\ c.role = proc[p].role /\ c.again = proc[p].again /\ c.late = proc[p].late
      BY <1>1 DEF NotCurrent, Process
<1>4. /\ c.pc = "test" => c.at \in {"first", "second"}
      /\ c.at \in {"first", "second"} => c.pc = "test"
      /\ c.pc = "acquire" => c.role = "watch"
      BY <1>1, <1>3, NotCurrentGoes
<1>5. To(p, c) BY DEF c
<1> HIDE DEF c
<1>6. proc[p].guard => history.compiles = 0 BY FoundIfCompiled DEF Producing
<1>7. Honest(c) BY <1>1, <1>2, <1>3 DEF Calm, Honest, Installing, Producing, Sharing
<1>8. Locked(c) BY <1>1, <1>2, <1>3, <1>4 DEF Calm, Locked, Producing, Sharing
<1>9. Informed(c) BY <1>1, <1>2, <1>3, <1>4, <1>6 DEF Calm, Informed
<1> QED BY <1>2, <1>3, <1>5, <1>7, <1>8, <1>9, QuietStep DEF Calm, Producing

\* After a miss in the store it waits, takes the lock or compiles.
LEMMA StoreMissIsCalm ==
    ASSUME Current, Lone, NEW p \in Processes, proc[p].pc \in {"stage", "stageMeta", "wait"},
           proc[p].pc = "wait" => proc[p].role = "helper" \/ lock # "held",
           To(p, NotRestored(proc[p])), UNCHANGED <<source, local, lock, history>>
    PROVE  Lone'
<1> DEFINE c == NotRestored(proc[p])
<1>1. proc[p] \in Process /\ Calm(proc[p]) BY ProcessTyped DEF Lone
<1>2. c \in Process /\ c.pc \in {"wait", "check", "acquire", "compile"} /\ c.meta = None
      BY <1>1, NotRestoredProcess
<1>3. /\ c.key = proc[p].key /\ c.guard = proc[p].guard
      /\ c.role = proc[p].role /\ c.again = proc[p].again /\ c.late = proc[p].late
      BY <1>1 DEF NotRestored, Process
<1>4. \/ proc[p].at = "begin" /\ c.pc = "wait" /\ c.at = "first"
      \/ proc[p].at = "first" /\ c.role # "helper" /\ c.pc = "acquire" /\ c.at = "first"
      \/ proc[p].at = "first" /\ c.role = "helper" /\ c.pc = "check" /\ c.at = "recheck"
      \/ proc[p].at = "second" /\ c.pc = "check" /\ c.at = "recheck"
      \/ proc[p].at = "recheck" /\ c.pc = "compile" /\ c.at = "recheck"
      <2>1. CASE proc[p].at = "begin" BY <1>1, <1>3, <2>1 DEF NotRestored, Process
      <2>2. CASE proc[p].at = "first" /\ proc[p].role # "helper"
            BY <1>1, <1>3, <2>2 DEF NotRestored, Process
      <2>3. CASE proc[p].at = "first" /\ proc[p].role = "helper"
            BY <1>1, <1>3, <2>3 DEF NotRestored, Process
      <2>4. CASE proc[p].at = "second" BY <1>1, <1>3, <2>4 DEF NotRestored, Process
      <2>5. CASE proc[p].at = "recheck" BY <1>1, <1>3, <2>5 DEF NotRestored, Process
      <2> QED BY <1>1, <2>1, <2>2, <2>3, <2>4, <2>5 DEF Process
<1>5. To(p, c) BY DEF c
<1> HIDE DEF c
<1>6. Honest(c) BY <1>1, <1>2, <1>3 DEF Calm, Honest, Installing, Producing, Sharing
<1>7. Locked(c) /\ Informed(c)
      <2>1. CASE proc[p].at = "begin" /\ c.pc = "wait" /\ c.at = "first"
            BY <1>1, <1>3, <2>1 DEF Calm, Locked, Informed, Producing, Sharing
      <2>2. CASE proc[p].at = "first" /\ c.role # "helper" /\ c.pc = "acquire" /\ c.at = "first"
            BY <1>1, <1>3, <2>2 DEF Calm, Locked, Informed, Producing, Sharing
      <2>3. CASE proc[p].at = "first" /\ c.role = "helper" /\ c.pc = "check" /\ c.at = "recheck"
            BY <1>1, <1>3, <2>3 DEF Calm, Locked, Informed, Producing, Sharing
      <2>4. CASE proc[p].at = "second" /\ c.pc = "check" /\ c.at = "recheck"
            BY <1>1, <1>3, <2>4 DEF Calm, Locked, Informed, Producing, Sharing
      <2>5. CASE proc[p].at = "recheck" /\ c.pc = "compile" /\ c.at = "recheck"
            BY <1>1, <1>3, <2>5 DEF Calm, Locked, Informed, Producing, Sharing
      <2> QED BY <1>4, <2>1, <2>2, <2>3, <2>4, <2>5
<1> QED BY <1>2, <1>3, <1>5, <1>6, <1>7, QuietStep DEF Calm, Producing

\* A process may leave with its lock if the artifact is there.
LEMMA LeavingIsCalm ==
    ASSUME Current, Lone, NEW p \in Processes, NEW d \in Process, To(p, Left(d)),
           d.key = 0, d.guard = proc[p].guard, d.role = proc[p].role, d.again = proc[p].again,
           d.late = proc[p].late, d.at = proc[p].at, proc[p].guard \/ d.at = "second" => Ready',
           proc[p].pc \notin {"start", "spawned"} \union Producing,
           UNCHANGED <<source, lock, history>>,
           local'.executable \in {local.executable, First},
           local'.meta \in {local.meta, Original}
    PROVE  Lone'
<1> DEFINE c == Left(d)
<1>1. proc[p] \in Process /\ Calm(proc[p]) BY ProcessTyped DEF Lone
<1>2. c \in Process /\ c.pc = "return" /\ c.meta = None BY LeftProcess
<1>3. /\ c.key = 0 /\ c.guard = proc[p].guard /\ c.role = proc[p].role
      /\ c.again = proc[p].again /\ c.late = proc[p].late /\ c.at = proc[p].at
      BY DEF Left, Process
<1>4. To(p, c) BY DEF c
<1> HIDE DEF c
<1>5. Honest(c)' BY <1>1, <1>2, <1>3 DEF Calm, Honest, Installing, Producing, Sharing
<1>6. Locked(c)' BY <1>1, <1>2, <1>3 DEF Calm, Locked, Producing, Sharing
<1>7. Informed(c)' BY <1>1, <1>2, <1>3, ReadyStays DEF Calm, Informed
<1>8. Calm(c)' BY <1>5, <1>6, <1>7 DEF Calm, Honest, Locked, Informed, Ready
<1>9. lock' \in {"free", "held"} /\ history'.compiles = history.compiles BY DEF Lone
<1> QED BY <1>2, <1>3, <1>4, <1>8, <1>9, OneCalm

\* The local artifact is missed only if it is not there.
LEMMA ChecksCalm ==
    ASSUME Current, Lone, NEW p \in Processes, Check(p) \/ Match(p)
    PROVE  Lone'
<1>1. proc[p] \in Process /\ Held(proc[p]) /\ Calm(proc[p]) BY ProcessTyped DEF Lone
<1>2. CASE Check(p) /\ Ready
      <2>1. local.executable # None /\ local.meta # None /\ local.meta.key = proc[p].key
            BY <1>1, <1>2, Alone DEF Ready, Original, Calm, Honest
      <2> DEFINE c == [proc[p] EXCEPT !.pc = "match", !.meta = local.meta]
      <2>2. To(p, c) /\ UNCHANGED <<source, local, lock, history>> /\ proc[p].pc = "check"
            BY <1>2, <2>1 DEF Check, At
      <2>3. local.meta = Original /\ local.meta \in Meta \union {None}
            BY <2>1, Alone DEF Current, FilesTrue, Pair
      <2>4. c \in Process /\ c.pc = "match" /\ c.meta = Original
            /\ c.at = proc[p].at /\ c.key = proc[p].key /\ c.guard = proc[p].guard
            /\ c.role = proc[p].role /\ c.again = proc[p].again /\ c.late = proc[p].late
            BY <1>1, <2>3 DEF Process, Steps
      <2> HIDE DEF c
      <2>5. Honest(c) BY <1>1, <2>1, <2>4 DEF Calm, Honest, Installing, Producing, Sharing
      <2>6. Locked(c) BY <1>1, <2>4 DEF Calm, Locked, Producing, Sharing
      <2>7. Informed(c) BY <1>1, <1>2, <2>2, <2>4 DEF Calm, Informed
      <2> QED BY <2>2, <2>4, <2>5, <2>6, <2>7, QuietStep DEF Calm, Producing
<1>3. CASE Check(p) /\ ~Ready
      <2>1. To(p, NotCurrent(p)) /\ UNCHANGED <<source, local, lock, history>>
            /\ proc[p].pc = "check"
            BY <1>3 DEF Check, At, Ready
      <2> QED BY <1>3, <2>1, MissIsCalm
<1>4. CASE Match(p) /\ Ready
      <2>1. proc[p].meta = Original /\ local.executable = First /\ proc[p].pc = "match"
            BY <1>1, <1>4, Alone DEF Match, At, Held, Calm, Honest, Ready
      <2>2. Matches(proc[p].meta, local.executable, proc[p].key)
            BY <1>1, <1>4, <2>1, Alone DEF Matches, Original, First, Ready, Calm, Honest
      <2> DEFINE d == [proc[p] EXCEPT !.accepted = local.executable]
      <2>3. To(p, Left(d)) /\ UNCHANGED <<source, local, lock, history>>
            BY <1>4, <2>2 DEF Match, Accept
      <2>4. d \in Process /\ d.at = proc[p].at /\ d.key = proc[p].key /\ d.guard = proc[p].guard
            /\ d.role = proc[p].role /\ d.again = proc[p].again /\ d.late = proc[p].late
            BY <1>1, <2>1, Alone DEF Process
      <2> HIDE DEF d
      <2>5. Ready' BY <1>4, <2>3 DEF Ready
      <2>6. d.key = 0 BY <1>1, <2>4 DEF Calm, Honest
      <2> QED BY <2>1, <2>3, <2>4, <2>5, <2>6, LeavingIsCalm DEF Producing
<1>5. CASE Match(p) /\ ~Ready
      <2>1. proc[p].pc = "match" BY <1>5 DEF Match, At
      <2>2. local.executable = None BY <1>1, <1>5, <2>1 DEF Calm, Honest, Ready
      <2>3. ~Matches(proc[p].meta, local.executable, proc[p].key) BY <2>2 DEF Matches
      <2>4. To(p, NotCurrent(p)) /\ UNCHANGED <<source, local, lock, history>>
            BY <1>5, <2>3 DEF Match
      <2> QED BY <1>5, <2>1, <2>4, MissIsCalm
<1> QED BY <1>2, <1>3, <1>4, <1>5

----------------------------------------------------------------------------
(* The other steps of a process                                              *)

\* Only the pair that describes the sources is taken from the store.
LEMMA StagesCalm ==
    ASSUME Current, Lone, history.torn = {}, NEW p \in Processes, Stage(p) \/ StageMetadata(p)
    PROVE  Lone'
<1>1. proc[p] \in Process /\ Calm(proc[p]) BY ProcessTyped DEF Lone
<1>2. CASE Stage(p) /\ shared[proc[p].key].executable = None
      BY <1>2, StoreMissIsCalm DEF Stage, At
<1>3. CASE Stage(p) /\ shared[proc[p].key].executable # None
      <2> PICK executable : executable = shared[proc[p].key].executable OBVIOUS
      <2> DEFINE c == [proc[p] EXCEPT !.pc = "stageMeta", !.staged = executable]
      <2>1. executable \in Sources \union {None}
            BY <1>1 DEF Process, Current, FilesTrue, Pair
      <2>2. To(p, c) /\ UNCHANGED <<source, local, lock, history>> /\ proc[p].pc = "stage"
            BY <1>3 DEF Stage, At
      <2>3. c \in Process /\ c.pc = "stageMeta" /\ c.meta = proc[p].meta
            /\ c.at = proc[p].at /\ c.key = proc[p].key /\ c.guard = proc[p].guard
            /\ c.role = proc[p].role /\ c.again = proc[p].again /\ c.late = proc[p].late
            BY <1>1, <2>1 DEF Process, Steps
      <2> HIDE DEF c
      <2>4. Honest(c) BY <1>1, <2>3 DEF Calm, Honest, Installing, Producing, Sharing
      <2>5. Locked(c) BY <1>1, <2>3 DEF Calm, Locked, Producing, Sharing
      <2>6. Informed(c) BY <1>1, <2>2, <2>3 DEF Calm, Informed
      <2> QED BY <2>2, <2>3, <2>4, <2>5, <2>6, QuietStep DEF Calm, Producing
<1>4. CASE StageMetadata(p) /\ Matches(shared[proc[p].key].meta, proc[p].staged, proc[p].key)
      <2> PICK meta : meta = shared[proc[p].key].meta OBVIOUS
      <2>1. meta \in Meta \union {None} /\ True(meta)
            BY <1>1 DEF Process, Current, FilesTrue, Pair
      <2>2. proc[p].staged = First BY <1>4, <2>1, MatchIsNow, Alone DEF Current, Stands
      <2>3. meta = Original
            BY <1>1, <1>4, <2>1, <2>2, Alone DEF Matches, Meta, Original, First, Calm, Honest
      <2> DEFINE c == [proc[p] EXCEPT !.pc = "install", !.meta = meta,
                                      !.accepted = proc[p].staged]
      <2>4. To(p, c) /\ UNCHANGED <<source, local, lock, history>> /\ proc[p].pc = "stageMeta"
            BY <1>4 DEF StageMetadata, At
      <2>5. c \in Process /\ c.pc = "install" /\ c.meta = Original /\ c.staged = First
            /\ c.at = proc[p].at /\ c.key = proc[p].key /\ c.guard = proc[p].guard
            /\ c.role = proc[p].role /\ c.again = proc[p].again /\ c.late = proc[p].late
            BY <1>1, <2>1, <2>2, <2>3, Alone DEF Process, Steps
      <2> HIDE DEF c
      <2>6. Honest(c) BY <1>1, <2>5 DEF Calm, Honest, Installing, Producing, Sharing
      <2>7. Locked(c) BY <1>1, <2>5 DEF Calm, Locked, Producing, Sharing
      <2>8. Informed(c) BY <1>1, <2>4, <2>5 DEF Calm, Informed
      <2> QED BY <2>4, <2>5, <2>6, <2>7, <2>8, QuietStep DEF Calm, Producing
<1>5. CASE StageMetadata(p) /\ ~Matches(shared[proc[p].key].meta, proc[p].staged, proc[p].key)
      BY <1>5, StoreMissIsCalm DEF StageMetadata, At
<1> QED BY <1>2, <1>3, <1>4, <1>5

\* It is installed file by file, by whoever may be at it at once.
LEMMA InstallsCalm ==
    ASSUME Current, Lone, NEW p \in Processes, Install(p) \/ InstallMetadata(p)
    PROVE  Lone'
<1>1. proc[p] \in Process /\ Calm(proc[p]) /\ local \in Pair
      /\ (proc[p].meta # None => proc[p].meta = Original)
      BY ProcessTyped DEF Lone, Current, FilesTrue, Calm, Honest
<1>2. CASE Install(p)
      <2>0. PICK c : c = [proc[p] EXCEPT !.pc = "installMeta"] OBVIOUS
      <2>1. proc[p].pc = "install" /\ proc[p].staged = First
            BY <1>1, <1>2 DEF Install, At, Calm, Honest, Installing
      <2>2. local'.executable = First /\ local'.meta = local.meta
            BY <1>1, <1>2, <2>1 DEF Install, Pair
      <2>3. To(p, c) /\ UNCHANGED <<source, lock, history>>
            BY <1>2, <2>0 DEF Install, Goto
      <2>4. c \in Process /\ c.pc = "installMeta" /\ c.meta = proc[p].meta /\ c.staged = First
            /\ c.at = proc[p].at /\ c.key = proc[p].key /\ c.guard = proc[p].guard
            /\ c.role = proc[p].role /\ c.again = proc[p].again /\ c.late = proc[p].late
            BY <1>1, <2>0, <2>1 DEF Process, Steps
      <2>5. Honest(c)' BY <1>1, <2>2, <2>4, Alone DEF Calm, Honest, Installing, Producing, Sharing
      <2>6. Locked(c)' BY <1>1, <2>3, <2>4 DEF Calm, Locked, Producing, Sharing
      <2>7. Informed(c)' BY <1>1, <2>1, <2>2, <2>3, <2>4, ReadyStays DEF Calm, Informed
      <2>8. Calm(c)' BY <2>5, <2>6, <2>7 DEF Calm, Honest, Locked, Informed, Ready
      <2>9. lock' \in {"free", "held"} BY <2>3 DEF Lone
      <2> QED BY <2>1, <2>2, <2>3, <2>4, <2>8, <2>9, OneCalm DEF Producing
<1>3. CASE InstallMetadata(p)
      <2>1. proc[p].pc = "installMeta" /\ proc[p].meta = Original /\ local.executable # None
            BY <1>1, <1>3, ProcessTyped DEF InstallMetadata, At, Held, Calm, Honest
      <2>2. local'.executable = local.executable /\ local'.meta = Original
            BY <1>1, <1>3, <2>1 DEF InstallMetadata, Pair
      <2>3. Ready' BY <2>1, <2>2, Alone DEF Ready
      <2>4. proc[p].key = 0 BY <1>1 DEF Calm, Honest
      <2>5. To(p, Left(proc[p])) /\ UNCHANGED <<source, lock, history>>
            BY <1>3 DEF InstallMetadata
      <2> QED BY <1>1, <2>1, <2>2, <2>3, <2>4, <2>5, LeavingIsCalm DEF Producing
<1> QED BY <1>2, <1>3

\* It is published to the store after it is there.
LEMMA SharesCalm ==
    ASSUME Current, Lone, NEW p \in Processes, ShareExecutable(p) \/ ShareMetadata(p)
    PROVE  Lone'
<1>1. proc[p] \in Process /\ Calm(proc[p]) BY ProcessTyped DEF Lone
<1>2. CASE ShareExecutable(p)
      <2> DEFINE c == [proc[p] EXCEPT !.pc = "shareMeta"]
      <2>1. To(p, c) /\ UNCHANGED <<source, local, lock, history>> /\ proc[p].pc = "share"
            BY <1>2 DEF ShareExecutable, Goto, At
      <2>2. c \in Process /\ c.pc = "shareMeta" /\ c.meta = proc[p].meta
            /\ c.at = proc[p].at /\ c.key = proc[p].key /\ c.guard = proc[p].guard
            /\ c.role = proc[p].role /\ c.again = proc[p].again /\ c.late = proc[p].late
            BY <1>1 DEF Process, Steps
      <2> HIDE DEF c
      <2>3. Honest(c) BY <1>1, <2>1, <2>2 DEF Calm, Honest, Installing, Producing, Sharing
      <2>4. Locked(c) BY <1>1, <2>1, <2>2 DEF Calm, Locked, Producing, Sharing
      <2>5. Informed(c) BY <1>1, <2>1, <2>2 DEF Calm, Informed
      <2> QED BY <2>1, <2>2, <2>3, <2>4, <2>5, QuietStep DEF Calm, Producing
<1>3. CASE ShareMetadata(p)
      <2>1. To(p, Left(proc[p])) /\ UNCHANGED <<source, local, lock, history>>
            /\ proc[p].pc = "shareMeta"
            BY <1>3 DEF ShareMetadata, At
      <2>2. Ready BY <1>1, <2>1 DEF Calm, Honest, Sharing
      <2>3. Ready' BY <2>1, <2>2 DEF Ready
      <2>4. proc[p].key = 0 BY <1>1 DEF Calm, Honest
      <2> QED BY <1>1, <2>1, <2>3, <2>4, LeavingIsCalm DEF Producing
<1> QED BY <1>2, <1>3

\* A wait ends without the artifact only if the lock is free, and then for the
\* second time only if the artifact is there.
LEMMA WaitsCalm ==
    ASSUME Current, Lone, NEW p \in Processes, Wait(p) \/ Test(p)
    PROVE  Lone'
<1>1. proc[p] \in Process /\ Calm(proc[p]) BY ProcessTyped DEF Lone
<1>2. CASE Wait(p) /\ (proc[p].role = "helper" \/ lock # "held")
      BY <1>2, StoreMissIsCalm DEF Wait, At
<1>3. ASSUME NEW step \in {"check", "stage"}, Goto(p, step), proc[p].pc \in {"wait", "test"},
             step = "stage" => lock # "held", UNCHANGED <<source, local, lock, history>>
      PROVE  Lone'
      <2> DEFINE c == [proc[p] EXCEPT !.pc = step]
      <2>1. To(p, c) BY <1>3 DEF Goto
      <2>2. c \in Process /\ c.pc = step /\ c.meta = proc[p].meta
            /\ c.at = proc[p].at /\ c.key = proc[p].key /\ c.guard = proc[p].guard
            /\ c.role = proc[p].role /\ c.again = proc[p].again /\ c.late = proc[p].late
            BY <1>1 DEF Process, Steps
      <2> HIDE DEF c
      <2>3. Honest(c) BY <1>1, <2>2 DEF Calm, Honest, Installing, Producing, Sharing
      <2>4. Locked(c) BY <1>1, <1>3, <2>2 DEF Calm, Locked, Producing, Sharing
      <2>5. Informed(c) BY <1>1, <1>3, <2>2 DEF Calm, Informed, Locked
      <2> QED BY <1>3, <2>1, <2>2, <2>3, <2>4, <2>5, QuietStep DEF Calm, Producing
<1>4. CASE Wait(p) /\ ~(proc[p].role = "helper" \/ lock # "held")
      BY <1>3, <1>4 DEF Wait, At, Goto
<1>5. CASE Test(p)
      <2>1. ~proc[p].late BY <1>1 DEF Calm, Honest
      <2>2. CASE lock = "held"
            <3>1. Goto(p, "check") BY <1>5, <2>1, <2>2 DEF Test, GivesUp
            <3> QED BY <1>3, <1>5, <3>1 DEF Test, At
      <2>3. CASE lock # "held"
            <3>1. Goto(p, "stage") BY <1>5, <2>3 DEF Test, GivesUp
            <3> QED BY <1>3, <1>5, <2>3, <3>1 DEF Test, At
      <2> QED BY <2>2, <2>3
<1> QED BY <1>2, <1>4, <1>5

\* The lock is taken when it is free, and then nobody has it.  Who loses it to
\* another waits for that one.
LEMMA AcquiresCalm ==
    ASSUME Current, Lone, NEW p \in Processes, Acquire(p)
    PROVE  Lone'
<1>1. proc[p] \in Process /\ Calm(proc[p]) /\ proc[p].pc = "acquire" /\ lock \in {"free", "held"}
      BY ProcessTyped DEF Lone, Acquire, At
<1>2. ~proc[p].guard /\ proc[p].role # "helper" /\ ~proc[p].again
      BY <1>1 DEF Calm, Locked, Honest
<1>3. CASE lock = "free"
      <2>0. PICK c : c = Acquired(p) OBVIOUS
      <2>1. lock' = "held" /\ To(p, c) /\ UNCHANGED <<source, local, history>>
            BY <1>3, <2>0 DEF Acquire
      <2>2. /\ c \in Process /\ c.guard /\ ~c.again /\ c.meta = proc[p].meta
            /\ c.key = proc[p].key /\ c.late = proc[p].late
            BY ZenonT(40), <1>1, <2>0 DEF Acquired, Foreground, Process, Steps, Flag
      <2>3. \/ c.role = "foreground" /\ c.pc = "check" /\ c.at = "recheck"
            \/ c.role = "helper" /\ c.pc = "spawned" /\ c.at = "begin"
            BY <1>1, <2>0 DEF Acquired, Foreground, Process
      <2>4. Honest(c)'
            BY <1>1, <2>2, <2>3 DEF Calm, Honest, Installing, Producing, Sharing
      <2>5. Locked(c)' BY <2>1, <2>2, <2>3 DEF Locked, Producing, Sharing
      <2>6. Informed(c)' BY <2>1, <2>2, <2>3 DEF Informed
      <2>7. Calm(c)' BY <2>4, <2>5, <2>6 DEF Calm, Honest, Locked, Informed, Ready
      <2> QED BY <1>1, <1>3, <2>1, <2>2, <2>7, OneCalm DEF Producing
<1>4. CASE lock = "held" /\ Foreground(p)
      <2> DEFINE c == [proc[p] EXCEPT !.again = FALSE, !.pc = "wait", !.at = "second"]
      <2>1. To(p, c) /\ UNCHANGED <<source, local, lock, history>>
            BY <1>4 DEF Acquire, NotAcquired
      <2>2. /\ c \in Process /\ c.pc = "wait" /\ c.at = "second" /\ ~c.again
            /\ c.meta = proc[p].meta /\ c.key = proc[p].key /\ c.guard = proc[p].guard
            /\ c.role = proc[p].role /\ c.late = proc[p].late
            BY <1>1 DEF Process, Steps, Flag
      <2> HIDE DEF c
      <2>3. Honest(c) BY <1>1, <2>2 DEF Calm, Honest, Installing, Producing, Sharing
      <2>4. Locked(c) BY <1>1, <1>2, <2>2 DEF Calm, Locked, Producing, Sharing
      <2>5. Informed(c) BY <1>2, <1>4, <2>2 DEF Informed
      <2> QED BY <1>1, <2>1, <2>2, <2>3, <2>4, <2>5, QuietStep DEF Calm, Producing
<1>5. CASE lock = "held" /\ ~Foreground(p)
      <2>1. To(p, Left(proc[p])) /\ UNCHANGED <<source, local, lock, history>>
            BY <1>5 DEF Acquire, NotAcquired
      <2>2. proc[p].at = "second" => Ready' BY <1>1, <2>1 DEF Calm, Informed, Ready
      <2>3. proc[p].key = 0 BY <1>1 DEF Calm, Honest
      <2> QED BY <1>1, <1>2, <2>1, <2>2, <2>3, LeavingIsCalm DEF Producing
<1> QED BY <1>1, <1>3, <1>4, <1>5

\* Whoever leaves gives its lock back, and the artifact is there.
LEMMA ReturnsCalm ==
    ASSUME Current, Lone, NEW p \in Processes, Return(p)
    PROVE  Lone'
<1>1. proc[p] \in Process /\ Calm(proc[p]) /\ proc[p].pc = "return" /\ lock \in {"free", "held"}
      BY ProcessTyped DEF Lone, Return, At
<1>2. proc[p].guard => Ready BY <1>1 DEF Calm, Locked
<1>3. PICK c : c = Ended OBVIOUS
<1>4. To(p, c) /\ UNCHANGED <<source, local, history>> /\ lock' = Released(p)
      BY <1>3 DEF Return
<1>5. lock' \in {"free", "held"} /\ (lock' = lock \/ proc[p].guard) BY <1>1, <1>4 DEF Released
<1>6. 0 \in Keys /\ FALSE \in Flag BY ArtifactAssumption DEF Keys, Flag
<1>7. /\ c \in Process /\ c.pc = "done" /\ c.at = "begin" /\ c.role = "foreground"
      /\ c.guard = FALSE /\ c.again = FALSE /\ c.late = FALSE /\ c.key = 0 /\ c.meta = None
      BY <1>3, <1>6 DEF Ended, Start, Process, Steps
<1>8. Honest(c)' BY <1>7 DEF Honest, Installing, Producing, Sharing
<1>9. Locked(c)' BY <1>7 DEF Locked, Producing, Sharing
<1>10. Informed(c)' BY <1>7 DEF Informed
<1>11. Calm(c)' BY <1>8, <1>9, <1>10 DEF Calm, Honest, Locked, Informed, Ready
<1> QED BY <1>1, <1>2, <1>4, <1>5, <1>7, <1>11, OneCalm DEF Producing

\* Only who has the lock and has found that nobody compiled yet compiles.
LEMMA CompilesCalm ==
    ASSUME Current, Lone, NEW p \in Processes, Compile(p) \/ Emit(p)
    PROVE  Lone'
<1>1. proc[p] \in Process /\ Calm(proc[p]) /\ Now = First /\ First \in Sources
      /\ history \in History /\ lock \in {"free", "held"}
      BY ProcessTyped, Alone DEF Lone, Current, EditsCounted
<1>2. CASE Compile(p)
      <2>0. PICK c : c = [proc[p] EXCEPT !.pc = "emit", !.staged = First] OBVIOUS
      <2>1. proc[p].pc = "compile" /\ proc[p].guard /\ proc[p].at = "recheck"
            /\ history.compiles = 0
            BY <1>1, <1>2 DEF Compile, At, Calm, Locked, Informed
      <2>2. To(p, c) /\ UNCHANGED <<source, local, lock>> BY <1>1, <1>2, <2>0 DEF Compile
      <2>3. history'.compiles = 1 BY <1>1, <1>2, <2>1 DEF Compile, History
      <2>4. /\ c \in Process /\ c.pc = "emit" /\ c.staged = First /\ c.meta = proc[p].meta
            /\ c.at = proc[p].at /\ c.key = proc[p].key /\ c.guard = proc[p].guard
            /\ c.role = proc[p].role /\ c.again = proc[p].again /\ c.late = proc[p].late
            BY <1>1, <2>0 DEF Process, Steps
      <2>5. Honest(c)' BY <1>1, <2>4 DEF Calm, Honest, Installing, Producing, Sharing
      <2>6. Locked(c)' BY <1>1, <2>1, <2>2, <2>4 DEF Calm, Locked, Producing, Sharing
      <2>7. Informed(c)' BY <2>1, <2>4 DEF Informed
      <2>8. Calm(c)' BY <2>5, <2>6, <2>7 DEF Calm, Honest, Locked, Informed, Ready
      <2>9. c.guard /\ c.pc \in Producing BY <2>1, <2>4 DEF Producing
      <2> QED BY <1>1, <2>1, <2>2, <2>3, <2>4, <2>8, <2>9, OneCalm
<1>3. CASE Emit(p)
      <2> PICK meta : meta = Metadata(proc[p].key, proc[p].staged) OBVIOUS
      <2> DEFINE c == [proc[p] EXCEPT !.pc = "publish", !.meta = meta]
      <2>1. proc[p].pc = "emit" /\ proc[p].guard /\ proc[p].staged = First /\ proc[p].key = 0
            BY <1>1, <1>3 DEF Emit, At, Calm, Honest, Locked, Producing
      <2>2. meta = Original BY <1>1, <2>1 DEF Metadata, Original, First
      <2>3. Original \in Meta
            <3>1. 0 \in Keys BY ArtifactAssumption DEF Keys
            <3> QED BY <1>1, <3>1 DEF Original, Meta
      <2>4. To(p, c) /\ UNCHANGED <<source, local, lock, history>> BY <1>3 DEF Emit
      <2>5. /\ c \in Process /\ c.pc = "publish" /\ c.staged = First /\ c.meta = Original
            /\ c.at = proc[p].at /\ c.key = proc[p].key /\ c.guard = proc[p].guard
            /\ c.role = proc[p].role /\ c.again = proc[p].again /\ c.late = proc[p].late
            BY ZenonT(40), <1>1, <2>1, <2>2, <2>3 DEF Process, Steps
      <2> HIDE DEF c
      <2>6. Honest(c) BY <1>1, <2>5 DEF Calm, Honest, Installing, Producing, Sharing
      <2>7. Locked(c) BY <1>1, <2>1, <2>5 DEF Calm, Locked, Producing, Sharing
      <2>8. Informed(c) BY <1>1, <2>1, <2>5 DEF Calm, Informed
      <2>9. c.guard /\ c.pc \in Producing BY <2>1, <2>5 DEF Producing
      <2> QED BY <2>4, <2>5, <2>6, <2>7, <2>8, <2>9, QuietStep DEF Calm
<1> QED BY <1>2, <1>3

\* It is the compiler that completes the pair, and it is complete before the
\* compiler goes on.
LEMMA PublishesCalm ==
    ASSUME Current, Lone, NEW p \in Processes, PublishMetadata(p) \/ PublishExecutable(p)
    PROVE  Lone'
<1>1. proc[p] \in Process /\ Calm(proc[p]) /\ Held(proc[p]) /\ local \in Pair
      /\ lock \in {"free", "held"}
      BY ProcessTyped DEF Lone, Current, FilesTrue
<1>2. CASE PublishMetadata(p)
      <2>0. PICK c : c = [proc[p] EXCEPT !.pc = "executable"] OBVIOUS
      <2>1. proc[p].pc = "publish" /\ proc[p].guard /\ proc[p].meta = Original
            BY <1>1, <1>2 DEF PublishMetadata, At, Calm, Honest, Locked, Producing, Held
      <2>2. local'.executable = local.executable /\ local'.meta = Original
            BY <1>1, <1>2, <2>1 DEF PublishMetadata, Pair
      <2>3. To(p, c) /\ UNCHANGED <<source, lock, history>>
            BY <1>2, <2>0 DEF PublishMetadata, Goto
      <2>4. /\ c \in Process /\ c.pc = "executable" /\ c.staged = proc[p].staged
            /\ c.meta = Original
            /\ c.at = proc[p].at /\ c.key = proc[p].key /\ c.guard = proc[p].guard
            /\ c.role = proc[p].role /\ c.again = proc[p].again /\ c.late = proc[p].late
            BY <1>1, <2>0, <2>1 DEF Process, Steps
      <2>5. Honest(c)'
            BY <1>1, <2>1, <2>2, <2>4, Alone DEF Calm, Honest, Installing, Producing, Sharing
      <2>6. Locked(c)' BY <1>1, <2>1, <2>3, <2>4 DEF Calm, Locked, Producing, Sharing
      <2>7. Informed(c)' BY <1>1, <2>1, <2>2, <2>3, <2>4, ReadyStays DEF Calm, Informed
      <2>8. Calm(c)' BY <2>5, <2>6, <2>7 DEF Calm, Honest, Locked, Informed, Ready
      <2>9. c.guard /\ c.pc \in Producing BY <2>1, <2>4 DEF Producing
      <2> QED BY <1>1, <2>1, <2>2, <2>3, <2>4, <2>8, <2>9, OneCalm
<1>3. CASE PublishExecutable(p)
      <2>0. PICK c : c = [proc[p] EXCEPT !.pc = "share", !.accepted = First] OBVIOUS
      <2>1. /\ proc[p].pc = "executable" /\ proc[p].guard /\ proc[p].staged = First
            /\ local.meta # None
            BY <1>1, <1>3 DEF PublishExecutable, At, Calm, Honest, Locked, Producing
      <2>2. local'.executable = First /\ local'.meta = local.meta
            BY <1>1, <1>3, <2>1 DEF PublishExecutable, Pair
      <2>3. To(p, c) /\ UNCHANGED <<source, lock, history>>
            BY <1>3, <2>0, <2>1 DEF PublishExecutable
      <2>4. /\ c \in Process /\ c.pc = "share" /\ c.staged = proc[p].staged
            /\ c.meta = proc[p].meta
            /\ c.at = proc[p].at /\ c.key = proc[p].key /\ c.guard = proc[p].guard
            /\ c.role = proc[p].role /\ c.again = proc[p].again /\ c.late = proc[p].late
            BY <1>1, <2>0, <2>1, Alone DEF Process, Steps
      <2>5. Ready' BY <2>1, <2>2, Alone DEF Ready
      <2>6. Honest(c)'
            BY <1>1, <2>4, <2>5 DEF Calm, Honest, Installing, Producing, Sharing
      <2>7. Locked(c)' BY <1>1, <2>1, <2>3, <2>4 DEF Calm, Locked, Producing, Sharing
      <2>8. Informed(c)' BY <1>1, <2>1, <2>3, <2>4, <2>5 DEF Calm, Informed
      <2>9. Calm(c)' BY <2>6, <2>7, <2>8 DEF Calm, Honest, Locked, Informed, Ready
      <2> QED BY <1>1, <2>1, <2>2, <2>3, <2>4, <2>5, <2>9, OneCalm
<1> QED BY <1>2, <1>3

----------------------------------------------------------------------------
\* A fault is one more of them.
LEMMA FaultDisturbs ==
    ASSUME history \in History, Fault
    PROVE  history' \in History /\ history'.faults > 0 /\ history'.late = history.late
BY DEF History, Fault

\* An edit is a disturbance.
LEMMA EditDisturbs ==
    ASSUME Current, Edit
    PROVE  Disturbed'
<1>1. source \in Seq(Sources) /\ Len(source) > 0 BY DEF Current, Typed
<1>2. PICK changed : source' = Append(source, changed) BY DEF Edit
<1>3. Len(source') = Len(source) + 1 BY <1>1, <1>2
<1> QED BY <1>1, <1>3 DEF Disturbed

\* A disturbance is never forgotten.
LEMMA DisturbedStays ==
    ASSUME Current, Current', Disturbed, [Next]_vars
    PROVE  Disturbed'
<1>1. history \in History /\ source \in Seq(Sources) /\ history' \in History
      BY DEF Current, EditsCounted, Typed
<1>2. CASE UNCHANGED source /\ (Fault \/ UNCHANGED history)
      BY <1>1, <1>2, FaultDisturbs DEF Disturbed
<1>3. CASE Edit BY <1>3, EditDisturbs
<1>4. CASE \E p \in Processes : Compile(p)
      BY SMTT(20), <1>1, <1>4 DEF Compile, Disturbed, History
<1>5. CASE \E p \in Processes : Deadline(p)
      BY <1>1, <1>5 DEF Deadline, Disturbed, History, Flag
<1>6. CASE Foreign
      <2>1. UNCHANGED source BY <1>6 DEF Foreign
      <2> QED BY <1>6, <2>1, ForeignCounts DEF Disturbed
<1>7. \/ UNCHANGED source /\ (Fault \/ UNCHANGED history)
      \/ Edit \/ Foreign
      \/ \E p \in Processes : Compile(p) \/ Deadline(p)
      <2>1. ASSUME NEW p \in Processes, Step(p)
            PROVE  Compile(p) \/ UNCHANGED <<source, history>>
            BY <2>1 DEF Step, Begin, Check, Match, Stage, StageMetadata, Install,
                  InstallMetadata, ShareExecutable, ShareMetadata, Wait, Test, Acquire, TakeOver,
                  Return, Emit, PublishMetadata, PublishExecutable
      <2>2. CASE Trouble
            BY <2>2 DEF Trouble, RestoreFails, ShareFails, SpawnFails, Fails, Kill, Lapse
      <2> QED BY <2>1, <2>2 DEF Next, vars
<1> QED BY <1>2, <1>3, <1>4, <1>5, <1>6, <1>7

\* Every step of an undisturbed workspace keeps the invariant or disturbs it.
LEMMA LoneStays ==
    ASSUME Current, Lone, ~Disturbed, [Next]_vars
    PROVE  Disturbed' \/ Lone'
<1>1. history \in History /\ history.torn = {} BY DEF Current, EditsCounted, Disturbed
<1>2. ASSUME NEW p \in Processes, Step(p) PROVE Lone'
      <2>1. ~TakeOver(p) BY DEF TakeOver, At, Lone, Calm, Honest
      <2> QED BY <1>1, <1>2, <2>1, BeginsCalm, ChecksCalm, StagesCalm, InstallsCalm, SharesCalm,
                 WaitsCalm, AcquiresCalm, ReturnsCalm, CompilesCalm, PublishesCalm DEF Step
<1>3. ASSUME NEW p \in Processes, Deadline(p) PROVE Disturbed'
      BY <1>1, <1>3 DEF Deadline, Disturbed, History, Flag
<1>4. CASE Edit BY <1>4, EditDisturbs
<1>5. CASE Foreign
      <2>1. UNCHANGED <<source, local, lock, proc>> /\ history'.compiles = history.compiles
            BY <1>5, ForeignCounts DEF Foreign
      <2> QED BY <2>1 DEF Lone, Calm, Honest, Locked, Informed, Ready
<1>6. CASE Fault
      BY <1>1, <1>6, FaultDisturbs DEF Disturbed
<1>7. CASE Trouble
      BY <1>4, <1>5, <1>6, <1>7 DEF Trouble, RestoreFails, ShareFails, SpawnFails, Fails, Kill, Lapse
<1>8. CASE UNCHANGED vars
      BY <1>8 DEF vars, Lone, Calm, Honest, Locked, Informed, Ready
<1> QED BY <1>2, <1>3, <1>7, <1>8 DEF Next

\* At first nobody has the lock, and there is nothing.
LEMMA InitiallySingle == Init => Single
<1> SUFFICES ASSUME Init PROVE Single
    OBVIOUS
<1>1. Current BY Initially
<1>2. source = <<First>> BY DEF Init, First
<1>3. PICK roles \in Roles : proc = [p \in Processes |-> Start(roles[p])] BY DEF Init
<1>4. ASSUME NEW p \in Processes
      PROVE  Calm(proc[p]) /\ ~proc[p].guard
      <2>1. roles[p] \in {"foreground", "watch", "detached"} BY ArtifactAssumption
      <2>2. PICK c : c = proc[p] OBVIOUS
      <2>3. /\ c.role \in {"foreground", "watch", "detached"} /\ c.pc \in {"start", "acquire"}
            /\ c.at = "begin" /\ c.guard = FALSE /\ c.again = FALSE /\ c.late = FALSE
            /\ c.key = 0 /\ c.meta = None
            BY <1>3, <2>1, <2>2 DEF Start
      <2>4. Honest(c) BY <2>3 DEF Honest, Installing, Producing, Sharing
      <2>5. Locked(c) BY <2>3 DEF Locked, Producing, Sharing
      <2>6. Informed(c) BY <2>3 DEF Informed
      <2> QED BY <2>2, <2>3, <2>4, <2>5, <2>6 DEF Calm
<1>5. Lone BY <1>2, <1>4 DEF Lone, Init, NoPair
<1> QED BY <1>1, <1>5 DEF Single

\* Single flight: a workspace whose sources stay as they are compiles its worker
\* once, however many commands, prewarms and helpers ask for it at once
\* (worker_kernel.rs, prepare_worker_aot and acquire_background_aot_lock), unless
\* a process fails or is killed, a wait runs into its deadline, or another
\* workspace publishes a torn compile.
THEOREM CompiledBySingleFlight == Spec => []CompiledOnce
<1>1. Single /\ [Next]_vars => Single'
      <2> SUFFICES ASSUME Single, [Next]_vars PROVE Single'
          OBVIOUS
      <2>1. Current /\ Current' BY Inductive DEF Single
      <2>2. CASE Disturbed BY <2>1, <2>2, DisturbedStays DEF Single
      <2>3. CASE Lone /\ ~Disturbed BY <2>1, <2>3, LoneStays DEF Single
      <2> QED BY <2>1, <2>2, <2>3 DEF Single
<1>2. Single => CompiledOnce
      <2> SUFFICES ASSUME Single, ~Disturbed PROVE history.compiles <= 1
          BY DEF CompiledOnce
      <2> QED BY DEF Single, Lone
<1> QED BY <1>1, <1>2, InitiallySingle, PTL DEF Spec
==============================================================================
