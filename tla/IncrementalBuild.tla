---------------------------- MODULE IncrementalBuild ----------------------------
(* Incremental builds of one package, beside a user who edits sources and    *)
(* outputs at any moment: scan, plan, find the dirty actions, run them phase  *)
(* by phase with optional producers on demand, commit (rust/src/build.rs,     *)
(* build/planning.rs, build/dirty.rs, build/execution.rs, build/results.rs,   *)
(* graph.rs, assets.rs).  The commit is one step here; CommitRecovery has     *)
(* what it consists of.  A builder is a deterministic function of what it     *)
(* sees: the bytes it writes name every observation it made.                  *)
EXTENDS Integers, Sequences, SequencesExt, FiniteSets

CONSTANTS
    Source,     \* hand-written assets
    Content,    \* for each of them, what the user may write there
    Junk,       \* what the user may leave where a builder writes
    Habit,      \* what content makes the builders that start from it do
    Packages,   \* packages looked at: the actions of their builders, earlier entries
                \* first, and the sets of actions that a configuration may enable
    MaxBuilds,  \* bound: builds that do something
    MaxEdits    \* bound: edits of sources, outputs and configuration

\* Two actions of one builder never declare one output (validate_unique_outputs).
ASSUME ActionsAssumption ==
    /\ \A p \in Packages :
          LET specs == ToSet(p.actions)
              made == {s.output : s \in specs}
          IN  /\ Cardinality(made) = Len(p.actions) /\ made \cap Source = {}
              /\ p.configs \subseteq SUBSET DOMAIN p.actions
              /\ \A s \in specs :
                    /\ DOMAIN s = {"input", "output", "phase", "kind", "cached", "also", "glob"}
                    /\ s.kind \in {"normal", "optional", "post"} /\ s.cached \in BOOLEAN
                    /\ {s.input} \cup ToSet(s.also) \cup s.glob \subseteq Source \cup made
    /\ \A c \in {Junk} \cup UNION {Content[x] : x \in Source} :
          Habit[c] \in {"plain", "reads", "lists", "quiet"}

VARIABLES
    package, \* the package looked at, which stays as it is
    disk,    \* bytes of every asset at its own place, package or artifact tree
    config,  \* the configuration on disk: enabled actions
    graph,   \* the persisted graph
    tx,      \* the build under way, or Idle
    calm,    \* nothing was edited since the last successful build began
    spent    \* builds and edits so far

vars == <<package, disk, config, graph, tx, calm, spent>>

Action == DOMAIN package.actions
Spec(a) == package.actions[a]
Out(a) == Spec(a).output
In(a) == Spec(a).input
Phase(a) == Spec(a).phase
Post(a) == Spec(a).kind = "post"
Optional(a) == Spec(a).kind = "optional"
Produced == {Out(a) : a \in Action}
Asset == Source \cup Produced

\* Bytes: where they come from, by which action, from which observations.
File(root, by, saw, listed) == [root |-> root, by |-> by, saw |-> saw, listed |-> listed]
Missing == File("missing", -1, [x \in {} |-> 0], {})
Written(c) == File(c, 0, [x \in {} |-> 0], {})
Idle == [phase |-> "idle"]

\* A record with one more or one replaced key.
Put(f, key, value) == [k \in DOMAIN f \cup {key} |-> IF k = key THEN value ELSE f[k]]
Without(f, keys) == [k \in DOMAIN f \ keys |-> f[k]]

\* The actions recorded in a graph that left a file behind.
Emitted(acts) == {a \in DOMAIN acts : acts[a].digest # Missing}

----------------------------------------------------------------------------
(* Snapshots.                                                                *)

\* list_package_assets: what lies in the package tree.
InTree(tree) == {x \in Asset : tree[x] # Missing
                    /\ \A a \in Action : Out(a) = x => ~Spec(a).cached}

\* scan_initial and scan_committed: sources, recorded outputs, whatever a
\* recorded action depended on, missing or not, and its globs.
Scan(tree, acts) ==
    LET outputs == {Out(a) : a \in Emitted(acts)} \ {x \in Asset : tree[x] = Missing}
        depended == UNION {acts[a].reads \cup {In(a)} : a \in DOMAIN acts}
    IN  [assets |-> [x \in InTree(tree) \cup outputs \cup depended |-> tree[x]],
         globs |-> [a \in {b \in DOMAIN acts : acts[b].globbed} |->
                       [x \in Spec(a).glob \cap InTree(tree) |-> tree[x]]]]

----------------------------------------------------------------------------
(* Planning (planning::create).                                              *)

\* Phase by phase: an action is planned when its input exists or an earlier
\* phase declares it.
RECURSIVE PlannedUpTo(_, _)
PlannedUpTo(p, existing) ==
    IF p = 0 THEN {}
    ELSE LET before == PlannedUpTo(p - 1, existing)
         IN  before \cup {a \in config : ~Post(a) /\ Phase(a) = p
                              /\ In(a) \in existing \cup {Out(b) : b \in before}}

LastPhase == CHOOSE p \in {Phase(a) : a \in Action} : \A a \in Action : Phase(a) <= p

\* Outputs that actions no longer planned left behind are not inputs; taking
\* one away may expose the next.
RECURSIVE PlannedFrom(_)
PlannedFrom(existing) ==
    LET normal == PlannedUpTo(LastPhase, existing)
        stale == {Out(a) : a \in {b \in Emitted(graph.actions) : ~Post(b) /\ b \notin normal}}
    IN  IF existing \cap stale # {} THEN PlannedFrom(existing \ stale)
        ELSE normal \cup {a \in config : Post(a)
                             /\ In(a) \in existing \cup {Out(b) : b \in normal}}

Plan(snapshot) ==
    LET exists == {x \in DOMAIN snapshot.assets : snapshot.assets[x] # Missing}
    IN  PlannedFrom(exists \ {Out(a) : a \in {b \in Emitted(graph.actions) : Post(b)}})

----------------------------------------------------------------------------
(* Dirty analysis (dirty.rs, graph.rs).                                      *)

\* dirty_context: assets whose entry differs between the two snapshots.
Changed(old, new) ==
    {x \in DOMAIN old \cup DOMAIN new :
        \/ x \notin DOMAIN old \cap DOMAIN new
        \/ old[x] # new[x]}

\* changed_since_previous_with.
ChangedSincePrevious(a, snapshot) ==
    LET rec == graph.actions[a]
    IN  \/ ({In(a)} \cup rec.reads) \cap Changed(graph.assets, snapshot.assets) # {}
        \/ rec.globbed /\ \/ a \notin DOMAIN graph.globs
                          \/ graph.globs[a] # snapshot.globs[a]
        \/ rec.digest # Missing /\ rec.digest # disk[Out(a)]

Compatible == graph.config = config

\* A file at a declared output that the recorded action did not write.
HasUnrecordedOutput(a) ==
    a \in DOMAIN graph.actions \ Emitted(graph.actions) /\ ~Post(a) /\ disk[Out(a)] # Missing

NeedsBuild(a, snapshot) ==
    \/ a \notin DOMAIN graph.actions
    \/ graph.actions[a].status = "undemanded"
    \/ ~Compatible
    \/ ChangedSincePrevious(a, snapshot)

\* required_by_dirty_normal: what the dirty ordinary actions read, and who
\* makes it, through recorded reads.
RECURSIVE RequiredBy(_, _)
RequiredBy(found, plan) ==
    LET assets == UNION {{In(a)} \cup (IF a \in DOMAIN graph.actions
                                       THEN graph.actions[a].reads ELSE {}) : a \in found}
        more == found \cup {a \in plan : ~Post(a) /\ Out(a) \in assets}
    IN  IF more = found THEN found ELSE RequiredBy(more, plan)

\* Outputs that a dirty action may change, given what it did last time.
Impact(a, required) ==
    IF a \notin DOMAIN graph.actions THEN IF Post(a) THEN {} ELSE {Out(a)}
    ELSE LET rec == graph.actions[a]
         IN  IF /\ rec.status = "undemanded" => a \in required
                /\ rec.digest # Missing \/ (rec.status \in {"success", "undemanded"} /\ ~Post(a))
             THEN {Out(a)} ELSE {}

\* Planned actions that see a change of output x of action d.  A removed output
\* concerns later phases only.
Dependents(x, d, removed, plan) ==
    {e \in plan \cap DOMAIN graph.actions :
        /\ \/ x \in graph.actions[e].reads
           \/ graph.actions[e].status = "skipped" /\ x = In(e)
           \/ ~Post(d) /\ graph.actions[e].globbed /\ Phase(d) < Phase(e) /\ x \in Spec(e).glob
        /\ Post(e) \/ ~removed \/ (~Post(d) /\ Phase(d) < Phase(e))}

\* expand_with_source_changes: the dirty actions and everything that follows.
RECURSIVE Expanded(_, _, _)
Expanded(found, required, plan) ==
    LET more == found \cup UNION {UNION {Dependents(x, d, FALSE, plan) : x \in Impact(d, required)}
                                     : d \in found}
    IN  IF more = found THEN found ELSE Expanded(more, required, plan)

\* analyze: dirty actions, optional ones to run when demanded, removed ones.
Analysis(snapshot, plan) ==
    LET roots == {a \in plan : NeedsBuild(a, snapshot) \/ HasUnrecordedOutput(a)}
        gone == DOMAIN graph.actions \ plan
        removed == IF Compatible THEN gone \cap Emitted(graph.actions) \cap config ELSE {}
        woken == UNION {Dependents(Out(d), d, TRUE, plan) : d \in removed}
        required == RequiredBy({a \in roots : Spec(a).kind = "normal"}, plan)
        all == Expanded(roots \cup woken, required, plan)
    IN  [dirty |-> {a \in all : ~Optional(a)}, force |-> {a \in all : Optional(a)}, gone |-> gone]

HasWork(found) == found.dirty \cup found.gone # {}

----------------------------------------------------------------------------
(* What an action sees, and what it does with it.                            *)

\* is_blocked: hidden by the transaction, made by a post-process builder, or
\* made in this phase or later.
Blocked(x, a, t) ==
    \/ x \in t.hidden
    \/ \E b \in Action : Out(b) = x /\ Post(b)
    \/ ~Post(a) /\ \E b \in t.plan : Out(b) = x /\ Phase(b) >= Phase(a)

\* The overlay first, then the place where the output is known to be.
Visible(x, t) ==
    IF x \in DOMAIN t.overlay THEN t.overlay[x]
    ELSE IF x \in InTree(disk) \cup {Out(b) : b \in t.plan \cup DOMAIN graph.actions} THEN disk[x]
    ELSE Missing

See(x, a, t) == IF Blocked(x, a, t) THEN Missing ELSE Visible(x, t)

\* Whether a request for x first runs the optional action that makes it.
Producers(x, t) == {b \in t.plan : Optional(b) /\ Out(b) = x}
Awaits(x, a, t) ==
    /\ ~Blocked(x, a, t) /\ x \notin DOMAIN t.overlay
    /\ Producers(x, t) \cap t.force # {} /\ Producers(x, t) \cap t.built = {}

\* replace_action_outputs, then record_build_result: the file takes its place
\* in the overlay, or what was there is hidden and will be deleted.
Record(a, file, reads, globbed, status, t) ==
    LET known == a \in DOMAIN graph.actions /\ graph.actions[a].digest # Missing
        surplus == known \/ (~Post(a) /\ disk[Out(a)] # Missing)
    IN  [t EXCEPT
          !.acts = Put(@, a, [status |-> status, reads |-> reads, globbed |-> globbed,
                              digest |-> file]),
          !.built = @ \cup (IF status = "success" THEN {a} ELSE {}),
          !.overlay = IF file = Missing THEN Without(@, {Out(a)}) ELSE Put(@, Out(a), file),
          !.hidden = IF file # Missing THEN @ \ {Out(a)}
                     ELSE IF Post(a) /\ ~known THEN @ ELSE @ \cup {Out(a)},
          !.deletions = IF file = Missing /\ surplus THEN @ \cup {Out(a)} ELSE @]

\* record_missing_primary_input.
Skip(a, t) ==
    Record(a, Missing, {}, FALSE, IF Optional(a) THEN "undemanded" ELSE "skipped", t)

\* The builder: it reads its input, and the input decides what else.
RECURSIVE Run(_, _), Ensure(_, _, _)
Run(a, t) ==
    LET t1 == Ensure(In(a), a, t)
        input == See(In(a), a, t1)
        habit == IF input = Missing THEN "quiet" ELSE Habit[input.root]
        also == IF habit = "reads" /\ ~Post(a) THEN Spec(a).also ELSE <<>>
        globbed == habit = "lists" /\ ~Post(a)
        t2 == FoldLeft(LAMBDA u, x : Ensure(x, a, u), t1,
                       IF globbed THEN SetToSeq(Spec(a).glob) ELSE also)
        members == {x \in Spec(a).glob : globbed /\ See(x, a, t2) # Missing}
        reads == {In(a)} \cup ToSet(also) \cup members
        file == IF habit = "quiet" THEN Missing
                ELSE File(input.root, a, [x \in reads \ members |-> See(x, a, t2)], members)
    IN  Record(a, file, reads, globbed, "success", t2)

\* ensure_optional_output: the producer's own optional primary comes first, and
\* without a primary it succeeds with nothing; meanwhile its old output is hidden.
Ensure(x, a, t) ==
    IF ~Awaits(x, a, t) THEN t
    ELSE LET b == CHOOSE b \in Producers(x, t) : TRUE
             lazy == Producers(In(b), t) # {}
             t1 == IF lazy THEN Ensure(In(b), b, t) ELSE t
         IN  IF lazy /\ (In(b) \in t1.hidden \/ Visible(In(b), t1) = Missing)
             THEN Record(b, Missing, {In(b)}, FALSE, "success", t1)
             ELSE Run(b, [t1 EXCEPT !.hidden = @ \cup {Out(b)},
                                    !.overlay = Without(@, {Out(b)})])

----------------------------------------------------------------------------
(* Execution.                                                                *)

\* prune_undemanded_optional: invalidated and not asked for.
Prune(t) ==
    LET idle == {a \in t.plan : Optional(a) /\ a \in t.force \ t.built}
    IN  FoldLeft(LAMBDA u, a : Skip(a, u), [t EXCEPT !.pruned = TRUE], SetToSeq(idle))

\* phase_specs: the dirty actions, and post-process actions on an optional
\* output that this transaction made.
Selected(t) ==
    {a \in t.plan \ DOMAIN t.acts :
        \/ a \in t.dirty
        \/ Post(a) /\ Producers(In(a), t) \cap t.built # {}}

\* execution_order.
Before(a, b) ==
    IF Post(a) # Post(b) THEN Post(b)
    ELSE Phase(a) < Phase(b) \/ (Phase(a) = Phase(b) /\ a < b)
First(t) == CHOOSE a \in Selected(t) : \A b \in Selected(t) \ {a} : Before(a, b)

\* One action: its generated primary input is demanded, unless it is a
\* post-process action, and looked for; then the builder runs.
Perform(a, t) ==
    LET ready == IF Post(a) /\ ~t.pruned THEN Prune(t) ELSE t
        demanded == IF Post(a) THEN ready ELSE Ensure(In(a), a, ready)
        generated == \E b \in t.plan : ~Post(b) /\ Out(b) = In(a)
    IN  IF generated /\ (In(a) \in demanded.hidden \/ Visible(In(a), demanded) = Missing)
        THEN Skip(a, demanded)
        ELSE Run(a, demanded)

\* run_with_config_session up to the end of the analysis: with nothing to do,
\* save_no_work; otherwise PendingTransaction::new.
Begin ==
    LET snapshot == Scan(disk, graph.actions)
        plan == Plan(snapshot)
        found == Analysis(snapshot, plan)
    IN  /\ tx = Idle /\ spent.builds < MaxBuilds
        /\ IF ~HasWork(found) /\ graph.config # {}
           THEN /\ graph' = [graph EXCEPT !.assets = snapshot.assets, !.globs = snapshot.globs,
                                          !.config = config]
                /\ UNCHANGED tx
           ELSE /\ tx' = [phase |-> "running", snapshot |-> snapshot, plan |-> plan,
                          dirty |-> found.dirty, force |-> found.force, gone |-> found.gone,
                          overlay |-> [x \in {} |-> Missing], acts |-> [a \in {} |-> Missing],
                          hidden |-> {Out(a) : a \in (found.dirty \cup found.gone)
                                                     \cap Emitted(graph.actions)},
                          deletions |-> {}, built |-> {}, pruned |-> FALSE]
                /\ UNCHANGED graph
        /\ spent' = [spent EXCEPT !.builds = @ + 1]
        /\ calm' = TRUE
        /\ UNCHANGED <<package, disk, config>>

RunNext ==
    /\ tx # Idle /\ Selected(tx) # {}
    /\ tx' = Perform(First(tx), tx)
    /\ UNCHANGED <<package, disk, config, graph, calm, spent>>

\* A builder or a worker fails: the transaction is dropped.
Fail ==
    /\ tx # Idle /\ Selected(tx) # {}
    /\ tx' = Idle /\ calm' = FALSE
    /\ UNCHANGED <<package, disk, config, graph, spent>>

\* What is deleted, then what is written (commit_inner).
Published(t) ==
    LET obsolete == {Out(a) : a \in t.gone \cap Emitted(graph.actions)}
                        \ {Out(a) : a \in {b \in t.plan : ~Post(b)}}
    IN  [x \in Asset |-> IF x \in DOMAIN t.overlay THEN t.overlay[x]
                         ELSE IF x \in t.deletions \cup obsolete THEN Missing
                         ELSE disk[x]]

\* Faulty variants of Kept: everything as it is now, or as the build found it.
KeptFromEnd(t, acts, post) == post.assets
KeptFromStart(t, acts, post) ==
    [x \in DOMAIN post.assets \cup DOMAIN t.snapshot.assets |->
        IF x \in DOMAIN t.snapshot.assets THEN t.snapshot.assets[x] ELSE post.assets[x]]

\* The snapshot to keep: sources as the build found them, so that an edit made
\* meanwhile is seen next time; outputs, globs and newcomers as they are now.
Kept(t, acts, post) ==
    LET generated == {Out(a) : a \in Emitted(acts) \cup Emitted(graph.actions)}
                         \cup {Out(a) : a \in {b \in t.plan : ~Post(b)}}
        found == DOMAIN t.snapshot.assets \ generated
    IN  [x \in DOMAIN post.assets \cup found |->
            IF x \in found THEN t.snapshot.assets[x] ELSE post.assets[x]]

Commit ==
    LET t == IF tx.pruned THEN tx ELSE Prune(tx)
        old == Without(graph.actions, t.gone)
        acts == [a \in DOMAIN old \cup DOMAIN t.acts |->
                    IF a \in DOMAIN t.acts THEN t.acts[a] ELSE old[a]]
    IN  /\ tx # Idle /\ Selected(tx) = {}
        /\ disk' = Published(t)
        /\ LET post == Scan(Published(t), acts)
           IN  graph' = [actions |-> acts, config |-> config,
                         assets |-> Kept(t, acts, post), globs |-> post.globs]
        /\ tx' = Idle
        /\ UNCHANGED <<package, config, calm, spent>>

----------------------------------------------------------------------------
(* The user.  While a build runs, sources are edited and deleted but not      *)
(* created (ADR 0032 promises no more), and an edit is not undone before a    *)
(* build has seen it: digests cannot tell.                                    *)

Edited == /\ spent.edits < MaxEdits
          /\ spent' = [spent EXCEPT !.edits = @ + 1]
          /\ calm' = FALSE
          /\ UNCHANGED <<package, graph, tx>>

\* What the next analysis will compare a file with.
Remembered(x) ==
    {known[x] : known \in {s \in {graph.assets} \cup (IF tx = Idle THEN {} ELSE {tx.snapshot.assets}) :
                              x \in DOMAIN s}}

EditSource ==
    /\ Edited
    /\ \E x \in Source : \E c \in {Missing} \cup {Written(d) : d \in Content[x]} :
          /\ c \notin {disk[x]} \cup Remembered(x)
          /\ tx # Idle => disk[x] # Missing
          /\ disk' = [disk EXCEPT ![x] = c]
    /\ UNCHANGED config

\* An output is removed or overwritten, or a file put where none was written.
EditOutput ==
    /\ Edited
    /\ \E a \in DOMAIN graph.actions :
          \/ disk[Out(a)] # Missing /\ disk' = [disk EXCEPT ![Out(a)] = Missing]
          \/ /\ disk[Out(a)] # Missing \/ (Spec(a).cached /\ Spec(a).kind = "normal")
             /\ disk' = [disk EXCEPT ![Out(a)] = Written(Junk)]
    /\ UNCHANGED config

EditConfig ==
    /\ Edited
    /\ tx = Idle
    /\ config' \in package.configs \ {config}
    /\ UNCHANGED disk

----------------------------------------------------------------------------
Init ==
    /\ package \in Packages
    /\ \E held \in [Source -> {Missing} \cup {Written(c) : c \in UNION {Content[x] : x \in Source}}] :
          /\ \A x \in Source : held[x] \in {Missing} \cup {Written(c) : c \in Content[x]}
          /\ disk = [x \in Asset |-> IF x \in Source THEN held[x] ELSE Missing]
    /\ config \in package.configs
    /\ graph = [actions |-> [a \in {} |-> Missing], config |-> {},
                assets |-> [x \in {} |-> Missing], globs |-> [a \in {} |-> Missing]]
    /\ tx = Idle /\ calm = FALSE
    /\ spent = [builds |-> 0, edits |-> 0]

Next == Begin \/ RunNext \/ Fail \/ Commit \/ EditSource \/ EditOutput \/ EditConfig

IncrementalSpec == Init /\ [][Next]_vars

----------------------------------------------------------------------------
(* Reference: a build from nothing, every optional output asked for.         *)

CleanTree ==
    LET made[a \in Action] ==
            LET at(x) == IF x \in Source THEN disk[x]
                         ELSE LET b == CHOOSE b \in Action : Out(b) = x
                              IN  IF ~Post(b) /\ (Post(a) \/ Phase(b) < Phase(a))
                                  THEN made[b] ELSE Missing
                input == at(In(a))
                habit == IF input = Missing \/ a \notin config THEN "quiet" ELSE Habit[input.root]
                also == IF habit = "reads" /\ ~Post(a) THEN ToSet(Spec(a).also) ELSE {}
                members == IF habit = "lists" /\ ~Post(a)
                           THEN {x \in Spec(a).glob : at(x) # Missing} ELSE {}
            IN  IF habit = "quiet" THEN Missing
                ELSE File(input.root, a,
                          [x \in ({In(a)} \cup also) \ members |-> at(x)], members)
    IN  made

\* Whose outputs ordinary actions asked for, directly or through others.  What
\* no one asked for is left as it is until a build has something to do.
Wanted == RequiredBy({a \in DOMAIN graph.actions : Spec(a).kind = "normal"},
                     DOMAIN graph.actions)
Unwanted(a) == Optional(a) /\ a \notin Wanted

Settled == tx = Idle /\ calm

\* After a successful build during and after which nobody edited anything, the
\* outputs are those of a build from nothing, after edits between and during
\* earlier builds, outputs removed or overwritten, files planted, failures and
\* other configurations (ADR 0002).  The packages of its run have no action that
\* is skipped because another one was skipped: there it fails, which is what
\* SkippedReconsidered is about.
SameAsClean ==
    Settled => \A a \in Action :
        \/ disk[Out(a)] = CleanTree[a]
        \/ Unwanted(a)
        \/ disk[Out(a)] = Missing /\ \E b \in Action : Out(b) = In(a) /\ Unwanted(b)
        \/ disk[Out(a)].by = 0 /\ a \notin DOMAIN graph.actions

\* An action skipped for want of its input is reconsidered once a producer
\* emits that input (dirty.rs).
SkippedReconsidered ==
    Settled => \A a \in DOMAIN graph.actions :
        graph.actions[a].status = "skipped" => disk[In(a)] = Missing

\* And the next build finds nothing to do: one build reaches the fixed point.
SettledIsQuiet ==
    Settled => LET snapshot == Scan(disk, graph.actions)
               IN  ~HasWork(Analysis(snapshot, Plan(snapshot)))
=============================================================================
