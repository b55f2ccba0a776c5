---------------------------- MODULE CompilerSources ----------------------------
(* Which package sources a compiler gets to see                              *)
(* (rust/src/runner_compatibility.rs, rust/src/compile_isolation.rs).        *)
(*                                                                           *)
(* Before a workspace is loaded, its package configuration may be replaced   *)
(* for compilers only: an old runner by a patched copy, and, where asked     *)
(* for, the compiler packages by patched copies of theirs.  Copies lie in    *)
(* directories named by their content; a selector file per layer holds the   *)
(* configuration to use.  Builds, watches and prewarms of either mode do     *)
(* this at the same time, while packages are resolved anew and sources are   *)
(* edited.  A receipt spares the second layer from reading everything again. *)
(* The compile that follows looks the selectors up once more.                *)
EXTENDS Naturals, FiniteSets, Functions

CONSTANTS
    Commands,
    Dirs,        \* where packages lie
    Inside,      \* those in the workspace itself
    Resolutions, \* what package resolution may decide: functions from packages to Dirs
    Decided,     \* what it has decided at first
    Texts,       \* what may lie there, ...
    Legacy,      \* ... the runners that need the backport among it,
    Alien,       \* ... and what no patch applies to
    Original,    \* what lies there at first
    Pubspec,     \* the pubspec.yaml and build.yaml of a content
    Modes,       \* what the commands of the instance ask for
    MaxChanges,  \* bound: edits of sources and new resolutions
    MaxFaults,   \* bound: copies damaged or removed, failed operations and kills
    Selector,    \* the file that selects the isolated copies
    Absent, Damaged

Packages == {"runner", "analyzer"}
Layers == {"compat", "isolated"}

(* A configuration says where each package is: in a directory, or in a copy. *)
(* A copy's name, the digest of its files, is taken for the files.  The      *)
(* first layer patches the runner, the second all packages, also patched or  *)
(* damaged ones.                                                             *)

Copy(layer, tree) == [layer |-> layer, tree |-> tree]
Patched(layer, content) == <<layer, content>>
Backported(content) == Copy("compat", [q \in {"runner"} |-> Patched("compat", content)])
Found == Texts \cup {Damaged} \cup ({"compat"} \X Texts)
Trees == [Packages -> {"isolated"} \X Found]
Copies == {Backported(content) : content \in Legacy} \cup {Copy("isolated", tree) : tree \in Trees}
Views == [Packages -> Dirs \cup Copies]

ByPlace(place) == [by |-> "place", of |-> place]
ByPackage(package) == [by |-> "package", of |-> package]

(* A content that one layer has patched is none that the next cannot patch.  *)
ASSUME SourcesAssumption ==
    /\ Resolutions \subseteq [Packages -> Dirs] /\ Decided \in Resolutions
    /\ Inside \subseteq Dirs /\ Legacy \subseteq Texts /\ Alien \subseteq Texts
    /\ Original \in [Dirs -> Texts] /\ DOMAIN Pubspec = Texts
    /\ Modes \subseteq {"default", "isolated"}
    /\ \A content \in Texts : Patched("compat", content) \notin Alien
    /\ Dirs \cap Copies = {}
    /\ Absent \notin Copies \cup Views \cup Layers
    /\ \A place \in Dirs : Absent # ByPlace(place)
    /\ \A package \in Packages : Absent # ByPackage(package)
    /\ MaxChanges \in Nat /\ MaxFaults \in Nat

VARIABLES
    resolution, \* the application's package configuration
    source,     \* what lies in each directory
    copies,     \* the copies on disk, by what their name says they hold
    selector,   \* the configuration each layer selects, or Absent
    isolation,  \* the receipt of the isolated copies, or Absent
    artifact,   \* the worker last compiled
    proc,
    history     \* changes and faults so far

compilerVars == <<resolution, source, copies, selector, isolation, artifact, proc, history>>

----------------------------------------------------------------------------
Applies(layer, content) ==
    IF layer = "compat" THEN content \in Legacy ELSE content \notin Alien

Exists(place) == place \in Dirs \/ place \in DOMAIN copies
\* What a compiler finds of a package.
ContentAt(place, package) ==
    IF place \in Dirs THEN source[place] ELSE copies[place][package]
Places(view) == {view[package] : package \in Packages}

(* A snapshot of change stamps is kept as the set of what still has the      *)
(* stamp it recorded: a write takes a place out of all of them.  Not so the  *)
(* second write in one tick of the file system's clock, if the length stays: *)
(* stamps are compared without regard to how old they are.  `missed` says    *)
(* for which of the recorded places the stamp has missed a write.            *)
Forget(place, c) ==
    [c EXCEPT !.before = @ \ {place}, !.outputs = @ \ {place}, !.missed = @ \ {place}]
ForgetIsolation(place) ==
    IF isolation = Absent THEN Absent
    ELSE [isolation EXCEPT !.sources = @ \ {place}, !.outputs = @ \ {place},
                           !.missed = @ \ {place}]
Miss(place, c) == [c EXCEPT !.missed = @ \cup ({place} \cap (c.before \cup c.outputs))]
MissIsolation(place) ==
    IF isolation = Absent THEN Absent
    ELSE [isolation EXCEPT !.missed = @ \cup ({place} \cap (isolation.sources \cup isolation.outputs))]

Resting == [pc |-> "idle", mode |-> "default", layer |-> "compat", input |-> Absent, view |-> Absent,
            todo |-> {}, tree |-> <<>>, before |-> {}, outputs |-> {}, missed |-> {},
            packages |-> Absent, dirs |-> Absent, key |-> Absent]

CompilerInit ==
    /\ resolution = Decided /\ source = Original
    /\ copies = <<>> /\ selector = [layer \in Layers |-> Absent]
    /\ isolation = Absent /\ artifact = Absent
    /\ proc = [p \in Commands |-> Resting]
    /\ history = [changes |-> 0, faults |-> 0]

On(p, step) == proc[p].pc = step
Goes(p, changed) == proc' = [proc EXCEPT ![p] = changed]
Failed(c) == [Resting EXCEPT !.pc = "failed"]

----------------------------------------------------------------------------
(* The world                                                                 *)

Change == history.changes < MaxChanges /\ history' = [history EXCEPT !.changes = @ + 1]
Fault == history.faults < MaxFaults /\ history' = [history EXCEPT !.faults = @ + 1]

\* What a write does to the stamps.  Any may be the second in its tick: how many
\* steps of a command one tick lasts, since the place was first written, is open.
Rewrite(place) ==
    \/ /\ proc' = [p \in Commands |-> Forget(place, proc[p])]
       /\ isolation' = ForgetIsolation(place)
    \/ /\ proc' = [p \in Commands |-> Miss(place, proc[p])]
       /\ isolation' = MissIsolation(place)

Resolve ==
    /\ Change
    /\ resolution' \in Resolutions \ {resolution}
    /\ UNCHANGED <<source, copies, selector, isolation, artifact, proc>>

Edit(d) ==
    /\ Change
    /\ \E content \in Texts \ {source[d]} : source' = [source EXCEPT ![d] = content]
    /\ Rewrite(d)
    /\ UNCHANGED <<resolution, copies, selector, artifact>>

\* A copy is damaged, or removed as the error message advises.
Damage(copy) ==
    /\ Fault
    /\ copies' \in {[copies EXCEPT ![copy][package] = Damaged] : package \in DOMAIN copy.tree}
    /\ Rewrite(copy)
    /\ UNCHANGED <<resolution, source, selector, artifact>>
RemoveCopy(copy) ==
    /\ Fault
    /\ copies' = Restrict(copies, DOMAIN copies \ {copy})
    /\ proc' = [p \in Commands |-> Forget(copy, proc[p])] /\ isolation' = ForgetIsolation(copy)
    /\ UNCHANGED <<resolution, source, selector, artifact>>

\* An operation fails, or the process is killed.
Abandon(p) ==
    /\ ~On(p, "idle") /\ Fault /\ Goes(p, Resting)
    /\ UNCHANGED <<resolution, source, copies, selector, isolation, artifact>>

----------------------------------------------------------------------------
(* runner_compatibility::prepare                                             *)

Begin(p) ==
    /\ On(p, "idle") \/ On(p, "failed")
    /\ \E mode \in Modes :
         Goes(p, [Resting EXCEPT !.pc = "version", !.mode = mode, !.view = resolution])
    /\ UNCHANGED <<resolution, source, copies, selector, isolation, artifact, history>>

Collecting(layer, packages, c) ==
    [c EXCEPT !.pc = "collect", !.layer = layer, !.todo = packages, !.tree = <<>>]

Version(p) ==
    /\ On(p, "version")
    /\ Goes(p, IF source[proc[p].view["runner"]] \in Legacy
               THEN Collecting("compat", {"runner"}, proc[p])
               ELSE [proc[p] EXCEPT !.pc = "drop"])
    /\ UNCHANGED <<resolution, source, copies, selector, isolation, artifact, history>>

\* Where the first layer is left: with the second, or with `selected` as the result.
Leave(c, selected) ==
    IF c.mode = "isolated" THEN [c EXCEPT !.pc = "reuse", !.input = c.view]
    ELSE [c EXCEPT !.pc = "load", !.layer = selected]

\* A runner that needs no backport has none selected.
Drop(p) ==
    /\ On(p, "drop")
    /\ selector' = [selector EXCEPT !["compat"] = Absent]
    /\ Goes(p, Leave(proc[p], Absent))
    /\ UNCHANGED <<resolution, source, copies, isolation, artifact, history>>

\* collect, apply
Collect(p) ==
    /\ On(p, "collect")
    /\ LET c == proc[p]
       IN  \E package \in c.todo :
             LET place == c.view[package]
             IN  Goes(p, IF ~Exists(place) \/ ~Applies(c.layer, ContentAt(place, package))
                         THEN Failed(c)
                         ELSE [c EXCEPT !.pc = IF c.todo = {package} THEN "publish" ELSE "collect",
                                        !.todo = @ \ {package},
                                        !.tree = [q \in DOMAIN @ \cup {package} |->
                                                   IF q \in DOMAIN @ THEN @[q]
                                                   ELSE Patched(c.layer, ContentAt(place, q))]])
    /\ UNCHANGED <<resolution, source, copies, selector, isolation, artifact, history>>

Mine(p) == Copy(proc[p].layer, proc[p].tree)

\* publish: an existing copy is only validated, ...
Publish(p) ==
    /\ On(p, "publish")
    /\ Goes(p, [proc[p] EXCEPT !.pc = IF Mine(p) \in DOMAIN copies THEN "validate" ELSE "rename"])
    /\ UNCHANGED <<resolution, source, copies, selector, isolation, artifact, history>>

\* Mutant of Rename: that another was faster is an error.
RenameRefused(p) ==
    /\ On(p, "rename")
    /\ IF Mine(p) \in DOMAIN copies THEN Goes(p, Failed(proc[p])) /\ UNCHANGED copies
       ELSE /\ copies' = [copy \in DOMAIN copies \cup {Mine(p)} |->
                            IF copy \in DOMAIN copies THEN copies[copy] ELSE copy.tree]
            /\ Goes(p, [proc[p] EXCEPT !.pc = "validate"])
    /\ UNCHANGED <<resolution, source, selector, isolation, artifact, history>>
\* Mutant of Rename: the files are written in place, one after the other.
RenameInPlace(p) ==
    /\ On(p, "rename")
    /\ copies' = [copy \in DOMAIN copies \cup {Mine(p)} |->
                    IF copy \in DOMAIN copies THEN copies[copy]
                    ELSE Restrict(copy.tree, {"runner"})]
    /\ Goes(p, [proc[p] EXCEPT !.pc = "validate"])
    /\ UNCHANGED <<resolution, source, selector, isolation, artifact, history>>
\* ... a new one is completed aside; whoever renames first has published it.
Rename(p) ==
    /\ On(p, "rename")
    /\ copies' = [copy \in DOMAIN copies \cup {Mine(p)} |->
                    IF copy \in DOMAIN copies THEN copies[copy] ELSE copy.tree]
    /\ Goes(p, [proc[p] EXCEPT !.pc = "validate"])
    /\ UNCHANGED <<resolution, source, selector, isolation, artifact, history>>

Validate(p) ==
    /\ On(p, "validate")
    /\ Goes(p, IF Mine(p) \in DOMAIN copies /\ copies[Mine(p)] = proc[p].tree
               THEN [proc[p] EXCEPT !.pc = "select"] ELSE Failed(proc[p]))
    /\ UNCHANGED <<resolution, source, copies, selector, isolation, artifact, history>>

\* publish_config_at: written only if it differs
Select(p) ==
    /\ On(p, "select")
    /\ LET c == proc[p]
           view == [q \in Packages |-> IF q \in DOMAIN c.tree THEN Mine(p) ELSE c.view[q]]
           chosen == [c EXCEPT !.view = view]
           next == IF c.layer = "compat" THEN Leave(chosen, "compat")
                   ELSE [chosen EXCEPT !.pc = "stamp"]
       IN  /\ selector' = [selector EXCEPT ![c.layer] = view]
           /\ IF selector[c.layer] = view \/ c.layer = "compat"
              THEN Goes(p, next) /\ UNCHANGED isolation
              ELSE /\ proc' = [q \in Commands |->
                                 Forget(Selector, IF q = p THEN next ELSE proc[q])]
                   /\ isolation' = ForgetIsolation(Selector)
    /\ UNCHANGED <<resolution, source, copies, artifact, history>>

----------------------------------------------------------------------------
(* compile_isolation::prepare; its receipt                                   *)

\* Mutant of ReceiptReusable: the copies and the selector are not looked at.
ReceiptReusableInput(input) ==
    isolation # Absent /\ isolation.input = input /\ isolation.sources = Places(input)
\* Stamps that changed never return: those found unchanged were so at once.
ReceiptReusable(input) ==
    /\ isolation # Absent
    /\ isolation.input = input
    /\ isolation.sources = Places(input)
    /\ isolation.outputs = {isolation.copy, Selector}

Reuse(p) ==
    /\ On(p, "reuse")
    /\ LET c == proc[p]
       IN  Goes(p, IF ReceiptReusable(c.input) THEN [c EXCEPT !.pc = "load", !.layer = "isolated"]
                   ELSE [Collecting("isolated", Packages, c) EXCEPT
                           !.before = IF \A place \in Places(c.input) : Exists(place)
                                      THEN Places(c.input) ELSE {}])
    /\ UNCHANGED <<resolution, source, copies, selector, isolation, artifact, history>>

StampOutputs(p) ==
    /\ On(p, "stamp")
    /\ Goes(p, [proc[p] EXCEPT !.pc = "mint",
                               !.outputs = {place \in {Mine(p), Selector} :
                                              place = Selector \/ place \in DOMAIN copies}])
    /\ UNCHANGED <<resolution, source, copies, selector, isolation, artifact, history>>

\* Mutant of Mintable: the stamps of the sources are not checked again.
MintableUnchecked(p) ==
    LET c == proc[p]
    IN  /\ Mine(p) \in DOMAIN copies /\ copies[Mine(p)] = c.tree
        /\ selector["isolated"] = c.view
        /\ c.outputs = {Mine(p), Selector}
\* validation::save: the bytes are what was published, and no stamp has changed.
Mintable(p) ==
    LET c == proc[p]
    IN  /\ Mine(p) \in DOMAIN copies /\ copies[Mine(p)] = c.tree
        /\ selector["isolated"] = c.view
        /\ c.before = Places(c.input)
        /\ c.outputs = {Mine(p), Selector}

Mint(p) ==
    /\ On(p, "mint")
    /\ isolation' = IF Mintable(p)
                    THEN [input |-> proc[p].input, copy |-> Mine(p),
                          sources |-> Places(proc[p].input), outputs |-> {Mine(p), Selector},
                          missed |-> proc[p].missed]
                    ELSE isolation
    /\ Goes(p, [proc[p] EXCEPT !.pc = "load", !.before = {}, !.outputs = {}, !.missed = {}])
    /\ UNCHANGED <<resolution, source, copies, selector, artifact, history>>

----------------------------------------------------------------------------
(* Workspace::load, and the compile for it                                   *)

(* The compiler's packages are read where prepare says they are, those of    *)
(* the builders from the application's configuration, the lock file later.   *)
LoadWorkspace(p) ==
    /\ On(p, "load")
    /\ LET layer == proc[p].layer
           view == IF layer = Absent THEN resolution ELSE selector[layer]
       IN  Goes(p, IF view = Absent THEN Failed(proc[p])
                   ELSE [Resting EXCEPT !.pc = "key", !.mode = proc[p].mode,
                                        !.packages = view, !.dirs = resolution])
    /\ UNCHANGED <<resolution, source, copies, selector, isolation, artifact, history>>

\* stable_package_config_identity names the isolated copy, but no directory.
Identity(view) ==
    IF view["analyzer"] \in Dirs THEN Absent ELSE view["analyzer"]

\* aot_cache_key, builder_manifest_fingerprint; the lock file records the resolution.
Key(p) ==
    /\ On(p, "key")
    /\ Goes(p, [proc[p] EXCEPT !.pc = "check",
         !.key = [identity |-> Identity(proc[p].packages), lock |-> resolution,
                  specs |-> [q \in Packages |-> Pubspec[source[proc[p].dirs[q]]]]]])
    /\ UNCHANGED <<resolution, source, copies, selector, isolation, artifact, history>>

\* runner_compatibility::package_config
Selected(mode) ==
    IF mode = "isolated" /\ selector["isolated"] # Absent THEN selector["isolated"]
    ELSE IF selector["compat"] # Absent THEN selector["compat"] ELSE resolution

\* Mutant of DependencyKey: copies are files of the workspace like others.
DependencyKeyOfCopies(place, package, packages) ==
    IF place \in Inside \/ place \notin Dirs THEN ByPlace(place)
    ELSE IF place = packages[package] THEN ByPackage(package) ELSE Absent
\* logical_dependency_key: by place in the workspace, else by package.
DependencyKey(place, package, packages) ==
    IF place \in Inside THEN ByPlace(place)
    ELSE IF place = packages[package] THEN ByPackage(package) ELSE Absent

\* resolve_logical_dependency
PlaceOf(key, packages) == IF key.by = "package" THEN packages[key.of] ELSE key.of

\* aot_metadata_is_current
Acceptable(p) ==
    /\ artifact # Absent /\ artifact.key = proc[p].key
    /\ \A package \in Packages :
         LET place == PlaceOf(artifact.keys[package], proc[p].packages)
         IN  Exists(place) /\ ContentAt(place, package) = artifact.compiled[package]

Check(p) ==
    /\ On(p, "check")
    /\ Goes(p, IF Acceptable(p) THEN Resting ELSE [proc[p] EXCEPT !.pc = "compile"])
    /\ UNCHANGED <<resolution, source, copies, selector, isolation, artifact, history>>

(* compile_worker_aot, build_aot_metadata.  That sources are edited during   *)
(* the compile is WorkerArtifact's subject.                                  *)
Compile(p) ==
    /\ On(p, "compile")
    /\ LET c == proc[p]
           view == Selected(c.mode)
           keys == [q \in Packages |-> DependencyKey(view[q], q, c.packages)]
       IN  IF \A q \in Packages : Exists(view[q]) /\ keys[q] # Absent
           THEN /\ artifact' = [key |-> c.key, keys |-> keys,
                                compiled |-> [q \in Packages |-> ContentAt(view[q], q)]]
                /\ Goes(p, Resting)
           ELSE Goes(p, Failed(c)) /\ UNCHANGED artifact
    /\ UNCHANGED <<resolution, source, copies, selector, isolation, history>>

CompilerNext ==
    \/ Resolve
    \/ \E d \in Dirs : Edit(d)
    \/ \E copy \in DOMAIN copies : Damage(copy) \/ RemoveCopy(copy)
    \/ \E p \in Commands :
         \/ Abandon(p) \/ Begin(p) \/ Version(p) \/ Drop(p) \/ Collect(p) \/ Publish(p)
         \/ Rename(p) \/ Validate(p) \/ Select(p) \/ Reuse(p) \/ StampOutputs(p) \/ Mint(p)
         \/ LoadWorkspace(p) \/ Key(p) \/ Check(p) \/ Compile(p)

CompilerSpec == CompilerInit /\ [][CompilerNext]_compilerVars

----------------------------------------------------------------------------
(* What is promised                                                          *)

CompilerTypeOK ==
    /\ resolution \in Resolutions
    /\ source \in [Dirs -> Texts]
    /\ DOMAIN copies \subseteq Copies
    /\ selector \in [Layers -> Views \cup {Absent}]
    /\ isolation # Absent => isolation.input \in Views /\ isolation.copy \in Copies
    /\ artifact # Absent => DOMAIN artifact.keys = Packages
    /\ history.changes \in 0..MaxChanges /\ history.faults \in 0..MaxFaults

(* What is at a path that names a copy has every package of the copy, also   *)
(* while several commands publish it and are killed: a path is either absent *)
(* or complete (runner_compatibility::publish).                              *)
CopiesWhole == \A copy \in DOMAIN copies : DOMAIN copies[copy] = DOMAIN copy.tree

(* A receipt that would be reused stands for what preparing again would      *)
(* give: the selector selects one complete copy, and the copy is made from   *)
(* what the sources are now (compile_isolation.rs, validation::reuse and     *)
(* validation::save).  The exception is a place written over, at the same    *)
(* length, in the very tick of the write that its recorded stamp is of.      *)
ReceiptTrue ==
    \A input \in {proc[p].input : p \in {q \in Commands : On(q, "reuse")}} :
        ReceiptReusable(input) /\ isolation.missed = {} =>
            LET tree == [q \in Packages |-> Patched("isolated", ContentAt(input[q], q))]
                copy == Copy("isolated", tree)
            IN  /\ copy \in DOMAIN copies /\ copies[copy] = tree
                /\ selector["isolated"] = [q \in Packages |-> copy]

(* compile_isolation.rs:212: "A racing source/copy edit must never mint a    *)
(* reusable receipt": what a receipt is minted of are the sources there are. *)
RacingEditNeverMints ==
    \A p \in Commands : On(p, "mint") /\ Mintable(p) =>
        \A q \in Packages : proc[p].tree[q] = Patched("isolated", ContentAt(proc[p].input[q], q))

(* A worker is accepted for a workspace only if it was compiled from what    *)
(* the workspace's compiler packages hold, although the selectors may have   *)
(* changed between the load and the compile (runner_compatibility::prepare,  *)
(* Workspace::logical_dependency_key).  The exception is a package that the  *)
(* worker was compiled with from a directory inside the workspace: that is   *)
(* recorded by its place, wherever the package is now, except by workers of  *)
(* isolated copies and for them.                                             *)
CompiledInside(q) == \E d \in Inside : artifact.keys[q] = ByPlace(d)
CompiledAsLoaded ==
    \A p \in Commands : On(p, "check") /\ Acceptable(p) =>
        LET packages == proc[p].packages
        IN  \A q \in Packages :
              \/ CompiledInside(q) /\ packages["analyzer"] \in Dirs
              \/ Exists(packages[q]) /\ artifact.compiled[q] = ContentAt(packages[q], q)

(* Commands of either mode that prepare the same resolution at once do not   *)
(* make each other fail (runner_compatibility::publish and                   *)
(* publish_config_at: concurrent prewarm).                                   *)
NoneInTheWay ==
    history.changes = 0 /\ history.faults = 0
    /\ (\A d \in Dirs : source[d] \notin Alien)
        => \A p \in Commands : ~On(p, "failed")
================================================================================
