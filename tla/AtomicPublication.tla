---------------------------- MODULE AtomicPublication ----------------------------
(***************************************************************************)
(* What one native build promises about the package tree (ADR 0040): the   *)
(* output files and the persisted graph change together or not at all,     *)
(* whatever happens to the process that publishes them.                    *)
(***************************************************************************)
CONSTANTS Path,     \* the destinations a build may publish or a user may edit
          Value     \* what a destination may hold, absence included

VARIABLES files,    \* the committed contents of the tree
          evidence  \* what the committed graph records of each destination

vars == <<files, evidence>>

TypeOK == /\ files \in [Path -> Value]
          /\ evidence \in [Path -> Value]

Init == TypeOK /\ evidence = files

\* Override old by the partial function new.
Override(new, old) ==
    [p \in DOMAIN old |-> IF p \in DOMAIN new THEN new[p] ELSE old[p]]

\* One successful build: the same new contents reach files and graph at once.
Publish ==
    \E changed \in SUBSET Path : \E new \in [changed -> Value] :
        /\ files' = Override(new, files)
        /\ evidence' = Override(new, evidence)

\* Someone else rewrites one file; the graph does not follow.
Edit == \E p \in Path, v \in Value :
    /\ files' = [files EXCEPT ![p] = v]
    /\ UNCHANGED evidence

Next == Publish \/ Edit

Spec == Init /\ [][Next]_vars
================================================================================
