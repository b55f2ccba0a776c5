--------------------------- MODULE MCWorkerArtifact ---------------------------
(* Two foreground commands, or one beside a watch or a detached prewarm and  *)
(* the helper it starts.                                                     *)
EXTENDS WorkerArtifact

Foregrounds == [p \in {"build", "rival"} |-> "foreground"]
Helped == [Foregrounds EXCEPT !["rival"] = "watch"]
Detached == [Foregrounds EXCEPT !["rival"] = "detached"]
Pairs == {Foregrounds, Helped, Detached}

\* Another workspace has a dependency as this one may come to have it, and has
\* compiled it as it should or while it was taken back to what this one has.
Ahead == LET ahead == [key |-> 0, dep |-> 1]
         IN  {<<ahead, ahead>>, <<ahead, [ahead EXCEPT !.dep = 0]>>}
=============================================================================
