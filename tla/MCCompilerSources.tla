--------------------------- MODULE MCCompilerSources ---------------------------
(* A small instance of CompilerSources: the runner is resolved to a legacy   *)
(* release at first, and perhaps to a modern one later.                      *)
EXTENDS CompilerSources, TLC

CONSTANTS old, new, analyzer, fork, legacy, modern, forked

Choices == {[runner |-> d, analyzer |-> analyzer] : d \in {old, new}}
AtFirst == [runner |-> old, analyzer |-> analyzer]
Releases == [d \in Dirs |-> IF d = old THEN legacy ELSE IF d = fork THEN forked ELSE modern]
\* Or the analyzer is replaced by a fork of it.
Forks == {[runner |-> old, analyzer |-> d] : d \in {analyzer, fork}}
\* The forked analyzer says so in its pubspec.
Specs == [c \in Texts |-> IF c = forked THEN forked ELSE modern]
Symmetry == Permutations(Commands)
================================================================================
