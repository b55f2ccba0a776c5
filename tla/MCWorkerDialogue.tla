--------------------------- MODULE MCWorkerDialogue ---------------------------
(* A small instance of WorkerDialogue: an action that may demand one optional *)
(* action or the other, of which the later may demand the earlier; or the    *)
(* same action and a peer of its phase in a plain batch.                     *)
EXTENDS WorkerDialogue

CONSTANTS source, first, second, root, peer

Phases == [a \in {first, second, root, peer} |-> IF a = first THEN 1 ELSE IF a = second THEN 2 ELSE 3]
\* The later action may be made from the earlier one's output, or from a source.
Apart == [a \in {first, second} |-> {}]
Chained == [a \in {first, second} |-> IF a = second THEN {first} ELSE {}]
Runs == {[lazy |-> TRUE, actions |-> <<root>>, rests |-> rests] : rests \in {Apart, Chained}}
        \cup {[lazy |-> FALSE, actions |-> <<root, peer>>, rests |-> Apart]}
Calls == [a \in {first, second, root, peer} |-> IF a \in {root, second} THEN 2 ELSE 1]
Requests == {"read", "find_assets", "resolve_assets"}
================================================================================
