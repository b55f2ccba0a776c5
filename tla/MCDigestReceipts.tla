--------------------------- MODULE MCDigestReceipts ---------------------------
(* A small instance of DigestReceipts: one file, compared with either        *)
(* content by two processes, on a local disk, on one that keeps whole        *)
(* seconds, or on a remote file system.                                      *)
EXTENDS DigestReceipts, TLC

Metadata == {[f \in Files |-> c] : c \in Contents}
Ticks == [d \in Devices |-> IF d = "disk" THEN 1 ELSE 3]
Symmetry == Permutations(Processes)
================================================================================
