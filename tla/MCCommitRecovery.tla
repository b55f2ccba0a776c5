---------------------------- MODULE MCCommitRecovery ----------------------------
(* Instances of CommitRecovery for TLC: one cached output and one source. *)
EXTENDS CommitRecovery
=============================================================================
