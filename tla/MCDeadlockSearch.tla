-------------------------- MODULE MCDeadlockSearch --------------------------
(* DeadlockSearch with interchangeable transactions and entries. *)
EXTENDS DeadlockSearch, TLC

Symmetry == Permutations(XID) \cup Permutations(UID)
=============================================================================
