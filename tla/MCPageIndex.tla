---------------------------- MODULE MCPageIndex -----------------------------
(***************************************************************************)
(* PageIndex with interchangeable inserters.  Pages of 14 bytes in classes *)
(* of 3 stand for pages of 8192 in classes of 204.                         *)
(***************************************************************************)
EXTENDS PageIndex, TLC

Inserters == Permutations(Proc)
====
