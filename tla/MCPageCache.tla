---------------------------- MODULE MCPageCache ----------------------------
(* PageCache for TLC. *)
EXTENDS PageCache

MCPages == 1..MaxPages
=============================================================================
