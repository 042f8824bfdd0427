------------------------------ MODULE MCCatalog ------------------------------
(* Catalog for TLC: sessions are interchangeable. *)
EXTENDS Catalog

Sessions == Permutations(Session)
==============================================================================
