------------------------------- MODULE MCRefs -------------------------------
(* Refs for TLC. *)
EXTENDS Refs, TLC

Symmetry == Permutations(Ids) \cup Permutations(Contents)
=============================================================================
