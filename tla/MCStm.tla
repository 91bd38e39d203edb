------------------------------- MODULE MCStm -------------------------------
(* Small instances of Stm. *)
EXTENDS Stm

CONSTANTS m1, c1, c2, p1, p2

Symmetry == Permutations(Callers)
=============================================================================
