----------------------------- MODULE MCOtField -----------------------------
(* Small instances of OtField. *)
EXTENDS OtField

CONSTANTS a, b, l

\* One character, number 9.
OneChar == <<9>>
=============================================================================
