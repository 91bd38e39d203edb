------------------------------ MODULE MCTxnSync ------------------------------
(* Small instances of TxnSync. *)
EXTENDS TxnSync

CONSTANTS o1, o2, f1, f2, d1, d2

\* Both kinds of writers write both documents.
Placement == (o1 :> d1) @@ (o2 :> d2) @@ (f1 :> d1) @@ (f2 :> d2)
PlacementShort == (o1 :> d1) @@ (f1 :> d1) @@ (f2 :> d2)
PlacementTwo == (o1 :> d1) @@ (f1 :> d2)
=============================================================================
