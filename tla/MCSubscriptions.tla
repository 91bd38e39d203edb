--------------------------- MODULE MCSubscriptions ---------------------------
(* Path 1 is reached by its path and by a glob, path 2 by a query. *)
EXTENDS Subscriptions

CONSTANTS a, g, q1, ns, me, o

MCNsOf == [q \in Queries |-> ns]
MCCovers ==
  [t \in Targets |-> IF t \in Patterns THEN {1} ELSE {2}]
=============================================================================
