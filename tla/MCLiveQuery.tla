---------------------------- MODULE MCLiveQuery ----------------------------
(* A small instance of LiveQuery. *)
EXTENDS LiveQuery

CONSTANTS d1, d2

\* Two queries: documents are in the first, in both, in the second, in none.
\* The second one accepts what is not there, as notEquals does.
Overlapping == <<{1, 2}, {2, 3, Absent}>>

\* One document has it all; the other one only moves between the queries.
KindsOf == [d \in Docs |-> IF d = d1 THEN {"set", "push", "del"} ELSE {"set"}]
OwnKindsOf == [d \in Docs |-> IF d = d1 THEN {"set", "del"} ELSE {}]
=============================================================================
