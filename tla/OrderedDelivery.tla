--------------------------- MODULE OrderedDelivery ---------------------------
(***************************************************************************)
(* What a Serializer promises to the code that owns it: whatever order the *)
(* messages arrive in, withEach sees message 1, then 2, then 3, each with  *)
(* the content its sender gave it, none twice and none left out.           *)
(***************************************************************************)
EXTENDS Naturals, Sequences

CONSTANT Contents

VARIABLES
  log,        \* log[n]: the content of message n, in the order of sending
  applied     \* what withEach was called with so far

vars == <<log, applied>>

Init == log = << >> /\ applied = << >>

Send == \E m \in Contents : log' = Append(log, m) /\ UNCHANGED applied

\* One call of add may hand over several messages, never one out of turn.
Deliver ==
  \E n \in (Len(applied) + 1) .. Len(log) :
     /\ applied' = SubSeq(log, 1, n)
     /\ UNCHANGED log

Next == Send \/ Deliver

Spec == Init /\ [][Next]_vars
==============================================================================
