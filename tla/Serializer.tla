----------------------------- MODULE Serializer -----------------------------
(***************************************************************************)
(* src/lib/Serializer.js: given numbered messages that arrive out of order *)
(* it hands each one to withEach at its turn, and keeps the early ones.    *)
(*                                                                         *)
(* A serializer is a record: the number it waits for (index), the early    *)
(* messages it keeps (pending, a function from numbers to messages), and   *)
(* whether the timer of _setWaiter is running (waiter).  The components    *)
(* that own one (the model's txnApplier, the STM's txnApplier, the OT      *)
(* field's incomingSerializer) use these operators in their own actions.   *)
(***************************************************************************)
EXTENDS Naturals, Sequences, FiniteSets, TLC

CONSTANT Null       \* a falsy message, such as the null txn of query.Model.js

NewSerializer(init) ==
  [index |-> init, pending |-> [n \in {} |-> Null], waiter |-> FALSE]

\* The messages `while (msg = pending[this._index])` goes through: a falsy
\* one ends the loop just like a missing one.
Truthy(pending) == {n \in DOMAIN pending : pending[n] # Null}

\* Mutant of Stops: the draining loop is left out.
StopsUndrained(ser, num) == {IF num = ser.index THEN num + 1 ELSE ser.index}

\* The numbers at which _index can come to rest once add(msg, num) returns.
\* Exactly one: the present one unless the message is the awaited one, and
\* then the first number above it that the draining loop does not find.
Stops(ser, num) ==
  IF num # ser.index
  THEN {ser.index}
  ELSE {stop \in (num + 1) .. (num + 1 + Cardinality(DOMAIN ser.pending)) :
          /\ (num + 1) .. (stop - 1) \subseteq Truthy(ser.pending)
          /\ stop \notin Truthy(ser.pending)}

\* Mutant of AfterAdd: _index goes one too far.
AfterAddTooFar(ser, msg, num, stop, timed) ==
  IF num > ser.index
  THEN [ser EXCEPT !.pending = (num :> msg) @@ ser.pending, !.waiter = ser.waiter \/ timed]
  ELSE [ser EXCEPT !.index = IF num = ser.index THEN stop + 1 ELSE @]

\* Mutant of AfterAdd: what was handed on is not deleted from _pending.
AfterAddKeeping(ser, msg, num, stop, timed) ==
  IF num > ser.index
  THEN [ser EXCEPT !.pending = (num :> msg) @@ ser.pending, !.waiter = ser.waiter \/ timed]
  ELSE [ser EXCEPT !.index = stop, !.waiter = ser.waiter /\ num < ser.index]

\* The serializer once add(msg, num) returned with its index at `stop`.
\* `timed` tells whether it was built with an onTimeout.
AfterAdd(ser, msg, num, stop, timed) ==
  CASE num > ser.index ->
         [ser EXCEPT
            !.pending = [n \in DOMAIN ser.pending \cup {num} |->
                           IF n = num THEN msg ELSE ser.pending[n]],
            !.waiter  = ser.waiter \/ timed]
    [] num < ser.index -> ser
    [] OTHER ->
         [index   |-> stop,
          pending |-> [n \in DOMAIN ser.pending \ ((num + 1) .. (stop - 1)) |->
                         ser.pending[n]],
          waiter  |-> FALSE]

\* Mutant of Handed: an early message goes to withEach at once.
HandedEarly(ser, msg, num, stop) ==
  IF num < ser.index THEN << >>
  ELSE IF num > ser.index THEN <<msg>>
  ELSE [i \in 1 .. (stop - num) |-> IF i = 1 THEN msg ELSE ser.pending[num + i - 1]]

\* Mutant of Handed: a message that came before goes to withEach again.
HandedAgain(ser, msg, num, stop) ==
  IF num < ser.index THEN <<msg>>
  ELSE IF num > ser.index THEN << >>
  ELSE [i \in 1 .. (stop - num) |-> IF i = 1 THEN msg ELSE ser.pending[num + i - 1]]

\* The messages add calls withEach with, in order; they are numbered from num.
Handed(ser, msg, num, stop) ==
  [i \in 1 .. (IF num = ser.index THEN stop - num ELSE 0) |->
     IF i = 1 THEN msg ELSE ser.pending[num + i - 1]]

\* setIndex(index)
SetIndex(ser, index) == [ser EXCEPT !.index = index]

\* clearPending(): forgets only what lies below the current index.
ClearPending(ser) ==
  [ser EXCEPT !.pending = [n \in {m \in DOMAIN ser.pending : m >= ser.index} |->
                             ser.pending[n]]]

\* The timer of _setWaiter fires: onTimeout runs, then _clearWaiter.
Expire(ser) == [ser EXCEPT !.waiter = FALSE]
=============================================================================
