-------------------------- MODULE SerializedStream --------------------------
(***************************************************************************)
(* A Serializer at the end of a stream that reorders, repeats and loses    *)
(* numbered messages, as the header of src/lib/Serializer.js describes it  *)
(* and test/Serializer.mocha.coffee exercises it.  The serializer here has *)
(* an onTimeout; what the owner does on a timeout is the owner's business  *)
(* (module TxnSync): here the expiry only clears the timer.                *)
(***************************************************************************)
EXTENDS Serializer

CONSTANTS
  Messages,       \* what can be sent; Null may be one of them
  MaxSent         \* how many messages the sender numbers

ASSUME MaxSentAssumption == MaxSent \in Nat

VARIABLES
  log,            \* log[n]: the message sent under number n
  wire,           \* numbers whose message can still arrive
  ser,            \* the serializer
  applied         \* the messages withEach was called with, in order

vars == <<log, wire, ser, applied>>

Init ==
  /\ log = << >>
  /\ wire = {}
  /\ ser = NewSerializer(1)
  /\ applied = << >>

\* The environment: messages are numbered from 1 in the order they are sent.
Send(m) ==
  /\ Len(log) < MaxSent
  /\ log' = Append(log, m)
  /\ wire' = wire \cup {Len(log) + 1}
  /\ UNCHANGED <<ser, applied>>

Lose(n) ==
  /\ n \in wire
  /\ wire' = wire \ {n}
  /\ UNCHANGED <<log, ser, applied>>

\* add(log[n], n), after which the stream may repeat the message (keep).
Add(n, keep) ==
  /\ n \in wire
  /\ \E stop \in Stops(ser, n) :
        /\ ser' = AfterAdd(ser, log[n], n, stop, TRUE)
        /\ applied' = applied \o Handed(ser, log[n], n, stop)
  /\ wire' = IF keep THEN wire ELSE wire \ {n}
  /\ UNCHANGED log

\* The expiry of the waiter.
Timeout ==
  /\ ser.waiter
  /\ ser' = Expire(ser)
  /\ UNCHANGED <<log, wire, applied>>

Arrive == \E n \in wire, keep \in BOOLEAN : Add(n, keep)

Next ==
  \/ \E m \in Messages : Send(m)
  \/ \E n \in wire : Lose(n)
  \/ Arrive
  \/ Timeout

Spec == Init /\ [][Next]_vars

\* What the stream did not lose arrives in the end, and stops being repeated.
FairSpec == Spec /\ \A n \in 1 .. MaxSent : WF_vars(Add(n, FALSE))

-----------------------------------------------------------------------------
Numbers == 1 .. MaxSent

\* What _pending can be: a map from some numbers to messages.
Pendings == UNION {[D -> Messages] : D \in SUBSET Numbers}

TypeOK ==
  /\ log \in Seq(Messages)
  /\ Len(log) <= MaxSent
  /\ wire \subseteq 1 .. Len(log)
  /\ ser \in [index : 1 .. (MaxSent + 1), pending : Pendings, waiter : BOOLEAN]
  /\ ser.index <= Len(log) + 1
  /\ DOMAIN ser.pending \subseteq 1 .. Len(log)
  /\ applied \in Seq(Messages)

\* Whatever order the messages come in, withEach has been called with the
\* messages below _index, in the order of their numbers, each exactly once.
InOrder ==
  /\ Len(applied) = ser.index - 1
  /\ \A n \in 1 .. Len(applied) : applied[n] = log[n]

\* What the serializer keeps is what the sender sent, and once add returned
\* nothing truthy is left at or below _index: what could be handed on was, and
\* nothing stale stays behind to be handed on later.
KeepsOnlyAhead ==
  /\ \A n \in DOMAIN ser.pending : ser.pending[n] = log[n]
  /\ \A n \in Truthy(ser.pending) : n > ser.index

\* None of the first n messages is lost or null.
Intact(n) ==
  \A k \in 1 .. n : /\ k \in wire \cup (1 .. (ser.index - 1)) \cup DOMAIN ser.pending
                    /\ log[k] # Null

\* A message is handed over in the end if none up to it is lost or null: no
\* order of arrival leaves one behind in _pending.
AllApplied ==
  \A n \in 1 .. MaxSent :
     (Len(log) >= n) ~> (Len(applied) >= n \/ ~Intact(n))

\* The detailed serializer implements ordered delivery.
Ordered == INSTANCE OrderedDelivery WITH Contents <- Messages
ImplementsOrdered == Ordered!Spec
=============================================================================
