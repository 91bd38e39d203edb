------------------------------ MODULE OtField ------------------------------
(***************************************************************************)
(* One text that several browsers edit at once (src/lib/ot).  A client     *)
(* applies what its user does at once, keeps one operation in flight and   *)
(* composes the others behind it; the store's field puts operations in one *)
(* order, transforms a late one past what it missed, and publishes it.     *)
(*                                                                         *)
(* A text is a sequence of characters, an operation a list of components   *)
(* that insert or delete one character at a position (share's text type,   *)
(* which is not under src, is modelled from these uses).  The database     *)
(* answers within the call, so that an operation is applied in the order   *)
(* of its arrival: process.nextTick and applyQueue keep that order.        *)
(***************************************************************************)
EXTENDS Integers, Sequences, FiniteSets, SequencesExt

CONSTANTS
  Clients,
  Present,       \* clients that are connected before the first operation
  Typists,       \* clients whose users edit the text
  Owner,         \* the client whose model.ot() made the text
  InitText,      \* the text that was made
  MaxOps         \* bound on the number of operations

ASSUME ClientsAssumption == Present \cup Typists \subseteq Clients /\ Owner \in Present
ASSUME TextAssumption == InitText \in Seq(Nat) /\ MaxOps \in Nat

VARIABLES
  text, ops,     \* the store's field: snapshot, and ops (its version is Len(ops))
  c2s, s2c,
  status,        \* "absent", "loaded" (bundled, without a connection), "online"
  field,         \* the clients' fields
  issued,        \* operations made so far; a new character is its number
  gap            \* history: clients that connected after missing an operation

vars == <<text, ops, c2s, s2c, status, field, issued, gap>>

Version == Len(ops)

-----------------------------------------------------------------------------
\* The text type.

Chars == Nat
Components == [kind : {"i", "d"}, p : Nat, c : Chars]

ApplyC(s, c) == IF c.kind = "i" THEN InsertAt(s, c.p + 1, c.c) ELSE RemoveAt(s, c.p + 1)

\* Applying a deletion throws if the text does not have what it deletes.
Fits(s, c) == IF c.kind = "i" THEN c.p <= Len(s)
                              ELSE c.p < Len(s) /\ s[c.p + 1] = c.c

\* type.apply; a component that does not fit makes it throw: <<>> and FALSE.
Try(s, op) ==
  FoldLeft(LAMBDA r, c : IF r.ok /\ Fits(r.s, c) THEN [s |-> ApplyC(r.s, c), ok |-> TRUE]
                                                 ELSE [s |-> r.s, ok |-> FALSE],
           [s |-> s, ok |-> TRUE], op)
ApplyOp(s, op) == Try(s, op).s

\* The component a as it is after b was applied; an insertion at the place of
\* another stays on its left or goes to its right.
Shift(a, b, side) ==
  LET after == IF a.kind = "i" /\ b.kind = "i"
               THEN b.p < a.p \/ (b.p = a.p /\ side = "right")
               ELSE IF b.kind = "i" THEN b.p <= a.p ELSE b.p < a.p
  IN IF a.kind = "d" /\ b.kind = "d" /\ a.p = b.p THEN << >>
     ELSE IF ~after THEN <<a>>
     ELSE <<[a EXCEPT !.p = IF b.kind = "i" THEN @ + 1 ELSE @ - 1]>>

\* A component (or nothing) and a list, each transformed past the other.
PastList(left, right, sides) ==
  FoldLeft(LAMBDA r, b :
             IF r.l = << >> THEN [r EXCEPT !.r = Append(@, b)]
             ELSE [l |-> Shift(r.l[1], b, sides[1]), r |-> r.r \o Shift(b, r.l[1], sides[2])],
           [l |-> left, r |-> << >>], right)

\* type.transform of each of two lists past the other.
Both(left, right, sides) ==
  FoldLeft(LAMBDA r, a : LET t == PastList(<<a>>, r.r, sides)
                         IN [l |-> r.l \o t.l, r |-> t.r],
           [l |-> << >>, r |-> right], left)

\* Field.xf: the client's operation is on the left.
Xf(client, server) == Both(client, server, <<"left", "right">>)

\* Mutant of ServerTransform: the store puts the client's operation on the right.
ServerTransformRight(op, v) ==
  FoldLeft(LAMBDA o, done : Both(o, done, <<"right", "left">>).l, op,
           SubSeq(ops, v + 1, Len(ops)))

\* The loop of applyQueue over getOps(opVersion).
ServerTransform(op, v) ==
  FoldLeft(LAMBDA o, done : Both(o, done, <<"left", "right">>).l, op,
           SubSeq(ops, v + 1, Len(ops)))

-----------------------------------------------------------------------------
\* A client's field.  inflight and pending hold one operation or none.

NewField(s, v) ==
  [snapshot |-> s, version |-> v, inflight |-> << >>, pending |-> << >>,
   timer |-> FALSE, trigger |-> FALSE]

\* A field after flush, and what flush emits.  The first flush makes the
\* _specTrigger, which calls flush again if the text is confirmed; any later
\* one goes on, confirmed or not.
FlushSends(f, confirmed) ==
  (f.trigger \/ confirmed) /\ f.inflight = << >> /\ f.pending # << >>

Flush(f, confirmed) ==
  [(IF FlushSends(f, confirmed)
    THEN [f EXCEPT !.inflight = f.pending, !.pending = << >>] ELSE f)
     EXCEPT !.trigger = TRUE]

Sent(f, confirmed) ==
  IF FlushSends(f, confirmed)
  THEN <<[type |-> "otOp", op |-> f.pending[1], v |-> f.version]>> ELSE << >>

\* submitOp: applied at once, composed with what waits, flushed by a timer.
SubmitOp(f, op) ==
  [f EXCEPT !.snapshot = ApplyOp(@, op),
            !.pending = IF @ = << >> THEN <<op>> ELSE <<@[1] \o op>>,
            !.timer = TRUE]

\* Mutant of Remote: the composed operations are left as they are.
RemotePending(f, op) ==
  LET x == Xf(FlattenSeq(f.inflight), op)
  IN [f EXCEPT !.snapshot = ApplyOp(@, x.r), !.version = @ + 1,
               !.inflight = IF @ = << >> THEN @ ELSE <<x.l>>]

\* withEach with a remote operation: transformed past the one in flight, then
\* past those composed behind it.
Remote(f, op) ==
  LET x == Xf(FlattenSeq(f.inflight), op)
      y == Xf(FlattenSeq(f.pending), x.r)
  IN [f EXCEPT !.snapshot = ApplyOp(@, y.r), !.version = @ + 1,
               !.inflight = IF @ = << >> THEN @ ELSE <<x.l>>,
               !.pending  = IF @ = << >> THEN @ ELSE <<y.l>>]

\* withEach with the acknowledgement, before it calls flush.
Acked(f) == [f EXCEPT !.inflight = << >>, !.version = @ + 1]

-----------------------------------------------------------------------------
Online == {c \in Clients : status[c] = "online"}

Init ==
  /\ text = InitText /\ ops = << >>
  /\ c2s = [c \in Clients |-> << >>]
  /\ s2c = [c \in Clients |-> IF c = Owner THEN <<[type |-> "setOk"]>> ELSE << >>]
  /\ status = [c \in Clients |-> IF c \in Present THEN "online" ELSE "absent"]
  /\ field = [c \in Clients |-> NewField(InitText, 0)]
  /\ issued = 0 /\ gap = {}

\* The owner's text is confirmed when its transaction is acknowledged.
Confirmed(c) == \A i \in DOMAIN s2c[c] : s2c[c][i].type # "setOk"

\* The field f of c goes through flush.
Flushed(c, f, msgs) ==
  /\ field' = [field EXCEPT ![c] = Flush(f, Confirmed(c))]
  /\ c2s' = [c2s EXCEPT ![c] = @ \o Sent(f, Confirmed(c))]
  /\ s2c' = [s2c EXCEPT ![c] = msgs]

\* otInsert and otDel of one character.
UserOps(c) ==
  LET s == field[c].snapshot IN
  {<<[kind |-> "i", p |-> p, c |-> issued + 1]>> : p \in 0 .. Len(s)}
    \cup {<<[kind |-> "d", p |-> p, c |-> s[p + 1]]>> : p \in 0 .. Len(s) - 1}

Submit(c) ==
  /\ c \in Typists /\ status[c] # "absent" /\ issued < MaxOps
  /\ \E op \in UserOps(c) : field' = [field EXCEPT ![c] = SubmitOp(@, op)]
  /\ issued' = issued + 1
  /\ UNCHANGED <<text, ops, c2s, s2c, status, gap>>

\* The timer of submitOp.  (A second one before the next submitOp finds
\* nothing to do: one bit stands for all of them.)
Timer(c) ==
  /\ field[c].timer
  /\ Flushed(c, [field[c] EXCEPT !.timer = FALSE], s2c[c])
  /\ UNCHANGED <<text, ops, status, issued, gap>>

\* applyQueue: the operation goes past what it missed and into the text.
Applied(op) == text' = ApplyOp(text, op) /\ ops' = Append(ops, op)

\* What d hears of the operation that c made: otApply acknowledges ...
Answer(c, d) == IF d = c THEN <<[type |-> "ack", v |-> Version]>> ELSE << >>

\* ... and pubSub.on('ot') passes over the socket it came from.
Publication(c, d, op) ==
  IF d \in Online \ {c} THEN <<[type |-> "otOp", op |-> op, v |-> Version]>> ELSE << >>

\* socket.on('otOp') at the store, through the queue of the connection.
ServerOp(c) ==
  /\ status[c] = "online" /\ c2s[c] # << >>
  /\ LET msg == Head(c2s[c])
         op  == ServerTransform(msg.op, msg.v)
     IN /\ Applied(op)
        /\ s2c' = [d \in Clients |-> s2c[d] \o Publication(c, d, op) \o Answer(c, d)]
  /\ c2s' = [c2s EXCEPT ![c] = Tail(@)]
  /\ UNCHANGED <<status, field, issued, gap>>

\* onRemoteOp: an older version is ignored, a newer one makes it throw.
OnRemoteOp(c, msg) ==
  /\ field' = [field EXCEPT ![c] = IF msg.v = @.version THEN Remote(@, msg.op) ELSE @]
  /\ s2c' = [s2c EXCEPT ![c] = Tail(@)]
  /\ UNCHANGED c2s

\* Mutant of OnAck: the next operation waits for the next submitOp.
OnAckWaiting(c, msg) ==
  /\ field' = [field EXCEPT ![c] = IF msg.v = @.version THEN Acked(@) ELSE @]
  /\ s2c' = [s2c EXCEPT ![c] = Tail(@)]
  /\ UNCHANGED c2s

\* The answer to an otOp: a version that is not due waits in the serializer,
\* and onTimeout throws; else the next operation leaves.
OnAck(c, msg) ==
  IF msg.v = field[c].version
  THEN Flushed(c, Acked(field[c]), Tail(s2c[c]))
  ELSE s2c' = [s2c EXCEPT ![c] = Tail(@)] /\ UNCHANGED <<field, c2s>>

\* finish of model.ot(): specTrigger(true)
OnSetOk(c) ==
  /\ field' = [field EXCEPT ![c] = Flush(@, TRUE)]
  /\ c2s' = [c2s EXCEPT ![c] = @ \o Sent(field[c], TRUE)]
  /\ s2c' = [s2c EXCEPT ![c] = Tail(@)]

Receive(c) ==
  /\ s2c[c] # << >>
  /\ LET msg == Head(s2c[c]) IN
     \/ msg.type = "otOp" /\ OnRemoteOp(c, msg)
     \/ msg.type = "ack" /\ OnAck(c, msg)
     \/ msg.type = "setOk" /\ OnSetOk(c)
  /\ UNCHANGED <<text, ops, status, issued, gap>>

\* A page is rendered with the store's field in it (bundle, _loadOt) ...
Load(c) ==
  /\ status[c] = "absent"
  /\ status' = [status EXCEPT ![c] = "loaded"]
  /\ field' = [field EXCEPT ![c] = NewField(text, Version)]
  /\ UNCHANGED <<text, ops, c2s, s2c, issued, gap>>

\* ... and connects; nothing was kept for it meanwhile.
Connect(c) ==
  /\ status[c] = "loaded"
  /\ status' = [status EXCEPT ![c] = "online"]
  /\ gap' = IF field[c].version < Version THEN gap \cup {c} ELSE gap
  /\ UNCHANGED <<text, ops, c2s, s2c, field, issued>>

Next ==
  \E c \in Clients :
    Submit(c) \/ Timer(c) \/ ServerOp(c) \/ Receive(c) \/ Load(c) \/ Connect(c)

Spec == Init /\ [][Next]_vars

-----------------------------------------------------------------------------
Ops == Seq(Components)
AtMostOne(s) == s \in Seq(Ops) /\ Len(s) <= 1

\* Every variable keeps its shape (Field.js:12-24, Field.server.js:10-19).
TypeOK ==
  /\ text \in Seq(Chars) /\ ops \in Seq(Ops)
  /\ \A c \in Clients :
       /\ field[c].snapshot \in Seq(Chars) /\ field[c].version \in Nat
       /\ AtMostOne(field[c].inflight) /\ AtMostOne(field[c].pending)
       /\ \A i \in DOMAIN c2s[c] : c2s[c][i].op \in Ops /\ c2s[c][i].v \in 0 .. Version
  /\ status \in [Clients -> {"absent", "loaded", "online"}]
  /\ issued \in 0 .. MaxOps /\ gap \subseteq Online

InStep == Online \ gap

TextAt(v) == FoldLeft(LAMBDA s, op : ApplyOp(s, op), InitText, SubSeq(ops, 1, v))

\* What a client sees is the store's text at its version with its own
\* unacknowledged operations on top, and each of them still fits: through any
\* interleaving of typing, acknowledgements and remote operations, both sides
\* transform alike and otApply never throws (Field.js:30-39, 107-130).
LocalView ==
  \A c \in InStep :
    LET mine == Try(TextAt(field[c].version),
                    FlattenSeq(field[c].inflight) \o FlattenSeq(field[c].pending))
    IN mine.ok /\ mine.s = field[c].snapshot

\* What comes next for a client that was connected all the time is its next
\* version: neither "Expected version" nor "Invalid version from server" is
\* thrown (Field.js:60-62, 101-103), and an operation that reaches the store
\* fits its text (Field.server.js:28-45).
NeverThrows ==
  /\ \A c \in InStep : s2c[c] # << >> /\ Head(s2c[c]).type # "setOk"
                         => Head(s2c[c]).v = field[c].version
  /\ \A c \in InStep : status[c] = "online" /\ c2s[c] # << >>
                         => Try(text, ServerTransform(Head(c2s[c]).op, Head(c2s[c]).v)).ok

\* When no timer and no message is left, everyone who did not miss an
\* operation has the store's text and nothing left to send: acknowledgements
\* release what was composed behind the operation in flight (Field.js:64-70).
Settled ==
  (\A c \in Clients : ~field[c].timer /\ s2c[c] = << >> /\ (c \in Online => c2s[c] = << >>))
    => \A c \in InStep : /\ field[c].snapshot = text
                         /\ field[c].inflight = << >> /\ field[c].pending = << >>
=============================================================================
