----------------------- MODULE SerializedStreamProofs -----------------------
(***************************************************************************)
(* For any set of messages and any number of them: a Serializer hands over *)
(* what was sent, in order, once.                                          *)
(***************************************************************************)
EXTENDS SerializedStream, TLAPS

\* InOrder alone is not inductive: that the draining loop hands on the right
\* messages needs what KeepsOnlyAhead says of _pending, and TypeOK the bounds.
IInv == TypeOK /\ InOrder /\ KeepsOnlyAhead

\* Where add leaves _index: unchanged, or past the message and all that the
\* loop found without a break.
LEMMA StopsBounds ==
  ASSUME NEW n \in Nat, NEW s, s.index \in Nat,
         NEW stop \in Stops(s, n)
  PROVE  IF n # s.index
         THEN stop = s.index
         ELSE /\ stop \in Nat
              /\ stop > n
              /\ \A k \in (n + 1) .. (stop - 1) : k \in Truthy(s.pending)
              /\ stop \notin Truthy(s.pending)
  BY DEF Stops

\* A message that is early or late hands nothing to withEach.
LEMMA HandedNothing ==
  ASSUME NEW n, NEW s, n # s.index, NEW m, NEW stop, NEW S, NEW q \in Seq(S)
  PROVE  q \o Handed(s, m, n, stop) = q
<1>1. Handed(s, m, n, stop) = << >>
  BY DEF Handed
<1> QED  BY <1>1

\* What _pending can be, said of one function.
LEMMA InPendings ==
  ASSUME NEW f
  PROVE  f \in Pendings <=> /\ f = [k \in DOMAIN f |-> f[k]]
                            /\ DOMAIN f \subseteq Numbers
                            /\ \A k \in DOMAIN f : f[k] \in Messages
<1>1. ASSUME f \in Pendings
      PROVE  /\ f = [k \in DOMAIN f |-> f[k]] /\ DOMAIN f \subseteq Numbers
             /\ \A k \in DOMAIN f : f[k] \in Messages
  <2>1. PICK D \in SUBSET Numbers : f \in [D -> Messages]
    BY <1>1 DEF Pendings
  <2> QED  BY <2>1
<1>2. ASSUME f = [k \in DOMAIN f |-> f[k]], DOMAIN f \subseteq Numbers,
             \A k \in DOMAIN f : f[k] \in Messages
      PROVE  f \in Pendings
  <2>1. f \in [DOMAIN f -> Messages]  BY <1>2
  <2> QED  BY <1>2, <2>1 DEF Pendings
<1> QED  BY <1>1, <1>2

\* A new serializer satisfies the invariant.
LEMMA InitIInv == Init => IInv
<1> SUFFICES ASSUME Init PROVE IInv
  OBVIOUS
<1>1. ser = [index |-> 1, pending |-> [n \in {} |-> Null], waiter |-> FALSE]
  BY DEF Init, NewSerializer
<1>2. /\ ser.pending \in Pendings /\ DOMAIN ser.pending = {}
      /\ ser.index = 1 /\ ser.waiter = FALSE
  <2>1. [n \in {} |-> Null] \in [{} -> Messages]  OBVIOUS
  <2>2. {} \in SUBSET Numbers  OBVIOUS
  <2>3. [n \in {} |-> Null] \in Pendings  BY <2>1, <2>2 DEF Pendings
  <2> QED  BY <1>1, <2>3
<1>3. TypeOK
  <2>1. log = << >> /\ wire = {} /\ applied = << >>
    BY DEF Init
  <2>2. log \in Seq(Messages) /\ Len(log) = 0 /\ applied \in Seq(Messages)
    BY <2>1
  <2>3. ser \in [index : 1 .. (MaxSent + 1), pending : Pendings, waiter : BOOLEAN]
    BY <1>1, <1>2, MaxSentAssumption
  <2>4. Len(log) <= MaxSent BY <2>2, MaxSentAssumption
  <2>5. wire \subseteq 1 .. Len(log) BY <2>1
  <2>6. ser.index <= Len(log) + 1 BY <1>2, <2>2
  <2>7. DOMAIN ser.pending \subseteq 1 .. Len(log) BY <1>2
  <2> QED  BY <2>2, <2>3, <2>4, <2>5, <2>6, <2>7 DEF TypeOK
<1> QED
  BY <1>1, <1>3 DEF Init, IInv, InOrder, KeepsOnlyAhead, Truthy

\* Sending a message leaves what the serializer has alone.
LEMMA SendIInv ==
  ASSUME IInv, NEW m \in Messages, Send(m)
  PROVE  IInv'
<1> USE MaxSentAssumption DEF IInv
<1>1. TypeOK'
  <2>1. /\ log' = Append(log, m) /\ wire' = wire \cup {Len(log) + 1}
        /\ UNCHANGED <<ser, applied>> /\ Len(log) < MaxSent
    BY DEF Send
  <2>2. log \in Seq(Messages) /\ Len(log) \in Nat
    BY DEF TypeOK
  <2>3. log' \in Seq(Messages) /\ Len(log') = Len(log) + 1
    BY <2>1, <2>2
  <2>4. Len(log') <= MaxSent /\ wire' \subseteq 1 .. Len(log')
    <3>1. Len(log') <= MaxSent  BY <2>1, <2>2, <2>3
    <3>2. wire \subseteq 1 .. Len(log)  BY DEF TypeOK
    <3>3. ASSUME NEW k \in wire'  PROVE k \in 1 .. Len(log')
      <4>1. CASE k \in wire  BY <2>2, <2>3, <3>2, <4>1
      <4>2. CASE k = Len(log) + 1  BY <2>2, <2>3, <4>2
      <4> QED  BY <2>1, <4>1, <4>2
    <3> QED  BY <3>1, <3>3
  <2>5. ser'.index <= Len(log') + 1 /\ DOMAIN ser'.pending \subseteq 1 .. Len(log')
    BY <2>1, <2>2, <2>3 DEF TypeOK
  <2>6. /\ ser' \in [index : 1 .. (MaxSent + 1), pending : Pendings, waiter : BOOLEAN]
        /\ applied' \in Seq(Messages)
    BY <2>1 DEF TypeOK
  <2> QED  BY <2>3, <2>4, <2>5, <2>6 DEF TypeOK
<1>2. \A n \in 1 .. Len(log) : log'[n] = log[n]
  BY DEF Send, TypeOK
<1>3. InOrder'
  BY <1>2 DEF Send, TypeOK, InOrder
<1>4. KeepsOnlyAhead'
  BY <1>2 DEF Send, TypeOK, KeepsOnlyAhead, Truthy
<1> QED  BY <1>1, <1>3, <1>4

\* The three ways add can go.
LEMMA AddIInv ==
  ASSUME IInv, NEW n \in wire, NEW keep \in BOOLEAN, Add(n, keep)
  PROVE  IInv'
<1> USE MaxSentAssumption DEF IInv
<1>0. PICK stop \in Stops(ser, n) :
        /\ ser' = AfterAdd(ser, log[n], n, stop, TRUE)
        /\ applied' = applied \o Handed(ser, log[n], n, stop)
  BY DEF Add
<1>1. /\ n \in 1 .. Len(log) /\ n \in Nat /\ log[n] \in Messages
      /\ ser.index \in Nat /\ Len(log) \in Nat
  BY DEF TypeOK
<1>2. IF n # ser.index
      THEN stop = ser.index
      ELSE /\ stop \in Nat /\ stop > n
           /\ \A k \in (n + 1) .. (stop - 1) : k \in Truthy(ser.pending)
           /\ stop \notin Truthy(ser.pending)
  BY <1>1, StopsBounds
<1>3. log' = log /\ wire' \subseteq wire
  BY DEF Add
<1>8. /\ log' \in Seq(Messages) /\ Len(log') <= MaxSent
      /\ wire' \subseteq 1 .. Len(log') /\ applied \in Seq(Messages)
  BY <1>3 DEF TypeOK
<1>4. CASE n > ser.index
  <2>1. ser' = [index |-> ser.index,
                pending |-> [k \in DOMAIN ser.pending \cup {n} |->
                               IF k = n THEN log[n] ELSE ser.pending[k]],
                waiter |-> TRUE]
    <3>1. AfterAdd(ser, log[n], n, stop, TRUE) =
            [ser EXCEPT
               !.pending = [k \in DOMAIN ser.pending \cup {n} |->
                              IF k = n THEN log[n] ELSE ser.pending[k]],
               !.waiter = ser.waiter \/ TRUE]
      BY <1>1, <1>4 DEF AfterAdd
    <3> QED  BY <1>0, <3>1 DEF TypeOK
  <2>2. applied' = applied
    <3>1. applied \in Seq(Messages) /\ n # ser.index  BY <1>1, <1>4 DEF TypeOK
    <3> QED  BY <1>0, <3>1, HandedNothing
  <2>3. TypeOK'
    <3>1. /\ ser'.index = ser.index /\ ser'.waiter = TRUE
          /\ DOMAIN ser'.pending = DOMAIN ser.pending \cup {n}
      BY <2>1
    <3>2. ser'.pending \in Pendings
      <4>1. \A k \in DOMAIN ser.pending : k \in Numbers /\ ser.pending[k] \in Messages
        BY InPendings DEF TypeOK
      <4>2. n \in Numbers  BY <1>1 DEF TypeOK, Numbers
      <4>3. \A k \in DOMAIN ser'.pending : k \in Numbers /\ ser'.pending[k] \in Messages
        BY <1>1, <2>1, <4>1, <4>2
      <4>4. ser'.pending = [k \in DOMAIN ser'.pending |-> ser'.pending[k]]
        BY <2>1
      <4> QED  BY <4>3, <4>4, InPendings
    <3>3. ser' \in [index : 1 .. (MaxSent + 1), pending : Pendings, waiter : BOOLEAN]
      BY <2>1, <3>1, <3>2 DEF TypeOK
    <3>4. ser'.index <= Len(log') + 1 /\ DOMAIN ser'.pending \subseteq 1 .. Len(log')
      BY <1>1, <1>3, <3>1 DEF TypeOK
    <3> QED  BY <1>8, <2>2, <3>3, <3>4 DEF TypeOK
  <2>4. InOrder'
    BY <1>3, <2>1, <2>2 DEF InOrder
  <2>5. KeepsOnlyAhead'
    BY <1>1, <1>3, <1>4, <2>1 DEF KeepsOnlyAhead, Truthy, TypeOK
  <2> QED  BY <2>3, <2>4, <2>5
<1>5. CASE n < ser.index
  <2>1. ser' = ser
    BY <1>0, <1>1, <1>5 DEF AfterAdd
  <2>2. applied' = applied
    <3>1. applied \in Seq(Messages) /\ n # ser.index  BY <1>1, <1>5 DEF TypeOK
    <3> QED  BY <1>0, <3>1, HandedNothing
  <2>3. TypeOK'
    <3>1. ser' \in [index : 1 .. (MaxSent + 1), pending : Pendings, waiter : BOOLEAN]
      BY <2>1 DEF TypeOK
    <3>2. ser'.index <= Len(log') + 1 /\ DOMAIN ser'.pending \subseteq 1 .. Len(log')
      BY <1>3, <2>1 DEF TypeOK
    <3> QED  BY <1>8, <2>2, <3>1, <3>2 DEF TypeOK
  <2> QED
    BY <1>3, <2>1, <2>2, <2>3 DEF InOrder, KeepsOnlyAhead, Truthy
<1>6. CASE n = ser.index
  <2>1. ser' = [index |-> stop,
                pending |-> [k \in DOMAIN ser.pending \ ((n + 1) .. (stop - 1)) |->
                               ser.pending[k]],
                waiter |-> FALSE]
    BY <1>0, <1>1, <1>6 DEF AfterAdd
  <2>2. stop \in Nat /\ stop > n
    BY <1>2, <1>6
  <2>3. \A k \in (n + 1) .. (stop - 1) :
           k \in DOMAIN ser.pending /\ ser.pending[k] = log[k]
    BY <1>2, <1>6 DEF KeepsOnlyAhead, Truthy
  <2>4. stop <= Len(log) + 1
    <3>1. CASE stop = n + 1  BY <1>1, <3>1
    <3>2. CASE stop > n + 1
      <4>1. stop - 1 \in (n + 1) .. (stop - 1)  BY <1>1, <2>2, <3>2
      <4> QED  BY <1>1, <2>2, <2>3, <4>1 DEF TypeOK
    <3> QED  BY <1>1, <2>2, <3>1, <3>2
  <2>5. Len(applied) = n - 1 /\ \A i \in 1 .. (n - 1) : applied[i] = log[i]
    BY <1>6 DEF InOrder
  <2> DEFINE tail == [i \in 1 .. (stop - n) |-> log[n + i - 1]]
  <2>6. applied' = applied \o tail
    <3>1. Handed(ser, log[n], n, stop) =
            [i \in 1 .. (stop - n) |->
               IF i = 1 THEN log[n] ELSE ser.pending[n + i - 1]]
      BY <1>6 DEF Handed
    <3>2. \A i \in 1 .. (stop - n) :
            (IF i = 1 THEN log[n] ELSE ser.pending[n + i - 1]) = log[n + i - 1]
      <4> TAKE i \in 1 .. (stop - n)
      <4>1. CASE i = 1  BY <1>1, <4>1
      <4>2. CASE i # 1
        <5>1. n + i - 1 \in (n + 1) .. (stop - 1)  BY <1>1, <2>2, <4>2
        <5> QED  BY <2>3, <4>2, <5>1
      <4> QED  BY <4>1, <4>2
    <3>3. Handed(ser, log[n], n, stop) = tail  BY <3>1, <3>2
    <3> QED  BY <1>0, <3>3
  <2>7. /\ tail \in Seq(Messages) /\ Len(tail) = stop - n
        /\ \A i \in 1 .. (stop - n) : tail[i] = log[n + i - 1]
    <3>1. \A i \in 1 .. (stop - n) : log[n + i - 1] \in Messages
      BY <1>1, <2>2, <2>4 DEF TypeOK
    <3> QED  BY <1>1, <2>2, <3>1
  <2> HIDE DEF tail
  <2>8. applied' \in Seq(Messages) /\ Len(applied') = stop - 1
    <3>1. applied \in Seq(Messages)  BY DEF TypeOK
    <3>2. /\ applied \o tail \in Seq(Messages)
          /\ Len(applied \o tail) = Len(applied) + Len(tail)
      BY <2>7, <3>1
    <3> QED  BY <1>1, <2>2, <2>5, <2>6, <2>7, <3>2
  <2>9. \A i \in 1 .. (stop - 1) : applied'[i] = log[i]
    <3> TAKE i \in 1 .. (stop - 1)
    <3>1. CASE i <= n - 1
      BY <1>1, <2>2, <2>5, <2>6, <2>7, <3>1 DEF TypeOK
    <3>2. CASE i > n - 1
      <4>1. i - (n - 1) \in 1 .. (stop - n)  BY <1>1, <2>2, <3>2
      <4>2. applied'[i] = tail[i - (n - 1)]
        <5>1. applied \in Seq(Messages) /\ i \in (n - 1) + 1 .. (n - 1) + (stop - n)
          BY <1>1, <2>2, <3>2 DEF TypeOK
        <5> QED  BY <1>1, <2>2, <2>5, <2>6, <2>7, <3>2, <5>1
      <4> QED  BY <1>1, <2>2, <2>7, <4>1, <4>2
    <3> QED  BY <1>1, <2>2, <3>1, <3>2
  <2>10. TypeOK'
    <3>1. /\ ser'.index = stop /\ ser'.waiter = FALSE
          /\ DOMAIN ser'.pending \subseteq DOMAIN ser.pending
          /\ \A k \in DOMAIN ser'.pending : ser'.pending[k] = ser.pending[k]
          /\ ser'.pending = [k \in DOMAIN ser'.pending |-> ser'.pending[k]]
      BY <2>1
    <3>2. ser'.pending \in Pendings
      <4>1. \A k \in DOMAIN ser.pending : k \in Numbers /\ ser.pending[k] \in Messages
        BY InPendings DEF TypeOK
      <4> QED  BY <3>1, <4>1, InPendings
    <3>3. stop \in 1 .. (MaxSent + 1)
      BY <1>1, <2>2, <2>4 DEF TypeOK
    <3>4. ser' \in [index : 1 .. (MaxSent + 1), pending : Pendings, waiter : BOOLEAN]
      BY <2>1, <3>1, <3>2, <3>3
    <3>5. ser'.index <= Len(log') + 1 /\ DOMAIN ser'.pending \subseteq 1 .. Len(log')
      BY <1>3, <2>4, <3>1 DEF TypeOK
    <3> QED  BY <1>8, <2>8, <3>4, <3>5 DEF TypeOK
  <2>11. InOrder'
    BY <1>3, <2>1, <2>8, <2>9 DEF InOrder
  <2>12. KeepsOnlyAhead'
    <3>1. \A k \in DOMAIN ser'.pending :
             /\ k \in DOMAIN ser.pending /\ k \notin (n + 1) .. (stop - 1)
             /\ ser'.pending[k] = ser.pending[k]
      BY <2>1
    <3>2. ASSUME NEW k \in Truthy(ser'.pending)  PROVE k > ser'.index
      <4>1. k \in Truthy(ser.pending) /\ k \notin (n + 1) .. (stop - 1)
        BY <3>1, <3>2 DEF Truthy
      <4>2. k \in Nat /\ k > n
        BY <4>1, <1>6 DEF KeepsOnlyAhead, Truthy, TypeOK
      <4>3. k # stop
        BY <4>1, <1>2, <1>6
      <4> QED  BY <1>1, <2>1, <2>2, <4>1, <4>2, <4>3
    <3> QED  BY <1>3, <3>1, <3>2 DEF KeepsOnlyAhead
  <2> QED  BY <2>10, <2>11, <2>12
<1> QED  BY <1>1, <1>4, <1>5, <1>6

\* The invariant is inductive.
LEMMA NextIInv == IInv /\ [Next]_vars => IInv'
<1> SUFFICES ASSUME IInv, [Next]_vars PROVE IInv'
  OBVIOUS
<1>1. ASSUME NEW m \in Messages, Send(m)  PROVE IInv'
  BY <1>1, SendIInv
<1>2. ASSUME NEW n \in wire, Lose(n)  PROVE IInv'
  BY <1>2 DEF Lose, IInv, TypeOK, InOrder, KeepsOnlyAhead, Truthy
<1>3. CASE Arrive
  BY <1>3, AddIInv DEF Arrive
<1>4. CASE Timeout
  <2>1. ser' = [ser EXCEPT !.waiter = FALSE]
    BY <1>4 DEF Timeout, Expire
  <2>2. ser'.index = ser.index /\ ser'.pending = ser.pending /\ ser'.waiter = FALSE
    BY <2>1 DEF IInv, TypeOK
  <2>3. TypeOK'
    BY <1>4, <2>1, <2>2 DEF Timeout, IInv, TypeOK
  <2> QED
    BY <1>4, <2>2, <2>3 DEF Timeout, IInv, InOrder, KeepsOnlyAhead, Truthy
<1>5. CASE UNCHANGED vars
  BY <1>5 DEF vars, IInv, TypeOK, InOrder, KeepsOnlyAhead, Truthy
<1> QED  BY <1>1, <1>2, <1>3, <1>4, <1>5 DEF Next

\* The shape of the state, for every bound (Serializer's fields).
THEOREM StreamTypeOK == Spec => []TypeOK
<1>1. IInv => TypeOK  BY DEF IInv
<1> QED  BY <1>1, InitIInv, NextIInv, PTL DEF Spec

\* withEach sees the messages below _index, in order, each once.
THEOREM StreamInOrder == Spec => []InOrder
<1>1. IInv => InOrder  BY DEF IInv
<1> QED  BY <1>1, InitIInv, NextIInv, PTL DEF Spec

\* _pending never holds a truthy message whose turn has passed.
THEOREM StreamKeepsOnlyAhead == Spec => []KeepsOnlyAhead
<1>1. IInv => KeepsOnlyAhead  BY DEF IInv
<1> QED  BY <1>1, InitIInv, NextIInv, PTL DEF Spec

-----------------------------------------------------------------------------
\* A sequence whose elements are the first ones of q is a prefix of q.
LEMMA PrefixOf ==
  ASSUME NEW S, NEW q \in Seq(S), NEW p \in Seq(S), Len(p) <= Len(q),
         \A i \in 1 .. Len(p) : p[i] = q[i]
  PROVE  p = SubSeq(q, 1, Len(p))
<1>1. Len(p) \in Nat /\ Len(q) \in Nat  OBVIOUS
<1>2. /\ SubSeq(q, 1, Len(p)) \in Seq(S) /\ Len(SubSeq(q, 1, Len(p))) = Len(p)
      /\ \A i \in 1 .. Len(p) : SubSeq(q, 1, Len(p))[i] = q[i]
  BY <1>1
<1> QED  BY <1>1, <1>2

\* _index never moves back.
LEMMA IndexGrows ==
  ASSUME IInv, NEW n \in wire, NEW keep \in BOOLEAN, Add(n, keep)
  PROVE  ser'.index >= ser.index
<1>1. PICK stop \in Stops(ser, n) : ser' = AfterAdd(ser, log[n], n, stop, TRUE)
  BY DEF Add
<1>2. n \in Nat /\ ser.index \in Nat
  BY DEF IInv, TypeOK
<1>3. IF n # ser.index THEN stop = ser.index ELSE stop \in Nat /\ stop > n
  BY <1>2, StopsBounds
<1>4. CASE n > ser.index
  <2>1. ser' = [ser EXCEPT
                  !.pending = [k \in DOMAIN ser.pending \cup {n} |->
                                 IF k = n THEN log[n] ELSE ser.pending[k]],
                  !.waiter  = ser.waiter \/ TRUE]
    BY <1>1, <1>2, <1>4 DEF AfterAdd
  <2>2. ser'.index = ser.index
    BY <2>1 DEF IInv, TypeOK
  <2> QED  BY <1>2, <2>2
<1>5. CASE n < ser.index
  BY <1>1, <1>2, <1>5 DEF AfterAdd
<1>6. CASE n = ser.index
  <2>1. ser'.index = stop
    BY <1>1, <1>2, <1>6 DEF AfterAdd
  <2> QED  BY <1>2, <1>3, <1>6, <2>1
<1> QED  BY <1>2, <1>4, <1>5, <1>6

\* add is a Deliver of OrderedDelivery, or nothing of it.
LEMMA AddDelivers ==
  ASSUME IInv, NEW n \in wire, NEW keep \in BOOLEAN, Add(n, keep)
  PROVE  Ordered!Deliver \/ UNCHANGED <<log, applied>>
<1>1. IInv' /\ log' = log
  BY AddIInv DEF Add
<1>2. /\ applied' \in Seq(Messages) /\ applied \in Seq(Messages)
      /\ log \in Seq(Messages)
      /\ ser.index \in Nat /\ ser'.index \in Nat
      /\ ser.index <= Len(log) + 1 /\ ser'.index <= Len(log) + 1
  BY <1>1 DEF IInv, TypeOK
<1>3. /\ Len(applied) = ser.index - 1 /\ Len(applied') = ser'.index - 1
      /\ \A i \in 1 .. Len(applied) : applied[i] = log[i]
      /\ \A i \in 1 .. Len(applied') : applied'[i] = log[i]
  BY <1>1 DEF IInv, InOrder
<1>4. Len(applied') >= Len(applied) /\ Len(applied') <= Len(log)
  BY <1>2, <1>3, IndexGrows
<1>5. applied' = SubSeq(log, 1, Len(applied'))
  BY <1>2, <1>3, <1>4, PrefixOf
<1>6. CASE Len(applied') = Len(applied)
  <2>1. applied = SubSeq(log, 1, Len(applied))
    BY <1>2, <1>3, <1>4, <1>6, PrefixOf
  <2> QED  BY <1>1, <1>5, <1>6, <2>1
<1>7. CASE Len(applied') > Len(applied)
  <2>1. Len(applied') \in (Len(applied) + 1) .. Len(log)
    BY <1>2, <1>4, <1>7
  <2> QED  BY <1>1, <1>5, <2>1 DEF Ordered!Deliver
<1> QED  BY <1>2, <1>4, <1>6, <1>7

\* The serializer implements ordered delivery: whatever the stream does, its
\* owner sees the steps of a stream that delivers in order and exactly once.
THEOREM StreamImplementsOrdered == Spec => ImplementsOrdered
<1>1. Init => Ordered!Init
  BY DEF Init, Ordered!Init
<1>2. ASSUME IInv, [Next]_vars  PROVE [Ordered!Next]_(Ordered!vars)
  <2> USE DEF Ordered!Next, Ordered!vars
  <2>1. ASSUME NEW m \in Messages, Send(m)  PROVE Ordered!Send
    BY <2>1 DEF Send, Ordered!Send
  <2>2. ASSUME NEW n \in wire, Lose(n)  PROVE UNCHANGED <<log, applied>>
    BY <2>2 DEF Lose
  <2>3. CASE Arrive
    BY <1>2, <2>3, AddDelivers DEF Arrive
  <2>4. CASE Timeout
    BY <2>4 DEF Timeout
  <2>5. CASE UNCHANGED vars
    BY <2>5 DEF vars
  <2> QED  BY <1>2, <2>1, <2>2, <2>3, <2>4, <2>5 DEF Next
<1> QED
  BY <1>1, <1>2, InitIInv, NextIInv, PTL DEF Spec, ImplementsOrdered, Ordered!Spec
=============================================================================
