---------------------------- MODULE TxnSyncProofs ----------------------------
(***************************************************************************)
(* Proofs about TxnSync: for any documents, transactions, number of        *)
(* connections and way to reconnect, what the user did is queued or        *)
(* executed, and the confirmed memory never goes back.  A browser that     *)
(* comes back only after the store forgot it catches up.                   *)
(***************************************************************************)
EXTENDS TxnSync, SequenceTheorems, FiniteSetTheorems, WellFoundedInduction, TLAPS

\* What the store tells the model of was executed.
Told ==
  /\ \A i \in DOMAIN buffer : buffer[i].id \in Range(executed)
  /\ \A i \in DOMAIN s2c :
       /\ s2c[i].type \in {"txn", "txnOk"} => s2c[i].id \in Range(executed)
       /\ s2c[i].type = "newTxns" =>
            \A j \in DOMAIN s2c[i].txns : s2c[i].txns[j].id \in Range(executed)
  /\ \A n \in DOMAIN ser.pending : ser.pending[n].id \in Range(executed)

\* The versions that a message brings.
VersIn(msg) ==
  IF msg.type = "newTxns" THEN {msg.txns[j].ver : j \in DOMAIN msg.txns}
  ELSE IF msg.type \in {"txn", "txnOk", "replace"} THEN {msg.ver}
  ELSE {}

\* A snapshot on its way is not older than anything that the model has, keeps or
\* is sent before it.
NoOlderSnapshot ==
  \A l \in DOMAIN s2c : s2c[l].type = "replace" =>
    /\ memVer <= s2c[l].ver
    /\ \A t \in Own : ownVer[t] <= s2c[l].ver
    /\ \A n \in DOMAIN ser.pending : ser.pending[n].ver <= s2c[l].ver
    /\ \A k \in 1 .. l - 1 : \A v \in VersIn(s2c[k]) : v <= s2c[l].ver

\* The txnApplier has the three fields of a serializer, and no other.
SerializerOK == ser = [index |-> ser.index, pending |-> ser.pending, waiter |-> ser.waiter]

IInv == TypeOK /\ SerializerOK /\ NothingForgotten /\ Told /\ NoOlderSnapshot

-----------------------------------------------------------------------------
(* The natural numbers *)

\* A set of numbers has a least one.  (Induction below is by the least number
\* for which a claim fails.)
LEMMA LeastNumber ==
  ASSUME NEW T \in SUBSET Nat, T # {}
  PROVE  \E n \in T : \A m \in T : n <= m
<1> DEFINE R == {ss \in Nat \X Nat : ss[1] < ss[2]}
<1>1. IsWellFoundedOn(R, Nat)
  BY NatLessThanWellFounded DEF OpToRel
<1> HIDE DEF R
<1>2. PICK n \in T : \A m \in T : <<m, n>> \notin R
  BY <1>1, WFMin
<1>3. \A m \in T : ~(m < n)
  BY <1>2 DEF R
<1> QED  BY <1>3

\* A set of numbers up to n has a greatest one.
LEMMA GreatestNumber ==
  ASSUME NEW n \in Nat, NEW T \in SUBSET (1 .. n), T # {}
  PROVE  \E m \in T : \A k \in T : k <= m
<1> DEFINE B == {b \in 0 .. n : \A k \in T : k <= b}
<1>1. n \in B /\ B \in SUBSET Nat /\ B # {}  OBVIOUS
<1>2. PICK b \in B : \A c \in B : b <= c
  <2> HIDE DEF B
  <2> QED  BY <1>1, LeastNumber
<1>3. b \in 0 .. n /\ \A k \in T : k \in 1 .. n /\ k <= b  BY <1>2
<1>4. ASSUME b \notin T PROVE FALSE
  <2>1. PICK k \in T : TRUE  OBVIOUS
  <2>2. b # 0  BY <1>3, <2>1
  <2>3. \A m \in T : m <= b - 1  BY <1>3, <1>4
  <2>4. b - 1 \in B  BY <1>3, <2>2, <2>3
  <2>5. b <= b - 1
    <3> HIDE DEF B
    <3> QED  BY <1>2, <2>4
  <2> QED  BY <1>3, <2>5
<1> QED  BY <1>3, <1>4

-----------------------------------------------------------------------------
(* The queue *)

\* A list without some of its members.
LEMMA LessProperties ==
  ASSUME NEW S, NEW q \in Seq(S), NEW ids
  PROVE  /\ Less(q, ids) \in Seq(S)
         /\ Range(Less(q, ids)) = Range(q) \ ids
<1> DEFINE Step(f, i) == IF i = 0 THEN << >>
                         ELSE IF q[i] \in ids THEN f[i - 1] ELSE Append(f[i - 1], q[i])
           Kept(f, n) == f = [i \in 0 .. n |-> Step(f, i)]
           Bad == {n \in 0 .. Len(q) : ~ \E f : Kept(f, n)}
<1>1. Len(q) \in Nat  OBVIOUS
<1>2. ASSUME Bad # {} PROVE FALSE
  <2>1. PICK n \in Bad : \A m \in Bad : n <= m
    <3>1. Bad \in SUBSET Nat  BY <1>1
    <3> HIDE DEF Bad
    <3> QED  BY <1>2, <3>1, LeastNumber
  <2>2. n \in 0 .. Len(q) /\ ~ \E f : Kept(f, n)  BY <2>1
  <2>3. n # 0
    <3> DEFINE g == [i \in 0 .. 0 |-> << >>]
    <3>1. \A i \in 0 .. 0 : g[i] = Step(g, i)  OBVIOUS
    <3>2. Kept(g, 0)  BY <3>1
    <3> QED  BY <2>2, <3>2
  <2>4. n - 1 \in 0 .. Len(q) /\ n - 1 \notin Bad
    <3>1. n - 1 \in 0 .. Len(q)  BY <1>1, <2>2, <2>3
    <3>2. ~ (n <= n - 1)  BY <2>2
    <3> HIDE DEF Bad
    <3> QED  BY <2>1, <3>1, <3>2
  <2>5. PICK f : Kept(f, n - 1)  BY <2>4
  <2>6. \A i \in 0 .. n - 1 : f[i] = Step(f, i)  BY <2>5
  <2> DEFINE g == [i \in 0 .. n |-> IF i = n THEN Step(f, n) ELSE f[i]]
  <2>7. ASSUME NEW i \in 0 .. n PROVE g[i] = Step(g, i)
    <3>1. g[n] = Step(f, n) /\ \A j \in 0 .. n - 1 : g[j] = f[j]  BY <2>2
    <3>2. i # 0 => i - 1 \in 0 .. n - 1  BY <2>2
    <3>3. Step(g, i) = Step(f, i)  BY <3>1, <3>2
    <3>4. CASE i = n  BY <3>1, <3>3, <3>4
    <3>5. CASE i # n
      <4>1. i \in 0 .. n - 1  BY <2>2, <3>5
      <4> QED  BY <2>6, <3>1, <3>3, <4>1
    <3> QED  BY <3>4, <3>5
  <2>8. Kept(g, n)
    <3> HIDE DEF Step
    <3> QED  BY <2>7
  <2> QED  BY <2>2, <2>8
<1>3. PICK f : Kept(f, Len(q)) /\ Less(q, ids) = f[Len(q)]
  <2>1. \E f : Kept(f, Len(q))  BY <1>1, <1>2
  <2>2. Less(q, ids) = (CHOOSE f : Kept(f, Len(q)))[Len(q)]  BY DEF Less
  <2>3. Kept(CHOOSE f : Kept(f, Len(q)), Len(q))
    <3> HIDE DEF Kept
    <3> QED  BY <2>1
  <2> QED  BY <2>2, <2>3
<1>4. \A i \in 0 .. Len(q) : f[i] = Step(f, i)  BY <1>3
<1> DEFINE Upto(n) == {q[j] : j \in 1 .. n}
           Good(n) == f[n] \in Seq(S) /\ Range(f[n]) = Upto(n) \ ids
           Worse == {n \in 0 .. Len(q) : ~ Good(n)}
<1>5. ASSUME Worse # {} PROVE FALSE
  <2>1. PICK n \in Worse : \A m \in Worse : n <= m
    <3>1. Worse \in SUBSET Nat  BY <1>1
    <3> HIDE DEF Worse
    <3> QED  BY <1>5, <3>1, LeastNumber
  <2>2. n \in 0 .. Len(q) /\ ~ Good(n)  BY <2>1
  <2>3. n # 0
    <3>1. f[0] = << >>  BY <1>1, <1>4
    <3>2. Upto(0) = {}  OBVIOUS
    <3>3. Range(<< >>) = {} /\ << >> \in Seq(S)  BY DEF Range
    <3> HIDE DEF Upto
    <3> QED  BY <2>2, <3>1, <3>2, <3>3
  <2>4. n \in 1 .. Len(q) /\ Good(n - 1)
    <3>1. n \in 1 .. Len(q) /\ n - 1 \in 0 .. Len(q)  BY <1>1, <2>2, <2>3
    <3>2. n - 1 \notin Worse
      <4>1. ~ (n <= n - 1)  BY <2>2
      <4> HIDE DEF Worse
      <4> QED  BY <2>1, <4>1
    <3> QED  BY <3>1, <3>2
  <2>5. Upto(n) = Upto(n - 1) \cup {q[n]}
    <3>1. \A j : j \in 1 .. n <=> j = n \/ j \in 1 .. n - 1  BY <2>2, <2>3
    <3> QED  BY <3>1
  <2>6. f[n] = IF q[n] \in ids THEN f[n - 1] ELSE Append(f[n - 1], q[n])
    BY <1>4, <2>2, <2>3
  <2>7. CASE q[n] \in ids
    <3>1. Upto(n) \ ids = Upto(n - 1) \ ids  BY <2>5, <2>7
    <3>2. f[n] = f[n - 1]  BY <2>6, <2>7
    <3> HIDE DEF Upto
    <3> QED  BY <2>2, <2>4, <3>1, <3>2
  <2>8. CASE q[n] \notin ids
    <3>1. q[n] \in S  BY <2>4
    <3>2. f[n] = Append(f[n - 1], q[n])  BY <2>6, <2>8
    <3>3. /\ f[n] \in Seq(S) /\ Len(f[n]) = Len(f[n - 1]) + 1
          /\ \A i \in 1 .. Len(f[n - 1]) : f[n][i] = f[n - 1][i]
          /\ f[n][Len(f[n - 1]) + 1] = q[n]
      BY <2>4, <3>1, <3>2, AppendProperties
    <3>4. Range(f[n]) = Range(f[n - 1]) \cup {q[n]}
      <4>1. Len(f[n - 1]) \in Nat /\ DOMAIN f[n - 1] = 1 .. Len(f[n - 1])  BY <2>4
      <4>2. DOMAIN f[n] = 1 .. (Len(f[n - 1]) + 1)  BY <3>3
      <4>3. \A x : x \in Range(f[n]) <=> \E i \in 1 .. (Len(f[n - 1]) + 1) : f[n][i] = x
        BY <4>2 DEF Range
      <4>4. \A x : x \in Range(f[n - 1]) <=> \E i \in 1 .. Len(f[n - 1]) : f[n - 1][i] = x
        BY <4>1 DEF Range
      <4>5. \A i : i \in 1 .. (Len(f[n - 1]) + 1)
                     <=> i = Len(f[n - 1]) + 1 \/ i \in 1 .. Len(f[n - 1])
        BY <4>1
      <4> QED  BY <3>3, <4>3, <4>4, <4>5
    <3>5. Upto(n) \ ids = (Upto(n - 1) \ ids) \cup {q[n]}  BY <2>5, <2>8
    <3>6. Range(f[n - 1]) = Upto(n - 1) \ ids  BY <2>4
    <3> HIDE DEF Upto
    <3> QED  BY <2>2, <3>3, <3>4, <3>5, <3>6
  <2> QED  BY <2>7, <2>8
<1>6. Good(Len(q))
  <2> HIDE DEF Good
  <2> QED  BY <1>1, <1>5
<1>7. Upto(Len(q)) = Range(q)  BY <1>1 DEF Range
<1> QED  BY <1>3, <1>6, <1>7

-----------------------------------------------------------------------------
(* The store *)

\* What is known of a message, kind by kind.
LEMMA MessageShape ==
  ASSUME NEW msg
  PROVE  msg \in S2CMessages =>
    /\ msg.type \in {"txn", "txnOk", "newTxns", "replace", "resyncWithStore"}
    /\ msg.type = "txn" => msg.id \in Others /\ msg.ver \in Versions /\ msg.num \in Nat
    /\ msg.type = "txnOk" => msg.id \in Own /\ msg.ver \in Versions /\ msg.num \in Nat
    /\ msg.type = "newTxns" => msg.txns \in Seq([id : Others, ver : Versions])
    /\ msg.type = "replace" => msg.ver \in 0 .. Len(executed) /\ msg.num \in Nat
BY DEF S2CMessages

\* A place in a list is a number, and the list's set has what is there.
LEMMA Member ==
  ASSUME NEW S, NEW q \in Seq(S), NEW i \in DOMAIN q
  PROVE  /\ q[i] \in S /\ Len(q) \in Nat /\ DOMAIN q = 1 .. Len(q)
         /\ i \in Nat /\ 1 <= i /\ i <= Len(q)
OBVIOUS

\* A list that at most one thing was added to: each place is an old one, or the
\* new one, and those before it are old.
LEMMA AddedOne ==
  ASSUME NEW S, NEW q \in Seq(S), NEW m, NEW r, r = q \/ r = Append(q, m),
         NEW i \in DOMAIN r
  PROVE  /\ (i \in DOMAIN q /\ r[i] = q[i]) \/ r[i] = m
         /\ \A k \in 1 .. i - 1 : k \in DOMAIN q /\ r[k] = q[k]
<1>1. PICK n \in Nat : n = Len(q) /\ DOMAIN q = 1 .. n
  OBVIOUS
<1>2. CASE r = q
  <2>1. i \in 1 .. n  BY <1>1, <1>2
  <2> QED  BY <1>1, <1>2, <2>1
<1>3. CASE r = Append(q, m)
  <2>1. DOMAIN r = 1 .. n + 1 /\ r[n + 1] = m /\ \A k \in 1 .. n : r[k] = q[k]
    BY <1>1, <1>3
  <2>2. i \in 1 .. n + 1  BY <2>1
  <2> QED  BY <1>1, <2>1, <2>2
<1> QED  BY <1>2, <1>3

\* What a list is after one message was, or was not, put at its end.
LEMMA AddedIn ==
  ASSUME NEW S, NEW q \in Seq(S), NEW m \in S, NEW r, r = q \/ r = Append(q, m)
  PROVE  r \in Seq(S)
OBVIOUS

\* A message brings no version that was not given.
LEMMA VersionsIn ==
  ASSUME NEW msg \in S2CMessages, NEW v \in VersIn(msg)
  PROVE  v \in 0 .. Len(executed)
<1>1. CASE msg.type = "newTxns"
  <2>1. msg.txns \in Seq([id : Others, ver : Versions])  BY <1>1, MessageShape
  <2>2. PICK j \in DOMAIN msg.txns : v = msg.txns[j].ver  BY <1>1 DEF VersIn
  <2>3. msg.txns[j] \in [id : Others, ver : Versions]  BY <2>1, <2>2, Member
  <2> QED  BY <2>2, <2>3 DEF Versions
<1>2. CASE msg.type \in {"txn", "txnOk", "replace"}
  BY <1>2, MessageShape DEF VersIn, Versions
<1>3. CASE msg.type = "resyncWithStore"
  BY <1>3 DEF VersIn
<1> QED  BY <1>1, <1>2, <1>3, MessageShape

\* Lists are as wide as what they list.
LEMMA SeqMonotone ==
  ASSUME NEW A, NEW B, A \subseteq B
  PROVE  Seq(A) \subseteq Seq(B)
OBVIOUS

\* A version names a transaction as long as it may, and longer.
LEMMA Grows ==
  ASSUME executed \in Seq(Txns),
         executed' = executed \/ \E t \in Txns : executed' = Append(executed, t)
  PROVE  /\ executed' \in Seq(Txns) /\ Len(executed) \in Nat /\ Len(executed') \in Nat
         /\ Len(executed) <= Len(executed')
         /\ Range(executed) \subseteq Range(executed')
         /\ Versions \subseteq Versions' /\ TxnVers \subseteq TxnVers'
         /\ Seq([id : Others, ver : Versions]) \subseteq Seq([id : Others, ver : Versions'])
         /\ S2CMessages \subseteq S2CMessages'
<1>1. /\ executed' \in Seq(Txns) /\ Len(executed) \in Nat /\ Len(executed') \in Nat
      /\ Len(executed) <= Len(executed')
      /\ \A i \in 1 .. Len(executed) : executed'[i] = executed[i]
  OBVIOUS
<1>2. Range(executed) \subseteq Range(executed')
  <2>1. DOMAIN executed = 1 .. Len(executed) /\ DOMAIN executed' = 1 .. Len(executed')
    BY <1>1
  <2>2. 1 .. Len(executed) \subseteq 1 .. Len(executed')  BY <1>1
  <2> QED  BY <1>1, <2>1, <2>2 DEF Range
<1>3. Versions \subseteq Versions' /\ 0 .. Len(executed) \subseteq 0 .. Len(executed')
  BY <1>1 DEF Versions
<1>4. /\ TxnVers \subseteq TxnVers'
      /\ [id : Others, ver : Versions] \subseteq [id : Others, ver : Versions']
  BY <1>3 DEF TxnVers
<1>5. Seq([id : Others, ver : Versions]) \subseteq Seq([id : Others, ver : Versions'])
  BY <1>4, SeqMonotone
<1>6. S2CMessages \subseteq S2CMessages'
  BY <1>3, <1>5 DEF S2CMessages
<1> QED  BY <1>1, <1>2, <1>3, <1>4, <1>5, <1>6

\* What the store does leaves the browser alone, adds at most one transaction
\* and at most one message, one that the versions bear out.
StoreStep(msg) ==
  /\ executed' = executed \/ \E t \in Txns : executed' = Append(executed, t)
  /\ s2c' = s2c \/ s2c' = Append(s2c, msg)
  /\ msg \in S2CMessages'
  /\ msg.type \in {"txn", "txnOk"} => msg.id \in Range(executed')
  /\ msg.type = "replace" => msg.ver = Len(executed)
  /\ msg.type # "newTxns"
  /\ UNCHANGED clientVars

\* A step of the store keeps the invariant, what it tells the model apart.
LEMMA StoreStepKeeps ==
  ASSUME IInv, NEW msg, StoreStep(msg)
  PROVE  /\ executed' \in Seq(Txns) /\ s2c' \in Seq(S2CMessages')
         /\ ownVer' \in [Own -> 0 .. Len(executed')]
         /\ memVer' \in 0 .. Len(executed')
         /\ ser'.pending \in [DOMAIN ser'.pending -> TxnVers']
         /\ SerializerOK' /\ NothingForgotten' /\ NoOlderSnapshot'
         /\ (\A i \in DOMAIN buffer' : buffer'[i].id \in Range(executed')) => Told'
<1>1. /\ executed \in Seq(Txns) /\ s2c \in Seq(S2CMessages)
      /\ ownVer \in [Own -> 0 .. Len(executed)] /\ memVer \in 0 .. Len(executed)
      /\ ser.pending \in [DOMAIN ser.pending -> TxnVers]
  BY DEF IInv, TypeOK
<1>2. ASSUME NEW i \in DOMAIN s2c'
      PROVE  /\ (i \in DOMAIN s2c /\ s2c'[i] = s2c[i]) \/ s2c'[i] = msg
             /\ \A k \in 1 .. i - 1 : k \in DOMAIN s2c /\ s2c'[k] = s2c[k]
  <2>1. s2c' = s2c \/ s2c' = Append(s2c, msg)  BY DEF StoreStep
  <2>2. s2c \in Seq(S2CMessages)  BY <1>1
  <2>3. \A r : r = s2c \/ r = Append(s2c, msg) =>
          \A j \in DOMAIN r : /\ (j \in DOMAIN s2c /\ r[j] = s2c[j]) \/ r[j] = msg
                              /\ \A k \in 1 .. j - 1 : k \in DOMAIN s2c /\ r[k] = s2c[k]
    BY <2>2, AddedOne
  <2> QED  BY <2>1, <2>3
<1> USE DEF StoreStep, clientVars
<1>3. /\ executed' \in Seq(Txns) /\ Len(executed) \in Nat /\ Len(executed') \in Nat
      /\ Len(executed) <= Len(executed')
      /\ Range(executed) \subseteq Range(executed')
      /\ TxnVers \subseteq TxnVers' /\ S2CMessages \subseteq S2CMessages'
  BY <1>1, Grows
<1>4. s2c' \in Seq(S2CMessages')
  <2>1. s2c \in Seq(S2CMessages')  BY <1>1, <1>3
  <2> QED  BY <2>1
<1>5. ownVer' \in [Own -> 0 .. Len(executed')] /\ memVer' \in 0 .. Len(executed')
  BY <1>1, <1>3
<1>6. ser'.pending \in [DOMAIN ser'.pending -> TxnVers']
  BY <1>1, <1>3
<1>7. NothingForgotten'
  BY <1>3 DEF IInv, NothingForgotten
<1>8. NoOlderSnapshot'
  <2> SUFFICES ASSUME NEW l \in DOMAIN s2c', s2c'[l].type = "replace"
               PROVE  /\ memVer <= s2c'[l].ver
                      /\ \A o \in Own : ownVer[o] <= s2c'[l].ver
                      /\ \A n \in DOMAIN ser.pending : ser.pending[n].ver <= s2c'[l].ver
                      /\ \A k \in 1 .. l - 1 : \A v \in VersIn(s2c'[k]) : v <= s2c'[l].ver
    BY DEF NoOlderSnapshot, VersIn
  <2>0. \A k \in 1 .. l - 1 : k \in DOMAIN s2c /\ s2c'[k] = s2c[k]  BY <1>2
  <2>1. CASE l \in DOMAIN s2c /\ s2c'[l] = s2c[l]
    BY <2>0, <2>1 DEF IInv, NoOlderSnapshot
  <2>2. CASE s2c'[l] = msg
    <3>1. s2c'[l].ver = Len(executed)  BY <2>2
    <3>2. \A n \in DOMAIN ser.pending : ser.pending[n].ver \in 1 .. Len(executed)
      BY <1>1 DEF TxnVers, Versions
    <3>3. ASSUME NEW k \in 1 .. l - 1, NEW v \in VersIn(s2c'[k]) PROVE v <= Len(executed)
      <4>1. s2c'[k] = s2c[k] /\ s2c[k] \in S2CMessages  BY <1>1, <2>0, Member
      <4>2. v \in 0 .. Len(executed)  BY <4>1, VersionsIn
      <4> QED  BY <1>3, <4>2
    <3> QED  BY <1>1, <1>3, <3>1, <3>2, <3>3
  <2> QED  BY <1>2, <2>1, <2>2
<1>9. ASSUME \A i \in DOMAIN buffer' : buffer'[i].id \in Range(executed') PROVE Told'
  <2>1. ASSUME NEW i \in DOMAIN s2c'
        PROVE /\ s2c'[i].type \in {"txn", "txnOk"} => s2c'[i].id \in Range(executed')
              /\ s2c'[i].type = "newTxns" =>
                   \A j \in DOMAIN s2c'[i].txns : s2c'[i].txns[j].id \in Range(executed')
    <3>1. CASE i \in DOMAIN s2c /\ s2c'[i] = s2c[i]  BY <1>3, <3>1 DEF IInv, Told
    <3>2. CASE s2c'[i] = msg  BY <3>2
    <3> QED  BY <1>2, <3>1, <3>2
  <2>2. \A n \in DOMAIN ser'.pending : ser'.pending[n].id \in Range(executed')
    BY <1>3 DEF IInv, Told
  <2> QED  BY <1>9, <2>1, <2>2 DEF Told
<1>10. SerializerOK'  BY DEF IInv, SerializerOK
<1> QED  BY <1>3, <1>4, <1>5, <1>6, <1>7, <1>8, <1>9, <1>10

\* A store that has just bundled the model satisfies the invariant.
LEMMA InitIInv == Init => IInv
<1> SUFFICES ASSUME Init PROVE IInv  OBVIOUS
<1>1. /\ executed = << >> /\ buffer = << >> /\ s2c = << >> /\ queue = << >>
      /\ committed = {} /\ clientNum = 0 /\ sock = 0 /\ buffering = TRUE /\ open = {}
      /\ up = 0 /\ conns = 0 /\ memVer = 0 /\ resends = 0
      /\ c2s = [k \in Conns |-> << >>] /\ ownVer = [t \in Own |-> 0]
      /\ data = [d \in Docs |-> Null]
      /\ ser = [index |-> 1, pending |-> [n \in {} |-> Null], waiter |-> FALSE]
  BY DEF Init, NewSerializer
<1>2. TypeOK
  <2>1. executed \in Seq(Txns) /\ Len(executed) = 0  BY <1>1
  <2>2. /\ buffer \in Seq([id : Others, ver : Versions])
        /\ s2c \in Seq(S2CMessages) /\ queue \in Seq(committed)
    BY <1>1
  <2>3. c2s \in [Conns -> Seq(C2SMessages)]  BY <1>1
  <2>4. ownVer \in [Own -> 0 .. Len(executed)] /\ data \in [Docs -> Txns \cup {Null}]
        /\ memVer \in 0 .. Len(executed)
    BY <1>1, <2>1
  <2>5. /\ ser.index \in Nat /\ ser.waiter \in BOOLEAN /\ DOMAIN ser.pending \subseteq Nat
        /\ ser.pending \in [DOMAIN ser.pending -> TxnVers]
    BY <1>1
  <2>6. /\ sock \in 0 .. MaxConns /\ up \in 0 .. MaxConns /\ conns \in 0 .. MaxConns
        /\ resends \in 0 .. MaxResends /\ clientNum \in Nat
    BY <1>1, LimitsAssumption
  <2> QED  BY <1>1, <2>1, <2>2, <2>3, <2>4, <2>5, <2>6 DEF TypeOK
<1>3. NothingForgotten  BY <1>1 DEF NothingForgotten
<1>4. DOMAIN buffer = {} /\ DOMAIN s2c = {} /\ DOMAIN ser.pending = {}  BY <1>1
<1>5. Told /\ NoOlderSnapshot  BY <1>4 DEF Told, NoOlderSnapshot
<1>6. SerializerOK  BY <1>1 DEF SerializerOK
<1> QED  BY <1>2, <1>3, <1>5, <1>6 DEF IInv

\* A message is put on the line, or nobody is there to get it.
LEMMA Emitting ==
  ASSUME TypeOK, NEW k, NEW msg, EmitNumbered(k, msg)
  PROVE  (s2c' = s2c \/ s2c' = Append(s2c, msg)) /\ clientNum' \in Nat
<1>1. s2c' = s2c \/ s2c' = Append(s2c, msg)  BY DEF EmitNumbered, Emit
<1>2. Num \in Nat  BY DEF TypeOK, Num
<1>3. clientNum' \in Nat  BY <1>2 DEF EmitNumbered
<1> QED  BY <1>1, <1>3

\* A number that the store gives is a number.
LEMMA NumIsNat == TypeOK => Num \in Nat
BY DEF TypeOK, Num

\* Somebody else's transaction is told of, or kept to be told of.
LEMMA StoreTxnIInv ==
  ASSUME IInv, NEW t \in Others, StoreTxn(t)
  PROVE  IInv'
<1> DEFINE v == Len(executed) + 1
           out == [type |-> "txn", id |-> t, ver |-> v, num |-> Num]
<1>1. TypeOK /\ t \in Txns  BY DEF IInv, Txns
<1>2. /\ executed' = Append(executed, t)
      /\ UNCHANGED <<sock, buffering, open, up, conns, c2s, clientVars>>
      /\ \/ /\ sock # 0 /\ EmitNumbered(sock, out) /\ buffer' = buffer
         \/ /\ sock = 0 /\ UNCHANGED <<clientNum, s2c>>
            /\ buffer' = IF buffering THEN Append(buffer, [id |-> t, ver |-> v]) ELSE buffer
  BY DEF StoreTxn
<1>3. executed \in Seq(Txns) /\ Num \in Nat  BY <1>1, NumIsNat DEF TypeOK
<1>4. /\ Len(executed') = v /\ t \in Range(executed') /\ v \in Versions'
  <2>1. Len(executed') = v /\ v \in DOMAIN executed' /\ executed'[v] = t /\ v \in Nat
    BY <1>1, <1>2, <1>3
  <2> QED  BY <2>1 DEF Range, Versions
<1>5. StoreStep(out)
  <2>1. s2c' = s2c \/ s2c' = Append(s2c, out)  BY <1>1, <1>2, Emitting
  <2>2. out \in S2CMessages' /\ out.type = "txn" /\ out.id = t
    BY <1>3, <1>4 DEF S2CMessages
  <2>3. \E x \in Txns : executed' = Append(executed, x)  BY <1>1, <1>2
  <2> HIDE DEF out
  <2> QED  BY <1>2, <1>4, <2>1, <2>2, <2>3 DEF StoreStep
<1> HIDE DEF out
<1>6. /\ executed' \in Seq(Txns) /\ s2c' \in Seq(S2CMessages')
      /\ ownVer' \in [Own -> 0 .. Len(executed')]
      /\ memVer' \in 0 .. Len(executed')
      /\ ser'.pending \in [DOMAIN ser'.pending -> TxnVers']
      /\ SerializerOK' /\ NothingForgotten' /\ NoOlderSnapshot'
      /\ (\A i \in DOMAIN buffer' : buffer'[i].id \in Range(executed')) => Told'
  BY <1>1, <1>5, StoreStepKeeps
<1>7. /\ Seq([id : Others, ver : Versions]) \subseteq Seq([id : Others, ver : Versions'])
      /\ Range(executed) \subseteq Range(executed')
  BY <1>1, <1>2, <1>3, Grows
<1>8. /\ buffer' \in Seq([id : Others, ver : Versions'])
      /\ \A i \in DOMAIN buffer' : buffer'[i].id \in Range(executed')
  <2> DEFINE new == [id |-> t, ver |-> v]
  <2>1. buffer \in Seq([id : Others, ver : Versions'])  BY <1>1, <1>7 DEF TypeOK
  <2>2. new \in [id : Others, ver : Versions'] /\ new.id = t  BY <1>4
  <2>3. buffer' = buffer \/ buffer' = Append(buffer, new)  BY <1>2
  <2> HIDE DEF new
  <2>4. buffer' \in Seq([id : Others, ver : Versions'])  BY <2>1, <2>2, <2>3, AddedIn
  <2>5. ASSUME NEW i \in DOMAIN buffer' PROVE buffer'[i].id \in Range(executed')
    <3>1. (i \in DOMAIN buffer /\ buffer'[i] = buffer[i]) \/ buffer'[i] = new
      BY <2>1, <2>3, AddedOne
    <3> QED  BY <1>4, <1>7, <2>2, <3>1 DEF IInv, Told
  <2> QED  BY <2>4, <2>5
<1>9. clientNum' \in Nat /\ (~buffering' => buffer' = << >>)
  BY <1>1, <1>2, Emitting DEF TypeOK
<1>10. TypeOK'
  BY <1>1, <1>2, <1>6, <1>8, <1>9 DEF TypeOK, clientVars, C2SMessages
<1> QED  BY <1>6, <1>8, <1>10 DEF IInv

\* A message from the browser is executed and acknowledged, or answered with
\* all that was executed.
LEMMA ServerReceiveIInv ==
  ASSUME IInv, NEW k \in Conns, ServerReceive(k)
  PROVE  IInv'
<1>1. TypeOK  BY DEF IInv
<1>2. /\ k \in open /\ c2s[k] # << >> /\ OnMessage(k, Head(c2s[k]))
      /\ c2s' = [c2s EXCEPT ![k] = Tail(@)]
      /\ UNCHANGED <<sock, buffering, buffer, open, up, conns, clientVars>>
  BY DEF ServerReceive
<1> DEFINE msg == Head(c2s[k])
           v == Len(executed)
           ok == [type |-> "txnOk", id |-> msg.id, ver |-> v + 1, num |-> Num]
           snapshot == [type |-> "replace", ver |-> v, num |-> Num]
<1>3. /\ c2s[k] \in Seq(C2SMessages) /\ msg \in C2SMessages
      /\ c2s' \in [Conns -> Seq(C2SMessages)]
  <2>1. c2s \in [Conns -> Seq(C2SMessages)] /\ c2s[k] \in Seq(C2SMessages)
    BY <1>1 DEF TypeOK
  <2>2. msg \in C2SMessages /\ Tail(c2s[k]) \in Seq(C2SMessages)  BY <1>2, <2>1
  <2> QED  BY <1>2, <2>1, <2>2
<1>4. executed \in Seq(Txns) /\ Num \in Nat /\ v \in Nat  BY <1>1, NumIsNat DEF TypeOK
<1>5. /\ \E out : StoreStep(out)
      /\ executed' = executed \/ \E t \in Txns : executed' = Append(executed, t)
      /\ clientNum' \in Nat
  <2>1. CASE msg.type = "txn"
    <3>1. /\ executed' = Append(executed, msg.id) /\ EmitNumbered(k, ok)
      BY <1>2, <2>1 DEF OnMessage
    <3>2. msg.id \in Own /\ msg.id \in Txns  BY <1>3, <2>1 DEF C2SMessages, Txns
    <3>3. Len(executed') = v + 1 /\ msg.id \in Range(executed') /\ v + 1 \in Versions'
      <4>1. Len(executed') = v + 1 /\ v + 1 \in DOMAIN executed' /\ executed'[v + 1] = msg.id
        BY <1>4, <3>1, <3>2
      <4> QED  BY <1>4, <4>1 DEF Range, Versions
    <3>4. ok \in S2CMessages' /\ ok.type = "txnOk" /\ ok.id = msg.id
      BY <1>4, <3>2, <3>3 DEF S2CMessages
    <3> HIDE DEF ok, msg, v
    <3>5. (s2c' = s2c \/ s2c' = Append(s2c, ok)) /\ clientNum' \in Nat
      BY <1>1, <3>1, Emitting
    <3>6. \E x \in Txns : executed' = Append(executed, x)  BY <3>1, <3>2
    <3>7. StoreStep(ok)
      BY <1>2, <3>3, <3>4, <3>5, <3>6 DEF StoreStep
    <3> QED  BY <3>5, <3>6, <3>7
  <2>2. CASE msg.type \in {"subs", "fetch:snapshot"}
    <3>1. executed' = executed /\ EmitNumbered(k, snapshot)
      BY <1>2, <2>2 DEF OnMessage
    <3>2. snapshot \in S2CMessages' /\ snapshot.type = "replace" /\ snapshot.ver = v
      BY <1>4, <3>1 DEF S2CMessages
    <3> HIDE DEF snapshot
    <3>3. (s2c' = s2c \/ s2c' = Append(s2c, snapshot)) /\ clientNum' \in Nat
      BY <1>1, <3>1, Emitting
    <3>4. StoreStep(snapshot)
      BY <1>2, <3>1, <3>2, <3>3 DEF StoreStep
    <3> QED  BY <3>1, <3>3, <3>4
  <2> QED  BY <1>3, <2>1, <2>2 DEF C2SMessages
<1> HIDE DEF msg, ok, snapshot
<1>6. PICK out : StoreStep(out)  BY <1>5
<1>7. /\ executed' \in Seq(Txns) /\ s2c' \in Seq(S2CMessages')
      /\ ownVer' \in [Own -> 0 .. Len(executed')]
      /\ memVer' \in 0 .. Len(executed')
      /\ ser'.pending \in [DOMAIN ser'.pending -> TxnVers']
      /\ SerializerOK' /\ NothingForgotten' /\ NoOlderSnapshot'
      /\ (\A i \in DOMAIN buffer' : buffer'[i].id \in Range(executed')) => Told'
  BY <1>6, StoreStepKeeps
<1>8. /\ Seq([id : Others, ver : Versions]) \subseteq Seq([id : Others, ver : Versions'])
      /\ Range(executed) \subseteq Range(executed')
  BY <1>4, <1>5, Grows
<1>9. /\ buffer' \in Seq([id : Others, ver : Versions'])
      /\ \A i \in DOMAIN buffer' : buffer'[i].id \in Range(executed')
  BY <1>1, <1>2, <1>8 DEF TypeOK, IInv, Told
<1>10. TypeOK'
  BY <1>1, <1>2, <1>3, <1>5, <1>7, <1>9 DEF TypeOK, clientVars, C2SMessages
<1> QED  BY <1>7, <1>9, <1>10 DEF IInv

\* A message that changes nothing, for the steps of the store that send none.
Nothing == [type |-> "resyncWithStore"]

\* The store learns that a connection broke.
LEMMA ServerDisconnectIInv ==
  ASSUME IInv, NEW k \in Conns, ServerDisconnect(k)
  PROVE  IInv'
<1>1. TypeOK  BY DEF IInv
<1>2. /\ open' = open \ {k} /\ sock' = 0 /\ buffering' = TRUE /\ buffer' = buffer
      /\ c2s' = [c2s EXCEPT ![k] = << >>]
      /\ UNCHANGED <<executed, clientNum, up, conns, s2c, clientVars>>
  BY DEF ServerDisconnect
<1>3. StoreStep(Nothing)  BY <1>2 DEF StoreStep, Nothing, S2CMessages
<1>4. /\ executed' \in Seq(Txns) /\ s2c' \in Seq(S2CMessages')
      /\ ownVer' \in [Own -> 0 .. Len(executed')]
      /\ memVer' \in 0 .. Len(executed')
      /\ ser'.pending \in [DOMAIN ser'.pending -> TxnVers']
      /\ SerializerOK' /\ NothingForgotten' /\ NoOlderSnapshot'
      /\ (\A i \in DOMAIN buffer' : buffer'[i].id \in Range(executed')) => Told'
  BY <1>3, StoreStepKeeps
<1>5. c2s' \in [Conns -> Seq(C2SMessages)]  BY <1>1, <1>2 DEF TypeOK
<1>6. buffer' \in Seq([id : Others, ver : Versions'])  BY <1>1, <1>2 DEF TypeOK, Versions
<1>7. sock' \in 0 .. MaxConns  BY <1>2, LimitsAssumption
<1>8. TypeOK'
  BY <1>1, <1>2, <1>4, <1>5, <1>6, <1>7 DEF TypeOK, clientVars, C2SMessages
<1>9. Told'  BY <1>2, <1>4 DEF IInv, Told
<1> QED  BY <1>4, <1>8, <1>9 DEF IInv

\* The store gives up on the browser.
LEMMA BufferExpireIInv ==
  ASSUME IInv, BufferExpire
  PROVE  IInv'
<1>1. TypeOK  BY DEF IInv
<1>2. /\ buffering /\ buffering' = FALSE /\ buffer' = << >> /\ clientNum' = 0
      /\ UNCHANGED <<executed, sock, open, netVars, clientVars>>
  BY DEF BufferExpire
<1>3. StoreStep(Nothing)  BY <1>2 DEF StoreStep, Nothing, S2CMessages, netVars
<1>4. /\ executed' \in Seq(Txns) /\ s2c' \in Seq(S2CMessages')
      /\ ownVer' \in [Own -> 0 .. Len(executed')]
      /\ memVer' \in 0 .. Len(executed')
      /\ ser'.pending \in [DOMAIN ser'.pending -> TxnVers']
      /\ SerializerOK' /\ NothingForgotten' /\ NoOlderSnapshot'
      /\ (\A i \in DOMAIN buffer' : buffer'[i].id \in Range(executed')) => Told'
  BY <1>3, StoreStepKeeps
<1>5. buffer' \in Seq([id : Others, ver : Versions']) /\ DOMAIN buffer' = {}  BY <1>2
<1>6. TypeOK'
  BY <1>1, <1>2, <1>4, <1>5 DEF TypeOK, clientVars, netVars, C2SMessages
<1> QED  BY <1>4, <1>5, <1>6 DEF IInv

-----------------------------------------------------------------------------
(* The network *)

\* The store hands over what it buffered, all of which was executed, or asks the
\* browser to ask for a snapshot.
LEMMA ConnectIInv ==
  ASSUME IInv, Connect
  PROVE  IInv'
<1> DEFINE msg == IF buffering THEN [type |-> "newTxns", txns |-> buffer]
                               ELSE [type |-> "resyncWithStore"]
<1>1. TypeOK  BY DEF IInv
<1>2. /\ conns < MaxConns /\ conns' = conns + 1 /\ up' = conns + 1 /\ sock' = conns + 1
      /\ open' = open \cup {conns + 1} /\ s2c' = <<msg>>
      /\ buffering' = FALSE /\ buffer' = << >>
      /\ UNCHANGED <<executed, clientNum, c2s, clientVars>>
  BY DEF Connect
<1>3. msg \in S2CMessages /\ msg.type \in {"newTxns", "resyncWithStore"}
  <2>1. CASE buffering
    <3>1. buffer \in Seq([id : Others, ver : Versions])  BY <1>1 DEF TypeOK
    <3> QED  BY <2>1, <3>1 DEF S2CMessages
  <2>2. CASE ~buffering  BY <2>2 DEF S2CMessages
  <2> QED  BY <2>1, <2>2
<1>4. msg.type = "newTxns" => \A j \in DOMAIN msg.txns : msg.txns[j].id \in Range(executed)
  BY DEF IInv, Told
<1> HIDE DEF msg
<1>5. s2c' \in Seq(S2CMessages) /\ DOMAIN s2c' = {1} /\ s2c'[1] = msg  BY <1>2, <1>3
<1>6. /\ conns' \in 0 .. MaxConns /\ up' \in 0 .. MaxConns /\ sock' \in 0 .. MaxConns
      /\ open' \subseteq Conns
  BY <1>1, <1>2, LimitsAssumption DEF TypeOK, Conns
<1>7. buffer' \in Seq([id : Others, ver : Versions]) /\ DOMAIN buffer' = {}  BY <1>2
<1>8. TypeOK'
  BY <1>1, <1>2, <1>5, <1>6, <1>7 DEF TypeOK, clientVars, C2SMessages, S2CMessages,
     Versions, TxnVers
<1>9. NothingForgotten' /\ SerializerOK'
  BY <1>2 DEF IInv, NothingForgotten, SerializerOK, clientVars
<1>10. Told'
  BY <1>2, <1>3, <1>4, <1>5, <1>7 DEF IInv, Told, clientVars
<1>11. NoOlderSnapshot'  BY <1>3, <1>5 DEF NoOlderSnapshot
<1> QED  BY <1>8, <1>9, <1>10, <1>11 DEF IInv

\* What is on its way to the browser is lost.
LEMMA DropIInv ==
  ASSUME IInv, Drop
  PROVE  IInv'
<1>1. up' = 0 /\ s2c' = << >> /\ UNCHANGED <<storeVars, conns, c2s, clientVars>>
  BY DEF Drop
<1>2. TypeOK /\ SerializerOK /\ NothingForgotten /\ Told  BY DEF IInv
<1>3. s2c' \in Seq(S2CMessages) /\ DOMAIN s2c' = {} /\ up' \in 0 .. MaxConns
  BY <1>1, LimitsAssumption
<1>4. TypeOK'
  BY <1>1, <1>2, <1>3 DEF TypeOK, clientVars, storeVars, C2SMessages, S2CMessages,
     Versions, TxnVers
<1>5. NothingForgotten' /\ SerializerOK'
  BY <1>1, <1>2 DEF NothingForgotten, SerializerOK, clientVars, storeVars
<1>6. Told' /\ NoOlderSnapshot'
  BY <1>1, <1>2, <1>3 DEF Told, NoOlderSnapshot, clientVars, storeVars
<1> QED  BY <1>4, <1>5, <1>6 DEF IInv

-----------------------------------------------------------------------------
(* The browser *)

\* What is sent is on its way to the store, or lost.
LEMMA Sending ==
  ASSUME TypeOK, NEW msgs \in Seq(C2SMessages), SendAll(msgs)
  PROVE  c2s' \in [Conns -> Seq(C2SMessages)]
<1>1. c2s \in [Conns -> Seq(C2SMessages)] /\ up \in 0 .. MaxConns  BY DEF TypeOK
<1>2. CASE up = 0  BY <1>1, <1>2 DEF SendAll
<1>3. CASE up # 0
  <2>1. up \in Conns  BY <1>1, <1>3, LimitsAssumption DEF Conns
  <2>2. c2s[up] \in Seq(C2SMessages)  BY <1>1, <2>1
  <2>3. c2s[up] \o msgs \in Seq(C2SMessages)  BY <2>2
  <2>4. c2s' = [c2s EXCEPT ![up] = @ \o msgs]  BY <1>3 DEF SendAll
  <2> QED  BY <1>1, <2>3, <2>4
<1> QED  BY <1>2, <1>3

\* The messages of a list of own transactions are messages.
LEMMA TxnMsgsType ==
  ASSUME NEW ids \in Seq(Own)
  PROVE  TxnMsgs(ids) \in Seq(C2SMessages)
<1>1. PICK n \in Nat : DOMAIN ids = 1 .. n  OBVIOUS
<1>2. \A i \in 1 .. n : [type |-> "txn", id |-> ids[i]] \in C2SMessages
  BY <1>1 DEF C2SMessages
<1>3. TxnMsgs(ids) = [i \in 1 .. n |-> [type |-> "txn", id |-> ids[i]]]
  BY <1>1 DEF TxnMsgs
<1> QED  BY <1>2, <1>3

\* The user does something: it is in the queue, connected or not.
LEMMA CommitIInv ==
  ASSUME IInv, NEW t \in Own, Commit(t)
  PROVE  IInv'
<1>1. TypeOK  BY DEF IInv
<1>2. /\ committed' = committed \cup {t} /\ queue' = Append(queue, t)
      /\ SendAll(TxnMsgs(<<t>>))
      /\ UNCHANGED <<storeVars, up, conns, s2c, ownVer, data, memVer, ser, resends>>
  BY DEF Commit
<1>3. c2s' \in [Conns -> Seq(C2SMessages)]
  <2>1. <<t>> \in Seq(Own)  OBVIOUS
  <2> QED  BY <1>1, <1>2, <2>1, TxnMsgsType, Sending
<1>4. /\ queue' \in Seq(committed') /\ committed' \subseteq Own
      /\ Range(queue) \cup {t} \subseteq Range(queue')
  <2>1. queue \in Seq(committed')  BY <1>1, <1>2, SeqMonotone DEF TypeOK
  <2>2. PICK n \in Nat : n = Len(queue) /\ DOMAIN queue = 1 .. n  BY <2>1
  <2>3. /\ queue' \in Seq(committed') /\ DOMAIN queue' = 1 .. n + 1
        /\ queue'[n + 1] = t /\ \A i \in 1 .. n : queue'[i] = queue[i]
    BY <1>2, <2>1, <2>2
  <2>4. Range(queue) \cup {t} \subseteq Range(queue')
    <3>1. n + 1 \in DOMAIN queue' /\ DOMAIN queue \subseteq DOMAIN queue'  BY <2>2, <2>3
    <3> QED  BY <2>2, <2>3, <3>1 DEF Range
  <2>5. committed' \subseteq Own  BY <1>1, <1>2 DEF TypeOK
  <2> QED  BY <2>3, <2>4, <2>5
<1>5. TypeOK'
  BY <1>1, <1>2, <1>3, <1>4 DEF TypeOK, storeVars, C2SMessages, S2CMessages,
     Versions, TxnVers
<1>6. NothingForgotten'
  BY <1>2, <1>4 DEF IInv, NothingForgotten, storeVars
<1>7. Told' /\ NoOlderSnapshot' /\ SerializerOK'
  BY <1>2 DEF IInv, Told, NoOlderSnapshot, SerializerOK, VersIn, storeVars
<1> QED  BY <1>5, <1>6, <1>7 DEF IInv

\* The wait of the txnApplier is over: it asks for a snapshot.
LEMMA TimeoutIInv ==
  ASSUME IInv, Timeout
  PROVE  IInv'
<1>1. TypeOK  BY DEF IInv
<1>2. /\ ser' = Expire(ser) /\ SendAll(<<[type |-> "fetch:snapshot"]>>)
      /\ UNCHANGED <<storeVars, up, conns, s2c, committed, queue, ownVer, data, memVer,
                     resends>>
  BY DEF Timeout
<1>3. /\ ser' = [index |-> ser.index, pending |-> ser.pending, waiter |-> FALSE]
      /\ ser'.index = ser.index /\ ser'.pending = ser.pending /\ ser'.waiter = FALSE
  BY <1>2 DEF IInv, SerializerOK, Expire
<1>4. c2s' \in [Conns -> Seq(C2SMessages)]
  <2>1. <<[type |-> "fetch:snapshot"]>> \in Seq(C2SMessages)  BY DEF C2SMessages
  <2> QED  BY <1>1, <1>2, <2>1, Sending
<1>5. TypeOK'
  BY <1>1, <1>2, <1>3, <1>4 DEF TypeOK, storeVars, C2SMessages, S2CMessages,
     Versions, TxnVers
<1>6. NothingForgotten' /\ SerializerOK'
  BY <1>2, <1>3 DEF IInv, NothingForgotten, SerializerOK, storeVars
<1>7. Told' /\ NoOlderSnapshot'
  BY <1>2, <1>3 DEF IInv, Told, NoOlderSnapshot, VersIn, storeVars
<1> QED  BY <1>5, <1>6, <1>7 DEF IInv

\* What was not acknowledged in time is sent again, and stays queued.
LEMMA ResendIInv ==
  ASSUME IInv, NEW k \in DOMAIN queue, Resend(k)
  PROVE  IInv'
<1>1. TypeOK  BY DEF IInv
<1>2. /\ resends < MaxResends /\ resends' = resends + 1
      /\ SendAll(TxnMsgs(SubSeq(queue, 1, k)))
      /\ UNCHANGED <<storeVars, up, conns, s2c, committed, queue, ownVer, data, memVer, ser>>
  BY DEF Resend
<1>3. c2s' \in [Conns -> Seq(C2SMessages)]
  <2>1. queue \in Seq(Own)  BY <1>1, SeqMonotone DEF TypeOK
  <2>2. SubSeq(queue, 1, k) \in Seq(Own)  BY <2>1
  <2> QED  BY <1>1, <1>2, <2>2, TxnMsgsType, Sending
<1>4. resends' \in 0 .. MaxResends  BY <1>1, <1>2, LimitsAssumption DEF TypeOK
<1>5. TypeOK'
  BY <1>1, <1>2, <1>3, <1>4 DEF TypeOK, storeVars, C2SMessages, S2CMessages,
     Versions, TxnVers
<1>6. NothingForgotten' /\ SerializerOK'
  BY <1>2 DEF IInv, NothingForgotten, SerializerOK, storeVars
<1>7. Told' /\ NoOlderSnapshot'
  BY <1>2 DEF IInv, Told, NoOlderSnapshot, VersIn, storeVars
<1> QED  BY <1>5, <1>6, <1>7 DEF IInv

\* What add leaves in _pending is what was there, or the message; where it leaves
\* _index is a number; what it hands on was in _pending, or is the message.
LEMMA AddProperties ==
  ASSUME TypeOK, SerializerOK, NEW txn \in TxnVers, NEW num \in Nat,
         NEW stop \in Stops(ser, num),
         NEW timed \in BOOLEAN, NEW new, new = AfterAdd(ser, txn, num, stop, timed),
         NEW handed, handed = Handed(ser, txn, num, stop)
  PROVE  /\ new.index \in Nat /\ new.waiter \in BOOLEAN
         /\ DOMAIN new.pending \subseteq Nat
         /\ new.pending \in [DOMAIN new.pending -> TxnVers]
         /\ \A n \in DOMAIN new.pending :
              \/ new.pending[n] = txn
              \/ n \in DOMAIN ser.pending /\ new.pending[n] = ser.pending[n]
         /\ new = [index |-> new.index, pending |-> new.pending, waiter |-> new.waiter]
         /\ \E n \in Nat : DOMAIN handed = 1 .. n
         /\ \A i \in DOMAIN handed :
              \/ handed[i] = txn
              \/ \E n \in DOMAIN ser.pending : handed[i] = ser.pending[n]
<1>1. /\ ser.index \in Nat /\ ser.waiter \in BOOLEAN /\ DOMAIN ser.pending \subseteq Nat
      /\ ser.pending \in [DOMAIN ser.pending -> TxnVers]
      /\ ser = [index |-> ser.index, pending |-> ser.pending, waiter |-> ser.waiter]
  BY DEF TypeOK, SerializerOK
<1>2. IF num # ser.index
      THEN stop = ser.index
      ELSE /\ stop \in Nat /\ stop > num
           /\ \A k \in (num + 1) .. (stop - 1) : k \in DOMAIN ser.pending
  BY DEF Stops, Truthy
<1>3. CASE num > ser.index
  <2> DEFINE kept == [n \in DOMAIN ser.pending \cup {num} |->
                        IF n = num THEN txn ELSE ser.pending[n]]
  <2>1. new = [index |-> ser.index, pending |-> kept, waiter |-> ser.waiter \/ timed]
    <3>1. new = [ser EXCEPT !.pending = kept, !.waiter = ser.waiter \/ timed]
      BY <1>1, <1>3 DEF AfterAdd
    <3> QED  BY <1>1, <3>1
  <2>2. /\ DOMAIN kept = DOMAIN ser.pending \cup {num}
        /\ kept \in [DOMAIN kept -> TxnVers]
        /\ \A n \in DOMAIN kept : \/ kept[n] = txn
                                  \/ n \in DOMAIN ser.pending /\ kept[n] = ser.pending[n]
    <3>1. \A n \in DOMAIN ser.pending : ser.pending[n] \in TxnVers  BY <1>1
    <3>2. \A n \in DOMAIN ser.pending \cup {num} :
            /\ (IF n = num THEN txn ELSE ser.pending[n]) \in TxnVers
            /\ n # num => n \in DOMAIN ser.pending
      BY <3>1
    <3> QED  BY <3>2
  <2>3. DOMAIN handed = 1 .. 0 /\ DOMAIN handed = {}  BY <1>1, <1>3 DEF Handed
  <2> HIDE DEF kept
  <2>4. new.index = ser.index /\ new.pending = kept /\ new.waiter \in BOOLEAN
    <3>1. new.index = ser.index  BY <2>1
    <3>2. new.pending = kept  BY <2>1
    <3>3. new.waiter \in BOOLEAN  BY <2>1
    <3> QED  BY <3>1, <3>2, <3>3
  <2>5. DOMAIN new.pending \subseteq Nat  BY <1>1, <2>2, <2>4
  <2>6. new = [index |-> new.index, pending |-> new.pending, waiter |-> new.waiter]
    BY <2>1, <2>4
  <2>7. \E n \in Nat : DOMAIN handed = 1 .. n  BY <2>3
  <2> QED  BY <1>1, <2>2, <2>3, <2>4, <2>5, <2>6, <2>7
<1>4. CASE num < ser.index
  <2>1. new = ser  BY <1>1, <1>4 DEF AfterAdd
  <2>2. DOMAIN handed = 1 .. 0 /\ DOMAIN handed = {}  BY <1>1, <1>4 DEF Handed
  <2> QED  BY <1>1, <2>1, <2>2
<1>5. CASE num = ser.index
  <2> DEFINE kept == [n \in DOMAIN ser.pending \ ((num + 1) .. (stop - 1)) |-> ser.pending[n]]
  <2>1. new = [index |-> stop, pending |-> kept, waiter |-> FALSE]
    BY <1>1, <1>5 DEF AfterAdd
  <2>2. /\ DOMAIN kept \subseteq DOMAIN ser.pending
        /\ kept \in [DOMAIN kept -> TxnVers]
        /\ \A n \in DOMAIN kept : kept[n] = ser.pending[n]
    BY <1>1
  <2>3. /\ DOMAIN handed = 1 .. (stop - num)
        /\ \A i \in 1 .. (stop - num) :
             handed[i] = IF i = 1 THEN txn ELSE ser.pending[num + i - 1]
    BY <1>5 DEF Handed
  <2>4. stop \in Nat /\ stop > num /\ stop - num \in Nat  BY <1>2, <1>5
  <2>5. ASSUME NEW i \in DOMAIN handed
        PROVE  handed[i] = txn \/ \E n \in DOMAIN ser.pending : handed[i] = ser.pending[n]
    <3>1. CASE i = 1  BY <2>3, <3>1
    <3>2. CASE i # 1
      <4>1. i \in 1 .. (stop - num)  BY <2>3
      <4>2. num + i - 1 \in (num + 1) .. (stop - 1)  BY <2>4, <3>2, <4>1
      <4>3. num + i - 1 \in DOMAIN ser.pending  BY <1>2, <1>5, <4>2
      <4>4. handed[i] = ser.pending[num + i - 1]  BY <2>3, <3>2, <4>1
      <4> QED  BY <4>3, <4>4
    <3> QED  BY <3>1, <3>2
  <2> HIDE DEF kept
  <2>6. new.index = stop /\ new.pending = kept /\ new.waiter \in BOOLEAN
    <3>1. new.index = stop  BY <2>1
    <3>2. new.pending = kept  BY <2>1
    <3>3. new.waiter \in BOOLEAN  BY <2>1
    <3> QED  BY <3>1, <3>2, <3>3
  <2>7. DOMAIN new.pending \subseteq Nat  BY <1>1, <2>2, <2>6
  <2>8. new = [index |-> new.index, pending |-> new.pending, waiter |-> new.waiter]
    BY <2>1, <2>6
  <2>9. \E n \in Nat : DOMAIN handed = 1 .. n  BY <2>3, <2>4
  <2> QED  BY <1>1, <2>2, <2>4, <2>5, <2>6, <2>7, <2>8, <2>9
<1>6. num > ser.index \/ num < ser.index \/ num = ser.index  BY <1>1
<1> QED  BY <1>3, <1>4, <1>5, <1>6

\* _onTxn for a list of transactions, all of which were executed: nothing that
\* was not executed leaves the queue, and the memory goes as far as the newest.
LEMMA OnTxnsKeeps ==
  ASSUME TypeOK, NEW txns, NEW n \in Nat, DOMAIN txns = 1 .. n, OnTxns(txns),
         \A i \in DOMAIN txns : txns[i].id \in Txns /\ txns[i].id \in Range(executed)
                                /\ txns[i].ver \in 0 .. Len(executed)
  PROVE  /\ queue' \in Seq(committed) /\ Range(queue) \subseteq Range(queue') \cup Range(executed)
         /\ data' \in [Docs -> Txns \cup {Null}]
         /\ memVer' \in 0 .. Len(executed) /\ memVer' >= memVer
         /\ memVer' = memVer \/ \E i \in DOMAIN txns : memVer' = txns[i].ver
<1> DEFINE new == Newer(txns, memVer)
           LastNew(T) == CHOOSE i \in T : \A j \in T : j <= i
           On(d) == {i \in new : DocOf[txns[i].id] = d}
<1>1. /\ memVer' = IF new = {} THEN memVer ELSE txns[LastNew(new)].ver
      /\ data' = [d \in Docs |-> IF On(d) = {} THEN data[d] ELSE txns[LastNew(On(d))].id]
      /\ queue' = Less(queue, {txns[i].id : i \in new})
  BY DEF OnTxns
<1>2. /\ queue \in Seq(committed) /\ data \in [Docs -> Txns \cup {Null}]
      /\ memVer \in 0 .. Len(executed) /\ executed \in Seq(Txns) /\ Len(executed) \in Nat
  BY DEF TypeOK
<1>3. new \in SUBSET (1 .. n) /\ \A i \in new : i \in DOMAIN txns /\ txns[i].ver > memVer
  BY DEF Newer
<1>4. ASSUME NEW T \in SUBSET (1 .. n), T # {} PROVE LastNew(T) \in T
  <2>1. \E m \in T : \A j \in T : j <= m  BY <1>4, GreatestNumber
  <2> QED  BY <2>1
<1>5. \A d \in Docs : On(d) \in SUBSET (1 .. n) /\ On(d) \subseteq new  BY <1>3
<1> HIDE DEF new, LastNew, On
<1>6. data' \in [Docs -> Txns \cup {Null}]
  <2>1. \A d \in Docs : On(d) # {} => LastNew(On(d)) \in DOMAIN txns  BY <1>3, <1>4, <1>5
  <2> QED  BY <1>1, <1>2, <2>1
<1>7. /\ memVer' \in 0 .. Len(executed) /\ memVer' >= memVer
      /\ memVer' = memVer \/ \E i \in DOMAIN txns : memVer' = txns[i].ver
  <2>1. CASE new = {}  BY <1>1, <1>2, <2>1
  <2>2. CASE new # {}
    <3>1. LastNew(new) \in new  BY <1>3, <1>4, <2>2
    <3>2. PICK m \in DOMAIN txns : memVer' = txns[m].ver /\ txns[m].ver > memVer
      BY <1>1, <1>3, <2>2, <3>1
    <3>3. txns[m].ver \in 0 .. Len(executed)  OBVIOUS
    <3> QED  BY <1>2, <3>2, <3>3
  <2> QED  BY <2>1, <2>2
<1>8. /\ queue' \in Seq(committed)
      /\ Range(queue') = Range(queue) \ {txns[i].id : i \in new}
  BY <1>1, <1>2, LessProperties
<1>9. Range(queue) \subseteq Range(queue') \cup Range(executed)  BY <1>3, <1>8
<1> QED  BY <1>6, <1>7, <1>8, <1>9

\* A transaction as the model has it: its own ones with the version written last.
LEMMA ResolveProperties ==
  ASSUME NEW n \in Nat, NEW txns, DOMAIN txns = 1 .. n, NEW vers \in [Own -> 0 .. Len(executed)],
         \A i \in DOMAIN txns : txns[i] \in TxnVers
  PROVE  /\ DOMAIN Resolve(txns, vers) = 1 .. n
         /\ \A i \in 1 .. n :
              /\ Resolve(txns, vers)[i].id = txns[i].id
              /\ Resolve(txns, vers)[i].ver \in 0 .. Len(executed)
              /\ \/ Resolve(txns, vers)[i].ver = txns[i].ver
                 \/ \E t \in Own : Resolve(txns, vers)[i].ver = vers[t]
<1>1. DOMAIN Resolve(txns, vers) = 1 .. n  BY DEF Resolve
<1>2. ASSUME NEW i \in 1 .. n
      PROVE  /\ Resolve(txns, vers)[i].id = txns[i].id
             /\ Resolve(txns, vers)[i].ver \in 0 .. Len(executed)
             /\ \/ Resolve(txns, vers)[i].ver = txns[i].ver
                \/ \E t \in Own : Resolve(txns, vers)[i].ver = vers[t]
  <2>1. txns[i] \in [id : Txns, ver : 1 .. Len(executed)]  BY DEF TxnVers, Versions
  <2>2. Resolve(txns, vers)[i] = IF txns[i].id \in Own
                                 THEN [txns[i] EXCEPT !.ver = vers[txns[i].id]]
                                 ELSE txns[i]
    BY DEF Resolve
  <2>3. CASE txns[i].id \in Own
    <3>1. vers[txns[i].id] \in 0 .. Len(executed)  BY <2>3
    <3> QED  BY <2>1, <2>2, <2>3, <3>1
  <2>4. CASE txns[i].id \notin Own
    <3>1. txns[i].ver \in 0 .. Len(executed)  BY <2>1
    <3> QED  BY <2>2, <2>4, <3>1
  <2> QED  BY <2>3, <2>4
<1> QED  BY <1>1, <1>2

\* A numbered transaction comes: it is kept, or it is applied and so are those
\* that waited for it.
LEMMA AddTxnKeeps ==
  ASSUME IInv, NEW txn \in TxnVers, txn.id \in Range(executed), NEW num \in Nat,
         ownVer' \in [Own -> 0 .. Len(executed)], AddTxn(txn, num)
  PROVE  /\ queue' \in Seq(committed) /\ Range(queue) \subseteq Range(queue') \cup Range(executed)
         /\ data' \in [Docs -> Txns \cup {Null}]
         /\ memVer' \in 0 .. Len(executed) /\ memVer' >= memVer
         /\ \/ memVer' \in {memVer, txn.ver}
            \/ \E t \in Own : memVer' = ownVer'[t]
            \/ \E n \in DOMAIN ser.pending : memVer' = ser.pending[n].ver
         /\ ser'.index \in Nat /\ ser'.waiter \in BOOLEAN /\ DOMAIN ser'.pending \subseteq Nat
         /\ ser'.pending \in [DOMAIN ser'.pending -> TxnVers]
         /\ \A n \in DOMAIN ser'.pending :
              \/ ser'.pending[n] = txn
              \/ n \in DOMAIN ser.pending /\ ser'.pending[n] = ser.pending[n]
         /\ SerializerOK'
<1>1. TypeOK /\ SerializerOK  BY DEF IInv
<1>2. PICK stop \in Stops(ser, num) :
         /\ ser' = AfterAdd(ser, txn, num, stop, TRUE)
         /\ OnTxns(Resolve(Handed(ser, txn, num, stop), ownVer'))
  BY DEF AddTxn
<1> DEFINE handed == Handed(ser, txn, num, stop)
           txns == Resolve(handed, ownVer')
<1>3. /\ ser'.index \in Nat /\ ser'.waiter \in BOOLEAN /\ DOMAIN ser'.pending \subseteq Nat
      /\ ser'.pending \in [DOMAIN ser'.pending -> TxnVers]
      /\ \A n \in DOMAIN ser'.pending :
           \/ ser'.pending[n] = txn
           \/ n \in DOMAIN ser.pending /\ ser'.pending[n] = ser.pending[n]
      /\ ser' = [index |-> ser'.index, pending |-> ser'.pending, waiter |-> ser'.waiter]
      /\ \E n \in Nat : DOMAIN handed = 1 .. n
      /\ \A i \in DOMAIN handed :
           \/ handed[i] = txn
           \/ \E n \in DOMAIN ser.pending : handed[i] = ser.pending[n]
  <2>1. PICK timed \in BOOLEAN : ser' = AfterAdd(ser, txn, num, stop, timed)  BY <1>2
  <2>2. handed = Handed(ser, txn, num, stop)  OBVIOUS
  <2> HIDE DEF handed
  <2> QED  BY <1>1, <2>1, <2>2, AddProperties
<1>4. PICK n \in Nat : DOMAIN handed = 1 .. n  BY <1>3
<1>5. OnTxns(txns)  BY <1>2
<1> HIDE DEF handed
<1>6. \A i \in DOMAIN handed : handed[i] \in TxnVers /\ handed[i].id \in Range(executed)
  <2>1. \A m \in DOMAIN ser.pending : /\ ser.pending[m] \in TxnVers
                                      /\ ser.pending[m].id \in Range(executed)
    BY <1>1 DEF TypeOK, IInv, Told
  <2> QED  BY <1>3, <2>1
<1>7. /\ DOMAIN txns = 1 .. n
      /\ \A i \in 1 .. n :
           /\ txns[i].id = handed[i].id
           /\ txns[i].ver \in 0 .. Len(executed)
           /\ txns[i].ver = handed[i].ver \/ \E t \in Own : txns[i].ver = ownVer'[t]
  BY <1>4, <1>6, ResolveProperties
<1> HIDE DEF txns
<1>8. \A i \in DOMAIN txns : /\ txns[i].id \in Txns /\ txns[i].id \in Range(executed)
                             /\ txns[i].ver \in 0 .. Len(executed)
  BY <1>4, <1>6, <1>7 DEF TxnVers
<1>9. /\ queue' \in Seq(committed) /\ Range(queue) \subseteq Range(queue') \cup Range(executed)
      /\ data' \in [Docs -> Txns \cup {Null}]
      /\ memVer' \in 0 .. Len(executed) /\ memVer' >= memVer
      /\ memVer' = memVer \/ \E i \in DOMAIN txns : memVer' = txns[i].ver
  BY <1>1, <1>5, <1>7, <1>8, OnTxnsKeeps
<1>10. \/ memVer' \in {memVer, txn.ver}
       \/ \E t \in Own : memVer' = ownVer'[t]
       \/ \E m \in DOMAIN ser.pending : memVer' = ser.pending[m].ver
  <2>1. CASE memVer' = memVer  BY <2>1
  <2>2. ASSUME NEW i \in DOMAIN txns, memVer' = txns[i].ver PROVE <1>10
    <3>1. i \in 1 .. n /\ i \in DOMAIN handed  BY <1>4, <1>7
    <3>2. CASE \E t \in Own : txns[i].ver = ownVer'[t]  BY <2>2, <3>2
    <3>3. CASE txns[i].ver = handed[i].ver  BY <1>3, <2>2, <3>1, <3>3
    <3> QED  BY <1>7, <3>1, <3>2, <3>3
  <2> QED  BY <1>9, <2>1, <2>2
<1>11. SerializerOK'  BY <1>3 DEF SerializerOK
<1> QED  BY <1>3, <1>9, <1>10, <1>11

\* What is known of a snapshot that is behind the message being received.
LEMMA LaterSnapshot ==
  ASSUME IInv, s2c # << >>, s2c' = Tail(s2c),
         NEW l \in DOMAIN s2c', s2c'[l].type = "replace"
  PROVE  LET w == s2c'[l].ver IN
         /\ w \in 0 .. Len(executed) /\ memVer <= w
         /\ \A t \in Own : ownVer[t] <= w
         /\ \A n \in DOMAIN ser.pending : ser.pending[n].ver <= w
         /\ \A v \in VersIn(Head(s2c)) : v <= w
         /\ \A k \in 1 .. l - 1 : \A v \in VersIn(s2c'[k]) : v <= w
<1>1. s2c \in Seq(S2CMessages)  BY DEF IInv, TypeOK
<1>2. PICK n \in Nat : /\ DOMAIN s2c' = 1 .. n /\ DOMAIN s2c = 1 .. n + 1
                       /\ \A i \in 1 .. n : s2c'[i] = s2c[i + 1]
                       /\ Head(s2c) = s2c[1]
  <2>1. Len(s2c) \in Nat /\ Len(s2c) # 0  BY <1>1
  <2>2. Len(s2c) - 1 \in Nat /\ DOMAIN s2c = 1 .. (Len(s2c) - 1) + 1  BY <1>1, <2>1
  <2>3. /\ DOMAIN s2c' = 1 .. Len(s2c) - 1 /\ Head(s2c) = s2c[1]
        /\ \A i \in 1 .. Len(s2c) - 1 : s2c'[i] = s2c[i + 1]
    BY <1>1
  <2> QED  BY <2>2, <2>3
<1>3. /\ l \in 1 .. n /\ l + 1 \in DOMAIN s2c /\ s2c'[l] = s2c[l + 1]
      /\ s2c[l + 1].type = "replace"
  BY <1>2
<1>4. /\ memVer <= s2c[l + 1].ver
      /\ \A t \in Own : ownVer[t] <= s2c[l + 1].ver
      /\ \A m \in DOMAIN ser.pending : ser.pending[m].ver <= s2c[l + 1].ver
      /\ \A k \in 1 .. (l + 1) - 1 : \A v \in VersIn(s2c[k]) : v <= s2c[l + 1].ver
  BY <1>3 DEF IInv, NoOlderSnapshot
<1>5. s2c[l + 1].ver \in 0 .. Len(executed)
  <2>1. s2c[l + 1] \in S2CMessages  BY <1>1, <1>3, Member
  <2> QED  BY <1>3, <2>1, MessageShape
<1>6. \A v \in VersIn(Head(s2c)) : v <= s2c[l + 1].ver
  <2>1. 1 \in 1 .. (l + 1) - 1  BY <1>3
  <2> QED  BY <1>2, <1>4, <2>1
<1>7. \A k \in 1 .. l - 1 : \A v \in VersIn(s2c'[k]) : v <= s2c[l + 1].ver
  <2>1. \A k \in 1 .. l - 1 : k \in 1 .. n /\ k + 1 \in 1 .. (l + 1) - 1  BY <1>3
  <2> QED  BY <1>2, <1>4, <2>1
<1> QED  BY <1>3, <1>4, <1>5, <1>6, <1>7

\* A message is off the line once it is received; those behind it are as they were.
LEMMA Received ==
  ASSUME IInv, s2c # << >>, s2c' = Tail(s2c)
  PROVE  /\ s2c' \in Seq(S2CMessages) /\ Head(s2c) \in S2CMessages
         /\ Head(s2c).type \in {"txn", "txnOk"} => Head(s2c).id \in Range(executed)
         /\ Head(s2c).type = "newTxns" =>
              \A j \in DOMAIN Head(s2c).txns : Head(s2c).txns[j].id \in Range(executed)
         /\ \A i \in DOMAIN s2c' :
              /\ s2c'[i].type \in {"txn", "txnOk"} => s2c'[i].id \in Range(executed)
              /\ s2c'[i].type = "newTxns" =>
                   \A j \in DOMAIN s2c'[i].txns : s2c'[i].txns[j].id \in Range(executed)
<1>1. s2c \in Seq(S2CMessages)  BY DEF IInv, TypeOK
<1>2. /\ s2c' \in Seq(S2CMessages) /\ Head(s2c) \in S2CMessages
      /\ Head(s2c) = s2c[1] /\ 1 \in DOMAIN s2c
      /\ \A i \in DOMAIN s2c' : s2c'[i] = s2c[i + 1] /\ i + 1 \in DOMAIN s2c
  BY <1>1
<1> QED  BY <1>2 DEF IInv, Told

\* What the browser does with any message leaves the invariant as it was, if what
\* it has and keeps afterwards was executed and is not beyond a later snapshot.
LEMMA ReceiveKeeps ==
  ASSUME IInv, s2c # << >>, s2c' = Tail(s2c),
         UNCHANGED <<storeVars, up, conns, committed, resends>>,
         c2s' \in [Conns -> Seq(C2SMessages)],
         queue' \in Seq(committed), Range(queue) \subseteq Range(queue') \cup Range(executed),
         ownVer' \in [Own -> 0 .. Len(executed)],
         data' \in [Docs -> Txns \cup {Null}], memVer' \in 0 .. Len(executed),
         ser'.index \in Nat, ser'.waiter \in BOOLEAN, DOMAIN ser'.pending \subseteq Nat,
         ser'.pending \in [DOMAIN ser'.pending -> TxnVers], SerializerOK',
         \A n \in DOMAIN ser'.pending : ser'.pending[n].id \in Range(executed),
         \A l \in DOMAIN s2c' : s2c'[l].type = "replace" =>
           /\ memVer' <= s2c'[l].ver
           /\ \A t \in Own : ownVer'[t] <= s2c'[l].ver
           /\ \A n \in DOMAIN ser'.pending : ser'.pending[n].ver <= s2c'[l].ver
  PROVE  IInv'
<1>1. TypeOK'
  <2>1. s2c' \in Seq(S2CMessages)  BY Received
  <2> QED
    BY <2>1 DEF IInv, TypeOK, storeVars, C2SMessages, S2CMessages, Versions, TxnVers
<1>2. NothingForgotten'  BY DEF IInv, NothingForgotten, storeVars
<1>3. Told'
  <2>1. executed' = executed /\ buffer' = buffer  BY DEF storeVars
  <2>2. \A i \in DOMAIN buffer : buffer[i].id \in Range(executed)  BY DEF IInv, Told
  <2>3. \A i \in DOMAIN s2c' :
          /\ s2c'[i].type \in {"txn", "txnOk"} => s2c'[i].id \in Range(executed)
          /\ s2c'[i].type = "newTxns" =>
               \A j \in DOMAIN s2c'[i].txns : s2c'[i].txns[j].id \in Range(executed)
    BY Received
  <2> QED  BY <2>1, <2>2, <2>3 DEF Told
<1>4. NoOlderSnapshot'
  <2>1. \A l \in DOMAIN s2c' : s2c'[l].type = "replace" =>
          \A k \in 1 .. l - 1 : \A v \in VersIn(s2c'[k]) : v <= s2c'[l].ver
    BY LaterSnapshot
  <2> QED  BY <2>1 DEF NoOlderSnapshot, VersIn
<1> QED  BY <1>1, <1>2, <1>3, <1>4 DEF IInv

\* A transaction, or an acknowledgement of one still queued, whose version is
\* written into it first.
LEMMA OnNumberedIInv ==
  ASSUME IInv, s2c # << >>, s2c' = Tail(s2c),
         UNCHANGED <<storeVars, up, conns, committed, resends, c2s>>,
         NEW msg, msg = Head(s2c), msg.type \in {"txn", "txnOk"},
         ownVer' \in [Own -> 0 .. Len(executed)],
         \A t \in Own : ownVer'[t] \in {ownVer[t], msg.ver},
         AddTxn(TxnOf(msg), msg.num)
  PROVE  IInv' /\ memVer' >= memVer
<1>1. TypeOK  BY DEF IInv
<1>2. /\ msg \in S2CMessages /\ msg.id \in Range(executed)
  BY Received
<1>3. msg.id \in Txns /\ msg.ver \in Versions /\ msg.num \in Nat
  BY <1>2, MessageShape DEF Txns
<1>4. TxnOf(msg) \in TxnVers /\ TxnOf(msg).id = msg.id /\ TxnOf(msg).ver = msg.ver
  BY <1>3 DEF TxnOf, TxnVers
<1> DEFINE txn == TxnOf(msg)
<1>5. txn \in TxnVers /\ txn.id \in Range(executed) /\ txn.ver = msg.ver  BY <1>2, <1>4
<1> HIDE DEF txn
<1>6. /\ queue' \in Seq(committed) /\ Range(queue) \subseteq Range(queue') \cup Range(executed)
      /\ data' \in [Docs -> Txns \cup {Null}]
      /\ memVer' \in 0 .. Len(executed) /\ memVer' >= memVer
      /\ \/ memVer' \in {memVer, txn.ver}
         \/ \E t \in Own : memVer' = ownVer'[t]
         \/ \E n \in DOMAIN ser.pending : memVer' = ser.pending[n].ver
      /\ ser'.index \in Nat /\ ser'.waiter \in BOOLEAN /\ DOMAIN ser'.pending \subseteq Nat
      /\ ser'.pending \in [DOMAIN ser'.pending -> TxnVers]
      /\ \A n \in DOMAIN ser'.pending :
           \/ ser'.pending[n] = txn
           \/ n \in DOMAIN ser.pending /\ ser'.pending[n] = ser.pending[n]
      /\ SerializerOK'
  <2>1. AddTxn(txn, msg.num)  BY DEF txn
  <2> QED  BY <1>3, <1>5, <2>1, AddTxnKeeps
<1>7. \A n \in DOMAIN ser'.pending : ser'.pending[n].id \in Range(executed)
  BY <1>5, <1>6 DEF IInv, Told
<1>8. ASSUME NEW l \in DOMAIN s2c', s2c'[l].type = "replace"
      PROVE  /\ memVer' <= s2c'[l].ver
             /\ \A t \in Own : ownVer'[t] <= s2c'[l].ver
             /\ \A n \in DOMAIN ser'.pending : ser'.pending[n].ver <= s2c'[l].ver
  <2>1. /\ memVer <= s2c'[l].ver
        /\ \A t \in Own : ownVer[t] <= s2c'[l].ver
        /\ \A n \in DOMAIN ser.pending : ser.pending[n].ver <= s2c'[l].ver
        /\ \A v \in VersIn(Head(s2c)) : v <= s2c'[l].ver
    BY <1>8, LaterSnapshot
  <2>2. txn.ver <= s2c'[l].ver  BY <1>5, <2>1 DEF VersIn
  <2>3. \A t \in Own : ownVer'[t] <= s2c'[l].ver  BY <1>5, <2>1, <2>2
  <2>4. memVer' <= s2c'[l].ver  BY <1>6, <2>1, <2>2, <2>3
  <2>5. \A n \in DOMAIN ser'.pending : ser'.pending[n].ver <= s2c'[l].ver
    BY <1>6, <2>1, <2>2
  <2> QED  BY <2>3, <2>4, <2>5
<1>9. c2s' \in [Conns -> Seq(C2SMessages)]  BY <1>1 DEF TypeOK
<1>10. IInv'  BY <1>6, <1>7, <1>8, <1>9, ReceiveKeeps
<1> QED  BY <1>6, <1>10

\* clearPending only forgets.
LEMMA ClearPendingProperties ==
  ASSUME TypeOK, SerializerOK, NEW new, new = ClearPending(ser)
  PROVE  /\ new = [index |-> new.index, pending |-> new.pending, waiter |-> new.waiter]
         /\ new.index = ser.index /\ new.waiter = ser.waiter
         /\ DOMAIN new.pending \subseteq DOMAIN ser.pending
         /\ new.pending \in [DOMAIN new.pending -> TxnVers]
         /\ \A n \in DOMAIN new.pending : new.pending[n] = ser.pending[n]
<1> DEFINE kept == [n \in {m \in DOMAIN ser.pending : m >= ser.index} |-> ser.pending[n]]
<1>1. new = [index |-> ser.index, pending |-> kept, waiter |-> ser.waiter]
  <2>1. new = [ser EXCEPT !.pending = kept]  BY DEF ClearPending
  <2> HIDE DEF kept
  <2> QED  BY <2>1 DEF SerializerOK
<1>2. /\ DOMAIN kept \subseteq DOMAIN ser.pending
      /\ \A n \in DOMAIN kept : kept[n] = ser.pending[n]
  OBVIOUS
<1>3. kept \in [DOMAIN kept -> TxnVers]  BY DEF TypeOK
<1> HIDE DEF kept
<1>4. new.index = ser.index /\ new.pending = kept /\ new.waiter = ser.waiter  BY <1>1
<1> QED  BY <1>1, <1>2, <1>3, <1>4

\* What was buffered comes: it is applied, and the queue is sent again.
LEMMA OnNewTxnsIInv ==
  ASSUME IInv, s2c # << >>, s2c' = Tail(s2c),
         UNCHANGED <<storeVars, up, conns, committed, resends>>,
         OnNewTxns(Head(s2c))
  PROVE  IInv' /\ memVer' >= memVer
<1> DEFINE msg == Head(s2c)
<1>1. TypeOK /\ SerializerOK  BY DEF IInv
<1>2. /\ msg.type = "newTxns" /\ OnTxns(msg.txns) /\ ser' = ClearPending(ser)
      /\ SendAll(TxnMsgs(queue')) /\ ownVer' = ownVer
  BY DEF OnNewTxns
<1>3. /\ msg.txns \in Seq([id : Others, ver : Versions])
      /\ \A j \in DOMAIN msg.txns : msg.txns[j].id \in Range(executed)
  BY <1>2, Received, MessageShape
<1>4. \A i \in DOMAIN msg.txns : /\ msg.txns[i].id \in Txns /\ msg.txns[i].id \in Range(executed)
                                 /\ msg.txns[i].ver \in 0 .. Len(executed)
  <2>1. \A i \in DOMAIN msg.txns : msg.txns[i] \in [id : Others, ver : Versions]
    BY <1>3, Member
  <2> QED  BY <1>3, <2>1 DEF Txns, Versions
<1>5. PICK n \in Nat : DOMAIN msg.txns = 1 .. n  BY <1>3
<1> DEFINE txns == msg.txns
<1>6. OnTxns(txns) /\ DOMAIN txns = 1 .. n
      /\ \A i \in DOMAIN txns : /\ txns[i].id \in Txns /\ txns[i].id \in Range(executed)
                                /\ txns[i].ver \in 0 .. Len(executed)
      /\ VersIn(msg) = {txns[j].ver : j \in DOMAIN txns}
  BY <1>2, <1>4, <1>5 DEF VersIn
<1> HIDE DEF txns
<1>7. /\ queue' \in Seq(committed) /\ Range(queue) \subseteq Range(queue') \cup Range(executed)
      /\ data' \in [Docs -> Txns \cup {Null}]
      /\ memVer' \in 0 .. Len(executed) /\ memVer' >= memVer
      /\ memVer' = memVer \/ \E i \in DOMAIN txns : memVer' = txns[i].ver
  BY <1>1, <1>6, OnTxnsKeeps
<1>8. c2s' \in [Conns -> Seq(C2SMessages)]
  <2>1. queue' \in Seq(Own)  BY <1>1, <1>7, SeqMonotone DEF TypeOK
  <2> QED  BY <1>1, <1>2, <2>1, TxnMsgsType, Sending
<1>9. /\ ser' = [index |-> ser'.index, pending |-> ser'.pending, waiter |-> ser'.waiter]
      /\ ser'.index = ser.index /\ ser'.waiter = ser.waiter
      /\ DOMAIN ser'.pending \subseteq DOMAIN ser.pending
      /\ ser'.pending \in [DOMAIN ser'.pending -> TxnVers]
      /\ \A m \in DOMAIN ser'.pending : ser'.pending[m] = ser.pending[m]
  BY <1>1, <1>2, ClearPendingProperties
<1>10. /\ ser'.index \in Nat /\ ser'.waiter \in BOOLEAN /\ DOMAIN ser'.pending \subseteq Nat
       /\ SerializerOK' /\ ownVer' \in [Own -> 0 .. Len(executed)]
  BY <1>1, <1>2, <1>9 DEF TypeOK, SerializerOK
<1>11. \A m \in DOMAIN ser'.pending : ser'.pending[m].id \in Range(executed)
  BY <1>9 DEF IInv, Told
<1>12. ASSUME NEW l \in DOMAIN s2c', s2c'[l].type = "replace"
       PROVE  /\ memVer' <= s2c'[l].ver
              /\ \A t \in Own : ownVer'[t] <= s2c'[l].ver
              /\ \A m \in DOMAIN ser'.pending : ser'.pending[m].ver <= s2c'[l].ver
  <2>1. /\ memVer <= s2c'[l].ver
        /\ \A t \in Own : ownVer[t] <= s2c'[l].ver
        /\ \A m \in DOMAIN ser.pending : ser.pending[m].ver <= s2c'[l].ver
        /\ \A v \in VersIn(Head(s2c)) : v <= s2c'[l].ver
    BY <1>12, LaterSnapshot
  <2>2. \A i \in DOMAIN txns : txns[i].ver <= s2c'[l].ver  BY <1>6, <2>1
  <2> QED  BY <1>2, <1>7, <1>9, <2>1, <2>2
<1> HIDE DEF msg
<1>13. IInv'  BY <1>7, <1>8, <1>9, <1>10, <1>11, <1>12, ReceiveKeeps
<1> QED  BY <1>7, <1>13

\* The last transaction on a document is one of those executed.
LEMMA LastOnType ==
  ASSUME TypeOK, NEW ver \in 0 .. Len(executed)
  PROVE  DataAt(ver) \in [Docs -> Txns \cup {Null}]
<1>1. executed \in Seq(Txns) /\ Len(executed) \in Nat  BY DEF TypeOK
<1>2. ASSUME NEW d \in Docs PROVE LastOn(d, ver) \in Txns \cup {Null}
  <2> DEFINE vers == {w \in 1 .. ver : DocOf[executed[w]] = d}
             last == CHOOSE w \in vers : \A x \in vers : x <= w
  <2>1. LastOn(d, ver) = IF vers = {} THEN Null ELSE executed[last]  BY DEF LastOn
  <2>2. vers \in SUBSET (1 .. ver) /\ ver \in Nat  BY <1>1
  <2> HIDE DEF vers
  <2>3. CASE vers = {}  BY <2>1, <2>3
  <2>4. CASE vers # {}
    <3>1. \E w \in vers : \A x \in vers : x <= w  BY <2>2, <2>4, GreatestNumber
    <3>2. last \in vers  BY <3>1
    <3> HIDE DEF last
    <3>3. last \in 1 .. Len(executed)  BY <1>1, <2>2, <3>2
    <3> QED  BY <1>1, <2>1, <2>4, <3>3
  <2> QED  BY <2>3, <2>4
<1> QED  BY <1>2 DEF DataAt

\* A snapshot comes: it is at least as new as what it replaces, and the queue stays.
LEMMA OnReplaceIInv ==
  ASSUME IInv, s2c # << >>, s2c' = Tail(s2c),
         UNCHANGED <<storeVars, up, conns, committed, resends>>,
         OnReplace(Head(s2c))
  PROVE  IInv' /\ memVer' >= memVer
<1> DEFINE msg == Head(s2c)
<1>1. TypeOK /\ SerializerOK  BY DEF IInv
<1>2. /\ msg.type = "replace" /\ ser' = SetIndex(ClearPending(ser), msg.num + 1)
      /\ data' = DataAt(msg.ver) /\ memVer' = msg.ver
      /\ ownVer' = [t \in Own |-> IF t \in Range(queue) THEN msg.ver ELSE ownVer[t]]
      /\ SendAll(TxnMsgs(queue)) /\ queue' = queue
  BY DEF OnReplace
<1>3. msg.ver \in 0 .. Len(executed) /\ msg.num \in Nat
  BY <1>2, Received, MessageShape
<1>4. queue \in Seq(committed) /\ c2s' \in [Conns -> Seq(C2SMessages)]
  <2>1. queue \in Seq(committed) /\ queue \in Seq(Own)  BY <1>1, SeqMonotone DEF TypeOK
  <2> QED  BY <1>1, <1>2, <2>1, TxnMsgsType, Sending
<1>5. data' \in [Docs -> Txns \cup {Null}]  BY <1>1, <1>2, <1>3, LastOnType
<1>6. /\ ser'.index = msg.num + 1 /\ ser'.waiter = ser.waiter
      /\ DOMAIN ser'.pending \subseteq DOMAIN ser.pending
      /\ ser'.pending \in [DOMAIN ser'.pending -> TxnVers]
      /\ \A m \in DOMAIN ser'.pending : ser'.pending[m] = ser.pending[m]
      /\ SerializerOK'
  <2> DEFINE new == ClearPending(ser)
  <2>1. new = ClearPending(ser)  OBVIOUS
  <2> HIDE DEF new
  <2>2. /\ new = [index |-> new.index, pending |-> new.pending, waiter |-> new.waiter]
        /\ new.index = ser.index /\ new.waiter = ser.waiter
        /\ DOMAIN new.pending \subseteq DOMAIN ser.pending
        /\ new.pending \in [DOMAIN new.pending -> TxnVers]
        /\ \A n \in DOMAIN new.pending : new.pending[n] = ser.pending[n]
    BY <1>1, <2>1, ClearPendingProperties
  <2>3. ser' = [index |-> msg.num + 1, pending |-> new.pending, waiter |-> new.waiter]
    BY <1>2, <2>1, <2>2 DEF SetIndex
  <2>4. ser'.index = msg.num + 1 /\ ser'.pending = new.pending /\ ser'.waiter = new.waiter
    BY <2>3
  <2> QED  BY <2>2, <2>3, <2>4 DEF SerializerOK
<1>7. ownVer' \in [Own -> 0 .. Len(executed)]  BY <1>1, <1>2, <1>3 DEF TypeOK
<1>8. memVer' >= memVer
  <2>1. s2c \in Seq(S2CMessages)  BY <1>1 DEF TypeOK
  <2>2. 1 \in DOMAIN s2c /\ s2c[1] = msg  BY <2>1
  <2>3. memVer <= msg.ver  BY <1>2, <2>2 DEF IInv, NoOlderSnapshot
  <2> QED  BY <1>1, <1>2, <1>3, <2>3 DEF TypeOK
<1>9. /\ ser'.index \in Nat /\ ser'.waiter \in BOOLEAN /\ DOMAIN ser'.pending \subseteq Nat
      /\ memVer' \in 0 .. Len(executed)
  BY <1>1, <1>2, <1>3, <1>6 DEF TypeOK
<1>10. \A m \in DOMAIN ser'.pending : ser'.pending[m].id \in Range(executed)
  BY <1>6 DEF IInv, Told
<1>11. ASSUME NEW l \in DOMAIN s2c', s2c'[l].type = "replace"
       PROVE  /\ memVer' <= s2c'[l].ver
              /\ \A t \in Own : ownVer'[t] <= s2c'[l].ver
              /\ \A m \in DOMAIN ser'.pending : ser'.pending[m].ver <= s2c'[l].ver
  <2>1. /\ \A t \in Own : ownVer[t] <= s2c'[l].ver
        /\ \A m \in DOMAIN ser.pending : ser.pending[m].ver <= s2c'[l].ver
        /\ \A v \in VersIn(Head(s2c)) : v <= s2c'[l].ver
    BY <1>11, LaterSnapshot
  <2>2. msg.ver <= s2c'[l].ver  BY <1>2, <2>1 DEF VersIn
  <2> QED  BY <1>2, <1>6, <2>1, <2>2
<1>12. Range(queue) \subseteq Range(queue') \cup Range(executed)  BY <1>2
<1> HIDE DEF msg
<1>13. IInv'
  BY <1>2, <1>4, <1>5, <1>6, <1>7, <1>9, <1>10, <1>11, <1>12, ReceiveKeeps
<1> QED  BY <1>8, <1>13

\* The browser's turn, whatever the message.
LEMMA ClientReceiveIInv ==
  ASSUME IInv, ClientReceive
  PROVE  IInv' /\ memVer' >= memVer
<1> DEFINE msg == Head(s2c)
<1>1. TypeOK /\ SerializerOK  BY DEF IInv
<1>2. /\ s2c # << >> /\ s2c' = Tail(s2c)
      /\ UNCHANGED <<storeVars, up, conns, committed, resends>>
      /\ OnTxnMessage(msg) \/ OnTxnOk(msg) \/ OnNewTxns(msg) \/ OnReplace(msg) \/ OnResync(msg)
  BY DEF ClientReceive
<1>3. ownVer \in [Own -> 0 .. Len(executed)] /\ memVer \in 0 .. Len(executed)
  BY <1>1 DEF TypeOK
\* Nothing that the browser has changes; it may send.
<1>4. ASSUME UNCHANGED <<queue, ownVer, data, memVer, ser>>,
             c2s' \in [Conns -> Seq(C2SMessages)]
      PROVE  IInv' /\ memVer' >= memVer
  <2>1. /\ queue \in Seq(committed) /\ data \in [Docs -> Txns \cup {Null}]
        /\ ser.index \in Nat /\ ser.waiter \in BOOLEAN /\ DOMAIN ser.pending \subseteq Nat
        /\ ser.pending \in [DOMAIN ser.pending -> TxnVers]
    BY <1>1 DEF TypeOK
  <2>2. SerializerOK'  BY <1>1, <1>4 DEF SerializerOK
  <2>3. \A n \in DOMAIN ser.pending : ser.pending[n].id \in Range(executed)
    BY DEF IInv, Told
  <2>4. \A l \in DOMAIN s2c' : s2c'[l].type = "replace" =>
          /\ memVer <= s2c'[l].ver
          /\ \A t \in Own : ownVer[t] <= s2c'[l].ver
          /\ \A n \in DOMAIN ser.pending : ser.pending[n].ver <= s2c'[l].ver
    BY <1>2, LaterSnapshot
  <2>5. Range(queue) \subseteq Range(queue') \cup Range(executed)  BY <1>4
  <2>6. IInv'  BY <1>2, <1>3, <1>4, <2>1, <2>2, <2>3, <2>4, <2>5, ReceiveKeeps
  <2> QED  BY <1>3, <1>4, <2>6
<1>5. CASE OnTxnMessage(msg)
  <2>1. /\ msg.type = "txn" /\ ownVer' = ownVer /\ AddTxn(TxnOf(msg), msg.num) /\ c2s' = c2s
    BY <1>5 DEF OnTxnMessage
  <2>2. /\ ownVer' \in [Own -> 0 .. Len(executed)]
        /\ \A t \in Own : ownVer'[t] \in {ownVer[t], msg.ver}
    BY <1>3, <2>1
  <2> HIDE DEF msg
  <2>3. msg = Head(s2c)  BY DEF msg
  <2> QED  BY <1>2, <2>1, <2>2, <2>3, OnNumberedIInv
<1>6. CASE OnTxnOk(msg)
  <2>1. msg.type = "txnOk" /\ c2s' = c2s  BY <1>6 DEF OnTxnOk
  <2>2. CASE msg.id \in Range(queue)
    <3>1. ownVer' = [ownVer EXCEPT ![msg.id] = msg.ver] /\ AddTxn(TxnOf(msg), msg.num)
      BY <1>6, <2>2 DEF OnTxnOk
    <3>2. msg.ver \in 0 .. Len(executed)
      BY <1>2, <2>1, Received, MessageShape DEF Versions
    <3>3. /\ ownVer' \in [Own -> 0 .. Len(executed)]
          /\ \A t \in Own : ownVer'[t] \in {ownVer[t], msg.ver}
      BY <1>3, <3>1, <3>2
    <3> HIDE DEF msg
    <3>4. msg = Head(s2c)  BY DEF msg
    <3> QED  BY <1>2, <2>1, <3>1, <3>3, <3>4, OnNumberedIInv
  <2>3. CASE msg.id \notin Range(queue)
    <3>1. UNCHANGED <<queue, ownVer, data, memVer, ser>>  BY <1>6, <2>3 DEF OnTxnOk
    <3>2. c2s' \in [Conns -> Seq(C2SMessages)]  BY <1>1, <2>1 DEF TypeOK
    <3> QED  BY <1>4, <3>1, <3>2
  <2> QED  BY <2>2, <2>3
<1>7. CASE OnNewTxns(msg)  BY <1>2, <1>7, OnNewTxnsIInv
<1>8. CASE OnReplace(msg)  BY <1>2, <1>8, OnReplaceIInv
<1>9. CASE OnResync(msg)
  <2>1. SendAll(<<[type |-> "subs"]>>) /\ UNCHANGED <<queue, ownVer, data, memVer, ser>>
    BY <1>9 DEF OnResync
  <2>2. <<[type |-> "subs"]>> \in Seq(C2SMessages)  BY DEF C2SMessages
  <2>3. c2s' \in [Conns -> Seq(C2SMessages)]  BY <1>1, <2>1, <2>2, Sending
  <2> QED  BY <1>4, <2>1, <2>3
<1> QED  BY <1>2, <1>5, <1>6, <1>7, <1>8, <1>9

-----------------------------------------------------------------------------
(* The theorems *)

\* Every step keeps the invariant, and no step takes the memory back.
LEMMA StepIInv ==
  ASSUME IInv, [Next]_vars
  PROVE  IInv' /\ memVer' >= memVer
<1>1. memVer \in Nat /\ DOMAIN queue \subseteq Nat  BY DEF IInv, TypeOK
<1>2. CASE UNCHANGED vars
  <2>1. IInv'
    BY <1>2 DEF IInv, TypeOK, SerializerOK, NothingForgotten, Told, NoOlderSnapshot, VersIn,
       vars, storeVars, netVars, clientVars, C2SMessages, S2CMessages, Versions, TxnVers
  <2> QED  BY <1>1, <1>2, <2>1 DEF vars, clientVars
<1>3. ASSUME NEW t \in Others, StoreTxn(t) PROVE IInv' /\ memVer' >= memVer
  BY <1>1, <1>3, StoreTxnIInv DEF StoreTxn, clientVars
<1>4. ASSUME NEW k \in Conns, ServerReceive(k) PROVE IInv' /\ memVer' >= memVer
  <2>1. memVer' = memVer  BY <1>4 DEF ServerReceive, clientVars
  <2> QED  BY <1>1, <1>4, <2>1, ServerReceiveIInv
<1>5. ASSUME NEW k \in Conns, ServerDisconnect(k) PROVE IInv' /\ memVer' >= memVer
  <2>1. memVer' = memVer  BY <1>5 DEF ServerDisconnect, clientVars
  <2> QED  BY <1>1, <1>5, <2>1, ServerDisconnectIInv
<1>6. CASE BufferExpire
  <2>1. memVer' = memVer  BY <1>6 DEF BufferExpire, clientVars
  <2> QED  BY <1>1, <1>6, <2>1, BufferExpireIInv
<1>7. CASE Connect
  <2>1. memVer' = memVer  BY <1>7 DEF Connect, clientVars
  <2> QED  BY <1>1, <1>7, <2>1, ConnectIInv
<1>8. CASE Drop
  BY <1>1, <1>8, DropIInv DEF Drop, clientVars
<1>9. ASSUME NEW t \in Own, Commit(t) PROVE IInv' /\ memVer' >= memVer
  BY <1>1, <1>9, CommitIInv DEF Commit
<1>10. CASE ClientReceive
  BY <1>10, ClientReceiveIInv
<1>11. CASE Timeout
  BY <1>1, <1>11, TimeoutIInv DEF Timeout
<1>12. ASSUME NEW k \in 1 .. Cardinality(Own), Resend(k) PROVE IInv' /\ memVer' >= memVer
  <2>1. k \in DOMAIN queue  BY <1>12 DEF Resend
  <2> QED  BY <1>1, <1>12, <2>1, ResendIInv DEF Resend
<1> QED
  BY <1>2, <1>3, <1>4, <1>5, <1>6, <1>7, <1>8, <1>9, <1>10, <1>11, <1>12 DEF Next

\* So it holds in every state that is reached.
LEMMA Invariant == Spec => []IInv
<1>1. IInv /\ [Next]_vars => IInv'  BY StepIInv
<1> QED  BY InitIInv, <1>1, PTL DEF Spec

\* The shape of the store's and the browser's state, and that what a client is to
\* be told is sent to its socket or buffered for it, never both, for any number of
\* connections (txns.Store.js, reconnect.Store.js).
THEOREM SyncTypeCorrect == Spec => []TypeOK
<1>1. IInv => TypeOK  BY DEF IInv
<1> QED  BY Invariant, <1>1, PTL

\* Whatever is lost, sent again or replaced by a snapshot, and whichever way the
\* browser reconnects, a transaction of the user is queued until it was executed
\* (_txnQueue and _removeTxn, txns.Model.js).
THEOREM QueuedUntilExecuted == Spec => []NothingForgotten
<1>1. IInv => NothingForgotten  BY DEF IInv
<1> QED  BY Invariant, <1>1, PTL

\* Neither a transaction nor a snapshot takes the model's memory back to an earlier
\* version (_onTxn, txns.Model.js; snapshotUpdate:replace, descriptor.Model.js).
THEOREM NeverBack == Spec => MemoryForward
<1>1. IInv /\ [Next]_vars => [memVer' >= memVer]_vars  BY StepIInv
<1> QED  BY Invariant, <1>1, PTL DEF Spec, MemoryForward

-----------------------------------------------------------------------------
(***************************************************************************)
(* What a browser that comes back only after the store forgot it relies    *)
(* on.  Each connection then begins with a clean slate: the first message  *)
(* is the buffer from the first version on, or a request for the           *)
(* subscriptions, and everything after it has a number.                    *)
(***************************************************************************)

\* The messages that a number comes with, and those of one transaction.
Numbered(msg) == msg.type \in {"txn", "txnOk", "replace"}
OfOne(msg) == msg.type \in {"txn", "txnOk"}
Resync(msg) == msg.type = "resyncWithStore"

\* The version that a model has once it took a message; how far a message goes
\* beyond the one before it.
Brings(msg) == IF msg.type = "newTxns" THEN Len(msg.txns) ELSE msg.ver
Steps(msg) == IF msg.type = "replace" THEN 0 ELSE 1

\* The versions of the messages s go up without gaps, as far as last; those of
\* transactions are beyond ver and all before them.
Ascend(s, last, ver) ==
  /\ \A i \in 1 .. Len(s) : OfOne(s[i]) =>
       /\ ver < s[i].ver
       /\ \A j \in 1 .. i - 1 : ~Resync(s[j]) => Brings(s[j]) < s[i].ver
  /\ \A i \in 2 .. Len(s) : ~Resync(s[i - 1]) => s[i].ver = Brings(s[i - 1]) + Steps(s[i])
  /\ Len(s) > 0 /\ ~Resync(s[Len(s)]) => Brings(s[Len(s)]) = last

\* So do their numbers, up to the one that comes next; the serializer, which waits
\* for index, is not behind them.
Counted(s, next, index) ==
  /\ \A i \in 1 .. Len(s) : Numbered(s[i]) => s[i].num = next - Len(s) + i - 1
  /\ IF Len(s) > 0 /\ ~Numbered(s[1]) THEN next = Len(s) ELSE next <= index + Len(s)

\* The first of the messages s is the one that the serializer waits for, and goes on
\* where the memory, at version ver, is.
Follow(s, last, next, index, ver) ==
  IF Len(s) > 0 /\ s[1].type = "newTxns" THEN TRUE
  ELSE /\ next = index + Len(s)
       /\ IF Len(s) = 0 THEN ver = last ELSE s[1].ver = ver + Steps(s[1])

\* A snapshot is on its way, or the request for one.
SnapshotComing ==
  \/ \E i \in DOMAIN s2c : s2c[i].type \in {"resyncWithStore", "replace"}
  \/ \E i \in DOMAIN c2s[up] : c2s[up][i].type = "subs"

\* The first n transactions, as they are buffered.
Prefix(n) == [i \in 1 .. n |-> [id |-> executed[i], ver |-> i]]

\* Before the first connection.
NothingYet ==
  /\ open = {} /\ up = 0 /\ sock = 0 /\ clientNum = 0 /\ memVer = 0
  /\ ser.index = 1 /\ ~ser.waiter /\ data = [d \in Docs |-> Null]
  /\ buffering => buffer = Prefix(Len(executed))

\* The store has no connection beside the browser's, and numbers from one again
\* when it has forgotten the browser.
Connected ==
  /\ conns = 0 => NothingYet
  /\ up # 0 => open = {up} /\ sock = up /\ ~buffering
  /\ up = 0 => s2c = << >>
  /\ sock # 0 => sock \in open
  /\ open = {} /\ ~buffering => clientNum = 0

\* What is sent to the store was committed, and what is sent to the browser was
\* executed; a buffer comes first, to a memory that is empty.
Sent ==
  /\ \A k \in Conns : \A i \in DOMAIN c2s[k] : c2s[k][i].type = "txn" => c2s[k][i].id \in committed
  /\ \A v \in DOMAIN executed : executed[v] \in Own => executed[v] \in committed
  /\ \A i \in DOMAIN s2c : OfOne(s2c[i]) => executed[s2c[i].ver] = s2c[i].id
  /\ \A i \in DOMAIN s2c : s2c[i].type = "newTxns" =>
       /\ \E n \in 0 .. Len(executed) : s2c[i].txns = Prefix(n)
       /\ memVer = 0 /\ ser.index = 1 /\ data = [d \in Docs |-> Null]
  /\ \A i \in DOMAIN s2c : i > 1 => Numbered(s2c[i])

\* The serializer keeps nothing back, and what was committed is queued until the
\* memory has it: so an acknowledgement is always of something in the queue.
Kept ==
  /\ DOMAIN ser.pending = {} /\ ~ser.waiter
  /\ \A t \in committed : t \in Range(queue) \/ \E v \in 1 .. memVer : executed[v] = t

\* The last transaction on d of the first v of a list.
LastIn(list, d, v) ==
  LET vers == {w \in 1 .. v : DocOf[list[w]] = d}
  IN IF vers = {} THEN Null ELSE list[CHOOSE w \in vers : \A x \in vers : x <= w]

\* The memory is the store's at its version, and what comes goes on from there.
UpToDate ==
  /\ data = [d \in Docs |-> LastIn(executed, d, memVer)]
  /\ Follow(s2c, Len(executed), Num, ser.index, memVer)

\* What holds as long as nothing was executed twice.
OnceInv ==
  /\ ser.index >= 1 /\ (up # 0 => Counted(s2c, Num, ser.index))
  /\ Ascend(s2c, Len(executed), memVer)
  /\ Kept
  /\ up # 0 => SnapshotComing \/ UpToDate

\* The inductive invariant, beside IInv.
SyncInv == Connected /\ Sent /\ (ExecutedOnce => OnceInv)

-----------------------------------------------------------------------------
(* Lists of messages *)

\* A numbered message put at the end, of the next version or a snapshot of the last.
LEMMA AscendAppended ==
  ASSUME NEW s, NEW n \in Nat, Len(s) = n,
         NEW r, Len(r) = n + 1, \A i \in 1 .. n : r[i] = s[i],
         NEW last \in Nat, NEW ver \in 0 .. last,
         \A i \in 1 .. n : ~Resync(s[i]) => Brings(s[i]) \in 0 .. last,
         Ascend(s, last, ver), NEW new \in Nat, Numbered(r[n + 1]), r[n + 1].ver = new,
         new = last + Steps(r[n + 1])
  PROVE  Ascend(r, new, ver)
<1>1. /\ \A i \in 1 .. n : OfOne(s[i]) =>
           /\ ver < s[i].ver
           /\ \A j \in 1 .. i - 1 : ~Resync(s[j]) => Brings(s[j]) < s[i].ver
      /\ \A i \in 2 .. n : ~Resync(s[i - 1]) => s[i].ver = Brings(s[i - 1]) + Steps(s[i])
      /\ n > 0 /\ ~Resync(s[n]) => Brings(s[n]) = last
  BY DEF Ascend
<1>2. /\ ~Resync(r[n + 1]) /\ Brings(r[n + 1]) = new
      /\ OfOne(r[n + 1]) => Steps(r[n + 1]) = 1 /\ new = last + 1
      /\ Steps(r[n + 1]) \in {0, 1}
  BY DEF Numbered, Resync, Brings, OfOne, Steps
<1>3. ASSUME NEW i \in 1 .. n + 1, OfOne(r[i])
      PROVE  /\ ver < r[i].ver
             /\ \A j \in 1 .. i - 1 : ~Resync(r[j]) => Brings(r[j]) < r[i].ver
  <2>1. \A j \in 1 .. i - 1 : j \in 1 .. n /\ r[j] = s[j]  OBVIOUS
  <2>2. CASE i \in 1 .. n
    <3>1. r[i] = s[i]  BY <2>2
    <3> QED  BY <1>1, <1>3, <2>1, <2>2, <3>1
  <2>3. CASE i = n + 1
    <3>1. r[i].ver = last + 1  BY <1>2, <1>3, <2>3
    <3>2. \A j \in 1 .. i - 1 : ~Resync(r[j]) => Brings(r[j]) \in 0 .. last  BY <2>1
    <3> QED  BY <3>1, <3>2
  <2> QED  BY <2>2, <2>3
<1>4. ASSUME NEW i \in 2 .. n + 1, ~Resync(r[i - 1])
      PROVE  r[i].ver = Brings(r[i - 1]) + Steps(r[i])
  <2>1. i - 1 \in 1 .. n /\ r[i - 1] = s[i - 1]  OBVIOUS
  <2>2. CASE i \in 1 .. n  BY <1>1, <1>4, <2>1, <2>2
  <2>3. CASE i = n + 1  BY <1>1, <1>4, <2>1, <2>3
  <2> QED  BY <2>2, <2>3
<1> QED  BY <1>2, <1>3, <1>4 DEF Ascend

\* What is left of n + 1 messages when the first is received; the index it may leave
\* the serializer with; the version it may leave the memory with.
Rest(r, s, n) == Len(s) = n + 1 /\ Len(r) = n /\ \A i \in 1 .. n : r[i] = s[i + 1]
Raised(msg, index, new) ==
  IF Numbered(msg) THEN (msg.num < index /\ new = index) \/ new = msg.num + 1
  ELSE new = index
Brought(msg, ver, new) == new = ver \/ (~Resync(msg) /\ new = Brings(msg))

\* The first message is received; the model has its version, or has been beyond it.
LEMMA AscendTail ==
  ASSUME NEW s, NEW n \in Nat, NEW r, Rest(r, s, n),
         NEW last, NEW ver, Ascend(s, last, ver),
         NEW new, Brought(s[1], ver, new)
  PROVE  /\ Ascend(r, last, new)
         /\ ~Resync(s[1]) /\ new = Brings(s[1]) =>
              IF n = 0 THEN new = last ELSE r[1].ver = new + Steps(r[1])
<1> USE DEF Rest, Brought
<1>1. /\ \A i \in 1 .. n + 1 : OfOne(s[i]) =>
           /\ ver < s[i].ver
           /\ \A j \in 1 .. i - 1 : ~Resync(s[j]) => Brings(s[j]) < s[i].ver
      /\ \A i \in 2 .. n + 1 : ~Resync(s[i - 1]) => s[i].ver = Brings(s[i - 1]) + Steps(s[i])
      /\ ~Resync(s[n + 1]) => Brings(s[n + 1]) = last
  BY DEF Ascend
<1>2. ASSUME NEW i \in 1 .. n, OfOne(r[i])
      PROVE  /\ new < r[i].ver
             /\ \A j \in 1 .. i - 1 : ~Resync(r[j]) => Brings(r[j]) < r[i].ver
  <2>1. i + 1 \in 1 .. n + 1 /\ 1 \in 1 .. (i + 1) - 1 /\ r[i] = s[i + 1]  OBVIOUS
  <2>2. \A j \in 1 .. i - 1 : j + 1 \in 1 .. (i + 1) - 1 /\ r[j] = s[j + 1]  OBVIOUS
  <2> QED  BY <1>1, <1>2, <2>1, <2>2
<1>3. ASSUME NEW i \in 2 .. n, ~Resync(r[i - 1])
      PROVE  r[i].ver = Brings(r[i - 1]) + Steps(r[i])
  <2>1. i + 1 \in 2 .. n + 1 /\ i - 1 \in 1 .. n /\ (i - 1) + 1 = i /\ (i + 1) - 1 = i  OBVIOUS
  <2>2. r[i] = s[i + 1] /\ r[i - 1] = s[i]  BY <2>1
  <2> QED  BY <1>1, <1>3, <2>1, <2>2
<1>4. n > 0 /\ ~Resync(r[n]) => Brings(r[n]) = last
  <2>1. n > 0 => r[n] = s[n + 1]  OBVIOUS
  <2> QED  BY <1>1, <2>1
<1>5. ASSUME ~Resync(s[1]), new = Brings(s[1])
      PROVE  IF n = 0 THEN new = last ELSE r[1].ver = new + Steps(r[1])
  <2>1. CASE n = 0  BY <1>1, <1>5, <2>1
  <2>2. CASE n # 0
    <3>1. 2 \in 2 .. n + 1 /\ r[1] = s[2] /\ 2 - 1 = 1  BY <2>2
    <3> QED  BY <1>1, <1>5, <2>2, <3>1
  <2> QED  BY <2>1, <2>2
<1> QED  BY <1>2, <1>3, <1>4, <1>5 DEF Ascend

\* The numbers go on where they were.
LEMMA CountedAppended ==
  ASSUME NEW s, NEW n \in Nat, Len(s) = n,
         NEW r, Len(r) = n + 1, \A i \in 1 .. n : r[i] = s[i],
         NEW next \in Nat, NEW index \in Nat, Counted(s, next, index),
         Numbered(r[n + 1]), r[n + 1].num = next
  PROVE  Counted(r, next + 1, index)
<1>1. \A i \in 1 .. n : Numbered(s[i]) => s[i].num = (next - n) + i - 1  BY DEF Counted
<1>2. ASSUME NEW i \in 1 .. n + 1, Numbered(r[i]) PROVE r[i].num = ((next + 1) - (n + 1)) + i - 1
  <2>1. CASE i \in 1 .. n
    <3>1. r[i] = s[i]  BY <2>1
    <3> QED  BY <1>1, <1>2, <2>1, <3>1
  <2>2. CASE i = n + 1  BY <2>2
  <2> QED  BY <2>1, <2>2
<1>3. CASE n = 0
  <2>1. next <= index  BY <1>3 DEF Counted
  <2>2. Numbered(r[1])  BY <1>3
  <2> QED  BY <1>2, <1>3, <2>1, <2>2 DEF Counted
<1>4. CASE n # 0
  <2>1. r[1] = s[1]  BY <1>4
  <2>2. IF ~Numbered(s[1]) THEN next = n ELSE next <= index + n  BY <1>4 DEF Counted
  <2>3. IF ~Numbered(r[1]) THEN next + 1 = n + 1 ELSE next + 1 <= index + (n + 1)  BY <2>1, <2>2
  <2> QED  BY <1>2, <2>3 DEF Counted
<1> QED  BY <1>3, <1>4

\* Receiving the first message, which raises the index as far as its number.
LEMMA CountedTail ==
  ASSUME NEW s, NEW n \in Nat, NEW r, Rest(r, s, n), \A i \in 1 .. n : Numbered(r[i]),
         NEW next \in Nat, NEW index \in Nat, index >= 1, Counted(s, next, index),
         NEW new \in Nat, Raised(s[1], index, new)
  PROVE  /\ Counted(r, next, new)
         /\ Numbered(s[1]) => s[1].num = next - (n + 1) /\ s[1].num <= index
<1> USE DEF Rest, Raised
<1>1. \A i \in 1 .. n + 1 : Numbered(s[i]) => s[i].num = (next - (n + 1)) + i - 1
  BY DEF Counted
<1>2. IF ~Numbered(s[1]) THEN next = n + 1 ELSE next <= index + (n + 1)  BY DEF Counted
<1>3. ASSUME NEW i \in 1 .. n PROVE r[i].num = (next - n) + i - 1
  <2>1. i + 1 \in 1 .. n + 1 /\ r[i] = s[i + 1] /\ Numbered(r[i])  OBVIOUS
  <2> QED  BY <1>1, <2>1
<1>4. Numbered(s[1]) => s[1].num = next - (n + 1) /\ s[1].num <= index
  <2>1. 1 \in 1 .. n + 1  OBVIOUS
  <2> QED  BY <1>1, <1>2, <2>1
<1>5. next <= new + n  BY <1>2, <1>4
<1> QED  BY <1>3, <1>4, <1>5 DEF Counted

-----------------------------------------------------------------------------
(* The last transaction on a document *)

\* What came after is of no account.
LEMMA LastInSame ==
  ASSUME NEW v \in Nat, NEW d, NEW f, NEW g, \A w \in 1 .. v : g[w] = f[w]
  PROVE  LastIn(g, d, v) = LastIn(f, d, v)
<1> DEFINE vers == {w \in 1 .. v : DocOf[f[w]] = d}
           last == CHOOSE w \in vers : \A x \in vers : x <= w
           others == {w \in 1 .. v : DocOf[g[w]] = d}
<1>1. others = vers  OBVIOUS
<1>2. LastIn(g, d, v) = IF vers = {} THEN Null ELSE g[last]
  <2>1. LastIn(g, d, v) =
          IF others = {} THEN Null ELSE g[CHOOSE w \in others : \A x \in others : x <= w]
    BY DEF LastIn
  <2> HIDE DEF vers, others
  <2> QED  BY <1>1, <2>1
<1>3. LastIn(f, d, v) = IF vers = {} THEN Null ELSE f[last]  BY DEF LastIn
<1>4. vers \in SUBSET (1 .. v)  OBVIOUS
<1> HIDE DEF vers
<1>5. vers # {} => last \in 1 .. v
  <2>1. vers # {} => \E w \in vers : \A x \in vers : x <= w  BY <1>4, GreatestNumber
  <2> QED  BY <1>4, <2>1
<1> HIDE DEF last
<1> QED  BY <1>2, <1>3, <1>5

\* One more version: its document has its transaction, the others what they had.
LEMMA LastInNext ==
  ASSUME NEW v \in Nat, NEW d, NEW f
  PROVE  LastIn(f, d, v + 1) = IF DocOf[f[v + 1]] = d THEN f[v + 1] ELSE LastIn(f, d, v)
<1> DEFINE before == {w \in 1 .. v : DocOf[f[w]] = d}
           vers == {w \in 1 .. v + 1 : DocOf[f[w]] = d}
           IsLast(w) == w \in vers /\ \A x \in vers : x <= w
<1>1. CASE DocOf[f[v + 1]] = d
  <2>1. IsLast(v + 1)  BY <1>1
  <2>2. \A w : IsLast(w) => w = v + 1
    <3>1. \A w \in vers : w \in Nat /\ w <= v + 1  OBVIOUS
    <3>2. v + 1 \in vers  BY <1>1
    <3> HIDE DEF vers
    <3> QED  BY <3>1, <3>2
  <2>3. LastIn(f, d, v + 1) = IF vers = {} THEN Null ELSE f[CHOOSE w : IsLast(w)]
    BY DEF LastIn
  <2>4. vers # {}  BY <2>1
  <2> HIDE DEF IsLast, vers
  <2>5. (CHOOSE w : IsLast(w)) = v + 1  BY <2>1, <2>2
  <2> QED  BY <1>1, <2>3, <2>4, <2>5
<1>2. CASE DocOf[f[v + 1]] # d
  <2>1. vers = before
    <3>1. \A w : w \in 1 .. v + 1 <=> w \in 1 .. v \/ w = v + 1  OBVIOUS
    <3> QED  BY <1>2, <3>1
  <2>2. LastIn(f, d, v + 1) =
          IF vers = {} THEN Null ELSE f[CHOOSE w \in vers : \A x \in vers : x <= w]
    BY DEF LastIn
  <2>3. LastIn(f, d, v) =
          IF before = {} THEN Null ELSE f[CHOOSE w \in before : \A x \in before : x <= w]
    BY DEF LastIn
  <2> HIDE DEF vers, before
  <2> QED  BY <1>2, <2>1, <2>2, <2>3
<1> QED  BY <1>1, <1>2

-----------------------------------------------------------------------------
(* What the store does *)

\* A message brings a version that was given.
LEMMA Bounds ==
  ASSUME TypeOK, Sent, NEW i \in DOMAIN s2c
  PROVE  /\ s2c[i] \in S2CMessages
         /\ s2c[i].type \in {"txn", "txnOk", "newTxns", "replace", "resyncWithStore"}
         /\ ~Resync(s2c[i]) => Brings(s2c[i]) \in 0 .. Len(executed)
         /\ Numbered(s2c[i]) => s2c[i].num \in Nat
<1>1. s2c \in Seq(S2CMessages) /\ Len(executed) \in Nat  BY DEF TypeOK
<1>2. PICK m : m = s2c[i]  OBVIOUS
<1>3. m \in S2CMessages  BY <1>1, <1>2, Member
<1>4. CASE m.type = "newTxns"
  <2>1. PICK n \in 0 .. Len(executed) : m.txns = Prefix(n)  BY <1>2, <1>4 DEF Sent
  <2>2. Len(m.txns) = n  BY <1>1, <2>1 DEF Prefix
  <2> QED  BY <1>2, <1>3, <1>4, <2>2 DEF Numbered, Brings, Resync
<1>5. CASE m.type \in {"txn", "txnOk", "replace"}
  BY <1>1, <1>2, <1>3, <1>5, MessageShape DEF Numbered, Brings, Resync, Versions
<1>6. CASE m.type = "resyncWithStore"
  BY <1>2, <1>3, <1>6 DEF Numbered, Resync
<1> QED  BY <1>3, <1>4, <1>5, <1>6, MessageShape

\* The store executes at most one transaction at a time.
ExecutesOne ==
  executed' = executed \/ \E t \in Txns : executed' = Append(executed, t)

\* What was executed stays where it was.
LEMMA ExecutedStays ==
  ASSUME TypeOK, ExecutesOne
  PROVE  /\ executed \in Seq(Txns) /\ executed' \in Seq(Txns)
         /\ Len(executed) \in Nat /\ Len(executed') \in Nat /\ Len(executed) <= Len(executed')
         /\ DOMAIN executed = 1 .. Len(executed) /\ DOMAIN executed' = 1 .. Len(executed')
         /\ \A v \in 1 .. Len(executed) : v \in DOMAIN executed' /\ executed'[v] = executed[v]
         /\ ExecutedOnce' => ExecutedOnce
<1>1. executed \in Seq(Txns)  BY DEF TypeOK
<1>2. /\ executed' \in Seq(Txns)
      /\ Len(executed) \in Nat /\ Len(executed') \in Nat /\ Len(executed) <= Len(executed')
      /\ DOMAIN executed = 1 .. Len(executed) /\ DOMAIN executed' = 1 .. Len(executed')
      /\ \A v \in 1 .. Len(executed) : v \in DOMAIN executed' /\ executed'[v] = executed[v]
  BY <1>1 DEF ExecutesOne
<1>3. ExecutedOnce' => ExecutedOnce  BY <1>2 DEF ExecutedOnce, IsInjective
<1> QED  BY <1>1, <1>2, <1>3

\* What the browser keeps is still kept.
LEMMA KeptStays ==
  ASSUME TypeOK, Kept, ExecutesOne, UNCHANGED <<committed, queue, memVer, ser>>
  PROVE  Kept'
<1>1. memVer \in 0 .. Len(executed)  BY DEF TypeOK
<1>2. \A v \in 1 .. memVer : executed'[v] = executed[v]  BY <1>1, ExecutedStays
<1>3. \A t \in committed : t \in Range(queue) \/ \E v \in 1 .. memVer : executed'[v] = t
  BY <1>2 DEF Kept
<1> QED  BY <1>3 DEF Kept

\* The store sends the browser the next numbered message.
Sends(m) ==
  /\ up # 0 /\ up' = up
  /\ s2c' = Append(s2c, m) /\ clientNum' = Num + 1
  /\ Numbered(m) /\ m.num = Num /\ m.ver = Len(executed')
  /\ \/ OfOne(m) /\ m.id \in Txns /\ executed' = Append(executed, m.id)
     \/ m.type = "replace" /\ executed' = executed
  /\ UNCHANGED clientVars

\* The lists before and after.
LEMMA SendsList ==
  ASSUME TypeOK, NEW m, Sends(m)
  PROVE  \E n \in Nat :
           /\ Len(s2c) = n /\ DOMAIN s2c = 1 .. n
           /\ Len(s2c') = n + 1 /\ DOMAIN s2c' = 1 .. n + 1
           /\ s2c'[n + 1] = m /\ \A i \in 1 .. n : s2c'[i] = s2c[i]
           /\ ExecutesOne /\ Len(executed') = Len(executed) + Steps(m) /\ Len(executed) \in Nat
           /\ Num \in Nat /\ Num' = Num + 1
<1>1. s2c \in Seq(S2CMessages) /\ executed \in Seq(Txns)  BY DEF TypeOK
<1>2. PICK n \in Nat : n = Len(s2c)  BY <1>1
<1>3. /\ Len(s2c) = n /\ DOMAIN s2c = 1 .. n
      /\ Len(s2c') = n + 1 /\ DOMAIN s2c' = 1 .. n + 1
      /\ s2c'[n + 1] = m /\ \A i \in 1 .. n : s2c'[i] = s2c[i]
  BY <1>1, <1>2 DEF Sends
<1>4. ExecutesOne /\ Len(executed') = Len(executed) + Steps(m) /\ Len(executed) \in Nat
  BY <1>1 DEF Sends, ExecutesOne, Steps, OfOne
<1>5. Num \in Nat  BY NumIsNat
<1>6. Num' = Num + 1
  <2>1. clientNum' # 0 /\ clientNum' = Num + 1  BY <1>5 DEF Sends
  <2> QED  BY <2>1 DEF Num
<1> QED  BY <1>3, <1>4, <1>5, <1>6

\* It tells of what was executed.
LEMMA SendsSent ==
  ASSUME TypeOK, Connected, Sent, NEW m, Sends(m),
         OfOne(m) => (m.id \in Own => m.id \in committed),
         \A k \in Conns : \A i \in DOMAIN c2s'[k] :
           c2s'[k][i].type = "txn" => c2s'[k][i].id \in committed
  PROVE  Sent'
<1>1. PICK n \in Nat :
           /\ Len(s2c) = n /\ DOMAIN s2c = 1 .. n
           /\ Len(s2c') = n + 1 /\ DOMAIN s2c' = 1 .. n + 1
           /\ s2c'[n + 1] = m /\ \A i \in 1 .. n : s2c'[i] = s2c[i]
           /\ ExecutesOne /\ Len(executed') = Len(executed) + Steps(m) /\ Len(executed) \in Nat
  BY SendsList
<1>2. /\ DOMAIN executed = 1 .. Len(executed) /\ DOMAIN executed' = 1 .. Len(executed')
      /\ \A v \in 1 .. Len(executed) : executed'[v] = executed[v]
      /\ Len(executed) <= Len(executed') /\ Len(executed') \in Nat
  BY <1>1, ExecutedStays
<1>3. \A k \in Conns : \A i \in DOMAIN c2s'[k] :
        c2s'[k][i].type = "txn" => c2s'[k][i].id \in committed'
  BY DEF Sends, clientVars
<1>4. \A v \in DOMAIN executed' : executed'[v] \in Own => executed'[v] \in committed'
  <2>1. committed' = committed  BY DEF Sends, clientVars
  <2>2. ASSUME NEW v \in DOMAIN executed', executed'[v] \in Own PROVE executed'[v] \in committed
    <3>1. CASE v \in 1 .. Len(executed)  BY <1>2, <2>2, <3>1 DEF Sent
    <3>2. CASE v \notin 1 .. Len(executed)
      <4>1. OfOne(m) /\ executed' = Append(executed, m.id)  BY <1>2, <2>2, <3>2 DEF Sends
      <4>2. v = Len(executed) + 1  BY <1>1, <1>2, <2>2, <3>2, <4>1 DEF Steps, OfOne
      <4>3. executed'[v] = m.id
        <5>1. executed \in Seq(Txns)  BY DEF TypeOK
        <5> QED  BY <4>1, <4>2, <5>1
      <4> QED  BY <2>2, <4>1, <4>3
    <3> QED  BY <3>1, <3>2
  <2> QED  BY <2>1, <2>2
<1>5. ASSUME NEW i \in DOMAIN s2c', OfOne(s2c'[i]) PROVE executed'[s2c'[i].ver] = s2c'[i].id
  <2>1. CASE i \in 1 .. n
    <3>1. s2c'[i] = s2c[i] /\ i \in DOMAIN s2c  BY <1>1, <2>1
    <3>2. s2c[i].ver \in 1 .. Len(executed)
      BY <1>5, <3>1, Bounds, MessageShape DEF OfOne, Versions
    <3> QED  BY <1>2, <1>5, <3>1, <3>2 DEF Sent
  <2>2. CASE i = n + 1
    <3>1. executed' = Append(executed, m.id) /\ m.ver = Len(executed')
      BY <1>1, <1>5, <2>2 DEF Sends, OfOne
    <3>2. executed \in Seq(Txns)  BY DEF TypeOK
    <3>3. executed'[Len(executed')] = m.id  BY <3>1, <3>2
    <3> QED  BY <1>1, <2>2, <3>1, <3>3
  <2> QED  BY <1>1, <2>1, <2>2
<1>6. ASSUME NEW i \in DOMAIN s2c', s2c'[i].type = "newTxns"
      PROVE  /\ \E j \in 0 .. Len(executed') : s2c'[i].txns = Prefix(j)'
             /\ memVer' = 0 /\ ser'.index = 1 /\ data' = [d \in Docs |-> Null]
  <2>1. i \in 1 .. n
    <3>1. m.type # "newTxns"  BY DEF Sends, OfOne
    <3> QED  BY <1>1, <1>6, <3>1
  <2>2. s2c'[i] = s2c[i] /\ i \in DOMAIN s2c  BY <1>1, <2>1
  <2>3. PICK j \in 0 .. Len(executed) : s2c[i].txns = Prefix(j)  BY <1>6, <2>2 DEF Sent
  <2>4. memVer = 0 /\ ser.index = 1 /\ data = [d \in Docs |-> Null]  BY <1>6, <2>2 DEF Sent
  <2>5. j \in 0 .. Len(executed') /\ \A v \in 1 .. j : executed'[v] = executed[v]  BY <1>2
  <2>6. Prefix(j)' = Prefix(j)  BY <2>5 DEF Prefix
  <2> QED  BY <2>2, <2>3, <2>4, <2>5, <2>6 DEF Sends, clientVars
<1>7. ASSUME NEW i \in DOMAIN s2c', i > 1 PROVE Numbered(s2c'[i])
  <2>1. Numbered(m)  BY DEF Sends
  <2>2. \A j \in 1 .. n : j > 1 => Numbered(s2c[j])  BY <1>1 DEF Sent
  <2> QED  BY <1>1, <1>7, <2>1, <2>2
<1> QED  BY <1>3, <1>4, <1>5, <1>6, <1>7 DEF Sent

\* The list before was in order: so is the list after.
LEMMA SendsOnce ==
  ASSUME TypeOK, Sent, NEW m, Sends(m), OnceInv
  PROVE  /\ ser'.index >= 1 /\ Counted(s2c', Num', ser'.index)
         /\ Ascend(s2c', Len(executed'), memVer')
         /\ Kept'
         /\ UpToDate => UpToDate'
<1>1. PICK n \in Nat :
           /\ Len(s2c) = n /\ DOMAIN s2c = 1 .. n
           /\ Len(s2c') = n + 1 /\ DOMAIN s2c' = 1 .. n + 1
           /\ s2c'[n + 1] = m /\ \A i \in 1 .. n : s2c'[i] = s2c[i]
           /\ ExecutesOne /\ Len(executed') = Len(executed) + Steps(m) /\ Len(executed) \in Nat
           /\ Num \in Nat /\ Num' = Num + 1
  BY SendsList
<1>2. PICK s : s = s2c  OBVIOUS
<1>3. PICK r : r = s2c'  OBVIOUS
<1>4. PICK last : last = Len(executed)  OBVIOUS
<1>5. PICK next : next = Num  OBVIOUS
<1>6. PICK ver : ver = memVer  OBVIOUS
<1>7. PICK index : index = ser.index  OBVIOUS
<1>8. /\ ver \in 0 .. last /\ last \in Nat /\ index \in Nat /\ next \in Nat
      /\ memVer' = ver /\ ser'.index = index /\ ser' = ser /\ data' = data
      /\ Len(executed') = last + Steps(m) /\ Len(executed') \in Nat /\ Num' = next + 1
      /\ Numbered(m) /\ m.num = next /\ m.ver = Len(executed')
  <2>1. memVer \in 0 .. Len(executed) /\ ser.index \in Nat  BY DEF TypeOK
  <2>2. Len(executed') \in Nat  BY <1>1, ExecutedStays
  <2> QED  BY <1>1, <1>4, <1>5, <1>6, <1>7, <2>1, <2>2 DEF Sends, clientVars
<1>9. /\ Len(s) = n /\ Len(r) = n + 1 /\ r[n + 1] = m /\ \A i \in 1 .. n : r[i] = s[i]
  BY <1>1, <1>2, <1>3
<1>10. \A i \in 1 .. n : ~Resync(s[i]) => Brings(s[i]) \in 0 .. last
  BY <1>1, <1>2, <1>4, Bounds
<1>11. Counted(s, next, index) /\ Ascend(s, last, ver) /\ index >= 1
  BY <1>2, <1>4, <1>5, <1>6, <1>7 DEF OnceInv, Sends
<1>12. Counted(r, next + 1, index)
  BY <1>8, <1>9, <1>11, CountedAppended
<1>13. PICK new : new = Len(executed')  OBVIOUS
<1>14. Ascend(r, new, ver)
  <2>1. new \in Nat /\ r[n + 1].ver = new /\ new = last + Steps(r[n + 1]) /\ Numbered(r[n + 1])
    BY <1>8, <1>9, <1>13
  <2> QED  BY <1>8, <1>9, <1>10, <1>11, <2>1, AscendAppended
<1>15. Kept'
  BY <1>1, KeptStays DEF OnceInv, Sends, clientVars
<1>16. ASSUME UpToDate PROVE UpToDate'
  <2>1. PICK f : f = executed  OBVIOUS
  <2>2. PICK g : g = executed'  OBVIOUS
  <2>3. ver \in Nat /\ \A w \in 1 .. ver : g[w] = f[w]
    BY <1>1, <1>4, <1>8, <2>1, <2>2, ExecutedStays
  <2>4. \A d \in Docs : LastIn(g, d, ver) = LastIn(f, d, ver)  BY <2>3, LastInSame
  <2>5. data = [d \in Docs |-> LastIn(f, d, ver)]  BY <1>6, <1>16, <2>1 DEF UpToDate
  <2>6. data = [d \in Docs |-> LastIn(g, d, ver)]  BY <2>4, <2>5
  <2>7. Follow(s, last, next, index, ver)  BY <1>2, <1>4, <1>5, <1>6, <1>7, <1>16 DEF UpToDate
  <2>8. Follow(r, new, next + 1, index, ver)
    <3>1. CASE n = 0
      <4>1. next = index /\ ver = last  BY <1>8, <1>9, <2>7, <3>1 DEF Follow
      <4>2. r[1] = m /\ m.type # "newTxns"  BY <1>8, <1>9, <3>1 DEF Numbered
      <4> QED  BY <1>8, <1>9, <1>13, <3>1, <4>1, <4>2 DEF Follow
    <3>2. CASE n # 0
      <4>1. r[1] = s[1]  BY <1>9, <3>2
      <4> QED  BY <1>8, <1>9, <2>7, <3>2, <4>1 DEF Follow
    <3> QED  BY <3>1, <3>2
  <2> QED  BY <1>3, <1>8, <1>13, <2>2, <2>6, <2>8 DEF UpToDate
<1> QED  BY <1>3, <1>8, <1>11, <1>12, <1>13, <1>14, <1>15, <1>16

\* What the model's user did not do is not executed for it.
OwnCommitted == \A t \in Own : executed' = Append(executed, t) => t \in committed

\* Nobody hears of it: what was sent stays as it was, or is lost.
LEMMA SentStays ==
  ASSUME TypeOK, Sent, ExecutesOne, s2c' = s2c \/ s2c' = << >>, UNCHANGED clientVars,
         OwnCommitted,
         \A k \in Conns : \A i \in DOMAIN c2s'[k] :
           c2s'[k][i].type = "txn" => c2s'[k][i].id \in committed
  PROVE  Sent'
<1>1. /\ DOMAIN executed = 1 .. Len(executed) /\ DOMAIN executed' = 1 .. Len(executed')
      /\ \A v \in 1 .. Len(executed) : executed'[v] = executed[v]
      /\ Len(executed) <= Len(executed') /\ Len(executed) \in Nat /\ Len(executed') \in Nat
  BY ExecutedStays
<1>2. committed' = committed /\ memVer' = memVer /\ ser' = ser /\ data' = data
  BY DEF clientVars
<1>3. ASSUME NEW v \in DOMAIN executed', executed'[v] \in Own PROVE executed'[v] \in committed
  <2>1. CASE v \in 1 .. Len(executed)  BY <1>1, <1>3, <2>1 DEF Sent
  <2>2. CASE v \notin 1 .. Len(executed)
    <3>1. PICK t \in Txns : executed' = Append(executed, t)  BY <1>1, <1>3, <2>2 DEF ExecutesOne
    <3>2. executed \in Seq(Txns)  BY DEF TypeOK
    <3>3. executed'[v] = t  BY <1>1, <1>3, <2>2, <3>1, <3>2
    <3> QED  BY <1>3, <3>1, <3>3 DEF OwnCommitted
  <2> QED  BY <2>1, <2>2
<1>4. ASSUME NEW i \in DOMAIN s2c'
      PROVE  /\ OfOne(s2c'[i]) => executed'[s2c'[i].ver] = s2c'[i].id
             /\ s2c'[i].type = "newTxns" =>
                  /\ \E n \in 0 .. Len(executed') : s2c'[i].txns = Prefix(n)'
                  /\ memVer = 0 /\ ser.index = 1 /\ data = [d \in Docs |-> Null]
             /\ i > 1 => Numbered(s2c'[i])
  <2>1. s2c' = s2c /\ i \in DOMAIN s2c /\ s2c'[i] = s2c[i]  BY <1>4
  <2>2. ASSUME OfOne(s2c[i]) PROVE executed'[s2c[i].ver] = s2c[i].id
    <3>1. s2c[i].ver \in 1 .. Len(executed)
      BY <2>1, <2>2, Bounds, MessageShape DEF OfOne, Versions
    <3> QED  BY <1>1, <2>1, <2>2, <3>1 DEF Sent
  <2>3. ASSUME s2c[i].type = "newTxns"
        PROVE  /\ \E n \in 0 .. Len(executed') : s2c[i].txns = Prefix(n)'
               /\ memVer = 0 /\ ser.index = 1 /\ data = [d \in Docs |-> Null]
    <3>1. PICK j \in 0 .. Len(executed) : s2c[i].txns = Prefix(j)  BY <2>1, <2>3 DEF Sent
    <3>2. j \in 0 .. Len(executed')  BY <1>1
    <3>3. \A v \in 1 .. j : v \in 1 .. Len(executed)  BY <1>1
    <3>4. Prefix(j)' = Prefix(j)  BY <1>1, <3>3 DEF Prefix
    <3> QED  BY <2>1, <2>3, <3>1, <3>2, <3>4 DEF Sent
  <2>4. i > 1 => Numbered(s2c[i])  BY <2>1 DEF Sent
  <2> QED  BY <2>1, <2>2, <2>3, <2>4
<1>5. Sent' <=>
        /\ \A k \in Conns : \A i \in DOMAIN c2s'[k] :
             c2s'[k][i].type = "txn" => c2s'[k][i].id \in committed
        /\ \A v \in DOMAIN executed' : executed'[v] \in Own => executed'[v] \in committed
        /\ \A i \in DOMAIN s2c' : OfOne(s2c'[i]) => executed'[s2c'[i].ver] = s2c'[i].id
        /\ \A i \in DOMAIN s2c' : s2c'[i].type = "newTxns" =>
             /\ \E n \in 0 .. Len(executed') : s2c'[i].txns = Prefix(n)'
             /\ memVer = 0 /\ ser.index = 1 /\ data = [d \in Docs |-> Null]
        /\ \A i \in DOMAIN s2c' : i > 1 => Numbered(s2c'[i])
  BY <1>2 DEF Sent
<1> QED  BY <1>3, <1>4, <1>5

\* While the browser is away it keeps what it has.
LEMMA AwayOnce ==
  ASSUME TypeOK, OnceInv, ExecutesOne, UNCHANGED clientVars, up' = 0, s2c' = << >>
  PROVE  OnceInv'
<1>1. Kept'  BY KeptStays DEF OnceInv, clientVars
<1>2. Len(<< >>) = 0  BY EmptySeq
<1>3. Ascend(s2c', Len(executed'), memVer')  BY <1>2 DEF Ascend
<1> QED  BY <1>1, <1>3 DEF OnceInv, clientVars

\* Somebody else's transaction.
LEMMA StoreTxnSync ==
  ASSUME TypeOK, SyncInv, NEW t \in Others, StoreTxn(t)
  PROVE  SyncInv'
<1> DEFINE v == Len(executed) + 1
           m == [type |-> "txn", id |-> t, ver |-> v, num |-> Num]
<1>1. /\ executed' = Append(executed, t)
      /\ UNCHANGED <<sock, buffering, open, up, conns, c2s, clientVars>>
      /\ \/ /\ sock # 0 /\ EmitNumbered(sock, m) /\ buffer' = buffer
         \/ /\ sock = 0 /\ UNCHANGED <<clientNum, s2c>>
            /\ buffer' = IF buffering THEN Append(buffer, [id |-> t, ver |-> v]) ELSE buffer
  BY DEF StoreTxn
<1>2. executed \in Seq(Txns) /\ t \in Txns /\ t \notin Own /\ ExecutesOne
  BY <1>1, TxnsAssumption DEF TypeOK, Txns, ExecutesOne
<1>3. Connected /\ Sent  BY DEF SyncInv
<1>4. Connected'
  <2>1. conns = 0 => NothingYet'
    <3> SUFFICES ASSUME conns = 0 PROVE NothingYet'  OBVIOUS
    <3>1. NothingYet /\ sock = 0  BY <1>3 DEF Connected, NothingYet
    <3>2. ASSUME buffering PROVE buffer' = Prefix(Len(executed))'
      <4>1. buffer = Prefix(Len(executed))  BY <3>1, <3>2 DEF NothingYet
      <4>2. buffer' = Append(buffer, [id |-> t, ver |-> v])  BY <1>1, <3>1, <3>2
      <4>3. PICK n \in Nat : n = Len(executed)  BY <1>2
      <4>4. /\ Len(executed') = n + 1 /\ executed'[n + 1] = t
            /\ \A i \in 1 .. n : executed'[i] = executed[i]
        BY <1>1, <1>2, <4>3
      <4>5. PICK b : b = buffer  OBVIOUS
      <4>6. /\ Len(b) = n /\ b = [i \in 1 .. n |-> b[i]]
            /\ \A i \in 1 .. n : b[i] = [id |-> executed[i], ver |-> i]
        BY <4>1, <4>3, <4>5 DEF Prefix
      <4>7. Append(b, [id |-> t, ver |-> n + 1])
              = [i \in 1 .. n + 1 |-> IF i = n + 1 THEN [id |-> t, ver |-> n + 1] ELSE b[i]]
        BY <4>6
      <4>8. ASSUME NEW i \in 1 .. n + 1
            PROVE  (IF i = n + 1 THEN [id |-> t, ver |-> n + 1] ELSE b[i])
                     = [id |-> executed'[i], ver |-> i]
        BY <4>4, <4>6
      <4>9. buffer' = [i \in 1 .. n + 1 |-> [id |-> executed'[i], ver |-> i]]
        BY <4>2, <4>3, <4>5, <4>7, <4>8
      <4> QED  BY <4>4, <4>9 DEF Prefix
    <3> QED  BY <1>1, <3>1, <3>2 DEF NothingYet, clientVars
  <2>2. up = 0 => s2c' = << >>
    <3>1. sock # 0 => sock # 0  OBVIOUS
    <3> QED  BY <1>1, <1>3 DEF Connected, EmitNumbered, Emit
  <2>3. open = {} /\ ~buffering => clientNum' = 0  BY <1>1, <1>3 DEF Connected
  <2> QED  BY <1>1, <1>3, <2>1, <2>2, <2>3 DEF Connected
<1>5. \A k \in Conns : \A i \in DOMAIN c2s'[k] :
        c2s'[k][i].type = "txn" => c2s'[k][i].id \in committed
  BY <1>1, <1>3 DEF Sent
<1>6. CASE up # 0
  <2>1. sock = up /\ sock # 0  BY <1>3, <1>6 DEF Connected
  <2>2. EmitNumbered(sock, m)  BY <1>1, <2>1
  <2>3. s2c' = Append(s2c, m) /\ clientNum' = Num + 1  BY <2>1, <2>2 DEF EmitNumbered, Emit
  <2>4. Len(executed') = v  BY <1>1, <1>2
  <2>5. /\ m.type = "txn" /\ m.ver = v /\ m.id = t /\ m.num = Num
        /\ Numbered(m) /\ OfOne(m)
    BY DEF Numbered, OfOne
  <2>6. PICK x : x = m  OBVIOUS
  <2>7. Sends(x)
    BY <1>1, <1>2, <1>6, <2>3, <2>4, <2>5, <2>6 DEF Sends
  <2>8. Sent'
    BY <1>2, <1>3, <1>5, <2>5, <2>6, <2>7, SendsSent
  <2>9. ASSUME ExecutedOnce' PROVE OnceInv'
    <3>1. OnceInv  BY <1>2, <2>9, ExecutedStays DEF SyncInv
    <3>2. /\ ser'.index >= 1 /\ Counted(s2c', Num', ser'.index)
          /\ Ascend(s2c', Len(executed'), memVer') /\ Kept' /\ (UpToDate => UpToDate')
      BY <1>3, <2>7, <3>1, SendsOnce
    <3>3. SnapshotComing => SnapshotComing'
      <4>1. \A i \in DOMAIN s2c : i \in DOMAIN s2c' /\ s2c'[i] = s2c[i]
        <5>1. PICK n \in Nat : /\ DOMAIN s2c = 1 .. n /\ DOMAIN s2c' = 1 .. n + 1
                               /\ \A i \in 1 .. n : s2c'[i] = s2c[i]
          BY <2>7, SendsList
        <5> QED  BY <5>1
      <4> QED  BY <1>1, <4>1 DEF SnapshotComing
    <3> QED  BY <1>1, <1>6, <3>1, <3>2, <3>3 DEF OnceInv
  <2> QED  BY <1>4, <2>8, <2>9 DEF SyncInv
<1>7. CASE up = 0
  <2>1. s2c = << >> /\ s2c' = << >> /\ up' = 0
    BY <1>1, <1>3, <1>4, <1>7 DEF Connected
  <2>2. OwnCommitted
    <3>1. Len(executed) \in Nat /\ executed'[Len(executed) + 1] = t  BY <1>1, <1>2
    <3>2. \A o \in Own : o \in Txns  BY DEF Txns
    <3>3. \A o \in Own : executed' = Append(executed, o) => executed'[Len(executed) + 1] = o
      BY <1>2, <3>1, <3>2
    <3> QED  BY <1>2, <3>1, <3>3 DEF OwnCommitted
  <2>3. Sent'  BY <1>1, <1>2, <1>3, <1>5, <2>1, <2>2, SentStays
  <2>4. ASSUME ExecutedOnce' PROVE OnceInv'
    <3>1. OnceInv  BY <1>2, <2>4, ExecutedStays DEF SyncInv
    <3> QED  BY <1>1, <1>2, <2>1, <3>1, AwayOnce
  <2> QED  BY <1>4, <2>3, <2>4 DEF SyncInv
<1> QED  BY <1>6, <1>7

\* The store handles a message.
LEMMA ServerReceiveSync ==
  ASSUME TypeOK, SyncInv, NEW k \in Conns, ServerReceive(k)
  PROVE  SyncInv'
<1> DEFINE msg == Head(c2s[k])
<1>1. /\ k \in open /\ c2s[k] # << >> /\ OnMessage(k, msg)
      /\ c2s' = [c2s EXCEPT ![k] = Tail(@)]
      /\ UNCHANGED <<sock, buffering, buffer, open, up, conns, clientVars>>
  BY DEF ServerReceive
<1>2. Connected /\ Sent /\ executed \in Seq(Txns) /\ c2s \in [Conns -> Seq(C2SMessages)]
      /\ s2c \in Seq(S2CMessages)
  BY DEF SyncInv, TypeOK
<1>3. PICK q : q = c2s[k]  OBVIOUS
<1>4. PICK n \in Nat : /\ Len(q) = n + 1 /\ DOMAIN q = 1 .. n + 1 /\ q[1] = msg
                       /\ Len(Tail(q)) = n /\ DOMAIN Tail(q) = 1 .. n
                       /\ \A i \in 1 .. n : Tail(q)[i] = q[i + 1]
  <2>1. q \in Seq(C2SMessages) /\ q # << >>  BY <1>1, <1>2, <1>3
  <2>2. Len(q) \in Nat /\ Len(q) # 0  BY <2>1, EmptySeq
  <2>3. PICK n \in Nat : Len(q) = n + 1
    <3>1. Len(q) - 1 \in Nat /\ Len(q) = (Len(q) - 1) + 1  BY <2>2
    <3> QED  BY <3>1
  <2>4. Len(Tail(q)) = n /\ DOMAIN Tail(q) = 1 .. n /\ \A i \in 1 .. n : Tail(q)[i] = q[i + 1]
    BY <2>1, <2>3, HeadTailProperties
  <2> QED  BY <1>3, <2>1, <2>3, <2>4
<1>5. c2s'[k] = Tail(q) /\ \A j \in Conns : j # k => c2s'[j] = c2s[j]
  BY <1>1, <1>2, <1>3
<1>6. msg \in C2SMessages /\ msg.type \in {"txn", "subs", "fetch:snapshot"}
      /\ (msg.type = "txn" => msg.id \in Own /\ msg.id \in committed /\ msg.id \in Txns)
  <2>1. 1 \in DOMAIN q /\ q \in Seq(C2SMessages)  BY <1>2, <1>3, <1>4
  <2>2. msg \in C2SMessages  BY <1>4, <2>1, Member
  <2>3. msg.type = "txn" => msg.id \in committed  BY <1>2, <1>3, <1>4, <2>1 DEF Sent
  <2> QED  BY <2>2, <2>3 DEF C2SMessages, Txns
<1>7. \A j \in Conns : \A i \in DOMAIN c2s'[j] :
        c2s'[j][i].type = "txn" => c2s'[j][i].id \in committed
  <2> SUFFICES ASSUME NEW j \in Conns, NEW i \in DOMAIN c2s'[j], c2s'[j][i].type = "txn"
               PROVE  c2s'[j][i].id \in committed
    OBVIOUS
  <2>1. CASE j # k  BY <1>2, <1>5, <2>1 DEF Sent
  <2>2. CASE j = k
    <3>1. i \in 1 .. n /\ c2s'[j][i] = q[i + 1] /\ i + 1 \in DOMAIN q  BY <1>4, <1>5, <2>2
    <3> QED  BY <1>2, <1>3, <3>1 DEF Sent
  <2> QED  BY <2>1, <2>2
<1>8. PICK m :
        /\ s2c' = (IF k = up THEN Append(s2c, m) ELSE s2c) /\ clientNum' = Num + 1
        /\ Numbered(m) /\ m.num = Num /\ m.ver = Len(executed')
        /\ \/ msg.type = "txn" /\ OfOne(m) /\ m.id = msg.id /\ executed' = Append(executed, m.id)
           \/ msg.type # "txn" /\ m.type = "replace" /\ executed' = executed
  <2>1. CASE msg.type = "txn"
    <3> DEFINE m == [type |-> "txnOk", id |-> msg.id, ver |-> Len(executed) + 1, num |-> Num]
    <3>1. executed' = Append(executed, msg.id) /\ EmitNumbered(k, m)  BY <1>1, <2>1 DEF OnMessage
    <3>2. m.type = "txnOk" /\ m.id = msg.id /\ m.ver = Len(executed) + 1 /\ m.num = Num  OBVIOUS
    <3>3. Len(executed') = Len(executed) + 1  BY <1>2, <1>6, <2>1, <3>1
    <3> HIDE DEF m
    <3>4. OfOne(m) /\ Numbered(m)  BY <3>2 DEF OfOne, Numbered
    <3> QED  BY <2>1, <3>1, <3>2, <3>3, <3>4 DEF EmitNumbered, Emit
  <2>2. CASE msg.type # "txn"
    <3> DEFINE m == [type |-> "replace", ver |-> Len(executed), num |-> Num]
    <3>1. executed' = executed /\ EmitNumbered(k, m)  BY <1>1, <2>2 DEF OnMessage
    <3>2. m.type = "replace" /\ m.ver = Len(executed) /\ m.num = Num  OBVIOUS
    <3> HIDE DEF m
    <3>3. Numbered(m)  BY <3>2 DEF Numbered
    <3> QED  BY <2>2, <3>1, <3>2, <3>3 DEF EmitNumbered, Emit
  <2> QED  BY <2>1, <2>2
<1>9. ExecutesOne  BY <1>6, <1>8 DEF ExecutesOne
<1>10. Connected'
  <2>1. conns # 0 /\ open # {}  BY <1>1, <1>2 DEF Connected, NothingYet
  <2>2. up = 0 => s2c' = s2c  BY <1>8, LimitsAssumption DEF Conns
  <2> QED  BY <1>1, <1>2, <2>1, <2>2 DEF Connected
<1>11. CASE up # 0
  <2>1. k = up  BY <1>1, <1>2, <1>11 DEF Connected
  <2>2. Sends(m)  BY <1>1, <1>6, <1>8, <1>11, <2>1 DEF Sends
  <2>3. Sent'  BY <1>2, <1>6, <1>7, <1>8, <2>2, SendsSent DEF OfOne
  <2>4. ASSUME ExecutedOnce' PROVE OnceInv'
    <3>1. OnceInv  BY <1>9, <2>4, ExecutedStays DEF SyncInv
    <3>2. /\ ser'.index >= 1 /\ Counted(s2c', Num', ser'.index)
          /\ Ascend(s2c', Len(executed'), memVer') /\ Kept' /\ (UpToDate => UpToDate')
      BY <1>2, <2>2, <3>1, SendsOnce
    <3>3. PICK l \in Nat : /\ DOMAIN s2c = 1 .. l /\ DOMAIN s2c' = 1 .. l + 1
                           /\ s2c'[l + 1] = m /\ \A i \in 1 .. l : s2c'[i] = s2c[i]
      BY <2>2, SendsList
    <3>4. msg.type # "txn" => SnapshotComing'
      <4>1. msg.type # "txn" => l + 1 \in DOMAIN s2c' /\ s2c'[l + 1].type = "replace"
        BY <1>8, <3>3
      <4> QED  BY <4>1 DEF SnapshotComing
    <3>5. ASSUME msg.type = "txn", SnapshotComing PROVE SnapshotComing'
      <4>1. CASE \E i \in DOMAIN s2c : s2c[i].type \in {"resyncWithStore", "replace"}
        <5>1. \A i \in DOMAIN s2c : i \in DOMAIN s2c' /\ s2c'[i] = s2c[i]  BY <3>3
        <5> QED  BY <4>1, <5>1 DEF SnapshotComing
      <4>2. CASE \E i \in DOMAIN c2s[up] : c2s[up][i].type = "subs"
        <5>1. PICK i \in 1 .. n + 1 : q[i].type = "subs"  BY <1>3, <1>4, <2>1, <4>2
        <5>2. i # 1  BY <1>4, <3>5, <5>1
        <5>3. i - 1 \in 1 .. n /\ (i - 1) + 1 = i  BY <5>2
        <5>4. i - 1 \in DOMAIN Tail(q) /\ Tail(q)[i - 1].type = "subs"  BY <1>4, <5>1, <5>3
        <5>5. up' = up /\ c2s'[up] = Tail(q)  BY <1>1, <1>5, <2>1
        <5> QED  BY <5>4, <5>5 DEF SnapshotComing
      <4> QED  BY <3>5, <4>1, <4>2 DEF SnapshotComing
    <3> QED  BY <1>11, <3>1, <3>2, <3>4, <3>5 DEF OnceInv
  <2> QED  BY <1>10, <2>3, <2>4 DEF SyncInv
<1>12. CASE up = 0
  <2>1. s2c = << >> /\ s2c' = << >> /\ up' = 0
    BY <1>1, <1>2, <1>10, <1>12 DEF Connected
  <2>2. OwnCommitted
    <3> SUFFICES ASSUME NEW o \in Own, executed' = Append(executed, o) PROVE o \in committed
      BY DEF OwnCommitted
    <3>1. o \in Txns /\ Len(executed) \in Nat  BY <1>2 DEF Txns
    <3>2. executed' # executed /\ executed'[Len(executed) + 1] = o
      <4>1. Len(executed') = Len(executed) + 1 /\ executed'[Len(executed) + 1] = o  BY <1>2, <3>1
      <4> QED  BY <3>1, <4>1
    <3>3. msg.type = "txn" /\ executed' = Append(executed, msg.id)  BY <1>8, <3>2
    <3>4. executed'[Len(executed) + 1] = msg.id  BY <1>2, <1>6, <3>1, <3>3
    <3> QED  BY <1>6, <3>2, <3>3, <3>4
  <2>3. Sent'  BY <1>1, <1>2, <1>7, <1>9, <2>1, <2>2, SentStays
  <2>4. ASSUME ExecutedOnce' PROVE OnceInv'
    <3>1. OnceInv  BY <1>9, <2>4, ExecutedStays DEF SyncInv
    <3> QED  BY <1>1, <1>9, <2>1, <3>1, AwayOnce
  <2> QED  BY <1>10, <2>3, <2>4 DEF SyncInv
<1> QED  BY <1>11, <1>12

\* Nothing was executed and nothing sent.
LEMMA OnceStays ==
  ASSUME TypeOK, OnceInv, UNCHANGED <<executed, clientVars, s2c, clientNum, up>>,
         up # 0 => c2s'[up] = c2s[up]
  PROVE  OnceInv'
<1>1. ExecutesOne  BY DEF ExecutesOne
<1>2. Kept'  BY <1>1, KeptStays DEF OnceInv, clientVars
<1>3. Num' = Num  BY DEF Num
<1>4. UpToDate => UpToDate'  BY <1>3 DEF UpToDate, clientVars
<1>5. up # 0 => (SnapshotComing => SnapshotComing')  BY DEF SnapshotComing
<1> QED  BY <1>2, <1>3, <1>4, <1>5 DEF OnceInv, clientVars

\* The store notices that a connection broke, and buffers.
LEMMA ServerDisconnectSync ==
  ASSUME TypeOK, SyncInv, NEW k \in Conns, ServerDisconnect(k)
  PROVE  SyncInv'
<1>1. /\ k \in open /\ k # up /\ open' = open \ {k} /\ sock' = 0 /\ buffering' = TRUE
      /\ c2s' = [c2s EXCEPT ![k] = << >>]
      /\ UNCHANGED <<executed, clientNum, up, conns, s2c, clientVars>>
  BY DEF ServerDisconnect
<1>2. Connected /\ Sent /\ c2s \in [Conns -> Seq(C2SMessages)]  BY DEF SyncInv, TypeOK
<1>3. up = 0 /\ conns # 0  BY <1>1, <1>2 DEF Connected, NothingYet
<1>4. Connected'  BY <1>1, <1>2, <1>3 DEF Connected
<1>5. \A j \in Conns : \A i \in DOMAIN c2s'[j] :
        c2s'[j][i].type = "txn" => c2s'[j][i].id \in committed
  <2>1. c2s'[k] = << >> /\ \A j \in Conns : j # k => c2s'[j] = c2s[j]  BY <1>1, <1>2
  <2>2. \A i \in DOMAIN c2s'[k] : FALSE  BY <2>1
  <2> QED  BY <1>2, <2>1, <2>2 DEF Sent
<1>6. ExecutesOne  BY <1>1 DEF ExecutesOne
<1>7. OwnCommitted
  <2>1. executed \in Seq(Txns)  BY DEF TypeOK
  <2>2. \A o \in Own : Append(executed, o) # executed
    <3>1. \A o \in Own : o \in Txns  BY DEF Txns
    <3>2. \A o \in Txns : Len(Append(executed, o)) = Len(executed) + 1  BY <2>1
    <3>3. Len(executed) \in Nat  BY <2>1
    <3> QED  BY <3>1, <3>2, <3>3
  <2> QED  BY <1>1, <2>2 DEF OwnCommitted
<1>8. Sent'  BY <1>1, <1>2, <1>5, <1>6, <1>7, SentStays
<1>9. ExecutedOnce' => OnceInv'
  BY <1>1, <1>3, OnceStays DEF SyncInv, ExecutedOnce
<1> QED  BY <1>4, <1>8, <1>9 DEF SyncInv

\* The store forgets the browser: its numbers begin at one again.
LEMMA BufferExpireSync ==
  ASSUME TypeOK, SyncInv, BufferExpire
  PROVE  SyncInv'
<1>1. /\ buffering /\ buffering' = FALSE /\ clientNum' = 0
      /\ UNCHANGED <<executed, sock, open, netVars, clientVars>>
  BY DEF BufferExpire
<1>2. Connected /\ Sent  BY DEF SyncInv
<1>3. up = 0 /\ s2c = << >>  BY <1>1, <1>2 DEF Connected
<1>4. Connected'  BY <1>1, <1>2 DEF Connected, NothingYet, netVars, clientVars
<1>5. Sent'
  <2>1. \A n : Prefix(n)' = Prefix(n)  BY <1>1 DEF Prefix
  <2>2. \A i \in DOMAIN s2c' : FALSE  BY <1>1, <1>3 DEF netVars
  <2> QED  BY <1>1, <1>2, <2>1, <2>2 DEF Sent, netVars, clientVars
<1>6. ASSUME ExecutedOnce' PROVE OnceInv'
  <2>1. OnceInv /\ ExecutesOne  BY <1>1, <1>6 DEF SyncInv, ExecutedOnce, ExecutesOne
  <2> QED  BY <1>1, <1>3, <2>1, AwayOnce DEF netVars
<1> QED  BY <1>4, <1>5, <1>6 DEF SyncInv

\* The connection breaks, and what was on its way is lost.
LEMMA DropSync ==
  ASSUME TypeOK, SyncInv, Drop
  PROVE  SyncInv'
<1>1. up # 0 /\ up' = 0 /\ s2c' = << >> /\ UNCHANGED <<storeVars, conns, c2s, clientVars>>
  BY DEF Drop
<1>2. Connected /\ Sent  BY DEF SyncInv
<1>3. ExecutesOne  BY <1>1 DEF ExecutesOne, storeVars
<1>4. Connected'  BY <1>1, <1>2 DEF Connected, NothingYet, storeVars
<1>5. Sent'
  <2>1. \A i \in DOMAIN << >> : FALSE  OBVIOUS
  <2> QED  BY <1>1, <1>2, <2>1 DEF Sent, storeVars, clientVars
<1>6. ASSUME ExecutedOnce' PROVE OnceInv'
  <2>1. OnceInv  BY <1>1, <1>6 DEF SyncInv, ExecutedOnce, storeVars
  <2> QED  BY <1>1, <1>3, <2>1, AwayOnce
<1> QED  BY <1>4, <1>5, <1>6 DEF SyncInv

\* The browser comes for the first time, or returns after it was forgotten.
LEMMA ConnectSync ==
  ASSUME Reconnects = "forgotten", TypeOK, SyncInv, Connect
  PROVE  SyncInv'
<1> DEFINE msg == IF buffering THEN [type |-> "newTxns", txns |-> buffer]
                               ELSE [type |-> "resyncWithStore"]
<1>1. /\ up = 0 /\ CanConnect /\ conns' = conns + 1 /\ up' = conns + 1 /\ sock' = conns + 1
      /\ open' = open \cup {conns + 1} /\ s2c' = <<msg>>
      /\ buffering' = FALSE /\ buffer' = << >>
      /\ UNCHANGED <<executed, clientNum, c2s, clientVars>>
  BY DEF Connect
<1>2. Connected /\ Sent /\ conns \in Nat /\ executed \in Seq(Txns) /\ Len(executed) \in Nat
  BY DEF SyncInv, TypeOK
<1>3. open = {} /\ clientNum = 0 /\ (buffering => NothingYet)
  BY <1>1, <1>2 DEF CanConnect, Connected, NothingYet
<1>4. Num' = 1  BY <1>1, <1>3 DEF Num
<1>5. Connected'
  <2>1. conns' # 0 /\ up' # 0 /\ open' = {up'} /\ sock' = up'  BY <1>1, <1>2, <1>3
  <2> QED  BY <1>1, <2>1 DEF Connected
<1>6. PICK m : m = msg  OBVIOUS
<1>7. /\ Len(s2c') = 1 /\ DOMAIN s2c' = 1 .. 1 /\ s2c'[1] = m /\ 1 \in DOMAIN s2c'
      /\ \A i \in DOMAIN s2c' : i = 1
  BY <1>1, <1>6
<1>8. CASE buffering
  <2>1. m.type = "newTxns" /\ m.txns = Prefix(Len(executed))
    BY <1>3, <1>6, <1>8 DEF NothingYet
  <2>2. ~OfOne(m) /\ ~Numbered(m) /\ ~Resync(m)  BY <2>1 DEF OfOne, Numbered, Resync
  <2>3. memVer = 0 /\ ser.index = 1 /\ data = [d \in Docs |-> Null]
    BY <1>3, <1>8 DEF NothingYet
  <2>4. \A n : Prefix(n)' = Prefix(n)  BY <1>1 DEF Prefix
  <2>5. Len(executed) \in 0 .. Len(executed)  BY <1>2
  <2>6. Sent'
    <3>1. \A i \in DOMAIN s2c' : s2c'[i].type = "newTxns" =>
            /\ \E n \in 0 .. Len(executed') : s2c'[i].txns = Prefix(n)'
            /\ memVer' = 0 /\ ser'.index = 1 /\ data' = [d \in Docs |-> Null]
      BY <1>1, <1>7, <2>1, <2>3, <2>4, <2>5 DEF clientVars
    <3>2. \A i \in DOMAIN s2c' : ~OfOne(s2c'[i]) /\ ~(i > 1)  BY <1>7, <2>2
    <3> QED  BY <1>1, <1>2, <3>1, <3>2 DEF Sent, clientVars
  <2>7. ASSUME ExecutedOnce' PROVE OnceInv'
    <3>1. OnceInv  BY <1>1, <2>7 DEF SyncInv, ExecutedOnce
    <3>2. Counted(s2c', Num', ser'.index)  BY <1>4, <1>7, <2>2 DEF Counted
    <3>3. Brings(m) = Len(executed)
      <4>1. Len(Prefix(Len(executed))) = Len(executed)  BY <1>2 DEF Prefix
      <4> QED  BY <2>1, <4>1 DEF Brings
    <3>4. Ascend(s2c', Len(executed'), memVer')  BY <1>1, <1>7, <2>2, <3>3 DEF Ascend
    <3>5. Kept'
      <4>1. ExecutesOne  BY <1>1 DEF ExecutesOne
      <4> QED  BY <1>1, <3>1, <4>1, KeptStays DEF OnceInv, clientVars
    <3>6. UpToDate'
      <4>1. PICK f : f = executed  OBVIOUS
      <4>2. \A d \in Docs : LastIn(f, d, 0) = Null  BY DEF LastIn
      <4>3. data = [d \in Docs |-> LastIn(f, d, 0)]  BY <2>3, <4>2
      <4>4. Follow(s2c', Len(executed'), Num', ser'.index, memVer')
        BY <1>7, <2>1 DEF Follow
      <4> QED  BY <1>1, <2>3, <4>1, <4>3, <4>4 DEF UpToDate, clientVars
    <3> QED  BY <1>1, <3>1, <3>2, <3>4, <3>5, <3>6 DEF OnceInv, clientVars
  <2> QED  BY <1>5, <2>6, <2>7 DEF SyncInv
<1>9. CASE ~buffering
  <2>1. m.type = "resyncWithStore"  BY <1>6, <1>9
  <2>2. ~OfOne(m) /\ ~Numbered(m) /\ Resync(m)  BY <2>1 DEF OfOne, Numbered, Resync
  <2>3. Sent'
    <3>1. \A i \in DOMAIN s2c' :
            ~OfOne(s2c'[i]) /\ s2c'[i].type # "newTxns" /\ ~(i > 1)
      BY <1>7, <2>1, <2>2
    <3> QED  BY <1>1, <1>2, <3>1 DEF Sent, clientVars
  <2>4. ASSUME ExecutedOnce' PROVE OnceInv'
    <3>1. OnceInv  BY <1>1, <2>4 DEF SyncInv, ExecutedOnce
    <3>2. Counted(s2c', Num', ser'.index)  BY <1>4, <1>7, <2>2 DEF Counted
    <3>3. Ascend(s2c', Len(executed'), memVer')  BY <1>1, <1>7, <2>2 DEF Ascend
    <3>4. Kept'
      <4>1. ExecutesOne  BY <1>1 DEF ExecutesOne
      <4> QED  BY <1>1, <3>1, <4>1, KeptStays DEF OnceInv, clientVars
    <3>5. SnapshotComing'  BY <1>7, <2>1 DEF SnapshotComing
    <3> QED  BY <1>1, <3>1, <3>2, <3>3, <3>4, <3>5 DEF OnceInv, clientVars
  <2> QED  BY <1>5, <2>3, <2>4 DEF SyncInv
<1> QED  BY <1>8, <1>9

-----------------------------------------------------------------------------
(* What the browser does *)

\* What the browser may send: what was committed, and requests.
Requests == [type : {"txn"}, id : committed] \cup [type : {"subs", "fetch:snapshot"}]

\* It puts messages behind those on their way.
LEMMA SendAllKeeps ==
  ASSUME TypeOK, Sent, NEW msgs \in Seq(Requests'), SendAll(msgs), committed \subseteq committed'
  PROVE  /\ \A k \in Conns : \A i \in DOMAIN c2s'[k] :
              c2s'[k][i].type = "txn" => c2s'[k][i].id \in committed'
         /\ up # 0 => /\ \A i \in DOMAIN c2s[up] : i \in DOMAIN c2s'[up] /\ c2s'[up][i] = c2s[up][i]
                      /\ \A m \in Range(msgs) : m \in Range(c2s'[up])
<1>1. c2s \in [Conns -> Seq(C2SMessages)] /\ up \in 0 .. MaxConns  BY DEF TypeOK
<1>2. up = 0 => c2s' = c2s  BY DEF SendAll
<1>3. ASSUME up # 0
      PROVE  /\ \A k \in Conns : k # up => c2s'[k] = c2s[k]
             /\ up \in Conns /\ c2s'[up] = c2s[up] \o msgs
  BY <1>1, <1>3, LimitsAssumption DEF SendAll, Conns
<1>4. ASSUME NEW m \in Requests', m.type = "txn" PROVE m.id \in committed'
  BY <1>4 DEF Requests
<1>5. ASSUME up # 0
      PROVE  /\ \A i \in DOMAIN c2s[up] : i \in DOMAIN c2s'[up] /\ c2s'[up][i] = c2s[up][i]
             /\ \A m \in Range(msgs) : m \in Range(c2s'[up])
             /\ \A i \in DOMAIN c2s'[up] :
                  (i \in DOMAIN c2s[up] /\ c2s'[up][i] = c2s[up][i]) \/ c2s'[up][i] \in Requests'
  <2>1. PICK q : q = c2s[up]  OBVIOUS
  <2>2. PICK r : r = c2s'[up]  OBVIOUS
  <2>3. q \in Seq(C2SMessages) /\ r = q \o msgs  BY <1>1, <1>3, <1>5, <2>1, <2>2
  <2>4. PICK a \in Nat : Len(q) = a /\ DOMAIN q = 1 .. a  BY <2>3
  <2>5. PICK T : T = Requests'  OBVIOUS
  <2>6. PICK b \in Nat : /\ Len(msgs) = b /\ DOMAIN msgs = 1 .. b
                         /\ \A i \in 1 .. b : msgs[i] \in T
    <3>1. msgs \in Seq(T)  BY <2>5
    <3> QED  BY <3>1
  <2>7. /\ DOMAIN r = 1 .. a + b /\ \A i \in 1 .. a : r[i] = q[i]
        /\ \A i \in 1 .. b : r[a + i] = msgs[i]
    <3>1. msgs \in Seq(T)  BY <2>5
    <3> QED  BY <2>3, <2>4, <2>6, <3>1
  <2>8. \A i \in DOMAIN q : i \in DOMAIN r /\ r[i] = q[i]  BY <2>4, <2>7
  <2>9. \A m \in Range(msgs) : m \in Range(r)
    <3> SUFFICES ASSUME NEW i \in DOMAIN msgs PROVE msgs[i] \in Range(r)  BY DEF Range
    <3>1. a + i \in DOMAIN r /\ r[a + i] = msgs[i]  BY <2>4, <2>6, <2>7
    <3> QED  BY <3>1 DEF Range
  <2>10. ASSUME NEW i \in DOMAIN r PROVE (i \in DOMAIN q /\ r[i] = q[i]) \/ r[i] \in T
    <3>1. CASE i \in 1 .. a  BY <2>4, <2>7, <3>1
    <3>2. CASE i \notin 1 .. a
      <4>1. i - a \in 1 .. b /\ a + (i - a) = i  BY <2>7, <3>2
      <4> QED  BY <2>6, <2>7, <4>1
    <3> QED  BY <3>1, <3>2
  <2> QED  BY <2>1, <2>2, <2>5, <2>8, <2>9, <2>10
<1>6. ASSUME NEW k \in Conns, NEW i \in DOMAIN c2s'[k], c2s'[k][i].type = "txn"
      PROVE  c2s'[k][i].id \in committed'
  <2>1. CASE up = 0 \/ k # up
    <3>1. c2s'[k] = c2s[k]  BY <1>2, <1>3, <2>1
    <3>2. c2s[k][i].id \in committed  BY <1>6, <3>1 DEF Sent
    <3> QED  BY <3>1, <3>2
  <2>2. CASE up # 0 /\ k = up
    <3>1. CASE i \in DOMAIN c2s[up] /\ c2s'[up][i] = c2s[up][i]
      <4>1. c2s[k][i].id \in committed  BY <1>6, <2>2, <3>1 DEF Sent
      <4> QED  BY <2>2, <3>1, <4>1
    <3>2. CASE c2s'[up][i] \in Requests'  BY <1>4, <1>6, <2>2, <3>2
    <3> QED  BY <1>5, <1>6, <2>2, <3>1, <3>2
  <2> QED  BY <2>1, <2>2
<1> QED  BY <1>5, <1>6

\* Transactions of C make messages of C.
LEMMA RequestsType ==
  ASSUME NEW C, NEW ids \in Seq(C)
  PROVE  TxnMsgs(ids) \in Seq([type : {"txn"}, id : C] \cup [type : {"subs", "fetch:snapshot"}])
<1>1. Len(ids) \in Nat /\ DOMAIN ids = 1 .. Len(ids) /\ \A i \in 1 .. Len(ids) : ids[i] \in C
  BY ElementOfSeq
<1>2. TxnMsgs(ids) = [i \in 1 .. Len(ids) |-> [type |-> "txn", id |-> ids[i]]]
  BY <1>1 DEF TxnMsgs
<1>3. \A i \in 1 .. Len(ids) : [type |-> "txn", id |-> ids[i]] \in [type : {"txn"}, id : C]
  BY <1>1
<1> QED  BY <1>1, <1>2, <1>3

\* A step in which the browser only sends.
LEMMA BrowserSends ==
  ASSUME TypeOK, SyncInv, UNCHANGED <<storeVars, up, conns, s2c, ownVer, data, memVer>>,
         ser'.index = ser.index, ~ser.waiter => ser' = ser,
         NEW msgs \in Seq(Requests'), SendAll(msgs),
         committed \subseteq committed', Range(queue) \subseteq Range(queue'),
         \A t \in committed' : t \in committed \/ t \in Range(queue')
  PROVE  SyncInv'
<1>1. Connected /\ Sent  BY DEF SyncInv
<1>2. /\ \A k \in Conns : \A i \in DOMAIN c2s'[k] :
           c2s'[k][i].type = "txn" => c2s'[k][i].id \in committed'
      /\ up # 0 => \A i \in DOMAIN c2s[up] : i \in DOMAIN c2s'[up] /\ c2s'[up][i] = c2s[up][i]
  BY <1>1, SendAllKeeps
<1>3. Connected'
  <2>1. \A n : Prefix(n)' = Prefix(n)  BY DEF Prefix, storeVars
  <2>2. NothingYet => NothingYet'  BY <2>1 DEF NothingYet, storeVars
  <2> QED  BY <1>1, <2>2 DEF Connected, storeVars
<1>4. Sent'
  <2>1. \A n : Prefix(n)' = Prefix(n)  BY DEF Prefix, storeVars
  <2>2. \A v \in DOMAIN executed' : executed'[v] \in Own => executed'[v] \in committed'
    BY <1>1 DEF Sent, storeVars
  <2>3. /\ \A i \in DOMAIN s2c' : OfOne(s2c'[i]) => executed'[s2c'[i].ver] = s2c'[i].id
        /\ \A i \in DOMAIN s2c' : i > 1 => Numbered(s2c'[i])
    BY <1>1 DEF Sent, storeVars
  <2>4. \A i \in DOMAIN s2c' : s2c'[i].type = "newTxns" =>
             /\ \E n \in 0 .. Len(executed') : s2c'[i].txns = Prefix(n)'
             /\ memVer' = 0 /\ ser'.index = 1 /\ data' = [d \in Docs |-> Null]
    BY <1>1, <2>1 DEF Sent, storeVars
  <2> QED  BY <1>2, <2>2, <2>3, <2>4 DEF Sent
<1>5. ASSUME ExecutedOnce' PROVE OnceInv'
  <2>1. OnceInv  BY <1>5 DEF SyncInv, ExecutedOnce, storeVars
  <2>2. ser' = ser /\ executed' = executed  BY <2>1 DEF OnceInv, Kept, storeVars
  <2>3. Kept'
    <3>1. ASSUME NEW t \in committed' PROVE t \in Range(queue') \/ \E v \in 1 .. memVer : executed[v] = t
      BY <2>1 DEF OnceInv, Kept
    <3>2. DOMAIN ser'.pending = {} /\ ~ser'.waiter /\ memVer' = memVer
      BY <2>1, <2>2 DEF OnceInv, Kept
    <3> QED  BY <2>2, <3>1, <3>2 DEF Kept
  <2>4. Num' = Num  BY DEF Num, storeVars
  <2>5. UpToDate => UpToDate'  BY <2>2, <2>4 DEF UpToDate
  <2>6. up # 0 => (SnapshotComing => SnapshotComing')  BY <1>2 DEF SnapshotComing
  <2>7. /\ ser'.index >= 1 /\ (up' # 0 => Counted(s2c', Num', ser'.index))
        /\ Ascend(s2c', Len(executed'), memVer')
    BY <2>1, <2>2, <2>4 DEF OnceInv
  <2> QED  BY <2>1, <2>3, <2>5, <2>6, <2>7 DEF OnceInv
<1> QED  BY <1>3, <1>4, <1>5 DEF SyncInv

\* The user does something: it is queued, and sent if there is a connection.
LEMMA CommitSync ==
  ASSUME TypeOK, SyncInv, NEW t \in Own, Commit(t)
  PROVE  SyncInv'
<1>1. /\ committed' = committed \cup {t} /\ queue' = Append(queue, t) /\ SendAll(TxnMsgs(<<t>>))
      /\ UNCHANGED <<storeVars, up, conns, s2c, ownVer, data, memVer, ser, resends>>
  BY DEF Commit
<1>2. queue \in Seq(committed)  BY DEF TypeOK
<1>3. Range(queue) \subseteq Range(queue') /\ t \in Range(queue')
  <2>1. PICK n \in Nat : n = Len(queue) /\ DOMAIN queue = 1 .. n  BY <1>2
  <2>2. /\ DOMAIN queue' = 1 .. n + 1 /\ queue'[n + 1] = t
        /\ \A i \in 1 .. n : queue'[i] = queue[i]
    BY <1>1, <1>2, <2>1
  <2> QED  BY <2>1, <2>2 DEF Range
<1>4. PICK C : C = committed'  OBVIOUS
<1>5. <<t>> \in Seq(C)  BY <1>1, <1>4
<1>6. TxnMsgs(<<t>>) \in Seq([type : {"txn"}, id : C] \cup [type : {"subs", "fetch:snapshot"}])
  BY <1>5, RequestsType
<1>7. PICK msgs : msgs = TxnMsgs(<<t>>)  OBVIOUS
<1>8. msgs \in Seq(Requests') /\ SendAll(msgs)  BY <1>1, <1>4, <1>6, <1>7 DEF Requests
<1>9. \A o \in committed' : o \in committed \/ o \in Range(queue')  BY <1>1, <1>3
<1>10. /\ UNCHANGED <<storeVars, up, conns, s2c, ownVer, data, memVer>> /\ ser' = ser
       /\ committed \subseteq committed'
  BY <1>1
<1> QED  BY <1>3, <1>8, <1>9, <1>10, BrowserSends

\* The resend interval: what is queued is sent again.
LEMMA ResendSync ==
  ASSUME TypeOK, SyncInv, NEW k \in DOMAIN queue, Resend(k)
  PROVE  SyncInv'
<1>1. /\ SendAll(TxnMsgs(SubSeq(queue, 1, k)))
      /\ UNCHANGED <<storeVars, up, conns, s2c, committed, queue, ownVer, data, memVer, ser>>
  BY DEF Resend
<1>2. queue \in Seq(committed)  BY DEF TypeOK
<1>3. SubSeq(queue, 1, k) \in Seq(committed)
  <2>1. k \in Nat /\ k <= Len(queue) /\ Len(queue) \in Nat  BY <1>2
  <2> QED  BY <1>2, <2>1
<1>4. PICK msgs : msgs = TxnMsgs(SubSeq(queue, 1, k))  OBVIOUS
<1>5. msgs \in Seq(Requests)  BY <1>3, <1>4, RequestsType DEF Requests
<1>6. Requests' = Requests  BY <1>1 DEF Requests
<1>7. msgs \in Seq(Requests') /\ SendAll(msgs)  BY <1>1, <1>4, <1>5, <1>6
<1>8. /\ UNCHANGED <<storeVars, up, conns, s2c, ownVer, data, memVer>> /\ ser' = ser
      /\ committed \subseteq committed' /\ Range(queue) \subseteq Range(queue')
      /\ \A o \in committed' : o \in committed \/ o \in Range(queue')
  BY <1>1
<1> QED  BY <1>7, <1>8, BrowserSends

\* The serializer waited in vain: the model asks for a snapshot.
LEMMA TimeoutSync ==
  ASSUME TypeOK, SerializerOK, SyncInv, Timeout
  PROVE  SyncInv'
<1>1. /\ ser.waiter /\ ser' = Expire(ser) /\ SendAll(<<[type |-> "fetch:snapshot"]>>)
      /\ UNCHANGED <<storeVars, up, conns, s2c, committed, queue, ownVer, data, memVer,
                     resends>>
  BY DEF Timeout
<1>2. ser'.index = ser.index  BY <1>1 DEF Expire, SerializerOK
<1>3. PICK msgs : msgs = <<[type |-> "fetch:snapshot"]>>  OBVIOUS
<1>4. PICK T : T = Requests'  OBVIOUS
<1>5. [type |-> "fetch:snapshot"] \in T  BY <1>4 DEF Requests
<1>6. msgs \in Seq(T)  BY <1>3, <1>5
<1>7. msgs \in Seq(Requests') /\ SendAll(msgs)  BY <1>1, <1>3, <1>4, <1>6
<1>8. /\ UNCHANGED <<storeVars, up, conns, s2c, ownVer, data, memVer>>
      /\ (~ser.waiter => ser' = ser)
      /\ committed \subseteq committed' /\ Range(queue) \subseteq Range(queue')
      /\ \A o \in committed' : o \in committed \/ o \in Range(queue')
  BY <1>1
<1> QED  BY <1>2, <1>7, <1>8, BrowserSends

-----------------------------------------------------------------------------
(* What the browser receives *)

\* The browser takes the first message off the line.
Receives ==
  /\ up # 0 /\ s2c # << >> /\ s2c' = Tail(s2c)
  /\ UNCHANGED <<storeVars, up, conns, committed, resends>>

\* The list before and after.
LEMMA ReceivesList ==
  ASSUME TypeOK, Receives
  PROVE  \E n \in Nat :
           /\ Len(s2c) = n + 1 /\ DOMAIN s2c = 1 .. n + 1 /\ Head(s2c) = s2c[1]
           /\ Len(s2c') = n /\ DOMAIN s2c' = 1 .. n /\ \A i \in 1 .. n : s2c'[i] = s2c[i + 1]
<1>1. s2c \in Seq(S2CMessages) /\ s2c # << >> /\ s2c' = Tail(s2c)  BY DEF TypeOK, Receives
<1>2. Len(s2c) \in Nat /\ Len(s2c) # 0  BY <1>1, EmptySeq
<1>3. Len(s2c) - 1 \in Nat /\ Len(s2c) = (Len(s2c) - 1) + 1  BY <1>2
<1>4. PICK n \in Nat : Len(s2c) = n + 1  BY <1>3
<1>5. Len(s2c') = n /\ DOMAIN s2c' = 1 .. n /\ \A i \in 1 .. n : s2c'[i] = s2c[i + 1]
  BY <1>1, <1>4, HeadTailProperties
<1> QED  BY <1>1, <1>4, <1>5

\* What was said of the other messages holds of what is left.
LEMMA ReceivesSent ==
  ASSUME TypeOK, Connected, Sent, Receives,
         \A k \in Conns : \A i \in DOMAIN c2s'[k] :
           c2s'[k][i].type = "txn" => c2s'[k][i].id \in committed
  PROVE  Connected' /\ Sent'
<1>1. PICK n \in Nat :
        /\ Len(s2c) = n + 1 /\ DOMAIN s2c = 1 .. n + 1 /\ Head(s2c) = s2c[1]
        /\ Len(s2c') = n /\ DOMAIN s2c' = 1 .. n /\ \A i \in 1 .. n : s2c'[i] = s2c[i + 1]
  BY ReceivesList
<1>2. up # 0 /\ UNCHANGED <<storeVars, up, conns, committed, resends>>  BY DEF Receives
<1>3. conns # 0  BY <1>2 DEF Connected, NothingYet
<1>4. Connected'  BY <1>2, <1>3 DEF Connected, storeVars
<1>5. ASSUME NEW i \in DOMAIN s2c'
      PROVE  /\ Numbered(s2c'[i])
             /\ OfOne(s2c'[i]) => executed[s2c'[i].ver] = s2c'[i].id
  <2>1. i + 1 \in DOMAIN s2c /\ i + 1 > 1 /\ s2c'[i] = s2c[i + 1]  BY <1>1
  <2> QED  BY <2>1 DEF Sent
<1>6. \A i \in DOMAIN s2c' : s2c'[i].type # "newTxns"  BY <1>5 DEF Numbered
<1> QED  BY <1>2, <1>4, <1>5, <1>6 DEF Sent, storeVars

\* Numbers and versions go on from what the message brings, and from a snapshot on,
\* or from what was buffered, the model is in step.
LEMMA ReceivesOnce ==
  ASSUME TypeOK, Sent, OnceInv, Receives, NEW msg, msg = Head(s2c),
         ser'.index \in Nat,
         Raised(msg, ser.index, ser'.index), Brought(msg, memVer, memVer')
  PROVE  /\ ser'.index >= 1 /\ Counted(s2c', Num', ser'.index)
         /\ Ascend(s2c', Len(executed'), memVer')
         /\ Numbered(msg) => msg.num <= ser.index
         /\ Follow(s2c, Len(executed), Num, ser.index, memVer) /\ OfOne(msg) =>
              msg.num = ser.index /\ msg.ver = memVer + 1
         /\ /\ ~Resync(msg) /\ memVer' = Brings(msg)
            /\ IF Numbered(msg) THEN ser'.index = msg.num + 1 ELSE ser.index = 1
            => Follow(s2c', Len(executed'), Num', ser'.index, memVer')
<1>1. PICK n \in Nat :
        /\ Len(s2c) = n + 1 /\ DOMAIN s2c = 1 .. n + 1 /\ Head(s2c) = s2c[1]
        /\ Len(s2c') = n /\ DOMAIN s2c' = 1 .. n /\ \A i \in 1 .. n : s2c'[i] = s2c[i + 1]
  BY ReceivesList
<1>2. PICK s : s = s2c  OBVIOUS
<1>3. PICK r : r = s2c'  OBVIOUS
<1>4. PICK last : last = Len(executed)  OBVIOUS
<1>5. PICK next : next = Num  OBVIOUS
<1>6. PICK ver : ver = memVer  OBVIOUS
<1>7. PICK index : index = ser.index  OBVIOUS
<1>8. PICK ver2 : ver2 = memVer'  OBVIOUS
<1>9. PICK index2 : index2 = ser'.index  OBVIOUS
<1>10. /\ ver \in 0 .. last /\ last \in Nat /\ index \in Nat /\ next \in Nat /\ index2 \in Nat
       /\ index >= 1
  <2>1. memVer \in 0 .. Len(executed) /\ ser.index \in Nat /\ executed \in Seq(Txns)
    BY DEF TypeOK
  <2>2. Len(executed) \in Nat /\ Num \in Nat  BY <2>1, NumIsNat
  <2> QED  BY <1>4, <1>5, <1>6, <1>7, <1>9, <2>1, <2>2 DEF OnceInv
<1>11. Len(executed') = last /\ Num' = next /\ up # 0  BY <1>4, <1>5 DEF Receives, storeVars, Num
<1>12. /\ Len(s) = n + 1 /\ Len(r) = n /\ \A i \in 1 .. n : r[i] = s[i + 1]
       /\ msg = s[1] /\ Rest(r, s, n)
  BY <1>1, <1>2, <1>3 DEF Rest
<1>13. \A i \in 1 .. n : Numbered(r[i])
  <2>1. \A i \in DOMAIN s2c : i > 1 => Numbered(s2c[i])  BY DEF Sent
  <2>2. \A i \in 1 .. n : i + 1 \in 1 .. n + 1 /\ i + 1 > 1  OBVIOUS
  <2> QED  BY <1>1, <1>3, <2>1, <2>2
<1>14. Counted(s, next, index) /\ Ascend(s, last, ver)
  BY <1>2, <1>4, <1>5, <1>6, <1>7, <1>11 DEF OnceInv
<1>15. Raised(s[1], index, index2) /\ Brought(s[1], ver, ver2)
  BY <1>6, <1>7, <1>8, <1>9, <1>12
<1>16. /\ Counted(r, next, index2)
       /\ Numbered(s[1]) => s[1].num = next - (n + 1) /\ s[1].num <= index
  BY <1>10, <1>12, <1>13, <1>14, <1>15, CountedTail
<1>17. /\ Ascend(r, last, ver2)
       /\ ~Resync(s[1]) /\ ver2 = Brings(s[1]) =>
            IF n = 0 THEN ver2 = last ELSE r[1].ver = ver2 + Steps(r[1])
  BY <1>12, <1>14, <1>15, AscendTail
<1>18. Numbered(s[1]) => s[1].num \in Nat
  <2>1. 1 \in DOMAIN s2c  BY <1>1
  <2> QED  BY <1>2, <2>1, Bounds
<1>19. index2 >= 1  BY <1>10, <1>15, <1>18 DEF Raised
<1>20. ASSUME Follow(s, last, next, index, ver), OfOne(s[1])
       PROVE  s[1].num = index /\ s[1].ver = ver + 1
  <2>1. Numbered(s[1]) /\ Steps(s[1]) = 1 /\ s[1].type # "newTxns"
    BY <1>20 DEF OfOne, Numbered, Steps
  <2>2. next = index + (n + 1) /\ s[1].ver = ver + Steps(s[1])
    BY <1>12, <1>20, <2>1 DEF Follow
  <2>3. s[1].num = next - (n + 1)  BY <1>16, <2>1
  <2> QED  BY <1>10, <2>1, <2>2, <2>3
<1>21. ASSUME ~Resync(s[1]), ver2 = Brings(s[1]),
              IF Numbered(s[1]) THEN index2 = s[1].num + 1 ELSE index = 1
       PROVE  Follow(r, last, next, index2, ver2)
  <2>1. next = index2 + n
    <3>1. CASE Numbered(s[1])  BY <1>10, <1>16, <1>18, <1>21, <3>1
    <3>2. CASE ~Numbered(s[1])
      <4>1. next = n + 1  BY <1>12, <1>14, <3>2 DEF Counted
      <4> QED  BY <1>15, <1>21, <3>2, <4>1 DEF Raised
    <3> QED  BY <3>1, <3>2
  <2>2. n # 0 => r[1].type # "newTxns"  BY <1>13 DEF Numbered
  <2> QED  BY <1>12, <1>17, <1>21, <2>1, <2>2 DEF Follow
<1> QED
  BY <1>2, <1>3, <1>4, <1>5, <1>6, <1>7, <1>8, <1>9, <1>11, <1>12, <1>16, <1>17, <1>19, <1>20, <1>21

\* _onTxn with one transaction, newer than the memory.
LEMMA OnTxnsOne ==
  ASSUME NEW txns, DOMAIN txns = 1 .. 1, memVer \in Nat, txns[1].ver \in Nat,
         txns[1].ver > memVer, OnTxns(txns)
  PROVE  /\ memVer' = txns[1].ver
         /\ data' = [d \in Docs |-> IF DocOf[txns[1].id] = d THEN txns[1].id ELSE data[d]]
         /\ queue' = Less(queue, {txns[1].id})
<1> DEFINE new == Newer(txns, memVer)
           LastNew(T) == CHOOSE i \in T : \A j \in T : j <= i
           On(d) == {i \in new : DocOf[txns[i].id] = d}
<1>1. /\ memVer' = IF new = {} THEN memVer ELSE txns[LastNew(new)].ver
      /\ data' = [d \in Docs |-> IF On(d) = {} THEN data[d] ELSE txns[LastNew(On(d))].id]
      /\ queue' = Less(queue, {txns[i].id : i \in new})
  BY DEF OnTxns
<1>2. new = {1}
  <2>1. \A i : i \in 1 .. 1 <=> i = 1  OBVIOUS
  <2> QED  BY <2>1 DEF Newer
<1>3. LastNew({1}) = 1
  <2>1. \E i \in {1} : \A j \in {1} : j <= i  OBVIOUS
  <2>2. LastNew({1}) \in {1}  BY <2>1
  <2> QED  BY <2>2
<1>4. \A d : On(d) = IF DocOf[txns[1].id] = d THEN {1} ELSE {}  BY <1>2
<1>5. {txns[i].id : i \in new} = {txns[1].id}  BY <1>2
<1> HIDE DEF new, LastNew
<1>6. memVer' = txns[1].ver  BY <1>1, <1>2, <1>3
<1>7. ASSUME NEW d \in Docs
      PROVE  (IF On(d) = {} THEN data[d] ELSE txns[LastNew(On(d))].id)
               = IF DocOf[txns[1].id] = d THEN txns[1].id ELSE data[d]
  <2> HIDE DEF On
  <2>1. CASE DocOf[txns[1].id] = d
    <3>1. On(d) = {1}  BY <1>4, <2>1
    <3> QED  BY <1>3, <2>1, <3>1
  <2>2. CASE DocOf[txns[1].id] # d
    <3>1. On(d) = {}  BY <1>4, <2>2
    <3> QED  BY <2>2, <3>1
  <2> QED  BY <2>1, <2>2
<1> HIDE DEF On
<1> QED  BY <1>1, <1>5, <1>6, <1>7

\* ... and with none.
LEMMA OnTxnsNone ==
  ASSUME NEW txns, DOMAIN txns = {}, data \in [Docs -> Txns \cup {Null}], OnTxns(txns)
  PROVE  memVer' = memVer /\ data' = data /\ queue' = Less(queue, {})
<1>1. Newer(txns, memVer) = {}  BY DEF Newer
<1>2. data' = [d \in Docs |-> data[d]] /\ memVer' = memVer  BY <1>1 DEF OnTxns
<1>3. {txns[i].id : i \in Newer(txns, memVer)} = {}  BY <1>1
<1> QED  BY <1>2, <1>3 DEF OnTxns

\* txnApplier.add when nothing waits in it: the message is the next, or came before.
LEMMA AddsOne ==
  ASSUME TypeOK, SerializerOK, DOMAIN ser.pending = {}, ~ser.waiter,
         NEW txn \in TxnVers, NEW num \in Nat, num <= ser.index, txn.ver > memVer,
         txn.id \in Own => ownVer'[txn.id] = txn.ver, AddTxn(txn, num)
  PROVE  /\ DOMAIN ser'.pending = {} /\ ~ser'.waiter /\ ser'.index \in Nat
         /\ \/ /\ num < ser.index /\ ser'.index = ser.index
               /\ memVer' = memVer /\ data' = data /\ queue' = Less(queue, {})
            \/ /\ num = ser.index /\ ser'.index = num + 1
               /\ memVer' = txn.ver /\ queue' = Less(queue, {txn.id})
               /\ data' = [d \in Docs |-> IF DocOf[txn.id] = d THEN txn.id ELSE data[d]]
<1>1. /\ ser.index \in Nat /\ memVer \in Nat /\ data \in [Docs -> Txns \cup {Null}]
      /\ txn.ver \in Nat /\ txn.id \in Txns
  <2>1. ser.index \in Nat /\ memVer \in 0 .. Len(executed) /\ executed \in Seq(Txns)
        /\ data \in [Docs -> Txns \cup {Null}]
    BY DEF TypeOK
  <2> QED  BY <2>1 DEF TxnVers, Versions
<1>2. PICK stop \in Stops(ser, num) :
        /\ ser' = AfterAdd(ser, txn, num, stop, TRUE)
        /\ OnTxns(Resolve(Handed(ser, txn, num, stop), ownVer'))
  BY DEF AddTxn
<1>3. PICK handed : handed = Handed(ser, txn, num, stop)  OBVIOUS
<1>4. PICK vers : vers = ownVer'  OBVIOUS
<1>5. PICK txns : txns = Resolve(handed, vers)  OBVIOUS
<1>6. OnTxns(txns)  BY <1>2, <1>3, <1>4, <1>5
<1>7. DOMAIN txns = DOMAIN handed  BY <1>5 DEF Resolve
<1>8. CASE num < ser.index
  <2>1. ser' = ser
    <3>1. ~(num > ser.index)  BY <1>1, <1>8
    <3> QED  BY <1>2, <1>8, <3>1 DEF AfterAdd
  <2>2. DOMAIN handed = {}
    <3>1. num # ser.index  BY <1>1, <1>8
    <3> QED  BY <1>3, <3>1 DEF Handed
  <2>3. memVer' = memVer /\ data' = data /\ queue' = Less(queue, {})
    BY <1>1, <1>6, <1>7, <2>2, OnTxnsNone
  <2> QED  BY <1>1, <1>8, <2>1, <2>3
<1>9. CASE num = ser.index
  <2>1. stop = num + 1
    <3>1. Truthy(ser.pending) = {}  BY DEF Truthy
    <3>2. Cardinality(DOMAIN ser.pending) = 0  BY FS_EmptySet
    <3>3. stop \in (num + 1) .. (num + 1 + 0)  BY <1>9, <3>2 DEF Stops
    <3> QED  BY <3>3
  <2>2. ser' = [index   |-> stop,
                pending |-> [n \in DOMAIN ser.pending \ ((num + 1) .. (stop - 1)) |-> ser.pending[n]],
                waiter  |-> FALSE]
    <3>1. ~(num > ser.index) /\ ~(num < ser.index)  BY <1>1, <1>9
    <3> QED  BY <1>2, <3>1 DEF AfterAdd
  <2>3. DOMAIN ser'.pending = {} /\ ~ser'.waiter /\ ser'.index = num + 1
    <3>1. DOMAIN [n \in DOMAIN ser.pending \ ((num + 1) .. (stop - 1)) |-> ser.pending[n]] = {}
      OBVIOUS
    <3> QED  BY <2>1, <2>2, <3>1
  <2>4. DOMAIN handed = 1 .. 1 /\ handed[1] = txn
    BY <1>3, <1>9, <2>1 DEF Handed
  <2>5. txns[1].id = txn.id /\ txns[1].ver = txn.ver
    <3>1. 1 \in DOMAIN handed  BY <2>4
    <3>2. txns[1] = IF txn.id \in Own THEN [txn EXCEPT !.ver = vers[txn.id]] ELSE txn
      BY <1>5, <2>4, <3>1 DEF Resolve
    <3>3. txn = [id |-> txn.id, ver |-> txn.ver]  BY DEF TxnVers
    <3>4. CASE txn.id \in Own
      <4>1. vers[txn.id] = txn.ver  BY <1>4, <3>4
      <4>2. txns[1] = [txn EXCEPT !.ver = txn.ver]  BY <3>2, <3>4, <4>1
      <4>3. [txn EXCEPT !.ver = txn.ver] = [id |-> txn.id, ver |-> txn.ver]  BY <3>3
      <4> QED  BY <3>3, <4>2, <4>3
    <3>5. CASE txn.id \notin Own  BY <3>2, <3>5
    <3> QED  BY <3>4, <3>5
  <2>6. /\ memVer' = txns[1].ver
        /\ data' = [d \in Docs |-> IF DocOf[txns[1].id] = d THEN txns[1].id ELSE data[d]]
        /\ queue' = Less(queue, {txns[1].id})
    BY <1>1, <1>6, <1>7, <2>4, <2>5, OnTxnsOne
  <2> QED  BY <1>1, <1>9, <2>3, <2>5, <2>6
<1> QED  BY <1>1, <1>8, <1>9

\* What was still to come is still to come, unless the message was it.
LEMMA StillComing ==
  ASSUME TypeOK, Receives, SnapshotComing, Head(s2c).type \notin {"resyncWithStore", "replace"},
         \A i \in DOMAIN c2s[up] : i \in DOMAIN c2s'[up] /\ c2s'[up][i] = c2s[up][i]
  PROVE  SnapshotComing'
<1>1. PICK n \in Nat :
        /\ Len(s2c) = n + 1 /\ DOMAIN s2c = 1 .. n + 1 /\ Head(s2c) = s2c[1]
        /\ Len(s2c') = n /\ DOMAIN s2c' = 1 .. n /\ \A i \in 1 .. n : s2c'[i] = s2c[i + 1]
  BY ReceivesList
<1>2. ASSUME NEW i \in DOMAIN s2c, s2c[i].type \in {"resyncWithStore", "replace"}
      PROVE  SnapshotComing'
  <2>1. i # 1  BY <1>1, <1>2
  <2>2. i - 1 \in 1 .. n /\ (i - 1) + 1 = i  BY <1>1, <2>1
  <2>3. i - 1 \in DOMAIN s2c' /\ s2c'[i - 1] = s2c[i]  BY <1>1, <2>2
  <2> QED  BY <1>2, <2>3 DEF SnapshotComing
<1>3. ASSUME NEW i \in DOMAIN c2s[up], c2s[up][i].type = "subs"
      PROVE  SnapshotComing'
  <2>1. up' = up  BY DEF Receives
  <2> QED  BY <1>3, <2>1 DEF SnapshotComing
<1> QED  BY <1>2, <1>3 DEF SnapshotComing

\* A transaction or an acknowledgement is taken.
LEMMA OneTaken ==
  ASSUME IInv, Connected, Sent, OnceInv, Receives, NEW msg, msg = Head(s2c), OfOne(msg),
         c2s' = c2s, msg.id \in Own => ownVer'[msg.id] = msg.ver, AddTxn(TxnOf(msg), msg.num)
  PROVE  OnceInv'
<1>1. TypeOK /\ SerializerOK  BY DEF IInv
<1>2. PICK n \in Nat :
        /\ Len(s2c) = n + 1 /\ DOMAIN s2c = 1 .. n + 1 /\ Head(s2c) = s2c[1]
        /\ Len(s2c') = n /\ DOMAIN s2c' = 1 .. n /\ \A i \in 1 .. n : s2c'[i] = s2c[i + 1]
  BY <1>1, ReceivesList
<1>3. 1 \in DOMAIN s2c /\ msg = s2c[1]  BY <1>2
<1>4. /\ msg \in S2CMessages /\ msg.num \in Nat /\ Numbered(msg) /\ ~Resync(msg)
      /\ Brings(msg) = msg.ver /\ msg.type \notin {"resyncWithStore", "replace", "newTxns"}
  BY <1>1, <1>3, Bounds DEF OfOne, Numbered, Resync, Brings
<1>5. msg.id \in Txns /\ msg.ver \in Versions
  BY <1>4, MessageShape DEF OfOne, Txns
<1>6. executed[msg.ver] = msg.id  BY <1>3 DEF Sent
<1>7. TxnOf(msg) \in TxnVers /\ TxnOf(msg).id = msg.id /\ TxnOf(msg).ver = msg.ver
  BY <1>5 DEF TxnOf, TxnVers
<1>8. PICK txn : txn = TxnOf(msg)  OBVIOUS
<1>9. msg.ver > memVer
  <2>1. 1 \in 1 .. Len(s2c)  BY <1>2
  <2>2. memVer < msg.ver  BY <1>3, <2>1 DEF OnceInv, Ascend
  <2>3. memVer \in Nat /\ msg.ver \in Nat
    <3>1. memVer \in 0 .. Len(executed)  BY <1>1 DEF TypeOK
    <3> QED  BY <1>5, <3>1 DEF Versions
  <2> QED  BY <2>2, <2>3
<1>10. Kept /\ DOMAIN ser.pending = {} /\ ~ser.waiter  BY DEF OnceInv, Kept
<1>11. msg.num <= ser.index
  <2>1. PICK m : m = msg.num  OBVIOUS
  <2>2. Counted(s2c, Num, ser.index)  BY DEF OnceInv, Receives
  <2>3. msg.num = Num - Len(s2c) + 1 - 1 /\ Num <= ser.index + Len(s2c)
    <3>1. 1 \in 1 .. Len(s2c) /\ Len(s2c) > 0  BY <1>2
    <3> QED  BY <1>3, <1>4, <2>2, <3>1 DEF Counted
  <2>4. Num \in Nat /\ ser.index \in Nat  BY <1>1, NumIsNat DEF TypeOK
  <2> QED  BY <1>2, <1>4, <2>3, <2>4
<1>12. /\ DOMAIN ser'.pending = {} /\ ~ser'.waiter /\ ser'.index \in Nat
       /\ \/ /\ msg.num < ser.index /\ ser'.index = ser.index
             /\ memVer' = memVer /\ data' = data /\ queue' = Less(queue, {})
          \/ /\ msg.num = ser.index /\ ser'.index = msg.num + 1
             /\ memVer' = msg.ver /\ queue' = Less(queue, {msg.id})
             /\ data' = [d \in Docs |-> IF DocOf[msg.id] = d THEN msg.id ELSE data[d]]
  <2>1. PICK num : num = msg.num  OBVIOUS
  <2>2. /\ txn \in TxnVers /\ num \in Nat /\ num <= ser.index /\ txn.ver > memVer
        /\ txn.id = msg.id /\ txn.ver = msg.ver
        /\ (txn.id \in Own => ownVer'[txn.id] = txn.ver) /\ AddTxn(txn, num)
    BY <1>4, <1>7, <1>8, <1>9, <1>11, <2>1
  <2>3. /\ DOMAIN ser'.pending = {} /\ ~ser'.waiter /\ ser'.index \in Nat
        /\ \/ /\ num < ser.index /\ ser'.index = ser.index
              /\ memVer' = memVer /\ data' = data /\ queue' = Less(queue, {})
           \/ /\ num = ser.index /\ ser'.index = num + 1
              /\ memVer' = txn.ver /\ queue' = Less(queue, {txn.id})
              /\ data' = [d \in Docs |-> IF DocOf[txn.id] = d THEN txn.id ELSE data[d]]
    BY <1>1, <1>10, <2>2, AddsOne
  <2> QED  BY <2>1, <2>2, <2>3
<1>13. /\ ser'.index >= 1 /\ Counted(s2c', Num', ser'.index)
       /\ Ascend(s2c', Len(executed'), memVer')
       /\ Follow(s2c, Len(executed), Num, ser.index, memVer) =>
            msg.num = ser.index /\ msg.ver = memVer + 1
       /\ memVer' = Brings(msg) /\ ser'.index = msg.num + 1
            => Follow(s2c', Len(executed'), Num', ser'.index, memVer')
  <2>1. (msg.num < ser.index /\ ser'.index = ser.index) \/ ser'.index = msg.num + 1  BY <1>12
  <2>2. memVer' = memVer \/ (~Resync(msg) /\ memVer' = Brings(msg))
    <3>1. memVer' = memVer \/ memVer' = msg.ver  BY <1>12
    <3>2. ~Resync(msg) /\ Brings(msg) = msg.ver  BY <1>4
    <3> QED  BY <3>1, <3>2
  <2>3. ser'.index \in Nat  BY <1>12
  <2>4. Raised(msg, ser.index, ser'.index) /\ Brought(msg, memVer, memVer')
    BY <1>4, <2>1, <2>2 DEF Raised, Brought
  <2> QED  BY <1>1, <1>4, <2>1, <2>3, <2>4, ReceivesOnce
<1>14. executed' = executed /\ committed' = committed /\ up # 0 /\ up' = up
  BY DEF Receives, storeVars
<1>15. Kept'
  <2>1. queue \in Seq(committed)  BY <1>1 DEF TypeOK
  <2>2. \A ids : Range(Less(queue, ids)) = Range(queue) \ ids  BY <2>1, LessProperties
  <2>3. ASSUME NEW t \in committed
        PROVE  t \in Range(queue') \/ \E v \in 1 .. memVer' : executed[v] = t
    <3>1. memVer \in Nat /\ msg.ver \in Nat /\ msg.ver >= 1
      <4>1. memVer \in 0 .. Len(executed)  BY <1>1 DEF TypeOK
      <4> QED  BY <1>5, <4>1 DEF Versions
    <3>2. t \in Range(queue) \/ \E v \in 1 .. memVer : executed[v] = t  BY <1>10 DEF Kept
    <3>3. CASE memVer' = memVer /\ queue' = Less(queue, {})  BY <2>2, <3>2, <3>3
    <3>4. CASE memVer' = msg.ver /\ queue' = Less(queue, {msg.id})
      <4>1. Range(queue') = Range(queue) \ {msg.id}  BY <2>2, <3>4
      <4>2. msg.ver \in 1 .. memVer' /\ \A v \in 1 .. memVer : v \in 1 .. memVer'
        BY <1>9, <3>1, <3>4
      <4> QED  BY <1>6, <3>2, <4>1, <4>2
    <3> QED  BY <1>12, <3>3, <3>4
  <2> QED  BY <1>12, <1>14, <2>3 DEF Kept
<1>16. SnapshotComing => SnapshotComing'
  BY <1>1, <1>4, StillComing
<1>17. ASSUME UpToDate PROVE UpToDate'
  <2>1. msg.num = ser.index /\ msg.ver = memVer + 1  BY <1>13, <1>17 DEF UpToDate
  <2>2. /\ ser'.index = msg.num + 1 /\ memVer' = msg.ver
        /\ data' = [d \in Docs |-> IF DocOf[msg.id] = d THEN msg.id ELSE data[d]]
    <3>1. ~(msg.num < ser.index)  BY <1>4, <2>1
    <3> QED  BY <1>12, <3>1
  <2>3. PICK f : f = executed  OBVIOUS
  <2>4. PICK v \in Nat : v = memVer
    <3>1. memVer \in 0 .. Len(executed)  BY <1>1 DEF TypeOK
    <3> QED  BY <3>1
  <2>5. \A d \in Docs : LastIn(f, d, v + 1) = IF DocOf[f[v + 1]] = d THEN f[v + 1] ELSE LastIn(f, d, v)
    BY LastInNext
  <2>6. f[v + 1] = msg.id  BY <1>6, <2>1, <2>3, <2>4
  <2>7. data = [d \in Docs |-> LastIn(f, d, v)]  BY <1>17, <2>3, <2>4 DEF UpToDate
  <2>8. data' = [d \in Docs |-> LastIn(f, d, v + 1)]  BY <2>2, <2>5, <2>6, <2>7
  <2>9. memVer' = v + 1 /\ executed' = f  BY <1>14, <2>1, <2>2, <2>3, <2>4
  <2>10. Follow(s2c', Len(executed'), Num', ser'.index, memVer')  BY <1>4, <1>13, <2>2
  <2> QED  BY <2>8, <2>9, <2>10 DEF UpToDate
<1>18. SnapshotComing \/ UpToDate  BY <1>14 DEF OnceInv
<1> QED  BY <1>13, <1>14, <1>15, <1>16, <1>17, <1>18 DEF OnceInv

\* What was buffered, from the first version on, applied to an empty memory.
LEMMA OnTxnsAll ==
  ASSUME NEW n \in Nat, memVer = 0, data = [d \in Docs |-> Null], OnTxns(Prefix(n))
  PROVE  /\ memVer' = n /\ data' = [d \in Docs |-> LastIn(executed, d, n)]
         /\ queue' = Less(queue, {executed[i] : i \in 1 .. n})
<1> DEFINE txns == Prefix(n)
           new == Newer(txns, memVer)
           LastNew(T) == CHOOSE i \in T : \A j \in T : j <= i
           On(d) == {i \in new : DocOf[txns[i].id] = d}
<1>1. /\ memVer' = IF new = {} THEN memVer ELSE txns[LastNew(new)].ver
      /\ data' = [d \in Docs |-> IF On(d) = {} THEN data[d] ELSE txns[LastNew(On(d))].id]
      /\ queue' = Less(queue, {txns[i].id : i \in new})
  BY DEF OnTxns
<1>2. DOMAIN txns = 1 .. n /\ \A i \in 1 .. n : txns[i].id = executed[i] /\ txns[i].ver = i
  BY DEF Prefix
<1> HIDE DEF txns
<1>3. new = 1 .. n
  <2>1. \A i \in 1 .. n : i > 0 /\ \A j \in 1 .. i - 1 : j \in 1 .. n /\ j < i  OBVIOUS
  <2>2. \A i \in 1 .. n : txns[i].ver > 0 /\ \A j \in 1 .. (i - 1) : txns[j].ver < txns[i].ver
    BY <1>2, <2>1
  <2> QED  BY <1>2, <2>2 DEF Newer
<1> HIDE DEF new
<1>4. \A T \in SUBSET (1 .. n) : T # {} => LastNew(T) \in T /\ \A j \in T : j <= LastNew(T)
  <2> SUFFICES ASSUME NEW T \in SUBSET (1 .. n), T # {}
               PROVE  LastNew(T) \in T /\ \A j \in T : j <= LastNew(T)
    OBVIOUS
  <2>1. \E i \in T : \A j \in T : j <= i  BY GreatestNumber
  <2> QED  BY <2>1
<1>5. memVer' = n
  <2>1. CASE n = 0
    <3>1. new = {}  BY <1>3, <2>1
    <3> QED  BY <1>1, <2>1, <3>1
  <2>2. CASE n # 0
    <3>1. n \in new /\ new \in SUBSET (1 .. n)  BY <1>3, <2>2
    <3>2. LastNew(new) \in 1 .. n /\ n <= LastNew(new)  BY <1>3, <1>4, <3>1
    <3> HIDE DEF LastNew
    <3>3. LastNew(new) = n  BY <3>2
    <3> QED  BY <1>1, <1>2, <3>1, <3>2, <3>3
  <2> QED  BY <2>1, <2>2
<1>6. PICK f : f = executed  OBVIOUS
<1>7. ASSUME NEW d \in Docs
      PROVE  (IF On(d) = {} THEN data[d] ELSE txns[LastNew(On(d))].id) = LastIn(f, d, n)
  <2> DEFINE vers == {w \in 1 .. n : DocOf[f[w]] = d}
  <2>1. On(d) = vers  BY <1>2, <1>3, <1>6
  <2>2. LastIn(f, d, n) = IF vers = {} THEN Null ELSE f[LastNew(vers)]  BY DEF LastIn
  <2>3. vers \in SUBSET (1 .. n)  OBVIOUS
  <2> HIDE DEF vers, On
  <2>4. vers # {} => LastNew(vers) \in 1 .. n  BY <1>4, <2>3
  <2> HIDE DEF LastNew
  <2>5. vers # {} => txns[LastNew(vers)].id = f[LastNew(vers)]  BY <1>2, <1>6, <2>4
  <2> QED  BY <2>1, <2>2, <2>5
<1>8. {txns[i].id : i \in new} = {executed[i] : i \in 1 .. n}  BY <1>2, <1>3
<1> HIDE DEF On, LastNew
<1>9. data' = [d \in Docs |-> LastIn(f, d, n)]  BY <1>1, <1>7
<1> QED  BY <1>1, <1>5, <1>6, <1>8, <1>9

\* What the first message is.
LEMMA FirstMessage ==
  ASSUME TypeOK, Sent, Receives, NEW msg, msg = Head(s2c)
  PROVE  /\ msg \in S2CMessages /\ 1 \in DOMAIN s2c /\ msg = s2c[1]
         /\ ~Resync(msg) => Brings(msg) \in 0 .. Len(executed)
         /\ Numbered(msg) => msg.num \in Nat
<1>1. 1 \in DOMAIN s2c /\ msg = s2c[1]
  <2>1. PICK n \in Nat : DOMAIN s2c = 1 .. n + 1 /\ Head(s2c) = s2c[1]  BY ReceivesList
  <2> QED  BY <2>1
<1> QED  BY <1>1, Bounds

\* A list of the model's own transactions is sent: those on their way stay.
LEMMA SendsQueue ==
  ASSUME TypeOK, Sent, committed' = committed, NEW ids \in Seq(committed), SendAll(TxnMsgs(ids))
  PROVE  /\ \A k \in Conns : \A i \in DOMAIN c2s'[k] :
              c2s'[k][i].type = "txn" => c2s'[k][i].id \in committed
         /\ up # 0 => \A i \in DOMAIN c2s[up] : i \in DOMAIN c2s'[up] /\ c2s'[up][i] = c2s[up][i]
<1>1. PICK msgs : msgs = TxnMsgs(ids)  OBVIOUS
<1>2. msgs \in Seq(Requests)  BY <1>1, RequestsType DEF Requests
<1>3. Requests' = Requests  BY DEF Requests
<1>4. msgs \in Seq(Requests') /\ SendAll(msgs)  BY <1>1, <1>2, <1>3
<1> QED  BY <1>4, SendAllKeeps

\* What was buffered is taken.
LEMMA NewTxnsTaken ==
  ASSUME IInv, SyncInv, Receives, OnNewTxns(Head(s2c))
  PROVE  SyncInv'
<1>1. TypeOK /\ SerializerOK /\ Connected /\ Sent  BY DEF IInv, SyncInv
<1>2. PICK msg : msg = Head(s2c)  OBVIOUS
<1>3. /\ msg.type = "newTxns" /\ OnTxns(msg.txns) /\ ser' = ClearPending(ser)
      /\ SendAll(TxnMsgs(queue')) /\ ownVer' = ownVer
  BY <1>2 DEF OnNewTxns
<1>4. 1 \in DOMAIN s2c /\ msg = s2c[1]  BY <1>1, <1>2, FirstMessage
<1>5. /\ memVer = 0 /\ ser.index = 1 /\ data = [d \in Docs |-> Null]
      /\ \E n \in 0 .. Len(executed) : msg.txns = Prefix(n)
  BY <1>1, <1>3, <1>4 DEF Sent
<1>6. PICK n \in 0 .. Len(executed) : msg.txns = Prefix(n)  BY <1>5
<1>7. n \in Nat /\ n <= Len(executed) /\ executed \in Seq(Txns)
  <2>1. executed \in Seq(Txns)  BY <1>1 DEF TypeOK
  <2> QED  BY <2>1
<1>8. /\ memVer' = n /\ data' = [d \in Docs |-> LastIn(executed, d, n)]
      /\ queue' = Less(queue, {executed[i] : i \in 1 .. n})
  BY <1>3, <1>5, <1>6, <1>7, OnTxnsAll
<1>9. queue \in Seq(committed)  BY <1>1 DEF TypeOK
<1>10. /\ queue' \in Seq(committed)
       /\ Range(queue') = Range(queue) \ {executed[i] : i \in 1 .. n}
  BY <1>8, <1>9, LessProperties
<1>11. committed' = committed /\ executed' = executed /\ up' = up  BY DEF Receives, storeVars
<1>12. PICK ids : ids = queue'  OBVIOUS
<1>13. \A k \in Conns : \A i \in DOMAIN c2s'[k] :
         c2s'[k][i].type = "txn" => c2s'[k][i].id \in committed
  <2>1. ids \in Seq(committed) /\ SendAll(TxnMsgs(ids))  BY <1>3, <1>10, <1>12
  <2> QED  BY <1>1, <1>11, <2>1, SendsQueue
<1>14. Connected' /\ Sent'  BY <1>1, <1>13, ReceivesSent
<1>15. ser'.index = ser.index /\ ser'.waiter = ser.waiter /\ DOMAIN ser'.pending \subseteq DOMAIN ser.pending
  <2>1. PICK new : new = ser'  OBVIOUS
  <2>2. new = ClearPending(ser)  BY <1>3, <2>1
  <2> QED  BY <1>1, <2>1, <2>2, ClearPendingProperties
<1>16. ASSUME ExecutedOnce' PROVE OnceInv'
  <2>1. OnceInv  BY <1>11, <1>16 DEF SyncInv, ExecutedOnce
  <2>2. ~Resync(msg) /\ ~Numbered(msg) /\ Brings(msg) = n
    <3>1. Len(Prefix(n)) = n  BY <1>7 DEF Prefix
    <3> QED  BY <1>3, <1>6, <3>1 DEF Resync, Numbered, Brings
  <2>3. ser'.index \in Nat  BY <1>5, <1>15
  <2>4. /\ ser'.index >= 1 /\ Counted(s2c', Num', ser'.index)
        /\ Ascend(s2c', Len(executed'), memVer')
        /\ Follow(s2c', Len(executed'), Num', ser'.index, memVer')
    <3>1. ser'.index = ser.index /\ ser.index = 1 /\ memVer' = Brings(msg)
      BY <1>5, <1>8, <1>15, <2>2
    <3>2. Raised(msg, ser.index, ser'.index) /\ Brought(msg, memVer, memVer')
      BY <2>2, <3>1 DEF Raised, Brought
    <3> QED  BY <1>1, <1>2, <2>1, <2>2, <2>3, <3>1, <3>2, ReceivesOnce
  <2>5. Kept'
    <3>1. ASSUME NEW t \in committed
          PROVE  t \in Range(queue') \/ \E v \in 1 .. n : executed[v] = t
      <4>1. t \in Range(queue) \/ \E v \in 1 .. 0 : executed[v] = t
        BY <1>5, <2>1 DEF OnceInv, Kept
      <4> QED  BY <1>10, <4>1
    <3>2. DOMAIN ser'.pending = {} /\ ~ser'.waiter  BY <1>15, <2>1 DEF OnceInv, Kept
    <3> QED  BY <1>8, <1>11, <3>1, <3>2 DEF Kept
  <2>6. UpToDate'
    <3>1. data' = [d \in Docs |-> LastIn(executed, d, n)]  BY <1>8
    <3> QED  BY <1>8, <1>11, <2>4, <3>1 DEF UpToDate
  <2> QED  BY <2>4, <2>5, <2>6 DEF OnceInv
<1> QED  BY <1>14, <1>16 DEF SyncInv

\* A snapshot is taken.
LEMMA ReplaceTaken ==
  ASSUME IInv, SyncInv, Receives, OnReplace(Head(s2c))
  PROVE  SyncInv'
<1>1. TypeOK /\ SerializerOK /\ Connected /\ Sent  BY DEF IInv, SyncInv
<1>2. PICK msg : msg = Head(s2c)  OBVIOUS
<1>3. /\ msg.type = "replace" /\ ser' = SetIndex(ClearPending(ser), msg.num + 1)
      /\ data' = DataAt(msg.ver) /\ memVer' = msg.ver
      /\ SendAll(TxnMsgs(queue)) /\ queue' = queue
  BY <1>2 DEF OnReplace
<1>4. 1 \in DOMAIN s2c /\ msg = s2c[1]  BY <1>1, <1>2, FirstMessage
<1>5. /\ Numbered(msg) /\ ~Resync(msg) /\ Brings(msg) = msg.ver /\ msg.num \in Nat
      /\ msg.ver \in 0 .. Len(executed)
  <2>1. Numbered(msg) /\ ~Resync(msg) /\ Brings(msg) = msg.ver
    BY <1>3 DEF Numbered, Resync, Brings
  <2> QED  BY <1>1, <1>2, <2>1, FirstMessage
<1>6. queue \in Seq(committed)  BY <1>1 DEF TypeOK
<1>7. committed' = committed /\ executed' = executed /\ up' = up  BY DEF Receives, storeVars
<1>8. \A k \in Conns : \A i \in DOMAIN c2s'[k] :
         c2s'[k][i].type = "txn" => c2s'[k][i].id \in committed
  BY <1>1, <1>3, <1>6, <1>7, SendsQueue
<1>9. Connected' /\ Sent'  BY <1>1, <1>8, ReceivesSent
<1>10. memVer <= msg.ver /\ memVer \in Nat /\ msg.ver \in Nat
  <2>1. memVer <= msg.ver  BY <1>3, <1>4 DEF IInv, NoOlderSnapshot
  <2>2. memVer \in 0 .. Len(executed)  BY <1>1 DEF TypeOK
  <2> QED  BY <1>5, <2>1, <2>2
<1>11. /\ ser'.index = msg.num + 1 /\ ser'.waiter = ser.waiter
       /\ DOMAIN ser'.pending \subseteq DOMAIN ser.pending
  <2>1. PICK new : new = ClearPending(ser)  OBVIOUS
  <2>2. /\ new = [index |-> new.index, pending |-> new.pending, waiter |-> new.waiter]
        /\ new.waiter = ser.waiter /\ DOMAIN new.pending \subseteq DOMAIN ser.pending
    BY <1>1, <2>1, ClearPendingProperties
  <2>3. ser' = [index |-> msg.num + 1, pending |-> new.pending, waiter |-> new.waiter]
    BY <1>3, <2>1, <2>2 DEF SetIndex
  <2> QED  BY <2>2, <2>3
<1>12. ASSUME ExecutedOnce' PROVE OnceInv'
  <2>1. OnceInv  BY <1>7, <1>12 DEF SyncInv, ExecutedOnce
  <2>2. /\ ser'.index >= 1 /\ Counted(s2c', Num', ser'.index)
        /\ Ascend(s2c', Len(executed'), memVer')
        /\ Follow(s2c', Len(executed'), Num', ser'.index, memVer')
    <3>1. ser'.index \in Nat /\ memVer' = Brings(msg)  BY <1>3, <1>5, <1>11
    <3>2. Raised(msg, ser.index, ser'.index) /\ Brought(msg, memVer, memVer')
      BY <1>5, <1>11, <3>1 DEF Raised, Brought
    <3> QED  BY <1>1, <1>2, <1>5, <1>11, <2>1, <3>1, <3>2, ReceivesOnce
  <2>3. Kept'
    <3>1. ASSUME NEW t \in committed
          PROVE  t \in Range(queue') \/ \E v \in 1 .. msg.ver : executed[v] = t
      <4>1. t \in Range(queue) \/ \E v \in 1 .. memVer : executed[v] = t
        BY <2>1 DEF OnceInv, Kept
      <4>2. \A v \in 1 .. memVer : v \in 1 .. msg.ver  BY <1>10
      <4> QED  BY <1>3, <4>1, <4>2
    <3>2. DOMAIN ser'.pending = {} /\ ~ser'.waiter  BY <1>11, <2>1 DEF OnceInv, Kept
    <3> QED  BY <1>3, <1>7, <3>1, <3>2 DEF Kept
  <2>4. UpToDate'
    <3>1. data' = [d \in Docs |-> LastIn(executed, d, msg.ver)]
      BY <1>3 DEF DataAt, LastOn, LastIn
    <3> QED  BY <1>3, <1>7, <2>2, <3>1 DEF UpToDate
  <2> QED  BY <2>2, <2>3, <2>4 DEF OnceInv
<1> QED  BY <1>9, <1>12 DEF SyncInv

\* Somebody else's transaction is taken.
LEMMA TxnTaken ==
  ASSUME IInv, SyncInv, Receives, OnTxnMessage(Head(s2c))
  PROVE  SyncInv'
<1>1. TypeOK /\ Connected /\ Sent  BY DEF IInv, SyncInv
<1>2. PICK msg : msg = Head(s2c)  OBVIOUS
<1>3. msg.type = "txn" /\ ownVer' = ownVer /\ AddTxn(TxnOf(msg), msg.num) /\ c2s' = c2s
  BY <1>2 DEF OnTxnMessage
<1>4. OfOne(msg) /\ msg.id \notin Own
  <2>1. msg \in S2CMessages  BY <1>1, <1>2, FirstMessage
  <2> QED  BY <1>3, <2>1, MessageShape, TxnsAssumption DEF OfOne
<1>5. executed' = executed  BY DEF Receives, storeVars
<1>6. Connected' /\ Sent'
  <2>1. \A k \in Conns : \A i \in DOMAIN c2s'[k] :
          c2s'[k][i].type = "txn" => c2s'[k][i].id \in committed
    BY <1>1, <1>3 DEF Sent
  <2> QED  BY <1>1, <2>1, ReceivesSent
<1>7. ASSUME ExecutedOnce' PROVE OnceInv'
  <2>1. OnceInv  BY <1>5, <1>7 DEF SyncInv, ExecutedOnce
  <2> QED  BY <1>1, <1>2, <1>3, <1>4, <2>1, OneTaken
<1> QED  BY <1>6, <1>7 DEF SyncInv

\* If nothing was executed twice, what is acknowledged is still in the queue.
LEMMA AcknowledgedQueued ==
  ASSUME IInv, Sent, OnceInv, ExecutedOnce, s2c # << >>, NEW msg, msg = Head(s2c),
         msg.type = "txnOk"
  PROVE  msg.id \in Range(queue)
<1>1. TypeOK  BY DEF IInv
<1>2. /\ s2c \in Seq(S2CMessages) /\ executed \in Seq(Txns) /\ memVer \in 0 .. Len(executed)
  BY <1>1 DEF TypeOK
<1>3. 1 \in DOMAIN s2c /\ 1 \in 1 .. Len(s2c) /\ msg = s2c[1]
  <2>1. Len(s2c) \in Nat /\ Len(s2c) # 0  BY <1>2, EmptySeq
  <2> QED  BY <1>2, <2>1
<1>4. OfOne(msg) /\ msg \in S2CMessages  BY <1>1, <1>3, Bounds DEF OfOne
<1>5. msg.id \in Own /\ msg.ver \in Versions  BY <1>4, MessageShape
<1>6. msg.ver \in DOMAIN executed /\ executed[msg.ver] = msg.id
  BY <1>2, <1>3, <1>4, <1>5 DEF Sent, Versions
<1>7. memVer < msg.ver  BY <1>3, <1>4 DEF OnceInv, Ascend
<1>8. msg.id \in committed  BY <1>5, <1>6 DEF Sent
<1>9. ASSUME NEW v \in 1 .. memVer, executed[v] = msg.id PROVE FALSE
  <2>1. v \in DOMAIN executed /\ v # msg.ver  BY <1>2, <1>5, <1>7 DEF Versions
  <2> QED  BY <1>6, <1>9, <2>1 DEF ExecutedOnce, IsInjective
<1> QED  BY <1>8, <1>9 DEF OnceInv, Kept

\* An acknowledgement is taken.
LEMMA TxnOkTaken ==
  ASSUME IInv, SyncInv, Receives, OnTxnOk(Head(s2c))
  PROVE  SyncInv'
<1>1. TypeOK /\ Connected /\ Sent  BY DEF IInv, SyncInv
<1>2. PICK msg : msg = Head(s2c)  OBVIOUS
<1>3. /\ msg.type = "txnOk" /\ c2s' = c2s
      /\ msg.id \in Range(queue) =>
           ownVer' = [ownVer EXCEPT ![msg.id] = msg.ver] /\ AddTxn(TxnOf(msg), msg.num)
  BY <1>2 DEF OnTxnOk
<1>4. executed' = executed /\ s2c # << >>  BY DEF Receives, storeVars
<1>5. Connected' /\ Sent'
  <2>1. \A k \in Conns : \A i \in DOMAIN c2s'[k] :
          c2s'[k][i].type = "txn" => c2s'[k][i].id \in committed
    BY <1>1, <1>3 DEF Sent
  <2> QED  BY <1>1, <2>1, ReceivesSent
<1>6. ASSUME ExecutedOnce' PROVE OnceInv'
  <2>1. OnceInv /\ ExecutedOnce  BY <1>4, <1>6 DEF SyncInv, ExecutedOnce
  <2>2. msg.id \in Range(queue)  BY <1>1, <1>2, <1>3, <1>4, <2>1, AcknowledgedQueued
  <2>3. OfOne(msg)  BY <1>3 DEF OfOne
  <2>4. msg.id \in Own => ownVer'[msg.id] = msg.ver
    <3>1. ownVer \in [Own -> 0 .. Len(executed)]  BY <1>1 DEF TypeOK
    <3> QED  BY <1>3, <2>2, <3>1
  <2> QED  BY <1>1, <1>2, <1>3, <2>1, <2>2, <2>3, <2>4, OneTaken
<1> QED  BY <1>5, <1>6 DEF SyncInv

\* The store asks the browser for its subscriptions: it will send a snapshot.
LEMMA ResyncTaken ==
  ASSUME IInv, SyncInv, Receives, OnResync(Head(s2c))
  PROVE  SyncInv'
<1>1. TypeOK /\ Connected /\ Sent  BY DEF IInv, SyncInv
<1>2. PICK msg : msg = Head(s2c)  OBVIOUS
<1>3. /\ msg.type = "resyncWithStore" /\ SendAll(<<[type |-> "subs"]>>)
      /\ UNCHANGED <<queue, ownVer, data, memVer, ser>>
  BY <1>2 DEF OnResync
<1>4. /\ executed' = executed /\ committed' = committed /\ up' = up /\ up # 0
  BY DEF Receives, storeVars
<1>5. PICK msgs : msgs = <<[type |-> "subs"]>>  OBVIOUS
<1>6. /\ \A k \in Conns : \A i \in DOMAIN c2s'[k] :
           c2s'[k][i].type = "txn" => c2s'[k][i].id \in committed
      /\ [type |-> "subs"] \in Range(c2s'[up])
  <2>1. PICK T : T = Requests'  OBVIOUS
  <2>2. [type |-> "subs"] \in T  BY <2>1 DEF Requests
  <2>3. msgs \in Seq(T)  BY <1>5, <2>2
  <2>4. msgs \in Seq(Requests') /\ SendAll(msgs)  BY <1>3, <1>5, <2>1, <2>3
  <2>5. committed \subseteq committed'  BY <1>4
  <2>6. 1 \in DOMAIN msgs /\ msgs[1] = [type |-> "subs"]  BY <1>5
  <2>7. [type |-> "subs"] \in Range(msgs)  BY <2>6 DEF Range
  <2>8. /\ \A k \in Conns : \A i \in DOMAIN c2s'[k] :
             c2s'[k][i].type = "txn" => c2s'[k][i].id \in committed'
        /\ \A m \in Range(msgs) : m \in Range(c2s'[up])
    BY <1>1, <1>4, <2>4, <2>5, SendAllKeeps
  <2> QED  BY <1>4, <2>7, <2>8
<1>7. Connected' /\ Sent'  BY <1>1, <1>6, ReceivesSent
<1>8. ASSUME ExecutedOnce' PROVE OnceInv'
  <2>1. OnceInv  BY <1>4, <1>8 DEF SyncInv, ExecutedOnce
  <2>2. ser'.index \in Nat  BY <1>1, <1>3 DEF TypeOK
  <2>3. Raised(msg, ser.index, ser'.index) /\ Brought(msg, memVer, memVer')
    BY <1>3 DEF Raised, Brought, Numbered
  <2>4. /\ ser'.index >= 1 /\ Counted(s2c', Num', ser'.index)
        /\ Ascend(s2c', Len(executed'), memVer')
    BY <1>1, <1>2, <2>1, <2>2, <2>3, ReceivesOnce
  <2>5. Kept'
    <3>1. ExecutesOne  BY <1>4 DEF ExecutesOne
    <3> QED  BY <1>1, <1>3, <1>4, <2>1, <3>1, KeptStays DEF OnceInv
  <2>6. SnapshotComing'
    <3>1. PICK i \in DOMAIN c2s'[up] : c2s'[up][i] = [type |-> "subs"]  BY <1>6 DEF Range
    <3>2. c2s'[up][i].type = "subs"  BY <3>1
    <3> QED  BY <1>4, <3>2 DEF SnapshotComing
  <2> QED  BY <2>4, <2>5, <2>6 DEF OnceInv
<1> QED  BY <1>7, <1>8 DEF SyncInv

\* Any message is taken.
LEMMA ClientReceiveSync ==
  ASSUME IInv, SyncInv, ClientReceive
  PROVE  SyncInv'
<1>1. Receives  BY DEF ClientReceive, Receives
<1>2. \/ OnTxnMessage(Head(s2c)) \/ OnTxnOk(Head(s2c)) \/ OnNewTxns(Head(s2c))
      \/ OnReplace(Head(s2c)) \/ OnResync(Head(s2c))
  BY DEF ClientReceive
<1> QED  BY <1>1, <1>2, TxnTaken, TxnOkTaken, NewTxnsTaken, ReplaceTaken, ResyncTaken

-----------------------------------------------------------------------------
(* The invariant *)

\* At first nobody has connected.
LEMMA InitSync == Init => SyncInv
<1> SUFFICES ASSUME Init PROVE SyncInv  OBVIOUS
<1>1. /\ executed = << >> /\ clientNum = 0 /\ sock = 0 /\ buffer = << >> /\ open = {}
      /\ up = 0 /\ conns = 0 /\ c2s = [k \in Conns |-> << >>] /\ s2c = << >>
      /\ committed = {} /\ data = [d \in Docs |-> Null] /\ memVer = 0 /\ ser = NewSerializer(1)
      /\ buffering
  BY DEF Init
<1>2. ser.index = 1 /\ ~ser.waiter /\ DOMAIN ser.pending = {}  BY <1>1 DEF NewSerializer
<1>3. /\ Len(executed) = 0 /\ Len(s2c) = 0
      /\ \A i \in DOMAIN executed : FALSE /\ \A j \in DOMAIN s2c : FALSE
  BY <1>1
<1>4. buffer = Prefix(Len(executed))
  <2>1. Prefix(0) = << >>  BY DEF Prefix
  <2> QED  BY <1>1, <1>3, <2>1
<1>5. Connected  BY <1>1, <1>2, <1>4 DEF Connected, NothingYet
<1>6. Sent
  <2>1. \A k \in Conns : c2s[k] = << >>  BY <1>1
  <2>2. \A k \in Conns : \A i \in DOMAIN c2s[k] : FALSE  BY <2>1
  <2>3. DOMAIN executed = {} /\ DOMAIN s2c = {}  BY <1>1
  <2> QED  BY <2>2, <2>3 DEF Sent
<1>7. OnceInv
  <2>1. Ascend(s2c, Len(executed), memVer)  BY <1>1, <1>3 DEF Ascend
  <2>2. Kept  BY <1>1, <1>2 DEF Kept
  <2> QED  BY <1>1, <1>2, <2>1, <2>2 DEF OnceInv
<1> QED  BY <1>5, <1>6, <1>7 DEF SyncInv

\* Nothing happens.
LEMMA StutterSync ==
  ASSUME SyncInv, UNCHANGED vars
  PROVE  SyncInv'
<1>1. UNCHANGED <<storeVars, netVars, clientVars>>  BY DEF vars
<1>2. \A n : Prefix(n)' = Prefix(n)  BY <1>1 DEF Prefix, storeVars
<1>3. NothingYet' <=> NothingYet  BY <1>1, <1>2 DEF NothingYet, storeVars, netVars, clientVars
<1>4. Connected'
  BY <1>1, <1>3 DEF SyncInv, Connected, storeVars, netVars
<1>5. Sent'
  BY <1>1, <1>2 DEF SyncInv, Sent, storeVars, netVars, clientVars
<1>6. Kept' <=> Kept  BY <1>1 DEF Kept, storeVars, clientVars
<1>7. Num' = Num  BY <1>1 DEF Num, storeVars
<1>8. UpToDate' <=> UpToDate
  BY <1>1, <1>7 DEF UpToDate, storeVars, netVars, clientVars
<1>9. SnapshotComing' <=> SnapshotComing  BY <1>1 DEF SnapshotComing, netVars
<1>10. OnceInv' <=> OnceInv
  BY <1>1, <1>6, <1>7, <1>8, <1>9 DEF OnceInv, storeVars, netVars, clientVars
<1>11. ExecutedOnce' <=> ExecutedOnce  BY <1>1 DEF ExecutedOnce, storeVars
<1> QED  BY <1>4, <1>5, <1>10, <1>11 DEF SyncInv

\* Every step keeps the invariant, if the browser comes back only after it was forgotten.
LEMMA StepSync ==
  ASSUME Reconnects = "forgotten", IInv, SyncInv, [Next]_vars
  PROVE  SyncInv'
<1>1. TypeOK /\ SerializerOK  BY DEF IInv
<1>2. CASE UNCHANGED vars  BY <1>2, StutterSync
<1>3. ASSUME NEW t \in Others, StoreTxn(t) PROVE SyncInv'  BY <1>1, <1>3, StoreTxnSync
<1>4. ASSUME NEW k \in Conns, ServerReceive(k) PROVE SyncInv'
  BY <1>1, <1>4, ServerReceiveSync
<1>5. ASSUME NEW k \in Conns, ServerDisconnect(k) PROVE SyncInv'
  BY <1>1, <1>5, ServerDisconnectSync
<1>6. CASE BufferExpire  BY <1>1, <1>6, BufferExpireSync
<1>7. CASE Connect  BY <1>1, <1>7, ConnectSync
<1>8. CASE Drop  BY <1>1, <1>8, DropSync
<1>9. ASSUME NEW t \in Own, Commit(t) PROVE SyncInv'  BY <1>1, <1>9, CommitSync
<1>10. CASE ClientReceive  BY <1>10, ClientReceiveSync
<1>11. CASE Timeout  BY <1>1, <1>11, TimeoutSync
<1>12. ASSUME NEW k \in 1 .. Cardinality(Own), Resend(k) PROVE SyncInv'
  <2>1. k \in DOMAIN queue  BY <1>12 DEF Resend
  <2> QED  BY <1>1, <1>12, <2>1, ResendSync
<1> QED
  BY <1>2, <1>3, <1>4, <1>5, <1>6, <1>7, <1>8, <1>9, <1>10, <1>11, <1>12 DEF Next

\* Once quiet no snapshot is under way, so that the model is in step.
LEMMA QuietInStep ==
  ASSUME IInv, SyncInv
  PROVE  OnceMeansSynced
<1> SUFFICES ASSUME Quiet, ExecutedOnce PROVE data = DataAt(Len(executed))
  BY DEF OnceMeansSynced
<1>1. up # 0 /\ s2c = << >> /\ c2s[up] = << >>  BY DEF Quiet
<1>2. DOMAIN s2c = {} /\ DOMAIN c2s[up] = {} /\ Len(s2c) = 0  BY <1>1
<1>3. UpToDate  BY <1>1, <1>2 DEF SyncInv, OnceInv, SnapshotComing
<1>4. memVer = Len(executed)  BY <1>2, <1>3 DEF UpToDate, Follow
<1> QED  BY <1>3, <1>4 DEF UpToDate, DataAt, LastOn, LastIn

\* A browser that comes back after the store forgot it catches up, whatever the
\* connection lost and whatever was committed meanwhile: once nothing is under way,
\* and if the store executed nothing twice, the model has what the store has
\* (README.md:46; the snapshot that reconnect.Store.js has the model ask for and
\* snapshotUpdate:replace of descriptor.Model.js takes).
THEOREM ForgottenCatchesUp ==
  ASSUME Reconnects = "forgotten"
  PROVE  Spec => []OnceMeansSynced
<1>1. IInv /\ SyncInv /\ [Next]_vars => SyncInv'  BY StepSync
<1>2. Spec => []SyncInv  BY InitSync, Invariant, <1>1, PTL DEF Spec
<1>3. IInv /\ SyncInv => OnceMeansSynced  BY QuietInStep
<1> QED  BY Invariant, <1>2, <1>3, PTL
=============================================================================
