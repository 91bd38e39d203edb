-------------------------- MODULE TxnPipelineProofs --------------------------
(***************************************************************************)
(* Proofs about TxnPipeline: for any clients, documents, subscriptions and *)
(* bounds, whatever order the database answers in and whichever writes it  *)
(* refuses, the writes on a document are made in the order of the versions *)
(* and the versions go out in order, none of them before it is stored.     *)
(***************************************************************************)
EXTENDS TxnPipeline, SequenceTheorems, FiniteSetTheorems, WellFoundedInduction, TLAPS

Stored == {stored[i] : i \in DOMAIN stored}

\* How many versions have gone out.
Gone == Len(txns) - Len(versToPublish)

Shape ==
  /\ txns \in Seq([author : Authors, doc : Docs])
  /\ writing \subseteq 1 .. Len(txns)
  /\ writeLocks \subseteq Docs
  /\ waitingForUnlock \in [Docs -> Seq(Nat)]
  /\ stored \in Seq(Nat)
  /\ \A i \in DOMAIN stored : stored[i] \in 1 .. Len(txns)
  /\ versToPublish \in Seq(Nat)

\* Who waits for a document wants to write on it, after the one that writes,
\* after all that was written, and in the order of the versions.
WaitingInOrder ==
  \A d \in Docs : \A i \in DOMAIN waitingForUnlock[d] :
     LET v == waitingForUnlock[d][i] IN
     /\ v \in 1 .. Len(txns) /\ txns[v].doc = d
     /\ \A j \in DOMAIN waitingForUnlock[d] : i < j => v < waitingForUnlock[d][j]
     /\ \A w \in writing : txns[w].doc = d => w < v

OneWriter ==
  /\ \A v, w \in writing : txns[v].doc = txns[w].doc => v = w
  /\ \A d \in Docs : d \in writeLocks <=> \E v \in writing : txns[v].doc = d
  /\ \A d \in Docs : waitingForUnlock[d] # << >> => d \in writeLocks

WriterIsNewest ==
  \A v \in writing : \A i \in DOMAIN stored :
     txns[stored[i]].doc = txns[v].doc => stored[i] < v

\* What has gone out are the versions up to Gone, what is to be published are
\* those above, and a version there is ready exactly when it is stored.
QueueInOrder ==
  /\ Gone \in Nat
  /\ emitted = [i \in 1 .. Gone |-> emitted[i]]
  /\ \A i \in 1 .. Gone : emitted[i].ver = i /\ i \in Stored
  /\ \A i \in DOMAIN versToPublish : versToPublish[i] = Gone + i
  /\ DOMAIN publishQueueByVer = (Gone + 1) .. Len(txns)
  /\ \A v \in DOMAIN publishQueueByVer : publishQueueByVer[v].okToClear <=> v \in Stored
  /\ versToPublish # << >> => Gone + 1 \notin Stored

LockInv == WaitingInOrder /\ OneWriter /\ WriterIsNewest /\ WritesInOrder
IInv == Shape /\ LockInv /\ QueueInOrder

-----------------------------------------------------------------------------
\* The store starts with nothing accepted and nothing locked.
LEMMA InitIInv == Init => IInv
<1> SUFFICES ASSUME Init PROVE IInv  OBVIOUS
<1>1. /\ txns = << >> /\ writing = {} /\ writeLocks = {} /\ stored = << >>
      /\ versToPublish = << >> /\ emitted = << >>
      /\ \A d \in Docs : waitingForUnlock[d] = << >>
      /\ DOMAIN publishQueueByVer = {}
  BY DEF Init
<1>2. Shape
  <2>1. waitingForUnlock \in [Docs -> Seq(Nat)]  BY DEF Init
  <2> QED  BY <1>1, <2>1 DEF Shape
<1>3. LockInv
  BY <1>1 DEF LockInv, WaitingInOrder, OneWriter, WriterIsNewest, WritesInOrder
<1>4. QueueInOrder
  BY <1>1 DEF QueueInOrder, Gone
<1> QED  BY <1>2, <1>3, <1>4 DEF IInv

-----------------------------------------------------------------------------
(* Submit *)

\* Submit keeps every variable in shape.
LEMMA SubmitShape ==
  ASSUME Shape, LockInv, NEW a \in Authors, NEW d \in Docs, Submit(a, d)
  PROVE  Shape'
<1> DEFINE v == Len(txns) + 1
<1>1. /\ txns' = Append(txns, [author |-> a, doc |-> d]) /\ stored' = stored
      /\ versToPublish' = Append(versToPublish, v) /\ SendToDb(v, d)
  BY DEF Submit
<1>2. txns' \in Seq([author : Authors, doc : Docs]) /\ Len(txns') = v /\ v \in Nat
  BY <1>1 DEF Shape
<1>3. versToPublish' \in Seq(Nat)
  BY <1>1, <1>2 DEF Shape
<1>4. writing' \subseteq 1 .. Len(txns') /\ writeLocks' \subseteq Docs
  <2>1. writing' \subseteq writing \cup {v} /\ writeLocks' \subseteq writeLocks \cup {d}
    BY <1>1 DEF SendToDb
  <2>2. Len(txns) \in Nat /\ writing \subseteq 1 .. Len(txns) /\ writeLocks \subseteq Docs
    BY DEF Shape
  <2>3. 1 .. Len(txns) \subseteq 1 .. Len(txns') /\ v \in 1 .. Len(txns')
    BY <1>2, <2>2
  <2>4. writing' \subseteq 1 .. Len(txns')  BY <2>1, <2>2, <2>3
  <2>5. writeLocks' \subseteq Docs  BY <2>1, <2>2
  <2> QED  BY <2>4, <2>5
<1>5. waitingForUnlock' \in [Docs -> Seq(Nat)]
  <2>1. waitingForUnlock[d] \in Seq(Nat)  BY DEF Shape
  <2>2. Append(waitingForUnlock[d], v) \in Seq(Nat)  BY <1>2, <2>1
  <2> QED  BY <1>1, <2>2 DEF SendToDb, Shape
<1>6. stored' \in Seq(Nat) /\ \A i \in DOMAIN stored' : stored'[i] \in 1 .. Len(txns')
  BY <1>1, <1>2 DEF Shape
<1> QED  BY <1>2, <1>3, <1>4, <1>5, <1>6 DEF Shape

\* A new write takes the free lock or goes behind all that wait for it.
LEMMA SubmitLocks ==
  ASSUME Shape, LockInv, NEW a \in Authors, NEW d \in Docs, Submit(a, d)
  PROVE  LockInv'
<1> DEFINE v == Len(txns) + 1
<1>1. /\ txns' = Append(txns, [author |-> a, doc |-> d]) /\ stored' = stored
      /\ SendToDb(v, d)
  BY DEF Submit
<1>2. /\ v \in Nat /\ Len(txns') = v /\ txns'[v].doc = d
      /\ \A w \in 1 .. Len(txns) : txns'[w] = txns[w] /\ w < v /\ w \in 1 .. Len(txns')
      /\ v \in 1 .. Len(txns')
  BY <1>1 DEF Shape
<1>3. WritesInOrder'
  <2>1. \A i \in DOMAIN stored : txns'[stored[i]] = txns[stored[i]]
    BY <1>2 DEF Shape
  <2>2. stored' = stored  BY <1>1
  <2>3. \A i, j \in DOMAIN stored :
           i < j /\ txns'[stored[i]].doc = txns'[stored[j]].doc => stored[i] < stored[j]
    BY <2>1 DEF WritesInOrder, LockInv
  <2> QED  BY <2>2, <2>3 DEF WritesInOrder
<1>4. CASE d \in writeLocks
  <2>1. /\ waitingForUnlock' = [waitingForUnlock EXCEPT ![d] = Append(@, v)]
        /\ writing' = writing /\ writeLocks' = writeLocks
    BY <1>1, <1>4 DEF SendToDb
  <2>2. \A e \in Docs : e # d => waitingForUnlock'[e] = waitingForUnlock[e]
    BY <2>1 DEF Shape
  <2>3. /\ Len(waitingForUnlock[d]) \in Nat
        /\ DOMAIN waitingForUnlock[d] = 1 .. Len(waitingForUnlock[d])
        /\ DOMAIN waitingForUnlock'[d] = 1 .. (Len(waitingForUnlock[d]) + 1)
        /\ waitingForUnlock'[d][Len(waitingForUnlock[d]) + 1] = v
        /\ \A i \in DOMAIN waitingForUnlock[d] :
              waitingForUnlock'[d][i] = waitingForUnlock[d][i]
    <3>1. waitingForUnlock[d] \in Seq(Nat)  BY DEF Shape
    <3>2. waitingForUnlock'[d] = Append(waitingForUnlock[d], v)  BY <2>1 DEF Shape
    <3> QED  BY <1>2, <3>1, <3>2, AppendProperties
  <2>4. WaitingInOrder'
    <3> SUFFICES ASSUME NEW e \in Docs, NEW i \in DOMAIN waitingForUnlock'[e]
                 PROVE  LET u == waitingForUnlock'[e][i] IN
                        /\ u \in 1 .. Len(txns') /\ txns'[u].doc = e
                        /\ \A j \in DOMAIN waitingForUnlock'[e] :
                              i < j => u < waitingForUnlock'[e][j]
                        /\ \A w \in writing' : txns'[w].doc = e => w < u
      BY DEF WaitingInOrder
    <3>1. CASE e # d
      <4>1. waitingForUnlock'[e] = waitingForUnlock[e]  BY <2>2, <3>1
      <4>2. \A w \in writing' : w \in writing /\ txns'[w] = txns[w]
        BY <1>2, <2>1 DEF Shape
      <4>3. i \in DOMAIN waitingForUnlock[e]  BY <4>1
      <4>4. LET u == waitingForUnlock[e][i] IN
            /\ u \in 1 .. Len(txns) /\ txns[u].doc = e
            /\ \A j \in DOMAIN waitingForUnlock[e] : i < j => u < waitingForUnlock[e][j]
            /\ \A w \in writing : txns[w].doc = e => w < u
        BY <4>3 DEF WaitingInOrder, LockInv
      <4> QED  BY <1>2, <4>1, <4>2, <4>4
    <3>2. CASE e = d /\ i \in DOMAIN waitingForUnlock[d]
      <4>1. waitingForUnlock'[e][i] = waitingForUnlock[d][i] /\ e = d  BY <2>3, <3>2
      <4>2. \A j \in DOMAIN waitingForUnlock'[e] :
               i < j => waitingForUnlock[d][i] < waitingForUnlock'[e][j]
        <5>1. waitingForUnlock[d][i] < v
          BY <1>2, <3>2 DEF WaitingInOrder, LockInv
        <5>2. \A j \in DOMAIN waitingForUnlock[d] :
                 i < j => waitingForUnlock[d][i] < waitingForUnlock[d][j]
          BY <3>2 DEF WaitingInOrder, LockInv
        <5> QED  BY <2>3, <3>2, <5>1, <5>2
      <4>3. /\ waitingForUnlock[d][i] \in 1 .. Len(txns)
            /\ txns[waitingForUnlock[d][i]].doc = d
            /\ \A w \in writing : txns[w].doc = d => w < waitingForUnlock[d][i]
        BY <3>2 DEF WaitingInOrder, LockInv
      <4> QED  BY <1>2, <2>1, <4>1, <4>2, <4>3 DEF Shape
    <3>3. CASE e = d /\ i = Len(waitingForUnlock[d]) + 1
      BY <1>2, <2>1, <2>3, <3>3 DEF Shape
    <3> QED  BY <2>3, <3>1, <3>2, <3>3
  <2>5. OneWriter'
    <3>1. \A w \in writing : txns'[w] = txns[w]  BY <1>2 DEF Shape
    <3>2. \A e \in Docs : waitingForUnlock'[e] # << >> => e \in writeLocks'
      BY <1>4, <2>1, <2>2 DEF OneWriter, LockInv
    <3> QED  BY <2>1, <3>1, <3>2 DEF OneWriter, LockInv
  <2>6. WriterIsNewest'
    BY <1>1, <1>2, <2>1 DEF WriterIsNewest, LockInv, Shape
  <2> QED  BY <1>3, <2>4, <2>5, <2>6 DEF LockInv
<1>5. CASE d \notin writeLocks
  <2>1. /\ writeLocks' = writeLocks \cup {d} /\ writing' = writing \cup {v}
        /\ waitingForUnlock' = waitingForUnlock
    BY <1>1, <1>5 DEF SendToDb
  <2>2. waitingForUnlock[d] = << >> /\ \A w \in writing : txns[w].doc # d
    BY <1>5 DEF OneWriter, LockInv
  <2>3. WaitingInOrder'
    <3> SUFFICES ASSUME NEW e \in Docs, NEW i \in DOMAIN waitingForUnlock[e]
                 PROVE  LET u == waitingForUnlock[e][i] IN
                        /\ u \in 1 .. Len(txns') /\ txns'[u].doc = e
                        /\ \A j \in DOMAIN waitingForUnlock[e] :
                              i < j => u < waitingForUnlock[e][j]
                        /\ \A w \in writing' : txns'[w].doc = e => w < u
      BY <2>1 DEF WaitingInOrder
    <3>1. LET u == waitingForUnlock[e][i] IN
            /\ u \in 1 .. Len(txns) /\ txns[u].doc = e
            /\ \A j \in DOMAIN waitingForUnlock[e] : i < j => u < waitingForUnlock[e][j]
            /\ \A w \in writing : txns[w].doc = e => w < u
      BY DEF WaitingInOrder, LockInv
    <3>2. e # d  BY <2>2
    <3>3. \A w \in writing' : txns'[w].doc = e => w \in writing /\ txns[w].doc = e
      BY <1>2, <2>1, <3>2 DEF Shape
    <3> QED  BY <1>2, <3>1, <3>3
  <2>4. OneWriter'
    <3>1. \A w \in writing : txns'[w] = txns[w]  BY <1>2 DEF Shape
    <3> QED  BY <1>2, <2>1, <2>2, <3>1 DEF OneWriter, LockInv
  <2>5. WriterIsNewest'
    <3>1. \A w \in writing : txns'[w] = txns[w]  BY <1>2 DEF Shape
    <3>2. \A i \in DOMAIN stored : txns'[stored[i]] = txns[stored[i]] /\ stored[i] < v
      BY <1>2 DEF Shape
    <3> QED  BY <1>1, <2>1, <3>1, <3>2 DEF WriterIsNewest, LockInv
  <2> QED  BY <1>3, <2>3, <2>4, <2>5 DEF LockInv
<1> QED  BY <1>4, <1>5

\* A new version goes to the end of the line, not ready.
LEMMA SubmitQueue ==
  ASSUME IInv, NEW a \in Authors, NEW d \in Docs, Submit(a, d)
  PROVE  QueueInOrder'
<1> DEFINE v == Len(txns) + 1
<1>1. /\ txns' = Append(txns, [author |-> a, doc |-> d]) /\ stored' = stored
      /\ versToPublish' = Append(versToPublish, v) /\ emitted' = emitted
      /\ publishQueueByVer' = [w \in DOMAIN publishQueueByVer \cup {v} |->
                             IF w = v THEN [okToClear |-> FALSE, list |-> NoMessages]
                                      ELSE publishQueueByVer[w]]
  BY DEF Submit
<1>2. Len(txns) \in Nat /\ Len(versToPublish) \in Nat /\ Gone \in Nat
  BY DEF IInv, Shape, QueueInOrder
<1>3. /\ Len(txns') = v /\ Len(versToPublish') = Len(versToPublish) + 1
      /\ versToPublish'[Len(versToPublish) + 1] = v
      /\ DOMAIN versToPublish' = 1 .. (Len(versToPublish) + 1)
      /\ \A i \in 1 .. Len(versToPublish) : versToPublish'[i] = versToPublish[i]
  BY <1>1, <1>2, AppendProperties DEF IInv, Shape
<1>4. Gone' = Gone /\ Gone + Len(versToPublish) = Len(txns)
  BY <1>2, <1>3 DEF Gone
<1>5. \A w : w \in Stored' <=> w \in Stored
  BY <1>1 DEF Stored
<1>6. v \notin Stored
  BY <1>2 DEF Stored, IInv, Shape
<1>7. \A i \in DOMAIN versToPublish' : versToPublish'[i] = Gone + i
  <2>1. \A i \in 1 .. Len(versToPublish) : versToPublish[i] = Gone + i
    BY DEF QueueInOrder, IInv, Shape
  <2>2. Gone + (Len(versToPublish) + 1) = v
    BY <1>2, <1>4
  <2> QED  BY <1>2, <1>3, <2>1, <2>2
<1>8. DOMAIN publishQueueByVer' = (Gone + 1) .. Len(txns')
  BY <1>1, <1>2, <1>3, <1>4 DEF QueueInOrder, IInv
<1>9. \A w \in DOMAIN publishQueueByVer' : publishQueueByVer'[w].okToClear <=> w \in Stored
  BY <1>1, <1>6 DEF QueueInOrder, IInv
<1>10. Gone + 1 \notin Stored
  <2>1. CASE versToPublish = << >>
    BY <1>2, <1>4, <1>6, <2>1
  <2> QED  BY <2>1 DEF QueueInOrder, IInv
<1> QED  BY <1>1, <1>2, <1>4, <1>5, <1>7, <1>8, <1>9, <1>10 DEF QueueInOrder, IInv

-----------------------------------------------------------------------------
(* The database answers. *)

\* What lockingDone and a possible store keep in order.
LEMMA AnswerLocks ==
  ASSUME Shape, LockInv, NEW v \in writing, LockingDone(v, txns[v].doc),
         txns' = txns, versToPublish' \in Seq(Nat),
         stored' = stored \/ stored' = Append(stored, v)
  PROVE  Shape' /\ LockInv'
<1> DEFINE d == txns[v].doc
<1>1. v \in 1 .. Len(txns) /\ v \in Nat /\ d \in Docs /\ Len(txns) \in Nat
  <2>1. v \in 1 .. Len(txns) /\ Len(txns) \in Nat
        /\ txns \in Seq([author : Authors, doc : Docs])
    BY DEF Shape
  <2>2. txns[v] \in [author : Authors, doc : Docs]  BY <2>1, ElementOfSeq
  <2> QED  BY <2>1, <2>2
<1>2. /\ stored' \in Seq(Nat)
      /\ \A i \in DOMAIN stored' :
            stored'[i] = v \/ (i \in DOMAIN stored /\ stored'[i] = stored[i])
  <2>1. CASE stored' = stored  BY <2>1 DEF Shape
  <2>2. CASE stored' = Append(stored, v)
    <3>1. stored \in Seq(Nat)  BY DEF Shape
    <3> QED  BY <1>1, <2>2, <3>1, AppendProperties
  <2> QED  BY <2>1, <2>2
<1>3. \A i \in DOMAIN stored' : stored'[i] \in 1 .. Len(txns')
  BY <1>1, <1>2 DEF Shape
<1>4. WritesInOrder'
  <2>1. CASE stored' = stored
    BY <2>1 DEF WritesInOrder, LockInv
  <2>2. CASE stored' = Append(stored, v)
    <3>1. /\ Len(stored) \in Nat /\ DOMAIN stored = 1 .. Len(stored)
          /\ DOMAIN stored' = 1 .. (Len(stored) + 1)
          /\ stored'[Len(stored) + 1] = v
          /\ \A i \in 1 .. Len(stored) : stored'[i] = stored[i]
      BY <1>1, <2>2, AppendProperties DEF Shape
    <3> SUFFICES ASSUME NEW i \in DOMAIN stored', NEW j \in DOMAIN stored', i < j,
                        txns[stored'[i]].doc = txns[stored'[j]].doc
                 PROVE  stored'[i] < stored'[j]
      BY DEF WritesInOrder
    <3>2. CASE j \in 1 .. Len(stored)
      BY <3>1, <3>2 DEF WritesInOrder, LockInv
    <3>3. CASE j = Len(stored) + 1
      BY <3>1, <3>3 DEF WriterIsNewest, LockInv
    <3> QED  BY <3>1, <3>2, <3>3
  <2> QED  BY <2>1, <2>2
<1>5. CASE waitingForUnlock[d] = << >>
  <2>1. /\ writeLocks' = writeLocks \ {d} /\ writing' = writing \ {v}
        /\ waitingForUnlock' = waitingForUnlock
    BY <1>5 DEF LockingDone
  <2>2. Shape'
    BY <1>2, <1>3, <2>1 DEF Shape
  <2>3. WaitingInOrder'
    BY <2>1 DEF WaitingInOrder, LockInv
  <2>4. OneWriter'
    <3>1. \A w \in writing' : w \in writing /\ txns[w].doc # d
      BY <2>1 DEF OneWriter, LockInv
    <3>2. \A e \in Docs : e \in writeLocks' <=> \E w \in writing' : txns[w].doc = e
      BY <2>1, <3>1 DEF OneWriter, LockInv
    <3>3. \A e \in Docs : waitingForUnlock'[e] # << >> => e \in writeLocks'
      BY <1>5, <2>1 DEF OneWriter, LockInv
    <3> QED  BY <3>1, <3>2, <3>3 DEF OneWriter, LockInv
  <2>5. WriterIsNewest'
    <3>1. \A w \in writing' : w \in writing /\ txns[w].doc # d
      BY <2>1 DEF OneWriter, LockInv
    <3> QED  BY <1>2, <3>1 DEF WriterIsNewest, LockInv
  <2> QED  BY <1>4, <2>2, <2>3, <2>4, <2>5 DEF LockInv
<1>6. CASE waitingForUnlock[d] # << >>
  <2> DEFINE q == waitingForUnlock[d]
             h == Head(q)
  <2>1. /\ writing' = (writing \ {v}) \cup {h}
        /\ waitingForUnlock' = [waitingForUnlock EXCEPT ![d] = Tail(@)]
        /\ writeLocks' = writeLocks
    BY <1>6 DEF LockingDone
  <2>2. /\ q \in Seq(Nat) /\ Len(q) \in Nat /\ Len(q) > 0 /\ h = q[1]
        /\ DOMAIN q = 1 .. Len(q) /\ 1 \in DOMAIN q
    <3>1. q \in Seq(Nat)  BY <1>1 DEF Shape
    <3>2. Len(q) \in Nat /\ Len(q) # 0  BY <1>6, <3>1, EmptySeq
    <3> QED  BY <3>1, <3>2
  <2>3. /\ Tail(q) \in Seq(Nat) /\ DOMAIN Tail(q) = 1 .. (Len(q) - 1)
        /\ \A i \in DOMAIN Tail(q) : Tail(q)[i] = q[i + 1] /\ i + 1 \in DOMAIN q
    BY <2>2, <1>6, HeadTailProperties
  <2>4. /\ waitingForUnlock'[d] = Tail(q)
        /\ \A e \in Docs : e # d => waitingForUnlock'[e] = waitingForUnlock[e]
        /\ waitingForUnlock' \in [Docs -> Seq(Nat)]
    BY <1>1, <2>1, <2>3 DEF Shape
  <2>5. /\ h \in 1 .. Len(txns) /\ txns[h].doc = d /\ v < h
        /\ \A j \in DOMAIN q : 1 < j => h < q[j]
    BY <1>1, <2>2 DEF WaitingInOrder, LockInv
  <2>6. \A w \in writing' : w = h \/ (w \in writing /\ txns[w].doc # d)
    BY <2>1 DEF OneWriter, LockInv
  <2>7. Shape'
    BY <1>2, <1>3, <2>1, <2>4, <2>5 DEF Shape
  <2>8. WaitingInOrder'
    <3> SUFFICES ASSUME NEW e \in Docs, NEW i \in DOMAIN waitingForUnlock'[e]
                 PROVE  LET u == waitingForUnlock'[e][i] IN
                        /\ u \in 1 .. Len(txns) /\ txns[u].doc = e
                        /\ \A j \in DOMAIN waitingForUnlock'[e] :
                              i < j => u < waitingForUnlock'[e][j]
                        /\ \A w \in writing' : txns[w].doc = e => w < u
      BY DEF WaitingInOrder
    <3>1. CASE e # d
      <4>1. \A w \in writing' : txns[w].doc = e => w \in writing
        BY <2>5, <2>6, <3>1
      <4> QED  BY <2>4, <3>1, <4>1 DEF WaitingInOrder, LockInv
    <3>2. CASE e = d
      <4>1. waitingForUnlock'[e][i] = q[i + 1] /\ i + 1 \in DOMAIN q /\ i \in 1 .. (Len(q) - 1)
        BY <2>3, <2>4, <3>2
      <4>2. q[i + 1] \in 1 .. Len(txns) /\ txns[q[i + 1]].doc = d
        BY <1>1, <4>1 DEF WaitingInOrder, LockInv
      <4>3. \A j \in DOMAIN waitingForUnlock'[e] : i < j => q[i + 1] < waitingForUnlock'[e][j]
        <5> SUFFICES ASSUME NEW j \in DOMAIN waitingForUnlock'[e], i < j
                     PROVE  q[i + 1] < waitingForUnlock'[e][j]
          OBVIOUS
        <5>1. waitingForUnlock'[e][j] = q[j + 1] /\ j + 1 \in DOMAIN q /\ j \in 1 .. (Len(q) - 1)
          BY <2>3, <2>4, <3>2
        <5>2. i + 1 < j + 1  BY <2>2, <4>1, <5>1
        <5> QED  BY <1>1, <4>1, <5>1, <5>2 DEF WaitingInOrder, LockInv
      <4>4. \A w \in writing' : txns[w].doc = e => w < q[i + 1]
        <5>1. 1 < i + 1  BY <2>2, <4>1
        <5>2. h < q[i + 1]  BY <2>5, <4>1, <5>1
        <5> QED  BY <2>6, <3>2, <5>2
      <4> QED  BY <3>2, <4>1, <4>2, <4>3, <4>4
    <3> QED  BY <3>1, <3>2
  <2>9. OneWriter'
    <3>1. \A w, x \in writing' : txns[w].doc = txns[x].doc => w = x
      BY <2>5, <2>6 DEF OneWriter, LockInv
    <3>2. \A e \in Docs : e \in writeLocks' <=> \E w \in writing' : txns[w].doc = e
      <4>1. d \in writeLocks' /\ h \in writing'
        BY <1>1, <2>1 DEF OneWriter, LockInv
      <4>2. ASSUME NEW e \in Docs, e # d
            PROVE  (\E w \in writing : txns[w].doc = e) <=> \E w \in writing' : txns[w].doc = e
        BY <2>1, <2>5, <2>6, <4>2
      <4> QED  BY <2>1, <2>5, <4>1, <4>2 DEF OneWriter, LockInv
    <3>3. \A e \in Docs : waitingForUnlock'[e] # << >> => e \in writeLocks'
      BY <1>1, <2>1, <2>4 DEF OneWriter, LockInv
    <3> QED  BY <3>1, <3>2, <3>3 DEF OneWriter
  <2>10. WriterIsNewest'
    <3> SUFFICES ASSUME NEW w \in writing', NEW i \in DOMAIN stored',
                        txns[stored'[i]].doc = txns[w].doc
                 PROVE  stored'[i] < w
      BY DEF WriterIsNewest
    <3>1. CASE stored'[i] = v
      BY <2>5, <2>6, <3>1
    <3>2. CASE i \in DOMAIN stored /\ stored'[i] = stored[i] /\ w \in writing
      BY <3>2 DEF WriterIsNewest, LockInv
    <3>3. CASE i \in DOMAIN stored /\ stored'[i] = stored[i] /\ w = h
      <4>1. stored[i] < v  BY <2>5, <3>3 DEF WriterIsNewest, LockInv
      <4>2. stored[i] \in Nat  BY <3>3 DEF Shape
      <4> QED  BY <1>1, <2>5, <3>3, <4>1, <4>2
    <3> QED  BY <1>2, <2>6, <3>1, <3>2, <3>3
  <2> QED  BY <1>4, <2>7, <2>8, <2>9, <2>10 DEF LockInv
<1> QED  BY <1>5, <1>6

\* What the database is working on is not stored yet.
LEMMA WriterNotStored ==
  ASSUME Shape, LockInv, NEW v \in writing
  PROVE  v \notin Stored /\ v \in 1 .. Len(txns) /\ Len(txns) \in Nat
<1>1. v \in 1 .. Len(txns) /\ Len(txns) \in Nat  BY DEF Shape
<1>2. \A i \in DOMAIN stored : stored[i] = v => stored[i] < v
  BY DEF WriterIsNewest, LockInv
<1> QED  BY <1>1, <1>2 DEF Stored

\* What is stored once the database wrote version v.
LEMMA StoredGrows ==
  ASSUME stored \in Seq(Nat), NEW v \in Nat, stored' = Append(stored, v)
  PROVE  \A w : w \in Stored' <=> (w \in Stored \/ w = v)
<1>1. /\ Len(stored) \in Nat /\ DOMAIN stored = 1 .. Len(stored)
      /\ DOMAIN stored' = 1 .. (Len(stored) + 1)
      /\ stored'[Len(stored) + 1] = v
      /\ \A i \in 1 .. Len(stored) : stored'[i] = stored[i]
  BY AppendProperties
<1>2. Len(stored) + 1 \in DOMAIN stored'  BY <1>1
<1>3. ASSUME NEW w, w \in Stored'  PROVE w \in Stored \/ w = v
  <2>1. PICK i \in DOMAIN stored' : stored'[i] = w  BY <1>3 DEF Stored
  <2> QED  BY <1>1, <2>1 DEF Stored
<1>4. ASSUME NEW w, w \in Stored  PROVE w \in Stored'
  <2>1. PICK i \in DOMAIN stored : stored[i] = w  BY <1>4 DEF Stored
  <2>2. i \in DOMAIN stored' /\ stored'[i] = w  BY <1>1, <2>1
  <2> QED  BY <2>2 DEF Stored
<1>5. v \in Stored'  BY <1>1, <1>2 DEF Stored
<1> QED  BY <1>3, <1>4, <1>5

\* What goes out when version v is at the head of the line and the k - 1
\* behind it are ready.
GoingOut(batch, k) ==
  [i \in 1 .. k |-> [ver |-> versToPublish[i],
                     to  |-> IF i = 1 THEN batch
                                      ELSE publishQueueByVer[versToPublish[i]].list]]

Flushed(v, batch, k) ==
  /\ v = Head(versToPublish) /\ FlushesUpTo(k)
  /\ emitted' = emitted \o GoingOut(batch, k)
  /\ versToPublish' = SubSeq(versToPublish, k + 1, Len(versToPublish))
  /\ publishQueueByVer' =
       [w \in DOMAIN publishQueueByVer \ {versToPublish[i] : i \in 1 .. k} |->
          publishQueueByVer[w]]

\* What goes out is put behind what went out before.
LEMMA FlushedEmits ==
  ASSUME IInv, NEW v \in writing, NEW batch, NEW k \in Nat, k \in DOMAIN versToPublish,
         Flushed(v, batch, k)
  PROVE  /\ emitted' = [i \in 1 .. (Gone + k) |-> emitted'[i]]
         /\ \A i \in 1 .. Gone : emitted'[i] = emitted[i]
         /\ \A i \in 1 .. k : emitted'[Gone + i] = GoingOut(batch, k)[i]
<1> DEFINE new == GoingOut(batch, k)
           X == {emitted[i] : i \in 1 .. Gone} \cup {new[i] : i \in 1 .. k}
<1>1. Gone \in Nat /\ emitted = [i \in 1 .. Gone |-> emitted[i]]  BY DEF QueueInOrder, IInv
<1>2. emitted \in Seq(X) /\ Len(emitted) = Gone
  <2>1. [i \in 1 .. Gone |-> emitted[i]] \in Seq(X)  BY <1>1
  <2>2. emitted \in Seq(X)  BY <1>1, <2>1
  <2>3. DOMAIN emitted = 1 .. Gone  BY <1>1
  <2> QED  BY <1>1, <2>2, <2>3, LenProperties
<1>3. new \in Seq(X) /\ Len(new) = k
  <2>1. DOMAIN new = 1 .. k /\ \A i \in 1 .. k : new[i] \in X  BY DEF GoingOut
  <2>2. new = [i \in 1 .. k |-> new[i]]  BY Zenon DEF GoingOut
  <2> HIDE DEF X, new
  <2>3. [i \in 1 .. k |-> new[i]] \in Seq(X)  BY <2>1
  <2>4. new \in Seq(X)  BY <2>2, <2>3
  <2> QED  BY <2>1, <2>4, LenProperties
<1>4. emitted' = emitted \o new  BY DEF Flushed
<1> HIDE DEF X, new
<1>5. /\ emitted' \in Seq(X) /\ Len(emitted') = Gone + k
      /\ \A i \in 1 .. (Gone + k) :
            emitted'[i] = IF i <= Gone THEN emitted[i] ELSE new[i - Gone]
  BY <1>2, <1>3, <1>4, ConcatProperties
<1>6. emitted' = [i \in 1 .. (Gone + k) |-> emitted'[i]]  BY <1>1, <1>5, LenProperties
<1>7. \A i \in 1 .. Gone : emitted'[i] = emitted[i]  BY <1>1, <1>5
<1>8. ASSUME NEW i \in 1 .. k  PROVE emitted'[Gone + i] = new[i]
  <2>1. Gone + i \in 1 .. (Gone + k) /\ ~(Gone + i <= Gone) /\ (Gone + i) - Gone = i
    BY <1>1
  <2> QED  BY <1>5, <2>1
<1> QED  BY <1>6, <1>7, <1>8 DEF new

\* Flushing keeps the line: the versions that go out are the next ones, all stored,
\* and the one behind them is not.
LEMMA FlushedQueue ==
  ASSUME IInv, NEW v \in writing, NEW batch, NEW k \in Nat, k \in DOMAIN versToPublish,
         txns' = txns, stored' = Append(stored, v), Flushed(v, batch, k)
  PROVE  QueueInOrder' /\ versToPublish' \in Seq(Nat)
<1> DEFINE L == Len(versToPublish)
           new == GoingOut(batch, k)
<1>1. /\ versToPublish \in Seq(Nat) /\ L \in Nat /\ k \in 1 .. L
      /\ DOMAIN versToPublish = 1 .. L
      /\ Gone \in Nat /\ Len(txns) \in Nat /\ Gone + L = Len(txns)
  <2>1. versToPublish \in Seq(Nat) /\ Gone \in Nat /\ Len(txns) \in Nat
    BY DEF IInv, Shape, QueueInOrder
  <2>2. L \in Nat /\ DOMAIN versToPublish = 1 .. L  BY <2>1
  <2> QED  BY <2>1, <2>2 DEF Gone
<1>2. \A i \in 1 .. L : versToPublish[i] = Gone + i
  BY <1>1 DEF QueueInOrder, IInv
<1>3. v = Gone + 1 /\ v \in Nat
  <2>1. v = versToPublish[1]  BY <1>1 DEF Flushed
  <2> QED  BY <1>1, <1>2, <2>1
<1>4. \A w : w \in Stored' <=> (w \in Stored \/ w = v)
  BY <1>3, StoredGrows DEF IInv, Shape
<1>5. /\ versToPublish' \in Seq(Nat) /\ Len(versToPublish') = L - k
      /\ DOMAIN versToPublish' = 1 .. (L - k)
      /\ \A i \in 1 .. (L - k) : versToPublish'[i] = versToPublish[k + i]
  <2>1. k + 1 \in Int /\ L \in Int /\ \A i \in (k + 1) .. L : versToPublish[i] \in Nat
    BY <1>1
  <2>2. versToPublish' = SubSeq(versToPublish, k + 1, L)
    BY DEF Flushed
  <2> HIDE DEF L
  <2>3. /\ versToPublish' \in Seq(Nat)
        /\ Len(versToPublish') = IF k + 1 <= L THEN L - (k + 1) + 1 ELSE 0
        /\ \A i \in 1 .. (L - (k + 1) + 1) : versToPublish'[i] = versToPublish[(k + 1) + i - 1]
    BY <2>1, <2>2, SubSeqProperties
  <2>4. Len(versToPublish') = L - k
    BY <1>1, <2>3
  <2>5. DOMAIN versToPublish' = 1 .. (L - k)
    BY <2>3, <2>4, LenProperties
  <2>6. ASSUME NEW i \in 1 .. (L - k)  PROVE versToPublish'[i] = versToPublish[k + i]
    <3>1. i \in 1 .. (L - (k + 1) + 1) /\ (k + 1) + i - 1 = k + i  BY <1>1
    <3> QED  BY <2>3, <3>1
  <2> QED  BY <2>3, <2>4, <2>5, <2>6
<1>6. Gone' = Gone + k /\ Gone' \in Nat
  BY <1>1, <1>5 DEF Gone
<1>7. \A i \in DOMAIN versToPublish' : versToPublish'[i] = Gone' + i
  <2> SUFFICES ASSUME NEW i \in 1 .. (L - k)
               PROVE  versToPublish'[i] = Gone' + i
    BY <1>5
  <2> HIDE DEF L
  <2>1. k + i \in 1 .. L /\ Gone + (k + i) = (Gone + k) + i  BY <1>1
  <2>2. versToPublish[k + i] = Gone + (k + i)  BY <1>2, <2>1
  <2> QED  BY <1>5, <1>6, <2>1, <2>2
<1>8. DOMAIN publishQueueByVer' = (Gone' + 1) .. Len(txns')
  <2>1. {versToPublish[i] : i \in 1 .. k} = (Gone + 1) .. (Gone + k)
    <3>1. \A i \in 1 .. k : versToPublish[i] = Gone + i  BY <1>1, <1>2
    <3>2. ASSUME NEW w \in (Gone + 1) .. (Gone + k)
          PROVE  w \in {versToPublish[i] : i \in 1 .. k}
      <4>1. w - Gone \in 1 .. k /\ Gone + (w - Gone) = w  BY <1>1
      <4>2. versToPublish[w - Gone] = w  BY <3>1, <4>1
      <4> QED  BY <4>1, <4>2
    <3>3. ASSUME NEW i \in 1 .. k  PROVE versToPublish[i] \in (Gone + 1) .. (Gone + k)
      BY <1>1, <3>1
    <3> QED  BY <3>2, <3>3
  <2>2. DOMAIN publishQueueByVer = (Gone + 1) .. Len(txns)
    BY DEF QueueInOrder, IInv
  <2>3. DOMAIN publishQueueByVer' = ((Gone + 1) .. Len(txns)) \ ((Gone + 1) .. (Gone + k))
    BY <2>1, <2>2 DEF Flushed
  <2> QED  BY <1>1, <1>6, <2>3
<1>9. \A w \in DOMAIN publishQueueByVer' : publishQueueByVer'[w].okToClear <=> w \in Stored'
  <2>1. \A w \in DOMAIN publishQueueByVer' :
           /\ publishQueueByVer'[w] = publishQueueByVer[w] /\ w \in DOMAIN publishQueueByVer
    BY DEF Flushed
  <2>2. \A w \in DOMAIN publishQueueByVer' : w # v
    BY <1>1, <1>3, <1>6, <1>8
  <2> QED  BY <1>4, <2>1, <2>2 DEF QueueInOrder, IInv
<1>10. versToPublish' # << >> => Gone' + 1 \notin Stored'
  <2> SUFFICES ASSUME versToPublish' # << >> PROVE Gone' + 1 \notin Stored'
    OBVIOUS
  <2>1. k < L
    <3>1. Len(versToPublish') # 0  BY <1>5, EmptySeq
    <3>2. L - k # 0  BY <1>5, <3>1
    <3> HIDE DEF L
    <3> QED  BY <1>1, <3>2
  <2>2. versToPublish[k + 1] = Gone + (k + 1) /\ Gone + (k + 1) = Gone' + 1
    BY <1>1, <1>2, <1>6, <2>1
  <2>3. ~publishQueueByVer[versToPublish[k + 1]].okToClear  BY <1>1, <2>1 DEF FlushesUpTo, Flushed
  <2>4. Gone' + 1 \in DOMAIN publishQueueByVer
    <3>1. Gone' + 1 \in (Gone + 1) .. Len(txns)  BY <1>1, <1>6, <2>1
    <3> QED  BY <3>1 DEF QueueInOrder, IInv
  <2>5. Gone' + 1 \notin Stored
    BY <2>2, <2>3, <2>4 DEF QueueInOrder, IInv
  <2>6. Gone' + 1 # v  BY <1>1, <1>3, <1>6
  <2> QED  BY <1>4, <2>5, <2>6
<1>11. \A i \in 1 .. k : Gone + i \in Stored'
  <2> TAKE i \in 1 .. k
  <2>1. CASE i = 1
    <3>1. Gone + i = v  BY <1>3, <2>1
    <3>2. Gone + i \in Stored \/ Gone + i = v  BY <3>1
    <3> QED  BY <1>4, <3>2
  <2>2. CASE i \in 2 .. k
    <3>1. publishQueueByVer[versToPublish[i]].okToClear /\ versToPublish[i] = Gone + i
      BY <1>1, <1>2, <2>2 DEF FlushesUpTo, Flushed
    <3>2. Gone + i \in (Gone + 1) .. Len(txns)  BY <1>1
    <3>3. Gone + i \in Stored  BY <3>1, <3>2 DEF QueueInOrder, IInv
    <3> QED  BY <1>4, <3>3
  <2>3. i = 1 \/ i \in 2 .. k  BY <1>1
  <2> QED  BY <2>1, <2>2, <2>3
<1>12. /\ emitted' = [i \in 1 .. (Gone + k) |-> emitted'[i]]
       /\ \A i \in 1 .. Gone : emitted'[i] = emitted[i]
       /\ \A i \in 1 .. k : emitted'[Gone + i] = new[i]
  BY FlushedEmits
<1>13. \A i \in 1 .. Gone' : emitted'[i].ver = i /\ i \in Stored'
  <2>1. ASSUME NEW i \in 1 .. Gone  PROVE emitted'[i].ver = i /\ i \in Stored'
    BY <1>4, <1>12 DEF QueueInOrder, IInv
  <2>2. ASSUME NEW i \in 1 .. k  PROVE emitted'[Gone + i].ver = Gone + i /\ Gone + i \in Stored'
    <3>1. new[i].ver = versToPublish[i]  BY DEF GoingOut
    <3>2. versToPublish[i] = Gone + i  BY <1>1, <1>2
    <3> QED  BY <1>11, <1>12, <3>1, <3>2
  <2>3. ASSUME NEW i \in 1 .. Gone', i \notin 1 .. Gone
        PROVE  i - Gone \in 1 .. k /\ Gone + (i - Gone) = i
    BY <1>1, <1>6, <2>3
  <2> SUFFICES ASSUME NEW i \in 1 .. Gone'
               PROVE  emitted'[i].ver = i /\ i \in Stored'
    OBVIOUS
  <2>4. CASE i \in 1 .. Gone  BY <2>1, <2>4
  <2>5. CASE i \notin 1 .. Gone
    <3> DEFINE j == i - Gone
    <3>1. j \in 1 .. k /\ Gone + j = i  BY <2>3, <2>5
    <3> HIDE DEF j
    <3>2. emitted'[Gone + j].ver = Gone + j /\ Gone + j \in Stored'  BY <2>2, <3>1
    <3> QED  BY <3>1, <3>2
  <2> QED  BY <2>4, <2>5
<1>14. emitted' = [i \in 1 .. Gone' |-> emitted'[i]]  BY <1>6, <1>12
<1> HIDE DEF new, L
<1>15. QueueInOrder'
  BY <1>6, <1>7, <1>8, <1>9, <1>10, <1>13, <1>14 DEF QueueInOrder
<1> QED  BY <1>5, <1>15

\* A version that is not the next to go out, for which tmp keeps the messages.
LEMMA HeldQueue ==
  ASSUME IInv, NEW v \in writing, NEW held, txns' = txns, stored' = Append(stored, v),
         v # Head(versToPublish),
         publishQueueByVer' =
           [publishQueueByVer EXCEPT ![v] = [okToClear |-> TRUE, list |-> held]],
         UNCHANGED <<versToPublish, emitted>>
  PROVE  QueueInOrder' /\ versToPublish' \in Seq(Nat)
<1>1. /\ Gone \in Nat /\ Gone' = Gone /\ versToPublish \in Seq(Nat)
      /\ versToPublish' = versToPublish /\ emitted' = emitted
  BY DEF IInv, Shape, QueueInOrder, Gone
<1>2. /\ v \in 1 .. Len(txns) /\ v \notin Stored /\ Len(txns) \in Nat
      /\ v \in Nat
  BY WriterNotStored DEF IInv
<1>3. \A w : w \in Stored' <=> (w \in Stored \/ w = v)
  <2>1. stored \in Seq(Nat)  BY DEF IInv, Shape
  <2> QED  BY <1>2, <2>1, StoredGrows
<1>4. v \in DOMAIN publishQueueByVer
  <2>1. v \notin 1 .. Gone  BY <1>2 DEF IInv, QueueInOrder
  <2>2. v \in (Gone + 1) .. Len(txns)  BY <1>1, <1>2, <2>1
  <2> QED  BY <2>2 DEF IInv, QueueInOrder
<1>5. versToPublish # << >> => Gone + 1 \notin Stored'
  <2> SUFFICES ASSUME versToPublish # << >>  PROVE Gone + 1 \notin Stored'
    OBVIOUS
  <2>1. 1 \in DOMAIN versToPublish /\ Head(versToPublish) = versToPublish[1]
    BY <1>1
  <2>2. Head(versToPublish) = Gone + 1  BY <2>1 DEF IInv, QueueInOrder
  <2>3. Gone + 1 \notin Stored  BY DEF IInv, QueueInOrder
  <2> QED  BY <1>3, <2>2, <2>3
<1>6. \A w \in DOMAIN publishQueueByVer' : publishQueueByVer'[w].okToClear <=> w \in Stored'
  BY <1>3, <1>4 DEF IInv, QueueInOrder
<1>7. \A i \in 1 .. Gone : emitted[i].ver = i /\ i \in Stored'
  BY <1>3 DEF IInv, QueueInOrder
<1>8. DOMAIN publishQueueByVer' = (Gone + 1) .. Len(txns')
  BY DEF IInv, QueueInOrder
<1>9. QueueInOrder'
  BY <1>1, <1>5, <1>6, <1>7, <1>8 DEF IInv, QueueInOrder
<1> QED  BY <1>1, <1>9

\* A write that succeeds keeps the invariant, held back or sent.
LEMMA WriteDoneIInv ==
  ASSUME IInv, NEW v \in writing, WriteDone(v)
  PROVE  IInv'
<1>1. /\ LockingDone(v, txns[v].doc) /\ txns' = txns /\ stored' = Append(stored, v)
  BY DEF WriteDone
<1>2. PICK eff \in Effects : EmitOrHold(v, Batch(v, eff))
  BY DEF WriteDone, Publish
<1>3. QueueInOrder' /\ versToPublish' \in Seq(Nat)
  <2> DEFINE batch == Batch(v, eff)
  <2>1. CASE v = Head(versToPublish) /\ \E k \in DOMAIN versToPublish : Flushed(v, batch, k)
    <3>1. PICK k \in DOMAIN versToPublish : Flushed(v, batch, k)  BY <2>1
    <3>2. k \in Nat  BY DEF IInv, Shape
    <3> HIDE DEF batch
    <3> QED  BY <1>1, <3>1, <3>2, FlushedQueue
  <2>2. CASE /\ v # Head(versToPublish)
             /\ publishQueueByVer' =
                  [publishQueueByVer EXCEPT
                     ![v] = [okToClear |-> TRUE,
                             list |-> [c \in Clients |-> Reverse(batch[c])]]]
             /\ UNCHANGED <<versToPublish, emitted>>
    BY <1>1, <2>2, HeldQueue
  <2>3. \/ v = Head(versToPublish) /\ \E k \in DOMAIN versToPublish : Flushed(v, batch, k)
        \/ /\ v # Head(versToPublish)
           /\ publishQueueByVer' =
                  [publishQueueByVer EXCEPT
                     ![v] = [okToClear |-> TRUE,
                             list |-> [c \in Clients |-> Reverse(batch[c])]]]
           /\ UNCHANGED <<versToPublish, emitted>>
    <3> HIDE DEF batch
    <3>1. EmitOrHold(v, batch)  BY <1>2 DEF batch
    <3> QED  BY <3>1, Zenon DEF EmitOrHold, Flushed, GoingOut
  <2> QED  BY <2>1, <2>2, <2>3
<1>4. Shape' /\ LockInv'
  BY <1>1, <1>3, AnswerLocks DEF IInv
<1> QED  BY <1>3, <1>4 DEF IInv

\* A write that fails keeps the invariant: only the lock changes hands.
LEMMA WriteFailIInv ==
  ASSUME IInv, NEW v \in writing, WriteFail(v)
  PROVE  IInv'
<1>1. /\ LockingDone(v, txns[v].doc) /\ txns' = txns /\ stored' = stored
      /\ versToPublish' = versToPublish /\ emitted' = emitted
      /\ publishQueueByVer' = publishQueueByVer
  BY DEF WriteFail, pubVars
<1>2. versToPublish' \in Seq(Nat)  BY <1>1 DEF IInv, Shape
<1>3. Shape' /\ LockInv'
  BY <1>1, <1>2, AnswerLocks DEF IInv
<1>4. Gone' = Gone /\ Stored' = Stored  BY <1>1 DEF Gone, Stored
<1>5. QueueInOrder'  BY <1>1, <1>4 DEF IInv, QueueInOrder
<1> QED  BY <1>3, <1>5 DEF IInv

\* The invariant is inductive.
LEMMA NextIInv == IInv /\ [Next]_vars => IInv'
<1> SUFFICES ASSUME IInv, [Next]_vars PROVE IInv'  OBVIOUS
<1>1. ASSUME NEW a \in Authors, NEW d \in Docs, Submit(a, d)  PROVE IInv'
  BY <1>1, SubmitShape, SubmitLocks, SubmitQueue DEF IInv
<1>2. ASSUME NEW v \in writing, WriteDone(v)  PROVE IInv'
  BY <1>2, WriteDoneIInv
<1>3. ASSUME NEW v \in writing, WriteFail(v)  PROVE IInv'
  BY <1>3, WriteFailIInv
<1>4. CASE UNCHANGED vars
  <2>1. UNCHANGED <<txns, writing, writeLocks, waitingForUnlock, stored, versToPublish,
                    publishQueueByVer, emitted>>
    BY <1>4 DEF vars, dbVars, pubVars
  <2>2. Shape'  BY <2>1 DEF IInv, Shape
  <2>3. LockInv'
    BY <2>1 DEF IInv, LockInv, WaitingInOrder, OneWriter, WriterIsNewest, WritesInOrder
  <2>4. Gone' = Gone /\ Stored' = Stored  BY <2>1 DEF Gone, Stored
  <2>5. QueueInOrder'  BY <2>1, <2>4 DEF IInv, QueueInOrder
  <2> QED  BY <2>2, <2>3, <2>5 DEF IInv
<1> QED  BY <1>1, <1>2, <1>3, <1>4 DEF Next

-----------------------------------------------------------------------------
\* It holds in every state the store can reach.
LEMMA SpecIInv == Spec => []IInv
  BY InitIInv, NextIInv, PTL DEF Spec

\* Two transactions on one document are written in the order of their versions,
\* whichever of them had to wait for the lock (Store.js:265-323).
THEOREM PipelineWritesInOrder == Spec => []WritesInOrder
<1>1. IInv => WritesInOrder  BY DEF IInv, LockInv
<1> QED  BY <1>1, SpecIInv, PTL

\* A document is locked exactly while one write on it is with the database, and
\* who waits for it waits for a lock that will be released (Store.js:265-323).
THEOREM PipelineLocksHeld == Spec => []LocksHeld
<1>1. IInv => LocksHeld
  <2> SUFFICES ASSUME IInv, NEW d \in Docs
               PROVE  LET writers == {v \in writing : txns[v].doc = d} IN
                      /\ d \in writeLocks => \E v \in writing : writers = {v}
                      /\ d \notin writeLocks => writers = {} /\ waitingForUnlock[d] = << >>
    BY DEF LocksHeld
  <2> DEFINE writers == {v \in writing : txns[v].doc = d}
  <2>1. ASSUME d \in writeLocks  PROVE \E v \in writing : writers = {v}
    <3>1. PICK v \in writing : txns[v].doc = d
      BY <2>1 DEF IInv, LockInv, OneWriter
    <3>2. \A w \in writers : w = v  BY <3>1 DEF IInv, LockInv, OneWriter
    <3> QED  BY <3>1, <3>2
  <2>2. ASSUME d \notin writeLocks  PROVE writers = {} /\ waitingForUnlock[d] = << >>
    BY <2>2 DEF IInv, LockInv, OneWriter
  <2> QED  BY <2>1, <2>2
<1> QED  BY <1>1, SpecIInv, PTL

\* Whatever order the database answers in, the versions go out one after the
\* other and none is skipped (txns.Store.js:107-208).
THEOREM PipelineEmittedInOrder == Spec => []EmittedInOrder
<1>1. IInv => EmittedInOrder
  <2> SUFFICES ASSUME IInv  PROVE EmittedInOrder  OBVIOUS
  <2>1. DOMAIN emitted = 1 .. Gone  BY DEF IInv, QueueInOrder
  <2> QED  BY <2>1 DEF IInv, QueueInOrder, EmittedInOrder
<1> QED  BY <1>1, SpecIInv, PTL

\* Nothing reaches a client before the database has written it, be it sent at
\* once or flushed later (txns.Store.js:125-208).
THEOREM PipelineEmittedWereStored == Spec => []EmittedWereStored
<1>1. IInv => EmittedWereStored
  <2> SUFFICES ASSUME IInv  PROVE EmittedWereStored  OBVIOUS
  <2>1. DOMAIN emitted = 1 .. Gone  BY DEF IInv, QueueInOrder
  <2>2. Stored = Range(stored)  BY DEF Stored, Range
  <2> QED  BY <2>1, <2>2 DEF IInv, QueueInOrder, EmittedWereStored
<1> QED  BY <1>1, SpecIInv, PTL

\* Nothing that is ready stays behind: the version next in line is not stored
\* yet, or its write failed (txns.Store.js:198-223).
THEOREM PipelineHeadUnfinished == Spec => []HeadUnfinished
<1>1. IInv => HeadUnfinished
  <2> SUFFICES ASSUME IInv, versToPublish # << >>
               PROVE  Head(versToPublish) \notin Range(stored)
    BY DEF HeadUnfinished
  <2>1. versToPublish \in Seq(Nat)  BY DEF IInv, Shape
  <2>2. 1 \in DOMAIN versToPublish /\ Head(versToPublish) = versToPublish[1]  BY <2>1
  <2>3. Head(versToPublish) = Gone + 1  BY <2>2 DEF IInv, QueueInOrder
  <2>4. Gone + 1 \notin Stored  BY DEF IInv, QueueInOrder
  <2>5. Stored = Range(stored)  BY DEF Stored, Range
  <2> QED  BY <2>3, <2>4, <2>5
<1> QED  BY <1>1, SpecIInv, PTL

-----------------------------------------------------------------------------
(***************************************************************************)
(* Broadcasting.  A version is dropped by socket.__ver if a later one was  *)
(* published before it.  That cannot be where the writes come back in the  *)
(* order of the versions: with one document, or with a database adapter    *)
(* that answers before it is given the next write.                         *)
(***************************************************************************)
WritesComeInOrder == (\A d, e \in Docs : d = e) \/ MaxInFlight <= 1

\* With one write at a time, what is written is the newest.
OneAtATime == MaxInFlight <= 1 => \A v \in writing : v = Len(txns)

\* msgs tells c of the transaction, if c is to be told by path.
Tells(txn, c, msgs) ==
  <<c, txn.doc>> \in PathSubs /\ txn.author # c => "txn" \in Range(TypesOf(msgs))

\* A socket has been sent nothing that is not stored, and what went out or is ready
\* to go out tells everyone.
EveryoneTold ==
  /\ \A c \in Clients : sockVer[c] = 0 \/ sockVer[c] \in Stored
  /\ \A v \in DOMAIN publishQueueByVer : publishQueueByVer[v].okToClear =>
       \A c \in Clients : Tells(txns[v], c, publishQueueByVer[v].list[c])
  /\ \A i \in 1 .. Gone : \A c \in Clients : Tells(txns[i], c, emitted[i].to[c])

BInv == IInv /\ OneAtATime /\ (WritesComeInOrder => EveryoneTold)

-----------------------------------------------------------------------------
(* Folds: the messages about a version are made by a fold over its queries *)

LastOf(s) == CHOOSE x \in s : \A y \in s : x >= y

\* The function from which FoldLeft takes its value, with Then for its operator.
Step(base, seq, f, s) == IF s = {} THEN base ELSE Then(f[s \ {LastOf(s)}], seq[LastOf(s)])
Folding(base, seq, D, f) == f = [s \in SUBSET D |-> Step(base, seq, f, s)]
Folded(base, seq) == (CHOOSE f : Folding(base, seq, DOMAIN seq, f))[DOMAIN seq]

\* A set of numbers has a least one.
LEMMA LeastOf ==
  ASSUME NEW T \in SUBSET Nat, T # {}
  PROVE  \E n \in T : \A m \in T : n <= m
<1> DEFINE R == {ss \in Nat \X Nat : ss[1] < ss[2]}
<1>1. IsWellFoundedOn(R, Nat)
  BY NatLessThanWellFounded DEF OpToRel
<1> HIDE DEF R
<1>2. PICK n \in T : \A m \in T : <<m, n>> \notin R
  BY <1>1, WFMin
<1>3. \A m \in T : ~(m < n)
  BY <1>2 DEF R
<1> QED  BY <1>3

\* The last place of a set with k in it, of the places up to k, is k.
LEMMA LastIs ==
  ASSUME NEW k \in Nat, NEW s \in SUBSET (1 .. k), k \in s
  PROVE  LastOf(s) = k
<1> DEFINE P(x) == x \in s /\ \A y \in s : x >= y
<1>1. P(k) /\ \A x : P(x) => x = k
  <2>1. \A y \in s : y \in Nat /\ k >= y  OBVIOUS
  <2>2. ASSUME NEW x, P(x) PROVE x = k
    <3>1. x \in Nat /\ k >= x /\ x >= k  BY <2>1, <2>2
    <3> QED  BY <3>1
  <2> QED  BY <2>1, <2>2
<1>2. LastOf(s) = CHOOSE x : P(x)  BY DEF LastOf
<1> HIDE DEF P
<1> QED  BY <1>1, <1>2

\* There is such a function on the sets of the first n places.
LEMMA FoldingExists ==
  ASSUME NEW base, NEW seq, NEW n \in Nat
  PROVE  \E f : Folding(base, seq, 1 .. n, f)
<1> DEFINE Bad == {k \in Nat : ~ \E f : Folding(base, seq, 1 .. k, f)}
<1>1. ASSUME Bad # {} PROVE FALSE
  <2>1. PICK k \in Bad : \A m \in Bad : k <= m
    <3>1. Bad \in SUBSET Nat  OBVIOUS
    <3> HIDE DEF Bad
    <3> QED  BY <1>1, <3>1, LeastOf
  <2>2. k \in Nat /\ ~ \E f : Folding(base, seq, 1 .. k, f)  BY <2>1
  <2>3. CASE k = 0
    <3> DEFINE f == [s \in SUBSET (1 .. 0) |-> base]
    <3>1. \A s \in SUBSET (1 .. 0) : Step(base, seq, f, s) = base  BY DEF Step
    <3>2. Folding(base, seq, 1 .. 0, f)
      <4>1. f = [s \in SUBSET (1 .. 0) |-> Step(base, seq, f, s)]  BY <3>1
      <4> QED  BY <4>1 DEF Folding
    <3> QED  BY <2>2, <2>3, <3>2
  <2>4. CASE k # 0
    <3>1. k - 1 \in Nat /\ ~ (k <= k - 1)  BY <2>2, <2>4
    <3>2. k - 1 \notin Bad
      <4> HIDE DEF Bad
      <4> QED  BY <2>1, <3>1
    <3>3. PICK f : Folding(base, seq, 1 .. k - 1, f)  BY <3>1, <3>2
    <3> DEFINE g == [s \in SUBSET (1 .. k) |->
                       IF k \in s THEN Step(base, seq, f, s) ELSE f[s]]
    <3>4. ASSUME NEW s \in SUBSET (1 .. k) PROVE g[s] = Step(base, seq, g, s)
      <4>1. CASE k \in s
        <5>1. s \ {k} \in SUBSET (1 .. k) /\ k \notin s \ {k} /\ s # {}  BY <4>1
        <5>2. LastOf(s) = k  BY <2>2, <4>1, LastIs
        <5>3. g[s \ {k}] = f[s \ {k}]  BY <5>1
        <5>4. g[s] = Step(base, seq, f, s)  BY <4>1
        <5> HIDE DEF g
        <5> QED  BY <5>1, <5>2, <5>3, <5>4 DEF Step
      <4>2. CASE k \notin s
        <5>1. s \in SUBSET (1 .. k - 1)  BY <2>2, <4>2
        <5>2. f[s] = Step(base, seq, f, s)
          <6>1. f = [x \in SUBSET (1 .. k - 1) |-> Step(base, seq, f, x)]
            BY <3>3 DEF Folding
          <6> QED  BY <5>1, <6>1
        <5>3. g[s] = f[s]  BY <4>2
        <5>4. g[s \ {LastOf(s)}] = f[s \ {LastOf(s)}]  BY <4>2
        <5> HIDE DEF g
        <5> QED  BY <5>2, <5>3, <5>4 DEF Step
      <4> QED  BY <4>1, <4>2
    <3>5. Folding(base, seq, 1 .. k, g)
      <4>1. g = [s \in SUBSET (1 .. k) |-> g[s]]  OBVIOUS
      <4>2. g = [s \in SUBSET (1 .. k) |-> Step(base, seq, g, s)]
        <5> HIDE DEF g
        <5> QED  BY <3>4, <4>1
      <4> HIDE DEF g
      <4> QED  BY <4>2 DEF Folding
    <3> QED  BY <2>2, <3>5
  <2> QED  BY <2>3, <2>4
<1> QED  BY <1>1

\* FoldLeft passes through a list of values, one for each member of the sequence:
\* each is Then of the one before it and the member.
LEMMA FoldLeftSteps ==
  ASSUME NEW base, NEW S, NEW seq \in Seq(S)
  PROVE  \E v : /\ v[0] = base
                /\ \A k \in 1 .. Len(seq) : v[k] = Then(v[k - 1], seq[k])
                /\ Folded(base, seq) = v[Len(seq)]
<1> DEFINE n == Len(seq)
<1>1. n \in Nat /\ DOMAIN seq = 1 .. n  OBVIOUS
<1>2. PICK f : f = CHOOSE g : Folding(base, seq, 1 .. n, g)  OBVIOUS
<1>3. Folding(base, seq, 1 .. n, f)  BY <1>1, <1>2, FoldingExists
<1>4. Folded(base, seq) = f[1 .. n]  BY <1>1, <1>2 DEF Folded
<1> HIDE DEF n
<1>5. \A s \in SUBSET (1 .. n) : f[s] = Step(base, seq, f, s)
  <2>1. f = [s \in SUBSET (1 .. n) |-> Step(base, seq, f, s)]  BY <1>3 DEF Folding
  <2> QED  BY <2>1
<1> DEFINE v == [k \in 0 .. n |-> f[1 .. k]]
<1>6. v[0] = base
  <2>1. (1 .. 0) \in SUBSET (1 .. n) /\ (1 .. 0) = {}  BY <1>1
  <2>2. f[1 .. 0] = base  BY <1>5, <2>1 DEF Step
  <2> QED  BY <1>1, <2>2
<1>7. ASSUME NEW k \in 1 .. n PROVE v[k] = Then(v[k - 1], seq[k])
  <2>1. k \in Nat /\ k \in 1 .. k /\ (1 .. k) \in SUBSET (1 .. n)  BY <1>1
  <2>2. LastOf(1 .. k) = k  BY <2>1, LastIs
  <2>3. (1 .. k) \ {k} = 1 .. k - 1 /\ 1 .. k # {}  BY <2>1
  <2>4. f[1 .. k] = Then(f[1 .. k - 1], seq[k])  BY <1>5, <2>1, <2>2, <2>3 DEF Step
  <2>5. v[k] = f[1 .. k] /\ v[k - 1] = f[1 .. k - 1]  BY <1>1
  <2> QED  BY <2>4, <2>5
<1>8. Folded(base, seq) = v[n]  BY <1>1, <1>4
<1> HIDE DEF v
<1>9. /\ v[0] = base
      /\ \A k \in 1 .. Len(seq) : v[k] = Then(v[k - 1], seq[k])
      /\ Folded(base, seq) = v[Len(seq)]
  BY <1>6, <1>7, <1>8 DEF n
<1> QED  BY <1>9

\* What holds of the base and is kept by Then holds of what is folded.
LEMMA FoldLeftStays ==
  ASSUME NEW T, NEW base \in T, NEW S, NEW seq \in Seq(S),
         \A x \in T, y \in S : Then(x, y) \in T
  PROVE  Folded(base, seq) \in T
<1>0. seq \in Seq(S)  OBVIOUS
<1>1. PICK v : /\ v[0] = base
               /\ \A k \in 1 .. Len(seq) : v[k] = Then(v[k - 1], seq[k])
               /\ Folded(base, seq) = v[Len(seq)]
  BY ONLY <1>0, FoldLeftSteps
<1>2. Len(seq) \in Nat /\ \A k \in 1 .. Len(seq) : seq[k] \in S  OBVIOUS
<1> DEFINE Bad == {k \in 0 .. Len(seq) : v[k] \notin T}
<1>3. ASSUME Bad # {} PROVE FALSE
  <2>1. PICK k \in Bad : \A m \in Bad : k <= m
    <3>1. Bad \in SUBSET Nat  BY <1>2
    <3> HIDE DEF Bad
    <3> QED  BY <1>3, <3>1, LeastOf
  <2>2. k \in 0 .. Len(seq) /\ v[k] \notin T  BY <2>1
  <2>3. k \in 1 .. Len(seq) /\ k - 1 \in 0 .. Len(seq) /\ ~ (k <= k - 1)  BY <1>1, <1>2, <2>2
  <2>4. k - 1 \notin Bad
    <3> HIDE DEF Bad
    <3> QED  BY <2>1, <2>3
  <2>5. v[k - 1] \in T  BY <2>3, <2>4
  <2>6. v[k] = Then(v[k - 1], seq[k])  BY <1>1, <2>3
  <2> QED  BY <1>2, <2>2, <2>3, <2>5, <2>6
<1>4. Len(seq) \in 0 .. Len(seq)  BY <1>2
<1> QED  BY <1>1, <1>3, <1>4

-----------------------------------------------------------------------------
(* What the messages tell *)

\* Messages are messages, one after the other.
LEMMA ThenKeeps ==
  ASSUME NEW x \in Seq(Messages0), NEW y \in Seq(Messages0), x # << >>
  PROVE  Then(x, y) \in Seq(Messages0) /\ Then(x, y) # << >> /\ Then(x, y)[1] = x[1]
<1>1. Len(x) \in Nat /\ Len(x) # 0 /\ Len(y) \in Nat  BY EmptySeq
<1>2. /\ x \o y \in Seq(Messages0) /\ Len(x \o y) = Len(x) + Len(y)
      /\ (x \o y)[1] = x[1]
  BY <1>1
<1> QED  BY <1>1, <1>2, EmptySeq DEF Then

\* A subscriber by path is told of the transaction first, whatever the queries make
\* of it.
LEMMA MessagesTell ==
  ASSUME NEW v, NEW s, NEW eff \in Effects, <<s, txns[v].doc>> \in PathSubs, txns[v].author # s
  PROVE  /\ Messages(v, s, eff, TRUE) \in Seq(Messages0)
         /\ Messages(v, s, eff, TRUE) # << >>
         /\ Messages(v, s, eff, TRUE)[1].type = "txn"
<1> DEFINE first == <<[type |-> "txn", rank |-> 0]>>
           T == {m \in Seq(Messages0) : m # << >> /\ m[1].type = "txn"}
<1>1. QueryOrder \in Seq(Queries) /\ Len(QueryOrder) \in Nat
      /\ DOMAIN QueryOrder = 1 .. Len(QueryOrder)
  BY SubsAssumption
<1>2. PICK byQuery : byQuery = [i \in DOMAIN QueryOrder |-> QueryMessages(i, s, eff, TRUE)]
  OBVIOUS
<1>3. byQuery \in Seq(Seq(Messages0))
  <2>1. ASSUME NEW i \in 1 .. Len(QueryOrder) PROVE byQuery[i] \in Seq(Messages0)
    <3>1. byQuery[i] = QueryMessages(i, s, eff, TRUE)  BY <1>1, <1>2
    <3>2. CASE byQuery[i] = << >>  BY <3>2
    <3>3. CASE byQuery[i] # << >>
      <4>1. /\ byQuery[i] = <<[type |-> eff[QueryOrder[i]], rank |-> i]>>
            /\ eff[QueryOrder[i]] # "none"
        BY <3>1, <3>3 DEF QueryMessages
      <4>2. eff[QueryOrder[i]] \in {"none", "txn", "addDoc", "rmDoc"}
        BY <1>1 DEF Effects
      <4>3. i \in 0 .. Len(QueryOrder)  BY <1>1
      <4>4. [type |-> eff[QueryOrder[i]], rank |-> i] \in Messages0
        BY <4>1, <4>2, <4>3 DEF Messages0
      <4> QED  BY <4>1, <4>4
    <3> QED  BY <3>2, <3>3
  <2>2. byQuery = [i \in 1 .. Len(QueryOrder) |-> byQuery[i]]  BY <1>1, <1>2
  <2> QED  BY <1>1, <2>1, <2>2
<1>4. Messages(v, s, eff, TRUE) = FoldLeft(Then, first, byQuery)
  BY <1>2 DEF Messages
<1>5. FoldLeft(Then, first, byQuery) = Folded(first, byQuery)
  BY DEF FoldLeft, MapThenFoldSet, Max, Folded, Folding, Step,
         LastOf
<1>6. first \in T
  <2>1. [type |-> "txn", rank |-> 0] \in Messages0  BY <1>1 DEF Messages0
  <2>2. first \in Seq(Messages0) /\ Len(first) = 1 /\ first[1] = [type |-> "txn", rank |-> 0]
    BY <2>1
  <2> QED  BY <2>2, EmptySeq
<1>7. \A x \in T, y \in Seq(Messages0) : Then(x, y) \in T  BY ThenKeeps
<1> HIDE DEF T, first
<1>8. Folded(first, byQuery) \in T  BY <1>3, <1>6, <1>7, FoldLeftStays
<1> QED  BY <1>4, <1>5, <1>8 DEF T

\* What a client is sent of version v, held back or not, tells it.
LEMMA BatchTells ==
  ASSUME NEW v, NEW eff \in Effects, NEW c \in Clients, v > sockVer[c]
  PROVE  /\ Tells(txns[v], c, Batch(v, eff)[c])
         /\ Tells(txns[v], c, [d \in Clients |-> Reverse(Batch(v, eff)[d])][c])
<1> SUFFICES ASSUME <<c, txns[v].doc>> \in PathSubs, txns[v].author # c
             PROVE  /\ "txn" \in Range(TypesOf(Batch(v, eff)[c]))
                    /\ "txn" \in Range(TypesOf(Reverse(Batch(v, eff)[c])))
  BY DEF Tells
<1>1. PICK m : m = Messages(v, c, eff, TRUE)  OBVIOUS
<1>2. m \in Seq(Messages0) /\ m # << >> /\ m[1].type = "txn"  BY <1>1, MessagesTell
<1>3. Len(m) \in Nat /\ Len(m) # 0 /\ DOMAIN m = 1 .. Len(m)  BY <1>2, EmptySeq
<1>4. Batch(v, eff)[c] = m
  <2>1. SocketMessages(v, c, eff) = m  BY <1>1 DEF SocketMessages
  <2>2. Ack(v, c) = << >>  BY DEF Ack
  <2>3. m \o << >> = m  BY <1>2
  <2> QED  BY <2>1, <2>2, <2>3 DEF Batch
<1>5. "txn" \in Range(TypesOf(m))
  <2>1. 1 \in DOMAIN m  BY <1>3
  <2> QED  BY <1>2, <2>1 DEF Range, TypesOf
<1>6. "txn" \in Range(TypesOf(Reverse(m)))
  <2>1. PICK r : r = Reverse(m)  OBVIOUS
  <2>2. Len(m) \in 1 .. Len(m) /\ (Len(m) - Len(m)) + 1 = 1  BY <1>3
  <2>3. DOMAIN r = 1 .. Len(m) /\ r[Len(m)] = m[1]  BY <2>1, <2>2 DEF Reverse
  <2>4. "txn" \in Range(TypesOf(r))  BY <1>2, <2>2, <2>3 DEF Range, TypesOf
  <2> QED  BY <2>1, <2>4
<1> QED  BY <1>4, <1>5, <1>6

\* What the database has been given is newer than all that it stored.
LEMMA WriterNewest ==
  ASSUME IInv, OneAtATime, WritesComeInOrder, NEW v \in writing
  PROVE  \A w \in Stored : w < v
<1>1. Shape /\ LockInv /\ v \in 1 .. Len(txns) /\ v \notin Stored /\ Len(txns) \in Nat
  BY WriterNotStored DEF IInv
<1>2. \A w \in Stored : w \in 1 .. Len(txns)  BY <1>1 DEF Shape, Stored
<1>3. CASE MaxInFlight <= 1
  <2>1. v = Len(txns)  BY <1>3 DEF OneAtATime
  <2> QED  BY <1>1, <1>2, <2>1
<1>4. CASE \A d, e \in Docs : d = e
  <2>1. \A u \in 1 .. Len(txns) : txns[u].doc \in Docs
    <3>1. txns \in Seq([author : Authors, doc : Docs])  BY <1>1 DEF Shape
    <3>2. \A u \in 1 .. Len(txns) : txns[u] \in [author : Authors, doc : Docs]
      BY <3>1, ElementOfSeq
    <3> QED  BY <3>2
  <2>2. ASSUME NEW w \in Stored PROVE w < v
    <3>1. PICK i \in DOMAIN stored : stored[i] = w  BY DEF Stored
    <3>2. txns[w].doc = txns[v].doc  BY <1>1, <1>2, <1>4, <2>1
    <3> QED  BY <1>1, <3>1, <3>2 DEF LockInv, WriterIsNewest
  <2> QED  BY <2>2
<1> QED  BY <1>3, <1>4 DEF WritesComeInOrder

\* The database is idle when it may be given a write and takes one at a time.
LEMMA IdleBefore ==
  ASSUME IInv, InFlight < MaxInFlight, MaxInFlight <= 1
  PROVE  writing = {}
<1>1. Shape /\ LockInv /\ Len(txns) \in Nat  BY DEF IInv, Shape
<1> DEFINE waiting == UNION {Range(waitingForUnlock[d]) : d \in Docs}
<1>2. waiting \subseteq 1 .. Len(txns)
  <2>1. \A d \in Docs : \A i \in DOMAIN waitingForUnlock[d] :
          waitingForUnlock[d][i] \in 1 .. Len(txns)
    BY <1>1 DEF LockInv, WaitingInOrder
  <2> QED  BY <2>1 DEF Range
<1>3. IsFiniteSet(1 .. Len(txns))  BY <1>1, FS_Interval
<1>4. IsFiniteSet(writing) /\ IsFiniteSet(waiting)
  <2> HIDE DEF waiting
  <2> QED  BY <1>1, <1>2, <1>3, FS_Subset DEF Shape
<1>5. InFlight = Cardinality(writing) + Cardinality(waiting)  BY DEF InFlight
<1> HIDE DEF waiting
<1>6. Cardinality(writing) \in Nat /\ Cardinality(waiting) \in Nat
  BY <1>4, FS_CardinalityType
<1>7. Cardinality(writing) = 0  BY <1>5, <1>6, BoundsAssumption
<1> QED  BY <1>4, <1>7, FS_EmptySet

\* One at a time, as long as each write waits for the answer to the one before it.
LEMMA OneAtATimeStep ==
  ASSUME IInv, OneAtATime, Next
  PROVE  OneAtATime'
<1> SUFFICES ASSUME MaxInFlight <= 1 PROVE \A v \in writing' : v = Len(txns')
  BY DEF OneAtATime
<1>1. \A v \in writing : v = Len(txns)  BY DEF OneAtATime
<1>2. ASSUME NEW a \in Authors, NEW d \in Docs, Submit(a, d)
      PROVE  \A v \in writing' : v = Len(txns')
  <2>1. /\ InFlight < MaxInFlight /\ SendToDb(Len(txns) + 1, d)
        /\ txns' = Append(txns, [author |-> a, doc |-> d])
    BY <1>2 DEF Submit
  <2>2. writing = {}  BY <2>1, IdleBefore
  <2>3. writing' \subseteq {Len(txns) + 1}  BY <2>1, <2>2 DEF SendToDb
  <2>4. Len(txns') = Len(txns) + 1  BY <2>1 DEF IInv, Shape
  <2> QED  BY <2>3, <2>4
<1>3. ASSUME NEW v \in writing, LockingDone(v, txns[v].doc), txns' = txns
      PROVE  \A w \in writing' : w = Len(txns')
  <2> DEFINE d == txns[v].doc
  <2>1. v = Len(txns) /\ Shape /\ LockInv /\ v \in 1 .. Len(txns) /\ Len(txns) \in Nat
    BY <1>1 DEF IInv, Shape
  <2>2. d \in Docs
    <3>1. txns \in Seq([author : Authors, doc : Docs])  BY <2>1 DEF Shape
    <3>2. txns[v] \in [author : Authors, doc : Docs]  BY <2>1, <3>1, ElementOfSeq
    <3> QED  BY <3>2
  <2>3. waitingForUnlock[d] = << >>
    <3>1. waitingForUnlock[d] \in Seq(Nat)  BY <2>1, <2>2 DEF Shape
    <3>2. ASSUME NEW i \in DOMAIN waitingForUnlock[d] PROVE FALSE
      <4>1. waitingForUnlock[d][i] \in 1 .. Len(txns) /\ v < waitingForUnlock[d][i]
        BY <2>1, <2>2 DEF LockInv, WaitingInOrder
      <4> QED  BY <2>1, <4>1
    <3>3. Len(waitingForUnlock[d]) \in Nat
          /\ DOMAIN waitingForUnlock[d] = 1 .. Len(waitingForUnlock[d])
      BY <3>1
    <3>4. Len(waitingForUnlock[d]) = 0
      <4>1. 1 \notin DOMAIN waitingForUnlock[d]  BY <3>2
      <4> QED  BY <3>3, <4>1
    <3> QED  BY <3>1, <3>4, EmptySeq
  <2>4. writing' = writing \ {v}  BY <1>3, <2>3 DEF LockingDone
  <2> QED  BY <1>1, <1>3, <2>4
<1> QED  BY <1>2, <1>3 DEF Next, WriteDone, WriteFail

\* A version keeps its transaction, and what is told of it.
LEMMA SubmitTold ==
  ASSUME IInv, EveryoneTold, NEW a \in Authors, NEW d \in Docs, Submit(a, d)
  PROVE  EveryoneTold'
<1>1. Shape /\ QueueInOrder /\ Len(txns) \in Nat /\ Len(versToPublish) \in Nat
  BY DEF IInv, Shape
<1>2. /\ txns' = Append(txns, [author |-> a, doc |-> d]) /\ stored' = stored
      /\ versToPublish' = Append(versToPublish, Len(txns) + 1)
      /\ emitted' = emitted /\ sockVer' = sockVer
      /\ publishQueueByVer' = [w \in DOMAIN publishQueueByVer \cup {Len(txns) + 1} |->
                             IF w = Len(txns) + 1 THEN [okToClear |-> FALSE, list |-> NoMessages]
                                      ELSE publishQueueByVer[w]]
  BY DEF Submit
<1>3. Len(txns') = Len(txns) + 1 /\ \A w \in 1 .. Len(txns) : txns'[w] = txns[w]
  BY <1>1, <1>2 DEF Shape
<1>4. Gone' = Gone /\ Gone \in Nat /\ Gone <= Len(txns)
  <2>1. Len(versToPublish') = Len(versToPublish) + 1  BY <1>1, <1>2 DEF Shape
  <2> QED  BY <1>1, <1>3, <2>1 DEF Gone, QueueInOrder
<1>5. Stored' = Stored  BY <1>2 DEF Stored
<1>6. ASSUME NEW w \in DOMAIN publishQueueByVer', publishQueueByVer'[w].okToClear
      PROVE  \A c \in Clients : Tells(txns'[w], c, publishQueueByVer'[w].list[c])
  <2>1. w # Len(txns) + 1  BY <1>2, <1>6
  <2>2. w \in DOMAIN publishQueueByVer /\ publishQueueByVer'[w] = publishQueueByVer[w]
    BY <1>2, <2>1
  <2>3. w \in 1 .. Len(txns)  BY <1>1, <1>4, <2>2 DEF QueueInOrder
  <2> QED  BY <1>3, <1>6, <2>2, <2>3 DEF EveryoneTold
<1>7. \A i \in 1 .. Gone : \A c \in Clients : Tells(txns'[i], c, emitted[i].to[c])
  <2>1. \A i \in 1 .. Gone : i \in 1 .. Len(txns)  BY <1>1, <1>4
  <2> QED  BY <1>3, <2>1 DEF EveryoneTold
<1> QED  BY <1>2, <1>4, <1>5, <1>6, <1>7 DEF EveryoneTold

\* What is published is newer than all that a socket was sent, so that everyone is
\* told of it, at once or from what is held back.
LEMMA WriteDoneTold ==
  ASSUME IInv, OneAtATime, WritesComeInOrder, EveryoneTold, NEW v \in writing, WriteDone(v)
  PROVE  EveryoneTold'
<1>1. Shape /\ LockInv /\ QueueInOrder /\ Len(txns) \in Nat /\ v \in 1 .. Len(txns)
  BY DEF IInv, Shape
<1>2. /\ txns' = txns /\ stored' = Append(stored, v)
      /\ \E eff \in Effects : Publish(v, eff)
  BY DEF WriteDone
<1>3. PICK eff \in Effects : Publish(v, eff)  BY <1>2
<1>4. /\ \A c \in Clients : sockVer'[c] \in {v, sockVer[c]}
      /\ EmitOrHold(v, Batch(v, eff))
  BY <1>3 DEF Publish
<1>5. \A w : w \in Stored' <=> w \in Stored \/ w = v
  <2>1. v \in Nat /\ stored \in Seq(Nat)  BY <1>1 DEF Shape
  <2> QED  BY <1>2, <2>1, StoredGrows
<1>6. \A c \in Clients : v > sockVer[c]
  <2>1. \A w \in Stored : w < v  BY WriterNewest
  <2> QED  BY <1>1, <2>1 DEF EveryoneTold
<1>7. \A c \in Clients : sockVer'[c] = 0 \/ sockVer'[c] \in Stored'
  BY <1>4, <1>5 DEF EveryoneTold
<1>8. PICK batch : batch = Batch(v, eff)  OBVIOUS
<1>9. PICK held : held = [d \in Clients |-> Reverse(batch[d])]  OBVIOUS
<1>10. \A c \in Clients : Tells(txns[v], c, batch[c]) /\ Tells(txns[v], c, held[c])
  BY <1>6, <1>8, <1>9, BatchTells
<1>11. CASE /\ v = Head(versToPublish)
            /\ \E k \in DOMAIN versToPublish : Flushed(v, batch, k)
  <2>1. PICK k \in DOMAIN versToPublish : Flushed(v, batch, k)  BY <1>11
  <2>2. k \in Nat /\ k \in 1 .. Len(versToPublish) /\ Len(versToPublish) \in Nat
        /\ DOMAIN versToPublish = 1 .. Len(versToPublish)
    BY <1>1 DEF Shape
  <2>3. /\ \A i \in 1 .. Gone : emitted'[i] = emitted[i]
        /\ \A i \in 1 .. k : emitted'[Gone + i] = GoingOut(batch, k)[i]
    BY <2>1, <2>2, FlushedEmits
  <2>4. QueueInOrder' /\ versToPublish' \in Seq(Nat)  BY <1>2, <2>1, <2>2, FlushedQueue
  <2>5. Gone \in Nat /\ Gone' = Gone + k
    <3>1. versToPublish' = SubSeq(versToPublish, k + 1, Len(versToPublish))
      BY <2>1 DEF Flushed
    <3>2. versToPublish \in Seq(Nat)  BY <1>1 DEF Shape
    <3>3. Len(versToPublish') = Len(versToPublish) - k
      <4>1. PICK L \in Nat : L = Len(versToPublish)  BY <2>2
      <4>2. \A i \in (k + 1) .. L : versToPublish[i] \in Nat  BY <2>2, <3>2, <4>1
      <4>3. Len(versToPublish') = IF k + 1 <= L THEN L - (k + 1) + 1 ELSE 0
        BY <2>2, <3>1, <4>1, <4>2, SubSeqProperties
      <4> QED  BY <2>2, <4>1, <4>3
    <3> QED  BY <1>1, <1>2, <2>2, <3>3 DEF Gone, QueueInOrder
  <2>6. \A w \in DOMAIN publishQueueByVer' :
          w \in DOMAIN publishQueueByVer /\ publishQueueByVer'[w] = publishQueueByVer[w]
    BY <2>1 DEF Flushed
  <2>7. \A i \in 1 .. Len(versToPublish) : versToPublish[i] = Gone + i
    BY <1>1, <2>2 DEF QueueInOrder
  <2>8. ASSUME NEW i \in 1 .. k, NEW c \in Clients
        PROVE  Tells(txns[Gone + i], c, emitted'[Gone + i].to[c])
    <3>1. emitted'[Gone + i]
            = [ver |-> versToPublish[i],
               to |-> IF i = 1 THEN batch ELSE publishQueueByVer[versToPublish[i]].list]
      BY <2>3 DEF GoingOut
    <3>2. versToPublish[i] = Gone + i  BY <2>2, <2>7
    <3>3. CASE i = 1
      <4>1. Gone + i = v
        <5>1. v = versToPublish[1]  BY <1>1, <2>1, <2>2 DEF Flushed, Shape
        <5> QED  BY <3>2, <3>3, <5>1
      <4> QED  BY <1>10, <3>1, <3>3, <4>1
    <3>4. CASE i # 1
      <4>1. i \in 2 .. k  BY <2>2, <3>4
      <4>2. publishQueueByVer[Gone + i].okToClear
        BY <2>1, <3>2, <4>1 DEF Flushed, FlushesUpTo
      <4>3. Gone + i \in DOMAIN publishQueueByVer
        <5>1. Gone + Len(versToPublish) = Len(txns)  BY <1>1, <2>2, <2>5 DEF Gone
        <5>2. Gone + i \in (Gone + 1) .. Len(txns)  BY <2>2, <2>5, <5>1
        <5> QED  BY <1>1, <5>2 DEF QueueInOrder
      <4>4. Tells(txns[Gone + i], c, publishQueueByVer[Gone + i].list[c])
        BY <4>2, <4>3 DEF EveryoneTold
      <4> QED  BY <3>1, <3>2, <3>4, <4>4
    <3> QED  BY <3>3, <3>4
  <2>9. ASSUME NEW i \in 1 .. Gone', NEW c \in Clients
        PROVE  Tells(txns[i], c, emitted'[i].to[c])
    <3>1. CASE i \in 1 .. Gone  BY <2>3, <3>1 DEF EveryoneTold
    <3>2. CASE i \notin 1 .. Gone
      <4>1. PICK j : j = i - Gone  OBVIOUS
      <4>2. j \in 1 .. k /\ i = Gone + j  BY <2>2, <2>5, <3>2, <4>1
      <4> QED  BY <2>8, <4>2
    <3> QED  BY <3>1, <3>2
  <2>10. \A w \in DOMAIN publishQueueByVer' : publishQueueByVer'[w].okToClear =>
           \A c \in Clients : Tells(txns[w], c, publishQueueByVer'[w].list[c])
    BY <2>6 DEF EveryoneTold
  <2> QED  BY <1>2, <1>7, <2>9, <2>10 DEF EveryoneTold
<1>12. CASE /\ v # Head(versToPublish)
            /\ publishQueueByVer' =
                 [publishQueueByVer EXCEPT ![v] = [okToClear |-> TRUE, list |-> held]]
            /\ UNCHANGED <<versToPublish, emitted>>
  <2>1. Gone' = Gone  BY <1>2, <1>12 DEF Gone
  <2>2. ASSUME NEW w \in DOMAIN publishQueueByVer', publishQueueByVer'[w].okToClear,
               NEW c \in Clients
        PROVE  Tells(txns[w], c, publishQueueByVer'[w].list[c])
    <3>1. w \in DOMAIN publishQueueByVer  BY <1>12
    <3>2. CASE w = v
      <4>1. publishQueueByVer'[w].list = held  BY <1>12, <3>1, <3>2
      <4> QED  BY <1>10, <3>2, <4>1
    <3>3. CASE w # v
      <4>1. publishQueueByVer'[w] = publishQueueByVer[w]  BY <1>12, <3>1, <3>3
      <4> QED  BY <2>2, <3>1, <4>1 DEF EveryoneTold
    <3> QED  BY <3>2, <3>3
  <2>3. \A i \in 1 .. Gone : \A c \in Clients : Tells(txns[i], c, emitted[i].to[c])
    BY DEF EveryoneTold
  <2> QED  BY <1>2, <1>7, <1>12, <2>1, <2>2, <2>3 DEF EveryoneTold
<1> QED
  <2>1. EmitOrHold(v, batch)  BY <1>4, <1>8
  <2> QED  BY <1>9, <1>11, <1>12, <2>1, Zenon DEF EmitOrHold, Flushed, GoingOut

\* The invariant with what everyone is told.
LEMMA BInvStep == BInv /\ [Next]_vars => BInv'
<1> SUFFICES ASSUME BInv, [Next]_vars PROVE BInv'  OBVIOUS
<1>1. IInv /\ OneAtATime /\ IInv'  BY NextIInv DEF BInv
<1>2. CASE UNCHANGED vars
  <2>1. /\ txns' = txns /\ writing' = writing /\ stored' = stored /\ sockVer' = sockVer
        /\ versToPublish' = versToPublish /\ publishQueueByVer' = publishQueueByVer
        /\ emitted' = emitted
    BY <1>2 DEF vars, dbVars, pubVars
  <2>2. Gone' = Gone /\ Stored' = Stored /\ OneAtATime'  BY <1>1, <2>1 DEF Gone, Stored, OneAtATime
  <2> QED  BY <1>1, <2>1, <2>2 DEF BInv, EveryoneTold
<1>3. CASE Next
  <2>1. OneAtATime'  BY <1>1, <1>3, OneAtATimeStep
  <2>2. ASSUME WritesComeInOrder PROVE EveryoneTold'
    <3>1. EveryoneTold  BY <2>2 DEF BInv
    <3>2. ASSUME NEW v \in writing, WriteFail(v) PROVE EveryoneTold'
      <4>1. /\ txns' = txns /\ stored' = stored /\ sockVer' = sockVer
            /\ versToPublish' = versToPublish /\ publishQueueByVer' = publishQueueByVer
            /\ emitted' = emitted
        BY <3>2 DEF WriteFail, pubVars
      <4>2. Gone' = Gone /\ Stored' = Stored  BY <4>1 DEF Gone, Stored
      <4> QED  BY <3>1, <4>1, <4>2 DEF EveryoneTold
    <3> QED  BY <1>1, <1>3, <2>2, <3>1, <3>2, SubmitTold, WriteDoneTold DEF Next
  <2> QED  BY <1>1, <2>1, <2>2 DEF BInv
<1> QED  BY <1>2, <1>3

\* Nobody is told of anything at first.
LEMMA BInvInit == Init => BInv
<1> SUFFICES ASSUME Init PROVE BInv  OBVIOUS
<1>1. IInv /\ writing = {} /\ stored = << >> /\ txns = << >> /\ versToPublish = << >>
  BY InitIInv DEF Init
<1>2. Gone = 0  BY <1>1 DEF Gone
<1>3. DOMAIN publishQueueByVer = {} /\ \A c \in Clients : sockVer[c] = 0  BY DEF Init
<1> QED  BY <1>1, <1>2, <1>3 DEF BInv, OneAtATime, EveryoneTold

\* Where the writes come back in order, with one document or with an adapter that
\* answers at once (db-memory), whoever subscribed to the path of a transaction is
\* told of it, whatever fails (txns.Store.js:30-62, 198-240; README.md:44).
THEOREM PipelineBroadcastToAll ==
  ASSUME (\A d, e \in Docs : d = e) \/ MaxInFlight <= 1
  PROVE  Spec => []BroadcastToAll
<1>1. BInv => BroadcastToAll
  <2> SUFFICES ASSUME BInv PROVE BroadcastToAll  OBVIOUS
  <2>1. IInv /\ EveryoneTold  BY DEF BInv, WritesComeInOrder
  <2>2. DOMAIN emitted = 1 .. Gone /\ \A i \in 1 .. Gone : emitted[i].ver = i
    BY <2>1 DEF IInv, QueueInOrder
  <2> QED  BY <2>1, <2>2 DEF EveryoneTold, Tells, BroadcastToAll
<1> QED  BY <1>1, BInvInit, BInvStep, PTL DEF Spec
=============================================================================
