--------------------------- MODULE LiveQueryProofs ---------------------------
(***************************************************************************)
(* Proofs about LiveQuery: for any queries, documents and values, between  *)
(* two versions the memory of the model is what its queries stand for at   *)
(* one version of the store, and no document leaves the memory while a     *)
(* query of the model contains it.                                         *)
(*                                                                         *)
(* What is under way to the model is described as a function of the        *)
(* versions of the store: h stands for hist, s for s2c, qs for queries,    *)
(* lost for the documents on which the protocol gave up.                   *)
(***************************************************************************)
EXTENDS LiveQuery, SequenceTheorems, TLAPS

\* Documents and transactions, for any number of transactions.
DocShapes == [a : Vals, b : Nat, n : Nat] \cup {Absent}
OpShapes ==
  [doc : Docs, kind : {"put", "set", "mark", "push", "del"}, val : Vals, id : Nat]

MsgShapes ==
  [type : {"txn", "addDoc", "rmDoc"}, op : OpShapes, doc : DocShapes]
    \cup [type : {"txnOk"}, op : OpShapes]
    \cup [type : {"subData"}, query : Queries,
          docs : UNION {[D -> DocShapes] : D \in SUBSET Docs}]
Batches ==
  [ver : Nat, begun : BOOLEAN, msgs : UNION {[D -> MsgShapes] : D \in SUBSET Nat}]
Requests ==
  [type : {"txn"}, op : OpShapes] \cup [type : {"subscribe"}, query : Queries]

Shape ==
  /\ hist \in Seq([Docs -> DocShapes]) /\ Len(hist) > 0
  /\ memory \in [Docs -> DocShapes] /\ memVer \in Nat /\ issued \in Nat
  /\ registered \subseteq Queries /\ subbed \subseteq registered /\ answered \subseteq registered
  /\ s2c \in Seq(Batches) /\ c2s \in Seq(Requests)
  /\ \A k \in DOMAIN c2s : c2s[k].type = "subscribe" => c2s[k].query \in registered

\* What a model with the queries qs shows of a document.
Shown(qs, doc) == IF MemberOfSome(qs, doc) THEN doc ELSE Absent

\* Version v is the version before it after op.
Wrote(h, v, op) == h[v + 1] = [h[v] EXCEPT ![op.doc] = Apply(op, @)]

IsData(b) == DOMAIN b.msgs = {0} /\ b.msgs[0].type = "subData"
Turns(msg) == msg.type \in {"txn", "addDoc"}

\* The version that the memory is at before a batch.
Base(b) == IF IsData(b) THEN b.ver ELSE b.ver - 1

\* The answer to a subscription.
DataOK(h, b) ==
  /\ b.msgs[0].query \in Queries /\ b.ver \in 0 .. Len(h) - 1
  /\ b.msgs[0].docs = [d \in {d \in Docs : Member(b.msgs[0].query, h[b.ver + 1][d])} |->
                         h[b.ver + 1][d]]

\* AuthorAlone, for the queries that the author had then.
Alone(qs, op, old, new) ==
  \/ new # Absent /\ ~MemberOfSome(qs, new)
  \/ op.kind \notin {"put", "del"} /\ old # Absent /\ ~MemberOfSome(qs, old)

\* The acknowledgement of op.
AckOK(h, b, qs, lost, op) ==
  /\ DOMAIN b.msgs = {0} /\ b.msgs[0].type = "txnOk" /\ b.msgs[0].op = op
  /\ op.doc \notin lost => ~Alone(qs, op, h[b.ver][op.doc], h[b.ver + 1][op.doc])

\* Somebody else's op, as the queries qs see it, or what is left of it.
WriteOK(h, b, qs, lost, op) ==
  LET old == h[b.ver][op.doc]
      new == h[b.ver + 1][op.doc]
  IN /\ DOMAIN b.msgs # {} /\ DOMAIN b.msgs \subseteq qs
     /\ \A q \in DOMAIN b.msgs :
          /\ b.msgs[q].type = Effect(q, old, new) /\ b.msgs[q].type # "none"
          /\ b.msgs[q].op = op /\ b.msgs[q].doc = new
     /\ ~b.begun => \A q \in qs : Effect(q, old, new) # "none" => q \in DOMAIN b.msgs
     /\ op.kind = "push" /\ op.doc \notin lost =>
          \A q, r \in DOMAIN b.msgs : Turns(b.msgs[q]) /\ Turns(b.msgs[r]) => q = r

BatchOK(h, b, qs, lost) ==
  \/ IsData(b) /\ ~b.begun /\ DataOK(h, b)
  \/ /\ b.ver \in 1 .. Len(h) - 1
     /\ \E op \in OpShapes : /\ Wrote(h, b.ver, op)
                             /\ \/ ~b.begun /\ AckOK(h, b, qs, lost, op)
                                \/ WriteOK(h, b, qs, lost, op)

\* The queries that the model has the data of when it comes to the k-th batch of
\* s, if it has that of qs now, and the version that it is at then.
Before(s, qs, k) ==
  qs \cup {q \in Queries : \E j \in DOMAIN s : j < k /\ IsData(s[j]) /\ s[j].msgs[0].query = q}
Reach(h, s, k) == IF k \in DOMAIN s THEN Base(s[k]) ELSE Len(h) - 1

\* For the queries qs nothing happened between the versions v and w.
Alike(h, qs, v, w) == v <= w /\ \A d \in Docs : Shown(qs, h[v + 1][d]) = Shown(qs, h[w + 1][d])

\* Each batch is what the store made of one version, for the queries that it
\* knew of then, and what was not sent does not matter to them.
QueueOK(h, s, qs, subs, lost) ==
  /\ \A k \in DOMAIN s : BatchOK(h, s[k], Before(s, qs, k), lost) /\ (k > 1 => ~s[k].begun)
  /\ \A k \in DOMAIN s : Alike(h, Before(s, qs, k + 1), s[k].ver, Reach(h, s, k + 1))
  /\ subs = Before(s, qs, Len(s) + 1)

\* The memory when some of a batch was taken: what is left to come of it is
\* either nothing that matters, or the memory may still lack it.
BegunOK(h, b, qs, mem, ver, lost) ==
  \A i \in DOMAIN b.msgs :
    LET d == b.msgs[i].op.doc
        old == Shown(qs, h[b.ver][d])
        new == Shown(qs, h[b.ver + 1][d])
    IN /\ ver < Stamp(b.ver, 2 * i - 1)
       /\ d \notin lost =>
            /\ mem[d] \in {old, new}
            /\ new = Absent \/ (\A j \in DOMAIN b.msgs : ~Turns(b.msgs[j])) => mem[d] = new
            /\ b.msgs[i].op.kind = "push" /\ (\E j \in DOMAIN b.msgs : Turns(b.msgs[j])) => mem[d] = old

BegunWith(s, d) == 1 \in DOMAIN s /\ s[1].begun /\ \E i \in DOMAIN s[1].msgs : s[1].msgs[i].op.doc = d

MemoryOK(h, s, qs, mem, ver, lost) ==
  /\ \A d \in Docs \ lost : ~BegunWith(s, d) => mem[d] = Shown(qs, h[Reach(h, s, 1) + 1][d])
  /\ IF 1 \in DOMAIN s /\ s[1].begun THEN BegunOK(h, s[1], qs, mem, ver, lost)
     ELSE ver <= Stamp(Reach(h, s, 1), 2 * NumQueries)

IInv ==
  /\ Shape
  /\ QueueOK(hist, s2c, answered, subbed, astray)
  /\ MemoryOK(hist, s2c, answered, memory, memVer, astray)


-----------------------------------------------------------------------------
(* Documents, transactions and stamps *)

\* A transaction makes a document of a document, none exactly when it deletes,
\* and all but push may be applied twice.
LEMMA Applying ==
  ASSUME NEW op \in OpShapes, NEW doc \in DocShapes
  PROVE  /\ Apply(op, doc) \in DocShapes
         /\ Apply(op, doc) = Absent <=> op.kind = "del"
         /\ op.kind # "push" => Apply(op, Apply(op, doc)) = Apply(op, doc)
         /\ op.kind = "put" => Apply(op, doc) = Apply(op, Absent)
<1>1. Implied(doc) \in [a : Vals, b : Nat, n : Nat] /\ Implied(Absent) \in [a : Vals, b : Nat, n : Nat]
  BY ValuesAssumption DEF DocShapes, Implied
<1>2. /\ op.kind \in {"put", "set", "mark", "push", "del"} /\ op.val \in Vals /\ op.id \in Nat
  BY DEF OpShapes
<1>3. \A r \in [a : Vals, b : Nat, n : Nat] :
        /\ r # Absent /\ Implied(r) = r
        /\ r.n + 1 \in Nat
  BY ValuesAssumption DEF Implied
<1>4. CASE op.kind = "put"
  <2>1. \A x \in DocShapes : Apply(op, x) = [a |-> op.val, b |-> op.id, n |-> 0]
    BY <1>4 DEF Apply
  <2>2. [a |-> op.val, b |-> op.id, n |-> 0] \in [a : Vals, b : Nat, n : Nat]  BY <1>2
  <2>3. Absent \in DocShapes  BY DEF DocShapes
  <2> QED  BY <1>3, <1>4, <2>1, <2>2, <2>3 DEF DocShapes
<1>5. CASE op.kind = "set"
  <2>1. \A x \in DocShapes : Apply(op, x) = [Implied(x) EXCEPT !.a = op.val]
    BY <1>5 DEF Apply
  <2>2. Apply(op, doc) \in [a : Vals, b : Nat, n : Nat]  BY <1>1, <1>2, <2>1
  <2>3. Apply(op, Apply(op, doc)) = [[Implied(doc) EXCEPT !.a = op.val] EXCEPT !.a = op.val]
    BY <1>3, <2>1, <2>2 DEF DocShapes
  <2> QED  BY <1>1, <1>3, <1>5, <2>1, <2>2, <2>3 DEF DocShapes
<1>6. CASE op.kind = "mark"
  <2>1. \A x \in DocShapes : Apply(op, x) = [Implied(x) EXCEPT !.b = op.id]
    BY <1>6 DEF Apply
  <2>2. Apply(op, doc) \in [a : Vals, b : Nat, n : Nat]  BY <1>1, <1>2, <2>1
  <2>3. Apply(op, Apply(op, doc)) = [[Implied(doc) EXCEPT !.b = op.id] EXCEPT !.b = op.id]
    BY <1>3, <2>1, <2>2 DEF DocShapes
  <2> QED  BY <1>1, <1>3, <1>6, <2>1, <2>2, <2>3 DEF DocShapes
<1>7. CASE op.kind = "push"
  <2>1. Apply(op, doc) = [Implied(doc) EXCEPT !.n = @ + 1]  BY <1>7 DEF Apply
  <2>2. Apply(op, doc) \in [a : Vals, b : Nat, n : Nat]  BY <1>1, <1>3, <2>1
  <2> QED  BY <1>3, <1>7, <2>2 DEF DocShapes
<1>8. CASE op.kind = "del"
  BY <1>8 DEF Apply, DocShapes
<1> QED  BY <1>2, <1>4, <1>5, <1>6, <1>7, <1>8

\* The stamps of the steps of a version are in the order of the steps, and
\* below those of the next version.
LEMMA Stamps ==
  ASSUME NEW v \in Nat, NEW w \in Nat, NEW r \in 0 .. 2 * NumQueries, NEW t \in 0 .. 2 * NumQueries
  PROVE  /\ Stamp(v, r) \in Nat
         /\ r < t => Stamp(v, r) < Stamp(v, t)
         /\ v < w => Stamp(v, r) < Stamp(w, t)
         /\ v <= w => Stamp(v, 2 * NumQueries) <= Stamp(w, 2 * NumQueries)
<1> DEFINE c == 2 * NumQueries + 1
<1>1. c \in Nat /\ r < c /\ r \in Nat /\ t \in Nat  BY CountsAssumption
<1> HIDE DEF c
<1>2. \A k \in Nat : \A x \in Nat : k * x \in Nat  OBVIOUS
<1>3. v * c \in Nat /\ w * c \in Nat  BY <1>1, <1>2
<1>4. v <= w => v * c <= w * c
  <2>1. ASSUME v <= w PROVE w * c = v * c + (w - v) * c
    BY <1>1, <2>1
  <2>2. ASSUME v <= w PROVE w - v \in Nat /\ (w - v) * c \in Nat
    BY <1>1, <1>2, <2>2
  <2> QED  BY <1>3, <2>1, <2>2
<1>5. v < w => v * c + c <= w * c
  <2>1. ASSUME v < w PROVE w * c = v * c + c + (w - v - 1) * c
    BY <1>1, <2>1
  <2>2. ASSUME v < w PROVE w - v - 1 \in Nat /\ (w - v - 1) * c \in Nat
    BY <1>1, <1>2, <2>2
  <2> QED  BY <1>1, <1>3, <2>1, <2>2
<1>6. \A x \in Nat : Stamp(v, x) = v * c + x /\ Stamp(w, x) = w * c + x
  BY DEF Stamp, c
<1>7. 2 * NumQueries \in Nat  BY CountsAssumption
<1> QED  BY <1>1, <1>3, <1>4, <1>5, <1>6, <1>7

\* What Shown is, by the queries that have the document.
LEMMA Showing ==
  ASSUME NEW qs, NEW doc
  PROVE  /\ MemberOfSome(qs, doc) => doc # Absent /\ Shown(qs, doc) = doc
         /\ ~MemberOfSome(qs, doc) => Shown(qs, doc) = Absent
         /\ Shown(qs, doc) = Absent <=> ~MemberOfSome(qs, doc)
         /\ \A q \in qs : Member(q, doc) => Shown(qs, doc) = doc
  BY DEF Shown, MemberOfSome, Member

\* What one more query adds.
LEMMA ShowingMore ==
  ASSUME NEW qs, NEW q, NEW doc
  PROVE  Shown(qs \cup {q}, doc) = IF Member(q, doc) THEN doc ELSE Shown(qs, doc)
  BY DEF Shown, MemberOfSome

\* The author's own transaction makes of what it shows what it is to show.
LEMMA OwnTurn ==
  ASSUME NEW op \in OpShapes, NEW qs, NEW old \in DocShapes,
         ~Alone(qs, op, old, Apply(op, old))
  PROVE  Apply(op, Shown(qs, old)) = Shown(qs, Apply(op, old))
<1> DEFINE new == Apply(op, old)
<1>0. Absent \in DocShapes  BY DEF DocShapes
<1>1. new = Absent <=> op.kind = "del"  BY Applying
<1>2. CASE op.kind = "del"
  <2>1. Apply(op, Shown(qs, old)) = Absent  BY <1>2 DEF Apply
  <2> QED  BY <1>1, <1>2, <2>1, Showing
<1>3. CASE op.kind # "del"
  <2>1. Shown(qs, new) = new  BY <1>1, <1>3, Showing DEF Alone
  <2>2. CASE op.kind = "put"
    <3>1. Apply(op, old) = Apply(op, Absent)  BY <2>2, Applying
    <3> QED  BY <2>1, <3>1 DEF Shown
  <2>3. CASE op.kind # "put"
    <3>1. Shown(qs, old) = old  BY <1>3, <2>3, Showing DEF Alone
    <3> QED  BY <2>1, <3>1
  <2> QED  BY <2>2, <2>3
<1> QED  BY <1>2, <1>3

\* A transaction that a query tells of makes the new document, of the old one or
\* once more of the new one.
LEMMA Turning ==
  ASSUME NEW op \in OpShapes, NEW qs, NEW q \in qs, NEW old \in DocShapes, NEW m,
         Member(q, Apply(op, old)),
         m \in {Shown(qs, old), Shown(qs, Apply(op, old))},
         op.kind = "push" => m = Shown(qs, old),
         m # Absent \/ Member(q, old)
  PROVE  /\ Shown(qs, Apply(op, old)) = Apply(op, old)
         /\ Apply(op, m) = Apply(op, old)
<1> DEFINE new == Apply(op, old)
<1>1. Shown(qs, new) = new  BY Showing
<1>2. m = old \/ (op.kind # "push" /\ m = new)
  <2>1. Member(q, old) => Shown(qs, old) = old  BY Showing
  <2>2. Shown(qs, old) \in {old, Absent}  BY DEF Shown
  <2> QED  BY <1>1, <2>1, <2>2
<1>3. op.kind # "push" => Apply(op, new) = new  BY Applying
<1> QED  BY <1>1, <1>2, <1>3

\* A document that leaves the query q and that no query of reg \ {q} lets pass
\* is in none of qs.
LEMMA Leaving ==
  ASSUME NEW qs, NEW reg, qs \subseteq reg, NEW q, NEW doc, ~Member(q, doc),
         ~\E r \in reg \ {q} : Passes(r, doc)
  PROVE  Shown(qs, doc) = Absent
  BY DEF Shown, MemberOfSome, Member

-----------------------------------------------------------------------------
(* What a message does to the model *)

\* A transaction newer than all before is applied.
LEMMA Putting ==
  ASSUME memory \in [Docs -> DocShapes], NEW d \in Docs, NEW doc \in DocShapes,
         NEW stamp \in Nat, memVer < stamp, Put(d, doc, stamp)
  PROVE  /\ memory' \in [Docs -> DocShapes] /\ memVer' = stamp
         /\ memory'[d] = doc /\ \A e \in Docs : e # d => memory'[e] = memory[e]
  BY DEF Put

\* The messages of a write.
WriteMsg == [type : {"txn", "addDoc", "rmDoc"}, op : OpShapes, doc : DocShapes]

\* What the i-th message of version v does to its document.
Took(i, msg, lost, m, m2) ==
  \/ msg.type = "txn" /\ m2 = Apply(msg.op, m)
  \/ msg.type = "addDoc" /\ m2 = msg.doc
  \/ msg.type = "addDoc" /\ m2 = Apply(msg.op, m) /\ (msg.op.doc \in lost \/ m # Absent)
  \/ /\ msg.type = "rmDoc" /\ m2 = m
     /\ \E r \in registered \ {i} : Passes(r, msg.doc)
     /\ msg.op.doc \in lost \/ MemberOfSome(answered, msg.doc)
  \/ /\ msg.type = "rmDoc" /\ m2 = Absent
     /\ ~\E r \in registered \ {i} : Passes(r, msg.doc)

\* Each message is applied, as its stamp is newer than all before, and touches its
\* own document only.
LEMMA Taking ==
  ASSUME Shape, NEW v \in Nat, NEW i \in 1 .. NumQueries, NEW msg \in WriteMsg,
         memVer < Stamp(v, 2 * i - 1), Handle(v, i, msg)
  PROVE  /\ memory' \in [Docs -> DocShapes]
         /\ memVer' \in {memVer, Stamp(v, 2 * i - 1), Stamp(v, 2 * i)}
         /\ answered' = answered
         /\ astray \subseteq astray' /\ astray' \subseteq astray \cup {msg.op.doc}
         /\ \A e \in Docs : e # msg.op.doc => memory'[e] = memory[e]
         /\ Took(i, msg, astray', memory[msg.op.doc], memory'[msg.op.doc])
<1> DEFINE d == msg.op.doc
           m == memory[d]
<1>1. /\ msg.type \in {"txn", "addDoc", "rmDoc"} /\ msg.op \in OpShapes
      /\ msg.doc \in DocShapes /\ d \in Docs
  BY DEF WriteMsg, OpShapes
<1>2. m \in DocShapes /\ Apply(msg.op, m) \in DocShapes /\ Absent \in DocShapes
  BY <1>1, Applying DEF Shape, DocShapes
<1>3. /\ Stamp(v, 2 * i - 1) \in Nat /\ Stamp(v, 2 * i) \in Nat
      /\ memVer < Stamp(v, 2 * i)
  <2>1. 2 * i - 1 \in 0 .. 2 * NumQueries /\ 2 * i \in 0 .. 2 * NumQueries
    BY CountsAssumption
  <2>2. Stamp(v, 2 * i - 1) < Stamp(v, 2 * i)  BY <2>1, Stamps
  <2>3. Stamp(v, 2 * i - 1) \in Nat /\ Stamp(v, 2 * i) \in Nat  BY <2>1, Stamps
  <2>4. memVer \in Nat  BY DEF Shape
  <2> QED  BY <2>2, <2>3, <2>4
<1>4. CASE msg.type = "txn"
  <2>1. OnTxn(msg.op, Stamp(v, 2 * i)) /\ UNCHANGED <<answered, astray>>
    BY <1>4 DEF Handle
  <2>2. Put(d, Apply(msg.op, m), Stamp(v, 2 * i))  BY <2>1 DEF OnTxn
  <2> QED  BY <1>1, <1>2, <1>3, <1>4, <2>1, <2>2, Putting DEF Shape, Took
<1>5. CASE msg.type = "addDoc"
  <2>1. OnAddDoc(msg, v, i) /\ answered' = answered
    BY <1>5 DEF Handle
  <2>2. /\ astray \subseteq astray' /\ astray' \subseteq astray \cup {d}
        /\ InView(d) => d \in astray' \/ m # Absent
    BY <2>1 DEF OnAddDoc, Strays
  <2>3. CASE InView(d)
    <3>1. Put(d, Apply(msg.op, m), Stamp(v, 2 * i - 1))
      BY <2>1, <2>3 DEF OnAddDoc, OnTxn
    <3> QED  BY <1>1, <1>2, <1>3, <1>5, <2>1, <2>2, <2>3, <3>1, Putting DEF Shape, Took
  <2>4. CASE ~InView(d)
    <3>1. Put(d, msg.doc, Stamp(v, 2 * i))
      BY <2>1, <2>4 DEF OnAddDoc
    <3> QED  BY <1>1, <1>2, <1>3, <1>5, <2>1, <2>2, <3>1, Putting DEF Shape, Took
  <2> QED  BY <2>3, <2>4
<1>6. CASE msg.type = "rmDoc"
  <2>1. OnRmDoc(msg, v, i) /\ answered' = answered
    BY <1>6 DEF Handle
  <2>2. CASE KeepsDoc(msg, i)
    <3>1. /\ UNCHANGED <<memory, memVer>>
          /\ Strays(msg.op, ~MemberOfSome(answered, msg.doc))
      BY <2>1, <2>2 DEF OnRmDoc
    <3> QED  BY <1>6, <2>1, <2>2, <3>1 DEF Shape, Took, Strays, KeepsDoc
  <2>3. CASE ~KeepsDoc(msg, i)
    <3>1. Put(d, Absent, Stamp(v, 2 * i)) /\ astray' = astray
      BY <2>1, <2>3 DEF OnRmDoc
    <3> QED  BY <1>1, <1>2, <1>3, <1>6, <2>1, <2>3, <3>1, Putting DEF Shape, Took, KeepsDoc
  <2> QED  BY <2>2, <2>3
<1> QED  BY <1>1, <1>4, <1>5, <1>6

-----------------------------------------------------------------------------
(* What is under way *)

\* The queries whose data a batch brings.
Brings(b) == {q \in Queries : IsData(b) /\ b.msgs[0].query = q}

\* Before, when a batch is put behind the others.
LEMMA BeforeAppend ==
  ASSUME NEW s \in Seq(Batches), NEW b \in Batches, NEW qs
  PROVE  /\ \A k \in 1 .. Len(s) + 1 : Before(Append(s, b), qs, k) = Before(s, qs, k)
         /\ Before(Append(s, b), qs, Len(s) + 2) = Before(s, qs, Len(s) + 1) \cup Brings(b)
<1> DEFINE t == Append(s, b)
<1>1. /\ Len(s) \in Nat /\ DOMAIN s = 1 .. Len(s) /\ DOMAIN t = 1 .. Len(s) + 1
      /\ t[Len(s) + 1] = b /\ \A j \in 1 .. Len(s) : t[j] = s[j]
  BY AppendProperties
<1> HIDE DEF t
<1>2. ASSUME NEW k \in 1 .. Len(s) + 1 PROVE Before(t, qs, k) = Before(s, qs, k)
  <2>1. \A j : j \in DOMAIN t /\ j < k <=> j \in DOMAIN s /\ j < k  BY <1>1
  <2>2. \A j \in DOMAIN s : t[j] = s[j]  BY <1>1
  <2>3. \A q : (\E j \in DOMAIN t : j < k /\ IsData(t[j]) /\ t[j].msgs[0].query = q)
             <=> (\E j \in DOMAIN s : j < k /\ IsData(s[j]) /\ s[j].msgs[0].query = q)
    BY <2>1, <2>2
  <2> QED  BY <2>3 DEF Before
<1>3. Before(t, qs, Len(s) + 2) = Before(s, qs, Len(s) + 1) \cup Brings(b)
  <2>1. \A j \in DOMAIN t : j < Len(s) + 2 /\ (j \in DOMAIN s \/ j = Len(s) + 1)
    BY <1>1
  <2>2. \A j \in DOMAIN s : j \in DOMAIN t /\ t[j] = s[j] /\ j < Len(s) + 1  BY <1>1
  <2>3. Len(s) + 1 \in DOMAIN t  BY <1>1
  <2>4. \A q : (\E j \in DOMAIN t : j < Len(s) + 2 /\ IsData(t[j]) /\ t[j].msgs[0].query = q)
             <=> \/ \E j \in DOMAIN s : j < Len(s) + 1 /\ IsData(s[j]) /\ s[j].msgs[0].query = q
                 \/ IsData(b) /\ b.msgs[0].query = q
    BY <1>1, <2>1, <2>2, <2>3
  <2> QED  BY <2>4 DEF Before, Brings
<1> QED  BY <1>2, <1>3 DEF t

\* Before, when the first batch is gone.
LEMMA BeforeTail ==
  ASSUME NEW s \in Seq(Batches), Len(s) > 0, NEW qs, NEW k \in Nat \ {0}
  PROVE  Before(Tail(s), qs \cup Brings(s[1]), k) = Before(s, qs, k + 1)
<1> DEFINE t == Tail(s)
<1>1. /\ Len(s) \in Nat /\ DOMAIN s = 1 .. Len(s) /\ DOMAIN t = 1 .. Len(s) - 1
      /\ \A j \in 1 .. Len(s) - 1 : t[j] = s[j + 1]
  BY HeadTailProperties, EmptySeq
<1> HIDE DEF t
<1>2. \A j \in DOMAIN t : j + 1 \in DOMAIN s /\ t[j] = s[j + 1] /\ (j < k <=> j + 1 < k + 1)
  BY <1>1
<1>3. \A j \in DOMAIN s : j = 1 \/ (j - 1 \in DOMAIN t /\ (j - 1) + 1 = j)
  BY <1>1
<1>4. 1 \in DOMAIN s /\ 1 < k + 1  BY <1>1
<1>5. \A q : (\E j \in DOMAIN s : j < k + 1 /\ IsData(s[j]) /\ s[j].msgs[0].query = q)
           <=> \/ \E j \in DOMAIN t : j < k /\ IsData(t[j]) /\ t[j].msgs[0].query = q
               \/ IsData(s[1]) /\ s[1].msgs[0].query = q
  <2> SUFFICES ASSUME NEW q
               PROVE  (\E j \in DOMAIN s : j < k + 1 /\ IsData(s[j]) /\ s[j].msgs[0].query = q)
                      <=> \/ \E j \in DOMAIN t : j < k /\ IsData(t[j]) /\ t[j].msgs[0].query = q
                          \/ IsData(s[1]) /\ s[1].msgs[0].query = q
    OBVIOUS
  <2>1. ASSUME NEW j \in DOMAIN s, j < k + 1, IsData(s[j]), s[j].msgs[0].query = q, j # 1
        PROVE  \E i \in DOMAIN t : i < k /\ IsData(t[i]) /\ t[i].msgs[0].query = q
    <3>1. j - 1 \in DOMAIN t /\ (j - 1) + 1 = j  BY <1>3, <2>1
    <3>2. t[j - 1] = s[j] /\ j - 1 < k  BY <1>2, <2>1, <3>1
    <3> QED  BY <2>1, <3>1, <3>2
  <2>2. ASSUME NEW j \in DOMAIN t, j < k, IsData(t[j]), t[j].msgs[0].query = q
        PROVE  \E i \in DOMAIN s : i < k + 1 /\ IsData(s[i]) /\ s[i].msgs[0].query = q
    BY <1>2, <2>2
  <2> QED  BY <1>4, <2>1, <2>2
<1>6. Before(t, qs \cup Brings(s[1]), k) = Before(s, qs, k + 1)
  BY <1>5 DEF Before, Brings
<1> QED  BY <1>6 DEF t

\* Before, when some of a first batch without data was taken.
LEMMA BeforeBegun ==
  ASSUME NEW s \in Seq(Batches), NEW t \in Seq(Batches), Len(s) > 0, Len(t) = Len(s),
         \A j \in 2 .. Len(s) : t[j] = s[j], ~IsData(s[1]), ~IsData(t[1]), NEW qs, NEW k
  PROVE  Before(t, qs, k) = Before(s, qs, k)
<1>1. DOMAIN s = DOMAIN t /\ \A j \in DOMAIN s : (IsData(s[j]) <=> IsData(t[j])) /\ (IsData(s[j]) => t[j] = s[j])
  <2>1. DOMAIN s = 1 .. Len(s) /\ DOMAIN t = 1 .. Len(s) /\ Len(s) \in Nat  OBVIOUS
  <2>2. \A j \in DOMAIN s : j = 1 \/ j \in 2 .. Len(s)  BY <2>1
  <2> QED  BY <2>1, <2>2
<1>2. \A q : (\E j \in DOMAIN t : j < k /\ IsData(t[j]) /\ t[j].msgs[0].query = q)
           <=> (\E j \in DOMAIN s : j < k /\ IsData(s[j]) /\ s[j].msgs[0].query = q)
  BY <1>1
<1> QED  BY <1>2 DEF Before

\* Nothing has come before the first batch.
LEMMA BeforeFirst ==
  ASSUME NEW s \in Seq(Batches), NEW qs
  PROVE  Before(s, qs, 1) = qs /\ (Len(s) > 0 => Before(s, qs, 2) = qs \cup Brings(s[1]))
<1>1. DOMAIN s = 1 .. Len(s) /\ Len(s) \in Nat  OBVIOUS
<1>2. \A j \in DOMAIN s : ~(j < 1) /\ (j < 2 => j = 1)  BY <1>1
<1>3. Len(s) > 0 => 1 \in DOMAIN s  BY <1>1
<1> QED  BY <1>2, <1>3 DEF Before, Brings

\* The versions of the store.
Histories == Seq([Docs -> DocShapes])

\* h2 is h and perhaps some versions more.
Longer(h, h2) == Len(h) <= Len(h2) /\ \A v \in 1 .. Len(h) : h2[v] = h[v]

\* A batch is about versions that there are.
LEMMA BatchVersions ==
  ASSUME NEW h \in Histories, Len(h) > 0, NEW b \in Batches, NEW qs, NEW lost,
         BatchOK(h, b, qs, lost)
  PROVE  b.ver \in 0 .. Len(h) - 1 /\ Base(b) \in 0 .. Len(h) - 1 /\ Base(b) <= b.ver
<1>1. Len(h) \in Nat /\ b.ver \in Nat  BY DEF Histories, Batches
<1>2. b.ver \in 0 .. Len(h) - 1 /\ (IsData(b) \/ b.ver \in 1 .. Len(h) - 1)
  BY <1>1 DEF BatchOK, DataOK
<1> QED  BY <1>1, <1>2 DEF Base

\* A batch stays right when the store goes on.
LEMMA BatchKept ==
  ASSUME NEW h \in Histories, NEW h2 \in Histories, Longer(h, h2), NEW b \in Batches,
         NEW qs, NEW lost, NEW lost2, lost \subseteq lost2, BatchOK(h, b, qs, lost)
  PROVE  BatchOK(h2, b, qs, lost2)
<1>1. Len(h) \in Nat /\ Len(h2) \in Nat /\ b.ver \in Nat  BY DEF Histories, Batches
<1>2. CASE IsData(b) /\ ~b.begun /\ DataOK(h, b)
  <2>1. b.ver + 1 \in 1 .. Len(h) /\ b.ver \in 0 .. Len(h2) - 1
    BY <1>1, <1>2 DEF DataOK, Longer
  <2>2. h2[b.ver + 1] = h[b.ver + 1]  BY <2>1 DEF Longer
  <2>3. DataOK(h2, b)  BY <1>2, <2>1, <2>2 DEF DataOK
  <2> QED  BY <1>2, <2>3 DEF BatchOK
<1>3. ASSUME b.ver \in 1 .. Len(h) - 1, NEW op \in OpShapes, Wrote(h, b.ver, op),
             (~b.begun /\ AckOK(h, b, qs, lost, op)) \/ WriteOK(h, b, qs, lost, op)
      PROVE  BatchOK(h2, b, qs, lost2)
  <2>1. /\ b.ver \in 1 .. Len(h2) - 1
        /\ h2[b.ver] = h[b.ver] /\ h2[b.ver + 1] = h[b.ver + 1]
    BY <1>1, <1>3 DEF Longer
  <2>2. Wrote(h2, b.ver, op)  BY <1>3, <2>1 DEF Wrote
  <2>3. AckOK(h, b, qs, lost, op) => AckOK(h2, b, qs, lost2, op)  BY <2>1 DEF AckOK
  <2>4. WriteOK(h, b, qs, lost, op) => WriteOK(h2, b, qs, lost2, op)  BY <2>1 DEF WriteOK
  <2> QED  BY <1>3, <2>1, <2>2, <2>3, <2>4 DEF BatchOK
<1> QED  BY <1>2, <1>3 DEF BatchOK

\* So does the comparison of two versions.
LEMMA AlikeKept ==
  ASSUME NEW h \in Histories, NEW h2 \in Histories, Longer(h, h2), NEW qs,
         NEW v \in Nat, NEW w \in Nat, w < Len(h), Alike(h, qs, v, w)
  PROVE  Alike(h2, qs, v, w)
<1>1. Len(h) \in Nat  BY DEF Histories
<1>2. h2[v + 1] = h[v + 1] /\ h2[w + 1] = h[w + 1]  BY <1>1 DEF Longer, Alike
<1> QED  BY <1>2 DEF Alike

\* A version in which the queries do not differ from the last one needs no batch.
LEMMA NothingSent ==
  ASSUME NEW h \in Histories, Len(h) > 0, NEW h2 \in Histories, Longer(h, h2),
         NEW s \in Seq(Batches), NEW qs, NEW subs, NEW lost, NEW lost2, lost \subseteq lost2,
         QueueOK(h, s, qs, subs, lost), Alike(h2, subs, Len(h) - 1, Len(h2) - 1)
  PROVE  QueueOK(h2, s, qs, subs, lost2)
<1>1. /\ Len(h) \in Nat /\ Len(h2) \in Nat /\ Len(s) \in Nat /\ DOMAIN s = 1 .. Len(s)
      /\ \A k \in DOMAIN s : s[k] \in Batches
  BY DEF Histories
<1>2. ASSUME NEW k \in DOMAIN s
      PROVE  BatchOK(h2, s[k], Before(s, qs, k), lost2) /\ (k > 1 => ~s[k].begun)
  BY <1>1, <1>2, BatchKept DEF QueueOK
<1>3. ASSUME NEW k \in DOMAIN s
      PROVE  Alike(h2, Before(s, qs, k + 1), s[k].ver, Reach(h2, s, k + 1))
  <2>1. Alike(h, Before(s, qs, k + 1), s[k].ver, Reach(h, s, k + 1))  BY DEF QueueOK
  <2>2. s[k].ver \in 0 .. Len(h) - 1
    BY <1>1, <1>3, BatchVersions DEF QueueOK
  <2>3. CASE k + 1 \in DOMAIN s
    <3>1. Base(s[k + 1]) \in 0 .. Len(h) - 1
      BY <1>1, <2>3, BatchVersions DEF QueueOK
    <3>2. Alike(h, Before(s, qs, k + 1), s[k].ver, Base(s[k + 1]))
      BY <2>1, <2>3 DEF Reach
    <3>3. Alike(h2, Before(s, qs, k + 1), s[k].ver, Base(s[k + 1]))
      BY <1>1, <2>2, <3>1, <3>2, AlikeKept
    <3> QED  BY <2>3, <3>3 DEF Reach
  <2>4. CASE k + 1 \notin DOMAIN s
    <3>1. k = Len(s)  BY <1>1, <1>3, <2>4
    <3>2. Before(s, qs, k + 1) = subs  BY <3>1 DEF QueueOK
    <3>3. Alike(h, subs, s[k].ver, Len(h) - 1)
      BY <2>1, <2>4, <3>2 DEF Reach
    <3>4. Alike(h2, subs, s[k].ver, Len(h) - 1)
      BY <1>1, <2>2, <3>3, AlikeKept
    <3>5. Alike(h2, subs, s[k].ver, Len(h2) - 1)
      BY <1>1, <2>2, <3>4 DEF Alike
    <3> QED  BY <2>4, <3>2, <3>5 DEF Reach
  <2> QED  BY <2>3, <2>4
<1>4. subs = Before(s, qs, Len(s) + 1)  BY DEF QueueOK
<1> QED  BY <1>2, <1>3, <1>4 DEF QueueOK

\* What the store sends goes behind all that is under way.
LEMMA Sent ==
  ASSUME NEW h \in Histories, Len(h) > 0, NEW h2 \in Histories, Longer(h, h2),
         NEW s \in Seq(Batches), NEW b \in Batches, NEW qs, NEW subs, NEW lost, NEW lost2,
         lost \subseteq lost2, QueueOK(h, s, qs, subs, lost),
         BatchOK(h2, b, subs, lost2), ~b.begun, Base(b) = Len(h) - 1, b.ver = Len(h2) - 1
  PROVE  QueueOK(h2, Append(s, b), qs, subs \cup Brings(b), lost2)
<1> DEFINE t == Append(s, b)
<1>1. /\ Len(h) \in Nat /\ Len(h2) \in Nat /\ Len(s) \in Nat /\ DOMAIN s = 1 .. Len(s)
      /\ \A k \in DOMAIN s : s[k] \in Batches
  BY DEF Histories
<1>2. /\ DOMAIN t = 1 .. Len(s) + 1 /\ Len(t) = Len(s) + 1 /\ t[Len(s) + 1] = b
      /\ \A k \in 1 .. Len(s) : t[k] = s[k]
  BY AppendProperties
<1>3. /\ \A k \in 1 .. Len(s) + 1 : Before(t, qs, k) = Before(s, qs, k)
      /\ Before(t, qs, Len(s) + 2) = subs \cup Brings(b)
      /\ Before(s, qs, Len(s) + 1) = subs
  BY BeforeAppend DEF QueueOK
<1> HIDE DEF t
<1>4. ASSUME NEW k \in DOMAIN t
      PROVE  BatchOK(h2, t[k], Before(t, qs, k), lost2) /\ (k > 1 => ~t[k].begun)
  <2>1. CASE k \in DOMAIN s
    <3>1. t[k] = s[k] /\ Before(t, qs, k) = Before(s, qs, k)  BY <1>1, <1>2, <1>3, <2>1
    <3>2. BatchOK(h, s[k], Before(s, qs, k), lost) /\ (k > 1 => ~s[k].begun)
      BY <2>1 DEF QueueOK
    <3> QED  BY <1>1, <2>1, <3>1, <3>2, BatchKept
  <2>2. CASE k = Len(s) + 1
    <3>1. t[k] = b /\ Before(t, qs, k) = subs  BY <1>1, <1>2, <1>3, <2>2
    <3> QED  BY <3>1
  <2> QED  BY <1>1, <1>2, <2>1, <2>2
<1>5. ASSUME NEW k \in DOMAIN t
      PROVE  Alike(h2, Before(t, qs, k + 1), t[k].ver, Reach(h2, t, k + 1))
  <2>1. CASE k \in DOMAIN s
    <3>1. t[k] = s[k] /\ Before(t, qs, k + 1) = Before(s, qs, k + 1)
      BY <1>1, <1>2, <1>3, <2>1
    <3>2. Reach(h2, t, k + 1) = Reach(h, s, k + 1)
      <4>1. CASE k + 1 \in DOMAIN s
        <5>1. k + 1 \in DOMAIN t /\ t[k + 1] = s[k + 1]  BY <1>1, <1>2, <4>1
        <5> QED  BY <4>1, <5>1 DEF Reach
      <4>2. CASE k + 1 \notin DOMAIN s
        <5>1. k + 1 \in DOMAIN t /\ t[k + 1] = b  BY <1>1, <1>2, <2>1, <4>2
        <5> QED  BY <4>2, <5>1 DEF Reach
      <4> QED  BY <4>1, <4>2
    <3>3. Reach(h, s, k + 1) \in 0 .. Len(h) - 1
      <4>1. CASE k + 1 \in DOMAIN s
        BY <1>1, <4>1, BatchVersions DEF QueueOK, Reach
      <4>2. CASE k + 1 \notin DOMAIN s
        BY <1>1, <4>2 DEF Reach
      <4> QED  BY <4>1, <4>2
    <3>4. s[k].ver \in 0 .. Len(h) - 1
      BY <1>1, <2>1, BatchVersions DEF QueueOK
    <3>5. Alike(h, Before(s, qs, k + 1), s[k].ver, Reach(h, s, k + 1))
      BY <2>1 DEF QueueOK
    <3>6. Alike(h2, Before(s, qs, k + 1), s[k].ver, Reach(h, s, k + 1))
      BY <1>1, <3>3, <3>4, <3>5, AlikeKept
    <3> QED  BY <3>1, <3>2, <3>6
  <2>2. CASE k = Len(s) + 1
    <3>1. Reach(h2, t, k + 1) = Len(h2) - 1 /\ t[k] = b  BY <1>1, <1>2, <2>2 DEF Reach
    <3>2. b.ver \in Nat  BY DEF Batches
    <3> QED  BY <3>1, <3>2 DEF Alike
  <2> QED  BY <1>1, <1>2, <2>1, <2>2
<1>6. subs \cup Brings(b) = Before(t, qs, Len(t) + 1)
  BY <1>1, <1>2, <1>3
<1>7. QueueOK(h2, t, qs, subs \cup Brings(b), lost2)  BY <1>4, <1>5, <1>6 DEF QueueOK
<1> QED  BY <1>7 DEF t

\* When all of the first batch was taken, the second one is the first.
LEMMA Finished ==
  ASSUME NEW h \in Histories, Len(h) > 0, NEW s \in Seq(Batches), Len(s) > 0,
         NEW qs, NEW subs, NEW lost, NEW lost2, lost \subseteq lost2,
         QueueOK(h, s, qs, subs, lost)
  PROVE  /\ QueueOK(h, Tail(s), qs \cup Brings(s[1]), subs, lost2)
         /\ Reach(h, Tail(s), 1) \in 0 .. Len(h) - 1
         /\ Alike(h, qs \cup Brings(s[1]), s[1].ver, Reach(h, Tail(s), 1))
         /\ 1 \in DOMAIN Tail(s) => ~Tail(s)[1].begun
<1> DEFINE t == Tail(s)
           qs2 == qs \cup Brings(s[1])
<1>1. /\ Len(s) \in Nat /\ DOMAIN s = 1 .. Len(s) /\ DOMAIN t = 1 .. Len(s) - 1
      /\ Len(t) = Len(s) - 1
      /\ \A j \in 1 .. Len(s) - 1 : t[j] = s[j + 1]
  BY HeadTailProperties, EmptySeq
<1>2. \A k \in Nat \ {0} : Before(t, qs2, k) = Before(s, qs, k + 1)
  BY BeforeTail
<1> HIDE DEF t, qs2
<1>3. \A k \in Nat \ {0} : Reach(h, t, k) = Reach(h, s, k + 1)
  <2> SUFFICES ASSUME NEW k \in Nat \ {0} PROVE Reach(h, t, k) = Reach(h, s, k + 1)
    OBVIOUS
  <2>1. k \in DOMAIN t <=> k + 1 \in DOMAIN s  BY <1>1
  <2>2. k \in DOMAIN t => t[k] = s[k + 1]  BY <1>1
  <2> QED  BY <2>1, <2>2 DEF Reach
<1>4. ASSUME NEW k \in DOMAIN t
      PROVE  /\ BatchOK(h, t[k], Before(t, qs2, k), lost2) /\ (k > 1 => ~t[k].begun)
             /\ Alike(h, Before(t, qs2, k + 1), t[k].ver, Reach(h, t, k + 1))
             /\ ~t[k].begun
  <2>1. k \in Nat \ {0} /\ k + 1 \in Nat \ {0} /\ k + 1 \in DOMAIN s /\ k + 1 > 1
    BY <1>1, <1>4
  <2>2. t[k] = s[k + 1] /\ s[k + 1] \in Batches  BY <1>1, <1>4, <2>1
  <2>3. /\ Before(t, qs2, k) = Before(s, qs, k + 1)
        /\ Before(t, qs2, k + 1) = Before(s, qs, k + 1 + 1)
        /\ Reach(h, t, k + 1) = Reach(h, s, k + 1 + 1)
    BY <1>2, <1>3, <2>1
  <2>4. BatchOK(h, s[k + 1], Before(s, qs, k + 1), lost) /\ ~s[k + 1].begun
    BY <2>1 DEF QueueOK
  <2>5. Alike(h, Before(s, qs, k + 1 + 1), s[k + 1].ver, Reach(h, s, k + 1 + 1))
    BY <2>1 DEF QueueOK
  <2>6. Longer(h, h)  BY DEF Longer, Histories
  <2>7. BatchOK(h, s[k + 1], Before(s, qs, k + 1), lost2)  BY <2>2, <2>4, <2>6, BatchKept
  <2> QED  BY <2>2, <2>3, <2>4, <2>5, <2>7
<1>5. subs = Before(t, qs2, Len(t) + 1)
  <2>1. Len(t) + 1 = Len(s) /\ Len(s) \in Nat \ {0}  BY <1>1
  <2>2. subs = Before(s, qs, Len(s) + 1)  BY DEF QueueOK
  <2> QED  BY <1>2, <2>1, <2>2
<1>6. QueueOK(h, t, qs2, subs, lost2)  BY <1>4, <1>5 DEF QueueOK
<1>7. Alike(h, qs2, s[1].ver, Reach(h, t, 1))
  <2>1. 1 \in DOMAIN s /\ 1 + 1 = 2  BY <1>1
  <2>2. Alike(h, Before(s, qs, 1 + 1), s[1].ver, Reach(h, s, 1 + 1))
    BY <2>1 DEF QueueOK
  <2>3. Before(s, qs, 1 + 1) = qs2 /\ Reach(h, s, 1 + 1) = Reach(h, t, 1)
    <3>1. Before(s, qs, 2) = qs2  BY BeforeFirst DEF qs2
    <3>2. 1 \in Nat \ {0}  OBVIOUS
    <3>3. Reach(h, t, 1) = Reach(h, s, 1 + 1)  BY <1>3, <3>2
    <3> QED  BY <3>1, <3>3
  <2> QED  BY <2>2, <2>3
<1>8. Reach(h, t, 1) \in 0 .. Len(h) - 1
  <2>1. CASE 1 \in DOMAIN t
    <3>1. BatchOK(h, t[1], Before(t, qs2, 1), lost2)  BY <1>4, <2>1
    <3>2. t[1] \in Batches  BY <1>1, <2>1
    <3> QED  BY <2>1, <3>1, <3>2, BatchVersions DEF Reach
  <2>2. CASE 1 \notin DOMAIN t
    BY <2>2 DEF Reach, Histories
  <2> QED  BY <2>1, <2>2
<1>9. 1 \in DOMAIN t => ~t[1].begun  BY <1>4
<1> QED  BY <1>6, <1>7, <1>8, <1>9 DEF t, qs2

\* When some of the first batch was taken, the rest of it takes its place.
LEMMA BegunStays ==
  ASSUME NEW h \in Histories, Len(h) > 0, NEW s \in Seq(Batches), NEW t \in Seq(Batches),
         Len(s) > 0, Len(t) = Len(s), \A j \in 2 .. Len(s) : t[j] = s[j],
         ~IsData(s[1]), ~IsData(t[1]), t[1].ver = s[1].ver,
         NEW qs, NEW subs, NEW lost, NEW lost2, lost \subseteq lost2,
         QueueOK(h, s, qs, subs, lost), BatchOK(h, t[1], qs, lost2)
  PROVE  QueueOK(h, t, qs, subs, lost2)
<1>1. /\ Len(s) \in Nat /\ DOMAIN s = 1 .. Len(s) /\ DOMAIN t = DOMAIN s
      /\ \A k \in DOMAIN s : k # 1 => t[k] = s[k]
      /\ \A k \in DOMAIN s : t[k].ver = s[k].ver
  <2>1. Len(s) \in Nat /\ DOMAIN s = 1 .. Len(s) /\ DOMAIN t = 1 .. Len(s)  OBVIOUS
  <2>2. \A k \in DOMAIN s : k = 1 \/ k \in 2 .. Len(s)  BY <2>1
  <2> QED  BY <2>1, <2>2
<1>2. \A k : Before(t, qs, k) = Before(s, qs, k)  BY BeforeBegun
<1>3. \A k \in Nat : k > 1 => Reach(h, t, k) = Reach(h, s, k)  BY <1>1 DEF Reach
<1>4. ASSUME NEW k \in DOMAIN t
      PROVE  /\ BatchOK(h, t[k], Before(t, qs, k), lost2) /\ (k > 1 => ~t[k].begun)
             /\ Alike(h, Before(t, qs, k + 1), t[k].ver, Reach(h, t, k + 1))
  <2>1. /\ k \in DOMAIN s /\ k + 1 \in Nat /\ k + 1 > 1 /\ k \in Nat /\ s[k] \in Batches
    BY <1>1
  <2>2. Alike(h, Before(s, qs, k + 1), s[k].ver, Reach(h, s, k + 1))
    BY <2>1 DEF QueueOK
  <2>3. Alike(h, Before(t, qs, k + 1), t[k].ver, Reach(h, t, k + 1))
    BY <1>1, <1>2, <1>3, <2>1, <2>2
  <2>4. CASE k = 1
    <3>1. Before(t, qs, 1) = qs  BY BeforeFirst
    <3> QED  BY <2>3, <2>4, <3>1
  <2>5. CASE k # 1
    <3>1. t[k] = s[k] /\ Longer(h, h)  BY <1>1, <2>1, <2>5 DEF Longer, Histories
    <3>2. BatchOK(h, s[k], Before(s, qs, k), lost) /\ (k > 1 => ~s[k].begun)
      BY <2>1 DEF QueueOK
    <3>3. BatchOK(h, s[k], Before(s, qs, k), lost2)  BY <2>1, <3>1, <3>2, BatchKept
    <3> QED  BY <1>2, <2>3, <3>1, <3>2, <3>3
  <2> QED  BY <2>4, <2>5
<1>5. subs = Before(t, qs, Len(t) + 1)  BY <1>2 DEF QueueOK
<1> QED  BY <1>4, <1>5 DEF QueueOK

\* While the store goes on, the memory waits.
LEMMA MemoryWaits ==
  ASSUME NEW h \in Histories, Len(h) > 0, NEW h2 \in Histories, Longer(h, h2),
         NEW s \in Seq(Batches), NEW t \in Seq(Batches),
         NEW qs, NEW subs, NEW mem, NEW ver, NEW lost, NEW lost2, lost \subseteq lost2,
         QueueOK(h, s, qs, subs, lost), MemoryOK(h, s, qs, mem, ver, lost), ver \in Nat,
         1 \in DOMAIN s => 1 \in DOMAIN t /\ t[1] = s[1],
         1 \notin DOMAIN s =>
            /\ 1 \in DOMAIN t => ~t[1].begun
            /\ Reach(h2, t, 1) \in Nat /\ Alike(h2, qs, Len(h) - 1, Reach(h2, t, 1))
  PROVE  MemoryOK(h2, t, qs, mem, ver, lost2)
<1>1. Len(h) \in Nat /\ Len(h2) \in Nat  BY DEF Histories
<1>2. CASE 1 \in DOMAIN s
  <2>1. /\ t[1] = s[1] /\ 1 \in DOMAIN t /\ s[1] \in Batches
        /\ BatchOK(h, s[1], qs, lost)
    BY <1>2, BeforeFirst DEF QueueOK
  <2>2. /\ s[1].ver \in 0 .. Len(h) - 1 /\ Base(s[1]) \in 0 .. Len(h) - 1
    BY <2>1, BatchVersions
  <2>3. Reach(h2, t, 1) = Reach(h, s, 1) /\ Reach(h, s, 1) = Base(s[1])
    BY <1>2, <2>1 DEF Reach
  <2>4. \A d : BegunWith(t, d) <=> BegunWith(s, d)  BY <1>2, <2>1 DEF BegunWith
  <2>5. h2[Base(s[1]) + 1] = h[Base(s[1]) + 1]  BY <1>1, <2>2 DEF Longer
  <2>6. \A d \in Docs \ lost2 : ~BegunWith(t, d) =>
           mem[d] = Shown(qs, h2[Reach(h2, t, 1) + 1][d])
    BY <2>3, <2>4, <2>5 DEF MemoryOK
  <2>7. CASE s[1].begun
    <3>1. s[1].ver \in 1 .. Len(h) - 1
      BY <2>1, <2>7 DEF BatchOK
    <3>2. h2[s[1].ver] = h[s[1].ver] /\ h2[s[1].ver + 1] = h[s[1].ver + 1]
      <4>1. s[1].ver \in 1 .. Len(h) /\ s[1].ver + 1 \in 1 .. Len(h)  BY <1>1, <3>1
      <4> QED  BY <4>1 DEF Longer
    <3>3. BegunOK(h, s[1], qs, mem, ver, lost)  BY <1>2, <2>7 DEF MemoryOK
    <3>4. BegunOK(h2, s[1], qs, mem, ver, lost2)  BY <3>2, <3>3 DEF BegunOK
    <3> QED  BY <2>1, <2>6, <2>7, <3>4 DEF MemoryOK
  <2>8. CASE ~s[1].begun
    BY <1>2, <2>1, <2>3, <2>6, <2>8 DEF MemoryOK
  <2> QED  BY <2>7, <2>8
<1>3. CASE 1 \notin DOMAIN s
  <2>1. Reach(h, s, 1) = Len(h) - 1  BY <1>3 DEF Reach
  <2>2. \A d : ~BegunWith(t, d) /\ ~BegunWith(s, d)  BY <1>3 DEF BegunWith
  <2>3. /\ \A d \in Docs \ lost : mem[d] = Shown(qs, h[Len(h)][d])
        /\ ver <= Stamp(Len(h) - 1, 2 * NumQueries)
    BY <1>1, <1>3, <2>1, <2>2 DEF MemoryOK
  <2>4. h2[Len(h)] = h[Len(h)]  BY <1>1 DEF Longer
  <2>5. /\ Len(h) - 1 <= Reach(h2, t, 1)
        /\ \A d \in Docs : Shown(qs, h2[Len(h)][d]) = Shown(qs, h2[Reach(h2, t, 1) + 1][d])
    BY <1>1, <1>3 DEF Alike
  <2>6. \A d \in Docs \ lost2 : mem[d] = Shown(qs, h2[Reach(h2, t, 1) + 1][d])
    BY <2>3, <2>4, <2>5
  <2>7. ver <= Stamp(Reach(h2, t, 1), 2 * NumQueries)
    <3>1. 2 * NumQueries \in 0 .. 2 * NumQueries  BY CountsAssumption
    <3>2. Len(h) - 1 \in Nat /\ Reach(h2, t, 1) \in Nat  BY <1>1, <1>3
    <3>3. /\ Stamp(Len(h) - 1, 2 * NumQueries) \in Nat
          /\ Stamp(Reach(h2, t, 1), 2 * NumQueries) \in Nat
          /\ Stamp(Len(h) - 1, 2 * NumQueries) <= Stamp(Reach(h2, t, 1), 2 * NumQueries)
      BY <2>5, <3>1, <3>2, Stamps
    <3> QED  BY <2>3, <3>3
  <2> QED  BY <1>3, <2>6, <2>7 DEF MemoryOK
<1> QED  BY <1>2, <1>3

\* In particular when the store sends a batch.
LEMMA SentMemory ==
  ASSUME NEW h \in Histories, Len(h) > 0, NEW h2 \in Histories, Longer(h, h2),
         NEW s \in Seq(Batches), NEW b \in Batches,
         NEW qs, NEW subs, NEW mem, NEW ver, NEW lost, NEW lost2, lost \subseteq lost2,
         QueueOK(h, s, qs, subs, lost), MemoryOK(h, s, qs, mem, ver, lost), ver \in Nat,
         ~b.begun, Base(b) = Len(h) - 1
  PROVE  MemoryOK(h2, Append(s, b), qs, mem, ver, lost2)
<1> DEFINE t == Append(s, b)
<1>1. /\ Len(s) \in Nat /\ DOMAIN s = 1 .. Len(s) /\ t \in Seq(Batches)
      /\ DOMAIN t = 1 .. Len(s) + 1 /\ t[Len(s) + 1] = b
      /\ \A k \in 1 .. Len(s) : t[k] = s[k]
  BY AppendProperties
<1> HIDE DEF t
<1>2. 1 \in DOMAIN s => 1 \in DOMAIN t /\ t[1] = s[1]  BY <1>1
<1>3. ASSUME 1 \notin DOMAIN s
      PROVE  /\ 1 \in DOMAIN t => ~t[1].begun
             /\ Reach(h2, t, 1) \in Nat /\ Alike(h2, qs, Len(h) - 1, Reach(h2, t, 1))
  <2>1. Len(s) = 0  BY <1>1, <1>3
  <2>2. 1 \in DOMAIN t /\ t[1] = b  BY <1>1, <2>1
  <2>3. Reach(h2, t, 1) = Len(h) - 1 /\ Len(h) - 1 \in Nat  BY <2>2 DEF Reach, Histories
  <2> QED  BY <2>2, <2>3 DEF Alike
<1>4. MemoryOK(h2, t, qs, mem, ver, lost2)  BY <1>1, <1>2, <1>3, MemoryWaits
<1> QED  BY <1>4 DEF t

-----------------------------------------------------------------------------
(* The store *)

\* What a query makes of a write, in terms of what is shown.
LEMMA Effects ==
  ASSUME NEW q, NEW old, NEW new
  PROVE  /\ Effect(q, old, new) \in {"txn", "addDoc", "rmDoc", "none"}
         /\ Effect(q, old, new) = "none" <=> ~Member(q, old) /\ ~Member(q, new)
         /\ Effect(q, old, new) = "txn" <=> Member(q, old) /\ Member(q, new)
         /\ Effect(q, old, new) = "addDoc" <=> ~Member(q, old) /\ Member(q, new)
         /\ Effect(q, old, new) = "rmDoc" <=> Member(q, old) /\ ~Member(q, new)
  BY DEF Effect

\* One write more.
LEMMA Writing ==
  ASSUME Shape, NEW op \in OpShapes, Write(op)
  PROVE  /\ hist \in Histories /\ hist' \in Histories /\ Len(hist') = Len(hist) + 1
         /\ Longer(hist, hist') /\ Wrote(hist', Len(hist), op)
         /\ At(Ver) = hist[Len(hist)] /\ hist'[Len(hist)] = hist[Len(hist)]
         /\ hist[Len(hist)] \in [Docs -> DocShapes]
         /\ hist'[Len(hist) + 1][op.doc] = Apply(op, hist[Len(hist)][op.doc])
         /\ \A d \in Docs : d # op.doc => hist'[Len(hist) + 1][d] = hist[Len(hist)][d]
<1> DEFINE docs == hist[Len(hist)]
           new  == [docs EXCEPT ![op.doc] = Apply(op, @)]
<1>1. hist \in Histories /\ Len(hist) \in Nat \ {0} /\ docs \in [Docs -> DocShapes]
  BY DEF Shape, Histories
<1>2. At(Ver) = docs
  <2>1. Len(hist) - 1 + 1 = Len(hist)  BY <1>1
  <2> QED  BY <2>1 DEF At, Ver
<1>3. op.doc \in Docs /\ docs[op.doc] \in DocShapes  BY <1>1 DEF OpShapes
<1>4. Apply(op, docs[op.doc]) \in DocShapes  BY <1>3, Applying
<1>5. /\ new \in [Docs -> DocShapes] /\ new[op.doc] = Apply(op, docs[op.doc])
      /\ \A d \in Docs : d # op.doc => new[d] = docs[d]
  BY <1>1, <1>3, <1>4
<1>6. hist' = Append(hist, new)  BY <1>2 DEF Write
<1> HIDE DEF new
<1>7. /\ hist' \in Histories /\ Len(hist') = Len(hist) + 1 /\ hist'[Len(hist) + 1] = new
      /\ \A v \in 1 .. Len(hist) : hist'[v] = hist[v]
  BY <1>1, <1>5, <1>6, AppendProperties DEF Histories
<1>8. Longer(hist, hist') /\ hist'[Len(hist)] = docs  BY <1>1, <1>7 DEF Longer
<1>9. Wrote(hist', Len(hist), op)  BY <1>7, <1>8 DEF Wrote, new
<1> QED  BY <1>1, <1>2, <1>5, <1>7, <1>8, <1>9

\* A transaction that is made is a transaction.
LEMMA OpsShape ==
  ASSUME Shape, NEW op, op \in Ops(Kinds) \/ op \in Ops(OwnKinds)
  PROVE  op \in OpShapes
<1>1. issued + 1 \in Nat  BY DEF Shape
<1> QED  BY <1>1 DEF Ops, OpShapes, Mutations

\* Somebody else's transaction is published to the queries that it matters to.
LEMMA StoreTxnIInv ==
  ASSUME IInv, NEW op \in Ops(Kinds), StoreTxn(op)
  PROVE  IInv'
<1> DEFINE old  == hist[Len(hist)][op.doc]
           new  == Apply(op, old)
           msgs == Messages(op, old, new)
           b    == [ver |-> Len(hist), begun |-> FALSE, msgs |-> msgs]
<1>1. Shape /\ op \in OpShapes  BY OpsShape DEF IInv
<1>2. /\ hist \in Histories /\ hist' \in Histories /\ Len(hist') = Len(hist) + 1
      /\ Longer(hist, hist') /\ Wrote(hist', Len(hist), op)
      /\ At(Ver) = hist[Len(hist)] /\ hist'[Len(hist)] = hist[Len(hist)]
      /\ hist[Len(hist)] \in [Docs -> DocShapes]
      /\ hist'[Len(hist) + 1][op.doc] = new
      /\ \A d \in Docs : d # op.doc => hist'[Len(hist) + 1][d] = hist[Len(hist)][d]
  <2>1. Write(op)  BY DEF StoreTxn
  <2> QED  BY <1>1, <2>1, Writing
<1>3. Len(hist) \in Nat \ {0} /\ Len(hist) > 0 /\ Ver + 1 = Len(hist)
  BY <1>1 DEF Shape, Ver
<1>4. op.doc \in Docs /\ old \in DocShapes /\ new \in DocShapes
  BY <1>1, <1>2, Applying DEF OpShapes
<1>5. /\ s2c' = IF DOMAIN msgs = {} THEN s2c ELSE Append(s2c, b)
      /\ astray' = (IF SentTwice(op, msgs) THEN astray \cup {op.doc} ELSE astray)
      /\ issued' = issued + 1
      /\ UNCHANGED <<subbed, c2s, registered, answered, memory, memVer, pending>>
  BY <1>2, <1>3 DEF StoreTxn, Send, Strays
<1>6. /\ DOMAIN msgs = {q \in subbed : Effect(q, old, new) # "none"}
      /\ \A q \in DOMAIN msgs : msgs[q] = [type |-> Effect(q, old, new), op |-> op, doc |-> new]
      /\ msgs = [q \in DOMAIN msgs |-> msgs[q]]
  BY DEF Messages
<1>7. /\ QueueOK(hist, s2c, answered, subbed, astray)
      /\ MemoryOK(hist, s2c, answered, memory, memVer, astray)
      /\ astray \subseteq astray' /\ s2c \in Seq(Batches) /\ memVer \in Nat
  BY <1>1, <1>5 DEF IInv, Shape
<1> HIDE DEF msgs, new
<1>8. CASE DOMAIN msgs = {}
  <2>1. \A q \in subbed : ~Member(q, old) /\ ~Member(q, new)  BY <1>6, <1>8, Effects
  <2>2. Shown(subbed, old) = Shown(subbed, new)  BY <2>1 DEF Shown, MemberOfSome
  <2>3. Alike(hist', subbed, Len(hist) - 1, Len(hist') - 1)
    <3>1. Len(hist) - 1 <= Len(hist') - 1 /\ Len(hist) - 1 + 1 = Len(hist)
          /\ Len(hist') - 1 + 1 = Len(hist) + 1
      BY <1>2, <1>3
    <3>2. \A d \in Docs : Shown(subbed, hist'[Len(hist)][d]) = Shown(subbed, hist'[Len(hist) + 1][d])
      BY <1>2, <2>2
    <3> QED  BY <3>1, <3>2 DEF Alike
  <2>4. QueueOK(hist', s2c, answered, subbed, astray')
    BY <1>2, <1>3, <1>7, <2>3, NothingSent
  <2>5. MemoryOK(hist', s2c, answered, memory, memVer, astray')
    <3>1. ASSUME 1 \notin DOMAIN s2c
          PROVE  Reach(hist', s2c, 1) \in Nat
                 /\ Alike(hist', answered, Len(hist) - 1, Reach(hist', s2c, 1))
      <4>1. Len(s2c) = 0  BY <1>7, <3>1
      <4>2. subbed = answered
        <5>1. Before(s2c, answered, 1) = answered  BY <1>7, BeforeFirst
        <5>2. Len(s2c) + 1 = 1  BY <4>1
        <5> QED  BY <1>7, <5>1, <5>2 DEF QueueOK
      <4>3. Reach(hist', s2c, 1) = Len(hist') - 1  BY <3>1 DEF Reach
      <4> QED  BY <1>2, <1>3, <2>3, <4>2, <4>3
    <3> QED  BY <1>2, <1>3, <1>7, <3>1, MemoryWaits
  <2>6. Shape'
    <3>1. hist' \in Seq([Docs -> DocShapes]) /\ Len(hist') > 0
      BY <1>2, <1>3 DEF Histories
    <3> QED  BY <1>1, <1>5, <1>8, <3>1 DEF Shape
  <2> QED  BY <1>5, <1>8, <2>4, <2>5, <2>6 DEF IInv
<1>9. CASE DOMAIN msgs # {}
  <2>1. subbed \subseteq Queries /\ DOMAIN msgs \subseteq Nat /\ 0 \notin DOMAIN msgs
    BY <1>1, <1>6, CountsAssumption DEF Shape, Queries
  <2>2. b \in Batches
    <3>1. \A q \in DOMAIN msgs : msgs[q] \in MsgShapes
      BY <1>1, <1>4, <1>6, Effects DEF MsgShapes
    <3>2. msgs \in [DOMAIN msgs -> MsgShapes]  BY <1>6, <3>1
    <3>3. DOMAIN msgs \in SUBSET Nat  BY <2>1
    <3>4. msgs \in UNION {[D -> MsgShapes] : D \in SUBSET Nat}  BY <3>2, <3>3
    <3> QED  BY <1>3, <3>4 DEF Batches
  <2>3. ~IsData(b) /\ Brings(b) = {} /\ ~b.begun /\ b.ver = Len(hist) /\ b.msgs = msgs
    BY <2>1 DEF IsData, Brings
  <2> HIDE DEF b
  <2>4. BatchOK(hist', b, subbed, astray')
    <3>1. b.ver \in 1 .. Len(hist') - 1  BY <1>2, <1>3, <2>3
    <3>2. hist'[b.ver][op.doc] = old /\ hist'[b.ver + 1][op.doc] = new
      BY <1>2, <2>3
    <3>3. op.kind = "push" /\ op.doc \notin astray' =>
            \A q, r \in DOMAIN msgs : Turns(msgs[q]) /\ Turns(msgs[r]) => q = r
      BY <1>5 DEF SentTwice, Turns
    <3>4. WriteOK(hist', b, subbed, astray', op)
      BY <1>6, <1>9, <2>3, <3>2, <3>3 DEF WriteOK
    <3> QED  BY <1>1, <1>2, <2>3, <3>1, <3>4 DEF BatchOK
  <2>5. Base(b) = Len(hist) - 1 /\ b.ver = Len(hist') - 1
    BY <1>2, <1>3, <2>3 DEF Base
  <2>6. QueueOK(hist', Append(s2c, b), answered, subbed \cup Brings(b), astray')
    BY <1>2, <1>3, <1>7, <2>2, <2>3, <2>4, <2>5, Sent
  <2>7. s2c' = Append(s2c, b) /\ subbed \cup Brings(b) = subbed
    BY <1>5, <1>9, <2>3
  <2>8. s2c' \in Seq(Batches)  BY <1>7, <2>2, <2>7
  <2>9. MemoryOK(hist', s2c', answered, memory, memVer, astray')
    BY <1>2, <1>3, <1>7, <2>2, <2>3, <2>5, <2>7, <2>8, SentMemory
  <2>10. Shape'
    <3>1. hist' \in Seq([Docs -> DocShapes]) /\ Len(hist') > 0
      BY <1>2, <1>3 DEF Histories
    <3> QED  BY <1>1, <1>5, <2>8, <3>1 DEF Shape
  <2> QED  BY <1>5, <2>6, <2>7, <2>9, <2>10 DEF IInv
<1> QED  BY <1>8, <1>9

\* The store acknowledges a transaction of the model.
LEMMA OwnTxnIInv ==
  ASSUME IInv, NEW op \in OpShapes, OwnTxn(op), c2s' \in Seq(Requests),
         \A k \in DOMAIN c2s' : c2s'[k].type = "subscribe" => c2s'[k].query \in registered,
         UNCHANGED <<registered, answered, memory, memVer, pending, issued>>
  PROVE  IInv'
<1> DEFINE old  == hist[Len(hist)][op.doc]
           new  == Apply(op, old)
           msgs == [i \in {0} |-> [type |-> "txnOk", op |-> op]]
           b    == [ver |-> Len(hist), begun |-> FALSE, msgs |-> msgs]
<1>1. Shape  BY DEF IInv
<1>2. /\ hist \in Histories /\ hist' \in Histories /\ Len(hist') = Len(hist) + 1
      /\ Longer(hist, hist') /\ Wrote(hist', Len(hist), op)
      /\ At(Ver) = hist[Len(hist)] /\ hist'[Len(hist)] = hist[Len(hist)]
      /\ hist'[Len(hist) + 1][op.doc] = new
  <2>1. Write(op)  BY DEF OwnTxn
  <2> QED  BY <1>1, <2>1, Writing
<1>3. Len(hist) \in Nat \ {0} /\ Len(hist) > 0 /\ Ver + 1 = Len(hist)
  BY <1>1 DEF Shape, Ver
<1>4. DOMAIN msgs = {0} /\ msgs[0] = [type |-> "txnOk", op |-> op]  OBVIOUS
<1>5. /\ s2c' = Append(s2c, b) /\ subbed' = subbed
      /\ astray' = (IF AuthorAlone(op, old, new) THEN astray \cup {op.doc} ELSE astray)
  BY <1>2, <1>3 DEF OwnTxn, Send, Strays
<1>6. /\ QueueOK(hist, s2c, answered, subbed, astray)
      /\ MemoryOK(hist, s2c, answered, memory, memVer, astray)
      /\ astray \subseteq astray' /\ s2c \in Seq(Batches) /\ memVer \in Nat
  BY <1>1, <1>5 DEF IInv, Shape
<1>7. b \in Batches
  <2>1. msgs[0] \in MsgShapes  BY DEF MsgShapes
  <2>2. msgs \in [{0} -> MsgShapes] /\ {0} \in SUBSET Nat  BY <2>1
  <2>3. msgs \in UNION {[D -> MsgShapes] : D \in SUBSET Nat}  BY <2>2
  <2> QED  BY <1>3, <2>3 DEF Batches
<1> HIDE DEF msgs, new
<1>8. ~IsData(b) /\ Brings(b) = {} /\ ~b.begun /\ b.ver = Len(hist) /\ b.msgs = msgs
  BY <1>4 DEF IsData, Brings
<1> HIDE DEF b
<1>9. BatchOK(hist', b, subbed, astray')
  <2>1. b.ver \in 1 .. Len(hist') - 1  BY <1>2, <1>3, <1>8
  <2>2. hist'[b.ver][op.doc] = old /\ hist'[b.ver + 1][op.doc] = new
    BY <1>2, <1>8
  <2>3. op.doc \notin astray' => ~Alone(subbed, op, old, new)
    BY <1>5 DEF AuthorAlone, Alone
  <2>4. AckOK(hist', b, subbed, astray', op)
    BY <1>4, <1>8, <2>2, <2>3 DEF AckOK
  <2> QED  BY <1>2, <1>8, <2>1, <2>4 DEF BatchOK
<1>10. Base(b) = Len(hist) - 1 /\ b.ver = Len(hist') - 1
  BY <1>2, <1>3, <1>8 DEF Base
<1>11. QueueOK(hist', Append(s2c, b), answered, subbed \cup Brings(b), astray')
  BY <1>2, <1>3, <1>6, <1>7, <1>8, <1>9, <1>10, Sent
<1>12. subbed \cup Brings(b) = subbed  BY <1>8
<1>13. s2c' \in Seq(Batches)  BY <1>5, <1>6, <1>7
<1>14. MemoryOK(hist', s2c', answered, memory, memVer, astray')
  BY <1>2, <1>3, <1>5, <1>6, <1>7, <1>8, <1>10, SentMemory
<1>15. Shape'
  <2>1. hist' \in Seq([Docs -> DocShapes]) /\ Len(hist') > 0
    BY <1>2, <1>3 DEF Histories
  <2> QED  BY <1>1, <1>5, <1>13, <2>1 DEF Shape
<1> QED  BY <1>5, <1>11, <1>12, <1>14, <1>15 DEF IInv

\* The store answers a subscription.
LEMMA OnSubscribeIInv ==
  ASSUME IInv, NEW q \in registered, OnSubscribe(q), c2s' \in Seq(Requests),
         \A k \in DOMAIN c2s' : c2s'[k].type = "subscribe" => c2s'[k].query \in registered,
         UNCHANGED <<registered, answered, memory, memVer, pending, issued>>
  PROVE  IInv'
<1> DEFINE docs == hist[Len(hist)]
           data == [d \in {d \in Docs : Member(q, docs[d])} |-> docs[d]]
           msg  == [type |-> "subData", query |-> q, docs |-> data]
           msgs == [i \in {0} |-> msg]
           b    == [ver |-> Len(hist) - 1, begun |-> FALSE, msgs |-> msgs]
<1>1. Shape /\ q \in Queries  BY DEF IInv, Shape
<1>2. /\ Len(hist) \in Nat \ {0} /\ Len(hist) > 0 /\ Ver = Len(hist) - 1 /\ At(Ver) = docs
      /\ hist \in Histories /\ Longer(hist, hist) /\ docs \in [Docs -> DocShapes]
  <2>1. hist \in Histories /\ Len(hist) \in Nat \ {0} /\ Len(hist) > 0 /\ docs \in [Docs -> DocShapes]
    BY <1>1 DEF Shape, Histories
  <2>2. Len(hist) - 1 + 1 = Len(hist)  BY <2>1
  <2> QED  BY <2>1, <2>2 DEF Ver, At, Longer
<1>3. DOMAIN msgs = {0} /\ msgs[0] = msg  OBVIOUS
<1>4. /\ s2c' = Append(s2c, b) /\ subbed' = subbed \cup {q}
      /\ UNCHANGED <<hist, astray>>
  BY <1>2, <1>3 DEF OnSubscribe, Send
<1>5. /\ QueueOK(hist, s2c, answered, subbed, astray)
      /\ MemoryOK(hist, s2c, answered, memory, memVer, astray)
      /\ s2c \in Seq(Batches) /\ memVer \in Nat
  BY <1>1 DEF IInv, Shape
<1>6. b \in Batches
  <2>1. data \in [{d \in Docs : Member(q, docs[d])} -> DocShapes]  BY <1>2
  <2>2. data \in UNION {[D -> DocShapes] : D \in SUBSET Docs}  BY <2>1
  <2> HIDE DEF data
  <2>3. msg \in MsgShapes  BY <1>1, <2>2 DEF MsgShapes
  <2> HIDE DEF msg
  <2>4. msgs \in [{0} -> MsgShapes] /\ {0} \in SUBSET Nat  BY <2>3
  <2>5. msgs \in UNION {[D -> MsgShapes] : D \in SUBSET Nat}  BY <2>4
  <2> HIDE DEF msgs
  <2>6. Len(hist) - 1 \in Nat  BY <1>2
  <2> QED  BY <2>5, <2>6 DEF Batches
<1>7. msg.type = "subData" /\ msg.query = q /\ msg.docs = data  OBVIOUS
<1> HIDE DEF msgs, msg
<1>8. b.msgs = msgs /\ ~b.begun /\ b.ver = Len(hist) - 1  OBVIOUS
<1> HIDE DEF b
<1>9. IsData(b) /\ Brings(b) = {q}
  BY <1>1, <1>3, <1>7, <1>8 DEF IsData, Brings
<1>10. BatchOK(hist, b, subbed, astray)
  <2>1. hist[b.ver + 1] = docs /\ b.ver \in 0 .. Len(hist) - 1
    <3>1. b.ver + 1 = Len(hist)  BY <1>2, <1>8
    <3> QED  BY <1>2, <1>8, <3>1
  <2>2. DataOK(hist, b)  BY <1>1, <1>3, <1>7, <1>8, <2>1 DEF DataOK
  <2> QED  BY <1>8, <1>9, <2>2 DEF BatchOK
<1>11. Base(b) = Len(hist) - 1  BY <1>8, <1>9 DEF Base
<1>12. QueueOK(hist, Append(s2c, b), answered, subbed \cup Brings(b), astray)
  BY <1>2, <1>5, <1>6, <1>8, <1>10, <1>11, Sent
<1>13. s2c' \in Seq(Batches)  BY <1>4, <1>5, <1>6
<1>14. MemoryOK(hist, s2c', answered, memory, memVer, astray)
  BY <1>2, <1>4, <1>5, <1>6, <1>8, <1>11, SentMemory
<1>15. Shape'  BY <1>1, <1>4, <1>13 DEF Shape
<1> QED  BY <1>4, <1>9, <1>12, <1>14, <1>15 DEF IInv

\* The store takes a transaction or a subscription of the model.
LEMMA StoreReceiveIInv == IInv /\ StoreReceive => IInv'
<1> SUFFICES ASSUME IInv, StoreReceive PROVE IInv'  OBVIOUS
<1>1. /\ c2s \in Seq(Requests) /\ c2s # << >>
      /\ \A k \in DOMAIN c2s : c2s[k].type = "subscribe" => c2s[k].query \in registered
  BY DEF IInv, Shape, StoreReceive
<1>2. /\ Len(c2s) \in Nat \ {0} /\ DOMAIN c2s = 1 .. Len(c2s) /\ Head(c2s) = c2s[1]
      /\ Tail(c2s) \in Seq(Requests) /\ DOMAIN Tail(c2s) = 1 .. Len(c2s) - 1
      /\ \A k \in 1 .. Len(c2s) - 1 : Tail(c2s)[k] = c2s[k + 1]
  BY <1>1, HeadTailProperties, EmptySeq
<1>3. /\ c2s' = Tail(c2s)
      /\ UNCHANGED <<registered, answered, memory, memVer, pending, issued>>
  BY DEF StoreReceive
<1>4. \A k \in DOMAIN c2s' : c2s'[k].type = "subscribe" => c2s'[k].query \in registered
  <2>1. \A k \in DOMAIN c2s' : k + 1 \in DOMAIN c2s /\ c2s'[k] = c2s[k + 1]
    BY <1>2, <1>3
  <2> QED  BY <1>1, <2>1
<1>5. c2s' \in Seq(Requests) /\ c2s[1] \in Requests /\ 1 \in DOMAIN c2s
  BY <1>1, <1>2, <1>3
<1>6. CASE Head(c2s).type = "txn" /\ OwnTxn(Head(c2s).op)
  <2>1. c2s[1].op \in OpShapes  BY <1>2, <1>5, <1>6 DEF Requests
  <2> QED  BY <1>2, <1>3, <1>4, <1>5, <1>6, <2>1, OwnTxnIInv
<1>7. CASE Head(c2s).type = "subscribe" /\ OnSubscribe(Head(c2s).query)
  <2>1. c2s[1].query \in registered  BY <1>1, <1>2, <1>5, <1>7
  <2> QED  BY <1>2, <1>3, <1>4, <1>5, <1>7, <2>1, OnSubscribeIInv
<1> QED  BY <1>6, <1>7 DEF StoreReceive

-----------------------------------------------------------------------------
(* The model *)

\* What the first batch is when a message of it is taken.
LEMMA HeadBatch ==
  ASSUME IInv, ClientReceive
  PROVE  /\ s2c \in Seq(Batches) /\ Len(s2c) > 0 /\ Head(s2c) = s2c[1] /\ 1 \in DOMAIN s2c
         /\ s2c[1] \in Batches /\ Tail(s2c) \in Seq(Batches)
         /\ hist \in Histories /\ Len(hist) > 0
         /\ BatchOK(hist, s2c[1], answered, astray)
         /\ UNCHANGED <<hist, subbed, c2s, registered, issued>>
<1>1. s2c \in Seq(Batches) /\ s2c # << >> /\ hist \in Histories /\ Len(hist) > 0
  BY DEF IInv, Shape, ClientReceive, Histories
<1>2. /\ Len(s2c) > 0 /\ Head(s2c) = s2c[1] /\ 1 \in DOMAIN s2c /\ s2c[1] \in Batches
      /\ Tail(s2c) \in Seq(Batches)
  BY <1>1, EmptySeq, HeadTailProperties
<1>3. Before(s2c, answered, 1) = answered  BY <1>1, BeforeFirst
<1>4. BatchOK(hist, s2c[1], answered, astray)  BY <1>2, <1>3 DEF IInv, QueueOK
<1> QED  BY <1>1, <1>2, <1>4 DEF ClientReceive

\* A batch of one message is taken at once.
LEMMA OnlyMessage ==
  ASSUME IInv, ClientReceive, DOMAIN s2c[1].msgs = {0}
  PROVE  /\ Handle(s2c[1].ver, 0, s2c[1].msgs[0]) /\ s2c' = Tail(s2c)
<1>1. Head(s2c) = s2c[1]  BY HeadBatch
<1> QED  BY <1>1 DEF ClientReceive

\* When a batch is through and the memory is at its version, all is in order.
LEMMA Through ==
  ASSUME IInv, ClientReceive, s2c' = Tail(s2c), astray \subseteq astray',
         answered' = answered \cup Brings(s2c[1]), answered' \subseteq registered,
         memory' \in [Docs -> DocShapes], memVer' \in Nat,
         memVer' <= Stamp(s2c[1].ver, 2 * NumQueries),
         \A d \in Docs \ astray' : memory'[d] = Shown(answered', hist[s2c[1].ver + 1][d])
  PROVE  IInv'
<1> DEFINE v == s2c[1].ver
           w == Reach(hist, Tail(s2c), 1)
<1>1. /\ s2c \in Seq(Batches) /\ Len(s2c) > 0 /\ s2c[1] \in Batches
      /\ Tail(s2c) \in Seq(Batches)
      /\ hist \in Histories /\ Len(hist) > 0
      /\ UNCHANGED <<hist, subbed, c2s, registered, issued>>
  BY HeadBatch
<1>2. QueueOK(hist, s2c, answered, subbed, astray)  BY DEF IInv
<1>3. /\ QueueOK(hist, Tail(s2c), answered', subbed, astray')
      /\ w \in 0 .. Len(hist) - 1 /\ Alike(hist, answered', v, w)
      /\ 1 \in DOMAIN Tail(s2c) => ~Tail(s2c)[1].begun
  BY <1>1, <1>2, Finished
<1>4. v \in Nat /\ w \in Nat /\ v <= w  BY <1>1, <1>3 DEF Batches, Alike
<1>5. memVer' <= Stamp(w, 2 * NumQueries)
  <2>1. 2 * NumQueries \in 0 .. 2 * NumQueries  BY CountsAssumption
  <2>2. /\ Stamp(v, 2 * NumQueries) \in Nat /\ Stamp(w, 2 * NumQueries) \in Nat
        /\ Stamp(v, 2 * NumQueries) <= Stamp(w, 2 * NumQueries)
    BY <1>4, <2>1, Stamps
  <2> QED  BY <2>2
<1>6. \A d \in Docs \ astray' : memory'[d] = Shown(answered', hist[w + 1][d])
  BY <1>3 DEF Alike
<1> HIDE DEF w
<1>7. \A x : ~BegunWith(Tail(s2c), x)  BY <1>3 DEF BegunWith
<1>8. MemoryOK(hist, Tail(s2c), answered', memory', memVer', astray')
  BY <1>3, <1>5, <1>6 DEF MemoryOK, w
<1>9. Shape'
  <2>1. Shape  BY DEF IInv
  <2> QED  BY <1>1, <2>1 DEF Shape
<1> QED  BY <1>1, <1>3, <1>8, <1>9 DEF IInv

\* The answer to a subscription.
LEMMA DataTaken ==
  ASSUME IInv, ClientReceive, IsData(s2c[1])
  PROVE  IInv'
<1> DEFINE b == s2c[1]
           q == b.msgs[0].query
           v == b.ver
<1>1. /\ s2c \in Seq(Batches) /\ Len(s2c) > 0 /\ 1 \in DOMAIN s2c /\ b \in Batches
      /\ hist \in Histories /\ Len(hist) > 0
      /\ BatchOK(hist, b, answered, astray)
  BY HeadBatch
<1>2. DOMAIN b.msgs = {0} /\ b.msgs[0].type = "subData"  BY DEF IsData
<1>3. ~b.begun /\ DataOK(hist, b)
  <2>1. ASSUME NEW op, AckOK(hist, b, answered, astray, op) PROVE FALSE
    BY <1>2, <2>1 DEF AckOK
  <2>2. ASSUME NEW op, WriteOK(hist, b, answered, astray, op) PROVE FALSE
    BY <1>2, <2>2, Effects DEF WriteOK
  <2> QED  BY <1>1, <2>1, <2>2 DEF BatchOK
<1>4. OnSubData(b.msgs[0], v) /\ s2c' = Tail(s2c)
  BY <1>2, OnlyMessage DEF Handle
<1>5. /\ q \in Queries /\ v \in 0 .. Len(hist) - 1
      /\ b.msgs[0].docs = [d \in {d \in Docs : Member(q, hist[v + 1][d])} |-> hist[v + 1][d]]
  BY <1>3 DEF DataOK
<1>6. Brings(b) = {q}  BY <1>5 DEF Brings, IsData
<1>7. answered' = answered \cup {q} /\ astray' = astray  BY <1>4 DEF OnSubData
<1>8. answered' \subseteq registered
  <2>1. subbed = Before(s2c, answered, Len(s2c) + 1)  BY DEF IInv, QueueOK
  <2>2. q \in subbed
    <3>1. 1 < Len(s2c) + 1  BY <1>1
    <3> QED  BY <1>1, <1>5, <2>1, <3>1 DEF Before
  <2> QED  BY <1>7, <2>2 DEF IInv, Shape
<1>9. hist[v + 1] \in [Docs -> DocShapes] /\ v \in Nat
  BY <1>1, <1>5 DEF Histories
<1>10. \A d \in Docs :
          memory'[d] = IF Member(q, hist[v + 1][d]) THEN hist[v + 1][d] ELSE memory[d]
  BY <1>4, <1>5 DEF OnSubData, With
<1>11. memory' \in [Docs -> DocShapes]
  <2>1. memory' = [d \in Docs |-> IF Member(q, hist[v + 1][d]) THEN hist[v + 1][d] ELSE memory[d]]
    BY <1>4, <1>5 DEF OnSubData, With
  <2> QED  BY <1>9, <2>1 DEF IInv, Shape
<1>12. /\ \A d \in Docs \ astray : memory[d] = Shown(answered, hist[v + 1][d])
       /\ memVer <= Stamp(v, 2 * NumQueries)
  <2>1. Reach(hist, s2c, 1) = v  BY <1>1 DEF Reach, Base
  <2>2. \A d : ~BegunWith(s2c, d)  BY <1>3 DEF BegunWith
  <2> QED  BY <1>1, <1>3, <2>1, <2>2 DEF IInv, MemoryOK
<1>13. \A d \in Docs \ astray' : memory'[d] = Shown(answered', hist[v + 1][d])
  <2> SUFFICES ASSUME NEW d \in Docs \ astray
               PROVE  memory'[d] = Shown(answered \cup {q}, hist[v + 1][d])
    BY <1>7
  <2>1. Shown(answered \cup {q}, hist[v + 1][d]) =
          IF Member(q, hist[v + 1][d]) THEN hist[v + 1][d] ELSE Shown(answered, hist[v + 1][d])
    BY ShowingMore
  <2> QED  BY <1>10, <1>12, <2>1
<1>14. memVer' \in Nat /\ memVer' <= Stamp(v, 2 * NumQueries)
  <2>1. 0 \in 0 .. 2 * NumQueries /\ 2 * NumQueries \in 0 .. 2 * NumQueries
    BY CountsAssumption
  <2>2. /\ Stamp(v, 0) \in Nat /\ Stamp(v, 2 * NumQueries) \in Nat
        /\ 0 < 2 * NumQueries => Stamp(v, 0) < Stamp(v, 2 * NumQueries)
    BY <1>9, <2>1, Stamps
  <2>3. 2 * NumQueries = 0 => Stamp(v, 0) = Stamp(v, 2 * NumQueries)  OBVIOUS
  <2>4. Stamp(v, 0) <= Stamp(v, 2 * NumQueries)  BY <2>1, <2>2, <2>3, CountsAssumption
  <2>5. memVer' = memVer \/ memVer' = Stamp(v, 0)  BY <1>4 DEF OnSubData
  <2>6. memVer \in Nat  BY DEF IInv, Shape
  <2> QED  BY <1>12, <2>2, <2>4, <2>5, <2>6
<1> QED  BY <1>4, <1>6, <1>7, <1>8, <1>11, <1>13, <1>14, Through

\* Before a write is taken, the memory is at the version before it.
LEMMA BeforeWrite ==
  ASSUME IInv, ClientReceive, ~IsData(s2c[1]), ~s2c[1].begun, s2c[1].ver \in Nat \ {0}
  PROVE  /\ \A d \in Docs \ astray : memory[d] = Shown(answered, hist[s2c[1].ver][d])
         /\ \A r \in 0 .. 2 * NumQueries : memVer < Stamp(s2c[1].ver, r)
<1> DEFINE v == s2c[1].ver
<1>1. 1 \in DOMAIN s2c  BY HeadBatch
<1>2. Reach(hist, s2c, 1) = v - 1 /\ v - 1 \in Nat /\ v - 1 + 1 = v
  BY <1>1 DEF Reach, Base
<1>3. \A d : ~BegunWith(s2c, d)  BY DEF BegunWith
<1>4. MemoryOK(hist, s2c, answered, memory, memVer, astray)  BY DEF IInv
<1>5. memVer <= Stamp(v - 1, 2 * NumQueries)  BY <1>2, <1>4 DEF MemoryOK
<1>6. ASSUME NEW r \in 0 .. 2 * NumQueries PROVE memVer < Stamp(v, r)
  <2>1. 2 * NumQueries \in 0 .. 2 * NumQueries  BY CountsAssumption
  <2>2. v - 1 < v /\ v \in Nat  BY <1>2
  <2>3. /\ Stamp(v - 1, 2 * NumQueries) \in Nat
        /\ Stamp(v - 1, 2 * NumQueries) < Stamp(v, r)
    BY <1>2, <2>1, <2>2, Stamps
  <2>4. Stamp(v, r) \in Nat  BY <2>1, <2>2, Stamps
  <2>5. memVer \in Nat  BY DEF IInv, Shape
  <2> QED  BY <1>5, <2>3, <2>4, <2>5
<1>7. \A d \in Docs \ astray : memory[d] = Shown(answered, hist[v][d])
  BY <1>2, <1>3, <1>4 DEF MemoryOK
<1> QED  BY <1>6, <1>7

\* The acknowledgement of the model's own transaction.
LEMMA AckTaken ==
  ASSUME IInv, ClientReceive, ~s2c[1].begun, s2c[1].ver \in 1 .. Len(hist) - 1,
         NEW op \in OpShapes, Wrote(hist, s2c[1].ver, op),
         AckOK(hist, s2c[1], answered, astray, op)
  PROVE  IInv'
<1> DEFINE b == s2c[1]
           v == b.ver
           d == op.doc
<1>1. hist \in Histories /\ Len(hist) > 0 /\ Len(hist) \in Nat  BY HeadBatch DEF Histories
<1>2. /\ v \in Nat \ {0} /\ v \in DOMAIN hist /\ hist[v] \in [Docs -> DocShapes] /\ d \in Docs
      /\ hist[v][d] \in DocShapes
  BY <1>1 DEF Histories, OpShapes
<1>3. /\ hist[v + 1][d] = Apply(op, hist[v][d])
      /\ \A e \in Docs : e # d => hist[v + 1][e] = hist[v][e]
  BY <1>2 DEF Wrote
<1>4. DOMAIN b.msgs = {0} /\ b.msgs[0].type = "txnOk" /\ b.msgs[0].op = op
  BY DEF AckOK
<1>5. ~IsData(b) /\ Brings(b) = {}  BY <1>4 DEF IsData, Brings
<1>6. OnTxnOk(b.msgs[0], v) /\ answered' = answered /\ s2c' = Tail(s2c)
  BY <1>4, OnlyMessage DEF Handle
<1>7. /\ \A e \in Docs \ astray : memory[e] = Shown(answered, hist[v][e])
      /\ memVer < Stamp(v, 0) /\ Stamp(v, 0) \in Nat
      /\ Stamp(v, 0) <= Stamp(v, 2 * NumQueries)
  <2>1. 0 \in 0 .. 2 * NumQueries /\ 2 * NumQueries \in 0 .. 2 * NumQueries
    BY CountsAssumption
  <2>2. /\ Stamp(v, 0) \in Nat /\ Stamp(v, 2 * NumQueries) \in Nat
        /\ 0 < 2 * NumQueries => Stamp(v, 0) < Stamp(v, 2 * NumQueries)
    BY <1>2, <2>1, Stamps
  <2>3. 2 * NumQueries = 0 => Stamp(v, 0) = Stamp(v, 2 * NumQueries)  OBVIOUS
  <2>4. Stamp(v, 0) <= Stamp(v, 2 * NumQueries)  BY <2>1, <2>2, <2>3, CountsAssumption
  <2> QED  BY <1>2, <1>5, <2>1, <2>2, <2>4, BeforeWrite
<1>8. memory \in [Docs -> DocShapes] /\ Apply(op, memory[d]) \in DocShapes
  BY <1>2, Applying DEF IInv, Shape
<1>9. Put(d, Apply(op, memory[d]), Stamp(v, 0)) /\ astray' = astray
  BY <1>4, <1>6 DEF OnTxnOk, OnTxn
<1>10. /\ memory' \in [Docs -> DocShapes] /\ memVer' = Stamp(v, 0)
       /\ memory'[d] = Apply(op, memory[d])
       /\ \A e \in Docs : e # d => memory'[e] = memory[e]
  BY <1>2, <1>7, <1>8, <1>9, Putting
<1>11. \A e \in Docs \ astray : memory'[e] = Shown(answered, hist[v + 1][e])
  <2> SUFFICES ASSUME NEW e \in Docs \ astray
               PROVE  memory'[e] = Shown(answered, hist[v + 1][e])
    OBVIOUS
  <2>1. CASE e # d
    BY <1>3, <1>7, <1>10, <2>1
  <2>2. CASE e = d
    <3>1. ~Alone(answered, op, hist[v][d], Apply(op, hist[v][d]))
      BY <1>3, <2>2 DEF AckOK
    <3>2. Apply(op, Shown(answered, hist[v][d])) = Shown(answered, Apply(op, hist[v][d]))
      BY <1>2, <3>1, OwnTurn
    <3> QED  BY <1>3, <1>7, <1>10, <2>2, <3>2
  <2> QED  BY <2>1, <2>2
<1>12. answered' = answered \cup Brings(b) /\ answered' \subseteq registered
  BY <1>5, <1>6 DEF IInv, Shape
<1> QED  BY <1>6, <1>7, <1>9, <1>10, <1>11, <1>12, Through

\* What the memory of a document is while the messages msgs of the write op have
\* still to come, if the model is to show new and showed old.
Halfway(op, msgs, old, new, m) ==
  /\ m \in {old, new}
  /\ new # Absent /\ (\A j \in DOMAIN msgs : ~Turns(msgs[j])) => m = new
  /\ op.kind = "push" /\ (\E j \in DOMAIN msgs : Turns(msgs[j])) => m = old

\* Before a message of a write is taken.
LEMMA WriteBefore ==
  ASSUME IInv, ClientReceive, s2c[1].ver \in 1 .. Len(hist) - 1, ~IsData(s2c[1]),
         NEW op \in OpShapes, WriteOK(hist, s2c[1], answered, astray, op)
  PROVE  LET v == s2c[1].ver IN
         /\ \A j \in DOMAIN s2c[1].msgs : memVer < Stamp(v, 2 * j - 1)
         /\ \A e \in Docs \ astray : e # op.doc => memory[e] = Shown(answered, hist[v][e])
         /\ op.doc \notin astray =>
              Halfway(op, s2c[1].msgs, Shown(answered, hist[v][op.doc]),
                      Shown(answered, hist[v + 1][op.doc]), memory[op.doc])
<1> DEFINE b == s2c[1]
           v == b.ver
           d == op.doc
           old == hist[v][d]
           new == hist[v + 1][d]
<1>1. v \in Nat \ {0} /\ d \in Docs /\ DOMAIN b.msgs # {} /\ 1 \in DOMAIN s2c
      /\ DOMAIN b.msgs \subseteq answered /\ answered \subseteq Queries
  BY HeadBatch DEF WriteOK, IInv, Shape, OpShapes
<1>2. \A j \in DOMAIN b.msgs : b.msgs[j].op = op /\ b.msgs[j].type = Effect(j, old, new)
  BY DEF WriteOK
<1>3. MemoryOK(hist, s2c, answered, memory, memVer, astray)  BY DEF IInv
<1>4. CASE b.begun
  <2>1. BegunOK(hist, b, answered, memory, memVer, astray)
    BY <1>1, <1>3, <1>4 DEF MemoryOK
  <2>2. PICK i \in DOMAIN b.msgs : TRUE  BY <1>1
  <2>3. d \notin astray =>
           Halfway(op, b.msgs, Shown(answered, old), Shown(answered, new), memory[d])
    BY <1>2, <2>1, <2>2 DEF BegunOK, Halfway
  <2>4. \A j \in DOMAIN b.msgs : memVer < Stamp(v, 2 * j - 1)  BY <2>1 DEF BegunOK
  <2>5. \A e \in Docs : e # d => ~BegunWith(s2c, e)  BY <1>2 DEF BegunWith
  <2>6. Reach(hist, s2c, 1) + 1 = v  BY <1>1 DEF Reach, Base
  <2>7. \A e \in Docs \ astray : e # d => memory[e] = Shown(answered, hist[v][e])
    BY <1>3, <2>5, <2>6 DEF MemoryOK
  <2> QED  BY <2>3, <2>4, <2>7
<1>5. CASE ~b.begun
  <2>1. /\ \A e \in Docs \ astray : memory[e] = Shown(answered, hist[v][e])
        /\ \A r \in 0 .. 2 * NumQueries : memVer < Stamp(v, r)
    BY <1>1, <1>5, BeforeWrite
  <2>2. \A j \in DOMAIN b.msgs : 2 * j - 1 \in 0 .. 2 * NumQueries
    <3>1. \A q \in Queries : 2 * q - 1 \in 0 .. 2 * NumQueries
      BY CountsAssumption DEF Queries
    <3> QED  BY <1>1, <3>1
  <2>3. ASSUME Shown(answered, new) # Absent, \A j \in DOMAIN b.msgs : ~Turns(b.msgs[j])
        PROVE  FALSE
    <3>1. PICK q \in answered : Member(q, new)
      BY <2>3, Showing DEF MemberOfSome
    <3>2. Effect(q, old, new) \in {"txn", "addDoc"}  BY <3>1, Effects
    <3>3. q \in DOMAIN b.msgs  BY <1>5, <3>2 DEF WriteOK
    <3> QED  BY <1>2, <2>3, <3>2, <3>3 DEF Turns
  <2>4. d \notin astray =>
           Halfway(op, b.msgs, Shown(answered, old), Shown(answered, new), memory[d])
    BY <1>1, <2>1, <2>3 DEF Halfway
  <2> QED  BY <2>1, <2>2, <2>4
<1> QED  BY <1>4, <1>5

\* The message i of a write is taken: the model shows what it is to show, or
\* another query keeps the document as it is.
LEMMA WriteStep ==
  ASSUME IInv, ClientReceive, s2c[1].ver \in 1 .. Len(hist) - 1, ~IsData(s2c[1]),
         NEW op \in OpShapes, Wrote(hist, s2c[1].ver, op),
         WriteOK(hist, s2c[1], answered, astray, op),
         NEW i \in DOMAIN s2c[1].msgs, Handle(s2c[1].ver, i, s2c[1].msgs[i])
  PROVE  LET v == s2c[1].ver
             old == Shown(answered, hist[v][op.doc])
             new == Shown(answered, hist[v + 1][op.doc])
         IN
         /\ memory' \in [Docs -> DocShapes] /\ memVer' \in Nat
         /\ memVer' <= Stamp(v, 2 * i) /\ memVer' <= Stamp(v, 2 * NumQueries)
         /\ answered' = answered /\ astray \subseteq astray'
         /\ \A e \in Docs \ astray' : e # op.doc =>
              memory'[e] = Shown(answered, hist[v][e])
         /\ op.doc \notin astray' =>
              \/ (Turns(s2c[1].msgs[i]) \/ new = Absent) /\ memory'[op.doc] = new
              \/ ~Turns(s2c[1].msgs[i]) /\ new # Absent /\ memory'[op.doc] = memory[op.doc]
<1> DEFINE b == s2c[1]
           v == b.ver
           d == op.doc
           msg == b.msgs[i]
           old == hist[v][d]
           new == hist[v + 1][d]
           m == memory[d]
           m2 == memory'[d]
<1>1. /\ hist \in Histories /\ Len(hist) \in Nat /\ b \in Batches /\ Shape
  BY HeadBatch DEF Histories, IInv
<1>2. /\ v \in Nat \ {0} /\ v \in DOMAIN hist /\ d \in Docs /\ old \in DocShapes
  BY <1>1 DEF Histories, OpShapes
<1>3. new = Apply(op, old) /\ new \in DocShapes
  <2>1. hist[v] \in [Docs -> DocShapes]  BY <1>1, <1>2 DEF Histories
  <2>2. new = Apply(op, old)  BY <1>2, <2>1 DEF Wrote
  <2> QED  BY <1>2, <2>2, Applying
<1>4. /\ i \in answered /\ i \in Queries /\ i \in 1 .. NumQueries
      /\ msg.type = Effect(i, old, new) /\ msg.type # "none" /\ msg.op = op /\ msg.doc = new
  BY <1>1 DEF WriteOK, Shape, Queries
<1>5. msg \in WriteMsg
  <2>1. msg \in MsgShapes  BY <1>1 DEF Batches
  <2>2. msg.type \in {"txn", "addDoc", "rmDoc"}  BY <1>4, Effects
  <2> QED  BY <2>1, <2>2 DEF MsgShapes, WriteMsg
<1>6. /\ memVer < Stamp(v, 2 * i - 1)
      /\ \A e \in Docs \ astray : e # d => memory[e] = Shown(answered, hist[v][e])
      /\ d \notin astray => Halfway(op, b.msgs, Shown(answered, old), Shown(answered, new), m)
  BY WriteBefore
<1>7. /\ memory' \in [Docs -> DocShapes]
      /\ memVer' \in {memVer, Stamp(v, 2 * i - 1), Stamp(v, 2 * i)}
      /\ answered' = answered
      /\ astray \subseteq astray' /\ astray' \subseteq astray \cup {d}
      /\ \A e \in Docs : e # d => memory'[e] = memory[e]
      /\ Took(i, msg, astray', m, m2)
  <2>1. v \in Nat  BY <1>2
  <2> QED  BY <1>1, <1>4, <1>5, <1>6, <2>1, Taking
<1>8. /\ memVer' \in Nat /\ memVer' <= Stamp(v, 2 * i)
      /\ memVer' <= Stamp(v, 2 * NumQueries)
  <2>1. /\ 2 * i - 1 \in 0 .. 2 * NumQueries /\ 2 * i \in 0 .. 2 * NumQueries
        /\ 2 * NumQueries \in 0 .. 2 * NumQueries /\ 2 * i - 1 < 2 * i
        /\ 2 * i <= 2 * NumQueries
    BY <1>4, CountsAssumption
  <2>2. v \in Nat  BY <1>2
  <2>3. Stamp(v, 2 * i - 1) \in Nat /\ Stamp(v, 2 * i - 1) < Stamp(v, 2 * i)
    BY <2>1, <2>2, Stamps
  <2>4. /\ Stamp(v, 2 * i) \in Nat /\ Stamp(v, 2 * NumQueries) \in Nat
        /\ 2 * i < 2 * NumQueries => Stamp(v, 2 * i) < Stamp(v, 2 * NumQueries)
    BY <2>1, <2>2, Stamps
  <2>5. 2 * i = 2 * NumQueries => Stamp(v, 2 * i) = Stamp(v, 2 * NumQueries)  OBVIOUS
  <2>6. Stamp(v, 2 * i) <= Stamp(v, 2 * NumQueries)
    <3>1. 2 * i < 2 * NumQueries \/ 2 * i = 2 * NumQueries  BY <1>4, CountsAssumption
    <3> QED  BY <2>4, <2>5, <3>1
  <2>7. memVer \in Nat  BY <1>1 DEF Shape
  <2> QED  BY <1>6, <1>7, <2>3, <2>4, <2>6, <2>7
<1>9. \A e \in Docs \ astray' : e # d => memory'[e] = Shown(answered, hist[v][e])
  BY <1>6, <1>7
<1>10. ASSUME d \notin astray'
       PROVE  \/ (Turns(msg) \/ Shown(answered, new) = Absent) /\ m2 = Shown(answered, new)
              \/ ~Turns(msg) /\ Shown(answered, new) # Absent /\ m2 = m
  <2>1. Halfway(op, b.msgs, Shown(answered, old), Shown(answered, new), m)
    BY <1>6, <1>7, <1>10
  <2>2. ASSUME Turns(msg), m # Absent \/ Member(i, old), m2 = Apply(op, m)
        PROVE  m2 = Shown(answered, new)
    <3>1. Member(i, new)  BY <1>4, <2>2, Effects DEF Turns
    <3>2. m \in {Shown(answered, old), Shown(answered, new)}
          /\ (op.kind = "push" => m = Shown(answered, old))
      BY <2>1, <2>2 DEF Halfway
    <3> QED  BY <1>2, <1>3, <1>4, <2>2, <3>1, <3>2, Turning
  <2>3. CASE msg.type = "txn" /\ m2 = Apply(op, m)
    <3>1. Turns(msg) /\ Member(i, old)  BY <1>4, <2>3, Effects DEF Turns
    <3> QED  BY <2>2, <2>3, <3>1
  <2>4. CASE msg.type = "addDoc" /\ m2 = new
    <3>1. Effect(i, old, new) = "addDoc"  BY <1>4, <2>4
    <3>2. Member(i, new) /\ Turns(msg)  BY <2>4, <3>1, Effects DEF Turns
    <3>3. Shown(answered, new) = new  BY <1>4, <3>2, Showing
    <3> QED  BY <2>4, <3>2, <3>3
  <2>5. CASE msg.type = "addDoc" /\ m2 = Apply(op, m) /\ m # Absent
    BY <2>2, <2>5 DEF Turns
  <2>6. CASE msg.type = "rmDoc" /\ m2 = m /\ MemberOfSome(answered, new)
    BY <2>6, Showing DEF Turns
  <2>7. CASE msg.type = "rmDoc" /\ m2 = Absent /\ ~\E r \in registered \ {i} : Passes(r, new)
    <3>1. ~Member(i, new)  BY <1>4, <2>7, Effects
    <3>2. Shown(answered, new) = Absent
      BY <1>1, <2>7, <3>1, Leaving DEF Shape
    <3> QED  BY <2>7, <3>2
  <2> QED  BY <1>4, <1>7, <1>10, <2>3, <2>4, <2>5, <2>6, <2>7 DEF Took
<1> QED  BY <1>7, <1>8, <1>9, <1>10

\* Somebody else's write: one message of it is taken, the last one or not.
LEMMA WriteTaken ==
  ASSUME IInv, ClientReceive, s2c[1].ver \in 1 .. Len(hist) - 1, ~IsData(s2c[1]),
         NEW op \in OpShapes, Wrote(hist, s2c[1].ver, op),
         WriteOK(hist, s2c[1], answered, astray, op)
  PROVE  IInv'
<1> DEFINE b == s2c[1]
           v == b.ver
           d == op.doc
           old == Shown(answered, hist[v][d])
           new == Shown(answered, hist[v + 1][d])
           rest(i) == [b EXCEPT !.begun = TRUE, !.msgs = [j \in DOMAIN @ \ {i} |-> @[j]]]
<1>1. /\ s2c \in Seq(Batches) /\ Len(s2c) > 0 /\ Head(s2c) = b /\ 1 \in DOMAIN s2c
      /\ b \in Batches /\ Tail(s2c) \in Seq(Batches) /\ Shape
      /\ hist \in Histories /\ Len(hist) > 0 /\ Len(hist) \in Nat
      /\ UNCHANGED <<hist, subbed, c2s, registered, issued>>
  BY HeadBatch DEF Histories, IInv
<1>2. PICK i \in DOMAIN b.msgs :
        /\ \A j \in DOMAIN b.msgs : i <= j
        /\ Handle(v, i, b.msgs[i])
        /\ s2c' = IF DOMAIN b.msgs = {i} THEN Tail(s2c) ELSE <<rest(i)>> \o Tail(s2c)
  BY <1>1 DEF ClientReceive
<1>3. /\ memory' \in [Docs -> DocShapes] /\ memVer' \in Nat
      /\ memVer' <= Stamp(v, 2 * i) /\ memVer' <= Stamp(v, 2 * NumQueries)
      /\ answered' = answered /\ astray \subseteq astray'
      /\ \A e \in Docs \ astray' : e # d => memory'[e] = Shown(answered, hist[v][e])
      /\ d \notin astray' =>
            \/ (Turns(b.msgs[i]) \/ new = Absent) /\ memory'[d] = new
            \/ ~Turns(b.msgs[i]) /\ new # Absent /\ memory'[d] = memory[d]
  BY <1>2, WriteStep
<1>4. d \notin astray' => Halfway(op, b.msgs, old, new, memory[d])
  BY <1>3, WriteBefore
<1>5. /\ v \in Nat \ {0} /\ d \in Docs /\ DOMAIN b.msgs \subseteq Queries
      /\ \A e \in Docs : e # d => hist[v + 1][e] = hist[v][e]
  <2>1. v \in Nat \ {0} /\ v \in DOMAIN hist /\ d \in Docs /\ DOMAIN b.msgs \subseteq Queries
    BY <1>1 DEF Histories, OpShapes, WriteOK, Shape
  <2>2. hist[v] \in [Docs -> DocShapes]  BY <1>1, <2>1 DEF Histories
  <2> QED  BY <2>1, <2>2 DEF Wrote
<1>6. \A j \in DOMAIN b.msgs : b.msgs[j].op = op  BY DEF WriteOK
<1>7. Brings(b) = {}  BY DEF Brings
<1>8. CASE DOMAIN b.msgs = {i}
  <2>1. d \notin astray' => memory'[d] = new
    BY <1>3, <1>4, <1>8 DEF Halfway
  <2>2. \A e \in Docs \ astray' : memory'[e] = Shown(answered', hist[v + 1][e])
    BY <1>3, <1>5, <2>1
  <2>3. answered' = answered \cup Brings(b) /\ answered' \subseteq registered
    BY <1>1, <1>3, <1>7 DEF Shape
  <2> QED  BY <1>2, <1>3, <1>8, <2>2, <2>3, Through
<1>9. CASE DOMAIN b.msgs # {i}
  <2> DEFINE c == rest(i)
             t == <<c>> \o Tail(s2c)
  <2>1. /\ c.ver = v /\ c.begun /\ DOMAIN c.msgs = DOMAIN b.msgs \ {i}
        /\ \A j \in DOMAIN c.msgs : c.msgs[j] = b.msgs[j]
    BY <1>1 DEF Batches
  <2>2. c \in Batches
    <3>1. PICK D \in SUBSET Nat : b.msgs \in [D -> MsgShapes]  BY <1>1 DEF Batches
    <3>2. [j \in DOMAIN b.msgs \ {i} |-> b.msgs[j]] \in [D \ {i} -> MsgShapes]
          /\ D \ {i} \in SUBSET Nat
      BY <3>1
    <3>3. [j \in DOMAIN b.msgs \ {i} |-> b.msgs[j]]
            \in UNION {[E -> MsgShapes] : E \in SUBSET Nat}
      BY <3>2
    <3> QED  BY <1>1, <3>3 DEF Batches
  <2> HIDE DEF c
  <2>3. /\ t \in Seq(Batches) /\ Len(t) = Len(s2c) /\ t[1] = c /\ 1 \in DOMAIN t
        /\ \A j \in 2 .. Len(s2c) : t[j] = s2c[j]
    <3>1. /\ Len(Tail(s2c)) = Len(s2c) - 1 /\ Len(s2c) \in Nat
          /\ \A j \in 1 .. Len(s2c) - 1 : Tail(s2c)[j] = s2c[j + 1]
      BY <1>1, HeadTailProperties, EmptySeq
    <3>2. /\ <<c>> \in Seq(Batches) /\ Len(<<c>>) = 1 /\ <<c>>[1] = c  BY <2>2
    <3>3. /\ t \in Seq(Batches) /\ Len(t) = 1 + (Len(s2c) - 1)
          /\ \A j \in 1 .. Len(t) : t[j] = IF j <= 1 THEN <<c>>[j] ELSE Tail(s2c)[j - 1]
      BY <1>1, <3>1, <3>2, ConcatProperties
    <3> QED  BY <1>1, <3>1, <3>2, <3>3
  <2>4. s2c' = t  BY <1>2, <1>9 DEF c
  <2> HIDE DEF t
  <2>5. DOMAIN c.msgs # {}  BY <1>2, <1>9, <2>1
  <2>6. ~IsData(c)
    <3>1. 0 \notin Queries  BY DEF Queries
    <3> QED  BY <1>5, <2>1, <3>1 DEF IsData
  <2>7. BatchOK(hist, c, answered, astray')
    <3>1. WriteOK(hist, c, answered, astray', op)
      <4>1. \A j \in DOMAIN c.msgs : j \in DOMAIN b.msgs /\ c.msgs[j] = b.msgs[j]
        BY <2>1
      <4> QED  BY <1>3, <2>1, <2>5, <4>1 DEF WriteOK
    <3>2. Wrote(hist, c.ver, op) /\ c.ver \in 1 .. Len(hist) - 1  BY <2>1
    <3> QED  BY <3>1, <3>2 DEF BatchOK
  <2>8. QueueOK(hist, t, answered, subbed, astray')
    <3>1. QueueOK(hist, s2c, answered, subbed, astray)  BY DEF IInv
    <3> QED  BY <1>1, <1>3, <2>1, <2>3, <2>6, <2>7, <3>1, BegunStays
  <2>9. BegunOK(hist, c, answered, memory', memVer', astray')
    <3> SUFFICES ASSUME NEW k \in DOMAIN c.msgs
                 PROVE  /\ memVer' < Stamp(v, 2 * k - 1)
                        /\ d \notin astray' =>
                             /\ memory'[d] \in {old, new}
                             /\ new = Absent \/ (\A j \in DOMAIN c.msgs : ~Turns(c.msgs[j]))
                                  => memory'[d] = new
                             /\ op.kind = "push" /\ (\E j \in DOMAIN c.msgs : Turns(c.msgs[j]))
                                  => memory'[d] = old
      BY <1>6, <2>1 DEF BegunOK
    <3>1. memVer' < Stamp(v, 2 * k - 1)
      <4>1. k \in DOMAIN b.msgs /\ k # i /\ i <= k /\ k \in Queries /\ i \in Queries
        BY <1>2, <1>5, <2>1
      <4>2. 2 * i \in 0 .. 2 * NumQueries /\ 2 * k - 1 \in 0 .. 2 * NumQueries
            /\ 2 * i < 2 * k - 1
        BY <4>1, CountsAssumption DEF Queries
      <4>3. /\ Stamp(v, 2 * i) \in Nat /\ Stamp(v, 2 * k - 1) \in Nat
            /\ Stamp(v, 2 * i) < Stamp(v, 2 * k - 1)
        BY <1>5, <4>2, Stamps
      <4> QED  BY <1>3, <4>3
    <3>2. ASSUME d \notin astray'
          PROVE  /\ memory'[d] \in {old, new}
                 /\ new = Absent \/ (\A j \in DOMAIN c.msgs : ~Turns(c.msgs[j]))
                      => memory'[d] = new
      <4>1. CASE memory'[d] = new  BY <4>1
      <4>2. CASE ~Turns(b.msgs[i]) /\ new # Absent /\ memory'[d] = memory[d]
        <5>1. (\A j \in DOMAIN c.msgs : ~Turns(c.msgs[j]))
                => \A j \in DOMAIN b.msgs : ~Turns(b.msgs[j])
          BY <2>1, <4>2
        <5> QED  BY <1>4, <3>2, <4>2, <5>1 DEF Halfway
      <4> QED  BY <1>3, <3>2, <4>1, <4>2
    <3>3. ASSUME d \notin astray', op.kind = "push", NEW j \in DOMAIN c.msgs, Turns(c.msgs[j])
          PROVE  memory'[d] = old
      <4>1. j \in DOMAIN b.msgs /\ j # i /\ Turns(b.msgs[j])  BY <2>1, <3>3
      <4>2. memory[d] = old  BY <1>4, <3>3, <4>1 DEF Halfway
      <4>3. ~Turns(b.msgs[i])
        BY <1>3, <3>3, <4>1 DEF WriteOK
      <4>4. new # Absent
        <5>1. Effect(j, hist[v][d], hist[v + 1][d]) \in {"txn", "addDoc"} /\ j \in answered
          BY <4>1 DEF WriteOK, Turns
        <5>2. Member(j, hist[v + 1][d])  BY <5>1, Effects
        <5>3. MemberOfSome(answered, hist[v + 1][d])  BY <5>1, <5>2 DEF MemberOfSome
        <5> QED  BY <5>3, Showing
      <4> QED  BY <1>3, <3>3, <4>2, <4>3, <4>4
    <3> QED  BY <3>1, <3>2, <3>3
  <2>10. MemoryOK(hist, t, answered, memory', memVer', astray')
    <3>1. Reach(hist, t, 1) + 1 = v
      BY <1>5, <2>1, <2>3, <2>6 DEF Reach, Base
    <3>2. BegunWith(t, d)
      <4>1. PICK k \in DOMAIN c.msgs : TRUE  BY <2>5
      <4>2. c.msgs[k].op.doc = d  BY <1>6, <2>1, <4>1
      <4> QED  BY <2>1, <2>3, <4>1, <4>2 DEF BegunWith
    <3>3. \A e \in Docs \ astray' : ~BegunWith(t, e) =>
             memory'[e] = Shown(answered, hist[Reach(hist, t, 1) + 1][e])
      BY <1>3, <3>1, <3>2
    <3> QED  BY <2>1, <2>3, <2>9, <3>3 DEF MemoryOK
  <2>11. Shape'  BY <1>1, <1>3, <2>3, <2>4 DEF Shape
  <2> QED  BY <1>1, <1>3, <2>4, <2>8, <2>10, <2>11 DEF IInv
<1> QED  BY <1>8, <1>9

\* A batch that is taken is an answer, an acknowledgement or a write.
LEMMA ClientReceiveIInv == IInv /\ ClientReceive => IInv'
<1> SUFFICES ASSUME IInv, ClientReceive PROVE IInv'  OBVIOUS
<1>1. BatchOK(hist, s2c[1], answered, astray)  BY HeadBatch
<1>2. CASE IsData(s2c[1])  BY <1>2, DataTaken
<1>3. CASE ~IsData(s2c[1])
  <2>1. PICK op \in OpShapes :
           /\ s2c[1].ver \in 1 .. Len(hist) - 1 /\ Wrote(hist, s2c[1].ver, op)
           /\ \/ ~s2c[1].begun /\ AckOK(hist, s2c[1], answered, astray, op)
              \/ WriteOK(hist, s2c[1], answered, astray, op)
    BY <1>1, <1>3 DEF BatchOK
  <2>2. CASE ~s2c[1].begun /\ AckOK(hist, s2c[1], answered, astray, op)
    BY <2>1, <2>2, AckTaken
  <2>3. CASE WriteOK(hist, s2c[1], answered, astray, op)
    BY <1>3, <2>1, <2>3, WriteTaken
  <2> QED  BY <2>1, <2>2, <2>3
<1> QED  BY <1>2, <1>3

-----------------------------------------------------------------------------
(* The invariant *)

\* The model is bundled with what its queries stand for, and nothing is sent.
LEMMA InitIInv == Init => IInv
<1> SUFFICES ASSUME Init PROVE IInv  OBVIOUS
<1>1. PICK docs \in [Docs -> [a : Vals, b : {0}, n : {1}] \cup {Absent}] : hist = <<docs>>
  BY DEF Init
<1>2. /\ docs \in [Docs -> DocShapes] /\ hist \in Seq([Docs -> DocShapes])
      /\ Len(hist) = 1 /\ hist[1] = docs
  BY <1>1 DEF DocShapes
<1>3. /\ subbed = InitSubs /\ registered = InitSubs /\ answered = InitSubs
      /\ c2s = << >> /\ s2c = << >>
      /\ memory = Result(InitSubs, 0) /\ memVer = 0 /\ issued = 0
  BY DEF Init
<1>4. memory = [d \in Docs |-> Shown(InitSubs, docs[d])]
  BY <1>2, <1>3 DEF Result, At, Shown
<1>5. memory \in [Docs -> DocShapes]
  <2>1. Absent \in DocShapes  BY DEF DocShapes
  <2> QED  BY <1>2, <1>4, <2>1 DEF Shown
<1>6. Shape  BY <1>2, <1>3, <1>5, QueriesAssumption DEF Shape
<1>7. s2c \in Seq(Batches) /\ DOMAIN s2c = {} /\ Len(s2c) + 1 = 1
  BY <1>3
<1>8. QueueOK(hist, s2c, answered, subbed, astray)
  <2>1. Before(s2c, answered, Len(s2c) + 1) = answered  BY <1>7, BeforeFirst
  <2> QED  BY <1>3, <1>7, <2>1 DEF QueueOK
<1>9. MemoryOK(hist, s2c, answered, memory, memVer, astray)
  <2>1. Reach(hist, s2c, 1) = 0  BY <1>2, <1>7 DEF Reach
  <2>2. memVer <= Stamp(0, 2 * NumQueries)
    <3>1. 2 * NumQueries \in 0 .. 2 * NumQueries  BY CountsAssumption
    <3>2. Stamp(0, 2 * NumQueries) \in Nat  BY <3>1, Stamps
    <3> QED  BY <1>3, <3>2
  <2> QED  BY <1>2, <1>3, <1>4, <1>7, <2>1, <2>2 DEF MemoryOK
<1> QED  BY <1>6, <1>8, <1>9 DEF IInv

\* What the model asks for is under way, its memory and the queue are as before.
LEMMA AskedIInv ==
  ASSUME IInv, NEW r \in Requests, c2s' = Append(c2s, r),
         registered \subseteq registered', registered' \subseteq Queries,
         r.type = "subscribe" => r.query \in registered', issued' \in Nat,
         UNCHANGED <<hist, subbed, s2c, answered, memory, memVer, astray>>
  PROVE  IInv'
<1>1. Shape  BY DEF IInv
<1>2. /\ Len(c2s) \in Nat /\ DOMAIN c2s = 1 .. Len(c2s)
      /\ c2s' \in Seq(Requests) /\ DOMAIN c2s' = 1 .. Len(c2s) + 1 /\ c2s'[Len(c2s) + 1] = r
      /\ \A k \in 1 .. Len(c2s) : c2s'[k] = c2s[k]
  BY <1>1, AppendProperties DEF Shape
<1>3. \A k \in DOMAIN c2s' : c2s'[k].type = "subscribe" => c2s'[k].query \in registered'
  <2> SUFFICES ASSUME NEW k \in DOMAIN c2s', c2s'[k].type = "subscribe"
               PROVE  c2s'[k].query \in registered'
    OBVIOUS
  <2>1. CASE k = Len(c2s) + 1  BY <1>2, <2>1
  <2>2. CASE k \in DOMAIN c2s  BY <1>1, <1>2, <2>2 DEF Shape
  <2> QED  BY <1>2, <2>1, <2>2
<1>4. Shape'  BY <1>1, <1>2, <1>3 DEF Shape
<1> QED  BY <1>4 DEF IInv

\* The model makes a transaction.
LEMMA CommitIInv ==
  ASSUME IInv, NEW op \in Ops(OwnKinds), Commit(op)
  PROVE  IInv'
<1>1. op \in OpShapes  BY OpsShape DEF IInv
<1>2. [type |-> "txn", op |-> op] \in Requests  BY <1>1 DEF Requests
<1>3. issued' \in Nat /\ registered \subseteq Queries  BY DEF Commit, IInv, Shape
<1> QED  BY <1>2, <1>3, AskedIInv DEF Commit

\* The model asks for a query, which counts as subscribed from then on.
LEMMA SubscribeIInv ==
  ASSUME IInv, NEW q \in Queries, Subscribe(q)
  PROVE  IInv'
<1>1. [type |-> "subscribe", query |-> q] \in Requests  BY DEF Requests
<1>2. /\ issued' \in Nat /\ registered' = registered \cup {q}
      /\ registered \subseteq Queries
  BY DEF Subscribe, IInv, Shape
<1> QED  BY <1>1, <1>2, AskedIInv DEF Subscribe

\* Every step keeps the invariant.
LEMMA NextIInv == IInv /\ [Next]_vars => IInv'
<1> SUFFICES ASSUME IInv, [Next]_vars PROVE IInv'  OBVIOUS
<1>1. CASE UNCHANGED vars  BY <1>1 DEF vars, IInv, Shape
<1>2. ASSUME NEW op \in Ops(Kinds), StoreTxn(op) PROVE IInv'  BY <1>2, StoreTxnIInv
<1>3. ASSUME NEW op \in Ops(OwnKinds), Commit(op) PROVE IInv'  BY <1>3, CommitIInv
<1>4. ASSUME NEW q \in Queries, Subscribe(q) PROVE IInv'  BY <1>4, SubscribeIInv
<1>5. CASE StoreReceive  BY <1>5, StoreReceiveIInv
<1>6. CASE ClientReceive  BY <1>6, ClientReceiveIInv
<1>7. CASE Read  BY <1>7 DEF Read, IInv, Shape
<1> QED  BY <1>1, <1>2, <1>3, <1>4, <1>5, <1>6, <1>7 DEF Next

\* The invariant holds always.
LEMMA AlwaysIInv == Spec => []IInv
  BY InitIInv, NextIInv, PTL DEF Spec

\* Between two versions the memory holds what the model's queries stand for at
\* one version of the store, but for the documents on which the protocol gave up
\* (query.Model.js:69-156).
THEOREM LiveQueryConsistent == Spec => []SnapshotConsistent
<1>1. IInv => SnapshotConsistent
  <2> SUFFICES ASSUME IInv, s2c # << >> => ~Head(s2c).begun, NEW d \in Docs \ astray
               PROVE  memory[d] = Result(answered, Seen)[d]
    BY DEF SnapshotConsistent
  <2>1. /\ s2c \in Seq(Batches) /\ hist \in Histories /\ Len(hist) > 0
        /\ QueueOK(hist, s2c, answered, subbed, astray)
    BY DEF IInv, Shape, Histories
  <2>2. MemoryOK(hist, s2c, answered, memory, memVer, astray)  BY DEF IInv
  <2>3. Seen = Reach(hist, s2c, 1)
    <3>1. CASE s2c = << >>
      BY <3>1 DEF Seen, Reach, Ver
    <3>2. CASE s2c # << >>
      <4>1. 1 \in DOMAIN s2c /\ Head(s2c) = s2c[1]  BY <2>1, <3>2, EmptySeq
      <4>2. BatchOK(hist, s2c[1], answered, astray)
        BY <2>1, <4>1, BeforeFirst DEF QueueOK
      <4>3. (\E i \in DOMAIN s2c[1].msgs : s2c[1].msgs[i].type = "subData") <=> IsData(s2c[1])
        <5>1. ASSUME NEW op, AckOK(hist, s2c[1], answered, astray, op)
              PROVE  ~\E i \in DOMAIN s2c[1].msgs : s2c[1].msgs[i].type = "subData"
          BY <5>1 DEF AckOK
        <5>2. ASSUME NEW op, WriteOK(hist, s2c[1], answered, astray, op)
              PROVE  ~\E i \in DOMAIN s2c[1].msgs : s2c[1].msgs[i].type = "subData"
          BY <5>2, Effects DEF WriteOK
        <5> QED  BY <4>2, <5>1, <5>2 DEF BatchOK, IsData
      <4> QED  BY <3>2, <4>1, <4>3 DEF Seen, Reach, Base
    <3> QED  BY <3>1, <3>2
  <2>4. ~BegunWith(s2c, d)
    <3>1. 1 \in DOMAIN s2c => s2c # << >> /\ Head(s2c) = s2c[1]  BY <2>1
    <3> QED  BY <3>1 DEF BegunWith
  <2>5. memory[d] = Shown(answered, hist[Seen + 1][d])  BY <2>2, <2>3, <2>4 DEF MemoryOK
  <2> QED  BY <2>5 DEF Result, At, Shown
<1> QED  BY <1>1, AlwaysIInv, PTL

\* What leaves the memory in a step is in none of the queries that the model has
\* the data of, at the version that took it away.
LEMMA NoFlicker ==
  ASSUME IInv, Next, NEW d \in Docs, memory[d] # Absent, memory'[d] = Absent
  PROVE  ~MemberOfSome(answered, At(Head(s2c).ver)[d])
<1>1. ClientReceive
  BY DEF Next, StoreTxn, Commit, Subscribe, StoreReceive, Read
<1> DEFINE b == s2c[1]
           v == b.ver
<1>2. /\ Head(s2c) = b /\ b \in Batches /\ BatchOK(hist, b, answered, astray)
      /\ hist \in Histories /\ Shape /\ v \in Nat
  BY <1>1, HeadBatch DEF IInv, Batches
<1>3. PICK i \in DOMAIN b.msgs : Handle(v, i, b.msgs[i])
  BY <1>1, <1>2 DEF ClientReceive
<1>4. CASE IsData(b)
  <2>1. i = 0 /\ b.msgs[0].type = "subData"  BY <1>3, <1>4 DEF IsData
  <2>2. OnSubData(b.msgs[0], v)  BY <1>3, <2>1 DEF Handle
  <2>3. DataOK(hist, b)
    <3>1. ASSUME NEW op, AckOK(hist, b, answered, astray, op) PROVE FALSE
      BY <2>1, <3>1 DEF AckOK
    <3>2. ASSUME NEW op, WriteOK(hist, b, answered, astray, op) PROVE FALSE
      BY <1>4, <3>2, Effects DEF WriteOK, IsData
    <3> QED  BY <1>2, <3>1, <3>2 DEF BatchOK
  <2>4. memory'[d] = IF Member(b.msgs[0].query, hist[v + 1][d]) THEN hist[v + 1][d] ELSE memory[d]
    BY <2>2, <2>3 DEF OnSubData, With, DataOK
  <2> QED  BY <2>4 DEF Member
<1>5. ASSUME ~IsData(b), NEW op \in OpShapes, v \in 1 .. Len(hist) - 1, Wrote(hist, v, op)
      PROVE  /\ op.doc \in Docs /\ hist[v][op.doc] \in DocShapes
             /\ hist[v + 1][op.doc] = Apply(op, hist[v][op.doc])
  <2>1. v \in DOMAIN hist /\ op.doc \in Docs  BY <1>2, <1>5 DEF Histories, OpShapes
  <2>2. hist[v] \in [Docs -> DocShapes]  BY <1>2, <2>1 DEF Histories
  <2> QED  BY <1>5, <2>1, <2>2 DEF Wrote
<1>6. ASSUME ~IsData(b), NEW op \in OpShapes, v \in 1 .. Len(hist) - 1, Wrote(hist, v, op),
             d = op.doc, memory'[d] = Apply(op, memory[d])
      PROVE  ~MemberOfSome(answered, hist[v + 1][d])
  <2>1. memory[d] \in DocShapes  BY <1>2 DEF Shape
  <2>2. op.kind = "del"  BY <1>6, <2>1, Applying
  <2>3. hist[v + 1][d] = Absent  BY <1>5, <1>6, <2>2, Applying
  <2> QED  BY <2>3 DEF MemberOfSome, Member
<1>7. ASSUME ~IsData(b), NEW op \in OpShapes, v \in 1 .. Len(hist) - 1, Wrote(hist, v, op),
             AckOK(hist, b, answered, astray, op), ~b.begun
      PROVE  ~MemberOfSome(answered, hist[v + 1][d])
  <2>1. i = 0 /\ b.msgs[0].type = "txnOk" /\ b.msgs[0].op = op  BY <1>3, <1>7 DEF AckOK
  <2>2. OnTxn(op, Stamp(v, 0))  BY <1>3, <2>1 DEF Handle, OnTxnOk
  <2>3. d = op.doc /\ memory'[d] = Apply(op, memory[d])
    <3>1. op.doc \in Docs  BY DEF OpShapes
    <3>2. memory' = [memory EXCEPT ![op.doc] = Apply(op, memory[op.doc])] \/ memory' = memory
      BY <2>2 DEF OnTxn, Put
    <3> QED  BY <1>2, <3>1, <3>2 DEF Shape
  <2> QED  BY <1>6, <1>7, <2>3
<1>8. ASSUME ~IsData(b), NEW op \in OpShapes, v \in 1 .. Len(hist) - 1, Wrote(hist, v, op),
             WriteOK(hist, b, answered, astray, op)
      PROVE  ~MemberOfSome(answered, hist[v + 1][d])
  <2> DEFINE old == hist[v][op.doc]
             new == hist[v + 1][op.doc]
  <2>1. /\ i \in answered /\ i \in 1 .. NumQueries
        /\ b.msgs[i].type = Effect(i, old, new) /\ b.msgs[i].type # "none"
        /\ b.msgs[i].op = op /\ b.msgs[i].doc = new
    BY <1>2, <1>8 DEF WriteOK, Shape, Queries
  <2>2. b.msgs[i] \in WriteMsg
    <3>1. b.msgs[i] \in MsgShapes  BY <1>2 DEF Batches
    <3>2. b.msgs[i].type \in {"txn", "addDoc", "rmDoc"}  BY <2>1, Effects
    <3> QED  BY <3>1, <3>2 DEF MsgShapes, WriteMsg
  <2>3. memVer < Stamp(v, 2 * i - 1)  BY <1>1, <1>8, WriteBefore
  <2>4. /\ \A e \in Docs : e # op.doc => memory'[e] = memory[e]
        /\ Took(i, b.msgs[i], astray', memory[op.doc], memory'[op.doc])
    BY <1>2, <1>3, <2>1, <2>2, <2>3, Taking
  <2>5. d = op.doc  BY <2>4
  <2>6. CASE memory'[d] = Apply(op, memory[d])  BY <1>6, <1>8, <2>5, <2>6
  <2>7. CASE b.msgs[i].type = "addDoc" /\ memory'[d] = new
    BY <2>5, <2>7 DEF MemberOfSome, Member
  <2>8. CASE b.msgs[i].type = "rmDoc" /\ ~\E r \in registered \ {i} : Passes(r, new)
    <3>1. ~Member(i, new)  BY <2>1, <2>8, Effects
    <3>2. Shown(answered, new) = Absent  BY <1>2, <2>8, <3>1, Leaving DEF Shape
    <3> QED  BY <2>5, <3>2, Showing
  <2> QED  BY <2>1, <2>4, <2>5, <2>6, <2>7, <2>8 DEF Took
<1>9. CASE ~IsData(b)
  BY <1>2, <1>7, <1>8, <1>9 DEF BatchOK, At
<1> QED  BY <1>4, <1>9

\* No document leaves the memory, not even for a moment, while a query that the
\* model has the data of contains it (query.Model.js:120-138).
THEOREM LiveQueryNeverFlickers == Spec => NeverFlickers
<1>1. IInv /\ [Next]_vars =>
        [\A d \in Docs : memory[d] # Absent /\ memory'[d] = Absent
                           => ~MemberOfSome(answered, At(Head(s2c).ver)[d])]_vars
  BY NoFlicker
<1> QED  BY <1>1, AlwaysIInv, PTL DEF Spec, NeverFlickers
=============================================================================
