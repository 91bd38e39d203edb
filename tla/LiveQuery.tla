----------------------------- MODULE LiveQuery -----------------------------
(***************************************************************************)
(* A browser model that follows live queries (src/lib/descriptor/query:    *)
(* QueryHub, QueryNode, query.Model; src/lib/pubSub; descriptor.Model).    *)
(* For each write the hub asks each query whether the document stays,      *)
(* enters or leaves, and tells the subscribers by 'txn', 'addDoc' or       *)
(* 'rmDoc'; the author is told 'txnOk' only.  The model turns these into   *)
(* changes of its memory, which is to be the union of its results.         *)
(*                                                                         *)
(* The connection holds and keeps the order, so that the numbers of the    *)
(* txnApplier are left out (TxnSync has them), and the database answers    *)
(* within the call (TxnPipeline has slower ones).  A query is named by its *)
(* place in the order in which the hub visits its nodes.                   *)
(***************************************************************************)
EXTENDS Integers, Sequences, FiniteSets, SequencesExt

CONSTANTS
  Docs,
  Vals,          \* values of the field that the queries look at
  Unset,         \* the one of a document that was made without it
  Absent,        \* no document
  NoOverlay,     \* the overlay when it is to be built anew
  NumQueries,
  Accepts,       \* [Queries -> what its filter lets pass]; Absent is among it
                 \* if the filter accepts undefined (notEquals does)
  InitSubs,      \* queries subscribed before the model was bundled
  Kinds,         \* [Docs -> the mutations of others]
  OwnKinds,      \* [Docs -> the mutations of the model]
  MaxTxns        \* bound on the number of transactions

Queries == 1 .. NumQueries

ASSUME CountsAssumption == NumQueries \in Nat /\ MaxTxns \in Nat
ASSUME ValuesAssumption ==
  /\ Unset \in Vals /\ Absent \notin Vals
  /\ Absent \notin [a : Vals, b : Nat, n : Nat]
  /\ NoOverlay \notin [Docs -> {"follows", "there", "gone"}]
ASSUME QueriesAssumption ==
  Accepts \in [Queries -> SUBSET (Vals \cup {Absent})] /\ InitSubs \subseteq Queries

Mutations == {"put", "set", "mark", "push", "del"}

ASSUME KindsAssumption ==
  Kinds \in [Docs -> SUBSET Mutations] /\ OwnKinds \in [Docs -> SUBSET Mutations]

VARIABLES
  \* the store
  hist,        \* hist[v + 1]: the documents at version v
  subbed,      \* queries whose channel the model is subscribed to
  \* the network
  c2s, s2c,
  \* the model
  registered,  \* queries tagged 'subs' in its registry
  answered,    \* those of them whose data it has
  memory, memVer,
  made,        \* the memory has an object for the collection
  pending,     \* _txnQueue
  overlay,     \* _specCache: which documents its collection has
  issued,      \* transactions made so far, by anybody
  astray       \* history: documents on which the protocol gave up, see below

vars == <<hist, subbed, c2s, s2c, registered, answered, memory, memVer,
          made, pending, overlay, issued, astray>>

\* a: the field of the queries; b: another field, it holds the number of the
\* transaction that wrote it last; n: the length of a list, with one element at
\* first.
DocRecords == [a : Vals, b : 0 .. MaxTxns, n : 0 .. 1 + MaxTxns * NumQueries]
DocValues == DocRecords \cup {Absent}

At(v) == hist[v + 1]
Ver == Len(hist) - 1

\* A version with the fractions of pseudoVer: the r-th step after version v.
Stamp(v, r) == v * (2 * NumQueries + 1) + r

-----------------------------------------------------------------------------
\* Documents, transactions and filters.

\* lookupSet makes the document that a path implies.
Implied(doc) == IF doc = Absent THEN [a |-> Unset, b |-> 0, n |-> 0] ELSE doc

\* transaction.applyTxn on one document, at the store and in the model.
Apply(op, doc) ==
  CASE op.kind = "put"  -> [a |-> op.val, b |-> op.id, n |-> 0]
    [] op.kind = "set"  -> [Implied(doc) EXCEPT !.a = op.val]
    [] op.kind = "mark" -> [Implied(doc) EXCEPT !.b = op.id]
    [] op.kind = "push" -> [Implied(doc) EXCEPT !.n = @ + 1]
    [] op.kind = "del"  -> Absent

Ops(kinds) ==
  {op \in [doc : Docs, kind : Mutations, val : Vals, id : {issued + 1}] :
     op.kind \in kinds[op.doc] /\ (op.kind \notin {"put", "set"} => op.val = Unset)}

\* The filter of q, called with what it gets: the model does not check whether
\* there is a document, the hub does (Member).
Passes(q, doc) == (IF doc = Absent THEN Absent ELSE doc.a) \in Accepts[q]
Member(q, doc) == doc # Absent /\ Passes(q, doc)
MemberOfSome(qs, doc) == \E q \in qs : Member(q, doc)

\* The data that the queries qs stand for, at version v.
Result(qs, v) ==
  [d \in Docs |-> IF MemberOfSome(qs, At(v)[d]) THEN At(v)[d] ELSE Absent]

Init ==
  /\ \E docs \in [Docs -> [a : Vals, b : {0}, n : {1}] \cup {Absent}] : hist = <<docs>>
  /\ subbed = InitSubs /\ registered = InitSubs /\ answered = InitSubs
  /\ c2s = << >> /\ s2c = << >>
  /\ memory = Result(InitSubs, 0) /\ memVer = 0
  /\ made = (\E d \in Docs : memory[d] # Absent)
  /\ pending = << >> /\ overlay = NoOverlay /\ issued = 0 /\ astray = {}

-----------------------------------------------------------------------------
\* The store.

\* Mutant of Effect: a document that leaves is published as a mutation.
EffectStays(q, old, new) ==
  IF Member(q, old) THEN "txn" ELSE IF Member(q, new) THEN "addDoc" ELSE "none"

\* QueryNode.shouldPublish
Effect(q, old, new) ==
  CASE Member(q, old)  /\ Member(q, new)  -> "txn"
    [] Member(q, old)  /\ ~Member(q, new) -> "rmDoc"
    [] ~Member(q, old) /\ Member(q, new)  -> "addDoc"
    [] ~Member(q, old) /\ ~Member(q, new) -> "none"

\* QueryHub.publish: what the model is sent of somebody else's transaction.
Messages(op, old, new) ==
  [q \in {q \in subbed : Effect(q, old, new) # "none"} |->
     [type |-> Effect(q, old, new), op |-> op, doc |-> new]]

\* What leaves together, by the place of the query; begun: the model has
\* already taken some of it.
Send(v, msgs) ==
  s2c' = IF DOMAIN msgs = {} THEN s2c
         ELSE Append(s2c, [ver |-> v, begun |-> FALSE, msgs |-> msgs])

Write(op) == hist' = Append(hist, [At(Ver) EXCEPT ![op.doc] = Apply(op, @)])

(***************************************************************************)
(* Where the protocol gives up.  A transaction that is not idempotent is   *)
(* sent once for each query that has the document.  An author is not told  *)
(* that a document left its queries, nor given the rest of one that its    *)
(* own transaction brought in.                                             *)
(***************************************************************************)
SentTwice(op, msgs) ==
  op.kind = "push" /\ \E q, r \in DOMAIN msgs :
                        q # r /\ {msgs[q].type, msgs[r].type} \subseteq {"txn", "addDoc"}

AuthorAlone(op, old, new) ==
  \/ new # Absent /\ ~MemberOfSome(subbed, new)
  \/ op.kind \notin {"put", "del"} /\ old # Absent /\ ~MemberOfSome(subbed, old)

Strays(op, lost) == astray' = IF lost THEN astray \cup {op.doc} ELSE astray

\* A transaction of somebody else.
StoreTxn(op) ==
  LET old  == At(Ver)[op.doc]
      msgs == Messages(op, old, Apply(op, old))
  IN /\ Write(op)
     /\ issued' = issued + 1
     /\ Send(Ver + 1, msgs)
     /\ Strays(op, SentTwice(op, msgs))
     /\ UNCHANGED <<subbed, c2s, registered, answered, memory, memVer, made, pending,
                     overlay>>

\* The middleware for a transaction of the model: its author is skipped by all
\* channels and gets the acknowledgement.
OwnTxn(op) ==
  LET old == At(Ver)[op.doc] IN
  /\ Write(op)
  /\ Send(Ver + 1, [i \in {0} |-> [type |-> "txnOk", op |-> op]])
  /\ Strays(op, AuthorAlone(op, old, Apply(op, old)))
  /\ UNCHANGED subbed

\* middleware.subscribe: subscribe to the channel, then fetch and answer.
OnSubscribe(q) ==
  /\ subbed' = subbed \cup {q}
  /\ Send(Ver, [i \in {0} |->
                  [type |-> "subData", query |-> q,
                   docs |-> [d \in {d \in Docs : Member(q, At(Ver)[d])} |-> At(Ver)[d]]]])
  /\ UNCHANGED <<hist, astray>>

StoreReceive ==
  /\ c2s # << >>
  /\ \/ Head(c2s).type = "txn" /\ OwnTxn(Head(c2s).op)
     \/ Head(c2s).type = "subscribe" /\ OnSubscribe(Head(c2s).query)
  /\ c2s' = Tail(c2s)
  /\ UNCHANGED <<registered, answered, memory, memVer, made, pending, overlay, issued>>

-----------------------------------------------------------------------------
\* The model.

(***************************************************************************)
(* The speculative view is the memory with the queue applied on an overlay *)
(* that is kept until one of the queue's transactions is acknowledged.  It *)
(* follows the memory but for the documents that the queue wrote; a del    *)
(* replaces the collection by a clone, in which the documents are those of *)
(* the moment, and a set where there is no collection makes an empty one.  *)
(***************************************************************************)
Overlays == [Docs -> {"follows", "there", "gone"}]

\* Of what the overlay o has when op is applied over the memory docs; there: that
\* has the collection.
Extended(o, op, docs, there) ==
  CASE op.kind # "del" ->
         [d \in Docs |-> IF d = op.doc THEN "there"
                         ELSE IF o[d] # "follows" \/ there THEN o[d] ELSE "gone"]
    [] op.kind = "del" /\ ~there /\ o[op.doc] = "follows" -> o
    [] op.kind = "del" /\ (there \/ o[op.doc] # "follows") ->
         [d \in Docs |-> IF d = op.doc THEN "gone"
                         ELSE IF o[d] # "follows" THEN o[d]
                         ELSE IF docs[d] = Absent THEN "gone" ELSE "there"]

\* _specModel
Overlay(docs, there) ==
  IF overlay # NoOverlay THEN overlay
  ELSE FoldLeft(LAMBDA o, op : Extended(o, op, docs, there), [d \in Docs |-> "follows"],
                pending)

\* Whether it has d.
InView(d) ==
  LET shown == Overlay(memory, made)[d]
  IN shown = "there" \/ (shown = "follows" /\ memory[d] # Absent)

\* A read leaves the overlay, if there is a queue.
Looks(docs, there) ==
  overlay' = IF pending = << >> THEN NoOverlay ELSE Overlay(docs, there)

\* Somebody reads the collection.
Read ==
  /\ Looks(memory, made)
  /\ UNCHANGED <<hist, subbed, c2s, s2c, registered, answered, memory, memVer, made,
                 pending, issued, astray>>

\* _commit, after evalTxn.
Commit(op) ==
  /\ pending' = Append(pending, op)
  /\ overlay' = Extended(Overlay(memory, made), op, memory, made)
  /\ c2s' = Append(c2s, [type |-> "txn", op |-> op])
  /\ issued' = issued + 1
  /\ UNCHANGED <<hist, subbed, s2c, registered, answered, memory, memVer, made, astray>>

\* subscribe: the query counts as subscribed from here on.
Subscribe(q) ==
  /\ q \notin registered
  /\ registered' = registered \cup {q}
  /\ c2s' = Append(c2s, [type |-> "subscribe", query |-> q])
  /\ UNCHANGED <<hist, subbed, s2c, answered, memory, memVer, made, pending, overlay,
                 issued, astray>>

\* _onTxn with a transaction that makes newDoc of the document d.
Put(d, newDoc, stamp) ==
  IF stamp > memVer
  THEN /\ memory' = [memory EXCEPT ![d] = newDoc] /\ memVer' = stamp
       /\ made' = (made \/ newDoc # Absent)
  ELSE UNCHANGED <<memory, memVer, made>>

OnTxn(op, stamp) == Put(op.doc, Apply(op, memory[op.doc]), stamp)

\* Mutant of OnAddDoc: a document that is there already is left as it is.
OnAddDocIgnoring(msg, v, q) ==
  LET d == msg.op.doc IN
  /\ IF InView(d) THEN UNCHANGED <<memory, memVer, made>>
                  ELSE Put(d, msg.doc, Stamp(v, 2 * q))
  /\ Looks(memory, made)
  /\ Strays(msg.op, InView(d) /\ memory[d] = Absent)

\* 'addDoc': the document, or the transaction if the view has the document.
\* (It goes astray if only the overlay has it.)
OnAddDoc(msg, v, q) ==
  LET d == msg.op.doc IN
  /\ IF InView(d) THEN OnTxn(msg.op, Stamp(v, 2 * q - 1))
                  ELSE Put(d, msg.doc, Stamp(v, 2 * q))
  /\ Looks(memory, made)
  /\ Strays(msg.op, InView(d) /\ memory[d] = Absent)

\* Mutant of KeepsDoc: nobody asks whether another query has the document.
KeepsDocNever(msg, q) == FALSE

\* Another query of the model lets the document pass.
KeepsDoc(msg, q) == \E r \in registered \ {q} : Passes(r, msg.doc)

\* 'rmDoc': a null transaction if another query keeps the document.  (It goes
\* astray if that query is not one that the store publishes for.)
OnRmDoc(msg, v, q) ==
  \/ /\ KeepsDoc(msg, q)
     /\ Strays(msg.op, ~MemberOfSome(answered, msg.doc))
     /\ UNCHANGED <<memory, memVer, made, overlay>>
  \/ /\ ~KeepsDoc(msg, q)
     /\ Looks(memory, made)
     /\ Put(msg.op.doc, Absent, Stamp(v, 2 * q))
     /\ UNCHANGED astray

\* 'txnOk': the transaction moves from the queue to the memory.
OnTxnOk(msg, v) ==
  /\ OnTxn(msg.op, Stamp(v, 0))
  /\ IF Stamp(v, 0) > memVer
     THEN /\ pending' = SelectSeq(pending, LAMBDA op : op.id # msg.op.id)
          /\ overlay' = NoOverlay
     ELSE UNCHANGED <<pending, overlay>>
  /\ UNCHANGED astray

\* The memory with the documents ds of an answer.
With(msg, ds) == [d \in Docs |-> IF d \in ds THEN msg.docs[d] ELSE memory[d]]

\* The callback of subscribe: _addData, which tells of each document that it adds;
\* who hears it may read when some of them are there.
OnSubData(msg, v) ==
  /\ memory' = With(msg, DOMAIN msg.docs)
  /\ memVer' = IF msg.docs = << >> \/ Stamp(v, 0) < memVer THEN memVer ELSE Stamp(v, 0)
  /\ made' = (made \/ msg.docs # << >>)
  /\ \/ UNCHANGED overlay
     \/ \E ds \in SUBSET DOMAIN msg.docs : ds # {} /\ Looks(With(msg, ds), TRUE)
  /\ answered' = answered \cup {msg.query}
  /\ UNCHANGED <<pending, astray>>

\* The i-th message of version v.
Handle(v, i, msg) ==
  \/ /\ msg.type = "txn"
     /\ OnTxn(msg.op, Stamp(v, 2 * i))
     /\ UNCHANGED <<pending, overlay, answered, astray>>
  \/ msg.type = "addDoc" /\ OnAddDoc(msg, v, i) /\ UNCHANGED <<pending, answered>>
  \/ msg.type = "rmDoc" /\ OnRmDoc(msg, v, i) /\ UNCHANGED <<pending, answered>>
  \/ msg.type = "txnOk" /\ OnTxnOk(msg, v) /\ UNCHANGED answered
  \/ msg.type = "subData" /\ OnSubData(msg, v)

ClientReceive ==
  /\ s2c # << >>
  /\ LET b == Head(s2c) IN
     \E i \in DOMAIN b.msgs :
       /\ \A j \in DOMAIN b.msgs : i <= j
       /\ Handle(b.ver, i, b.msgs[i])
       /\ s2c' = IF DOMAIN b.msgs = {i} THEN Tail(s2c)
                 ELSE <<[b EXCEPT !.begun = TRUE,
                                  !.msgs = [j \in DOMAIN @ \ {i} |-> @[j]]]>> \o Tail(s2c)
  /\ UNCHANGED <<hist, subbed, c2s, registered, issued>>

Next ==
  \/ issued < MaxTxns /\ \E op \in Ops(Kinds) : StoreTxn(op)
  \/ issued < MaxTxns /\ \E op \in Ops(OwnKinds) : Commit(op)
  \/ \E q \in Queries : Subscribe(q)
  \/ StoreReceive
  \/ ClientReceive
  \/ Read

Spec == Init /\ [][Next]_vars

-----------------------------------------------------------------------------
Op == [doc : Docs, kind : Mutations, val : Vals, id : 1 .. MaxTxns]

\* Every variable keeps its shape (query.Model.js, descriptor.Model.js,
\* QueryHub.js).
TypeOK ==
  /\ hist \in Seq([Docs -> DocValues]) /\ hist # << >>
  /\ answered \subseteq subbed /\ subbed \subseteq registered
  /\ registered \subseteq Queries
  /\ memory \in [Docs -> DocValues]
  /\ memVer \in 0 .. Stamp(Ver, 2 * NumQueries)
  /\ pending \in Seq(Op) /\ made \in BOOLEAN /\ overlay \in Overlays \cup {NoOverlay}
  /\ issued \in 0 .. MaxTxns
  /\ astray \subseteq Docs

\* The version that the memory stands for: what comes next comes after it.
Seen ==
  IF s2c = << >> THEN Ver
  ELSE LET b == Head(s2c) IN
       IF \E i \in DOMAIN b.msgs : b.msgs[i].type = "subData" THEN b.ver ELSE b.ver - 1

\* Between the messages of one version and those of the next, the memory is
\* what the model's queries stand for at one single version of the store,
\* wherever the protocol did not give up: through documents that move between
\* overlapping queries, own mutations, and subscriptions answered meanwhile
\* (query.Model.js:69-156).
SnapshotConsistent ==
  (s2c # << >> => ~Head(s2c).begun)
     => \A d \in Docs \ astray : memory[d] = Result(answered, Seen)[d]

\* A document that moves from one query of the model to another stays in the
\* memory all the time, in whatever order the hub visits the two
\* (query.Model.js:120-138): an rmDoc takes away only what no query that the
\* model has the data of contains.
NeverFlickers ==
  [][\A d \in Docs :
       memory[d] # Absent /\ memory'[d] = Absent
         => ~MemberOfSome(answered, At(Head(s2c).ver)[d])]_vars

=============================================================================
