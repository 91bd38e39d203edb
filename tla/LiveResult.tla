----------------------------- MODULE LiveResult -----------------------------
(***************************************************************************)
(* The result list of a query or filter in a model                         *)
(* (src/lib/descriptor/query/scope.js, types/find.js, TransformBuilder.js) *)
(* which listens to the mutations of the collection and keeps a list of    *)
(* pointers, the ids of the documents that pass, in the order of the sort. *)
(* Mutations, own and others', are announced once each; a transaction that *)
(* the store refuses is taken back without a word.                         *)
(*                                                                         *)
(* The collection is what the model shows (_specModel): its memory with    *)
(* the transactions applied that the store has not answered yet, on an     *)
(* overlay of objects whose prototypes are those of the memory.  The       *)
(* overlay is kept until one of the transactions is answered.  Until then  *)
(* it follows the memory only as far as its prototypes are still in it and *)
(* it has no copies: a mutation of somebody else may show late, when the   *)
(* overlay is built anew.                                                  *)
(*                                                                         *)
(* A document has one field, its key; it passes if the key is at most the  *)
(* value of another path of the model (where('key').lte(model.at(...))).   *)
(***************************************************************************)
EXTENDS Integers, Sequences, FiniteSets, SequencesExt

CONSTANTS
  Ids,           \* of documents, numbers; results not sorted come in their order
  MaxKey,
  Bounds,        \* values of the path that the filter refers to
  Limits,        \* limits of queries; 0 is none
  NoOverlay,     \* the overlay when it is to be built anew
  MaxPending     \* bound on unanswered transactions

ASSUME ResultAssumption ==
  /\ Ids \subseteq Nat /\ IsFiniteSet(Ids)
  /\ Bounds \subseteq Nat /\ Limits \subseteq Nat /\ {MaxKey, MaxPending} \subseteq Nat
  /\ NoOverlay \notin [Ids -> Int]

VARIABLES
  sorted, limit, \* the query; neither changes
  bound,         \* what the filter refers to
  memory,        \* the documents in the model's memory
  made,          \* the memory has an object for the collection
  pending,       \* own transactions without an answer
  overlay,       \* the collection in _specCache
  pointers,      \* the ids at the query's resultIds
  astray         \* history: documents that the result has lost track of

vars == <<sorted, limit, bound, memory, made, pending, overlay, pointers, astray>>

Absent == 0
Collections == [Ids -> 0 .. MaxKey]
Ops == [kind : {"doc", "key"}, id : Ids, key : 1 .. MaxKey]
         \cup [kind : {"del"}, id : Ids, key : {Absent}]

-----------------------------------------------------------------------------
\* The collection.

\* Memory's set and del; a key set on a document that is not there makes one.
ApplyOp(docs, op) == [docs EXCEPT ![op.id] = op.key]

\* A document on the overlay: its key there, or the object of the memory through
\* which it is read, the world, the collection or the document itself.
ByWorld == -3
ByCollection == -2
ByDoc == -1
Overlays == [Ids -> ByWorld .. MaxKey]

Show(o, docs) == [i \in Ids |-> IF o[i] < 0 THEN docs[i] ELSE o[i]]

\* Memory's del on an overlay: the collection is replaced by a clone, which has the
\* documents of this moment.  Without a collection there is nothing to delete.
ExtendDel(o, docs, there, op) ==
  IF ~there /\ o[op.id] = ByWorld THEN o
  ELSE [i \in Ids |-> IF i = op.id THEN Absent
                     ELSE IF o[i] \notin {ByWorld, ByCollection} THEN o[i]
                     ELSE IF docs[i] = Absent THEN Absent ELSE ByDoc]

\* And its set: lookupSet makes an object for the collection, and one for the
\* document, each with what it finds there as its prototype.
ExtendSet(o, there, op) ==
  [i \in Ids |-> IF i = op.id THEN op.key
                ELSE IF o[i] # ByWorld THEN o[i]
                ELSE IF there THEN ByCollection ELSE Absent]

Extend(o, docs, there, op) ==
  IF op.kind = "del" THEN ExtendDel(o, docs, there, op) ELSE ExtendSet(o, there, op)

Build(docs, there, queue) ==
  FoldLeft(LAMBDA o, op : Extend(o, docs, there, op), [i \in Ids |-> ByWorld], queue)

\* _specModel, and the collection in it.
Overlay == IF overlay = NoOverlay THEN Build(memory, made, pending) ELSE overlay
View == Show(Overlay, memory)

\* The overlay is kept, if there is a queue, and is rid of on an answer.
Looks == overlay' = IF pending' = << >> THEN NoOverlay ELSE Overlay
Rebuilds ==
  /\ overlay' = NoOverlay
  /\ astray' = astray \cup {i \in Ids : View'[i] # View[i]}

Passes(key) == key # Absent /\ key <= bound

-----------------------------------------------------------------------------
\* What find.js makes of the list p, with the collection v as it is now.

\* Mutant of InsertPointer: it inserts before the last one that is not greater.
InsertPointerBefore(p, v, id, key) ==
  IF ~sorted THEN Append(p, id)
  ELSE LET notGreater == {k \in DOMAIN p : v[p[k]] # Absent /\ v[p[k]] <= key}
       IN InsertAt(p, IF notGreater = {} THEN 1 ELSE Max(notGreater), id)

\* insertDocAsPointer: behind the last one that is not greater.
InsertPointer(p, v, id, key) ==
  IF ~sorted THEN Append(p, id)
  ELSE LET notGreater == {k \in DOMAIN p : v[p[k]] # Absent /\ v[p[k]] <= key}
       IN InsertAt(p, Max(notGreater \cup {0}) + 1, id)

\* Mutant of Room: it does not look whether the document is a result already.
RoomAgain(p, id) == limit = 0 \/ Len(p) # limit

Room(p, id) == id \notin ToSet(p) /\ (limit = 0 \/ Len(p) # limit)

OnAddDoc(p, v, id, key) ==
  IF Passes(key) /\ Room(p, id) THEN InsertPointer(p, v, id, key) ELSE p

\* indexOf.
PosOf(p, id) == CHOOSE k \in DOMAIN p : p[k] = id

OnRmDoc(p, id) == IF id \in ToSet(p) THEN RemoveAt(p, PosOf(p, id)) ELSE p

\* Where currResult.sort puts a document; undefined ones come last.
NewPos(p, v, pos) ==
  1 + Cardinality({k \in DOMAIN p :
         /\ v[p[k]] # Absent
         /\ IF sorted /\ v[p[k]] # v[p[pos]] THEN v[p[k]] < v[p[pos]] ELSE k < pos})

\* onUpdateDocProperty.
OnUpdate(p, v, id) ==
  IF ~Passes(v[id]) THEN OnRmDoc(p, id)
  ELSE IF id \in ToSet(p) THEN
    InsertAt(RemoveAt(p, PosOf(p, id)), NewPos(p, v, PosOf(p, id)), id)
  ELSE IF Room(p, id) THEN InsertPointer(p, v, id, v[id])
  ELSE p

\* syncRun: filterDomain, sortDomain, sliceDomain.
SyncRun(v, upTo) ==
  LET found == {i \in Ids : v[i] # Absent /\ v[i] <= upTo}
      Place(i) == Cardinality({j \in found :
                     IF sorted /\ v[j] # v[i] THEN v[j] < v[i] ELSE j <= i})
      all == [n \in 1 .. Cardinality(found) |-> CHOOSE i \in found : Place(i) = n]
  IN IF limit = 0 \/ Len(all) <= limit THEN all ELSE SubSeq(all, 1, limit)

-----------------------------------------------------------------------------
\* The listener of a mutation of a document.
Listen(op, was, v) ==
  /\ pointers' = CASE op.kind = "doc" -> OnAddDoc(pointers, v, op.id, op.key)
                   [] op.kind = "key" -> IF v[op.id] = Absent THEN pointers
                                         ELSE OnUpdate(pointers, v, op.id)
                   [] op.kind = "del" -> OnRmDoc(pointers, op.id)
  /\ astray' = IF \/ op.kind # "key" /\ v[op.id] # op.key
                  \/ op.kind = "doc" /\ op.id \in ToSet(pointers) /\ was[op.id] # op.key
               THEN astray \cup {op.id} ELSE astray

Init ==
  /\ sorted \in BOOLEAN /\ limit \in Limits /\ bound \in Bounds
  /\ memory \in Collections /\ pending = << >> /\ overlay = NoOverlay
  /\ made \in BOOLEAN /\ (made \/ \A i \in Ids : memory[i] = Absent)
  /\ pointers = SyncRun(memory, bound)
  /\ astray = {}

\* The model mutates a document; the mutation is announced at once.
Commit(op) ==
  /\ Len(pending) < MaxPending
  /\ op.kind = "del" => View[op.id] # Absent
  /\ pending' = Append(pending, op)
  /\ overlay' = Extend(Overlay, memory, made, op)
  /\ UNCHANGED <<sorted, limit, bound, memory, made>>
  /\ Listen(op, View, View')

\* 'txnOk': it was announced before.
Confirm ==
  /\ pending # << >>
  /\ memory' = ApplyOp(memory, Head(pending))
  /\ made' = (made \/ Head(pending).kind # "del")
  /\ pending' = Tail(pending)
  /\ Rebuilds
  /\ UNCHANGED <<sorted, limit, bound, pointers>>

\* 'txnErr': nothing is announced.
Reject ==
  \E k \in DOMAIN pending :
    /\ pending' = RemoveAt(pending, k)
    /\ UNCHANGED <<sorted, limit, bound, memory, made, pointers>>
    /\ Rebuilds

\* The answer to an own transaction on another collection.
AnswerElsewhere ==
  /\ overlay # NoOverlay
  /\ UNCHANGED <<sorted, limit, bound, memory, made, pending, pointers>>
  /\ Rebuilds

\* Somebody reads the model.
Read ==
  /\ UNCHANGED <<sorted, limit, bound, memory, made, pending, pointers, astray>>
  /\ Looks

\* What is left of the overlay when memory's objects of the documents gone are
\* dropped; a listener reads it next, or has it built.
Detach(gone) ==
  IF overlay = NoOverlay THEN NoOverlay
  ELSE [i \in Ids |-> IF i \in gone THEN memory[i] ELSE overlay[i]]
LooksPast(gone) ==
  overlay' = IF pending = << >> THEN NoOverlay
             ELSE IF overlay = NoOverlay THEN Build(memory', made', pending)
             ELSE Detach(gone)

\* Somebody else's transaction on a document of the memory.
RemoteTxn(op) ==
  /\ op.kind = "del" => memory[op.id] # Absent
  /\ memory' = ApplyOp(memory, op)
  /\ made' = (made \/ op.kind # "del")
  /\ LooksPast({i \in {op.id} : op.kind # "key" /\ overlay # NoOverlay /\ overlay[i] = ByDoc})
  /\ UNCHANGED <<sorted, limit, bound, pending>>
  /\ Listen(op, View, View')

\* The documents that the overlay reads through what a mutation of the whole
\* collection replaces.
Through == {i \in Ids : overlay # NoOverlay /\ overlay[i] \in {ByCollection, ByDoc}}

\* Mutant of RemoteSetAll: the list is left to later mutations.
RemoteSetAllQuiet(docs) ==
  /\ memory' = docs /\ made' = TRUE
  /\ LooksPast(Through)
  /\ UNCHANGED <<sorted, limit, bound, pending, pointers, astray>>

\* Somebody else sets the whole collection: onOverwriteNs.
RemoteSetAll(docs) ==
  /\ memory' = docs /\ made' = TRUE
  /\ LooksPast(Through)
  /\ UNCHANGED <<sorted, limit, bound, pending>>
  /\ pointers' = SyncRun(View', bound)
  /\ astray' = {}

\* Somebody else deletes it: onRemoveNs, whatever own transactions still show.
RemoteDelAll ==
  /\ memory' = [i \in Ids |-> Absent] /\ made' = FALSE
  /\ LooksPast(Through)
  /\ UNCHANGED <<sorted, limit, bound, pending>>
  /\ pointers' = << >>
  /\ astray' = {i \in Ids : View'[i] # Absent}

\* The path that the filter refers to is set: the listener of a dependency.
SetBound(b) ==
  /\ bound' = b
  /\ UNCHANGED <<sorted, limit, memory, made, pending>>
  /\ Looks
  /\ pointers' = SyncRun(View', b)
  /\ astray' = {}

Next ==
  \/ \E op \in Ops : Commit(op) \/ RemoteTxn(op)
  \/ Confirm \/ Reject \/ AnswerElsewhere \/ Read
  \/ \E docs \in Collections : RemoteSetAll(docs)
  \/ RemoteDelAll
  \/ \E b \in Bounds : SetBound(b)

Spec == Init /\ [][Next]_vars

-----------------------------------------------------------------------------
\* No document is twice in the list, and a limit is kept, also by documents that
\* come one by one (find.js:78-100 and 113-143).
TypeOK ==
  /\ memory \in Collections /\ made \in BOOLEAN
  /\ made \/ \A i \in Ids : memory[i] = Absent
  /\ pending \in Seq(Ops) /\ Len(pending) <= MaxPending
  /\ overlay \in Overlays \cup {NoOverlay} /\ (pending = << >> => overlay = NoOverlay)
  /\ sorted \in BOOLEAN /\ limit \in Limits /\ bound \in Bounds /\ astray \subseteq Ids
  /\ pointers \in Seq(Ids) /\ IsInjective(pointers)
  /\ limit # 0 => Len(pointers) <= limit

\* What is in the list passes in the collection as the model shows it, and without
\* a limit everything that passes is in the list, whoever changed the document,
\* the collection or what the filter refers to (scope.js:125-245, find.js).
ResultIsQuery ==
  \A i \in Ids \ astray :
    /\ i \in ToSet(pointers) => Passes(View[i])
    /\ limit = 0 /\ Passes(View[i]) => i \in ToSet(pointers)

\* A sorted list stays sorted under all insertions and moves of single documents
\* (find.js:113-172).
InOrder ==
  sorted /\ astray = {} =>
    \A j, k \in DOMAIN pointers : j < k => View[pointers[j]] <= View[pointers[k]]
=============================================================================
