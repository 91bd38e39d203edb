-------------------------------- MODULE Refs --------------------------------
(***************************************************************************)
(* References (src/lib/refs).  A refList shows at a private path the       *)
(* documents that the ids of a pointer list name, and a ref with a key the *)
(* document that a key names.  What is done to the path of a reference is  *)
(* turned into transactions on the documents and the pointers, and what    *)
(* happens to those is emitted again at the path of the reference, where a *)
(* view follows it by the events alone.                                    *)
(*                                                                         *)
(* One model writes and emits; another has the same references and gets    *)
(* the transactions one by one, in order (TxnSync and Serializer have how  *)
(* they come).  A document is its content; push, unshift, pop and shift    *)
(* are insert and remove at an end, and an index that is given by an id is *)
(* the index: it is looked up before the transaction is made.              *)
(***************************************************************************)
EXTENDS Integers, Sequences, FiniteSets, SequencesExt, FiniteSetsExt

CONSTANTS
  Ids, Contents,
  Keys,          \* the paths of the pointer lists
  Author, Reader,
  Nothing,       \* undefined
  MaxLen,        \* bound on a pointer list
  MaxHowMany,    \* bound on how many are removed or moved at once
  MaxOps,        \* bound on what the author does
  MaxRefs        \* bound on how often a refList is set

Models == {Author, Reader}

ASSUME RefsAssumption ==
  /\ Author # Reader /\ Nothing \notin Ids \cup Contents
  /\ {MaxLen, MaxHowMany, MaxOps, MaxRefs} \subseteq Nat

VARIABLES
  model,         \* [Models -> memory, references, and what the views have]
  wire,          \* the transactions that the reader has not had yet
  ops,
  loose          \* the ids that a list was ever given before, or after, their document

vars == <<model, wire, ops, loose>>

\* The getter at the path of the refList, told apart by its number.
Getter(n, key) == [n |-> n, key |-> key]

Init ==
  /\ \E key \in Keys :
       model = [m \in Models |->
         [docs |-> [id \in Ids |-> Nothing], keys |-> [k \in Keys |-> << >>], sel |-> Nothing,
          ref |-> Getter(1, key), listeners |-> {Getter(1, key)},
          list |-> << >>, shown |-> Nothing]]
  /\ wire = << >> /\ ops = 0 /\ loose = {}

-----------------------------------------------------------------------------
\* Array mutators, of a pointer list and of the list of a view.

Splice(s, at, n, xs) ==
  SubSeq(s, 1, Min({at, Len(s)})) \o xs \o SubSeq(s, at + n + 1, Len(s))

OnList(s, op, xs) ==
  IF op.method = "insert" THEN Splice(s, op.at, 0, xs)
  ELSE IF op.method = "remove" THEN Splice(s, op.at, op.n, << >>)
  ELSE Splice(Splice(s, op.at, op.n, << >>), op.to, 0,
              SubSeq(s, op.at + 1, Min({op.at + op.n, Len(s)})))

\* Transactions: set or del of a document, an array mutator on a pointer list,
\* set or del of one of its members, set or del of the key.
SetDoc(id, content) == [path |-> "doc", id |-> id, content |-> content]
MutateKey(key, op, ids) == [path |-> "list", key |-> key, op |-> op, ids |-> ids]
SetMember(key, at, id) == [path |-> "member", key |-> key, at |-> at, id |-> id]
SetKey(id) == [path |-> "key", id |-> id]

\* Memory
Stored(m, t) ==
  CASE t.path = "doc" -> [m EXCEPT !.docs[t.id] = t.content]
    [] t.path = "list" -> [m EXCEPT !.keys[t.key] = OnList(@, t.op, t.ids)]
    [] t.path = "member" -> [m EXCEPT !.keys[t.key] =
                              IF t.at = Len(@) THEN Append(@, t.id)
                              ELSE [@ EXCEPT ![t.at + 1] = t.id]]
    [] t.path = "key" -> [m EXCEPT !.sel = t.id]

Doc(m, id) == IF id = Nothing THEN Nothing ELSE m.docs[id]

\* getterRefList: the documents, undefined where there is none.
View(m, key) == [k \in DOMAIN m.keys[key] |-> Doc(m, m.keys[key][k])]

-----------------------------------------------------------------------------
\* The listeners (RefListener).

\* The transactions on whose paths a refList listens: its pointer list, but no
\* member of it, and every document.
Matches(l, t) == t.path = "doc" \/ (t.path = "list" /\ t.key = l.key)

\* Mutant of Firing: a getter that was replaced is not looked for.
FiringAny(m, t) == {l \in m.listeners : Matches(l, t)}

\* A listener whose getter was replaced cleans itself up instead.
Firing(m, t) == {l \in m.listeners : Matches(l, t) /\ l = m.ref}
Dead(m, t) == {l \in m.listeners : Matches(l, t) /\ l # m.ref}

\* Mutant of Heard: ids are passed on.
HeardIds(m, t, l, list) ==
  IF t.path = "list" THEN OnList(list, t.op, t.ids)
  ELSE LET at == {k \in DOMAIN m.keys[l.key] : m.keys[l.key][k] = t.id}
       IN IF at = {} THEN list
          ELSE IF Min(at) = Len(list) + 1 THEN Append(list, t.content)
          ELSE [list EXCEPT ![Min(at)] = t.content]

\* What a view does with the event that is emitted at the path of the refList:
\* ids to insert become documents, and a document is the member whose id comes
\* first in the pointer list as it is now.
Heard(m, t, l, list) ==
  IF t.path = "list" THEN OnList(list, t.op, [k \in DOMAIN t.ids |-> m.docs[t.ids[k]]])
  ELSE LET at == {k \in DOMAIN m.keys[l.key] : m.keys[l.key][k] = t.id}
       IN IF at = {} THEN list
          ELSE IF Min(at) = Len(list) + 1 THEN Append(list, t.content)
          ELSE [list EXCEPT ![Min(at)] = t.content]

\* Mutant of HeardKey: the document under the new key is not looked up.
HeardKeyOnly(m, t, shown) ==
  IF t.path = "doc" /\ t.id = m.sel THEN t.content ELSE shown

\* The same of the ref with a key.
HeardKey(m, t, shown) ==
  IF t.path = "key" THEN Doc(m, t.id)
  ELSE IF t.path = "doc" /\ t.id = m.sel THEN t.content
  ELSE shown

\* A transaction is applied, then emitted.
Exec(m, t) ==
  LET n == Stored(m, t)
  IN [n EXCEPT !.list = FoldSet(LAMBDA l, list : Heard(n, t, l, list), @, Firing(n, t)),
               !.shown = HeardKey(n, t, @),
               !.listeners = @ \ Dead(n, t)]

-----------------------------------------------------------------------------
\* What the author does, through the refList or to what is behind it.

\* The transactions of one call: those that the RefEmitter makes come first.
Do(ts) ==
  /\ ops < MaxOps
  /\ ops' = ops + 1
  /\ model' = [model EXCEPT ![Author] = FoldLeft(Exec, @, ts)]
  /\ wire' = wire \o [k \in DOMAIN ts |-> [txn |-> ts[k], first |-> k = 1]]

Me == model[Author]
List(key) == Me.keys[key]
Members(key) == {id \in Ids : \E k \in DOMAIN List(key) : List(key)[k] = id}

\* Mutant of InsertTxns: the pointer comes first.
InsertTxnsPointerFirst(key, at, id, content) ==
  <<MutateKey(key, [method |-> "insert", at |-> at], <<id>>)>>
    \o (IF content = Nothing THEN << >> ELSE <<SetDoc(id, content)>>)

\* onRefList: a document that is more than its id is set, and its id inserted.
InsertTxns(key, at, id, content) ==
  (IF content = Nothing THEN << >> ELSE <<SetDoc(id, content)>>)
    \o <<MutateKey(key, [method |-> "insert", at |-> at], <<id>>)>>

\* push, unshift and insert, of a document through the refList, of its id also to
\* a pointer list itself.  An id is in a list once (README).
Insert(key, at, id, content) ==
  /\ Len(List(key)) < MaxLen /\ id \notin Members(key)
  /\ content # Nothing => key = Me.ref.key
  /\ Do(InsertTxns(key, at, id, content))
  /\ loose' = IF content = Nothing /\ Me.docs[id] = Nothing THEN loose \cup {id} ELSE loose

\* pop, shift and remove: the documents stay.
TakeOut(key, at, n) ==
  /\ Do(<<MutateKey(key, [method |-> "remove", at |-> at, n |-> n], << >>)>>)
  /\ UNCHANGED loose

Move(key, at, to, n) ==
  /\ Do(<<MutateKey(key, [method |-> "move", at |-> at, to |-> to, n |-> n], << >>)>>)
  /\ UNCHANGED loose

\* onRefListMember: set of a member, which keeps its id if it has one.
SetAt(at, id, content) ==
  /\ \E key \in {Me.ref.key} :
       /\ at < MaxLen
       /\ IF at < Len(List(key)) /\ List(key)[at + 1] # Nothing
          THEN id = List(key)[at + 1]
          ELSE id \notin Members(key)
       /\ Do(<<SetMember(key, at, id), SetDoc(id, content)>>)
  /\ loose' = loose \cup {id}

\* del of a member: the document goes, and the pointer leaves a hole.
DelAt(at) ==
  /\ \E key \in {Me.ref.key} :
       \E id \in {List(key)[at + 1]} :
         /\ Doc(Me, id) # Nothing
         /\ Do(<<SetMember(key, at, Nothing), SetDoc(id, Nothing)>>)
         /\ loose' = loose \cup {id}

\* set of a document, or of something under it, at its own path or through the
\* ref with a key; and del.
PutDoc(id, content) ==
  /\ Do(<<SetDoc(id, content)>>)
  /\ loose' = IF content = Nothing THEN loose \cup {id} ELSE loose

\* set or del of the key.
Select(id) == Do(<<SetKey(id)>>) /\ UNCHANGED loose

-----------------------------------------------------------------------------
\* The reader, and the refLists.

Deliver ==
  /\ wire # << >>
  /\ model' = [model EXCEPT ![Reader] = Exec(@, Head(wire).txn)]
  /\ wire' = Tail(wire)
  /\ UNCHANGED <<ops, loose>>

\* refList at a path that has one: the getter is replaced, the value is emitted,
\* and the listeners of the getter before it stay until they hear something.
RefList(who, key) ==
  /\ model[who].ref.n < MaxRefs
  /\ \E g \in {Getter(model[who].ref.n + 1, key)} :
       model' = [model EXCEPT ![who].ref = g, ![who].listeners = @ \cup {g},
                              ![who].list = View(model[who], key)]
  /\ UNCHANGED <<wire, ops, loose>>

Next ==
  \/ \E key \in Keys :
       \/ \E at \in 0 .. Len(List(key)), id \in Ids, c \in Contents \cup {Nothing} :
            Insert(key, at, id, c)
       \/ \E at \in 0 .. Len(List(key)) - 1, n \in 1 .. MaxHowMany :
            TakeOut(key, at, n) \/ \E to \in 0 .. Len(List(key)) - 1 : Move(key, at, to, n)
  \/ \E at \in 0 .. Len(List(Me.ref.key)), id \in Ids, c \in Contents : SetAt(at, id, c)
  \/ \E at \in 0 .. Len(List(Me.ref.key)) - 1 : DelAt(at)
  \/ \E id \in Ids, c \in Contents \cup {Nothing} : PutDoc(id, c)
  \/ \E id \in Ids \cup {Nothing} : Select(id)
  \/ Deliver
  \/ \E who \in Models, key \in Keys : RefList(who, key)

Spec == Init /\ [][Next]_vars

-----------------------------------------------------------------------------
\* The shape, and that a getter has a listener as long as it is there.
TypeOK ==
  /\ \A who \in Models : LET m == model[who] IN
       /\ m.docs \in [Ids -> Contents \cup {Nothing}]
       /\ \A key \in Keys : /\ Len(m.keys[key]) <= MaxLen
                            /\ ToSet(m.keys[key]) \subseteq Ids \cup {Nothing}
       /\ m.sel \in Ids \cup {Nothing} /\ m.ref \in m.listeners
       /\ \A l \in m.listeners : l.n <= m.ref.n
       /\ ToSet(m.list) \cup {m.shown} \subseteq Contents \cup {Nothing}
  /\ \A k \in DOMAIN wire : wire[k].txn.path \in {"doc", "list", "member", "key"}
  /\ ops \in 0 .. MaxOps /\ loose \subseteq Ids

\* The reader is between two transactions of one call.
Between == wire # << >> /\ ~Head(wire).first

\* Whoever follows the events at the path of the refList has what the refList
\* shows, through whatever lists it was set to; but for members that were
\* deleted, of which no event tells (README).
Follows ==
  \A who \in Models :
    LET m == model[who] ks == m.keys[m.ref.key]
    IN (who = Reader => ~Between) =>
         /\ Len(m.list) = Len(ks)
         /\ \A k \in DOMAIN ks : ks[k] # Nothing => m.list[k] = m.docs[ks[k]]

\* The same of the ref with a key.
FollowsKey == \A who \in Models : model[who].shown = Doc(model[who], model[who].sel)

\* A model that gets the transactions one by one never has an id in a list
\* without its document, unless the author had (set of a member gives the id
\* first, README).
NeverDangling ==
  \A key \in Keys : \A id \in ToSet(model[Reader].keys[key]) \cap Ids :
    model[Reader].docs[id] = Nothing => id \in loose
=============================================================================
