--------------------------- MODULE QueryRegistry ---------------------------
(***************************************************************************)
(* The registry in which a model keeps its queries                         *)
(* (src/lib/descriptor/query/QueryRegistry.js): a query gets an id when it *)
(* is registered first, under which its result list is kept, and is found  *)
(* again by its namespace or by a tag.  A model on the server bundles its  *)
(* registry; the browser registers what is in the bundle in a new one.     *)
(* Queries are equal if their motifs and types are; one that counts has    *)
(* its hash for an id, the others get the next number.                     *)
(***************************************************************************)
EXTENDS Integers, Sequences, FiniteSets, SequencesExt

CONSTANTS
  Queries,
  Counts,        \* those of them that count
  NsOf,          \* [Queries -> their namespaces]
  NoId           \* null

\* A hash starts with its namespace: it is no number.
ASSUME RegistryAssumption ==
  /\ Counts \subseteq Queries /\ Counts \cap Nat = {}
  /\ DOMAIN NsOf = Queries /\ NoId \notin Queries \cup Nat

Tags == {"subs", "fetch"}
Namespaces == {NsOf[q] : q \in Queries}

\* What TLC's f @@ g is, in terms that the provers know.
Over(f, g) == [x \in DOMAIN f \cup DOMAIN g |-> IF x \in DOMAIN f THEN f[x] ELSE g[x]]

NewRegistry ==
  [queries |-> << >>,                        \* id -> query
   byNs |-> [ns \in Namespaces |-> << >>],   \* the ids of a namespace
   byTag |-> [tag \in Tags |-> << >>],
   ordered |-> << >>,                        \* ids with their tags, as they came
   nextId |-> 1]

\* queryId, for a tuple without an id: the last that is equal.
QueryId(reg, q) ==
  LET ids == reg.byNs[NsOf[q]]
      found == {k \in DOMAIN ids : reg.queries[ids[k]] = q}
  IN IF found = {} THEN NoId ELSE ids[CHOOSE k \in found : \A j \in found : j <= k]

NewId(reg, q) == IF q \in Counts THEN q ELSE reg.nextId

\* add, of a query that is not there.
AddNew(reg, q) ==
  [reg EXCEPT !.queries = Over(@, [id \in {NewId(reg, q)} |-> q]),
              !.byNs[NsOf[q]] = Append(@, NewId(reg, q)),
              !.nextId = IF q \in Counts THEN @ ELSE @ + 1]

Tag(reg, id, tag) ==
  IF id \in ToSet(reg.byTag[tag]) THEN reg
  ELSE [reg EXCEPT !.byTag[tag] = Append(@, id),
                   !.ordered = Append(@, [id |-> id, tag |-> tag])]

\* registerQuery
RegisterQuery(reg, q, tag) ==
  IF QueryId(reg, q) = NoId THEN Tag(AddNew(reg, q), NewId(reg, q), tag)
  ELSE Tag(reg, QueryId(reg, q), tag)

LookupWithTag(reg, tag) == {reg.queries[id] : id \in ToSet(reg.byTag[tag])}

\* bundle: the tuples, which hold their ids, with their tags.
BundleOf(reg) ==
  [k \in DOMAIN reg.ordered |->
     [q |-> reg.queries[reg.ordered[k].id], id |-> reg.ordered[k].id,
      tag |-> reg.ordered[k].tag]]

\* Mutant of LoadQuery: force adds a query that is there.
LoadQueryFresh(reg, entry) == Tag(AddNew(reg, entry.q), NewId(reg, entry.q), entry.tag)

\* registerQuery with force: an id that is not there yet is given anew.
LoadQuery(reg, entry) ==
  IF entry.id \in DOMAIN reg.queries THEN Tag(reg, entry.id, entry.tag)
  ELSE Tag(AddNew(reg, entry.q), NewId(reg, entry.q), entry.tag)

\* _loadQueries
LoadOf(bundle) == FoldLeft(LoadQuery, NewRegistry, bundle)

\* The ids of the queries that are registered.
IdsIn(reg) ==
  LET registered == {reg.queries[id] : id \in DOMAIN reg.queries}
  IN [q \in registered |-> QueryId(reg, q)]

\* What `ordered` has of a tag are the ids of the tag, in their order.
TagInOrder(reg, tag) ==
  \E at \in [DOMAIN reg.byTag[tag] -> DOMAIN reg.ordered] :
    /\ \A j, k \in DOMAIN at : j < k => at[j] < at[k]
    /\ \A k \in DOMAIN at : reg.ordered[at[k]] = [id |-> reg.byTag[tag][k], tag |-> tag]
    /\ \A i \in DOMAIN reg.ordered : reg.ordered[i].tag = tag =>
         \E k \in DOMAIN at : at[k] = i

\* Every query is there once, and the indexes have what the registry has.
Indexed(reg) ==
  /\ \A id \in DOMAIN reg.queries : QueryId(reg, reg.queries[id]) = id
  /\ \A ns \in Namespaces : ToSet(reg.byNs[ns]) =
       {id \in DOMAIN reg.queries : NsOf[reg.queries[id]] = ns}
  /\ \A tag \in Tags :
       ToSet(reg.byTag[tag]) \subseteq DOMAIN reg.queries /\ TagInOrder(reg, tag)
=============================================================================
