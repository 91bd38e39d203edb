--------------------------- MODULE PaginatedQuery ---------------------------
(***************************************************************************)
(* One page of a sorted query at the store                                 *)
(* (src/lib/descriptor/query/PaginatedQueryNode.js).  The node keeps the   *)
(* page in a cache and follows the writes: from where the document was and *)
(* is relative to the cache it derives what enters and leaves, asking the  *)
(* database for what comes from the neighbouring pages.  A client that     *)
(* fetched the page follows what the node publishes.                       *)
(*                                                                         *)
(* The database is the memory adapter: it has the write already and        *)
(* answers within the call, with its own objects and not with copies.  The *)
(* node copies what it loads the cache with, but what it takes in later    *)
(* from a neighbouring page stays the database's: a property set changes   *)
(* it in the cache too, before the node has looked at the write.           *)
(*                                                                         *)
(* A document is its id and the field it is sorted by; one that is deleted *)
(* or fails the filter, which looks at other fields, has the key Out.      *)
(***************************************************************************)
EXTENDS Integers, Sequences, FiniteSets, SequencesExt

CONSTANTS
  NumDocs,     \* documents; equal ones are found in the order of their ids
  NumKeys,     \* keys are 1 .. NumKeys
  Skips,       \* what a query may skip
  Limit,       \* its limit
  Nothing,     \* undefined, as an element of the cache
  NoCache,     \* the cache before it is loaded
  MaxLapsed    \* bound on the writes after the node has given up

ASSUME PageAssumption ==
  /\ {NumDocs, NumKeys, Limit, MaxLapsed} \subseteq Nat /\ Skips \subseteq Nat
  /\ Limit >= 2     \* with one, fetchSlice would begin before the page

VARIABLES
  key,         \* the database
  skip,        \* the query's skip
  cache,       \* the node's _cache
  live,        \* ids of the cached documents that are the database's objects
  told,        \* ids of what the client has of the page
  lapsed       \* history: writes since the node lost track, none before

pageVars == <<key, skip, cache, live, told, lapsed>>

DocIds == 1 .. NumDocs
Out == 0
Docs == [id : DocIds, key : 1 .. NumKeys]

\* undefined is no document, and not the missing cache.
ASSUME NamesAssumption == NoCache # Nothing /\ Nothing \notin Docs

\* Positions of a document relative to the cache: an index, or one of these.
Before == 0               \* -Infinity
After == Limit + 1        \* Infinity
Null == Limit + 2         \* the cache is empty
Undefined == Limit + 3    \* the cache holds an undefined element

-----------------------------------------------------------------------------
\* What the database returns.

\* MemoryQuery: what passes, sorted.
Sorted(k) ==
  LET found == {i \in DocIds : k[i] # Out}
      Place(i) == Cardinality({j \in found : k[j] < k[i] \/ (k[j] = k[i] /\ j <= i)})
  IN [n \in 1 .. Cardinality(found) |->
        LET i == CHOOSE j \in found : Place(j) = n IN [id |-> i, key |-> k[i]]]

Smaller(m, n) == IF m < n THEN m ELSE n

\* fetchSlice: the documents from .. to - 1 of the page, if there.
Slice(k, from, to) ==
  LET sorted == Sorted(k) IN
  SubSeq(sorted, skip + from + 1, Smaller(skip + to, Len(sorted)))

Page(k) == Slice(k, 0, Limit)

\* An element of a list, undefined behind its end.
At(s, i) == IF i \in DOMAIN s THEN s[i] ELSE Nothing

-----------------------------------------------------------------------------
\* How a write moves a document.

\* Mutant of RelPosition: a document before the first counts as the first.
RelPositionFirst(c, d) ==
  IF c = << >> THEN Null
  ELSE IF c[1] = Nothing THEN Undefined
  ELSE IF d.key > Last(c).key THEN After
  ELSE CHOOSE i \in DOMAIN c : d.key <= c[i].key /\ \A j \in 1 .. i - 1 : d.key > c[j].key

\* relPosition: the place of a document among those of the cache.
RelPosition(c, d) ==
  IF c = << >> THEN Null
  ELSE IF c[1] = Nothing THEN Undefined
  ELSE IF d.key < c[1].key THEN Before
  ELSE IF d.key > Last(c).key THEN After
  ELSE IF d.key = Last(c).key /\ d.key # c[1].key THEN Len(c)
  ELSE CHOOSE i \in DOMAIN c : d.key <= c[i].key /\ \A j \in 1 .. i - 1 : d.key > c[j].key

\* deltaType.
FromType(pos) == CASE pos = Before -> "prior" [] pos = After -> "later" [] OTHER -> "curr"
ToType(c, from, pos) ==
  IF from = Before /\ pos = After /\ Len(c) < Limit THEN "curr" ELSE FromType(pos)

\* JavaScript's splice, which takes null and undefined for the first index.
Index(pos) == IF pos \in {Null, Undefined} THEN 1 ELSE pos
Without(c, pos) == IF Index(pos) \in DOMAIN c THEN RemoveAt(c, Index(pos)) ELSE c
With(c, pos, d) == IF pos = After THEN Append(c, d) ELSE InsertAt(c, Index(pos), d)

Add(d) == [type |-> "addDoc", id |-> IF d = Nothing THEN Out ELSE d.id]
Rm(d) == [type |-> "rmDoc", id |-> d.id]
Txn(d) == [type |-> "txn", id |-> d.id]

\* What goes into the cache: an object of the database, or newDoc, the copy that
\* the transaction was applied to.
Object(d) == IF d = Nothing THEN {} ELSE {[id |-> d.id, live |-> TRUE]}
Copy(d) == {[id |-> d.id, live |-> FALSE]}

\* What shouldPublish leaves: the cache, the messages, whether it kept track, and
\* what it has put into the cache.
Outcome(c, msgs, tracks, put) ==
  [cache |-> c, msgs |-> msgs, tracks |-> tracks, put |-> put]
Unmoved(c, tracks) == Outcome(c, << >>, tracks, {})

\* The document that follows the page when something before its end leaves, and
\* whether the code takes it: only if the one before it is the cache's last.
Refill(c, k) ==
  LET slice == Slice(k, Limit - 2, Limit) IN
  [doc |-> At(slice, 2),
   there |-> At(slice, 2) # Nothing,
   sane |-> At(slice, 2) # Nothing /\ At(slice, 1) = At(c, Len(c))]
Refilled(c, r) == IF r.sane THEN Append(c, r.doc) ELSE c
RefillMsgs(r) == IF r.sane THEN <<Add(r.doc)>> ELSE << >>
RefillPut(r) == IF r.sane THEN Object(r.doc) ELSE {}

\* The document passed before and passes now.
Moves(c, k, old, new) ==
  LET from == RelPosition(c, old)
      to == RelPosition(c, new)
      front == Slice(k, 0, 2)
      first == At(front, 1)
      sane == At(front, 2) = At(c, 1)
      r == Refill(c, k)
  IN CASE FromType(from) = "prior" /\ ToType(c, from, to) = "prior" -> Unmoved(c, TRUE)
       [] FromType(from) = "prior" /\ ToType(c, from, to) = "curr" ->
            LET more == With(c, to, new)
            IN Outcome(Tail(more), <<Rm(Head(more)), Add(new)>>, TRUE, Copy(new))
       [] FromType(from) = "prior" /\ ToType(c, from, to) = "later" ->
            LET more == Refilled(c, r)
            IN Outcome(Tail(more), Append(RefillMsgs(r), Rm(Head(more))), r.sane,
                       RefillPut(r))
       [] FromType(from) = "curr" /\ ToType(c, from, to) = "prior" ->
            IF ~sane THEN Unmoved(c, FALSE)    \* the callback is not called
            ELSE Outcome(<<first>> \o Without(c, from),
                         IF \E i \in DOMAIN c : c[i].id = first.id THEN <<Txn(new)>>
                         ELSE <<Rm(new), Add(first)>>, TRUE, Object(first))
       [] FromType(from) = "curr" /\ ToType(c, from, to) = "curr" ->
            Outcome(IF from < to THEN Without(With(c, to, new), from)
                    ELSE With(Without(c, from), to, new),
                    <<Txn(new)>>, c # << >>, Copy(new))
       [] FromType(from) = "curr" /\ ToType(c, from, to) = "later" ->
            Outcome(Without(Refilled(c, r), from), Append(RefillMsgs(r), Rm(new)),
                    r.sane /\ r.doc.id # new.id, RefillPut(r))
       [] FromType(from) = "later" /\ ToType(c, from, to) = "prior" ->
            LET more == IF sane THEN <<first>> \o c ELSE c
            IN Outcome(Front(more), Append(IF sane THEN <<Add(first)>> ELSE << >>,
                                           Rm(Last(more))), sane,
                       IF sane THEN Object(first) ELSE {})
       [] FromType(from) = "later" /\ ToType(c, from, to) = "curr" ->
            LET more == With(c, to, new)
            IN Outcome(Front(more), <<Add(new), Rm(Last(more))>>, TRUE, Copy(new))
       [] FromType(from) = "later" /\ ToType(c, from, to) = "later" -> Unmoved(c, TRUE)

\* The document passed before and does not any more.
Leaves(c, k, old) ==
  LET from == RelPosition(c, old) IN
  CASE from = After -> Unmoved(c, TRUE)
    [] from = Before ->
         LET r == Refill(c, k)
             more == Refilled(c, r)
         IN Outcome(Tail(more), Append(RefillMsgs(r), Rm(Head(more))), r.there => r.sane,
                    RefillPut(r))
    [] OTHER ->
         LET rest == Without(c, from)
             r == Refill(rest, k)
         IN Outcome(Refilled(rest, r), Append(RefillMsgs(r), Rm(old)), r.there => r.sane,
                    RefillPut(r))

\* Mutant of MakeRoom: the last document stays.
MakeRoomNot(c) == [cache |-> c, msgs |-> << >>]

\* Mutant of MakeRoom: nobody is told of the document that goes.
MakeRoomSilent(c) ==
  IF Len(c) < Limit THEN [cache |-> c, msgs |-> << >>]
  ELSE [cache |-> Front(c), msgs |-> << >>]

\* A full cache loses its last document before one is inserted.
MakeRoom(c) ==
  IF Len(c) < Limit THEN [cache |-> c, msgs |-> << >>]
  ELSE [cache |-> Front(c), msgs |-> <<Rm(Last(c))>>]

\* cacheInsert, which leaves a document out that would be the last.
CacheInsert(c, d, pos) ==
  IF pos \in DOMAIN c /\ c[pos].id # d.id THEN InsertAt(c, pos, d) ELSE c

\* The document did not pass before and does now.
Enters(c, k, new) ==
  LET to == RelPosition(c, new)
      room == MakeRoom(c)
      page == Slice(k, 0, 2)
  IN CASE to = After -> Unmoved(c, Len(c) = Limit)
       [] to \in {Before, Null} /\ skip = 0 ->
            Outcome(<<new>> \o room.cache, Append(room.msgs, Add(new)), TRUE,
                    Copy(new))
       [] to \in {Before, Null} /\ skip # 0 ->
            IF At(page, 2) # At(c, 1) THEN Unmoved(c, FALSE)    \* no callback
            ELSE Outcome(<<At(page, 1)>> \o room.cache, Append(room.msgs, Add(At(page, 1))),
                         page # << >>, Object(At(page, 1)))
       [] OTHER ->
            Outcome(CacheInsert(room.cache, new, to), Append(room.msgs, Add(new)),
                    to \in DOMAIN room.cache,
                    IF CacheInsert(room.cache, new, to) = room.cache THEN {} ELSE Copy(new))

\* shouldPublish with a cache.
ShouldPublish(c, k, id, from, to) ==
  LET old == [id |-> id, key |-> from]
      new == [id |-> id, key |-> to]
  IN CASE from = Out /\ to = Out -> Unmoved(c, TRUE)
       [] from # Out /\ to # Out -> Moves(c, k, old, new)
       [] from # Out /\ to = Out -> Leaves(c, k, old)
       [] from = Out /\ to # Out -> Enters(c, k, new)

-----------------------------------------------------------------------------
PageInit ==
  /\ key \in [DocIds -> 0 .. NumKeys]
  /\ skip \in Skips
  /\ cache = NoCache /\ live = {}
  /\ told = {Page(key)[i].id : i \in DOMAIN Page(key)}    \* QueryHub.fetch
  /\ lapsed = 0

\* The client handles 'addDoc' and 'rmDoc'.
Hear(ids, msgs) ==
  FoldLeft(LAMBDA s, m : IF m.type = "addDoc" THEN s \cup ({m.id} \ {Out})
                         ELSE IF m.type = "rmDoc" THEN s \ {m.id} ELSE s, ids, msgs)

Tied(k) == \E i, j \in DocIds : i # j /\ k[i] = k[j] /\ k[i] # Out

\* What a property set makes of the cached documents that are the database's.
InPlace(c, id, to) ==
  [i \in DOMAIN c |-> IF id \in live /\ to # Out /\ c[i].id = id
                      THEN [id |-> id, key |-> to] ELSE c[i]]

\* The cache that shouldPublish finds.  The first write finds none: what is
\* loaded then, and copied, has the write already.
AtHand(k, id, to, inPlace) ==
  IF cache = NoCache THEN Page(k)
  ELSE IF inPlace THEN InPlace(cache, id, to) ELSE cache

\* Which cached documents are the database's.  A document that is set as a whole
\* or deleted is another object from then on, or none.  (One that is cached twice,
\* once the node has lost track, counts if one of the two is.)
LiveAfter(id, inPlace, outcome) ==
  LET left == IF inPlace THEN live ELSE live \ {id} IN
  {i \in {d.id : d \in {outcome.cache[j] : j \in DOMAIN outcome.cache} \ {Nothing}} :
     \/ [id |-> i, live |-> TRUE] \in outcome.put
     \/ i \in left /\ [id |-> i, live |-> FALSE] \notin outcome.put}

\* When the node loses track, but for what has changed in place: it gives up, two
\* documents are equal in the sort, or the write is in the cache it is applied to.
Loses(id, to, outcome) ==
  \/ ~outcome.tracks
  \/ Tied(key) \/ Tied(key')
  \/ cache = NoCache /\ {key[id], to} # {Out}

\* A write, a property set or one of the whole document, and what QueryHub.publish
\* makes of it.
Write(id, to, inPlace) ==
  /\ lapsed < MaxLapsed
  /\ key' = [key EXCEPT ![id] = to]
  /\ \E found \in {AtHand(key', id, to, inPlace)} :
     \E outcome \in {ShouldPublish(found, key', id, key[id], to)} :
        /\ cache' = outcome.cache
        /\ live' = LiveAfter(id, inPlace, outcome)
        /\ told' = Hear(told, outcome.msgs)
        /\ lapsed' = IF \/ lapsed # 0
                        \/ Loses(id, to, outcome)
                        \/ cache \notin {NoCache, found}
                     THEN lapsed + 1 ELSE 0
  /\ UNCHANGED skip

PageNext ==
  \E id \in DocIds, to \in 0 .. NumKeys, inPlace \in BOOLEAN : Write(id, to, inPlace)

PageSpec == PageInit /\ [][PageNext]_pageVars

-----------------------------------------------------------------------------
\* The cache is a list of at most Limit documents, whatever happened before; an
\* undefined element is alone in it (PaginatedQueryNode.js:71-309).
PageTypeOK ==
  /\ key \in [DocIds -> 0 .. NumKeys] /\ skip \in Skips
  /\ \/ cache \in {NoCache, <<Nothing>>}
     \/ cache \in Seq(Docs) /\ Len(cache) <= Limit
  /\ live \subseteq DocIds /\ told \subseteq DocIds
  /\ lapsed \in 0 .. MaxLapsed

\* The cache is the page, kept by deltas alone: wherever the document of a write
\* came from and went to, what the node takes out and what it gets from the pages
\* beside is what a query would find.  That is until one of the cases in which the
\* node loses track (lapsed), a cached object of the database set in place among
\* them; objects that come, go and are replaced do no harm (PaginatedQueryNode.js:35-309).
PageKept == lapsed = 0 /\ cache # NoCache => cache = Page(key)

\* A client that fetched the page once and heard everything since has just the
\* page's documents, until the node loses track: the two messages of a swap name
\* the right documents, in an order that does not undo them
\* (PaginatedQueryNode.js:98-309, QueryHub.js:134-187).
ToldPage == lapsed = 0 => told = {Page(key)[i].id : i \in DOMAIN Page(key)}
=============================================================================
