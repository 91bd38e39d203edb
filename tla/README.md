# A verification development for Racer

Racer keeps models in browsers and in Node processes in step with a store. This
directory holds TLA+ modules translated from `src/lib`, configurations that
model-check them with TLC on small instances, and theorems about them that
TLAPS checks for every value of the constants.

    tlc -workers 2 -config TxnSync.cfg MCTxnSync.tla      # a run
    tlapm TxnPipelineProofs.tla                           # a proof

## The system and its parts

A **model** (`Model.js`, `txns/txns.Model.js`) applies the user's mutations at
once to a speculative view, queues them in `_txnQueue`, and sends them to the
store. A browser model does so over socket.io, a model in the store's process by
a call. The **store** (`Store.js`, `txns/txns.Store.js`) runs each transaction
through a middleware chain: conflict detection (STM mode only), the version
(`modes/lww.js`, `modes/stm.js`), the database, publication, acknowledgement.

| part | state | operations | what makes it correct |
|---|---|---|---|
| Serializer | `_index`, `_pending`, timer | add, setIndex, clearPending, expiry | numbered messages are handed on in order, once |
| store transactions | versions, write locks and their queues, `versToPublish`, `publishQueueByVer`, `socket.__ver` | accept, write, publish, acknowledge, flush | versions go out in order, only when stored, to all subscribed |
| model transactions | `_txnQueue`, `_memory`, `txnApplier` | commit, txn, txnOk, txnErr, newTxns, replace, resend, onTimeout | nothing forgotten, nothing unexecuted confirmed, convergence |
| reconnection | `_clientSockets`, `_txnBuffers`, `_txnClock` | connection, disconnect, expiry, flush, resync | a client that returns catches up |
| STM mode | journal, `startId`, `_txnApplier` | detectConflict, addToJournal, txnsSince, flush | accepted transactions are serializable; a lost answer can be asked for again |
| pub/sub | forward and reverse indexes, per channel type | subscribe, publish, unsubscribe | the indexes agree |
| live queries | query nodes and their caches, the model's filters | publish, addDoc, rmDoc | the result set of a client is the query's |
| OT fields | in-flight and pending operation, versions | submit, remote op, acknowledgement | replicas converge |
| mutator retries | retries, counts, versions read | get, set, next, retry | no lost update |
| local views | memory, speculative overlay, refs, ref lists, result lists | mutators, dereference, listeners | the list is the result of its query over what the model shows; list and pointers agree |
| util | promises, `finishAfter`, `bufferify` | on, resolve, call | once, in order, nothing dropped |

They interact by middleware calls with callbacks, by socket.io messages (ordered
within a connection, lost with it), by pub/sub events and by timers. Node runs
each callback to its end, so that interleaving happens between callbacks: at
the database, at the network and at timers. The hard behaviours are there: a
database that answers out of order, a write that fails between two that succeed,
a connection that breaks with messages in flight and is noticed later at the
other end, a transaction sent again while its acknowledgement is on its way.
`PROJECT.json` lists them with their lines ("hazards").

## The modules

### Serializer, SerializedStream, OrderedDelivery

`Serializer` gives the operations of `src/lib/Serializer.js` as operators on a
record. `Stops` is the set (a singleton) of numbers at which the draining loop can
come to rest, which keeps the loop out of the actions and out of recursion;
`AfterAdd` is the record afterwards and `Handed` what `withEach` was called with.
`SerializedStream` puts one at the end of a stream that reorders, repeats and
loses messages. `OrderedDelivery` is what its owners may assume: a log is handed
over in order and without gaps. `ImplementsOrdered` says that the former
implements the latter, with the same `log` and `applied`.

### TxnPipeline

The store's middleware in LWW mode. A transaction is named by its version.
`Submit` is everything from `incrVer` to the call of the database (or the place in
the queue of its lock); `WriteDone` and `WriteFail` are everything from the
database's answer: `lockingDone`, which starts the next write, then publication to
sockets, to models in the store's process and through the query nodes, then the
acknowledgement, then `flush`. `WriteDone` picks what each query makes of the
write (`Effects`: nothing, txn, addDoc, rmDoc), that is, every outcome of a filter
on the document before and after. `EmitOrHold` has both branches of `tmp`,
with the reversal its comparison causes (`list[k] < ver` compares a function with
a number). `emitted` is history: the batches that went out.

Kept out: access control (an accepting guard), connections that break (TxnSync),
query nodes that answer late (PaginatedQuery has what a node decides).

### TxnSync

A browser model and the store over connections that break: queue, memory,
`txnApplier`, `socket`, buffer, clock, and the two directions of the network. The
mode is LWW and the database the memory adapter, which answers within the call,
so that the store handles a message in one step. Connections are numbered; `sock`
is the entry of `_clientSockets`, `open` those whose `disconnect` the store has not
seen. The browser loses a connection (`Drop`) at once, the store at any later
time (`ServerDisconnect`), before or after the next connection. `Reconnects` says
how late the browser comes back; "any" is what the code allows, the others select
the situation a run asks about.

### LiveQuery

A browser model that follows queries by filter. `StoreTxn` is somebody else's
write: the database, then `QueryHub.publish`, which asks every node (`Effect`)
and sends 'txn', 'addDoc' or 'rmDoc' with rising fractions of the version.
`OwnTxn` is the model's own, of which it hears 'txnOk' only. A subscription is in
the registry from the call (`Subscribe`), at the store when it arrives
(`OnSubscribe`), and has its data when the answer is handled (`OnSubData`); all
sorts of messages come between. A document has the field that the filters look
at, another field, and a list whose length tells how often a push was applied.
A query is named by its place among the hub's nodes, so that naming the queries
the other way round is the other order of its loop.

What an addDoc is taken for depends on the view (`InView`), and the view is not simply the
memory with the queue applied: `_specModel` keeps the overlay that it built until one of the
queue's transactions is answered. `overlay` says of each document whether the overlay
follows the memory, has the document, or does not have it: a write makes one there (or an
empty collection, where the memory has none: `made`), and a del replaces the collection by
a clone of the documents of that moment. `Read` is anybody's read in between, which decides
when the overlay is built. So one document's del changes what an addDoc of another does,
which is what the second document of the run is for.

`astray` is history: the documents on which the code itself gives up keeping the
model in step. `Strays` is called with the condition at each such place: a push
sent once for each query, an author that moves a document out of its queries or
into them, an addDoc for a document that only the overlay has (by a pending write, or as
a clone's leftover), an rmDoc ignored for a query that the store does not publish for. `SnapshotConsistent` speaks of
all others.

Kept out: broken connections and message numbers (TxnSync), slow databases
(TxnPipeline), what becomes of the result lists (LiveResult), pages (PaginatedQuery).

### OtField

One text in several browsers. `Submit` is what `otInsert` and `otDel` do up to the
timer (`specTrigger`, flush); `Timer`, `ServerOp`, `OnRemoteOp`, `OnAck` and
`OnSetOk` are the handlers of `ot/Field.js`, `ot/Field.server.js` and
`ot/FieldConnection.server.js`. A client's field has a snapshot, a version, the
operation in flight and those composed behind it; the store's field has a text and
the operations in their order. The text type is share's, which is not under `src`:
`ApplyC`, `Shift`, `PastList` and `Both` are written from what the fields ask of it
(external in the map): `transformX` gives both sides, `transform` one. `Load` and
`Connect` bring in a browser from a bundle. `gap` is history: clients that connected after
an operation had gone out, which nobody sends them; `InStep` are the others.

### Stm

STM mode, between browser models and the retrying mutators. A transaction carries
the version its maker knew; `Verdict` walks the journal after it (`Since`) and stops
at the first entry that `Meets` it: "duplicate" if it is the transaction itself,
"conflict" otherwise. `Accept` is everything the middleware does with one that
passes (journal, database, publication, answer), `Refuse` the rest. A caller of
`incr`, `setNull` or `add` reads (`Get`, answered later), computes (`Got`) and
sets (`Set`); `Again` is `retry`. `Commit`, `Resend` and `ModelReceive` are the
model's side, with `startId` deciding what to do with transactions made before a
`Flush`. Every model is subscribed to everything and connections hold (TxnSync has
the rest).

### PaginatedQuery

One page at the store. `Write` moves a document from any key to any other (`Out`:
deleted, or it does not pass); `ShouldPublish` is `shouldPublish` with its four
shapes: `Moves` (both before and after the write it passes), `Leaves`, `Enters`, or nothing.
`FromType` and `ToType` are `deltaType`: before, on or behind the page, from
`RelPosition`; `Refill` is the slice that is read from the database. The client's
side (`Hear`) is the set of ids that it was told of.

The memory adapter hands out its own objects. What the cache is loaded with is copied
(`results`); what `fetchSlice` brings later is not, and `live` has the ids of those members.
A write is a property set (`inPlace`), which changes such a member in the cache before
`shouldPublish` compares anything with it (`AtHand`), or one of the whole document, which
puts another object into the database. `Object` and `Copy` say which of the two each case
of `shouldPublish` puts into the cache: the database's object, or `newDoc`, a copy.

`lapsed` is history: the write after which the node lost track, by one of the defects
below, a member set in place among them; a few more writes are let happen (`MaxLapsed`) so that every case of the code still fires.

### LiveResult

The list of pointers that a model keeps for a query (`resultIds`), by listeners on
the mutations of its collection (`query/scope.js`, `types/find.js`). `Commit` is an own
mutation, announced at once, `Confirm` and `Reject` the store's answers, which announce
nothing; `RemoteTxn` and the two for a whole collection are others'; `SetBound` changes
the value that the filter refers to and runs the query anew (`SyncRun`).

The listeners read `View`, what `_specModel` returns: the memory, seen through an overlay
that is kept while transactions are unanswered. A document of `overlay` is a key, where
the overlay has a copy, or the object of the memory through which it is read: the world
(nothing of the collection was written), the collection (something of it was), or the
document itself (a del has cloned the collection). `Extend` is what one more mutation makes
of it, `Build` the queue's on a new one. Somebody else's document shows if its prototype
is still in the memory and not otherwise: after a set or del of the whole collection what
was read through the old objects stays (`Through`, `Detach`). `Confirm`, `Reject` and `AnswerElsewhere`
throw the overlay away, so that what was hidden shows (`Rebuilds`); `Read` is a read between
two mutations, which decides when the next one is built. Own mutations are of single
documents; own sets and dels of a whole collection are not modelled.

`astray` is history: documents whose place in the list no listener was told of, those that
change when the overlay is rebuilt among them.

### QueryRegistry, Subscriptions

`QueryRegistry` is the record of `QueryRegistry.js` with its operations as operators:
ids by namespace and tag, the bundle and its load. `Subscriptions` is a model's life
from the server (`onServer`) to the browser: `Subscribe`, `Fetch`, `Unsubscribe`
and `UnsubscribeAll` register and ask (`Ask`: through a call, over the socket, or
not at all); at the store a request passes its guards (`Guarded`, `Refuse`), enters
the indexes (`Enter`), reads each target (`Read`) and answers. `fwd` and `rev` are
forward and reverse index of every channel interface, `hub` the QueryHub's. `Write` is
somebody else's, sent to whom the indexes name: by a call, over the socket (`sockVer`),
or into the buffer. `Bundle`, `Connect`, `Drop`, `Expire` are the ways between.
What a model missed while it was forgotten comes with 'resyncWithStore' and
'snapshotUpdate:replace'. `threw` is an exception that nobody catches; the process ends.

### Refs

Two models, each with a refList over one of several pointer lists and a ref with a key. `Do` is
one call of the author: the transactions that `RefEmitter` makes of it (`InsertTxns`,
`SetAt`, `DelAt`), each applied and emitted (`Exec`), then sent, to be delivered one by
one to the reader. Each listener of a reference (`RefListener`) turns an event on
documents, pointers or key into one at the path of the reference: `list` and `shown`
are what a view has that knows only those events (`Heard`, `HeardKey`). `RefList`
sets the reference again; the listeners of the getter before it remain, and clean up
when they next match. An id is in a list once: with an id twice only its first
place hears of the document (`indexOf`).

## What the runs check

| run | instance | shows |
|---|---|---|
| SerializedStream | 4 messages of three contents, one null; any order, repetition, loss | in order, once, unchanged; nothing intact left behind; refinement of OrderedDelivery |
| TxnPipeline | 3 transactions, 2 documents, 2 clients, 1 local model, the store, 1 query, writes may fail | order, storage before emission, nothing ready left, lock discipline |
| TxnPipelineOneDoc | the same with 1 document, no failures, fairness | everyone subscribed is sent everything; everything goes out; bundle can return |
| TxnSync | 2 connections, 1 own and 1 foreign transaction, 1 resend, any reconnection | nothing forgotten, one route, memory only forward |
| TxnSyncForgotten | 3 connections, 1 own and 2 foreign transactions, returns after the buffer expired | catching up, if nothing was executed twice |
| LiveQuery | 2 overlapping queries (the second accepts undefined), the first subscribed at the start, 4 values, 3 transactions: 1 document that others set, push to and delete and the model sets and deletes, 1 that others set | the memory is the union of the results at one version; no document of a query leaves even for a moment |
| OtField | 2 typists, 1 browser that loads late, a text of one character, 3 operations | own operations on top of the store's text, nothing that does not fit, one text in the end |
| Stm | 1 model with 2 transactions and 1 resend, 2 callers, 2 paths, 2 retries, 1 flush | no lost update until the flush, one verdict per transaction |
| PaginatedQuery | 4 documents, 5 keys, pages of 2 after 0 or 1; property sets and sets of whole documents | the node's page is the query's, and the client's |
| LiveResult | 2 documents, 2 keys, 2 bounds, limit 1 or none, sorted or not, 2 pending transactions | the list is the result |
| Subscriptions | a path, a glob that covers it, a query on another path; 2 requests, the first of up to 2 targets, 2 connections, 1 write, another subscriber | the indexes agree, nothing falls between reading and entering, sent once, ids survive the bundle |
| Refs | 2 documents of 2 contents, 2 pointer lists of up to 2, 3 calls, one more refList per model | who follows the events has what the reference shows; no pointer before its document |

`CHECK_DEADLOCK FALSE` everywhere: each instance stops when its bounded supply of
transactions, messages and connections is used up.

**Bounds.** Four messages are the fewest for a half-filled gap with another gap
behind it. Three transactions on two documents give a waiter for a lock, a version
finished out of order and one held back behind another. Two connections give the
late `disconnect` of the first after the second; three with expiry between them
give the loss of a snapshot and its repetition. Four values put a document into
the first query, both, the second and neither, so that three transactions give every
walk of length three between them. Two documents share `memory.version`, which the subscription's
data and the three transactions already move, and the overlay, whose cases need an own del or
set of one and an addDoc or rmDoc of the other: so the second one is only set, by others (every
kind by every author on both, put and mark among them, is beyond a run of some minutes;
LiveQueryProofs has them all). A document of the start has a list of one element, which one that a
path implies has not: half a document shows. Two places among the hub's nodes give an addDoc before an rmDoc and
one after. Three operations on a field are one in flight, one composed behind it and
one remote that crosses both. Two retries let a caller lose twice, once to the
model and once to the other caller; the second flush would repeat the first. Four
documents fill a page of two and leave one on each side of it, and five keys leave a
place between any two of them and a tie; there is no bound on the number of writes. Two
documents and two pending transactions give an overlay in each of its forms, with a del before
or behind a set and others' documents seen and hidden, and one of the two fills the limit. There is no bound on the mutations either. (One document goes before or behind the other; between
two is the theorem's.)
One write is enough for a message to be lost between reading and entering, and a
request of two targets for the same transaction by two subscriptions, with one of a single target
behind it; two writes and two queries
were tried with fewer patterns and give nothing else. Three calls are an insertion, a second one or a
removal, and something done to what is there, while the reader is anywhere behind.

**Fairness.** `SerializedStream`: a message not lost arrives. `TxnPipeline`: the
database answers each write it was given (an adapter that does not answer stops
the store, and nothing else needs a scheduler). `TxnSync`: messages are delivered
while the connection lasts, a broken connection is noticed, timers fire,
socket.io reconnects. User mutations, drops and resends are never forced. The other
runs check safety only: what must hold once all is quiet is an invariant whose
condition is that no message and no timer is left (`Settled`).

## What is proved

`SerializedStreamProofs`, for any set of messages and any `MaxSent`: `TypeOK`,
`InOrder`, `KeepsOnlyAhead` and the refinement of `OrderedDelivery`. The inductive
invariant is their conjunction: `InOrder` alone does not say that what the
draining loop takes from `_pending` is what was sent.

`TxnPipelineProofs`, for any actors, documents, subscriptions, queries and bounds:
`WritesInOrder`, `LocksHeld`, `EmittedInOrder`, `EmittedWereStored`,
`HeadUnfinished`. The inductive invariant has two halves. *LockInv*: who waits for
a document waits behind its one writer and in the order of the versions, and the
writer is newer than all that was written there; without the order of the waiters
`WritesInOrder` is not inductive. *QueueInOrder*: the versions that went out are
`1 .. Gone`, those to publish follow without a gap, and one of them is `okToClear`
exactly when it is stored, which is what lets `flush` go on without looking at the
database. No assumption but those named in the modules is used.

`BroadcastToAll` is proved where writes come back in the order they were made: with one
document, or with a database that takes one write at a time, as db-memory does (one
write at a time is `MaxInFlight <= 1`); writes may fail. The step that matters is that a
version is not below `socket.__ver` when it is published: what a socket was sent is
stored, and what the database was given is newer than all that is stored.
`FoldLeftSteps` says what a fold of the model computes: `FoldLeft` goes through a list of values,
each the operator of the one before and the next member. It is shown by the least counterexample,
since the library's induction takes an operator, and for the same reason for each operator that is
folded: here, in `SubscriptionsProofs` and in `QueryResultProofs`.

`TxnSyncProofs`, for any documents, transactions, connections and any way to reconnect: `TypeOK`,
`NothingForgotten` and `MemoryForward`. The inductive invariant says what a message under way
may carry: ids of what was executed (`Told`), and a snapshot no older than anything that
the model has, keeps or is sent before it (`NoOlderSnapshot`).

`OnceMeansSynced` is proved there for `Reconnects = "forgotten"`, a browser that comes back only after
the store noticed that it left and forgot it (any sooner, and README.md:46 fails: see below). The
second inductive invariant, `SyncInv`, says that numbers and versions on the wire go up
without gaps (`Counted`, `Ascend`); that while the browser is connected a snapshot is coming or
its memory is the store's at some version and the next message goes on from there (`UpToDate`);
and, for as long as nothing was executed twice, that what the user did is queued until the memory
has it (`Kept`), so that no acknowledgement is of something that left the queue: one such would
be passed over with its number, and the serializer would wait for that number.

`StmProofs`, for any callers, paths and bounds: `TypeOK`, `OneVerdict` (the journal takes a
transaction once, however often it is sent, and none that it took is refused later), and
`NoLostUpdate`: what a caller has read was the value at the version it read, and what the
journal has after that version does not meet its transaction. Until the store is flushed, that
is: a flush begins the versions again, and a caller that read before it may overwrite what was
written after it. That takes three callers, more than the run has, and showed when the
invariant turned out not to be inductive; the property is stated for `startId = 0`.

`RefsProofs`, for any documents, lists and bounds: `TypeOK`, `Follows`, `FollowsKey` and
`NeverDangling`. The invariant is a chain of memories: the reader's, those that it will go
through, one for each transaction on the wire, and the author's. Each keeps an id once in a
list and has the document of each id. A set or a del of a member is a pair of transactions; the
reader between the two is followed after the second.

`SubscriptionsProofs`, for any targets, queries and bounds: `TypeOK` (forward and reverse indexes
agree), `SentOnce` (versions sent to a socket are at most `sockVer`, so that a second path or
glob that matches sends nothing; that no query matches as well is `CoversAssumption`, without
which it is false, see *Seen while modelling*) and `IdsSurviveBundle`. The last rests on what
registering can build (`RegOK`): numbers are given in order and every id is tagged when it
is added, so that registering the bundle's queries in its order gives each the id it had.

`InStep` is proved there too. Its invariant, `InStepInv`, follows a subscription through every
place that it may be in. *FlowOK*: a target that is confirmed is *watched*, that is, the store has
the model under it and no call that takes it out is under way; and every path of it is *told*: its
newest has been seen or is on its way (`Sure`). A request past its guard has, of the targets that
it has read, what was newest then, and each write since has reached the model, for it was entered
before it was read (`Good`); an answer has it of all of them; what a `replace` leaves out was sure
before (`Chained`), which is what lets a resync end the time of lost messages. A number that was
overtaken by a later subscribe or unsubscribe of the same target (`stamp`) says nothing, for which
`Matters` stands. *VersionsOK*: nothing that the model has, or that waits for it, is newer than what
was written, and each transaction under way is newer than the memory and than every message before
it; without this `_onTxn` could pass over the one that matters. Each action is shown once to lose
nothing (`Continues`), from which the parts of the invariant that it does not touch follow alike.

`LiveQueryProofs`, for any queries, filters, documents, values and bounds: `SnapshotConsistent` and
`NeverFlickers`. The invariant has two parts. *QueueOK*, the messages under way: each batch is what
the store made of one version for the queries that the model has the data of when it comes to it
(those it has now and those whose answers come before), and a version for which nothing was sent
shows the same to them as the one before. *MemoryOK*, what the memory is at the head of the queue:
the union of its queries at the version before the batch, with no stamp beyond it; and halfway
through a batch (*BegunOK*) each document is as it was or as it will be, the first of the two for a push
that has still to come, the second when nothing of what is left would change it. So a transaction
that two queries tell of is applied to the old document or once more to the new one, and all but
push may be; and an rmDoc that takes a document away finds no query of the model that has it,
in whatever order the queries come. Of the overlay the proof needs nothing: whether an addDoc is
taken for the document or for its transaction, the memory has the same document afterwards,
unless it had none, and then the document is astray.

`QueryResultProofs`, of LiveResult, for any documents, keys, bounds, limits and length of the
queue: `TypeOK`, `ResultIsQuery` and `InOrder`. Their conjunction is inductive as it stands, `InOrder` alone is not:
a document goes where its key belongs only if each document that the list has is in the
collection, which `ResultIsQuery` says. What a listener does
is shown once, for any list and any collection before and after that differ in one document
(`ListenRight`); the actions then say which two views these are. An own mutation changes what the
overlay shows of one document, whatever the overlay is (`ExtendShows`); somebody else's, below an
overlay that is kept or is built then, changes it of that document or of none (`ShowsBelow`,
`BuildBelow`). What a rebuilt overlay shows otherwise is astray. `Places` says where a set of documents stands in
its sorted list, and `CountedFromOne` where a document that moves within it goes.

`QueryResultProofs`, of PaginatedQuery, for any documents and keys, any skip and any limit of two
or more (`PageAssumption`; `NamesAssumption` only keeps the two marks apart from the documents and
each other): `PageTypeOK`, `PageKept` and `ToldPage`. Their conjunction is inductive: what the node
does to its cache is right only if the cache is the page, and what it publishes is right only if
the client has the page. The argument goes in four steps. What a write does to the sorted
documents: a list without one of them (`SortedWithout`), with one more (`Put`), or with one
elsewhere (`Trade`). What that does to the page of a list: it slides by one when something before
it comes or goes, loses its member and takes up the next, or grows while it is not full (`Slides`,
`Lapses`, `Grows`). Where the document stands, as the node finds out by comparing it with the
first and the last of its cache (`OldStands`, `NewStands`, `EntersAt`). Then that the node, in each
of the three shapes and nine pairs of places, does just that (`MovesKept`, `LeavesKept`,
`EntersKept`); and that its messages, heard in their order, leave the client with it (`SwapHeard`,
`GrowsHeard`, `RemoveHeard`). `MovesSound`, `LeavesSound` and `EntersSound` are for a cache that has
lost track, of which only `PageTypeOK` is left. With a limit of one the slice that the
node reads would begin before the page (see below), which is why it is assumed to be two.

Only model-checked: liveness and ENABLED, which the prover does not do; all of OtField, whose
properties would need the transformation property of operations on texts of any length, an
induction over both. What a recursive definition computes is proved where it is written as a
function on numbers, and not otherwise. The type invariants of TxnPipeline, LiveQuery and OtField
say what the state is made of; no run has them among its properties.

## Seen while modelling

Where the code does not do what it is there for, the modules do what the code does, and the
properties say what is left true. By component:

*Serializer, transactions, reconnection.* An early null transaction blocks the
draining loop at its own number (Serializer.js:66 against query.Model.js:132-135); a gap
behind a half-filled gap has no timer (Serializer.js:33-48); `clearPending` before
`setIndex` leaves covered entries (txns.Model.js:249-250). `socket.__ver` drops a
version that is published late (txns.Store.js:46-51 against README.md:44: with two
documents `BroadcastToAll` fails). A failed write stalls publication for good
(txns.Store.js:211-223); messages held back for one version leave in reverse
(txns.Store.js:138-148). A message lost in a short outage is never missed
(reconnect.Store.js:72-77 against README.md:46). A transaction sent twice is executed
twice and the second acknowledgement ignored (txns.Model.js:363-366).

*Live queries.* With an own del pending the overlay is a clone of the collection: a document
that left the queries is still in it, and when it comes back only its transaction is taken
(query.Model.js:81-91), so that the model has an incomplete document. A push on a document of two queries is applied twice
(QueryHub.js:138-154 against txns.Store.js:46, which is there to "Prevent sending
duplicate transactions"). The author of a write that moves a document out of its
queries keeps it (pubSub.Store.js:35); an rmDoc is ignored for the sake of a query not
yet subscribed at the store, or of a notEquals filter that passes undefined
(query.Model.js:136).

*OT.* A browser that was bundled before an operation and connects after it is not sent
it (ot.Store.js): its next remote operation throws.

*STM.* A transaction sent again is a 'duplicate' and gets no answer (txns.Store.js:258);
`flush` begins the journal again but leaves the number that `_txnApplier` waits for
(stm.js:108), so that nobody hears of what is accepted until the journal has caught up, and
the versions that callers have read are taken for versions after it; a transaction
without a version (force) conflicts with nothing; a caller with several gets loses `minVer`
(Async.js:230-237), and two of its sets that fail start two retries; `setNull` of what is there never calls back; `add` of an id that is taken is
tried again as often as retries are left; `model.async` answers a get without the
version (mutators.Model.js:26-57), so that its incr loses updates.

*Pages.* The members of a page that were not there when its cache was loaded are the memory
database's own objects (PaginatedQueryNode.js:121, 148, 175, 227, 247 and 293, where
PaginatedQueryNode.js:46-49 copies "So the cache members don't update in place"): a property
set of one has changed the cache before the node looks at it, so that the old document is
compared with the new one, and a client loses a document that stays on the page. `QueryHub.fetch` calls `result` and not `results`, so that a node's cache is
empty until the first write, which reads the page after it and then applies it again; the
first document of a page that moves within it is taken for one that goes to the page
before, the last for one that goes behind; a short page does not take in what comes at
its end; ties at the edges and a page that became empty go wrong; with a limit of one the
slice begins before the page; pages that are not sorted never change. A database that
answers later would use the channel of the last node of the loop (QueryHub.js:141-148).

*Result lists.* The overlay of the speculative view is kept until an own transaction is
answered (txns.Model.js:555-560), also when the memory under it is changed by others: after an
own del, which clones the collection (Memory.js:111-113), a document that somebody adds does not
show, after a remote set of the whole collection the old one still does, and when the answer
comes the view changes without an event. `find.onReplaceDoc` calls `onUpdateDocProperty` as a global
that does not exist; a refused transaction is taken back without an event; a remote set or del
that a pending transaction hides is announced all the same; a del of the collection empties
the list although pending documents show; a page at its limit is not filled again when
a member leaves; `findOne.onRmDoc` calls `equivFindQuery.syncRun`, which does not exist,
`findOne.onOverwriteNs` reads `docs[0].id` of an empty list, and count is never brought
up to date, for which reasons these two have no module.

*Subscriptions.* A client that is forgotten stays subscribed: `unsubscribe(clientId)`
is handed a string where it reads `socket.clientId` (reconnect.Store.js:55). `unregisterSubscribe`
(query.Model.js:173) and `QueryHub.unsubscribe` with one query (QueryHub.js:112) have not the
variables they use: a query cannot be unsubscribed from. Unsubscribing from a path that nobody is
subscribed to throws (channel-interface-pattern.js:75), where the test says it is harmless
(test/pubSubAdapter/index.coffee:100); `model.unsubscribe()` on the server throws in the
hub. The handler of 'unsubscribe' takes the callback for its context, so that it is never called.
With asynchronous guards and several targets an older read overwrites a newer
transaction (descriptor.Model.js:142-167); a subscribe that races an unsubscribe leaves the
store subscribed. A resync of a model without subscriptions gets no
answer; a subscription that was refused stays registered, so that the next resync is
refused as a whole, which is fatal to the model. `QueryRegistry.remove` splices without a
count and `_ordered` keeps what is removed, so that `bundle` would throw: no call reaches
either. `isPattern` (path.js:11) is true of what has no asterisk.

*Refs.* A del through a member of a refList leaves a hole in the pointers, and no event
tells of it; a set of a member gives the pointer before the document; a set of the whole
pointer list emits ids; a set of one pointer, or of the whole collection, emits nothing; an
index given by an id that is not in the list becomes 0 in `splice`; array methods by
index, applied against pending ones of others, part the lists in LWW mode.

## Plan

Of what the runs check, OtField's three properties and the liveness properties have no theorem,
for the reasons given under *What is proved*. What would add most next is the rest of the
source that *Not modelled* names, sessions first.

## Not modelled

Sessions, client ids, plugins, logging, the bundling of scripts, mongo and redis
adapters: wiring and I/O, or outside `src/lib`. The query languages' parsing
(`QueryBuilder`, motifs) only builds descriptions. `AtomicModel` is
required by no file of `src/lib` and its tests are commented out
(`src/test/Model/atomic.mocha.coffee`): no program reaches it.
Refs without a key are a change of path; reactive functions (`model.fn`) and reactive
filters recompute from their inputs on every event, and have nothing to fall behind with
except their listeners, which are those of Refs. `findOne` and count: see above. The hooks of `store`
and access control's rules are an application's.
