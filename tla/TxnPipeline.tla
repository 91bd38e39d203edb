----------------------------- MODULE TxnPipeline -----------------------------
(***************************************************************************)
(* What the store does with a transaction once it accepted it              *)
(* (src/lib/txns/txns.Store.js with the LWW mode, Store#_sendToDb and the  *)
(* memory pub/sub): give it the next version, write it to the database     *)
(* under the write lock of its document, publish it to the subscribers and *)
(* answer its author, holding back what must not overtake an earlier       *)
(* version.  A transaction is named by its version.                        *)
(*                                                                         *)
(* The middleware runs to the database call without a pause, and from the  *)
(* database's answer to the end without a pause: these are the two halves  *)
(* Submit and WriteDone/WriteFail.  Between them anything can happen.      *)
(*                                                                         *)
(* Each author's connection stays up here (TxnSync lets it break), and     *)
(* pub/sub and the query nodes answer synchronously, as the memory         *)
(* adapters and QueryNode do.                                              *)
(***************************************************************************)
EXTENDS Naturals, Sequences, FiniteSets, SequencesExt

CONSTANTS
  Clients,      \* browser models, each behind a socket
  Models,       \* models that live in the store's process (_localModels)
  Store,        \* the store as an author (store.set(...))
  Docs,         \* documents, the unit of the write locks
  PathSubs,     \* <<subscriber, document>> pairs subscribed by path
  QueryOrder,   \* the query nodes of the hub, in the order it visits them
  QuerySubs,    \* <<subscriber, query>> pairs
  MaxTxns,      \* bound on the number of transactions
  MaxInFlight,  \* bound on those between Submit and WriteDone; 1 when the
                \* database adapter answers synchronously, as db-memory does
  MayFail       \* whether a database write can fail

Subscribers == Clients \cup Models
Authors == Subscribers \cup {Store}
Queries == Range(QueryOrder)
Versions == 1 .. MaxTxns

ASSUME ActorsAssumption == Store \notin Subscribers /\ Clients \cap Models = {}
ASSUME BoundsAssumption == MaxTxns \in Nat /\ MaxInFlight \in Nat /\ MayFail \in BOOLEAN
ASSUME SubsAssumption   == /\ PathSubs \subseteq Subscribers \X Docs
                           /\ QuerySubs \subseteq Subscribers \X Queries
                           /\ QueryOrder \in Seq(Queries)

VARIABLES
  txns,               \* txns[v]: the author and the document of version v
  writing,            \* versions whose write the database is working on
  writeLocks,         \* documents that are locked
  waitingForUnlock,   \* [Docs -> versions in the order they will be written]
  stored,             \* versions in the order the database wrote them
  failed,             \* versions whose write failed, their author told so
  versToPublish,      \* versions not yet emitted, in order
  publishQueueByVer,  \* what is held back for each of them
  emitted,            \* what went to the sockets, one batch for each version
  sockVer,            \* [Clients -> version], socket.__ver rounded down
  memVer,             \* [Models -> version], memory.version
  applied,            \* [Models -> versions applied, in order]
  pending             \* [Models -> own versions not yet removed from _txnQueue]

dbVars == <<writing, writeLocks, waitingForUnlock>>
pubVars == <<versToPublish, publishQueueByVer, emitted, sockVer>>
modelVars == <<memVer, applied, pending>>
vars == <<txns, dbVars, stored, failed, pubVars, modelVars>>

NoMessages == [c \in Clients |-> << >>]

Init ==
  /\ txns = << >>
  /\ writing = {} /\ writeLocks = {}
  /\ waitingForUnlock = [d \in Docs |-> << >>]
  /\ stored = << >> /\ failed = {}
  /\ versToPublish = << >>
  /\ publishQueueByVer = [v \in {} |-> [okToClear |-> FALSE, list |-> NoMessages]]
  /\ emitted = << >>
  /\ sockVer = [c \in Clients |-> 0]
  /\ memVer = [m \in Models |-> 0]
  /\ applied = [m \in Models |-> << >>]
  /\ pending = [m \in Models |-> {}]

-----------------------------------------------------------------------------
\* Mutant of SendToDb: who waits for the lock goes to the front.
SendToDbInFront(v, d) ==
  IF d \in writeLocks
  THEN /\ waitingForUnlock' = [waitingForUnlock EXCEPT ![d] = <<v>> \o @]
       /\ UNCHANGED <<writing, writeLocks>>
  ELSE /\ writeLocks' = writeLocks \cup {d}
       /\ writing' = writing \cup {v}
       /\ UNCHANGED waitingForUnlock

\* _sendToDb: take the lock of the document, or queue up behind it.
SendToDb(v, d) ==
  IF d \in writeLocks
  THEN /\ waitingForUnlock' = [waitingForUnlock EXCEPT ![d] = Append(@, v)]
       /\ UNCHANGED <<writing, writeLocks>>
  ELSE /\ writeLocks' = writeLocks \cup {d}
       /\ writing' = writing \cup {v}
       /\ UNCHANGED waitingForUnlock

\* Mutant of LockingDone: the lock is free although the next one writes.
LockingDoneUnlocked(v, d) ==
  /\ writeLocks' = writeLocks \ {d}
  /\ writing' = (writing \ {v}) \cup
       (IF waitingForUnlock[d] = << >> THEN {} ELSE {Head(waitingForUnlock[d])})
  /\ waitingForUnlock' =
       [waitingForUnlock EXCEPT ![d] = IF @ = << >> THEN @ ELSE Tail(@)]

\* Mutant of LockingDone: nobody in the queue is told.
LockingDoneSilent(v, d) ==
  /\ writeLocks' = writeLocks \ {d}
  /\ writing' = writing \ {v}
  /\ UNCHANGED waitingForUnlock

\* lockingDone: release the lock, and let the first in the queue take it.
LockingDone(v, d) ==
  IF waitingForUnlock[d] = << >>
  THEN /\ writeLocks' = writeLocks \ {d}
       /\ writing' = writing \ {v}
       /\ UNCHANGED waitingForUnlock
  ELSE /\ writing' = (writing \ {v}) \cup {Head(waitingForUnlock[d])}
       /\ waitingForUnlock' = [waitingForUnlock EXCEPT ![d] = Tail(@)]
       /\ UNCHANGED writeLocks

InFlight == Cardinality(writing) + Cardinality(UNION {Range(waitingForUnlock[d]) : d \in Docs})

\* incrVer, serialEmitPrep, writeToDb.
Submit(a, d) ==
  LET v == Len(txns) + 1 IN
  /\ v <= MaxTxns /\ InFlight < MaxInFlight
  /\ txns' = Append(txns, [author |-> a, doc |-> d])
  /\ versToPublish' = Append(versToPublish, v)
  /\ publishQueueByVer' = [w \in DOMAIN publishQueueByVer \cup {v} |->
                             IF w = v THEN [okToClear |-> FALSE, list |-> NoMessages]
                                      ELSE publishQueueByVer[w]]
  /\ pending' = [m \in Models |-> IF m = a THEN pending[m] \cup {v} ELSE pending[m]]
  /\ SendToDb(v, d)
  /\ UNCHANGED <<stored, failed, emitted, sockVer, memVer, applied>>

-----------------------------------------------------------------------------
(***************************************************************************)
(* Publishing version v.  Each query of the hub that the write affects     *)
(* makes of it a txn, an addDoc or an rmDoc, with a version a little above *)
(* v (pseudoVer): rank is its place among the messages of v, 0 for the     *)
(* transaction itself.                                                     *)
(***************************************************************************)
Effects == [Queries -> {"none", "txn", "addDoc", "rmDoc"}]

\* What reaches the subscriber s through the i-th query.
QueryMessages(i, s, eff, fresh) ==
  IF /\ <<s, QueryOrder[i]>> \in QuerySubs
     /\ eff[QueryOrder[i]] # "none"
     /\ eff[QueryOrder[i]] = "txn" => fresh
  THEN <<[type |-> eff[QueryOrder[i]], rank |-> i]>> ELSE << >>

Then(msgs, more) == msgs \o more

\* The messages that reach the subscriber s, in the order they are published: the
\* transaction by path, then what each query in turn makes of it.
\* fresh: the check of a 'txn' against the versions s already has.
Messages(v, s, eff, fresh) ==
  IF txns[v].author = s THEN << >>
  ELSE FoldLeft(Then,
                IF fresh /\ <<s, txns[v].doc>> \in PathSubs
                THEN <<[type |-> "txn", rank |-> 0]>> ELSE << >>,
                [i \in DOMAIN QueryOrder |-> QueryMessages(i, s, eff, fresh)])

TxnsOf(msgs) == SelectSeq(msgs, LAMBDA msg : msg.type = "txn")

\* Mutant of SocketMessages: the version is compared with the newest one.
SocketMessagesNewest(v, c, eff) == Messages(v, c, eff, v >= Len(txns))

\* pubSub.on('txn') for a socket: only versions above socket.__ver pass.
SocketMessages(v, c, eff) == Messages(v, c, eff, v > sockVer[c])

\* The 'txnOk' of authorAck; for a model or the store serialCleanup emits nothing.
Ack(v, c) == IF txns[v].author = c THEN <<[type |-> "txnOk", rank |-> 0]>> ELSE << >>

Batch(v, eff) == [c \in Clients |-> SocketMessages(v, c, eff) \o Ack(v, c)]

\* Mutant of FlushesUpTo: flush does not go on to the next version.
FlushesUpToOne(k) == k = 1 /\ k <= Len(versToPublish)

\* Mutant of FlushesUpTo: flush does not look at okToClear.
FlushesUpToAll(k) == k = Len(versToPublish)

\* flush stops after the k-th version to publish: the first one was just
\* acknowledged, those behind it were before it.
FlushesUpTo(k) ==
  /\ k \in 1 .. Len(versToPublish)
  /\ \A i \in 2 .. k : publishQueueByVer[versToPublish[i]].okToClear
  /\ k < Len(versToPublish) => ~publishQueueByVer[versToPublish[k + 1]].okToClear

\* Mutant of EmitOrHold: a message goes out when its version is stored.
EmitNow(v, batch) ==
  /\ emitted' = Append(emitted, [ver |-> v, to |-> batch])
  /\ versToPublish' = SelectSeq(versToPublish, LAMBDA w : w # v)
  /\ publishQueueByVer' =
       [w \in DOMAIN publishQueueByVer \ {v} |-> publishQueueByVer[w]]

(***************************************************************************)
(* serialEmit and serialCleanup.  At the head of the line the messages of  *)
(* v go out at once, the acknowledgement last, and flush sends what was    *)
(* held back for the versions behind it.  Otherwise tmp keeps them: its    *)
(* comparison of an emit function with a version is never true, so each    *)
(* goes to the front of the list.                                          *)
(***************************************************************************)
EmitOrHold(v, batch) ==
  \/ /\ v = Head(versToPublish)
     /\ \E k \in DOMAIN versToPublish :
          /\ FlushesUpTo(k)
          /\ emitted' = emitted \o
               [i \in 1 .. k |->
                  [ver |-> versToPublish[i],
                   to  |-> IF i = 1 THEN batch
                                    ELSE publishQueueByVer[versToPublish[i]].list]]
          /\ versToPublish' = SubSeq(versToPublish, k + 1, Len(versToPublish))
          /\ publishQueueByVer' =
               [w \in DOMAIN publishQueueByVer \ {versToPublish[i] : i \in 1 .. k} |->
                  publishQueueByVer[w]]
  \/ /\ v # Head(versToPublish)
     /\ publishQueueByVer' =
          [publishQueueByVer EXCEPT
             ![v] = [okToClear |-> TRUE,
                     list |-> [c \in Clients |-> Reverse(batch[c])]]]
     /\ UNCHANGED <<versToPublish, emitted>>

\* Mutant of Newer: off by one.
NewerByTwo(v, m) == v > memVer[m] + 1

\* _onTxn: a model ignores what is not newer than its memory.
Newer(v, m) == v > memVer[m]

\* What a model in the store's process is handed of version v: its own
\* transaction comes back by res.send, another's once for each subscription.
Hears(v, m, eff) ==
  IF txns[v].author = m
  THEN <<v>>
  ELSE [i \in DOMAIN TxnsOf(Messages(v, m, eff, TRUE)) |-> v]

\* publish, then authorAck, of version v: sockets through serialEmit, local
\* models directly.
Publish(v, eff) ==
  LET Applies(m) == Newer(v, m) /\ Hears(v, m, eff) # << >> IN
  /\ sockVer' = [c \in Clients |-> IF TxnsOf(SocketMessages(v, c, eff)) # << >>
                                   THEN v ELSE sockVer[c]]
  /\ memVer' = [m \in Models |-> IF Applies(m) THEN v ELSE memVer[m]]
  /\ applied' = [m \in Models |-> IF Applies(m) THEN applied[m] \o Hears(v, m, eff)
                                                ELSE applied[m]]
  /\ pending' = [m \in Models |-> IF Applies(m) THEN pending[m] \ {v} ELSE pending[m]]
  /\ EmitOrHold(v, Batch(v, eff))

\* The database has written version v: lockingDone, then the middleware goes on.
WriteDone(v) ==
  /\ v \in writing
  /\ LockingDone(v, txns[v].doc)
  /\ stored' = Append(stored, v)
  /\ \E eff \in Effects : Publish(v, eff)
  /\ UNCHANGED <<txns, failed>>

\* The database refuses version v: lockingDone, then res.fail.  The version
\* keeps its place in versToPublish.
WriteFail(v) ==
  /\ MayFail
  /\ v \in writing
  /\ LockingDone(v, txns[v].doc)
  /\ failed' = failed \cup {v}
  /\ pending' = [m \in Models |-> pending[m] \ {v}]
  /\ UNCHANGED <<txns, stored, pubVars, memVer, applied>>

Next ==
  \/ \E a \in Authors, d \in Docs : Submit(a, d)
  \/ \E v \in writing : WriteDone(v)
  \/ \E v \in writing : WriteFail(v)

Spec == Init /\ [][Next]_vars

\* The database answers every write it was given.
FairSpec == Spec /\ \A v \in Versions : WF_vars(WriteDone(v) \/ WriteFail(v))

-----------------------------------------------------------------------------
Messages0 == [type : {"txn", "addDoc", "rmDoc", "txnOk"}, rank : 0 .. Len(QueryOrder)]
Batches == [Clients -> Seq(Messages0)]
Held == [okToClear : BOOLEAN, list : Batches]

\* Every variable keeps its shape (txns.Store.js:109-110, Store.js:265-323).
TypeOK ==
  /\ txns \in Seq([author : Authors, doc : Docs])
  /\ writing \subseteq DOMAIN txns
  /\ writeLocks \subseteq Docs
  /\ waitingForUnlock \in [Docs -> Seq(DOMAIN txns)]
  /\ stored \in Seq(DOMAIN txns) /\ failed \subseteq DOMAIN txns
  /\ versToPublish \in Seq(DOMAIN txns)
  /\ publishQueueByVer \in [DOMAIN publishQueueByVer -> Held]
  /\ emitted \in Seq([ver : DOMAIN txns, to : Batches])
  /\ sockVer \in [Clients -> Nat]
  /\ memVer \in [Models -> Nat]
  /\ applied \in [Models -> Seq(DOMAIN txns)]
  /\ pending \in [Models -> SUBSET DOMAIN txns]

\* "Make sure to send messages back to the user in an order that is monotonic
\* with the version number" (txns.Store.js:107): whatever order the database
\* answers in, versions go out one after the other and none is skipped.
EmittedInOrder == \A i \in DOMAIN emitted : emitted[i].ver = i

\* Nothing reaches a client before the database has it.
EmittedWereStored == \A i \in DOMAIN emitted : emitted[i].ver \in Range(stored)

\* A version that the database has written is held back only because an
\* earlier one is unfinished: flush leaves nothing behind.
HeadUnfinished == versToPublish # << >> => Head(versToPublish) \notin Range(stored)

\* Two transactions on one document are written in the order of their
\* versions, however their writes were queued (Store.js:265-323).
WritesInOrder ==
  \A i, j \in DOMAIN stored :
     i < j /\ txns[stored[i]].doc = txns[stored[j]].doc => stored[i] < stored[j]

\* A document is locked exactly while one write on it is with the database, so
\* that nobody waits for a lock that nobody will release.
LocksHeld ==
  \A d \in Docs :
     LET writers == {v \in writing : txns[v].doc = d} IN
     /\ d \in writeLocks => \E v \in writing : writers = {v}
     /\ d \notin writeLocks => writers = {} /\ waitingForUnlock[d] = << >>

TypesOf(msgs) == [i \in DOMAIN msgs |-> msgs[i].type]

\* "If the updates are successful, they are stored and broadcast to other
\* clients" (README.md:44): everyone subscribed by path to the document of a
\* transaction, its author aside, is sent it.
BroadcastToAll ==
  \A i \in DOMAIN emitted, c \in Clients :
     LET txn == txns[emitted[i].ver] IN
     <<c, txn.doc>> \in PathSubs /\ txn.author # c
        => "txn" \in Range(TypesOf(emitted[i].to[c]))

\* Every transaction that the store accepted goes out in the end.
AllEmitted ==
  \A v \in Versions : (v \in DOMAIN txns) ~> (v \in DOMAIN emitted)

\* A model in the store's process gets rid of each transaction it committed, so
\* that bundle, which waits for that, can return (txns.Model.js:31-33, 206-214).
ModelsFinish ==
  \A m \in Models, v \in Versions : (v \in pending[m]) ~> (v \notin pending[m])
=============================================================================
