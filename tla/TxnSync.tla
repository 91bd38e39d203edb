------------------------------- MODULE TxnSync -------------------------------
(***************************************************************************)
(* A browser model and the store across connections that break             *)
(* (src/lib/txns/txns.Model.js, txns.Store.js, src/lib/reconnect,          *)
(* descriptor.Store.js): the model's queue of unacknowledged transactions, *)
(* its confirmed memory and its txnApplier; the store's versions, the      *)
(* clock that numbers what a client is sent, the buffer it keeps for a     *)
(* client that is away, and the snapshot that brings it up to date.        *)
(*                                                                         *)
(* The mode is LWW and the database db-memory, which answers at once: the  *)
(* store takes a transaction from the socket to its acknowledgement in one *)
(* step (TxnPipeline has the steps of a slower database).  The model       *)
(* follows every document by path.  Whatever others do reaches the store   *)
(* as the transactions of Others.                                          *)
(*                                                                         *)
(* A connection delivers in order and loses what is in flight when it      *)
(* breaks.  The browser notices that it broke before the store does.       *)
(***************************************************************************)
EXTENDS Serializer, SequencesExt

CONSTANTS
  Docs,
  Own,          \* transactions the browser model may commit
  Others,       \* transactions somebody else may commit
  DocOf,        \* the document each of them sets
  MaxConns,     \* bound on the number of connections
  MaxResends,   \* bound on the resend interval finding something to resend
  Reconnects    \* when the browser can be back: "any" time, once the store has
                \* "noticed" the old connection break, or once it has "forgotten"
                \* the client, its buffer having expired

Txns == Own \cup Others
Conns == 1 .. MaxConns

ASSUME TxnsAssumption == /\ Own \cap Others = {} /\ Null \notin Txns
                         /\ DocOf \in [Txns -> Docs]
ASSUME LimitsAssumption == MaxConns \in Nat /\ MaxResends \in Nat
ASSUME ReconnectsAssumption == Reconnects \in {"any", "noticed", "forgotten"}

VARIABLES
  \* the store
  executed,     \* executed[v]: the transaction that got version v
  clientNum,    \* _txnClock: the next number for the client, 0 if unregistered
  sock,         \* _clientSockets[clientId], 0 if there is none
  buffering,    \* whether clientId is in _txnBuffers
  buffer,       \* its buffer there
  open,         \* connections whose 'disconnect' the store has not seen
  \* the network
  up,           \* the connection the browser is on, 0 while it is offline
  conns,        \* the number of connections made so far
  c2s,          \* [Conns -> messages on their way to the store]
  s2c,          \* messages on their way to the browser, on connection up
  \* the browser
  committed,    \* its transactions so far
  queue,        \* _txnQueue
  ownVer,       \* the version written into each of its transactions
  data, memVer, \* _memory: the transaction seen last on each document; version
  ser,          \* txnApplier
  resends

storeVars == <<executed, clientNum, sock, buffering, buffer, open>>
netVars == <<up, conns, c2s, s2c>>
clientVars == <<committed, queue, ownVer, data, memVer, ser, resends>>
vars == <<storeVars, netVars, clientVars>>

\* The store just bundled the model: it buffers, nobody has connected.
Init ==
  /\ executed = << >> /\ clientNum = 0 /\ sock = 0
  /\ buffering = TRUE /\ buffer = << >> /\ open = {}
  /\ up = 0 /\ conns = 0 /\ c2s = [k \in Conns |-> << >>] /\ s2c = << >>
  /\ committed = {} /\ queue = << >> /\ ownVer = [t \in Own |-> 0]
  /\ data = [d \in Docs |-> Null] /\ memVer = 0
  /\ ser = NewSerializer(1) /\ resends = 0

-----------------------------------------------------------------------------
\* The store.

\* nextTxnNum registers a client it does not know.
Num == IF clientNum = 0 THEN 1 ELSE clientNum

\* socket.emit(...): only on the browser's connection does it get anywhere.
Emit(k, msg) == s2c' = IF k = up THEN Append(s2c, msg) ELSE s2c

EmitNumbered(k, msg) == Emit(k, msg) /\ clientNum' = Num + 1

\* The last transaction on d of the first v versions.
LastOn(d, v) ==
  LET vers == {w \in 1 .. v : DocOf[executed[w]] = d}
  IN IF vers = {} THEN Null
     ELSE executed[CHOOSE w \in vers : \A x \in vers : x <= w]

DataAt(v) == [d \in Docs |-> LastOn(d, v)]

\* Mutant of StoreTxn: a client without a socket is not buffered for.
StoreTxnUnbuffered(t) ==
  /\ t \notin Range(executed)
  /\ executed' = Append(executed, t)
  /\ IF sock # 0
     THEN EmitNumbered(sock, [type |-> "txn", id |-> t, ver |-> Len(executed) + 1, num |-> Num])
     ELSE UNCHANGED <<clientNum, s2c>>
  /\ UNCHANGED <<sock, buffering, buffer, open, up, conns, c2s, clientVars>>

\* Somebody else's transaction: to the socket, or to the buffer, or to nobody.
\* (Each version is published once and in order, so that it is always above
\* socket.__ver; TxnPipeline has the case in which it is not.)
StoreTxn(t) ==
  LET v == Len(executed) + 1 IN
  /\ t \notin Range(executed)
  /\ executed' = Append(executed, t)
  /\ \/ /\ sock # 0
        /\ EmitNumbered(sock, [type |-> "txn", id |-> t, ver |-> v, num |-> Num])
        /\ UNCHANGED buffer
     \/ /\ sock = 0
        /\ buffer' = IF buffering THEN Append(buffer, [id |-> t, ver |-> v]) ELSE buffer
        /\ UNCHANGED <<clientNum, s2c>>
  /\ UNCHANGED <<sock, buffering, open, up, conns, c2s, clientVars>>

\* What the store does with a message that came over connection k; it answers
\* on k, whatever the client's socket is by then.
OnMessage(k, msg) ==
  \/ /\ msg.type = "txn"
     /\ executed' = Append(executed, msg.id)
     /\ EmitNumbered(k, [type |-> "txnOk", id |-> msg.id, ver |-> Len(executed) + 1,
                         num |-> Num])
  \/ /\ msg.type \in {"subs", "fetch:snapshot"}
     /\ EmitNumbered(k, [type |-> "replace", ver |-> Len(executed), num |-> Num])
     /\ UNCHANGED executed

ServerReceive(k) ==
  /\ k \in open /\ c2s[k] # << >>
  /\ OnMessage(k, Head(c2s[k]))
  /\ c2s' = [c2s EXCEPT ![k] = Tail(@)]
  /\ UNCHANGED <<sock, buffering, buffer, open, up, conns, clientVars>>

\* Mutant of ServerDisconnect: the entry of _clientSockets stays.
ServerDisconnectKept(k) ==
  /\ k \in open /\ k # up
  /\ open' = open \ {k}
  /\ buffering' = TRUE
  /\ c2s' = [c2s EXCEPT ![k] = << >>]
  /\ UNCHANGED <<executed, clientNum, sock, buffer, up, conns, s2c, clientVars>>

\* The 'disconnect' of connection k.  The entry of _clientSockets goes, be it
\* of this connection or of a later one.
ServerDisconnect(k) ==
  /\ k \in open /\ k # up
  /\ open' = open \ {k}
  /\ sock' = 0
  /\ buffering' = TRUE /\ UNCHANGED buffer
  /\ c2s' = [c2s EXCEPT ![k] = << >>]
  /\ UNCHANGED <<executed, clientNum, up, conns, s2c, clientVars>>

\* Three seconds later.  The subscriptions stay: unsubscribe looks for the
\* clientId of the string it is given.
BufferExpire ==
  /\ buffering
  /\ buffering' = FALSE /\ buffer' = << >>
  /\ clientNum' = 0
  /\ UNCHANGED <<executed, sock, open, netVars, clientVars>>

-----------------------------------------------------------------------------
\* The network.

\* The first connection can always come; a later one when Reconnects allows it.
CanConnect ==
  \/ conns = 0
  \/ Reconnects = "any"
  \/ open = {} /\ (Reconnects = "forgotten" => ~buffering)

\* 'connection': the buffer if there is one, else the store asks for the
\* model's subscriptions.
Connect ==
  /\ up = 0 /\ conns < MaxConns /\ CanConnect
  /\ conns' = conns + 1 /\ up' = conns + 1
  /\ sock' = conns + 1
  /\ open' = open \cup {conns + 1}
  /\ s2c' = <<IF buffering THEN [type |-> "newTxns", txns |-> buffer]
                          ELSE [type |-> "resyncWithStore"]>>
  /\ buffering' = FALSE /\ buffer' = << >>
  /\ UNCHANGED <<executed, clientNum, c2s, clientVars>>

\* The browser's connection breaks; the store can still read what it was sent.
Drop ==
  /\ up # 0
  /\ up' = 0 /\ s2c' = << >>
  /\ UNCHANGED <<storeVars, conns, c2s, clientVars>>

-----------------------------------------------------------------------------
\* The browser.

\* commit: without a connection the transaction only waits in the queue.
SendAll(msgs) ==
  c2s' = IF up = 0 THEN c2s ELSE [c2s EXCEPT ![up] = @ \o msgs]

TxnMsgs(ids) == [i \in DOMAIN ids |-> [type |-> "txn", id |-> ids[i]]]

\* Mutant of Commit: the transaction waits in the queue although there is a
\* connection.
CommitUnsent(t) ==
  /\ t \in Own \ committed
  /\ committed' = committed \cup {t}
  /\ queue' = Append(queue, t)
  /\ UNCHANGED <<storeVars, netVars, ownVer, data, memVer, ser, resends>>

\* A mutation by the user.
Commit(t) ==
  /\ t \in Own \ committed
  /\ committed' = committed \cup {t}
  /\ queue' = Append(queue, t)
  /\ SendAll(TxnMsgs(<<t>>))
  /\ UNCHANGED <<storeVars, up, conns, s2c, ownVer, data, memVer, ser, resends>>

\* The places in a list of transactions at which _onTxn finds one newer than
\* the memory it then has.
Newer(txns, ver) ==
  {i \in DOMAIN txns : txns[i].ver > ver /\ \A j \in 1 .. (i - 1) : txns[j].ver < txns[i].ver}

\* The queue without the transactions ids.
Less(q, ids) ==
  LET kept[i \in 0 .. Len(q)] ==
        IF i = 0 THEN << >>
        ELSE IF q[i] \in ids THEN kept[i - 1] ELSE Append(kept[i - 1], q[i])
  IN kept[Len(q)]

\* Mutant of OnTxns: the version of the memory is not looked at.
OnTxnsAlways(txns) ==
  /\ memVer' = IF txns = << >> THEN memVer ELSE txns[Len(txns)].ver
  /\ data' = [d \in Docs |->
       LET on == {i \in DOMAIN txns : DocOf[txns[i].id] = d}
       IN IF on = {} THEN data[d] ELSE txns[CHOOSE i \in on : \A j \in on : j <= i].id]
  /\ queue' = Less(queue, {txns[i].id : i \in DOMAIN txns})

\* _onTxn for each of txns in turn: apply it and take it off the queue.
OnTxns(txns) ==
  LET new == Newer(txns, memVer)
      LastNew(S) == CHOOSE i \in S : \A j \in S : j <= i
      On(d) == {i \in new : DocOf[txns[i].id] = d}
  IN
  /\ memVer' = IF new = {} THEN memVer ELSE txns[LastNew(new)].ver
  /\ data' = [d \in Docs |-> IF On(d) = {} THEN data[d] ELSE txns[LastNew(On(d))].id]
  /\ queue' = Less(queue, {txns[i].id : i \in new})

\* One of the model's own transactions is the object in _txns, so that its
\* version is the one written there last.
Resolve(txns, vers) ==
  [i \in DOMAIN txns |-> IF txns[i].id \in Own
                         THEN [txns[i] EXCEPT !.ver = vers[txns[i].id]]
                         ELSE txns[i]]

\* txnApplier.add(txn, num), which calls _onTxn.
AddTxn(txn, num) ==
  \E stop \in Stops(ser, num) :
     /\ ser' = AfterAdd(ser, txn, num, stop, TRUE)
     /\ OnTxns(Resolve(Handed(ser, txn, num, stop), ownVer'))

TxnOf(msg) == [id |-> msg.id, ver |-> msg.ver]

OnTxnMessage(msg) ==
  /\ msg.type = "txn"
  /\ ownVer' = ownVer
  /\ AddTxn(TxnOf(msg), msg.num)
  /\ UNCHANGED c2s

\* An acknowledgement for something no longer queued is left, with its number.
OnTxnOk(msg) ==
  /\ msg.type = "txnOk"
  /\ IF msg.id \in Range(queue)
     THEN /\ ownVer' = [ownVer EXCEPT ![msg.id] = msg.ver]
          /\ AddTxn(TxnOf(msg), msg.num)
     ELSE UNCHANGED <<ownVer, data, memVer, queue, ser>>
  /\ UNCHANGED c2s

\* snapshotUpdate:newTxns comes without a number: the serializer waits for the
\* number it waited for.
OnNewTxns(msg) ==
  /\ msg.type = "newTxns"
  /\ OnTxns(msg.txns)
  /\ ser' = ClearPending(ser)
  /\ SendAll(TxnMsgs(queue'))
  /\ UNCHANGED ownVer

\* Mutant of OnReplace: the queue is not put back.
OnReplaceForgetting(msg) ==
  /\ msg.type = "replace"
  /\ ser' = SetIndex(ClearPending(ser), msg.num + 1)
  /\ data' = DataAt(msg.ver) /\ memVer' = msg.ver
  /\ queue' = << >>
  /\ UNCHANGED <<c2s, ownVer>>

\* snapshotUpdate:replace
OnReplace(msg) ==
  /\ msg.type = "replace"
  /\ ser' = SetIndex(ClearPending(ser), msg.num + 1)
  /\ data' = DataAt(msg.ver) /\ memVer' = msg.ver
  /\ ownVer' = [t \in Own |-> IF t \in Range(queue) THEN msg.ver ELSE ownVer[t]]
  /\ SendAll(TxnMsgs(queue))
  /\ UNCHANGED queue

OnResync(msg) ==
  /\ msg.type = "resyncWithStore"
  /\ SendAll(<<[type |-> "subs"]>>)
  /\ UNCHANGED <<queue, ownVer, data, memVer, ser>>

ClientReceive ==
  /\ up # 0 /\ s2c # << >>
  /\ LET msg == Head(s2c) IN
       \/ OnTxnMessage(msg) \/ OnTxnOk(msg) \/ OnNewTxns(msg)
       \/ OnReplace(msg) \/ OnResync(msg)
  /\ s2c' = Tail(s2c)
  /\ UNCHANGED <<storeVars, up, conns, committed, resends>>

\* onTimeout of txnApplier: offline it does nothing, and is not set again.
Timeout ==
  /\ ser.waiter
  /\ ser' = Expire(ser)
  /\ SendAll(<<[type |-> "fetch:snapshot"]>>)
  /\ UNCHANGED <<storeVars, up, conns, s2c, committed, queue, ownVer, data, memVer, resends>>

\* The resend interval: the oldest of the queue timed out, and so did, as far
\* as k, those behind it.
Resend(k) ==
  /\ up # 0 /\ k \in DOMAIN queue /\ resends < MaxResends
  /\ resends' = resends + 1
  /\ SendAll(TxnMsgs(SubSeq(queue, 1, k)))
  /\ UNCHANGED <<storeVars, up, conns, s2c, committed, queue, ownVer, data, memVer, ser>>

Next ==
  \/ \E t \in Others : StoreTxn(t)
  \/ \E k \in Conns : ServerReceive(k)
  \/ \E k \in Conns : ServerDisconnect(k)
  \/ BufferExpire
  \/ Connect
  \/ Drop
  \/ \E t \in Own : Commit(t)
  \/ ClientReceive
  \/ Timeout
  \/ \E k \in 1 .. Cardinality(Own) : Resend(k)

Spec == Init /\ [][Next]_vars

\* Messages are delivered while the connection lasts, broken connections are
\* noticed, timers fire, and socket.io connects again.
FairSpec ==
  /\ Spec
  /\ \A k \in Conns : WF_vars(ServerReceive(k)) /\ WF_vars(ServerDisconnect(k))
  /\ WF_vars(BufferExpire) /\ WF_vars(Connect) /\ WF_vars(ClientReceive) /\ WF_vars(Timeout)

-----------------------------------------------------------------------------
Versions == 1 .. Len(executed)
TxnVers == [id : Txns, ver : Versions]
C2SMessages == [type : {"txn"}, id : Own] \cup [type : {"subs", "fetch:snapshot"}]
S2CMessages ==
  [type : {"txn"}, id : Others, ver : Versions, num : Nat]
    \cup [type : {"txnOk"}, id : Own, ver : Versions, num : Nat]
    \cup [type : {"newTxns"}, txns : Seq([id : Others, ver : Versions])]
    \cup [type : {"replace"}, ver : 0 .. Len(executed), num : Nat]
    \cup [type : {"resyncWithStore"}]

\* The shape, and that a client's transactions are sent to its socket or buffered
\* for it, never both, across late and repeated connections and disconnections.
TypeOK ==
  /\ executed \in Seq(Txns) /\ clientNum \in Nat
  /\ sock \in 0 .. MaxConns
  /\ buffering \in BOOLEAN /\ buffer \in Seq([id : Others, ver : Versions])
  /\ (sock # 0 => ~buffering) /\ (~buffering => buffer = << >>)
  /\ open \subseteq Conns
  /\ up \in 0 .. MaxConns /\ conns \in 0 .. MaxConns
  /\ c2s \in [Conns -> Seq(C2SMessages)] /\ s2c \in Seq(S2CMessages)
  /\ committed \subseteq Own /\ queue \in Seq(committed)
  /\ ownVer \in [Own -> 0 .. Len(executed)]
  /\ data \in [Docs -> Txns \cup {Null}] /\ memVer \in 0 .. Len(executed)
  /\ ser.index \in Nat /\ ser.waiter \in BOOLEAN
  /\ ser.pending \in [DOMAIN ser.pending -> TxnVers] /\ DOMAIN ser.pending \subseteq Nat
  /\ resends \in 0 .. MaxResends

\* "Any changes to the local client [...] automatically sync upon reconnecting"
\* (README.md:46), the safety half: what the user did is in the queue until the
\* store has executed it, whatever is lost, resent or replaced meanwhile.
NothingForgotten == committed \subseteq Range(queue) \cup Range(executed)

\* The confirmed memory never goes back to an earlier version.
MemoryForward == [][memVer' >= memVer]_vars

\* Nothing is under way and no timer runs: the browser, connected, believes
\* that it is up to date.
Quiet ==
  /\ up # 0 /\ open = {up} /\ s2c = << >> /\ c2s[up] = << >>
  /\ ~ser.waiter /\ queue = << >> /\ ~buffering

\* A transaction sent again before its acknowledgement came is executed again,
\* and a model that has been told of the first time ignores the second.
ExecutedOnce == IsInjective(executed)

\* "Any changes to the local client or the global state automatically sync upon
\* reconnecting" (README.md:46): once quiet, and if nothing was executed twice,
\* the model has what the store has.  Outages that the store notices late, and
\* that are over before it forgets the client, break this (README).
OnceMeansSynced == Quiet /\ ExecutedOnce => data = DataAt(Len(executed))

\* If the connection lasts, the browser ends up with what the store has and
\* with nothing left to send, unless the store executed something twice.
Converges ==
  <>[](up # 0) =>
    <>[](ExecutedOnce => data = DataAt(Len(executed)) /\ queue = << >>)
=============================================================================
