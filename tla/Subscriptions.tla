--------------------------- MODULE Subscriptions ---------------------------
(***************************************************************************)
(* The subscriptions of a model, from the server on which it is made to    *)
(* the browser (src/lib/descriptor: descriptor.Model, descriptor.Store,    *)
(* pattern, query.Model; src/lib/pubSub; the channels of                   *)
(* src/lib/adapters/pubsub-memory; src/lib/reconnect).                     *)
(*                                                                         *)
(* The model registers what it subscribes to and asks the store, which     *)
(* consults its guards, enters the subscription into its indexes, consults *)
(* the guards again and reads each target.  A write goes to whom the       *)
(* indexes name: to the model while it is on the server, over its socket,  *)
(* or into its buffer.  When the store has forgotten the model, it asks    *)
(* for the subscriptions that the model has registered.                    *)
(*                                                                         *)
(* The database answers within the call; others write, the model only      *)
(* reads.  A connection keeps the order and both ends see it break at      *)
(* once; the numbers of its messages are left out (TxnSync has both).  The *)
(* documents of a query all pass (LiveQuery has the ones that do not).     *)
(***************************************************************************)
EXTENDS QueryRegistry

CONSTANTS
  Paths,
  Patterns,      \* paths and globs that a model can subscribe to
  Globs,         \* those of them with a '*': channels of their own type
  Covers,        \* [Patterns \cup Queries -> the Paths that they match]
  Me, Others,    \* ids of subscribers: the model, and others
  OtherTargets,  \* bound on what the others subscribe to
  MaxVer,        \* bound on the writes
  MaxOps,        \* bound on what the model asks for
  MaxTargets,    \* bound on the targets of its first subscribe; each later
                 \* request leaves one fewer
  MaxConns       \* bound on its connections

Targets == Patterns \cup Queries
Subscribers == {Me} \cup Others

ASSUME SubscriptionsAssumption ==
  /\ Globs \subseteq Patterns /\ Me \notin Others /\ Patterns \cap Queries = {}
  /\ Covers \in [Targets -> SUBSET Paths]
  /\ OtherTargets \subseteq Patterns
  /\ {MaxVer, MaxOps, MaxTargets, MaxConns} \subseteq Nat
\* A write reaches the model by one query, or by any number of paths and globs: what
\* it is sent when a query matches and something else too is LiveQuery's.
ASSUME CoversAssumption ==
  \A q \in Queries : \A t \in Targets \ {q} : Covers[q] \cap Covers[t] = {}

VARIABLES
  \* the store
  db, ver,       \* the version at which a path was written last; the version
  fwd, rev,      \* forwardIndex and reverseIndex of the channels
  hub,           \* _reverseIndex of the QueryHub
  requests,      \* what it has begun to answer
  threw,         \* an exception that nobody catches; the store stops
  \* the network
  up, conns,     \* whether there is a connection; how many there were
  sockVer,       \* socket.__ver
  buffering, buffer,
  c2s, s2c,
  \* the model
  onServer, reg, patterns,
  data, memVer,
  \* history
  ops, stamp,    \* what it asked for, and the last time it did for a target
  acked,         \* targets whose last subscription was answered
  seen,          \* the newest of a path that reached the model
  lossy,         \* messages were lost and the store does not know
  shipped        \* the ids of the queries when the model was bundled

storeVars == <<db, ver, fwd, rev, hub, requests, threw>>
netVars == <<up, conns, sockVer, buffering, buffer, c2s, s2c>>
modelVars == <<onServer, reg, patterns, data, memVer>>
history == <<ops, stamp, acked, seen, lossy, shipped>>
vars == <<storeVars, netVars, modelVars, history>>

Unread == -1
Values == Unread .. MaxVer
Larger(m, n) == IF m < n THEN n ELSE m

Init ==
  /\ db = [p \in Paths |-> 0] /\ ver = 0
  /\ fwd = [t \in Targets |-> {}] /\ rev = [s \in Subscribers |-> {}]
  /\ hub = [s \in Subscribers |-> {}]
  /\ requests = {} /\ threw = "no"
  /\ up = FALSE /\ conns = 0 /\ sockVer = 0
  /\ buffering = FALSE /\ buffer = << >> /\ c2s = << >> /\ s2c = << >>
  /\ onServer = TRUE /\ reg = NewRegistry /\ patterns = {}
  /\ data = [p \in Paths |-> Unread] /\ memVer = 0
  /\ ops = 0 /\ stamp = [t \in Targets |-> 0] /\ acked = {}
  /\ seen = data /\ lossy = FALSE /\ shipped = << >>

-----------------------------------------------------------------------------
\* The indexes.

\* The interface that has a target; each has indexes of its own.
Interface(t) ==
  IF t \in Queries THEN "string" ELSE IF t \in Globs THEN "prefix" ELSE "pattern"

\* PubSub.subscribe
Enter(s, ts) ==
  /\ fwd' = [t \in Targets |-> IF t \in ts THEN fwd[t] \cup {s} ELSE fwd[t]]
  /\ rev' = [rev EXCEPT ![s] = @ \cup ts]
  /\ hub' = [hub EXCEPT ![s] = @ \cup (ts \cap Queries)]

\* Mutant of Leave: the pattern goes with its first subscriber.
LeaveAll(s, t) ==
  IF \A u \in rev[s] : Interface(u) # Interface(t)
  THEN UNCHANGED <<fwd, rev, hub, threw>>
  ELSE /\ rev' = [rev EXCEPT ![s] = @ \ {t}]
       /\ fwd' = [fwd EXCEPT ![t] = {}]
       /\ threw' = IF fwd[t] = {} THEN "path" ELSE threw
       /\ UNCHANGED hub

\* patternInterface.unsubscribe: whoever has other subscriptions, but none to a
\* pattern that nobody has either, meets an entry that is not there.
Leave(s, t) ==
  IF \A u \in rev[s] : Interface(u) # Interface(t)
  THEN UNCHANGED <<fwd, rev, hub, threw>>
  ELSE /\ rev' = [rev EXCEPT ![s] = @ \ {t}]
       /\ fwd' = [fwd EXCEPT ![t] = @ \ {s}]
       /\ threw' = IF fwd[t] = {} THEN "path" ELSE threw
       /\ UNCHANGED hub

\* Mutant of LeaveEvery: the QueryHub is not told.
LeaveEveryButHub(s, hasCallback) ==
  /\ fwd' = [t \in Targets |-> fwd[t] \ {s}]
  /\ rev' = [rev EXCEPT ![s] = {}]
  /\ UNCHANGED hub
  /\ threw' = IF hasCallback THEN "all" ELSE threw

\* unsubscribe without channels; with a callback, which only a model on the
\* server has, the QueryHub calls a function that it does not have.
LeaveEvery(s, hasCallback) ==
  /\ fwd' = [t \in Targets |-> fwd[t] \ {s}]
  /\ rev' = [rev EXCEPT ![s] = {}]
  /\ hub' = [hub EXCEPT ![s] = {}]
  /\ threw' = IF hasCallback THEN "all" ELSE threw

-----------------------------------------------------------------------------
\* What the model asks for.

Running == threw = "no"

\* A request that the store works on; what it reads comes together.
Request(type, asked) ==
  [type |-> type, asked |-> asked, live |-> TRUE,
   stage |-> IF type = "subscribe" THEN "guard" ELSE "fetch",
   left |-> DOMAIN asked, got |-> << >>, ver |-> 0]

\* Who asked has gone: what is read goes nowhere, what is entered stays.
HasGone(r) == [r EXCEPT !.live = FALSE, !.asked = [t \in DOMAIN r.asked |-> 0]]
Abandoned == {HasGone(r) : r \in {x \in requests : x.stage = "guard"}}

\* _addSub and _upstreamData: through the store, over the socket, or not at all.
Ask(type, asked) ==
  /\ requests' = IF onServer THEN requests \cup {Request(type, asked)} ELSE requests
  /\ c2s' = IF ~up THEN c2s ELSE Append(c2s, [type |-> type, asked |-> asked])

\* registerSubscribe
RegisterSub(r, q) == RegisterQuery(r, q, "subs")

\* subscribe: what it asks for is registered even if it cannot be asked for.
Subscribe(ts) ==
  /\ Running /\ ops < MaxOps
  /\ ops' = ops + 1
  /\ stamp' = [t \in Targets |-> IF t \in ts THEN ops + 1 ELSE stamp[t]]
  /\ patterns' = patterns \cup (ts \cap Patterns)
  /\ \E qs \in SetToSeqs(ts \cap Queries) : reg' = FoldLeft(RegisterSub, reg, qs)
  /\ Ask("subscribe", [t \in ts |-> ops + 1])
  /\ UNCHANGED <<db, ver, fwd, rev, hub, threw, up, conns, sockVer, buffering, buffer,
                 s2c, onServer, data, memVer, acked, seen, lossy, shipped>>

Fetch(t) ==
  /\ Running /\ ops < MaxOps
  /\ ops' = ops + 1
  /\ reg' = IF t \in Queries THEN RegisterQuery(reg, t, "fetch") ELSE reg
  /\ Ask("fetch", [u \in {t} |-> ops + 1])
  /\ UNCHANGED <<db, ver, fwd, rev, hub, threw, up, conns, sockVer, buffering, buffer,
                 s2c, onServer, patterns, data, memVer, stamp, acked, seen, lossy, shipped>>

\* unsubscribe of a pattern; of a query it throws, before it does anything.
Unsubscribe(t) ==
  /\ Running /\ ops < MaxOps
  /\ ops' = ops + 1 /\ stamp' = [stamp EXCEPT ![t] = ops + 1]
  /\ patterns' = patterns \ {t} /\ acked' = acked \ {t}
  /\ IF onServer THEN Leave(Me, t) ELSE UNCHANGED <<fwd, rev, hub, threw>>
  /\ c2s' = IF ~up THEN c2s
            ELSE Append(c2s, [type |-> "unsubscribe", asked |-> [u \in {t} |-> 0]])
  /\ UNCHANGED <<db, ver, requests, up, conns, sockVer, buffering, buffer, s2c,
                 onServer, reg, data, memVer, seen, lossy, shipped>>

\* unsubscribe without descriptors: nothing is taken from what is registered.
UnsubscribeAll ==
  /\ Running /\ ops < MaxOps
  /\ ops' = ops + 1 /\ stamp' = [t \in Targets |-> ops + 1]
  /\ acked' = {}
  /\ IF onServer THEN LeaveEvery(Me, TRUE) ELSE UNCHANGED <<fwd, rev, hub, threw>>
  /\ c2s' = IF ~up THEN c2s ELSE Append(c2s, [type |-> "unsubscribe", asked |-> << >>])
  /\ UNCHANGED <<db, ver, requests, up, conns, sockVer, buffering, buffer, s2c,
                 onServer, reg, patterns, data, memVer, seen, lossy, shipped>>

-----------------------------------------------------------------------------
\* The store.

\* What comes over the socket.  A model that it has forgotten is subscribed
\* without a guard; if it has nothing registered it gets no answer.
Receive ==
  /\ Running /\ c2s # << >>
  /\ c2s' = Tail(c2s)
  /\ LET m == Head(c2s)
     IN \/ /\ m.type = "unsubscribe"
           /\ IF DOMAIN m.asked = {} THEN LeaveEvery(Me, FALSE)
              ELSE \A t \in DOMAIN m.asked : Leave(Me, t)
           /\ UNCHANGED requests
        \/ /\ m.type \in {"subscribe", "fetch"}
           /\ requests' = requests \cup {Request(m.type, m.asked)}
           /\ UNCHANGED <<fwd, rev, hub, threw>>
        \/ /\ m.type = "subs"
           /\ Enter(Me, DOMAIN m.asked) /\ UNCHANGED threw
           /\ requests' = IF DOMAIN m.asked = {} THEN requests
                          ELSE requests \cup {Request("subs", m.asked)}
  /\ UNCHANGED <<db, ver, up, conns, sockVer, buffering, buffer, s2c>>
  /\ UNCHANGED <<modelVars, history>>

\* The guards let all the targets pass: they are entered before they are read.
Guarded(r) ==
  /\ Running /\ r.stage = "guard"
  /\ Enter(Me, DOMAIN r.asked)
  /\ requests' = (requests \ {r})
                 \cup (IF r.live THEN {[r EXCEPT !.stage = "fetch"]} ELSE {})
  /\ UNCHANGED <<db, ver, threw, netVars, modelVars, history>>

\* A guard refuses one of them, the first time or when it is read.  What was
\* entered stays; to a model that answers resyncWithStore it is fatal.
Refuse(r) ==
  /\ Running
  /\ requests' = requests \ {r}
  /\ s2c' = IF r.type = "subs" THEN Append(s2c, [type |-> "fatalErr"]) ELSE s2c
  /\ UNCHANGED <<db, ver, fwd, rev, hub, threw, up, conns, sockVer, buffering, buffer,
                 c2s, modelVars, history>>

Newer(f) == [p \in Paths |-> Larger(seen[p], f[p])]

\* _addData
AddData(got, v) ==
  /\ data' = Over(got, data)
  /\ memVer' = Larger(memVer, v)
  /\ seen' = Newer(Over(got, data))

Confirm(asked) == acked' = acked \cup {t \in DOMAIN asked : stamp[t] = asked[t]}

\* A request with one more target read.
HasRead(r, t) ==
  [r EXCEPT !.left = @ \ {t}, !.got = Over([p \in Covers[t] |-> db[p]], @),
            !.ver = IF Covers[t] = {} THEN @ ELSE ver]

\* One target is read; with the last one the answer goes out.
Read(r, t) ==
  /\ Running /\ r.stage = "fetch" /\ t \in r.left
  /\ \E done \in {HasRead(r, t)} :
       IF done.left # {}
       THEN /\ requests' = (requests \ {r}) \cup {done}
            /\ UNCHANGED <<s2c, data, memVer, seen, acked>>
       ELSE /\ requests' = requests \ {r}
            /\ s2c' = IF onServer THEN s2c
                      ELSE Append(s2c,
                             [type |-> IF r.type = "subs" THEN "replace" ELSE r.type,
                              asked |-> r.asked, got |-> done.got, ver |-> done.ver])
            /\ IF onServer
               THEN /\ AddData(done.got, done.ver)
                    /\ IF r.type = "fetch" THEN UNCHANGED acked ELSE Confirm(r.asked)
               ELSE UNCHANGED <<data, memVer, seen, acked>>
  /\ UNCHANGED <<db, ver, fwd, rev, hub, threw, up, conns, sockVer, buffering, buffer, c2s,
                 onServer, reg, patterns, ops, stamp, lossy, shipped>>

\* Mutant of Sends: socket.__ver is not looked at.
SendsEach(txn, n) == [k \in 1 .. n |-> txn]

\* A socket gets a transaction once, though by n paths and globs.  (A query would send
\* it again, under a fraction above its version; CoversAssumption leaves that out.)
Sends(txn, n) == IF n > 0 /\ txn.ver > sockVer THEN <<txn>> ELSE << >>

\* Somebody writes: publish emits it for every subscription that matches.
Write(p) ==
  /\ Running /\ ver < MaxVer
  /\ ver' = ver + 1 /\ db' = [db EXCEPT ![p] = ver + 1]
  /\ \E n \in {Cardinality({t \in Targets : Me \in fwd[t] /\ p \in Covers[t]})} :
     \E txn \in {[type |-> "txn", path |-> p, ver |-> ver + 1]} :
       /\ IF onServer /\ n > 0 THEN AddData([x \in {p} |-> ver + 1], ver + 1)
          ELSE UNCHANGED <<data, memVer, seen>>
       /\ s2c' = IF up THEN s2c \o Sends(txn, n) ELSE s2c
       /\ sockVer' = IF up /\ n > 0 THEN Larger(sockVer, ver + 1) ELSE sockVer
       /\ buffer' = IF buffering THEN buffer \o [k \in 1 .. n |-> txn] ELSE buffer
  /\ UNCHANGED <<fwd, rev, hub, requests, threw, up, conns, buffering, c2s, onServer,
                 reg, patterns, ops, stamp, acked, lossy, shipped>>

\* The others subscribe to OtherTargets only (a bound).
OtherSubscribe(o, t) ==
  /\ Running /\ t \notin rev[o]
  /\ Enter(o, {t})
  /\ UNCHANGED <<db, ver, requests, threw, netVars, modelVars, history>>

OtherUnsubscribe(o, t) ==
  /\ Running /\ t \in rev[o]
  /\ Leave(o, t)
  /\ UNCHANGED <<db, ver, requests, netVars, modelVars, history>>

-----------------------------------------------------------------------------
\* From the server to the browser, and the connections from there.

\* bundle, and its load in the browser.  The store buffers for the model.
Bundle ==
  /\ Running /\ onServer
  /\ onServer' = FALSE
  /\ reg' = LoadOf(BundleOf(reg)) /\ shipped' = IdsIn(reg)
  /\ buffering' = TRUE /\ requests' = Abandoned
  /\ UNCHANGED <<db, ver, fwd, rev, hub, threw, up, conns, sockVer, buffer, c2s, s2c,
                 patterns, data, memVer, ops, stamp, acked, seen, lossy>>

\* A socket: the buffer is sent, or the model is asked for its subscriptions.
Connect ==
  /\ Running /\ ~onServer /\ ~up /\ conns < MaxConns
  /\ up' = TRUE /\ conns' = conns + 1
  /\ s2c' = <<IF buffering THEN [type |-> "newTxns", txns |-> buffer]
              ELSE [type |-> "resync"]>>
  /\ buffering' = FALSE /\ buffer' = << >>
  /\ UNCHANGED <<storeVars, sockVer, c2s, modelVars, history>>

\* disconnect: the store begins to buffer.
Disconnected ==
  /\ up' = FALSE /\ sockVer' = 0 /\ c2s' = << >> /\ s2c' = << >>
  /\ buffering' = TRUE /\ requests' = Abandoned
  /\ lossy' = (lossy \/ \E k \in DOMAIN s2c : s2c[k].type \in {"txn", "newTxns"})

Drop ==
  /\ Running /\ up
  /\ Disconnected
  /\ UNCHANGED <<db, ver, fwd, rev, hub, threw, conns, buffer, modelVars,
                 ops, stamp, acked, seen, shipped>>

\* The timeout of _startTxnBuffer.  It unsubscribes nobody (README).
Expire ==
  /\ Running /\ buffering
  /\ buffering' = FALSE /\ buffer' = << >>
  /\ lossy' = TRUE
  /\ UNCHANGED <<storeVars, up, conns, sockVer, c2s, s2c, modelVars,
                 ops, stamp, acked, seen, shipped>>

\* _onTxn
OnTxn(m, txn) ==
  IF txn.ver > m.ver
  THEN [data |-> Over([p \in {txn.path} |-> txn.ver], m.data), ver |-> txn.ver]
  ELSE m

\* ... for each of them.
Applied(txns) == FoldLeft(OnTxn, [data |-> data, ver |-> memVer], txns)

ApplyTxns(txns) ==
  \E m \in {Applied(txns)} : data' = m.data /\ memVer' = m.ver /\ seen' = Newer(m.data)

\* What the model has registered: _subs
Subs == patterns \cup LookupWithTag(reg, "subs")

OnMessage(m) ==
  \/ /\ m.type = "txn"
     /\ ApplyTxns(<<m>>)
     /\ UNCHANGED <<c2s, acked, lossy>>
  \/ \* The Serializer waits for what was lost (TxnSync).
     /\ m.type = "txn" /\ lossy
     /\ seen' = Newer(Over([p \in {m.path} |-> m.ver], data))
     /\ UNCHANGED <<c2s, data, memVer, acked, lossy>>
  \/ /\ m.type = "newTxns"
     /\ ApplyTxns(m.txns)
     /\ UNCHANGED <<c2s, acked, lossy>>
  \/ /\ m.type \in {"subscribe", "fetch"}
     /\ AddData(m.got, m.ver)
     /\ IF m.type = "fetch" THEN UNCHANGED acked ELSE Confirm(m.asked)
     /\ UNCHANGED <<c2s, lossy>>
  \/ /\ m.type = "resync"
     /\ c2s' = Append(c2s, [type |-> "subs", asked |-> [t \in Subs |-> stamp[t]]])
     /\ UNCHANGED <<data, memVer, seen, acked, lossy>>
  \/ \* snapshotUpdate:replace: the rest is erased.
     /\ m.type = "replace"
     /\ data' = Over(m.got, [p \in Paths |-> Unread])
     /\ memVer' = m.ver
     /\ seen' = Newer(data')
     /\ Confirm(m.asked)
     /\ lossy' = FALSE
     /\ UNCHANGED c2s

ClientReceive ==
  /\ up /\ s2c # << >> /\ Head(s2c).type # "fatalErr"
  /\ s2c' = Tail(s2c)
  /\ OnMessage(Head(s2c))
  /\ UNCHANGED <<storeVars, up, conns, sockVer, buffering, buffer, onServer, reg, patterns,
                 ops, stamp, shipped>>

\* fatalErr: the model disconnects and does not connect again.
Fatal ==
  /\ up /\ s2c # << >> /\ Head(s2c).type = "fatalErr"
  /\ Disconnected
  /\ conns' = MaxConns
  /\ UNCHANGED <<db, ver, fwd, rev, hub, threw, buffer, modelVars, ops, stamp, acked,
                 seen, shipped>>

Next ==
  \/ \E ts \in SUBSET Targets :
       IsFiniteSet(ts) /\ Cardinality(ts) \in 1 .. MaxTargets - ops /\ Subscribe(ts)
  \/ \E t \in Targets : Fetch(t)
  \/ \E t \in Patterns : Unsubscribe(t)
  \/ UnsubscribeAll
  \/ Receive
  \/ \E r \in requests : Guarded(r) \/ Refuse(r) \/ \E t \in r.left : Read(r, t)
  \/ \E p \in Paths : Write(p)
  \/ \E o \in Others, t \in OtherTargets : OtherSubscribe(o, t) \/ OtherUnsubscribe(o, t)
  \/ Bundle \/ Connect \/ Drop \/ Expire \/ ClientReceive \/ Fatal

Spec == Init /\ [][Next]_vars

-----------------------------------------------------------------------------
\* Forward and reverse index agree, in every interface and in the hub, and the
\* registry has every query once and in each of its indexes.
TypeOK ==
  /\ db \in [Paths -> 0 .. MaxVer] /\ ver \in 0 .. MaxVer
  /\ \A t \in Targets : fwd[t] = {s \in Subscribers : t \in rev[s]}
  /\ \A s \in Subscribers : hub[s] = rev[s] \cap Queries
  /\ \A r \in requests : r.left # {} /\ (r.live \/ r.stage = "guard")
  /\ up \in BOOLEAN /\ conns \in 0 .. MaxConns
  /\ ~(buffering /\ up) /\ (buffer # << >> => buffering)
  /\ (onServer => conns = 0 /\ ~buffering /\ c2s = << >>)
  /\ data \in [Paths -> Values] /\ memVer \in 0 .. MaxVer
  /\ Indexed(reg) /\ acked \subseteq Subs

\* A transaction that is on its way to the model.
UnderWay(p) ==
  \/ \E k \in DOMAIN buffer : buffer[k].path = p /\ buffer[k].ver = db[p]
  \/ \E k \in DOMAIN s2c :
       \/ s2c[k].type = "txn" /\ s2c[k].path = p /\ s2c[k].ver = db[p]
       \/ /\ s2c[k].type = "newTxns"
          /\ \E txn \in ToSet(s2c[k].txns) : txn.path = p /\ txn.ver = db[p]

\* Once its last subscription to it was answered, and unless the connection
\* took messages with it, the model is in step with the store: what it lacks of
\* a path is on its way.  That the newest it had was not overwritten is part of
\* the condition: _addData sets what it is given (README).
InStep ==
  (Running /\ ~lossy) =>
    \A t \in acked : \A p \in Covers[t] :
      data[p] = seen[p] => (data[p] = db[p] \/ UnderWay(p))

\* socket.__ver: by however many paths and globs a transaction matches, on one
\* socket the versions go up (txns.Store.js:46-51).
SentOnce ==
  \A k \in DOMAIN s2c : s2c[k].type = "txn" =>
    /\ s2c[k].ver <= sockVer
    /\ \A j \in 1 .. k - 1 : s2c[j].type = "txn" => s2c[j].ver < s2c[k].ver

\* In the browser a query has the id that it had on the server: the result list
\* that was shipped under it is the one that the query looks for, whatever is
\* registered afterwards.
IdsSurviveBundle == \A q \in DOMAIN shipped : QueryId(reg, q) = shipped[q]
=============================================================================
