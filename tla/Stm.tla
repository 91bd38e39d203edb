-------------------------------- MODULE Stm --------------------------------
(***************************************************************************)
(* The store in STM mode (src/lib/modes/stm.js, adapters/journal-memory)   *)
(* and those who write to it: browser models, which send a transaction     *)
(* with the version of their memory and send it again when no answer came  *)
(* for long, and callers of the retrying mutators of                       *)
(* src/lib/mutators/Async.js, which read, compute and set, and start again *)
(* when the set meets a conflict.                                          *)
(*                                                                         *)
(* Journal and database are the memory adapters: what a transaction does   *)
(* to the store it does within one call.  Only a read answers later, as it *)
(* does over a network.  A path stands for a value with all that is above  *)
(* and below it, so that paths conflict if they are equal.  The connection *)
(* holds, and every model is subscribed to every path.                     *)
(***************************************************************************)
EXTENDS Integers, Sequences, FiniteSets, SequencesExt

CONSTANTS
  Paths,
  Models,        \* browser models
  Callers,       \* callers of retrying mutators
  ModelPaths,    \* those of them that models write to
  Absent,        \* no value
  None,          \* a version that is not given
  Kinds,         \* mutators that are called: "incr", "setNull", "add"
  VersionRead,   \* get answers with the version read; model.async's does not
  MaxRetries,    \* MAX_RETRIES
  MaxTxns,       \* bound on the transactions of a model
  MaxResends,    \* bound on what is sent again
  MaxFlushes     \* bound on flushes of the store

ASSUME StmAssumption ==
  /\ VersionRead \in BOOLEAN /\ ModelPaths \subseteq Paths
  /\ Kinds \subseteq {"incr", "setNull", "add"}
  /\ {MaxRetries, MaxTxns, MaxResends, MaxFlushes} \subseteq Nat
ASSUME NamesAssumption ==
  Models \cap Callers = {} /\ Absent \notin Nat /\ None \notin Nat

VARIABLES
  journal,       \* the accepted transactions; its length is the version
  index,         \* _txnApplier._index
  startId,       \* how often the journal was begun
  db, dbVer,
  c2s, s2c,
  model,
  caller,
  resends,
  refused        \* history: ids of transactions that a txnErr was sent for

vars == <<journal, index, startId, db, dbVer, c2s, s2c, model, caller, resends, refused>>

Values == Nat \cup {Absent}
Ids == [by : Models \cup Callers, n : Nat]

-----------------------------------------------------------------------------
\* The middleware of a transaction.

\* transaction.conflict: a model's later transaction does not conflict with
\* its earlier ones; the ids of the retrying mutators begin with '#'.
Meets(txn, old) ==
  /\ txn.path = old.path
  /\ ~(txn.id.by \in Models /\ txn.id.by = old.id.by /\ txn.id.n > old.id.n)

\* Mutant of Since: the walk begins one transaction too late.
SinceLate(ver) == IF ver = None THEN {} ELSE {k \in DOMAIN journal : k > ver + 1}

\* The entries that eachTxnSince walks over; without a version it meets none.
Since(ver) == IF ver = None THEN {} ELSE {k \in DOMAIN journal : k > ver}

\* Mutant of Verdict: the same transaction is not recognized.
VerdictBlind(txn) ==
  IF \E k \in Since(txn.ver) : Meets(txn, journal[k]) THEN "conflict" ELSE "ok"

\* detectConflict stops at the first entry that meets the transaction.
Verdict(txn) ==
  LET met == {k \in Since(txn.ver) : Meets(txn, journal[k])} IN
  IF met = {} THEN "ok"
  ELSE IF journal[CHOOSE k \in met : \A j \in met : k <= j].id = txn.id
  THEN "duplicate" ELSE "conflict"

\* Mutant of AddToJournal: the number is one behind.
AddToJournalBehind(txn) ==
  /\ journal' = Append(journal, txn)
  /\ index' = IF index = Len(journal) THEN index + 1 ELSE index

\* addToJournal, up to the call of the middleware that follows.
AddToJournal(txn) ==
  /\ journal' = Append(journal, txn)
  /\ index' = IF index = Len(journal) + 1 THEN index + 1 ELSE index

\* The middleware goes on only if the number is the one that _txnApplier waits
\* for, which it is not after a flush.
GoesOn == index = Len(journal) + 1

\* incrVer, writeToDb and publish.
WriteToDb(txn) ==
  IF GoesOn
  THEN db' = [db EXCEPT ![txn.path] = txn.val] /\ dbVer' = Len(journal) + 1
  ELSE UNCHANGED <<db, dbVer>>

\* What the models are sent of an accepted transaction.
Told(txn) ==
  [m \in Models |->
     IF ~GoesOn THEN s2c[m]
     ELSE Append(s2c[m], [type |-> IF m = txn.id.by THEN "txnOk" ELSE "txn",
                          id |-> txn.id, ver |-> Len(journal) + 1])]

Accept(txn) ==
  AddToJournal(txn) /\ WriteToDb(txn) /\ s2c' = Told(txn) /\ UNCHANGED refused

\* res.fail: a model is told, except of a duplicate.
Refuse(txn, err) ==
  /\ IF err = "duplicate" THEN UNCHANGED <<s2c, refused>>
     ELSE /\ s2c' = [s2c EXCEPT ![txn.id.by] =
                       Append(@, [type |-> "txnErr", id |-> txn.id, ver |-> 0])]
          /\ refused' = refused \cup {txn.id}
  /\ UNCHANGED <<journal, index, db, dbVer>>

-----------------------------------------------------------------------------
Init ==
  /\ journal = << >> /\ index = 1 /\ startId = 0
  /\ db = [p \in Paths |-> Absent] /\ dbVer = 0
  /\ c2s = [m \in Models |-> << >>] /\ s2c = [m \in Models |-> << >>]
  /\ model = [m \in Models |-> [ver |-> 0, start |-> 0, pending |-> {}, made |-> 0]]
  /\ caller \in [Callers -> [kind : Kinds, path : Paths, phase : {"called"},
                             val : {Absent}, ver : {0}, since : {0}, retries : {0}]]
  /\ resends = 0 /\ refused = {}

\* A model sets or deletes: _opToTxn, queued and sent.
Commit(m) ==
  /\ model[m].made < MaxTxns
  /\ \E p \in ModelPaths, val \in {0, Absent} :
       LET txn == [id |-> [by |-> m, n |-> model[m].made], path |-> p, val |-> val,
                   ver |-> model[m].ver, kind |-> "set", since |-> model[m].start]
       IN /\ model' = [model EXCEPT ![m].made = @ + 1, ![m].pending = @ \cup {txn}]
          /\ c2s' = [c2s EXCEPT ![m] = Append(@, txn)]
  /\ UNCHANGED <<journal, index, startId, db, dbVer, s2c, caller, resends, refused>>

\* resend: a transaction without an answer goes out again as it was.
Resend(m) ==
  /\ resends < MaxResends
  /\ \E txn \in model[m].pending : c2s' = [c2s EXCEPT ![m] = Append(@, txn)]
  /\ resends' = resends + 1
  /\ UNCHANGED <<journal, index, startId, db, dbVer, s2c, model, caller, refused>>

\* socket.on('txn'): startIdVerifier, detectConflict, addToJournal, ...
StoreReceive(m) ==
  /\ c2s[m] # << >>
  /\ LET txn == Head(c2s[m]) IN
     IF txn.since # startId THEN Refuse(txn, "startId")
     ELSE IF Verdict(txn) = "ok" THEN Accept(txn)
     ELSE Refuse(txn, Verdict(txn))
  /\ c2s' = [c2s EXCEPT ![m] = Tail(@)]
  /\ UNCHANGED <<startId, model, caller, resends>>

\* 'txn', 'txnOk' and 'txnErr' at the model.
ModelReceive(m) ==
  /\ s2c[m] # << >>
  /\ LET msg == Head(s2c[m]) IN
     model' = [model EXCEPT
                 ![m].ver = IF msg.ver > @ THEN msg.ver ELSE @,
                 ![m].pending = {txn \in @ : txn.id # msg.id}]
  /\ s2c' = [s2c EXCEPT ![m] = Tail(@)]
  /\ UNCHANGED <<journal, index, startId, db, dbVer, c2s, caller, resends, refused>>

\* store.flush: the journal and the database begin anew, _txnApplier does not.
Flush ==
  /\ startId < MaxFlushes
  /\ startId' = startId + 1
  /\ journal' = << >>
  /\ db' = [p \in Paths |-> Absent] /\ dbVer' = 0
  /\ UNCHANGED <<index, c2s, s2c, model, caller, resends, refused>>

-----------------------------------------------------------------------------
\* The retrying mutators.

\* AsyncAtomic.get: what the database has when it is asked.
Get(c) ==
  /\ caller[c].phase = "called"
  /\ caller' = [caller EXCEPT ![c].phase = "got", ![c].since = startId,
                  ![c].val = db[caller[c].path],
                  ![c].ver = IF VersionRead THEN dbVer ELSE None]
  /\ UNCHANGED <<journal, index, startId, db, dbVer, c2s, s2c, model, resends, refused>>

\* The callback of retry with an error: the function runs again, or it is over.
Again(c) ==
  caller' = IF caller[c].retries = MaxRetries THEN [caller EXCEPT ![c].phase = "failed"]
            ELSE [caller EXCEPT ![c].phase = "called", ![c].retries = @ + 1]

\* What the mutators set, each under its own id: incr a number more, the others
\* their value.
SetTxn(c) ==
  [id |-> [by |-> c, n |-> caller[c].retries], path |-> caller[c].path,
   val |-> IF caller[c].kind # "incr" \/ caller[c].val = Absent THEN 1 ELSE caller[c].val + 1,
   ver |-> caller[c].ver, kind |-> caller[c].kind, since |-> caller[c].since]

\* AsyncAtomic.set and the callback of its commit; a transaction that the
\* journal has and the middleware holds is never answered.
Set(c) ==
  LET txn == SetTxn(c) IN
  \/ /\ Verdict(txn) = "ok"
     /\ Accept(txn)
     /\ caller' = [caller EXCEPT ![c].phase = IF GoesOn THEN "done" ELSE "held"]
  \/ /\ Verdict(txn) # "ok"
     /\ Again(c)
     /\ UNCHANGED <<journal, index, db, dbVer, s2c, refused>>

\* The callback of get.  setNull of a value that is there only returns, and
\* nobody calls back; add of an id that is there counts as a retry.
Got(c) ==
  /\ caller[c].phase = "got"
  /\ \/ /\ caller[c].kind = "incr" \/ caller[c].val = Absent
        /\ Set(c)
     \/ /\ caller[c].kind = "setNull" /\ caller[c].val # Absent
        /\ caller' = [caller EXCEPT ![c].phase = "silent"]
        /\ UNCHANGED <<journal, index, db, dbVer, s2c, refused>>
     \/ /\ caller[c].kind = "add" /\ caller[c].val # Absent
        /\ Again(c)
        /\ UNCHANGED <<journal, index, db, dbVer, s2c, refused>>
  /\ UNCHANGED <<startId, c2s, model, resends>>

Next ==
  \/ \E m \in Models : Commit(m) \/ Resend(m) \/ StoreReceive(m) \/ ModelReceive(m)
  \/ \E c \in Callers : Get(c) \/ Got(c)
  \/ Flush

Spec == Init /\ [][Next]_vars

-----------------------------------------------------------------------------
Txns == [id : Ids, path : Paths, val : Values, ver : Nat \cup {None},
         kind : Kinds \cup {"set"}, since : 0 .. MaxFlushes]

\* Every variable keeps its shape (stm.js:13-45, journal-memory.js:15-31), and
\* without a flush the number that _txnApplier waits for is the next version.
TypeOK ==
  /\ journal \in Seq(Txns) /\ index \in Nat \ {0} /\ startId \in 0 .. MaxFlushes
  /\ startId = 0 => index = Len(journal) + 1 /\ dbVer = Len(journal)
  /\ db \in [Paths -> Values] /\ dbVer \in 0 .. Len(journal)
  /\ \A m \in Models : c2s[m] \in Seq(Txns) /\ model[m].pending \subseteq Txns
  /\ \A c \in Callers : caller[c].retries \in 0 .. MaxRetries /\ caller[c].val \in Values
  /\ refused \subseteq Ids

\* What the k-th transaction found in its path.
Before(k) ==
  LET same == {j \in 1 .. k - 1 : journal[j].path = journal[k].path} IN
  IF same = {} THEN Absent ELSE journal[CHOOSE j \in same : \A i \in same : i <= j].val

\* No lost update: what a retrying mutator computed from was still there when
\* its set was accepted, whoever else wrote meanwhile: an incr adds one to the
\* value before it, setNull and add overwrite nothing (Async.js:145-207,
\* stm.js:51-79).  This is so until the store is flushed: the journal begins at 1
\* again and _txnApplier does not, so that it drops transactions of which the
\* database never hears, and then goes on with a version that counts them.
NoLostUpdate ==
  startId = 0 =>
    \A k \in DOMAIN journal :
      LET txn == journal[k] IN
      /\ txn.kind = "incr" => txn.val = IF Before(k) = Absent THEN 1 ELSE Before(k) + 1
      /\ txn.kind \in {"setNull", "add"} => Before(k) = Absent

\* However often it is sent, a transaction is accepted once, and one that was
\* accepted is never refused: the first entry that a transaction sent again
\* meets is itself, not one that came after it (stm.js:60-79,
\* transaction.server.js:7-34, txns.Store.js:252-262).
OneVerdict ==
  /\ \A j, k \in DOMAIN journal : j # k => journal[j].id # journal[k].id
  /\ \A k \in DOMAIN journal : journal[k].id \notin refused

=============================================================================
