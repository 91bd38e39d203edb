------------------------------ MODULE StmProofs ------------------------------
(***************************************************************************)
(* Proofs about Stm: for any paths, models, callers and bounds, each       *)
(* transaction gets one verdict, and the retrying mutators lose no update  *)
(* until the store is flushed.                                             *)
(***************************************************************************)
EXTENDS Stm, WellFoundedInduction, TLAPS

Phases == {"called", "got", "done", "held", "failed", "silent"}

\* What TypeOK says of the store.
StoreOK ==
  /\ journal \in Seq(Txns) /\ index \in Nat \ {0} /\ startId \in 0 .. MaxFlushes
  /\ startId = 0 => index = Len(journal) + 1 /\ dbVer = Len(journal)
  /\ db \in [Paths -> Values] /\ dbVer \in 0 .. Len(journal)

\* The shape of the rest, in full.
ShapeOK ==
  /\ c2s \in [Models -> Seq(Txns)]
  /\ s2c \in [Models -> Seq([type : {"txn", "txnOk", "txnErr"}, id : Ids, ver : Nat])]
  /\ model \in [Models -> [ver : Nat, start : {0}, pending : SUBSET Txns, made : Nat]]
  /\ caller \in [Callers -> [kind : Kinds, path : Paths, phase : Phases, val : Values,
                             ver : Nat \cup {None}, since : 0 .. MaxFlushes,
                             retries : 0 .. MaxRetries]]
  /\ refused \subseteq [by : Models, n : Nat]

\* The copies of the transactions of model m: queued, on their way, accepted.
Copies(m) ==
  model[m].pending \cup Range(c2s[m])
    \cup {txn \in Range(journal) : txn.id.by = m}

\* They are m's, made before now, and copies of one are equal.
CopiesOK ==
  \A m \in Models : \A a \in Copies(m) :
    /\ a.id.by = m /\ a.id.n < model[m].made /\ a.since = 0 /\ a.ver \in Nat /\ a.kind = "set"
    /\ \A b \in Copies(m) : a.id = b.id => a = b

\* Before the first flush nobody has a version that is not in the journal, and
\* what was accepted is later than the version it was made at.
VersionsKnown ==
  startId = 0 =>
    /\ \A m \in Models :
         /\ model[m].ver <= Len(journal)
         /\ \A a \in Copies(m) : a.ver <= Len(journal)
         /\ \A i \in DOMAIN s2c[m] : s2c[m][i].ver <= Len(journal)
    /\ \A k \in DOMAIN journal : journal[k].id.by \in Models => journal[k].ver < k

\* What the journal has passed the check when it came.
AcceptedUnmet ==
  \A k \in DOMAIN journal :
    journal[k].ver # None =>
      \A j \in 1 .. k - 1 : j > journal[k].ver => ~ Meets(journal[k], journal[j])

\* What was refused before a flush meets something else whenever it comes again,
\* and after a flush no model gets anything accepted.
RefusedMeets ==
  /\ startId = 0 =>
       \A id \in refused :
         /\ id.n < model[id.by].made
         /\ \A a \in Copies(id.by) : a.id = id =>
              \E j \in DOMAIN journal : j > a.ver /\ Meets(a, journal[j])
  /\ startId # 0 => \A k \in DOMAIN journal : journal[k].id.by \in Callers

\* A caller whose set was accepted does nothing more.
CallersOnce ==
  \A k \in DOMAIN journal : \A c \in Callers :
    journal[k].id.by = c => caller[c].phase \in {"done", "held"}

VerdictInv ==
  StoreOK /\ ShapeOK /\ CopiesOK /\ VersionsKnown /\ AcceptedUnmet /\ RefusedMeets
    /\ CallersOnce /\ OneVerdict

-----------------------------------------------------------------------------
\* x is the value of path p after the first v transactions.
Holds(p, v, x) ==
  \/ \E j \in 1 .. v : /\ journal[j].path = p /\ journal[j].val = x
                       /\ \A i \in j + 1 .. v : journal[i].path # p
  \/ x = Absent /\ \A i \in 1 .. v : journal[i].path # p

\* Before the first flush the database has what the journal says.
DbCurrent ==
  startId = 0 => \A p \in Paths : Holds(p, Len(journal), db[p])

\* What a caller has read was the value at the version that it read.
ReadOK ==
  startId = 0 =>
    \A c \in Callers : caller[c].phase = "got" =>
      /\ caller[c].ver \in 0 .. Len(journal)
      /\ Holds(caller[c].path, caller[c].ver, caller[c].val)

\* NoLostUpdate, told of the value that a transaction found.
NoneLost ==
  startId = 0 =>
    \A k \in DOMAIN journal :
      \E x \in {Absent} \cup {journal[j].val : j \in DOMAIN journal} :
        /\ Holds(journal[k].path, k - 1, x)
        /\ journal[k].kind = "incr" => journal[k].val = IF x = Absent THEN 1 ELSE x + 1
        /\ journal[k].kind \in {"setNull", "add"} => x = Absent

UpdateInv == DbCurrent /\ ReadOK /\ NoneLost

-----------------------------------------------------------------------------
(* The natural numbers *)

\* A set of numbers has a least one.  (Induction below is by the least number
\* for which a claim fails.)
LEMMA LeastNumber ==
  ASSUME NEW T \in SUBSET Nat, T # {}
  PROVE  \E n \in T : \A m \in T : n <= m
<1> DEFINE R == {ss \in Nat \X Nat : ss[1] < ss[2]}
<1>1. IsWellFoundedOn(R, Nat)
  BY NatLessThanWellFounded DEF OpToRel
<1> HIDE DEF R
<1>2. PICK n \in T : \A m \in T : <<m, n>> \notin R
  BY <1>1, WFMin
<1>3. \A m \in T : ~(m < n)
  BY <1>2 DEF R
<1> QED  BY <1>3

-----------------------------------------------------------------------------
(* The journal *)

\* A transaction added leaves those before it alone.
LEMMA Added ==
  ASSUME journal \in Seq(Txns), NEW txn \in Txns, journal' = Append(journal, txn)
  PROVE  /\ journal' \in Seq(Txns) /\ Len(journal) \in Nat /\ Len(journal') = Len(journal) + 1
         /\ DOMAIN journal = 1 .. Len(journal) /\ DOMAIN journal' = 1 .. Len(journal) + 1
         /\ \A k \in 1 .. Len(journal) : journal'[k] = journal[k]
         /\ journal'[Len(journal) + 1] = txn
         /\ \A k \in 1 .. Len(journal) + 1 : k \in 1 .. Len(journal) \/ k = Len(journal) + 1
         /\ Range(journal') = Range(journal) \cup {txn}
<1>1. PICK n \in Nat : n = Len(journal) /\ DOMAIN journal = 1 .. n  OBVIOUS
<1>2. /\ journal' \in Seq(Txns) /\ Len(journal') = n + 1 /\ DOMAIN journal' = 1 .. n + 1
      /\ \A k \in 1 .. n : journal'[k] = journal[k]
      /\ journal'[n + 1] = txn
  BY <1>1
<1>3. \A k \in 1 .. n + 1 : k \in 1 .. n \/ k = n + 1  OBVIOUS
<1>4. n + 1 \in 1 .. n + 1 /\ \A k \in 1 .. n : k \in 1 .. n + 1  OBVIOUS
<1>5. Range(journal') = Range(journal) \cup {txn}
  BY <1>1, <1>2, <1>3, <1>4 DEF Range
<1> QED  BY <1>1, <1>2, <1>3, <1>5

\* What detectConflict can say.
LEMMA VerdictOk ==
  ASSUME NEW txn, Verdict(txn) = "ok"
  PROVE  \A k \in Since(txn.ver) : ~ Meets(txn, journal[k])
<1> DEFINE met == {k \in Since(txn.ver) : Meets(txn, journal[k])}
<1>1. Verdict(txn) = IF met = {} THEN "ok"
                     ELSE IF journal[CHOOSE k \in met : \A j \in met : k <= j].id = txn.id
                     THEN "duplicate" ELSE "conflict"
  BY DEF Verdict
<1>2. met = {}
  <2> HIDE DEF met
  <2> QED  BY <1>1
<1> QED  BY <1>2

\* A transaction that conflicts meets another one first.
LEMMA VerdictConflict ==
  ASSUME journal \in Seq(Txns), NEW txn, Verdict(txn) \notin {"ok", "duplicate"}
  PROVE  \E j \in Since(txn.ver) :
           /\ Meets(txn, journal[j]) /\ journal[j].id # txn.id
           /\ \A k \in Since(txn.ver) : Meets(txn, journal[k]) => j <= k
<1> DEFINE met == {k \in Since(txn.ver) : Meets(txn, journal[k])}
           first == CHOOSE k \in met : \A j \in met : k <= j
<1>1. Verdict(txn) = IF met = {} THEN "ok"
                     ELSE IF journal[first].id = txn.id THEN "duplicate" ELSE "conflict"
  BY DEF Verdict
<1>2. met \in SUBSET Nat  BY DEF Since
<1>3. met # {} /\ journal[first].id # txn.id
  <2> HIDE DEF met, first
  <2> QED  BY <1>1
<1>4. first \in met /\ \A j \in met : first <= j
  <2>1. \E k \in met : \A j \in met : k <= j
    <3> HIDE DEF met
    <3> QED  BY <1>2, <1>3, LeastNumber
  <2> HIDE DEF met
  <2> QED  BY <2>1
<1> QED  BY <1>3, <1>4

\* A transaction that is accepted: it is new to the journal, and nothing there met it.
LEMMA AcceptKeeps ==
  ASSUME VerdictInv, NEW txn \in Txns, Verdict(txn) = "ok", Accept(txn), startId' = startId,
         \A k \in DOMAIN journal : journal[k].id # txn.id,
         txn.id \notin refused
  PROVE  AcceptedUnmet' /\ OneVerdict'
<1>1. journal \in Seq(Txns) /\ journal' = Append(journal, txn) /\ refused' = refused
  BY DEF VerdictInv, StoreOK, Accept, AddToJournal
<1>2. /\ Len(journal) \in Nat
      /\ DOMAIN journal = 1 .. Len(journal) /\ DOMAIN journal' = 1 .. Len(journal) + 1
      /\ \A k \in 1 .. Len(journal) : journal'[k] = journal[k]
      /\ journal'[Len(journal) + 1] = txn
      /\ \A k \in 1 .. Len(journal) + 1 : k \in 1 .. Len(journal) \/ k = Len(journal) + 1
  BY <1>1, Added
<1>3. AcceptedUnmet'
  <2> SUFFICES ASSUME NEW k \in DOMAIN journal', journal'[k].ver # None,
                      NEW j \in 1 .. k - 1, j > journal'[k].ver
               PROVE  ~ Meets(journal'[k], journal'[j])
    BY DEF AcceptedUnmet, Meets
  <2>1. j \in 1 .. Len(journal) /\ journal'[j] = journal[j]
    <3>1. j \in 1 .. Len(journal)  BY <1>2
    <3> QED  BY <1>2, <3>1
  <2>2. CASE k \in 1 .. Len(journal)
    BY <1>2, <2>1, <2>2 DEF VerdictInv, AcceptedUnmet
  <2>3. CASE k = Len(journal) + 1
    <3>1. journal'[k] = txn  BY <1>2, <2>3
    <3>2. j \in Since(txn.ver)  BY <1>2, <2>1, <3>1 DEF Since
    <3> QED  BY <2>1, <3>1, <3>2, VerdictOk
  <2> QED  BY <1>2, <2>2, <2>3
<1>4. OneVerdict'
  <2>1. ASSUME NEW j \in DOMAIN journal', NEW k \in DOMAIN journal', j # k
        PROVE  journal'[j].id # journal'[k].id
    <3>1. CASE j \in 1 .. Len(journal) /\ k \in 1 .. Len(journal)
      BY <1>2, <2>1, <3>1 DEF VerdictInv, OneVerdict
    <3>2. CASE j = Len(journal) + 1  BY <1>2, <2>1, <3>2
    <3>3. CASE k = Len(journal) + 1  BY <1>2, <2>1, <3>3
    <3> QED  BY <1>2, <3>1, <3>2, <3>3
  <2>2. ASSUME NEW k \in DOMAIN journal' PROVE journal'[k].id \notin refused'
    <3>1. CASE k \in 1 .. Len(journal)
      BY <1>1, <1>2, <3>1 DEF VerdictInv, OneVerdict
    <3>2. CASE k = Len(journal) + 1  BY <1>1, <1>2, <3>2
    <3> QED  BY <1>2, <3>1, <3>2
  <2> QED  BY <2>1, <2>2 DEF OneVerdict
<1> QED  BY <1>3, <1>4

\* The types after a transaction was accepted.
LEMMA AcceptTypes ==
  ASSUME StoreOK, ShapeOK, NEW txn \in Txns, Accept(txn), startId' = startId
  PROVE  /\ StoreOK' /\ refused' = refused
         /\ s2c' \in [Models -> Seq([type : {"txn", "txnOk", "txnErr"}, id : Ids, ver : Nat])]
         /\ \A m \in Models : \A i \in DOMAIN s2c'[m] :
              \/ i \in DOMAIN s2c[m] /\ s2c'[m][i] = s2c[m][i]
              \/ s2c'[m][i].ver = Len(journal) + 1
<1> DEFINE Messages == [type : {"txn", "txnOk", "txnErr"}, id : Ids, ver : Nat]
<1>1. /\ journal' = Append(journal, txn)
      /\ index' = IF index = Len(journal) + 1 THEN index + 1 ELSE index
      /\ WriteToDb(txn) /\ s2c' = Told(txn) /\ refused' = refused
  BY DEF Accept, AddToJournal
<1>2. /\ journal' \in Seq(Txns) /\ Len(journal) \in Nat /\ Len(journal') = Len(journal) + 1
  BY <1>1, Added DEF StoreOK
<1>3. txn.path \in Paths /\ txn.val \in Values /\ txn.id \in Ids  BY DEF Txns
<1>4. /\ db' \in [Paths -> Values] /\ dbVer' \in 0 .. Len(journal')
      /\ startId = 0 => dbVer' = Len(journal')
  <2>1. /\ db \in [Paths -> Values] /\ dbVer \in 0 .. Len(journal)
        /\ startId = 0 => GoesOn
    BY DEF StoreOK, GoesOn
  <2>2. CASE GoesOn
    <3>1. db' = [db EXCEPT ![txn.path] = txn.val] /\ dbVer' = Len(journal) + 1
      BY <1>1, <2>2 DEF WriteToDb
    <3> QED  BY <1>2, <1>3, <2>1, <3>1
  <2>3. CASE ~GoesOn
    <3>1. db' = db /\ dbVer' = dbVer  BY <1>1, <2>3 DEF WriteToDb
    <3> QED  BY <1>2, <2>1, <2>3, <3>1
  <2> QED  BY <2>2, <2>3
<1>5. StoreOK'
  <2>1. index' \in Nat \ {0}  BY <1>1 DEF StoreOK
  <2>2. startId' = 0 => index' = Len(journal') + 1  BY <1>1, <1>2 DEF StoreOK
  <2>3. startId' = 0 => dbVer' = Len(journal')  BY <1>4
  <2>4. startId' \in 0 .. MaxFlushes  BY DEF StoreOK
  <2> QED  BY <1>2, <1>4, <2>1, <2>2, <2>3, <2>4 DEF StoreOK
<1>6. ASSUME NEW m \in Models
      PROVE  /\ s2c'[m] \in Seq(Messages)
             /\ \A i \in DOMAIN s2c'[m] :
                  \/ i \in DOMAIN s2c[m] /\ s2c'[m][i] = s2c[m][i]
                  \/ s2c'[m][i].ver = Len(journal) + 1
  <2> DEFINE msg == [type |-> IF m = txn.id.by THEN "txnOk" ELSE "txn",
                     id |-> txn.id, ver |-> Len(journal) + 1]
  <2>1. s2c[m] \in Seq(Messages)  BY DEF ShapeOK
  <2>2. msg \in Messages /\ msg.ver = Len(journal) + 1  BY <1>2, <1>3
  <2>3. s2c'[m] = IF ~GoesOn THEN s2c[m] ELSE Append(s2c[m], msg)  BY <1>1 DEF Told
  <2> HIDE DEF msg, Messages
  <2>4. CASE s2c'[m] = s2c[m]  BY <2>1, <2>4
  <2>5. CASE s2c'[m] = Append(s2c[m], msg)
    <3>1. PICK n \in Nat : n = Len(s2c[m]) /\ DOMAIN s2c[m] = 1 .. n  BY <2>1
    <3>2. /\ s2c'[m] \in Seq(Messages) /\ DOMAIN s2c'[m] = 1 .. n + 1
          /\ \A i \in 1 .. n : s2c'[m][i] = s2c[m][i]
          /\ s2c'[m][n + 1] = msg
      BY <2>1, <2>2, <2>5, <3>1
    <3>3. \A i \in 1 .. n + 1 : i \in 1 .. n \/ i = n + 1  OBVIOUS
    <3> QED  BY <2>2, <3>1, <3>2, <3>3
  <2> QED  BY <2>3, <2>4, <2>5
<1>7. s2c' = [m \in Models |-> s2c'[m]]  BY <1>1 DEF Told
<1> QED  BY <1>1, <1>5, <1>6, <1>7

\* The invariant on verdicts holds at the start ...
LEMMA InitVerdict == Init => VerdictInv
<1> SUFFICES ASSUME Init PROVE VerdictInv  OBVIOUS
<1>1. /\ journal = << >> /\ index = 1 /\ startId = 0 /\ db = [p \in Paths |-> Absent] /\ dbVer = 0
      /\ c2s = [m \in Models |-> << >>] /\ s2c = [m \in Models |-> << >>]
      /\ model = [m \in Models |-> [ver |-> 0, start |-> 0, pending |-> {}, made |-> 0]]
      /\ refused = {}
  BY DEF Init
<1>2. Len(journal) = 0 /\ DOMAIN journal = {} /\ Range(journal) = {}  BY <1>1 DEF Range
<1>3. StoreOK  BY <1>1, <1>2, StmAssumption DEF StoreOK, Values
<1>4. ShapeOK
  <2>1. caller \in [Callers -> [kind : Kinds, path : Paths, phase : Phases, val : Values,
                                ver : Nat \cup {None}, since : 0 .. MaxFlushes,
                                retries : 0 .. MaxRetries]]
    <3>1. caller \in [Callers -> [kind : Kinds, path : Paths, phase : {"called"},
                                  val : {Absent}, ver : {0}, since : {0}, retries : {0}]]
      BY DEF Init
    <3>2. [kind : Kinds, path : Paths, phase : {"called"}, val : {Absent}, ver : {0},
           since : {0}, retries : {0}]
            \subseteq [kind : Kinds, path : Paths, phase : Phases, val : Values,
                       ver : Nat \cup {None}, since : 0 .. MaxFlushes,
                       retries : 0 .. MaxRetries]
      BY StmAssumption DEF Phases, Values
    <3> QED  BY <3>1, <3>2
  <2>2. model \in [Models -> [ver : Nat, start : {0}, pending : SUBSET Txns, made : Nat]]
    BY <1>1
  <2> QED  BY <1>1, <2>1, <2>2 DEF ShapeOK
<1>5. \A m \in Models : Copies(m) = {} /\ DOMAIN s2c[m] = {} /\ model[m].ver = 0
  BY <1>1, <1>2 DEF Copies, Range
<1>6. CopiesOK /\ VersionsKnown  BY <1>2, <1>5 DEF CopiesOK, VersionsKnown
<1>7. AcceptedUnmet /\ CallersOnce /\ OneVerdict  BY <1>2 DEF AcceptedUnmet, CallersOnce, OneVerdict
<1>8. RefusedMeets  BY <1>1, <1>2 DEF RefusedMeets
<1> QED  BY <1>3, <1>4, <1>6, <1>7, <1>8 DEF VerdictInv

-----------------------------------------------------------------------------
(* The models *)

\* Where there are no more copies than before, they are as they were.
LEMMA FewerCopies ==
  ASSUME CopiesOK,
         \A m \in Models : Copies(m)' \subseteq Copies(m) /\ model'[m].made = model[m].made
  PROVE  CopiesOK'
BY DEF CopiesOK

\* A model's new transaction is the only one of its id, and was made at a version
\* that the journal has.
LEMMA CommitVerdict ==
  ASSUME VerdictInv, NEW m \in Models, Commit(m)
  PROVE  VerdictInv'
<1> DEFINE Txn(p, val) == [id |-> [by |-> m, n |-> model[m].made], path |-> p, val |-> val,
                           ver |-> model[m].ver, kind |-> "set", since |-> model[m].start]
<1>1. PICK p \in ModelPaths, val \in {0, Absent} :
        /\ model' = [model EXCEPT ![m].made = @ + 1, ![m].pending = @ \cup {Txn(p, val)}]
        /\ c2s' = [c2s EXCEPT ![m] = Append(@, Txn(p, val))]
  BY DEF Commit
<1>2. UNCHANGED <<journal, index, startId, db, dbVer, s2c, caller, resends, refused>>
  BY DEF Commit
<1>3. /\ c2s \in [Models -> Seq(Txns)]
      /\ model \in [Models -> [ver : Nat, start : {0}, pending : SUBSET Txns, made : Nat]]
  BY DEF VerdictInv, ShapeOK
<1> DEFINE txn == Txn(p, val)
<1>4. /\ txn \in Txns /\ txn.id = [by |-> m, n |-> model[m].made] /\ txn.ver = model[m].ver
      /\ txn.since = 0 /\ txn.kind = "set" /\ txn.id.by = m /\ txn.id.n = model[m].made
  <2>1. p \in Paths /\ val \in Values  BY StmAssumption DEF Values
  <2>2. [by |-> m, n |-> model[m].made] \in Ids  BY <1>3 DEF Ids
  <2>3. model[m].ver \in Nat /\ model[m].start = 0 /\ 0 \in 0 .. MaxFlushes
    BY <1>3, StmAssumption
  <2> QED  BY <2>1, <2>2, <2>3 DEF Txns
<1>5. /\ model' = [model EXCEPT ![m].made = @ + 1, ![m].pending = @ \cup {txn}]
      /\ c2s' = [c2s EXCEPT ![m] = Append(@, txn)]
  BY <1>1
<1> HIDE DEF Txn, txn
<1>6. /\ model' \in [Models -> [ver : Nat, start : {0}, pending : SUBSET Txns, made : Nat]]
      /\ \A x \in Models : /\ model'[x].ver = model[x].ver
                           /\ x # m => model'[x] = model[x] /\ c2s'[x] = c2s[x]
      /\ model'[m].made = model[m].made + 1 /\ model'[m].pending = model[m].pending \cup {txn}
  <2>1. model[m] \in [ver : Nat, start : {0}, pending : SUBSET Txns, made : Nat]
    BY <1>3
  <2> DEFINE new == [model[m] EXCEPT !.made = @ + 1, !.pending = @ \cup {txn}]
  <2>2. /\ new \in [ver : Nat, start : {0}, pending : SUBSET Txns, made : Nat]
        /\ new.ver = model[m].ver /\ new.made = model[m].made + 1
        /\ new.pending = model[m].pending \cup {txn}
    <3>1. /\ model[m].pending \cup {txn} \in SUBSET Txns /\ model[m].made + 1 \in Nat
          /\ model[m].ver \in Nat /\ model[m].start = 0
      BY <1>4, <2>1
    <3>2. /\ new.ver = model[m].ver /\ new.start = 0 /\ new.made = model[m].made + 1
          /\ new.pending = model[m].pending \cup {txn}
      BY <2>1, <3>1
    <3>3. new = [x \in DOMAIN model[m] |-> new[x]]  OBVIOUS
    <3>4. DOMAIN model[m] = {"ver", "start", "pending", "made"}  BY <2>1
    <3> HIDE DEF new
    <3> QED  BY <3>1, <3>2, <3>3, <3>4
  <2>3. model' = [model EXCEPT ![m] = new] /\ c2s' = [c2s EXCEPT ![m] = Append(@, txn)]
    BY <1>3, <1>5
  <2> HIDE DEF new
  <2> QED  BY <1>3, <2>2, <2>3
<1>7. c2s' \in [Models -> Seq(Txns)] /\ Range(c2s'[m]) = Range(c2s[m]) \cup {txn}
  <2>1. c2s[m] \in Seq(Txns) /\ c2s'[m] = Append(c2s[m], txn)  BY <1>3, <1>5
  <2>2. PICK n \in Nat : n = Len(c2s[m]) /\ DOMAIN c2s[m] = 1 .. n  BY <2>1
  <2>3. /\ c2s'[m] \in Seq(Txns) /\ DOMAIN c2s'[m] = 1 .. n + 1
        /\ \A i \in 1 .. n : c2s'[m][i] = c2s[m][i]
        /\ c2s'[m][n + 1] = txn
    BY <1>4, <2>1, <2>2
  <2>4. /\ \A i \in 1 .. n + 1 : i \in 1 .. n \/ i = n + 1
        /\ n + 1 \in 1 .. n + 1 /\ \A i \in 1 .. n : i \in 1 .. n + 1
    OBVIOUS
  <2>5. Range(c2s'[m]) = Range(c2s[m]) \cup {txn}  BY <2>2, <2>3, <2>4 DEF Range
  <2>6. c2s' \in [Models -> Seq(Txns)]  BY <1>3, <1>5, <2>1, <2>3
  <2> QED  BY <2>5, <2>6
<1>8. /\ Copies(m)' = Copies(m) \cup {txn}
      /\ \A x \in Models : x # m => Copies(x)' = Copies(x)
  BY <1>2, <1>6, <1>7 DEF Copies
<1>9. StoreOK' /\ AcceptedUnmet' /\ CallersOnce' /\ OneVerdict'
  BY <1>2 DEF VerdictInv, StoreOK, AcceptedUnmet, CallersOnce, OneVerdict, Meets
<1>10. ShapeOK'  BY <1>2, <1>6, <1>7 DEF VerdictInv, ShapeOK
<1>11. CopiesOK'
  <2> SUFFICES ASSUME NEW x \in Models, NEW a \in Copies(x)'
               PROVE  /\ a.id.by = x /\ a.id.n < model'[x].made /\ a.since = 0
                      /\ a.ver \in Nat /\ a.kind = "set"
                      /\ \A b \in Copies(x)' : a.id = b.id => a = b
    BY DEF CopiesOK
  <2>1. CASE x # m  BY <1>6, <1>8, <2>1 DEF VerdictInv, CopiesOK
  <2>2. CASE x = m
    <3>1. \A b \in Copies(m) : /\ b.id.by = m /\ b.id.n < model[m].made /\ b.since = 0
                               /\ b.ver \in Nat /\ b.kind = "set" /\ b.id # txn.id
                               /\ \A d \in Copies(m) : b.id = d.id => b = d
      BY <1>3, <1>4 DEF VerdictInv, CopiesOK
    <3>2. \A b \in Copies(m) : b.id.n < model'[m].made
      <4>1. \A b \in Copies(m) : b.id.n \in Nat
        <5>1. \A b \in Copies(m) : b \in Txns
          BY <1>3 DEF Copies, Range, VerdictInv, StoreOK
        <5> QED  BY <5>1 DEF Txns, Ids
      <4> QED  BY <1>3, <1>6, <3>1, <4>1
    <3>3. txn.id.n < model'[m].made /\ txn.ver \in Nat  BY <1>3, <1>4, <1>6
    <3> QED  BY <1>4, <1>8, <2>2, <3>1, <3>2, <3>3
  <2> QED  BY <2>1, <2>2
<1>12. VersionsKnown'
  <2> SUFFICES ASSUME startId = 0
               PROVE  /\ \A x \in Models :
                           /\ model'[x].ver <= Len(journal)
                           /\ \A a \in Copies(x)' : a.ver <= Len(journal)
                           /\ \A i \in DOMAIN s2c[x] : s2c[x][i].ver <= Len(journal)
                      /\ \A k \in DOMAIN journal : journal[k].id.by \in Models => journal[k].ver < k
    BY <1>2 DEF VersionsKnown
  <2>1. /\ \A x \in Models : /\ model[x].ver <= Len(journal)
                             /\ \A a \in Copies(x) : a.ver <= Len(journal)
                             /\ \A i \in DOMAIN s2c[x] : s2c[x][i].ver <= Len(journal)
        /\ \A k \in DOMAIN journal : journal[k].id.by \in Models => journal[k].ver < k
    BY DEF VerdictInv, VersionsKnown
  <2>2. \A x \in Models : \A a \in Copies(x)' : a \in Copies(x) \/ (x = m /\ a = txn)
    BY <1>8
  <2> QED  BY <1>4, <1>6, <2>1, <2>2
<1>13. RefusedMeets'
  <2>1. ASSUME startId = 0, NEW id \in refused
        PROVE  /\ id.n < model'[id.by].made
               /\ \A a \in Copies(id.by)' : a.id = id =>
                    \E j \in DOMAIN journal : j > a.ver /\ Meets(a, journal[j])
    <3>1. id.by \in Models /\ id.n \in Nat  BY DEF VerdictInv, ShapeOK
    <3>2. /\ id.n < model[id.by].made
          /\ \A a \in Copies(id.by) : a.id = id =>
               \E j \in DOMAIN journal : j > a.ver /\ Meets(a, journal[j])
      BY <2>1 DEF VerdictInv, RefusedMeets
    <3>3. id # txn.id  BY <1>3, <1>4, <3>1, <3>2
    <3>4. id.n < model'[id.by].made
      <4>1. model[id.by].made \in Nat  BY <1>3, <3>1
      <4> QED  BY <1>6, <3>1, <3>2, <4>1
    <3>5. \A a \in Copies(id.by)' : a \in Copies(id.by) \/ a = txn  BY <1>8, <3>1
    <3> QED  BY <3>2, <3>3, <3>4, <3>5
  <2>2. startId # 0 => \A k \in DOMAIN journal : journal[k].id.by \in Callers
    BY DEF VerdictInv, RefusedMeets
  <2> QED  BY <1>2, <2>1, <2>2 DEF RefusedMeets, Meets
<1> QED  BY <1>9, <1>10, <1>11, <1>12, <1>13 DEF VerdictInv

\* What is left of a list once its first member is taken off.
LEMMA TailOf ==
  ASSUME NEW S, NEW q \in Seq(S), q # << >>
  PROVE  /\ Head(q) \in S /\ 1 \in DOMAIN q /\ Head(q) = q[1] /\ Tail(q) \in Seq(S)
         /\ \A i \in DOMAIN Tail(q) : i + 1 \in DOMAIN q /\ Tail(q)[i] = q[i + 1]
OBVIOUS

\* A transaction sent again is a copy like the queued one.
LEMMA ResendVerdict ==
  ASSUME VerdictInv, NEW m \in Models, Resend(m)
  PROVE  VerdictInv'
<1>1. PICK txn \in model[m].pending : c2s' = [c2s EXCEPT ![m] = Append(@, txn)]
  BY DEF Resend
<1>2. UNCHANGED <<journal, index, startId, db, dbVer, s2c, model, caller, refused>>
  BY DEF Resend
<1>3. /\ c2s \in [Models -> Seq(Txns)] /\ txn \in Txns /\ txn \in Copies(m)
  BY <1>1 DEF VerdictInv, ShapeOK, Copies
<1>4. c2s' \in [Models -> Seq(Txns)] /\ Range(c2s'[m]) \subseteq Range(c2s[m]) \cup {txn}
  <2>1. c2s[m] \in Seq(Txns) /\ c2s'[m] = Append(c2s[m], txn)  BY <1>1, <1>3
  <2>2. PICK n \in Nat : n = Len(c2s[m]) /\ DOMAIN c2s[m] = 1 .. n  BY <2>1
  <2>3. /\ c2s'[m] \in Seq(Txns) /\ DOMAIN c2s'[m] = 1 .. n + 1
        /\ \A i \in 1 .. n : c2s'[m][i] = c2s[m][i]
        /\ c2s'[m][n + 1] = txn
    BY <1>3, <2>1, <2>2
  <2>4. \A i \in 1 .. n + 1 : i \in 1 .. n \/ i = n + 1  OBVIOUS
  <2>5. Range(c2s'[m]) \subseteq Range(c2s[m]) \cup {txn}  BY <2>2, <2>3, <2>4 DEF Range
  <2>6. c2s' \in [Models -> Seq(Txns)]  BY <1>1, <1>3, <2>1, <2>3
  <2> QED  BY <2>5, <2>6
<1>5. \A x \in Models : Copies(x)' \subseteq Copies(x)
  <2>1. \A x \in Models : x # m => c2s'[x] = c2s[x]  BY <1>1, <1>3
  <2> QED  BY <1>2, <1>3, <1>4, <2>1 DEF Copies
<1>6. StoreOK' /\ AcceptedUnmet' /\ CallersOnce' /\ OneVerdict'
  BY <1>2 DEF VerdictInv, StoreOK, AcceptedUnmet, CallersOnce, OneVerdict, Meets
<1>7. ShapeOK'  BY <1>2, <1>4 DEF VerdictInv, ShapeOK
<1>8. CopiesOK'  BY <1>2, <1>5, FewerCopies DEF VerdictInv
<1>9. VersionsKnown'  BY <1>2, <1>5 DEF VerdictInv, VersionsKnown
<1>10. RefusedMeets'
  <2>1. \A id \in refused : id.by \in Models  BY DEF VerdictInv, ShapeOK
  <2> QED  BY <1>2, <1>5, <2>1 DEF VerdictInv, RefusedMeets, Meets
<1> QED  BY <1>6, <1>7, <1>8, <1>9, <1>10 DEF VerdictInv

\* A model hears of a transaction: it knows the version, and forgets its own one.
LEMMA ModelReceiveVerdict ==
  ASSUME VerdictInv, NEW m \in Models, ModelReceive(m)
  PROVE  VerdictInv'
<1> DEFINE Messages == [type : {"txn", "txnOk", "txnErr"}, id : Ids, ver : Nat]
           msg == Head(s2c[m])
<1>1. /\ s2c[m] # << >> /\ s2c' = [s2c EXCEPT ![m] = Tail(@)]
      /\ model' = [model EXCEPT ![m].ver = IF msg.ver > @ THEN msg.ver ELSE @,
                                ![m].pending = {txn \in @ : txn.id # msg.id}]
      /\ UNCHANGED <<journal, index, startId, db, dbVer, c2s, caller, resends, refused>>
  BY DEF ModelReceive
<1>2. /\ s2c \in [Models -> Seq(Messages)]
      /\ model \in [Models -> [ver : Nat, start : {0}, pending : SUBSET Txns, made : Nat]]
  BY DEF VerdictInv, ShapeOK
<1> HIDE DEF Messages
<1>3. /\ msg \in Messages /\ 1 \in DOMAIN s2c[m] /\ msg = s2c[m][1]
      /\ s2c'[m] \in Seq(Messages)
      /\ \A i \in DOMAIN s2c'[m] : i + 1 \in DOMAIN s2c[m] /\ s2c'[m][i] = s2c[m][i + 1]
  <2>1. s2c[m] \in Seq(Messages) /\ s2c'[m] = Tail(s2c[m])  BY <1>1, <1>2
  <2> HIDE DEF msg
  <2>2. msg = Head(s2c[m])  BY DEF msg
  <2> QED  BY <1>1, <2>1, <2>2, TailOf
<1>4. s2c' \in [Models -> Seq(Messages)] /\ \A x \in Models : x # m => s2c'[x] = s2c[x]
  BY <1>1, <1>2, <1>3
<1>5. msg.ver \in Nat  BY <1>3 DEF Messages
<1> HIDE DEF msg
<1>6. /\ model' \in [Models -> [ver : Nat, start : {0}, pending : SUBSET Txns, made : Nat]]
      /\ \A x \in Models : /\ model'[x].made = model[x].made
                           /\ model'[x].pending \subseteq model[x].pending
                           /\ model'[x].ver \in {model[x].ver, msg.ver}
                           /\ x # m => model'[x] = model[x]
  <2>1. model[m] \in [ver : Nat, start : {0}, pending : SUBSET Txns, made : Nat]  BY <1>2
  <2> DEFINE new == [model[m] EXCEPT !.ver = IF msg.ver > @ THEN msg.ver ELSE @,
                                     !.pending = {txn \in @ : txn.id # msg.id}]
  <2>2. /\ new.ver = (IF msg.ver > model[m].ver THEN msg.ver ELSE model[m].ver)
        /\ new.start = 0 /\ new.made = model[m].made
        /\ new.pending = {txn \in model[m].pending : txn.id # msg.id}
    BY <2>1
  <2>3. new = [x \in DOMAIN model[m] |-> new[x]]  OBVIOUS
  <2>4. DOMAIN model[m] = {"ver", "start", "pending", "made"}  BY <2>1
  <2>5. model' = [model EXCEPT ![m] = new]  BY <1>1, <1>2
  <2> HIDE DEF new
  <2>6. new.ver \in Nat /\ new.made \in Nat /\ new.pending \in SUBSET Txns
    BY <1>5, <2>1, <2>2
  <2>7. new \in [ver : Nat, start : {0}, pending : SUBSET Txns, made : Nat]
    BY <2>2, <2>3, <2>4, <2>6
  <2> QED  BY <1>2, <2>2, <2>5, <2>7
<1>7. \A x \in Models : Copies(x)' \subseteq Copies(x)  BY <1>1, <1>6 DEF Copies
<1>8. StoreOK' /\ AcceptedUnmet' /\ CallersOnce' /\ OneVerdict'
  BY <1>1 DEF VerdictInv, StoreOK, AcceptedUnmet, CallersOnce, OneVerdict, Meets
<1>9. ShapeOK'  BY <1>1, <1>4, <1>6 DEF VerdictInv, ShapeOK, Messages
<1>10. CopiesOK'  BY <1>6, <1>7, FewerCopies DEF VerdictInv
<1>11. VersionsKnown'
  <2> SUFFICES ASSUME startId = 0
               PROVE  /\ \A x \in Models :
                           /\ model'[x].ver <= Len(journal)
                           /\ \A a \in Copies(x)' : a.ver <= Len(journal)
                           /\ \A i \in DOMAIN s2c'[x] : s2c'[x][i].ver <= Len(journal)
                      /\ \A k \in DOMAIN journal : journal[k].id.by \in Models => journal[k].ver < k
    BY <1>1 DEF VersionsKnown
  <2>1. /\ \A x \in Models : /\ model[x].ver <= Len(journal)
                             /\ \A a \in Copies(x) : a.ver <= Len(journal)
                             /\ \A i \in DOMAIN s2c[x] : s2c[x][i].ver <= Len(journal)
        /\ \A k \in DOMAIN journal : journal[k].id.by \in Models => journal[k].ver < k
    BY DEF VerdictInv, VersionsKnown
  <2>2. msg.ver <= Len(journal)  BY <1>3, <2>1
  <2>3. \A x \in Models : \A i \in DOMAIN s2c'[x] : s2c'[x][i].ver <= Len(journal)
    <3>1. \A i \in DOMAIN s2c'[m] : s2c'[m][i].ver <= Len(journal)  BY <1>3, <2>1
    <3>2. \A x \in Models : x # m => s2c'[x] = s2c[x]  BY <1>4
    <3> QED  BY <2>1, <3>1, <3>2
  <2>4. \A x \in Models : model'[x].ver <= Len(journal)
    <3>1. \A x \in Models : model'[x] = model[x] \/ model'[x].ver \in {model[x].ver, msg.ver}
      BY <1>6
    <3> QED  BY <1>6, <2>1, <2>2, <3>1
  <2> QED  BY <1>7, <2>1, <2>3, <2>4
<1>12. RefusedMeets'
  <2>1. \A id \in refused : id.by \in Models  BY DEF VerdictInv, ShapeOK
  <2> QED  BY <1>1, <1>6, <1>7, <2>1 DEF VerdictInv, RefusedMeets, Meets
<1> QED  BY <1>8, <1>9, <1>10, <1>11, <1>12 DEF VerdictInv

\* The journal and the database begin again.
LEMMA FlushVerdict ==
  ASSUME VerdictInv, Flush
  PROVE  VerdictInv'
<1>1. /\ startId < MaxFlushes /\ startId' = startId + 1 /\ journal' = << >>
      /\ db' = [p \in Paths |-> Absent] /\ dbVer' = 0
      /\ UNCHANGED <<index, c2s, s2c, model, caller, resends, refused>>
  BY DEF Flush
<1>2. startId' \in 0 .. MaxFlushes /\ startId' # 0
  BY <1>1, StmAssumption DEF VerdictInv, StoreOK
<1>3. journal' \in Seq(Txns) /\ Len(journal') = 0 /\ DOMAIN journal' = {} /\ Range(journal') = {}
  BY <1>1 DEF Range
<1>4. StoreOK'  BY <1>1, <1>2, <1>3 DEF VerdictInv, StoreOK, Values
<1>5. ShapeOK'  BY <1>1 DEF VerdictInv, ShapeOK
<1>6. \A x \in Models : Copies(x)' \subseteq Copies(x)  BY <1>1, <1>3 DEF Copies
<1>7. CopiesOK'  BY <1>1, <1>6, FewerCopies DEF VerdictInv
<1>8. VersionsKnown' /\ RefusedMeets' /\ AcceptedUnmet' /\ CallersOnce' /\ OneVerdict'
  BY <1>2, <1>3 DEF VersionsKnown, RefusedMeets, AcceptedUnmet, CallersOnce, OneVerdict
<1> QED  BY <1>4, <1>5, <1>7, <1>8 DEF VerdictInv

\* The store decides on a transaction: it is accepted if it is new and meets nothing,
\* and refused only if it is not in the journal, now or later.
LEMMA StoreReceiveVerdict ==
  ASSUME VerdictInv, NEW m \in Models, StoreReceive(m)
  PROVE  VerdictInv'
<1> DEFINE txn == Head(c2s[m])
<1>1. /\ c2s[m] # << >> /\ c2s' = [c2s EXCEPT ![m] = Tail(@)]
      /\ UNCHANGED <<startId, model, caller, resends>>
      /\ IF txn.since # startId THEN Refuse(txn, "startId")
         ELSE IF Verdict(txn) = "ok" THEN Accept(txn) ELSE Refuse(txn, Verdict(txn))
  BY DEF StoreReceive
<1>2. /\ StoreOK /\ ShapeOK /\ CopiesOK /\ c2s \in [Models -> Seq(Txns)]
      /\ journal \in Seq(Txns) /\ Len(journal) \in Nat /\ DOMAIN journal = 1 .. Len(journal)
  <2>1. StoreOK /\ ShapeOK /\ CopiesOK  BY DEF VerdictInv
  <2>2. c2s \in [Models -> Seq(Txns)]  BY <2>1 DEF ShapeOK
  <2>3. journal \in Seq(Txns)  BY <2>1 DEF StoreOK
  <2>4. Len(journal) \in Nat /\ DOMAIN journal = 1 .. Len(journal)  BY <2>3
  <2> QED  BY <2>1, <2>2, <2>3, <2>4
<1>3. /\ txn \in Txns /\ txn \in Copies(m)
      /\ c2s' \in [Models -> Seq(Txns)] /\ Range(c2s'[m]) \subseteq Range(c2s[m])
      /\ \A x \in Models : x # m => c2s'[x] = c2s[x]
  <2>1. /\ txn \in Txns /\ 1 \in DOMAIN c2s[m] /\ txn = c2s[m][1] /\ Tail(c2s[m]) \in Seq(Txns)
        /\ \A i \in DOMAIN Tail(c2s[m]) : i + 1 \in DOMAIN c2s[m] /\ Tail(c2s[m])[i] = c2s[m][i + 1]
    BY <1>1, <1>2, TailOf
  <2>2. c2s'[m] = Tail(c2s[m])  BY <1>1, <1>2
  <2>3. Range(c2s'[m]) \subseteq Range(c2s[m])  BY <2>1, <2>2 DEF Range
  <2>4. c2s' \in [Models -> Seq(Txns)] /\ \A x \in Models : x # m => c2s'[x] = c2s[x]
    BY <1>1, <1>2, <2>1
  <2>5. txn \in Range(c2s[m])  BY <2>1 DEF Range
  <2> QED  BY <2>1, <2>3, <2>4, <2>5 DEF Copies
<1> HIDE DEF txn
<1>4. /\ txn.id.by = m /\ txn.id.n < model[m].made /\ txn.since = 0 /\ txn.ver \in Nat
      /\ \A b \in Copies(m) : txn.id = b.id => txn = b
      /\ txn.id \in Ids
  BY <1>2, <1>3 DEF CopiesOK, Txns
<1>5. Meets(txn, txn)
  <2>1. txn.id.n \in Nat  BY <1>4 DEF Ids
  <2> QED  BY <2>1 DEF Meets
\* In the journal, it would be met there, after the version it was made at.
<1>6. ASSUME startId = 0, NEW k \in DOMAIN journal, journal[k].id = txn.id
      PROVE  journal[k] = txn /\ k \in Since(txn.ver) /\ Meets(txn, journal[k])
  <2>1. journal[k] \in Copies(m)  BY <1>4, <1>6 DEF Copies, Range
  <2>2. journal[k] = txn  BY <1>4, <1>6, <2>1
  <2>3. txn.ver < k  BY <1>4, <1>6, <2>2 DEF VerdictInv, VersionsKnown
  <2>4. k \in Since(txn.ver)  BY <1>4, <1>6, <2>3, StmAssumption, NamesAssumption DEF Since
  <2> QED  BY <1>5, <2>2, <2>4
<1>7. CASE startId = 0 /\ Verdict(txn) = "ok"
  <2>1. Accept(txn)  BY <1>1, <1>4, <1>7
  <2>2. \A k \in Since(txn.ver) : ~ Meets(txn, journal[k])  BY <1>7, VerdictOk
  <2>3. \A k \in DOMAIN journal : journal[k].id # txn.id  BY <1>6, <1>7, <2>2
  <2>4. txn.id \notin refused
    <3>1. ASSUME txn.id \in refused PROVE FALSE
      <4>1. PICK j \in DOMAIN journal : j > txn.ver /\ Meets(txn, journal[j])
        BY <1>3, <1>4, <1>7, <3>1 DEF VerdictInv, RefusedMeets
      <4>2. j \in Since(txn.ver)  BY <1>4, <4>1, NamesAssumption DEF Since
      <4> QED  BY <2>2, <4>1, <4>2
    <3> QED  BY <3>1
  <2>5. AcceptedUnmet' /\ OneVerdict'  BY <1>1, <1>3, <1>7, <2>1, <2>3, <2>4, AcceptKeeps
  <2>6. /\ StoreOK' /\ refused' = refused
        /\ s2c' \in [Models -> Seq([type : {"txn", "txnOk", "txnErr"}, id : Ids, ver : Nat])]
        /\ \A x \in Models : \A i \in DOMAIN s2c'[x] :
             \/ i \in DOMAIN s2c[x] /\ s2c'[x][i] = s2c[x][i]
             \/ s2c'[x][i].ver = Len(journal) + 1
    BY <1>1, <1>2, <1>3, <2>1, AcceptTypes
  <2>7. /\ journal' \in Seq(Txns) /\ Len(journal') = Len(journal) + 1
        /\ DOMAIN journal' = 1 .. Len(journal) + 1
        /\ \A k \in 1 .. Len(journal) : journal'[k] = journal[k]
        /\ journal'[Len(journal) + 1] = txn
        /\ \A k \in 1 .. Len(journal) + 1 : k \in 1 .. Len(journal) \/ k = Len(journal) + 1
        /\ Range(journal') = Range(journal) \cup {txn}
    BY <1>2, <1>3, <2>1, Added DEF Accept, AddToJournal
  <2>8. \A x \in Models : Copies(x)' \subseteq Copies(x)
    BY <1>1, <1>3, <1>4, <2>7 DEF Copies
  <2>9. ShapeOK'  BY <1>1, <1>2, <1>3, <2>6 DEF ShapeOK
  <2>10. CopiesOK'  BY <1>1, <1>2, <2>8, FewerCopies
  <2>11. VersionsKnown'
    <3>1. /\ \A x \in Models : /\ model[x].ver <= Len(journal)
                               /\ \A a \in Copies(x) : a.ver <= Len(journal)
                               /\ \A i \in DOMAIN s2c[x] : s2c[x][i].ver <= Len(journal)
          /\ \A k \in DOMAIN journal : journal[k].id.by \in Models => journal[k].ver < k
      BY <1>7 DEF VerdictInv, VersionsKnown
    <3>2. ASSUME NEW x \in Models
          PROVE  /\ model'[x].ver <= Len(journal')
                 /\ \A a \in Copies(x)' : a.ver <= Len(journal')
                 /\ \A i \in DOMAIN s2c'[x] : s2c'[x][i].ver <= Len(journal')
      <4>1. model'[x].ver <= Len(journal')
        <5>1. model[x].ver \in Nat  BY <1>2 DEF ShapeOK
        <5> QED  BY <1>1, <1>2, <2>7, <3>1, <5>1
      <4>2. \A a \in Copies(x)' : a.ver <= Len(journal')
        <5>1. \A a \in Copies(x) : a.ver \in Nat  BY <1>2 DEF CopiesOK
        <5> QED  BY <1>2, <2>7, <2>8, <3>1, <5>1
      <4>3. ASSUME NEW i \in DOMAIN s2c'[x] PROVE s2c'[x][i].ver <= Len(journal')
        <5>1. CASE i \in DOMAIN s2c[x] /\ s2c'[x][i] = s2c[x][i]
          <6>1. s2c'[x][i].ver \in Nat
            <7> DEFINE Messages == [type : {"txn", "txnOk", "txnErr"}, id : Ids, ver : Nat]
            <7>1. s2c[x] \in Seq(Messages)  BY <1>2 DEF ShapeOK
            <7>2. \A msg \in Messages : msg.ver \in Nat  OBVIOUS
            <7> HIDE DEF Messages
            <7>3. s2c[x][i] \in Messages  BY <5>1, <7>1
            <7> QED  BY <5>1, <7>2, <7>3
          <6>2. s2c'[x][i].ver <= Len(journal)  BY <3>1, <5>1
          <6> QED  BY <1>2, <2>7, <6>1, <6>2
        <5>2. CASE s2c'[x][i].ver = Len(journal) + 1  BY <1>2, <2>7, <5>2
        <5> QED  BY <2>6, <5>1, <5>2
      <4> QED  BY <4>1, <4>2, <4>3
    <3>3. ASSUME NEW k \in DOMAIN journal', journal'[k].id.by \in Models PROVE journal'[k].ver < k
      <4>1. CASE k \in 1 .. Len(journal)  BY <1>2, <2>7, <3>1, <3>3, <4>1
      <4>2. CASE k = Len(journal) + 1
        <5>1. txn.ver <= Len(journal)  BY <1>3, <3>1
        <5> QED  BY <1>2, <1>4, <2>7, <4>2, <5>1
      <4> QED  BY <2>7, <4>1, <4>2
    <3> QED  BY <3>2, <3>3 DEF VersionsKnown
  <2>12. RefusedMeets'
    <3> SUFFICES ASSUME NEW id \in refused
                 PROVE  /\ id.n < model'[id.by].made
                        /\ \A a \in Copies(id.by)' : a.id = id =>
                             \E j \in DOMAIN journal' : j > a.ver /\ Meets(a, journal'[j])
      BY <1>1, <1>7, <2>6 DEF RefusedMeets, Meets
    <3>1. id.by \in Models  BY <1>2 DEF ShapeOK
    <3>2. /\ id.n < model[id.by].made
          /\ \A a \in Copies(id.by) : a.id = id =>
               \E j \in DOMAIN journal : j > a.ver /\ Meets(a, journal[j])
      BY <1>7 DEF VerdictInv, RefusedMeets
    <3>3. \A j \in DOMAIN journal : j \in DOMAIN journal' /\ journal'[j] = journal[j]
      BY <1>2, <2>7
    <3> QED  BY <1>1, <2>8, <3>1, <3>2, <3>3
  <2>13. CallersOnce'
    <3>1. ASSUME NEW k \in DOMAIN journal', NEW c \in Callers, journal'[k].id.by = c
          PROVE  caller'[c].phase \in {"done", "held"}
      <4>1. CASE k \in 1 .. Len(journal)
        BY <1>1, <1>2, <2>7, <3>1, <4>1 DEF VerdictInv, CallersOnce
      <4>2. CASE k = Len(journal) + 1  BY <1>4, <2>7, <3>1, <4>2, NamesAssumption
      <4> QED  BY <2>7, <4>1, <4>2
    <3> QED  BY <3>1 DEF CallersOnce
  <2> QED  BY <2>5, <2>6, <2>9, <2>10, <2>11, <2>12, <2>13 DEF VerdictInv
<1>8. CASE ~ (startId = 0 /\ Verdict(txn) = "ok")
  <2>1. PICK err : /\ Refuse(txn, err)
                   /\ \/ startId # 0
                      \/ startId = 0 /\ Verdict(txn) # "ok" /\ err = Verdict(txn)
    BY <1>1, <1>4, <1>8
  <2>2. /\ UNCHANGED <<journal, index, db, dbVer>>
        /\ \/ s2c' = s2c /\ refused' = refused
           \/ /\ err # "duplicate"
              /\ s2c' = [s2c EXCEPT ![m] = Append(@, [type |-> "txnErr", id |-> txn.id, ver |-> 0])]
              /\ refused' = refused \cup {txn.id}
    BY <1>4, <2>1 DEF Refuse
  <2> DEFINE msg == [type |-> "txnErr", id |-> txn.id, ver |-> 0]
             Messages == [type : {"txn", "txnOk", "txnErr"}, id : Ids, ver : Nat]
  <2>3. /\ s2c' \in [Models -> Seq(Messages)]
        /\ \A x \in Models : \A i \in DOMAIN s2c'[x] :
             \/ i \in DOMAIN s2c[x] /\ s2c'[x][i] = s2c[x][i]
             \/ s2c'[x][i].ver = 0
    <3>1. s2c \in [Models -> Seq(Messages)] /\ msg \in Messages /\ msg.ver = 0
      BY <1>2, <1>4 DEF ShapeOK
    <3> HIDE DEF Messages, msg
    <3>2. CASE s2c' = s2c  BY <3>1, <3>2
    <3>3. CASE s2c' = [s2c EXCEPT ![m] = Append(@, msg)]
      <4>1. s2c'[m] = Append(s2c[m], msg) /\ \A x \in Models : x # m => s2c'[x] = s2c[x]
        BY <3>1, <3>3
      <4>2. PICK n \in Nat : n = Len(s2c[m]) /\ DOMAIN s2c[m] = 1 .. n  BY <3>1
      <4>3. /\ s2c'[m] \in Seq(Messages) /\ DOMAIN s2c'[m] = 1 .. n + 1
            /\ \A i \in 1 .. n : s2c'[m][i] = s2c[m][i]
            /\ s2c'[m][n + 1] = msg
        BY <3>1, <4>1, <4>2
      <4>4. \A i \in 1 .. n + 1 : i \in 1 .. n \/ i = n + 1  OBVIOUS
      <4>5. \A i \in DOMAIN s2c'[m] : \/ i \in DOMAIN s2c[m] /\ s2c'[m][i] = s2c[m][i]
                                      \/ s2c'[m][i].ver = 0
        BY <3>1, <4>2, <4>3, <4>4
      <4>6. s2c' \in [Models -> Seq(Messages)]  BY <3>1, <3>3, <4>1, <4>3
      <4> QED  BY <4>1, <4>5, <4>6
    <3> QED  BY <2>2, <3>2, <3>3 DEF msg
  <2> HIDE DEF msg
  <2>4. refused' \subseteq refused \cup {txn.id} /\ refused' \subseteq [by : Models, n : Nat]
    <3>1. txn.id \in [by : Models, n : Nat]
      <4>1. txn.id = [by |-> txn.id.by, n |-> txn.id.n] /\ txn.id.n \in Nat  BY <1>4 DEF Ids
      <4> QED  BY <1>4, <4>1
    <3> QED  BY <1>2, <2>2, <3>1 DEF ShapeOK
  <2>5. ShapeOK'  BY <1>1, <1>2, <1>3, <2>3, <2>4 DEF ShapeOK
  <2>6. \A x \in Models : Copies(x)' \subseteq Copies(x)  BY <1>1, <1>3, <2>2 DEF Copies
  <2>7. StoreOK' /\ AcceptedUnmet' /\ CallersOnce'
    BY <1>1, <2>2 DEF VerdictInv, StoreOK, AcceptedUnmet, CallersOnce, Meets
  <2>8. CopiesOK'  BY <1>1, <1>2, <2>6, FewerCopies
  <2>9. VersionsKnown'
    <3> SUFFICES ASSUME startId = 0
                 PROVE  /\ \A x \in Models :
                             /\ model[x].ver <= Len(journal)
                             /\ \A a \in Copies(x)' : a.ver <= Len(journal)
                             /\ \A i \in DOMAIN s2c'[x] : s2c'[x][i].ver <= Len(journal)
                        /\ \A k \in DOMAIN journal : journal[k].id.by \in Models => journal[k].ver < k
      BY <1>1, <2>2 DEF VersionsKnown
    <3>1. /\ \A x \in Models : /\ model[x].ver <= Len(journal)
                               /\ \A a \in Copies(x) : a.ver <= Len(journal)
                               /\ \A i \in DOMAIN s2c[x] : s2c[x][i].ver <= Len(journal)
          /\ \A k \in DOMAIN journal : journal[k].id.by \in Models => journal[k].ver < k
      BY DEF VerdictInv, VersionsKnown
    <3>2. ASSUME NEW x \in Models, NEW i \in DOMAIN s2c'[x]
          PROVE  s2c'[x][i].ver <= Len(journal)
      <4>1. CASE i \in DOMAIN s2c[x] /\ s2c'[x][i] = s2c[x][i]  BY <3>1, <4>1
      <4>2. CASE s2c'[x][i].ver = 0  BY <1>2, <4>2
      <4> QED  BY <2>3, <4>1, <4>2
    <3> QED  BY <2>6, <3>1, <3>2
\* A conflict is with something that is still there when it comes again.
  <2>10. ASSUME startId = 0, txn.id \in refused', txn.id \notin refused
         PROVE  \E j \in Since(txn.ver) :
                  /\ Meets(txn, journal[j]) /\ journal[j].id # txn.id
                  /\ \A k \in Since(txn.ver) : Meets(txn, journal[k]) => j <= k
    <3>1. Verdict(txn) \notin {"ok", "duplicate"}  BY <2>1, <2>2, <2>10
    <3> QED  BY <1>2, <3>1, VerdictConflict
  <2>11. RefusedMeets'
    <3>1. ASSUME startId = 0, NEW id \in refused'
          PROVE  /\ id.n < model[id.by].made
                 /\ \A a \in Copies(id.by)' : a.id = id =>
                      \E j \in DOMAIN journal : j > a.ver /\ Meets(a, journal[j])
      <4>1. id.by \in Models  BY <2>4
      <4>2. CASE id \in refused
        BY <2>6, <3>1, <4>1, <4>2 DEF VerdictInv, RefusedMeets
      <4>3. CASE id = txn.id /\ id \notin refused
        <5>1. PICK j \in Since(txn.ver) : Meets(txn, journal[j])  BY <2>10, <3>1, <4>3
        <5>2. j \in DOMAIN journal /\ j > txn.ver
          BY <1>4, <5>1, NamesAssumption DEF Since
        <5>3. \A a \in Copies(m)' : a.id = id => a = txn  BY <1>4, <2>6, <4>3
        <5> QED  BY <1>4, <4>3, <5>1, <5>2, <5>3
      <4> QED  BY <2>4, <4>2, <4>3
    <3>2. startId # 0 => \A k \in DOMAIN journal : journal[k].id.by \in Callers
      BY DEF VerdictInv, RefusedMeets
    <3> QED  BY <1>1, <2>2, <3>1, <3>2 DEF RefusedMeets, Meets
  <2>12. OneVerdict'
    <3>1. \A j, k \in DOMAIN journal : j # k => journal[j].id # journal[k].id
      BY DEF VerdictInv, OneVerdict
    <3>2. ASSUME NEW k \in DOMAIN journal, journal[k].id \in refused' PROVE FALSE
      <4>1. journal[k].id \notin refused  BY DEF VerdictInv, OneVerdict
      <4>2. journal[k].id = txn.id  BY <2>4, <3>2, <4>1
      <4>3. CASE startId # 0
        <5>1. journal[k].id.by \in Callers  BY <4>3 DEF VerdictInv, RefusedMeets
        <5> QED  BY <1>4, <4>2, <5>1, NamesAssumption
      <4>4. CASE startId = 0
        <5>1. journal[k] = txn /\ k \in Since(txn.ver) /\ Meets(txn, journal[k])
          BY <1>6, <4>2, <4>4
        <5>2. PICK j \in Since(txn.ver) :
                /\ Meets(txn, journal[j]) /\ journal[j].id # txn.id
                /\ \A i \in Since(txn.ver) : Meets(txn, journal[i]) => j <= i
          BY <2>10, <3>2, <4>1, <4>2, <4>4
        <5>3. j \in DOMAIN journal /\ j > txn.ver /\ j <= k /\ j # k
          BY <1>4, <4>2, <5>1, <5>2, NamesAssumption DEF Since
        <5>4. j \in 1 .. k - 1  BY <1>2, <5>3
        <5>5. txn.ver # None  BY <1>4, NamesAssumption
        <5>6. ~ Meets(txn, journal[j])
          BY <5>1, <5>3, <5>4, <5>5 DEF VerdictInv, AcceptedUnmet
        <5> QED  BY <5>2, <5>6
      <4> QED  BY <4>3, <4>4
    <3> QED  BY <2>2, <3>1, <3>2 DEF OneVerdict
  <2> QED  BY <2>5, <2>7, <2>8, <2>9, <2>11, <2>12 DEF VerdictInv
<1> QED  BY <1>7, <1>8

-----------------------------------------------------------------------------
(* The callers *)

Caller == [kind : Kinds, path : Paths, phase : Phases, val : Values,
           ver : Nat \cup {None}, since : 0 .. MaxFlushes, retries : 0 .. MaxRetries]

\* A record of a caller is known by its fields.
LEMMA CallerFields ==
  ASSUME NEW r, r = [x \in {"kind", "path", "phase", "val", "ver", "since", "retries"} |-> r[x]],
         r.kind \in Kinds, r.path \in Paths, r.phase \in Phases, r.val \in Values,
         r.ver \in Nat \cup {None}, r.since \in 0 .. MaxFlushes, r.retries \in 0 .. MaxRetries
  PROVE  r \in Caller
BY DEF Caller

\* A step of a caller with nothing in the journal, which itself puts nothing there.
LEMMA CallerVerdict ==
  ASSUME VerdictInv, NEW c \in Callers, caller[c].phase \in {"called", "got"},
         NEW r \in Caller, caller' = [caller EXCEPT ![c] = r],
         UNCHANGED <<journal, index, startId, db, dbVer, c2s, s2c, model, refused>>
  PROVE  VerdictInv'
<1>1. caller \in [Callers -> Caller]  BY DEF VerdictInv, ShapeOK, Caller
<1>2. caller' \in [Callers -> Caller] /\ \A d \in Callers : d # c => caller'[d] = caller[d]
  BY <1>1
<1>3. ShapeOK'
  <2>1. caller' \in [Callers -> [kind : Kinds, path : Paths, phase : Phases, val : Values,
                                 ver : Nat \cup {None}, since : 0 .. MaxFlushes,
                                 retries : 0 .. MaxRetries]]
    BY <1>2 DEF Caller
  <2> QED  BY <2>1 DEF VerdictInv, ShapeOK
<1>4. CallersOnce'
  <2>1. \A k \in DOMAIN journal : journal[k].id.by # c  BY DEF VerdictInv, CallersOnce
  <2> QED  BY <1>2, <2>1 DEF VerdictInv, CallersOnce
<1>5. \A x \in Models : Copies(x)' = Copies(x)  BY DEF Copies
<1>6. StoreOK' /\ AcceptedUnmet' /\ OneVerdict'
  BY DEF VerdictInv, StoreOK, AcceptedUnmet, OneVerdict, Meets
<1>7. CopiesOK' /\ VersionsKnown'  BY <1>5 DEF VerdictInv, CopiesOK, VersionsKnown
<1>8. RefusedMeets'
  <2>1. \A id \in refused : id.by \in Models  BY DEF VerdictInv, ShapeOK
  <2> QED  BY <1>5, <2>1 DEF VerdictInv, RefusedMeets, Meets
<1> QED  BY <1>3, <1>4, <1>6, <1>7, <1>8 DEF VerdictInv

\* A caller reads.
LEMMA GetVerdict ==
  ASSUME VerdictInv, NEW c \in Callers, Get(c)
  PROVE  VerdictInv'
<1> DEFINE r == [caller[c] EXCEPT !.phase = "got", !.since = startId,
                                  !.val = db[caller[c].path],
                                  !.ver = IF VersionRead THEN dbVer ELSE None]
<1>1. /\ caller[c].phase = "called"
      /\ caller' = [caller EXCEPT ![c].phase = "got", ![c].since = startId,
                      ![c].val = db[caller[c].path],
                      ![c].ver = IF VersionRead THEN dbVer ELSE None]
      /\ UNCHANGED <<journal, index, startId, db, dbVer, c2s, s2c, model, refused>>
  BY DEF Get
<1>2. caller \in [Callers -> Caller] /\ caller[c] \in Caller
  BY DEF VerdictInv, ShapeOK, Caller
<1>3. caller' = [caller EXCEPT ![c] = r]
  <2> HIDE DEF Caller
  <2> QED  BY <1>1, <1>2
<1>4. r \in Caller
  <2>1. /\ startId \in 0 .. MaxFlushes /\ db \in [Paths -> Values] /\ dbVer \in Nat
    <3>1. journal \in Seq(Txns) /\ dbVer \in 0 .. Len(journal)  BY DEF VerdictInv, StoreOK
    <3> QED  BY <3>1 DEF VerdictInv, StoreOK
  <2>2. /\ caller[c].kind \in Kinds /\ caller[c].path \in Paths
        /\ caller[c].retries \in 0 .. MaxRetries
        /\ DOMAIN caller[c] = {"kind", "path", "phase", "val", "ver", "since", "retries"}
    BY <1>2 DEF Caller
  <2>3. db[caller[c].path] \in Values  BY <2>1, <2>2
  <2>4. /\ r.kind = caller[c].kind /\ r.path = caller[c].path /\ r.phase = "got"
        /\ r.val = db[caller[c].path] /\ r.ver = (IF VersionRead THEN dbVer ELSE None)
        /\ r.since = startId /\ r.retries = caller[c].retries
        /\ r = [x \in DOMAIN caller[c] |-> r[x]]
    BY <2>2
  <2> HIDE DEF r
  <2>5. r.phase \in Phases /\ r.ver \in Nat \cup {None}  BY <2>1, <2>4 DEF Phases
  <2> QED  BY <2>1, <2>2, <2>3, <2>4, <2>5, CallerFields
<1> HIDE DEF r
<1> QED  BY <1>1, <1>3, <1>4, CallerVerdict

\* A caller runs again, or has failed.
LEMMA AgainVerdict ==
  ASSUME VerdictInv, NEW c \in Callers, caller[c].phase = "got", Again(c),
         UNCHANGED <<journal, index, startId, db, dbVer, c2s, s2c, model, refused>>
  PROVE  VerdictInv'
<1> DEFINE r == IF caller[c].retries = MaxRetries THEN [caller[c] EXCEPT !.phase = "failed"]
                ELSE [caller[c] EXCEPT !.phase = "called", !.retries = @ + 1]
<1>1. caller \in [Callers -> Caller] /\ caller[c] \in Caller
  BY DEF VerdictInv, ShapeOK, Caller
<1>2. caller' = [caller EXCEPT ![c] = r]
  <2> HIDE DEF Caller
  <2>1. CASE caller[c].retries = MaxRetries  BY <1>1, <2>1 DEF Again
  <2>2. CASE caller[c].retries # MaxRetries  BY <1>1, <2>2 DEF Again
  <2> QED  BY <2>1, <2>2
<1>3. r \in Caller
  <2>1. /\ caller[c].kind \in Kinds /\ caller[c].path \in Paths /\ caller[c].val \in Values
        /\ caller[c].ver \in Nat \cup {None} /\ caller[c].since \in 0 .. MaxFlushes
        /\ caller[c].retries \in 0 .. MaxRetries
        /\ DOMAIN caller[c] = {"kind", "path", "phase", "val", "ver", "since", "retries"}
    BY <1>1 DEF Caller
  <2>2. CASE caller[c].retries = MaxRetries
    BY <1>1, <2>2 DEF Caller, Phases
  <2>3. CASE caller[c].retries # MaxRetries
    <3> DEFINE s == [caller[c] EXCEPT !.phase = "called", !.retries = @ + 1]
    <3>1. /\ s.kind = caller[c].kind /\ s.path = caller[c].path /\ s.phase = "called"
          /\ s.val = caller[c].val /\ s.ver = caller[c].ver /\ s.since = caller[c].since
          /\ s.retries = caller[c].retries + 1
          /\ s = [x \in DOMAIN caller[c] |-> s[x]]
      BY <2>1
    <3>2. r = s  BY <2>3
    <3>3. caller[c].retries + 1 \in 0 .. MaxRetries  BY <2>1, <2>3, StmAssumption
    <3> HIDE DEF s, r
    <3>4. s.phase \in Phases  BY <3>1 DEF Phases
    <3> QED  BY <2>1, <3>1, <3>2, <3>3, <3>4, CallerFields
  <2> QED  BY <2>2, <2>3
<1> HIDE DEF r
<1> QED  BY <1>2, <1>3, CallerVerdict

\* A caller's transaction is accepted: it is in the journal once, and the caller waits for
\* nothing more or waits for ever.
LEMMA SetVerdict ==
  ASSUME VerdictInv, NEW c \in Callers, caller[c].phase = "got",
         NEW txn \in Txns, txn.id.by = c, Verdict(txn) = "ok", Accept(txn),
         NEW phase \in {"done", "held"}, caller' = [caller EXCEPT ![c].phase = phase],
         UNCHANGED <<startId, c2s, model>>
  PROVE  VerdictInv'
<1>1. /\ journal \in Seq(Txns) /\ journal' = Append(journal, txn) /\ refused' = refused
      /\ StoreOK /\ ShapeOK
  <2>1. StoreOK /\ ShapeOK  BY DEF VerdictInv
  <2>2. journal \in Seq(Txns)  BY <2>1 DEF StoreOK
  <2> QED  BY <2>1, <2>2 DEF Accept, AddToJournal
<1>2. /\ Len(journal) \in Nat
      /\ DOMAIN journal = 1 .. Len(journal) /\ DOMAIN journal' = 1 .. Len(journal) + 1
      /\ \A k \in 1 .. Len(journal) : journal'[k] = journal[k]
      /\ Len(journal') = Len(journal) + 1 /\ journal'[Len(journal) + 1] = txn
      /\ \A k \in 1 .. Len(journal) + 1 : k \in 1 .. Len(journal) \/ k = Len(journal) + 1
      /\ Range(journal') = Range(journal) \cup {txn}
  BY <1>1, Added
<1>3. txn.id.by \notin Models  BY NamesAssumption
<1>4. \A k \in DOMAIN journal : journal[k].id # txn.id
  BY DEF VerdictInv, CallersOnce
<1>5. txn.id \notin refused  BY <1>1, <1>3 DEF ShapeOK
<1>6. AcceptedUnmet' /\ OneVerdict'  BY <1>4, <1>5, AcceptKeeps
<1>7. /\ StoreOK'
      /\ s2c' \in [Models -> Seq([type : {"txn", "txnOk", "txnErr"}, id : Ids, ver : Nat])]
      /\ \A x \in Models : \A i \in DOMAIN s2c'[x] :
           \/ i \in DOMAIN s2c[x] /\ s2c'[x][i] = s2c[x][i]
           \/ s2c'[x][i].ver = Len(journal) + 1
  BY <1>1, AcceptTypes
<1>8. /\ caller' \in [Callers -> Caller] /\ caller'[c].phase = phase
      /\ \A d \in Callers : d # c => caller'[d] = caller[d]
  <2>1. caller \in [Callers -> Caller]  BY <1>1 DEF ShapeOK, Caller
  <2>2. phase \in Phases  BY DEF Phases
  <2>3. /\ [caller[c] EXCEPT !.phase = phase] \in Caller
        /\ [caller[c] EXCEPT !.phase = phase].phase = phase
    BY <2>1, <2>2 DEF Caller
  <2>4. caller' = [caller EXCEPT ![c] = [caller[c] EXCEPT !.phase = phase]]
    <3> HIDE DEF Caller
    <3> QED  BY <2>1
  <2> HIDE DEF Caller
  <2> QED  BY <2>1, <2>3, <2>4
<1>9. ShapeOK'
  <2>1. caller' \in [Callers -> [kind : Kinds, path : Paths, phase : Phases, val : Values,
                                 ver : Nat \cup {None}, since : 0 .. MaxFlushes,
                                 retries : 0 .. MaxRetries]]
    BY <1>8 DEF Caller
  <2> QED  BY <1>1, <1>7, <2>1 DEF ShapeOK
<1>10. \A x \in Models : Copies(x)' = Copies(x)
  <2>1. \A x \in Models :
          {t \in Range(journal') : t.id.by = x} = {t \in Range(journal) : t.id.by = x}
    BY <1>2, <1>3
  <2> QED  BY <2>1 DEF Copies
<1>11. CopiesOK'  BY <1>10 DEF VerdictInv, CopiesOK
<1>12. CallersOnce'
  <2>1. ASSUME NEW k \in DOMAIN journal', NEW d \in Callers, journal'[k].id.by = d
        PROVE  caller'[d].phase \in {"done", "held"}
    <3>1. CASE d = c  BY <1>8, <3>1
    <3>2. CASE d # c
      <4>1. k \in 1 .. Len(journal)  BY <1>2, <2>1, <3>2
      <4> QED  BY <1>2, <1>8, <2>1, <3>2, <4>1 DEF VerdictInv, CallersOnce
    <3> QED  BY <3>1, <3>2
  <2> QED  BY <2>1 DEF CallersOnce
<1>13. VersionsKnown'
  <2> SUFFICES ASSUME startId = 0
               PROVE  /\ \A x \in Models :
                           /\ model[x].ver <= Len(journal')
                           /\ \A a \in Copies(x)' : a.ver <= Len(journal')
                           /\ \A i \in DOMAIN s2c'[x] : s2c'[x][i].ver <= Len(journal')
                      /\ \A k \in DOMAIN journal' :
                           journal'[k].id.by \in Models => journal'[k].ver < k
    BY DEF VersionsKnown
  <2>1. /\ \A x \in Models : /\ model[x].ver <= Len(journal)
                             /\ \A a \in Copies(x) : a.ver <= Len(journal)
                             /\ \A i \in DOMAIN s2c[x] : s2c[x][i].ver <= Len(journal)
        /\ \A k \in DOMAIN journal : journal[k].id.by \in Models => journal[k].ver < k
    BY DEF VerdictInv, VersionsKnown
  <2>2. ASSUME NEW x \in Models PROVE model[x].ver <= Len(journal')
    <3>1. model[x].ver \in Nat  BY <1>1 DEF ShapeOK
    <3> QED  BY <1>2, <2>1, <3>1
  <2>3. ASSUME NEW x \in Models, NEW a \in Copies(x)' PROVE a.ver <= Len(journal')
    <3>1. a \in Copies(x) /\ a.ver \in Nat  BY <1>10, <2>3 DEF VerdictInv, CopiesOK
    <3> QED  BY <1>2, <2>1, <3>1
  <2>4. ASSUME NEW x \in Models, NEW i \in DOMAIN s2c'[x] PROVE s2c'[x][i].ver <= Len(journal')
    <3>1. CASE i \in DOMAIN s2c[x] /\ s2c'[x][i] = s2c[x][i]
      <4> DEFINE Messages == [type : {"txn", "txnOk", "txnErr"}, id : Ids, ver : Nat]
      <4>1. s2c[x] \in Seq(Messages)  BY <1>1 DEF ShapeOK
      <4>2. \A msg \in Messages : msg.ver \in Nat  OBVIOUS
      <4> HIDE DEF Messages
      <4>3. s2c[x][i].ver \in Nat  BY <3>1, <4>1, <4>2
      <4> QED  BY <1>2, <2>1, <3>1, <4>3
    <3>2. CASE s2c'[x][i].ver = Len(journal) + 1  BY <1>2, <3>2
    <3> QED  BY <1>7, <3>1, <3>2
  <2>5. ASSUME NEW k \in DOMAIN journal', journal'[k].id.by \in Models PROVE journal'[k].ver < k
    <3>1. k \in 1 .. Len(journal)  BY <1>2, <1>3, <2>5
    <3> QED  BY <1>2, <2>1, <2>5, <3>1
  <2> QED  BY <2>2, <2>3, <2>4, <2>5
<1>14. RefusedMeets'
  <2>1. ASSUME startId = 0, NEW id \in refused
        PROVE  /\ id.n < model[id.by].made
               /\ \A a \in Copies(id.by)' : a.id = id =>
                    \E j \in DOMAIN journal' : j > a.ver /\ Meets(a, journal'[j])
    <3>1. id.by \in Models  BY <1>1 DEF ShapeOK
    <3>2. /\ id.n < model[id.by].made
          /\ \A a \in Copies(id.by) : a.id = id =>
               \E j \in DOMAIN journal : j > a.ver /\ Meets(a, journal[j])
      BY <2>1 DEF VerdictInv, RefusedMeets
    <3>3. \A j \in DOMAIN journal : j \in DOMAIN journal' /\ journal'[j] = journal[j]
      BY <1>2
    <3> QED  BY <1>10, <3>1, <3>2, <3>3
  <2>2. ASSUME startId # 0, NEW k \in DOMAIN journal' PROVE journal'[k].id.by \in Callers
    <3>1. CASE k \in 1 .. Len(journal)  BY <1>2, <2>2, <3>1 DEF VerdictInv, RefusedMeets
    <3>2. CASE k = Len(journal) + 1  BY <1>2, <3>2
    <3> QED  BY <1>2, <3>1, <3>2
  <2> QED  BY <1>1, <2>1, <2>2 DEF RefusedMeets, Meets
<1> QED  BY <1>6, <1>7, <1>9, <1>11, <1>12, <1>13, <1>14 DEF VerdictInv

\* What a caller sets is a transaction.
LEMMA SetIsTxn ==
  ASSUME ShapeOK, NEW c \in Callers, caller[c].kind = "incr" \/ caller[c].val = Absent
  PROVE  /\ SetTxn(c) \in Txns /\ SetTxn(c).id.by = c
         /\ SetTxn(c).path = caller[c].path /\ SetTxn(c).kind = caller[c].kind
         /\ SetTxn(c).ver = caller[c].ver
         /\ SetTxn(c).val = IF caller[c].kind # "incr" \/ caller[c].val = Absent
                            THEN 1 ELSE caller[c].val + 1
<1>1. caller[c] \in Caller  BY DEF ShapeOK, Caller
<1>2. /\ caller[c].kind \in Kinds /\ caller[c].path \in Paths /\ caller[c].val \in Values
      /\ caller[c].ver \in Nat \cup {None} /\ caller[c].since \in 0 .. MaxFlushes
      /\ caller[c].retries \in 0 .. MaxRetries
  BY <1>1 DEF Caller
<1> DEFINE val == IF caller[c].kind # "incr" \/ caller[c].val = Absent
                  THEN 1 ELSE caller[c].val + 1
<1>3. val \in Values  BY <1>2 DEF Values
<1>4. [by |-> c, n |-> caller[c].retries] \in Ids  BY <1>2, StmAssumption DEF Ids
<1>5. SetTxn(c) = [id |-> [by |-> c, n |-> caller[c].retries], path |-> caller[c].path,
                   val |-> val, ver |-> caller[c].ver, kind |-> caller[c].kind,
                   since |-> caller[c].since]
  BY DEF SetTxn
<1> HIDE DEF val
<1>6. SetTxn(c) \in Txns  BY <1>2, <1>3, <1>4, <1>5 DEF Txns
<1> QED  BY <1>5, <1>6 DEF val

\* A caller sets, starts again, or has nothing to set.
LEMMA GotVerdict ==
  ASSUME VerdictInv, NEW c \in Callers, Got(c)
  PROVE  VerdictInv'
<1>1. caller[c].phase = "got" /\ UNCHANGED <<startId, c2s, model>>  BY DEF Got
<1>2. ShapeOK  BY DEF VerdictInv
<1>3. CASE (caller[c].kind = "incr" \/ caller[c].val = Absent) /\ Set(c)
  <2>1. CASE /\ Verdict(SetTxn(c)) = "ok" /\ Accept(SetTxn(c))
             /\ caller' = [caller EXCEPT ![c].phase = IF GoesOn THEN "done" ELSE "held"]
    <3> DEFINE txn == SetTxn(c)
               phase == IF GoesOn THEN "done" ELSE "held"
    <3>1. txn \in Txns /\ txn.id.by = c  BY <1>2, <1>3, SetIsTxn
    <3>2. phase \in {"done", "held"}  OBVIOUS
    <3>3. Verdict(txn) = "ok" /\ Accept(txn) /\ caller' = [caller EXCEPT ![c].phase = phase]
      BY <2>1
    <3> HIDE DEF txn, phase
    <3> QED  BY <1>1, <3>1, <3>2, <3>3, SetVerdict
  <2>2. CASE Again(c) /\ UNCHANGED <<journal, index, db, dbVer, s2c, refused>>
    BY <1>1, <2>2, AgainVerdict
  <2> QED  BY <1>3, <2>1, <2>2 DEF Set
<1>4. CASE /\ caller' = [caller EXCEPT ![c].phase = "silent"]
           /\ UNCHANGED <<journal, index, db, dbVer, s2c, refused>>
  <2> DEFINE r == [caller[c] EXCEPT !.phase = "silent"]
  <2>1. caller \in [Callers -> Caller]  BY <1>2 DEF ShapeOK, Caller
  <2>2. r \in Caller  BY <2>1 DEF Caller, Phases
  <2>3. caller' = [caller EXCEPT ![c] = r]
    <3> HIDE DEF Caller
    <3> QED  BY <1>4, <2>1
  <2> HIDE DEF r
  <2> QED  BY <1>1, <1>4, <2>2, <2>3, CallerVerdict
<1>5. CASE Again(c) /\ UNCHANGED <<journal, index, db, dbVer, s2c, refused>>
  BY <1>1, <1>5, AgainVerdict
<1> QED  BY <1>3, <1>4, <1>5 DEF Got

\* ... and every step keeps it.
LEMMA NextVerdict == VerdictInv /\ [Next]_vars => VerdictInv'
<1> SUFFICES ASSUME VerdictInv, [Next]_vars PROVE VerdictInv'  OBVIOUS
<1>1. CASE UNCHANGED vars
  <2>1. \A x \in Models : Copies(x)' = Copies(x)  BY <1>1 DEF vars, Copies
  <2>2. \A id \in refused : id.by \in Models  BY DEF VerdictInv, ShapeOK
  <2>3. StoreOK' /\ ShapeOK' /\ AcceptedUnmet' /\ CallersOnce' /\ OneVerdict'
    BY <1>1 DEF vars, VerdictInv, StoreOK, ShapeOK, AcceptedUnmet, CallersOnce, OneVerdict, Meets
  <2>4. CopiesOK' /\ VersionsKnown'
    BY <1>1, <2>1 DEF vars, VerdictInv, CopiesOK, VersionsKnown
  <2>5. RefusedMeets'
    BY <1>1, <2>1, <2>2 DEF vars, VerdictInv, RefusedMeets, Meets
  <2> QED  BY <2>3, <2>4, <2>5 DEF VerdictInv
<1>2. ASSUME NEW m \in Models, Commit(m) PROVE VerdictInv'  BY <1>2, CommitVerdict
<1>3. ASSUME NEW m \in Models, Resend(m) PROVE VerdictInv'  BY <1>3, ResendVerdict
<1>4. ASSUME NEW m \in Models, StoreReceive(m) PROVE VerdictInv'  BY <1>4, StoreReceiveVerdict
<1>5. ASSUME NEW m \in Models, ModelReceive(m) PROVE VerdictInv'  BY <1>5, ModelReceiveVerdict
<1>6. ASSUME NEW c \in Callers, Get(c) PROVE VerdictInv'  BY <1>6, GetVerdict
<1>7. ASSUME NEW c \in Callers, Got(c) PROVE VerdictInv'  BY <1>7, GotVerdict
<1>8. CASE Flush  BY <1>8, FlushVerdict
<1> QED  BY <1>1, <1>2, <1>3, <1>4, <1>5, <1>6, <1>7, <1>8 DEF Next

\* The shapes, and what TypeOK says of them.
LEMMA VerdictTypes == VerdictInv => TypeOK
<1> SUFFICES ASSUME VerdictInv PROVE TypeOK  OBVIOUS
<1>1. \A m \in Models : c2s[m] \in Seq(Txns) /\ model[m].pending \subseteq Txns
  BY DEF VerdictInv, ShapeOK
<1>2. \A c \in Callers : caller[c].retries \in 0 .. MaxRetries /\ caller[c].val \in Values
  BY DEF VerdictInv, ShapeOK
<1>3. refused \subseteq Ids  BY DEF VerdictInv, ShapeOK, Ids
<1> QED  BY <1>1, <1>2, <1>3 DEF VerdictInv, StoreOK, TypeOK

\* Every variable keeps its shape, and until a flush the number that _txnApplier waits
\* for is the next version (stm.js:13-45, journal-memory.js:15-31).
THEOREM StmTypeCorrect == Spec => []TypeOK
<1>1. VerdictInv /\ UNCHANGED vars => VerdictInv'  BY NextVerdict
<1> QED  BY InitVerdict, NextVerdict, VerdictTypes, PTL DEF Spec

\* A transaction is accepted once however often it is sent, and never refused if it was
\* accepted (stm.js:60-79, txns.Store.js:252-262), whatever the models and the callers do.
THEOREM EachOnce == Spec => []OneVerdict
<1>1. VerdictInv => OneVerdict  BY DEF VerdictInv
<1> QED  BY <1>1, InitVerdict, NextVerdict, PTL DEF Spec

-----------------------------------------------------------------------------
(* No lost update *)

\* What held of the first transactions holds when one more was accepted, ...
LEMMA HoldsStill ==
  ASSUME journal \in Seq(Txns), NEW txn \in Txns, journal' = Append(journal, txn),
         NEW p, NEW v \in 0 .. Len(journal), NEW x, Holds(p, v, x)
  PROVE  Holds(p, v, x)'
<1>1. \A k \in 1 .. Len(journal) : journal'[k] = journal[k]  BY Added
<1>2. Len(journal) \in Nat  OBVIOUS
<1>3. \A k \in 1 .. v : journal'[k] = journal[k]  BY <1>1, <1>2
<1>4. CASE \E j \in 1 .. v : /\ journal[j].path = p /\ journal[j].val = x
                             /\ \A i \in j + 1 .. v : journal[i].path # p
  <2>1. PICK j \in 1 .. v : /\ journal[j].path = p /\ journal[j].val = x
                            /\ \A i \in j + 1 .. v : journal[i].path # p
    BY <1>4
  <2>2. \A i \in j + 1 .. v : journal'[i].path # p
    <3>1. \A i \in j + 1 .. v : i \in 1 .. v  BY <1>2
    <3> QED  BY <1>3, <2>1, <3>1
  <2> QED  BY <1>3, <2>1, <2>2 DEF Holds
<1>5. CASE x = Absent /\ \A i \in 1 .. v : journal[i].path # p
  BY <1>3, <1>5 DEF Holds
<1> QED  BY <1>4, <1>5 DEF Holds

\* ... and what has not met a path since then leaves its value alone.
LEMMA HoldsOn ==
  ASSUME journal \in Seq(Txns), NEW p, NEW v \in 0 .. Len(journal), NEW w \in v .. Len(journal),
         NEW x, Holds(p, v, x), \A k \in v + 1 .. w : journal[k].path # p
  PROVE  Holds(p, w, x)
<1>1. Len(journal) \in Nat  OBVIOUS
<1>2. CASE \E j \in 1 .. v : /\ journal[j].path = p /\ journal[j].val = x
                             /\ \A i \in j + 1 .. v : journal[i].path # p
  <2>1. PICK j \in 1 .. v : /\ journal[j].path = p /\ journal[j].val = x
                            /\ \A i \in j + 1 .. v : journal[i].path # p
    BY <1>2
  <2>2. \A i \in j + 1 .. w : i \in j + 1 .. v \/ i \in v + 1 .. w  BY <1>1
  <2>3. j \in 1 .. w  BY <1>1
  <2> QED  BY <2>1, <2>2, <2>3 DEF Holds
<1>3. CASE x = Absent /\ \A i \in 1 .. v : journal[i].path # p
  <2>1. \A i \in 1 .. w : i \in 1 .. v \/ i \in v + 1 .. w  BY <1>1
  <2> QED  BY <1>3, <2>1 DEF Holds
<1> QED  BY <1>2, <1>3 DEF Holds

\* A value that held is that of a transaction or none.
LEMMA HoldsSome ==
  ASSUME journal \in Seq(Txns), NEW p, NEW v \in 0 .. Len(journal), NEW x, Holds(p, v, x)
  PROVE  x \in {Absent} \cup {journal[j].val : j \in DOMAIN journal}
<1>1. Len(journal) \in Nat /\ DOMAIN journal = 1 .. Len(journal)  OBVIOUS
<1>2. \A j \in 1 .. v : j \in DOMAIN journal  BY <1>1
<1> QED  BY <1>2 DEF Holds

\* What the k-th transaction found is what held before it.
LEMMA BeforeIs ==
  ASSUME journal \in Seq(Txns), NEW k \in DOMAIN journal, NEW x,
         Holds(journal[k].path, k - 1, x)
  PROVE  Before(k) = x
<1> DEFINE same == {j \in 1 .. k - 1 : journal[j].path = journal[k].path}
           last == CHOOSE j \in same : \A i \in same : i <= j
<1>1. k \in Nat  OBVIOUS
<1>2. Before(k) = IF same = {} THEN Absent ELSE journal[last].val  BY DEF Before
<1>3. CASE \E j \in 1 .. k - 1 : /\ journal[j].path = journal[k].path /\ journal[j].val = x
                                 /\ \A i \in j + 1 .. k - 1 : journal[i].path # journal[k].path
  <2>1. PICK j \in 1 .. k - 1 :
          /\ journal[j].path = journal[k].path /\ journal[j].val = x
          /\ \A i \in j + 1 .. k - 1 : journal[i].path # journal[k].path
    BY <1>3
  <2>2. j \in same /\ \A i \in same : i <= j
    <3>1. \A i \in same : ~ (i \in j + 1 .. k - 1)  BY <2>1
    <3>2. \A i \in same : i \in 1 .. k - 1  OBVIOUS
    <3> QED  BY <1>1, <2>1, <3>1, <3>2
  <2>3. last \in same /\ \A i \in same : i <= last
    <3> HIDE DEF same
    <3> QED  BY <2>2
  <2>4. last = j
    <3>1. last <= j /\ j <= last  BY <2>2, <2>3
    <3>2. last \in 1 .. k - 1 /\ j \in 1 .. k - 1  BY <2>3
    <3> HIDE DEF last
    <3> QED  BY <1>1, <3>1, <3>2
  <2> HIDE DEF same, last
  <2> QED  BY <1>2, <2>1, <2>2, <2>4
<1>4. CASE x = Absent /\ \A i \in 1 .. k - 1 : journal[i].path # journal[k].path
  <2>1. same = {}  BY <1>4
  <2> QED  BY <1>2, <1>4, <2>1
<1> QED  BY <1>3, <1>4 DEF Holds

\* The invariant on what was read holds at the start ...
LEMMA InitUpdate == Init => UpdateInv
<1> SUFFICES ASSUME Init PROVE UpdateInv  OBVIOUS
<1>1. /\ journal = << >> /\ db = [p \in Paths |-> Absent]
      /\ Len(journal) = 0 /\ DOMAIN journal = {}
  BY DEF Init
<1>2. DbCurrent  BY <1>1 DEF DbCurrent, Holds
<1>3. ReadOK  BY DEF Init, ReadOK
<1>4. NoneLost  BY <1>1 DEF NoneLost
<1> QED  BY <1>2, <1>3, <1>4 DEF UpdateInv

\* A transaction that computed from what held when it was accepted loses nothing.
LEMMA AcceptUpdate ==
  ASSUME VerdictInv, UpdateInv, startId = 0, startId' = 0,
         NEW txn \in Txns, Accept(txn),
         NEW x, Holds(txn.path, Len(journal), x),
         txn.kind = "incr" => txn.val = IF x = Absent THEN 1 ELSE x + 1,
         txn.kind \in {"setNull", "add"} => x = Absent,
         \A c \in Callers : caller'[c].phase = "got" => caller'[c] = caller[c]
  PROVE  UpdateInv'
<1>1. /\ journal \in Seq(Txns) /\ db \in [Paths -> Values] /\ GoesOn
  BY DEF VerdictInv, StoreOK, GoesOn
<1>2. /\ journal' = Append(journal, txn) /\ db' = [db EXCEPT ![txn.path] = txn.val]
  BY <1>1 DEF Accept, AddToJournal, WriteToDb
<1>3. /\ Len(journal) \in Nat /\ journal' \in Seq(Txns)
      /\ DOMAIN journal = 1 .. Len(journal) /\ DOMAIN journal' = 1 .. Len(journal) + 1
      /\ \A k \in 1 .. Len(journal) : journal'[k] = journal[k]
      /\ Len(journal') = Len(journal) + 1 /\ journal'[Len(journal) + 1] = txn
      /\ \A k \in 1 .. Len(journal) + 1 : k \in 1 .. Len(journal) \/ k = Len(journal) + 1
  BY <1>1, <1>2, Added
<1>4. ASSUME NEW p, NEW v \in 0 .. Len(journal), NEW y, Holds(p, v, y)
      PROVE  \/ \E j \in 1 .. v : /\ journal'[j].path = p /\ journal'[j].val = y
                                  /\ \A i \in j + 1 .. v : journal'[i].path # p
             \/ y = Absent /\ \A i \in 1 .. v : journal'[i].path # p
  <2>1. Holds(p, v, y)'  BY <1>1, <1>2, <1>4, HoldsStill
  <2> QED  BY <2>1 DEF Holds
<1>5. ASSUME NEW p \in Paths
      PROVE  \/ Len(journal) + 1 \in 1 .. Len(journal')
                /\ journal'[Len(journal) + 1].path = p /\ journal'[Len(journal) + 1].val = db'[p]
                /\ \A i \in Len(journal) + 1 + 1 .. Len(journal') : journal'[i].path # p
             \/ Holds(p, Len(journal), db'[p]) /\ journal'[Len(journal) + 1].path # p
  <2>1. CASE p = txn.path  BY <1>1, <1>2, <1>3, <2>1
  <2>2. CASE p # txn.path
    <3>1. db'[p] = db[p]  BY <1>1, <1>2, <2>2
    <3>2. Holds(p, Len(journal), db[p])  BY DEF UpdateInv, DbCurrent
    <3> QED  BY <1>3, <2>2, <3>1, <3>2
  <2> QED  BY <2>1, <2>2
<1>6. DbCurrent'
  <2> SUFFICES ASSUME NEW p \in Paths
               PROVE  \/ \E j \in 1 .. Len(journal') :
                           /\ journal'[j].path = p /\ journal'[j].val = db'[p]
                           /\ \A i \in j + 1 .. Len(journal') : journal'[i].path # p
                      \/ /\ db'[p] = Absent
                         /\ \A i \in 1 .. Len(journal') : journal'[i].path # p
    BY DEF DbCurrent, Holds
  <2>1. CASE Holds(p, Len(journal), db'[p]) /\ journal'[Len(journal) + 1].path # p
    <3>1. CASE \E j \in 1 .. Len(journal) :
                 /\ journal[j].path = p /\ journal[j].val = db'[p]
                 /\ \A i \in j + 1 .. Len(journal) : journal[i].path # p
      <4>1. PICK j \in 1 .. Len(journal) :
                 /\ journal[j].path = p /\ journal[j].val = db'[p]
                 /\ \A i \in j + 1 .. Len(journal) : journal[i].path # p
        BY <3>1
      <4>2. \A i \in j + 1 .. Len(journal') : journal'[i].path # p
        <5>1. ASSUME NEW i \in j + 1 .. Len(journal') PROVE journal'[i].path # p
          <6>1. CASE i = Len(journal) + 1  BY <2>1, <6>1
          <6>2. CASE i # Len(journal) + 1
            <7>1. i \in j + 1 .. Len(journal) /\ i \in 1 .. Len(journal)  BY <1>3, <6>2
            <7> QED  BY <1>3, <4>1, <7>1
          <6> QED  BY <6>1, <6>2
        <5> QED  BY <5>1
      <4>3. j \in 1 .. Len(journal') /\ journal'[j] = journal[j]  BY <1>3
      <4> QED  BY <4>1, <4>2, <4>3
    <3>2. CASE db'[p] = Absent /\ \A i \in 1 .. Len(journal) : journal[i].path # p
      BY <1>3, <2>1, <3>2
    <3> QED  BY <2>1, <3>1, <3>2 DEF Holds
  <2> QED  BY <1>5, <2>1
<1>7. ReadOK'
  <2> SUFFICES ASSUME NEW c \in Callers, caller'[c].phase = "got"
               PROVE  /\ caller'[c].ver \in 0 .. Len(journal')
                      /\ Holds(caller[c].path, caller[c].ver, caller[c].val)'
    BY DEF ReadOK, Holds
  <2>1. caller'[c] = caller[c]  OBVIOUS
  <2>2. /\ caller[c].ver \in 0 .. Len(journal)
        /\ Holds(caller[c].path, caller[c].ver, caller[c].val)
    BY <2>1 DEF UpdateInv, ReadOK
  <2> DEFINE p == caller[c].path  v == caller[c].ver  y == caller[c].val
  <2>3. \/ \E j \in 1 .. v : /\ journal'[j].path = p /\ journal'[j].val = y
                             /\ \A i \in j + 1 .. v : journal'[i].path # p
        \/ y = Absent /\ \A i \in 1 .. v : journal'[i].path # p
    <3>1. v \in 0 .. Len(journal) /\ Holds(p, v, y)  BY <2>2
    <3> HIDE DEF p, v, y
    <3> QED  BY <1>4, <3>1
  <2>4. v \in 0 .. Len(journal')  BY <1>3, <2>2
  <2> QED  BY <2>1, <2>3, <2>4 DEF Holds
<1>8. NoneLost'
  <2> SUFFICES ASSUME NEW k \in DOMAIN journal'
               PROVE  \E z \in {Absent} \cup {journal'[j].val : j \in DOMAIN journal'} :
                        /\ Holds(journal[k].path, k - 1, z)'
                        /\ journal'[k].kind = "incr" =>
                             journal'[k].val = IF z = Absent THEN 1 ELSE z + 1
                        /\ journal'[k].kind \in {"setNull", "add"} => z = Absent
    BY DEF NoneLost, Holds
  <2>1. PICK z \in {Absent} \cup {journal[j].val : j \in DOMAIN journal} :
          /\ Holds(journal'[k].path, k - 1, z)
          /\ journal'[k].kind = "incr" => journal'[k].val = IF z = Absent THEN 1 ELSE z + 1
          /\ journal'[k].kind \in {"setNull", "add"} => z = Absent
    <3>1. CASE k \in 1 .. Len(journal)
      BY <1>3, <3>1 DEF UpdateInv, NoneLost
    <3>2. CASE k = Len(journal) + 1
      <4>1. journal'[k] = txn /\ k - 1 = Len(journal)  BY <1>3, <3>2
      <4>2. x \in {Absent} \cup {journal[j].val : j \in DOMAIN journal}
        BY <1>1, <1>3, HoldsSome
      <4> QED  BY <4>1, <4>2
    <3> QED  BY <1>3, <3>1, <3>2
  <2>2. z \in {Absent} \cup {journal'[j].val : j \in DOMAIN journal'}  BY <1>3
  <2>3. k - 1 \in 0 .. Len(journal)  BY <1>3
  <2> DEFINE p == journal'[k].path  v == k - 1
  <2>4. \/ \E j \in 1 .. v : /\ journal'[j].path = p /\ journal'[j].val = z
                             /\ \A i \in j + 1 .. v : journal'[i].path # p
        \/ z = Absent /\ \A i \in 1 .. v : journal'[i].path # p
    <3>1. v \in 0 .. Len(journal) /\ Holds(p, v, z)  BY <2>1, <2>3
    <3> HIDE DEF p, v
    <3> QED  BY <1>4, <3>1
  <2> QED  BY <2>1, <2>2, <2>4 DEF Holds
<1> QED  BY <1>6, <1>7, <1>8 DEF UpdateInv

\* ... and every step keeps it, if what is read comes with its version.
LEMMA NextUpdate == VersionRead /\ VerdictInv /\ UpdateInv /\ [Next]_vars => UpdateInv'
<1> SUFFICES ASSUME VersionRead, VerdictInv, UpdateInv, [Next]_vars PROVE UpdateInv'
  OBVIOUS
<1>1. journal \in Seq(Txns) /\ Len(journal) \in Nat /\ DOMAIN journal = 1 .. Len(journal)
  <2>1. journal \in Seq(Txns)  BY DEF VerdictInv, StoreOK
  <2> QED  BY <2>1
<1>2. ASSUME UNCHANGED <<journal, startId, db>>,
             startId = 0 => \A c \in Callers :
               caller'[c].phase = "got" =>
                 \/ caller'[c] = caller[c]
                 \/ /\ caller'[c].ver = Len(journal) /\ caller'[c].path \in Paths
                    /\ caller'[c].val = db[caller'[c].path]
      PROVE  UpdateInv'
  <2>1. DbCurrent' /\ NoneLost'  BY <1>2 DEF UpdateInv, DbCurrent, NoneLost, Holds
  <2>2. ReadOK'
    <3> SUFFICES ASSUME startId = 0, NEW c \in Callers, caller'[c].phase = "got"
                 PROVE  /\ caller'[c].ver \in 0 .. Len(journal)
                        /\ Holds(caller'[c].path, caller'[c].ver, caller'[c].val)
      BY <1>2 DEF ReadOK, Holds
    <3>1. CASE caller'[c] = caller[c]  BY <3>1 DEF UpdateInv, ReadOK
    <3>2. CASE /\ caller'[c].ver = Len(journal) /\ caller'[c].path \in Paths
               /\ caller'[c].val = db[caller'[c].path]
      BY <1>1, <3>2 DEF UpdateInv, DbCurrent
    <3> QED  BY <1>2, <3>1, <3>2
  <2> QED  BY <2>1, <2>2 DEF UpdateInv
<1>3. caller \in [Callers -> Caller]  BY DEF VerdictInv, ShapeOK, Caller
<1>4. CASE UNCHANGED vars  BY <1>2, <1>4 DEF vars
<1>5. ASSUME NEW m \in Models, Commit(m) \/ Resend(m) \/ ModelReceive(m) PROVE UpdateInv'
  BY <1>2, <1>5 DEF Commit, Resend, ModelReceive
<1>6. ASSUME NEW m \in Models, StoreReceive(m) PROVE UpdateInv'
  <2> DEFINE txn == Head(c2s[m])
  <2>1. /\ UNCHANGED <<startId, caller>> /\ c2s[m] # << >>
        /\ IF txn.since # startId THEN Refuse(txn, "startId")
           ELSE IF Verdict(txn) = "ok" THEN Accept(txn) ELSE Refuse(txn, Verdict(txn))
    BY <1>6 DEF StoreReceive
  <2>2. txn \in Copies(m) /\ txn \in Txns
    <3>1. c2s[m] \in Seq(Txns)  BY DEF VerdictInv, ShapeOK
    <3>2. txn \in Txns /\ 1 \in DOMAIN c2s[m] /\ txn = c2s[m][1]  BY <2>1, <3>1, TailOf
    <3> HIDE DEF txn
    <3> QED  BY <3>2 DEF Copies, Range
  <2> HIDE DEF txn
  <2>3. txn.since = 0 /\ txn.kind = "set"  BY <2>2 DEF VerdictInv, CopiesOK
  <2>4. CASE startId = 0 /\ Accept(txn)
    <3>1. txn.path \in Paths  BY <2>2 DEF Txns
    <3>2. Holds(txn.path, Len(journal), db[txn.path])  BY <2>4, <3>1 DEF UpdateInv, DbCurrent
    <3>3. startId' = 0 /\ \A c \in Callers : caller'[c] = caller[c]  BY <2>1, <2>4
    <3> QED  BY <2>2, <2>3, <2>4, <3>2, <3>3, AcceptUpdate
  <2>5. CASE \E err : Refuse(txn, err)
    <3>1. UNCHANGED <<journal, db>>  BY <2>5 DEF Refuse
    <3> QED  BY <1>2, <2>1, <3>1
  <2> QED  BY <2>1, <2>3, <2>4, <2>5
<1>7. ASSUME NEW c \in Callers, Get(c) PROVE UpdateInv'
  <2>1. /\ caller' = [caller EXCEPT ![c].phase = "got", ![c].since = startId,
                        ![c].val = db[caller[c].path], ![c].ver = dbVer]
        /\ UNCHANGED <<journal, startId, db>>
    BY <1>7 DEF Get
  <2>2. /\ caller'[c].ver = dbVer /\ caller'[c].path = caller[c].path
        /\ caller'[c].val = db[caller[c].path]
        /\ \A d \in Callers : d # c => caller'[d] = caller[d]
        /\ caller[c].path \in Paths
    <3>1. /\ caller[c].path \in Paths
          /\ DOMAIN caller[c] = {"kind", "path", "phase", "val", "ver", "since", "retries"}
      BY <1>3 DEF Caller
    <3> HIDE DEF Caller
    <3> QED  BY <1>3, <2>1, <3>1
  <2>3. startId = 0 => dbVer = Len(journal)  BY DEF VerdictInv, StoreOK
  <2> QED  BY <1>2, <2>1, <2>2, <2>3
<1>8. ASSUME NEW c \in Callers, Got(c) PROVE UpdateInv'
  <2>1. caller[c].phase = "got" /\ UNCHANGED startId /\ ShapeOK
    BY <1>8 DEF Got, VerdictInv
  <2>2. \A phase \in Phases : [caller EXCEPT ![c].phase = phase][c].phase = phase
    BY <1>3 DEF Caller
  <2>3. CASE /\ caller[c].kind = "incr" \/ caller[c].val = Absent
             /\ Verdict(SetTxn(c)) = "ok" /\ Accept(SetTxn(c))
             /\ caller' = [caller EXCEPT ![c].phase = IF GoesOn THEN "done" ELSE "held"]
    <3> DEFINE txn == SetTxn(c)
    <3>1. /\ txn \in Txns /\ txn.id.by = c /\ txn.path = caller[c].path
          /\ txn.kind = caller[c].kind /\ txn.ver = caller[c].ver
          /\ txn.val = IF caller[c].kind # "incr" \/ caller[c].val = Absent
                       THEN 1 ELSE caller[c].val + 1
      BY <2>1, <2>3, SetIsTxn
    <3>2. Verdict(txn) = "ok" /\ Accept(txn)  BY <2>3
    <3>3. caller'[c].phase # "got" /\ \A d \in Callers : d # c => caller'[d] = caller[d]
      BY <1>3, <2>2, <2>3 DEF Phases
    <3> HIDE DEF txn
    <3>4. CASE startId = 0
      <4>1. /\ caller[c].ver \in 0 .. Len(journal)
            /\ Holds(caller[c].path, caller[c].ver, caller[c].val)
        BY <2>1, <3>4 DEF UpdateInv, ReadOK
\* Nothing that came after the version it read meets it.
      <4>2. \A k \in caller[c].ver + 1 .. Len(journal) : journal[k].path # caller[c].path
        <5> SUFFICES ASSUME NEW k \in caller[c].ver + 1 .. Len(journal)
                     PROVE  journal[k].path # txn.path
          BY <3>1
        <5>1. txn.ver # None /\ k \in DOMAIN journal /\ k > txn.ver
          BY <1>1, <3>1, <4>1, NamesAssumption
        <5>2. ~ Meets(txn, journal[k])  BY <3>2, <5>1, VerdictOk DEF Since
        <5> QED  BY <3>1, <5>2, NamesAssumption DEF Meets
      <4>3. Holds(txn.path, Len(journal), caller[c].val)
        <5>1. Len(journal) \in caller[c].ver .. Len(journal)  BY <1>1, <4>1
        <5> QED  BY <1>1, <3>1, <4>1, <4>2, <5>1, HoldsOn
      <4>4. /\ txn.kind = "incr" =>
                 txn.val = IF caller[c].val = Absent THEN 1 ELSE caller[c].val + 1
            /\ txn.kind \in {"setNull", "add"} => caller[c].val = Absent
        BY <2>3, <3>1
      <4>5. \A d \in Callers : caller'[d].phase = "got" => caller'[d] = caller[d]  BY <3>3
      <4> QED  BY <2>1, <3>1, <3>2, <3>4, <4>3, <4>4, <4>5, AcceptUpdate
    <3>5. CASE startId # 0
      BY <2>1, <3>5 DEF UpdateInv, DbCurrent, ReadOK, NoneLost
    <3> QED  BY <3>4, <3>5
  <2>4. CASE Again(c) /\ UNCHANGED <<journal, db>>
    <3>1. caller'[c].phase # "got" /\ \A d \in Callers : d # c => caller'[d] = caller[d]
      <4>1. CASE caller' = [caller EXCEPT ![c].phase = "failed"]
        BY <1>3, <2>2, <4>1 DEF Phases
      <4>2. CASE caller' = [caller EXCEPT ![c].phase = "called", ![c].retries = @ + 1]
        <5>1. DOMAIN caller[c] = {"kind", "path", "phase", "val", "ver", "since", "retries"}
          BY <1>3 DEF Caller
        <5> HIDE DEF Caller
        <5>2. caller'[c].phase = "called"  BY <1>3, <4>2, <5>1
        <5> QED  BY <1>3, <4>2, <5>2
      <4> QED  BY <2>4, <4>1, <4>2 DEF Again
    <3> QED  BY <1>2, <2>1, <2>4, <3>1
  <2>5. CASE caller' = [caller EXCEPT ![c].phase = "silent"] /\ UNCHANGED <<journal, db>>
    <3>1. caller'[c].phase # "got" /\ \A d \in Callers : d # c => caller'[d] = caller[d]
      BY <1>3, <2>2, <2>5 DEF Phases
    <3> QED  BY <1>2, <2>1, <2>5, <3>1
  <2> QED  BY <1>8, <2>3, <2>4, <2>5 DEF Got, Set
<1>9. CASE Flush
  <2>1. startId' # 0
    <3>1. startId \in Nat  BY StmAssumption DEF VerdictInv, StoreOK
    <3> QED  BY <1>9, <3>1 DEF Flush
  <2> QED  BY <2>1 DEF UpdateInv, DbCurrent, ReadOK, NoneLost
<1> QED  BY <1>4, <1>5, <1>6, <1>7, <1>8, <1>9 DEF Next

\* Where get answers with the version it read, as the store's own does, no retrying
\* mutator loses an update until the store is flushed: what it computed from is what its
\* set finds (Async.js:145-207, stm.js:51-79).
THEOREM NoUpdateLost == VersionRead => (Spec => []NoLostUpdate)
<1>1. VerdictInv /\ UpdateInv => NoLostUpdate
  <2> SUFFICES ASSUME VerdictInv, UpdateInv, startId = 0, NEW k \in DOMAIN journal
               PROVE  /\ journal[k].kind = "incr" =>
                           journal[k].val = IF Before(k) = Absent THEN 1 ELSE Before(k) + 1
                      /\ journal[k].kind \in {"setNull", "add"} => Before(k) = Absent
    BY DEF NoLostUpdate
  <2>1. PICK x \in {Absent} \cup {journal[j].val : j \in DOMAIN journal} :
          /\ Holds(journal[k].path, k - 1, x)
          /\ journal[k].kind = "incr" => journal[k].val = IF x = Absent THEN 1 ELSE x + 1
          /\ journal[k].kind \in {"setNull", "add"} => x = Absent
    BY DEF UpdateInv, NoneLost
  <2>2. journal \in Seq(Txns)  BY DEF VerdictInv, StoreOK
  <2>3. Before(k) = x  BY <2>1, <2>2, BeforeIs
  <2> QED  BY <2>1, <2>3
<1>2. Init => VerdictInv /\ UpdateInv  BY InitVerdict, InitUpdate
<1>3. VersionRead => (VerdictInv /\ UpdateInv /\ [Next]_vars => (VerdictInv /\ UpdateInv)')
  BY NextVerdict, NextUpdate
<1>4. ASSUME VersionRead PROVE Spec => []NoLostUpdate
  <2>1. VerdictInv /\ UpdateInv /\ [Next]_vars => (VerdictInv /\ UpdateInv)'  BY <1>3, <1>4
  <2> QED  BY <1>1, <1>2, <2>1, PTL DEF Spec
<1> QED  BY <1>4
=============================================================================
