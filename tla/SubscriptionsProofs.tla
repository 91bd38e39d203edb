------------------------ MODULE SubscriptionsProofs ------------------------
(***************************************************************************)
(* Proofs about Subscriptions: for any targets, queries, subscribers and   *)
(* bounds, the indexes agree and the registry has each query once; a       *)
(* socket is sent a transaction once; a query keeps its id in the browser; *)
(* and a model whose subscriptions were answered is in step with the       *)
(* store.                                                                  *)
(***************************************************************************)
EXTENDS Subscriptions, SequenceTheorems, FiniteSetTheorems, FunctionTheorems,
        WellFoundedInduction, TLAPS

Ids == Nat \cup Counts
IdQueries == UNION {[I -> Queries] : I \in SUBSET Ids}
Pairs == [id : Ids, tag : Tags]
Registries ==
  [queries : IdQueries, byNs : [Namespaces -> Seq(Ids)], byTag : [Tags -> Seq(Ids)],
   ordered : Seq(Pairs), nextId : Nat \ {0}]

\* The ids of the first n pairs.
Seen(r, n) == {r.ordered[i].id : i \in 1 .. n}

\* Every query is there once, under a number or as its own hash.
OnceEach(r) ==
  /\ \A i, j \in DOMAIN r.queries : r.queries[i] = r.queries[j] => i = j
  /\ \A id \in DOMAIN r.queries :
       IF id \in Nat THEN r.queries[id] \notin Counts ELSE r.queries[id] = id

\* The numbers are given in their order, and each id when it is tagged first.
Numbered(r) ==
  /\ DOMAIN r.queries \cap Nat = 1 .. r.nextId - 1
  /\ DOMAIN r.queries = Seen(r, Len(r.ordered))
  /\ \A i \in 1 .. Len(r.ordered) : r.ordered[i].id \in Nat =>
       1 .. r.ordered[i].id - 1 \subseteq Seen(r, i - 1)

ByNamespace(r) ==
  \A ns \in Namespaces :
    Range(r.byNs[ns]) = {id \in DOMAIN r.queries : NsOf[r.queries[id]] = ns}

\* A pair is among the first n.
IsTagged(r, n, id, tag) == \E i \in 1 .. n : r.ordered[i] = [id |-> id, tag |-> tag]

\* A pair is in the order once, and there if its id has the tag.
Tagged(r) ==
  /\ \A i, j \in 1 .. Len(r.ordered) : r.ordered[i] = r.ordered[j] => i = j
  /\ \A tag \in Tags :
       Range(r.byTag[tag]) = {id \in DOMAIN r.queries : IsTagged(r, Len(r.ordered), id, tag)}

RegOK(r) ==
  /\ OnceEach(r) /\ Numbered(r) /\ ByNamespace(r) /\ Tagged(r)
  /\ \A tag \in Tags : TagInOrder(r, tag)

-----------------------------------------------------------------------------
(* Folds: bundled queries are loaded, subscriptions are registered and     *)
(* transactions are applied one after the other.                            *)

LastOf(s) == CHOOSE x \in s : \A y \in s : x >= y

\* The operators that the model folds.
Op(kind, x, y) ==
  CASE kind = "load" -> LoadQuery(x, y)
    [] kind = "subscribe" -> RegisterSub(x, y)
    [] OTHER -> OnTxn(x, y)

\* The function from which FoldLeft takes its value, with one of them.
Step(kind, base, seq, f, s) == IF s = {} THEN base ELSE Op(kind, f[s \ {LastOf(s)}], seq[LastOf(s)])
Folding(kind, base, seq, D, f) == f = [s \in SUBSET D |-> Step(kind, base, seq, f, s)]

\* A set of numbers has a least one.
LEMMA LeastOf ==
  ASSUME NEW T \in SUBSET Nat, T # {}
  PROVE  \E n \in T : \A m \in T : n <= m
<1> DEFINE R == {ss \in Nat \X Nat : ss[1] < ss[2]}
<1>1. IsWellFoundedOn(R, Nat)
  BY NatLessThanWellFounded DEF OpToRel
<1> HIDE DEF R
<1>2. PICK n \in T : \A m \in T : <<m, n>> \notin R
  BY <1>1, WFMin
<1>3. \A m \in T : ~(m < n)
  BY <1>2 DEF R
<1> QED  BY <1>3

\* A set of numbers up to n has a greatest one.
LEMMA GreatestOf ==
  ASSUME NEW n \in Nat, NEW T \in SUBSET (1 .. n), T # {}
  PROVE  \E m \in T : \A k \in T : k <= m
<1> DEFINE B == {b \in 0 .. n : \A k \in T : k <= b}
<1>1. n \in B /\ B \in SUBSET Nat /\ B # {}  OBVIOUS
<1>2. PICK b \in B : \A c \in B : b <= c
  <2> HIDE DEF B
  <2> QED  BY <1>1, LeastOf
<1>3. b \in 0 .. n /\ \A k \in T : k \in 1 .. n /\ k <= b  BY <1>2
<1>4. ASSUME b \notin T PROVE FALSE
  <2>1. PICK k \in T : TRUE  OBVIOUS
  <2>2. b # 0  BY <1>3, <2>1
  <2>3. \A m \in T : m <= b - 1  BY <1>3, <1>4
  <2>4. b - 1 \in B  BY <1>3, <2>2, <2>3
  <2>5. b <= b - 1
    <3> HIDE DEF B
    <3> QED  BY <1>2, <2>4
  <2> QED  BY <1>3, <2>5
<1> QED  BY <1>3, <1>4

\* The last place of a set with k in it, of the places up to k, is k.
LEMMA LastIs ==
  ASSUME NEW k \in Nat, NEW s \in SUBSET (1 .. k), k \in s
  PROVE  LastOf(s) = k
<1> DEFINE P(x) == x \in s /\ \A y \in s : x >= y
<1>1. P(k) /\ \A x : P(x) => x = k
  <2>1. \A y \in s : y \in Nat /\ k >= y  OBVIOUS
  <2>2. ASSUME NEW x, P(x) PROVE x = k
    <3>1. x \in Nat /\ k >= x /\ x >= k  BY <2>1, <2>2
    <3> QED  BY <3>1
  <2> QED  BY <2>1, <2>2
<1>2. LastOf(s) = CHOOSE x : P(x)  BY DEF LastOf
<1> HIDE DEF P
<1> QED  BY <1>1, <1>2

\* There is such a function on the sets of the first n places.
LEMMA FoldingExists ==
  ASSUME NEW kind, NEW base, NEW seq, NEW n \in Nat
  PROVE  \E f : Folding(kind, base, seq, 1 .. n, f)
<1> DEFINE Bad == {k \in Nat : ~ \E f : Folding(kind, base, seq, 1 .. k, f)}
<1>1. ASSUME Bad # {} PROVE FALSE
  <2>1. PICK k \in Bad : \A m \in Bad : k <= m
    <3>1. Bad \in SUBSET Nat  OBVIOUS
    <3> HIDE DEF Bad
    <3> QED  BY <1>1, <3>1, LeastOf
  <2>2. k \in Nat /\ ~ \E f : Folding(kind, base, seq, 1 .. k, f)  BY <2>1
  <2>3. CASE k = 0
    <3> DEFINE f == [s \in SUBSET (1 .. 0) |-> base]
    <3>1. \A s \in SUBSET (1 .. 0) : Step(kind, base, seq, f, s) = base  BY DEF Step
    <3>2. Folding(kind, base, seq, 1 .. 0, f)
      <4>1. f = [s \in SUBSET (1 .. 0) |-> Step(kind, base, seq, f, s)]  BY <3>1
      <4> QED  BY <4>1 DEF Folding
    <3> QED  BY <2>2, <2>3, <3>2
  <2>4. CASE k # 0
    <3>1. k - 1 \in Nat /\ ~ (k <= k - 1)  BY <2>2, <2>4
    <3>2. k - 1 \notin Bad
      <4> HIDE DEF Bad
      <4> QED  BY <2>1, <3>1
    <3>3. PICK f : Folding(kind, base, seq, 1 .. k - 1, f)  BY <3>1, <3>2
    <3> DEFINE g == [s \in SUBSET (1 .. k) |->
                       IF k \in s THEN Step(kind, base, seq, f, s) ELSE f[s]]
    <3>4. ASSUME NEW s \in SUBSET (1 .. k) PROVE g[s] = Step(kind, base, seq, g, s)
      <4>1. CASE k \in s
        <5>1. s \ {k} \in SUBSET (1 .. k) /\ k \notin s \ {k} /\ s # {}  BY <4>1
        <5>2. LastOf(s) = k  BY <2>2, <4>1, LastIs
        <5>3. g[s \ {k}] = f[s \ {k}]  BY <5>1
        <5>4. g[s] = Step(kind, base, seq, f, s)  BY <4>1
        <5> HIDE DEF g
        <5> QED  BY <5>1, <5>2, <5>3, <5>4 DEF Step
      <4>2. CASE k \notin s
        <5>1. s \in SUBSET (1 .. k - 1)  BY <2>2, <4>2
        <5>2. f[s] = Step(kind, base, seq, f, s)
          <6>1. f = [x \in SUBSET (1 .. k - 1) |-> Step(kind, base, seq, f, x)]
            BY <3>3 DEF Folding
          <6> QED  BY <5>1, <6>1
        <5>3. g[s] = f[s]  BY <4>2
        <5>4. g[s \ {LastOf(s)}] = f[s \ {LastOf(s)}]  BY <4>2
        <5> HIDE DEF g
        <5> QED  BY <5>2, <5>3, <5>4 DEF Step
      <4> QED  BY <4>1, <4>2
    <3>5. Folding(kind, base, seq, 1 .. k, g)
      <4>1. g = [s \in SUBSET (1 .. k) |-> g[s]]  OBVIOUS
      <4>2. g = [s \in SUBSET (1 .. k) |-> Step(kind, base, seq, g, s)]
        <5> HIDE DEF g
        <5> QED  BY <3>4, <4>1
      <4> HIDE DEF g
      <4> QED  BY <4>2 DEF Folding
    <3> QED  BY <2>2, <3>5
  <2> QED  BY <2>3, <2>4
<1> QED  BY <1>1

LoadedFrom(base, seq) == FoldLeft(LoadQuery, base, seq)
RegisteredFrom(base, seq) == FoldLeft(RegisterSub, base, seq)
AppliedFrom(base, seq) == FoldLeft(OnTxn, base, seq)

\* Such a function passes through a list of values, one for each member of the sequence:
\* each is Op of the one before it and the member.
LEMMA FoldingSteps ==
  ASSUME NEW kind, NEW base, NEW S, NEW seq \in Seq(S),
         NEW f, Folding(kind, base, seq, DOMAIN seq, f)
  PROVE  \E v : /\ v[0] = base
                /\ \A k \in 1 .. Len(seq) : v[k] = Op(kind, v[k - 1], seq[k])
                /\ f[DOMAIN seq] = v[Len(seq)]
<1> DEFINE n == Len(seq)
<1>1. n \in Nat /\ DOMAIN seq = 1 .. n  OBVIOUS
<1>3. Folding(kind, base, seq, 1 .. n, f)  BY <1>1
<1>4. f[DOMAIN seq] = f[1 .. n]  BY <1>1
<1> HIDE DEF n
<1>5. \A s \in SUBSET (1 .. n) : f[s] = Step(kind, base, seq, f, s)
  <2>1. f = [s \in SUBSET (1 .. n) |-> Step(kind, base, seq, f, s)]  BY <1>3 DEF Folding
  <2> QED  BY <2>1
<1> DEFINE v == [k \in 0 .. n |-> f[1 .. k]]
<1>6. v[0] = base
  <2>1. (1 .. 0) \in SUBSET (1 .. n) /\ (1 .. 0) = {}  BY <1>1
  <2>2. f[1 .. 0] = base  BY <1>5, <2>1 DEF Step
  <2> QED  BY <1>1, <2>2
<1>7. ASSUME NEW k \in 1 .. n PROVE v[k] = Op(kind, v[k - 1], seq[k])
  <2>1. k \in Nat /\ k \in 1 .. k /\ (1 .. k) \in SUBSET (1 .. n)  BY <1>1
  <2>2. LastOf(1 .. k) = k  BY <2>1, LastIs
  <2>3. (1 .. k) \ {k} = 1 .. k - 1 /\ 1 .. k # {}  BY <2>1
  <2>4. f[1 .. k] = Op(kind, f[1 .. k - 1], seq[k])  BY <1>5, <2>1, <2>2, <2>3 DEF Step
  <2>5. v[k] = f[1 .. k] /\ v[k - 1] = f[1 .. k - 1]  BY <1>1
  <2> QED  BY <2>4, <2>5
<1>8. f[DOMAIN seq] = v[n]  BY <1>1, <1>4
<1> HIDE DEF v
<1>9. /\ v[0] = base
      /\ \A k \in 1 .. Len(seq) : v[k] = Op(kind, v[k - 1], seq[k])
      /\ f[DOMAIN seq] = v[Len(seq)]
  BY <1>6, <1>7, <1>8 DEF n
<1> QED  BY <1>9

\* Loading goes through the registries with one more query loaded.
LEMMA LoadingSteps ==
  ASSUME NEW base, NEW S, NEW seq \in Seq(S)
  PROVE  \E v : /\ v[0] = base
                /\ \A k \in 1 .. Len(seq) : v[k] = LoadQuery(v[k - 1], seq[k])
                /\ LoadedFrom(base, seq) = v[Len(seq)]
<1> DEFINE P(f) == f = [s \in SUBSET DOMAIN seq |->
                          IF s = {} THEN base ELSE LoadQuery(f[s \ {LastOf(s)}], seq[LastOf(s)])]
<1>1. \A x, y : Op("load", x, y) = LoadQuery(x, y)  BY DEF Op
<1>2. Len(seq) \in Nat /\ DOMAIN seq = 1 .. Len(seq)  OBVIOUS
<1>3. \A f : P(f) <=> Folding("load", base, seq, DOMAIN seq, f)  BY <1>1 DEF Folding, Step
<1>4. \E f : P(f)
  <2>1. PICK f : Folding("load", base, seq, 1 .. Len(seq), f)  BY <1>2, FoldingExists
  <2>2. P(f)
    <3> HIDE DEF P
    <3> QED  BY <1>2, <1>3, <2>1
  <2> HIDE DEF P
  <2> QED  BY <2>2
<1>5. LoadedFrom(base, seq) = (CHOOSE f : P(f))[DOMAIN seq]
  BY DEF LoadedFrom, FoldLeft, MapThenFoldSet, Max, LastOf
<1> HIDE DEF P
<1>6. PICK f : f = CHOOSE g : P(g)  OBVIOUS
<1>7. Folding("load", base, seq, DOMAIN seq, f)  BY <1>3, <1>4, <1>6
<1>8. PICK v : /\ v[0] = base
               /\ \A k \in 1 .. Len(seq) : v[k] = Op("load", v[k - 1], seq[k])
               /\ f[DOMAIN seq] = v[Len(seq)]
  BY <1>7, FoldingSteps
<1> QED  BY <1>1, <1>5, <1>6, <1>8

\* Registering goes through the registries with one more query registered.
LEMMA RegisteringSteps ==
  ASSUME NEW base, NEW S, NEW seq \in Seq(S)
  PROVE  \E v : /\ v[0] = base
                /\ \A k \in 1 .. Len(seq) : v[k] = RegisterSub(v[k - 1], seq[k])
                /\ RegisteredFrom(base, seq) = v[Len(seq)]
<1> DEFINE P(f) == f = [s \in SUBSET DOMAIN seq |->
                          IF s = {} THEN base ELSE RegisterSub(f[s \ {LastOf(s)}], seq[LastOf(s)])]
<1>1. \A x, y : Op("subscribe", x, y) = RegisterSub(x, y)  BY DEF Op
<1>2. Len(seq) \in Nat /\ DOMAIN seq = 1 .. Len(seq)  OBVIOUS
<1>3. \A f : P(f) <=> Folding("subscribe", base, seq, DOMAIN seq, f)  BY <1>1 DEF Folding, Step
<1>4. \E f : P(f)
  <2>1. PICK f : Folding("subscribe", base, seq, 1 .. Len(seq), f)  BY <1>2, FoldingExists
  <2>2. P(f)
    <3> HIDE DEF P
    <3> QED  BY <1>2, <1>3, <2>1
  <2> HIDE DEF P
  <2> QED  BY <2>2
<1>5. RegisteredFrom(base, seq) = (CHOOSE f : P(f))[DOMAIN seq]
  BY DEF RegisteredFrom, FoldLeft, MapThenFoldSet, Max, LastOf
<1> HIDE DEF P
<1>6. PICK f : f = CHOOSE g : P(g)  OBVIOUS
<1>7. Folding("subscribe", base, seq, DOMAIN seq, f)  BY <1>3, <1>4, <1>6
<1>8. PICK v : /\ v[0] = base
               /\ \A k \in 1 .. Len(seq) : v[k] = Op("subscribe", v[k - 1], seq[k])
               /\ f[DOMAIN seq] = v[Len(seq)]
  BY <1>7, FoldingSteps
<1> QED  BY <1>1, <1>5, <1>6, <1>8

\* Applying goes through the memories with one more transaction applied.
LEMMA ApplyingSteps ==
  ASSUME NEW base, NEW S, NEW seq \in Seq(S)
  PROVE  \E v : /\ v[0] = base
                /\ \A k \in 1 .. Len(seq) : v[k] = OnTxn(v[k - 1], seq[k])
                /\ AppliedFrom(base, seq) = v[Len(seq)]
<1> DEFINE P(f) == f = [s \in SUBSET DOMAIN seq |->
                          IF s = {} THEN base ELSE OnTxn(f[s \ {LastOf(s)}], seq[LastOf(s)])]
<1>1. \A x, y : Op("txn", x, y) = OnTxn(x, y)  BY DEF Op
<1>2. Len(seq) \in Nat /\ DOMAIN seq = 1 .. Len(seq)  OBVIOUS
<1>3. \A f : P(f) <=> Folding("txn", base, seq, DOMAIN seq, f)  BY <1>1 DEF Folding, Step
<1>4. \E f : P(f)
  <2>1. PICK f : Folding("txn", base, seq, 1 .. Len(seq), f)  BY <1>2, FoldingExists
  <2>2. P(f)
    <3> HIDE DEF P
    <3> QED  BY <1>2, <1>3, <2>1
  <2> HIDE DEF P
  <2> QED  BY <2>2
<1>5. AppliedFrom(base, seq) = (CHOOSE f : P(f))[DOMAIN seq]
  BY DEF AppliedFrom, FoldLeft, MapThenFoldSet, Max, LastOf
<1> HIDE DEF P
<1>6. PICK f : f = CHOOSE g : P(g)  OBVIOUS
<1>7. Folding("txn", base, seq, DOMAIN seq, f)  BY <1>3, <1>4, <1>6
<1>8. PICK v : /\ v[0] = base
               /\ \A k \in 1 .. Len(seq) : v[k] = Op("txn", v[k - 1], seq[k])
               /\ f[DOMAIN seq] = v[Len(seq)]
  BY <1>7, FoldingSteps
<1> QED  BY <1>1, <1>5, <1>6, <1>8

\* What holds of the base and is kept by each transaction holds of what they make.
LEMMA ApplyingStays ==
  ASSUME NEW T, NEW base \in T, NEW S, NEW seq \in Seq(S),
         \A x \in T, y \in S : OnTxn(x, y) \in T
  PROVE  AppliedFrom(base, seq) \in T
<1>0. seq \in Seq(S)  OBVIOUS
<1>1. PICK v : /\ v[0] = base
               /\ \A k \in 1 .. Len(seq) : v[k] = OnTxn(v[k - 1], seq[k])
               /\ AppliedFrom(base, seq) = v[Len(seq)]
  BY ONLY <1>0, ApplyingSteps
<1>2. Len(seq) \in Nat /\ \A k \in 1 .. Len(seq) : seq[k] \in S  OBVIOUS
<1> DEFINE Bad == {k \in 0 .. Len(seq) : v[k] \notin T}
<1>3. ASSUME Bad # {} PROVE FALSE
  <2>1. PICK k \in Bad : \A m \in Bad : k <= m
    <3>1. Bad \in SUBSET Nat  BY <1>2
    <3> HIDE DEF Bad
    <3> QED  BY <1>3, <3>1, LeastOf
  <2>2. k \in 0 .. Len(seq) /\ v[k] \notin T  BY <2>1
  <2>3. k \in 1 .. Len(seq) /\ k - 1 \in 0 .. Len(seq) /\ ~ (k <= k - 1)  BY <1>1, <1>2, <2>2
  <2>4. k - 1 \notin Bad
    <3> HIDE DEF Bad
    <3> QED  BY <2>1, <2>3
  <2>5. v[k - 1] \in T  BY <2>3, <2>4
  <2>6. v[k] = OnTxn(v[k - 1], seq[k])  BY <1>1, <2>3
  <2> QED  BY <1>2, <2>2, <2>3, <2>5, <2>6
<1>4. Len(seq) \in 0 .. Len(seq)  BY <1>2
<1> QED  BY <1>1, <1>3, <1>4

-----------------------------------------------------------------------------
(* The registry *)

\* A query that is registered has the id that it is registered under.
LEMMA QueryIdIs ==
  ASSUME NEW r \in Registries, OnceEach(r), ByNamespace(r), NEW q \in Queries
  PROVE  /\ \A id \in DOMAIN r.queries : r.queries[id] = q => QueryId(r, q) = id
         /\ q \notin Range(r.queries) => QueryId(r, q) = NoId
         /\ QueryId(r, q) \in DOMAIN r.queries \cup {NoId}
<1> DEFINE ids == r.byNs[NsOf[q]]
           found == {k \in DOMAIN ids : r.queries[ids[k]] = q}
           Greatest(k) == k \in found /\ \A j \in found : j <= k
<1>1. NsOf[q] \in Namespaces  BY DEF Namespaces
<1>2. ids \in Seq(Ids) /\ Len(ids) \in Nat /\ DOMAIN ids = 1 .. Len(ids)
  BY <1>1 DEF Registries
<1>3. Range(ids) = {id \in DOMAIN r.queries : NsOf[r.queries[id]] = NsOf[q]}
  BY <1>1 DEF ByNamespace
<1>4. QueryId(r, q) = IF found = {} THEN NoId ELSE ids[CHOOSE k : Greatest(k)]
  BY DEF QueryId
<1>5. ASSUME found # {}
      PROVE  \E k \in DOMAIN ids : r.queries[ids[k]] = q /\ QueryId(r, q) = ids[k]
  <2>1. found \in SUBSET (1 .. Len(ids))  BY <1>2
  <2>2. \E k : Greatest(k)
    <3> HIDE DEF found, ids
    <3> QED  BY <1>2, <1>5, <2>1, GreatestOf
  <2>3. PICK k : k = CHOOSE i : Greatest(i)  OBVIOUS
  <2>4. Greatest(k)
    <3> HIDE DEF Greatest
    <3> QED  BY <2>2, <2>3
  <2>5. QueryId(r, q) = ids[k]
    <3> HIDE DEF Greatest, found, ids
    <3> QED  BY <1>4, <1>5, <2>3
  <2> QED  BY <2>4, <2>5
<1>6. ASSUME NEW id \in DOMAIN r.queries, r.queries[id] = q PROVE QueryId(r, q) = id
  <2>1. id \in Range(ids)  BY <1>3, <1>6
  <2>2. PICK j \in DOMAIN ids : ids[j] = id  BY <2>1 DEF Range
  <2>3. found # {}  BY <1>6, <2>2
  <2>4. PICK k \in DOMAIN ids : r.queries[ids[k]] = q /\ QueryId(r, q) = ids[k]  BY <1>5, <2>3
  <2>5. ids[k] \in DOMAIN r.queries  BY <1>3, <2>4 DEF Range
  <2> QED  BY <1>6, <2>4, <2>5 DEF OnceEach
<1>7. \A k \in DOMAIN ids : ids[k] \in DOMAIN r.queries  BY <1>3 DEF Range
<1>8. ASSUME q \notin Range(r.queries) PROVE QueryId(r, q) = NoId
  <2>1. found = {}  BY <1>7, <1>8 DEF Range
  <2> QED  BY <1>4, <2>1
<1>9. QueryId(r, q) \in DOMAIN r.queries \cup {NoId}
  <2>1. CASE found = {}  BY <1>4, <2>1
  <2>2. CASE found # {}  BY <1>5, <1>7, <2>2
  <2> QED  BY <2>1, <2>2
<1> QED  BY <1>6, <1>8, <1>9

\* A function from some of the ids to queries.
LEMMA IdQueriesAre ==
  ASSUME NEW f
  PROVE  f \in IdQueries
           <=> /\ DOMAIN f \subseteq Ids /\ f = [i \in DOMAIN f |-> f[i]]
               /\ \A i \in DOMAIN f : f[i] \in Queries
<1>1. ASSUME f \in IdQueries
      PROVE  /\ DOMAIN f \subseteq Ids /\ f = [i \in DOMAIN f |-> f[i]]
             /\ \A i \in DOMAIN f : f[i] \in Queries
  <2>1. PICK I \in SUBSET Ids : f \in [I -> Queries]  BY <1>1 DEF IdQueries
  <2> QED  BY <2>1
<1>2. ASSUME DOMAIN f \subseteq Ids, f = [i \in DOMAIN f |-> f[i]],
             \A i \in DOMAIN f : f[i] \in Queries
      PROVE  f \in IdQueries
  <2>1. DOMAIN f \in SUBSET Ids /\ f \in [DOMAIN f -> Queries]  BY <1>2
  <2> QED  BY <2>1 DEF IdQueries
<1> QED  BY <1>1, <1>2

\* tag
LEMMA TagIs ==
  ASSUME NEW r \in Registries, NEW id \in Ids, NEW tag \in Tags
  PROVE  /\ Tag(r, id, tag) \in Registries
         /\ Tag(r, id, tag).queries = r.queries /\ Tag(r, id, tag).byNs = r.byNs
         /\ Tag(r, id, tag).nextId = r.nextId
         /\ id \in Range(r.byTag[tag]) => Tag(r, id, tag) = r
         /\ id \notin Range(r.byTag[tag]) =>
              /\ Tag(r, id, tag).byTag = [r.byTag EXCEPT ![tag] = Append(@, id)]
              /\ Tag(r, id, tag).ordered = Append(r.ordered, [id |-> id, tag |-> tag])
<1>1. ToSet(r.byTag[tag]) = Range(r.byTag[tag])  BY DEF ToSet, Range
<1>2. CASE id \in Range(r.byTag[tag])  BY <1>1, <1>2 DEF Tag
<1>3. CASE id \notin Range(r.byTag[tag])
  <2>1. Tag(r, id, tag) = [r EXCEPT !.byTag[tag] = Append(@, id),
                                    !.ordered = Append(@, [id |-> id, tag |-> tag])]
    BY <1>1, <1>3 DEF Tag
  <2>2. r.byTag[tag] \in Seq(Ids) /\ r.byTag \in [Tags -> Seq(Ids)] /\ r.ordered \in Seq(Pairs)
    BY DEF Registries
  <2>3. [id |-> id, tag |-> tag] \in Pairs  BY DEF Pairs
  <2>4. /\ Append(r.byTag[tag], id) \in Seq(Ids)
        /\ Append(r.ordered, [id |-> id, tag |-> tag]) \in Seq(Pairs)
    BY <2>2, <2>3
  <2> DEFINE t == Tag(r, id, tag)
             byTag == [r.byTag EXCEPT ![tag] = Append(@, id)]
             ordered == Append(r.ordered, [id |-> id, tag |-> tag])
  <2>5. byTag \in [Tags -> Seq(Ids)] /\ ordered \in Seq(Pairs)  BY <2>2, <2>4
  <2>6. t = [r EXCEPT !.byTag = byTag, !.ordered = ordered]  BY <2>1
  <2> HIDE DEF t, byTag, ordered
  <2>7. /\ t.queries = r.queries /\ t.byNs = r.byNs /\ t.nextId = r.nextId
        /\ t.byTag = byTag /\ t.ordered = ordered /\ t \in Registries
    BY <2>5, <2>6 DEF Registries
  <2> QED  BY <1>3, <2>7 DEF t, byTag, ordered
<1> QED  BY <1>2, <1>3

\* add, with the id under which the query is there afterwards.
LEMMA AddIs ==
  ASSUME NEW r \in Registries, NEW q \in Queries
  PROVE  /\ NewId(r, q) \in Ids /\ AddNew(r, q) \in Registries
         /\ DOMAIN AddNew(r, q).queries = DOMAIN r.queries \cup {NewId(r, q)}
         /\ \A i \in DOMAIN r.queries : AddNew(r, q).queries[i] = r.queries[i]
         /\ NewId(r, q) \notin DOMAIN r.queries => AddNew(r, q).queries[NewId(r, q)] = q
         /\ AddNew(r, q).byNs
              = [r.byNs EXCEPT ![NsOf[q]] = Append(r.byNs[NsOf[q]], NewId(r, q))]
         /\ AddNew(r, q).byTag = r.byTag /\ AddNew(r, q).ordered = r.ordered
         /\ AddNew(r, q).nextId = IF q \in Counts THEN r.nextId ELSE r.nextId + 1
<1> DEFINE id == NewId(r, q)  u == AddNew(r, q)
<1>1. id \in Ids  BY DEF NewId, Ids, Registries
<1>2. NsOf[q] \in Namespaces /\ r.byNs \in [Namespaces -> Seq(Ids)]
      /\ r.queries \in IdQueries /\ r.nextId \in Nat \ {0}
  BY DEF Namespaces, Registries
<1>3. /\ u.queries = Over(r.queries, [i \in {id} |-> q])
      /\ u.byNs = [r.byNs EXCEPT ![NsOf[q]] = Append(r.byNs[NsOf[q]], id)]
      /\ u.byTag = r.byTag /\ u.ordered = r.ordered
      /\ u.nextId = IF q \in Counts THEN r.nextId ELSE r.nextId + 1
      /\ u = [queries |-> u.queries, byNs |-> u.byNs, byTag |-> u.byTag,
              ordered |-> u.ordered, nextId |-> u.nextId]
  <2> DEFINE queries == Over(r.queries, [i \in {id} |-> q])
             byNs == [r.byNs EXCEPT ![NsOf[q]] = Append(r.byNs[NsOf[q]], id)]
             nextId == IF q \in Counts THEN r.nextId ELSE r.nextId + 1
  <2>1. u = [r EXCEPT !.queries = queries, !.byNs = byNs, !.nextId = nextId]
    BY <1>2 DEF AddNew
  <2> HIDE DEF u, queries, byNs, nextId
  <2>2. /\ u.queries = queries /\ u.byNs = byNs /\ u.nextId = nextId
        /\ u.byTag = r.byTag /\ u.ordered = r.ordered
        /\ u = [queries |-> u.queries, byNs |-> u.byNs, byTag |-> u.byTag,
                ordered |-> u.ordered, nextId |-> u.nextId]
    BY <2>1 DEF Registries
  <2> QED  BY <2>2 DEF queries, byNs, nextId
<1>4. /\ DOMAIN u.queries = DOMAIN r.queries \cup {id}
      /\ \A i \in DOMAIN r.queries : u.queries[i] = r.queries[i]
      /\ id \notin DOMAIN r.queries => u.queries[id] = q
      /\ u.queries = [i \in DOMAIN u.queries |-> u.queries[i]]
  <2> HIDE DEF id, u
  <2> QED  BY <1>3 DEF Over
<1> HIDE DEF id, u
<1>5. u.queries \in IdQueries
  <2>1. DOMAIN r.queries \subseteq Ids /\ \A i \in DOMAIN r.queries : r.queries[i] \in Queries
    BY <1>2, IdQueriesAre
  <2>2. \A i \in DOMAIN u.queries : u.queries[i] \in Queries
    <3>1. CASE id \in DOMAIN r.queries  BY <1>4, <2>1, <3>1
    <3>2. CASE id \notin DOMAIN r.queries  BY <1>4, <2>1, <3>2
    <3> QED  BY <3>1, <3>2
  <2>3. DOMAIN u.queries \subseteq Ids  BY <1>1, <1>4, <2>1
  <2> QED  BY <1>4, <2>2, <2>3, IdQueriesAre
<1>6. u.byNs \in [Namespaces -> Seq(Ids)]
  <2>1. Append(r.byNs[NsOf[q]], id) \in Seq(Ids)  BY <1>1, <1>2
  <2> QED  BY <1>2, <1>3, <2>1
<1>7. u.nextId \in Nat \ {0}  BY <1>2, <1>3
<1>8. u \in Registries
  <2>1. r.byTag \in [Tags -> Seq(Ids)] /\ r.ordered \in Seq(Pairs)  BY DEF Registries
  <2> QED  BY <1>3, <1>5, <1>6, <1>7, <2>1 DEF Registries
<1> QED  BY <1>1, <1>3, <1>4, <1>8 DEF id, u

\* The members of a sequence with one more.
LEMMA RangeOfMore ==
  ASSUME NEW S, NEW s \in Seq(S), NEW x
  PROVE  Range(Append(s, x)) = Range(s) \cup {x}
<1>1. Len(s) \in Nat /\ DOMAIN s = 1 .. Len(s)  OBVIOUS
<1>2. PICK t : t = Append(s, x)  OBVIOUS
<1>3. /\ DOMAIN t = 1 .. Len(s) + 1 /\ t[Len(s) + 1] = x
      /\ \A i \in 1 .. Len(s) : t[i] = s[i]
  BY <1>2
<1>4. DOMAIN t = (1 .. Len(s)) \cup {Len(s) + 1}  BY <1>1, <1>3
<1>5. Range(t) = Range(s) \cup {x}  BY <1>1, <1>3, <1>4 DEF Range
<1> QED  BY <1>2, <1>5

\* A registry in which one more pair is tagged, perhaps with a new query, keeps
\* its tags and their order.
LEMMA OnePairMore ==
  ASSUME NEW r \in Registries, NEW u \in Registries, NEW id \in Ids, NEW tag \in Tags,
         Tagged(r), \A t \in Tags : TagInOrder(r, t), id \notin Range(r.byTag[tag]),
         u.byTag = [r.byTag EXCEPT ![tag] = Append(@, id)],
         u.ordered = Append(r.ordered, [id |-> id, tag |-> tag]),
         DOMAIN r.queries \subseteq DOMAIN u.queries, id \in DOMAIN u.queries
  PROVE  Tagged(u) /\ \A t \in Tags : TagInOrder(u, t)
<1> DEFINE n == Len(r.ordered)
<1>1. /\ n \in Nat /\ r.ordered \in Seq(Pairs) /\ r.byTag \in [Tags -> Seq(Ids)]
      /\ DOMAIN r.ordered = 1 .. n
  BY DEF Registries
<1>2. PICK p \in Pairs : p = [id |-> id, tag |-> tag]  BY DEF Pairs
<1>3. /\ Len(u.ordered) = n + 1 /\ DOMAIN u.ordered = 1 .. n + 1 /\ u.ordered[n + 1] = p
      /\ \A i \in 1 .. n : u.ordered[i] = r.ordered[i]
  BY <1>1, <1>2
<1>4. \A t \in Tags \ {tag} : u.byTag[t] = r.byTag[t]  BY <1>1
<1>5. u.byTag[tag] = Append(r.byTag[tag], id)  BY <1>1
<1>6. PICK old : old = r.byTag[tag]  OBVIOUS
<1>7. old \in Seq(Ids) /\ Len(old) \in Nat /\ DOMAIN old = 1 .. Len(old)  BY <1>1, <1>6
<1>8. /\ DOMAIN u.byTag[tag] = 1 .. Len(old) + 1 /\ u.byTag[tag][Len(old) + 1] = id
      /\ \A k \in 1 .. Len(old) : u.byTag[tag][k] = old[k]
  BY <1>5, <1>6, <1>7
<1> HIDE DEF n
<1>9. \A t \in Tags : Range(r.byTag[t]) = {x \in DOMAIN r.queries : IsTagged(r, n, x, t)}
  BY DEF Tagged, n
<1>10. \A x \in Ids, t \in Tags :
         IsTagged(u, n + 1, x, t) <=> IsTagged(r, n, x, t) \/ (x = id /\ t = tag)
  <2> TAKE x \in Ids, t \in Tags
  <2>1. [id |-> x, tag |-> t] = p <=> x = id /\ t = tag  BY <1>2
  <2>2. 1 .. n + 1 = (1 .. n) \cup {n + 1}  BY <1>1
  <2>3. IsTagged(u, n + 1, x, t)
          <=> \/ \E i \in 1 .. n : u.ordered[i] = [id |-> x, tag |-> t]
              \/ u.ordered[n + 1] = [id |-> x, tag |-> t]
    BY <2>2 DEF IsTagged
  <2> QED  BY <1>3, <2>1, <2>3 DEF IsTagged
<1>11. DOMAIN r.queries \subseteq Ids /\ DOMAIN u.queries \subseteq Ids
  BY IdQueriesAre DEF Registries
<1>12. \A x, t : IsTagged(r, n, x, t) /\ t \in Tags => x \in DOMAIN r.queries
  <2> SUFFICES ASSUME NEW x, NEW t \in Tags, IsTagged(r, n, x, t)
               PROVE  x \in DOMAIN r.queries
    OBVIOUS
  <2>1. PICK i \in 1 .. n : r.ordered[i] = [id |-> x, tag |-> t]  BY DEF IsTagged
  <2>2. TagInOrder(r, t)  OBVIOUS
  <2>3. PICK at \in [DOMAIN r.byTag[t] -> DOMAIN r.ordered] :
          /\ \A k \in DOMAIN at : r.ordered[at[k]] = [id |-> r.byTag[t][k], tag |-> t]
          /\ \A j \in DOMAIN r.ordered :
               r.ordered[j].tag = t => \E k \in DOMAIN at : at[k] = j
    BY <2>2 DEF TagInOrder
  <2>4. PICK k \in DOMAIN at : at[k] = i  BY <1>1, <2>1, <2>3
  <2>5. r.byTag[t][k] = x /\ k \in DOMAIN r.byTag[t]
    <3>1. PICK y : y = r.byTag[t][k]  OBVIOUS
    <3>2. [id |-> x, tag |-> t] = [id |-> y, tag |-> t]  BY <2>1, <2>3, <2>4, <3>1
    <3>3. x = y  BY <3>2
    <3> QED  BY <2>3, <2>4, <3>1, <3>3
  <2>6. x \in Range(r.byTag[t])  BY <2>5 DEF Range
  <2> QED  BY <1>9, <2>6
<1>13. Tagged(u)
  <2>1. ~ IsTagged(r, n, id, tag)
    <3>1. IsTagged(r, n, id, tag) => id \in DOMAIN r.queries  BY <1>12
    <3> QED  BY <1>9, <3>1
  <2>2. \A i \in 1 .. n : u.ordered[i] # u.ordered[n + 1]
    BY <1>2, <1>3, <2>1 DEF IsTagged
  <2>3. \A i, j \in 1 .. n : u.ordered[i] = u.ordered[j] => i = j
    BY <1>3 DEF Tagged, n
  <2>4. \A i, j \in 1 .. Len(u.ordered) : u.ordered[i] = u.ordered[j] => i = j
    <3>1. \A i \in 1 .. n + 1 : i \in 1 .. n \/ i = n + 1  BY <1>1
    <3> QED  BY <1>3, <2>2, <2>3, <3>1
  <2>5. ASSUME NEW t \in Tags
        PROVE  Range(u.byTag[t]) = {x \in DOMAIN u.queries : IsTagged(u, n + 1, x, t)}
    <3>1. CASE t # tag
      <4>1. Range(u.byTag[t]) = {x \in DOMAIN r.queries : IsTagged(r, n, x, t)}
        BY <1>4, <1>9, <3>1
      <4> QED  BY <1>10, <1>11, <1>12, <3>1, <4>1
    <3>2. CASE t = tag
      <4>1. Range(u.byTag[tag]) = Range(old) \cup {id}  BY <1>5, <1>6, <1>7, RangeOfMore
      <4>2. Range(old) = {x \in DOMAIN r.queries : IsTagged(r, n, x, tag)}  BY <1>6, <1>9
      <4> QED  BY <1>10, <1>11, <1>12, <3>2, <4>1, <4>2
    <3> QED  BY <3>1, <3>2
  <2> QED  BY <1>3, <2>4, <2>5 DEF Tagged
<1>14. ASSUME NEW t \in Tags PROVE TagInOrder(u, t)
  <2>1. PICK at \in [DOMAIN r.byTag[t] -> DOMAIN r.ordered] :
          /\ \A j, k \in DOMAIN at : j < k => at[j] < at[k]
          /\ \A k \in DOMAIN at : r.ordered[at[k]] = [id |-> r.byTag[t][k], tag |-> t]
          /\ \A i \in DOMAIN r.ordered :
               r.ordered[i].tag = t => \E k \in DOMAIN at : at[k] = i
    BY DEF TagInOrder
  <2>2. \A i \in 1 .. n + 1 : i \in 1 .. n \/ i = n + 1  BY <1>1
  <2>3. CASE t # tag
    <3>1. at \in [DOMAIN u.byTag[t] -> DOMAIN u.ordered]
      BY <1>1, <1>3, <1>4, <2>1, <2>3
    <3>2. \A k \in DOMAIN at : u.ordered[at[k]] = [id |-> u.byTag[t][k], tag |-> t]
      BY <1>1, <1>3, <1>4, <2>1, <2>3
    <3>3. \A i \in DOMAIN u.ordered :
            u.ordered[i].tag = t => \E k \in DOMAIN at : at[k] = i
      BY <1>1, <1>2, <1>3, <2>1, <2>2, <2>3
    <3> QED  BY <2>1, <3>1, <3>2, <3>3 DEF TagInOrder
  <2>4. CASE t = tag
    <3> DEFINE more == [k \in 1 .. Len(old) + 1 |->
                          IF k \in 1 .. Len(old) THEN at[k] ELSE n + 1]
    <3>1. \A k \in 1 .. Len(old) + 1 : k \in 1 .. Len(old) \/ k = Len(old) + 1  BY <1>7
    <3>2. /\ \A k \in 1 .. Len(old) : more[k] = at[k] /\ at[k] \in 1 .. n
          /\ more[Len(old) + 1] = n + 1 /\ DOMAIN more = 1 .. Len(old) + 1
      BY <1>1, <1>6, <1>7, <2>1, <2>4
    <3>3. more \in [DOMAIN u.byTag[tag] -> DOMAIN u.ordered]
      <4>1. \A k \in DOMAIN more : more[k] \in 1 .. n + 1
        <5> HIDE DEF more
        <5>1. 1 .. n \subseteq 1 .. n + 1 /\ n + 1 \in 1 .. n + 1  BY <1>1
        <5> QED  BY <3>1, <3>2, <5>1
      <4> QED  BY <1>3, <1>8, <4>1
    <3> HIDE DEF more
    <3>4. ASSUME NEW j \in DOMAIN more, NEW k \in DOMAIN more, j < k
          PROVE  more[j] < more[k]
      <4>1. j \in 1 .. Len(old)  BY <1>7, <3>2, <3>4
      <4>2. CASE k \in 1 .. Len(old)
        <5>1. at[j] < at[k]  BY <1>6, <1>7, <2>1, <2>4, <3>4, <4>1, <4>2
        <5> QED  BY <3>2, <4>1, <4>2, <5>1
      <4>3. CASE k = Len(old) + 1
        <5>1. at[j] < n + 1  BY <1>1, <3>2, <4>1
        <5> QED  BY <3>2, <4>1, <4>3, <5>1
      <4> QED  BY <3>1, <3>2, <4>2, <4>3
    <3>5. \A k \in DOMAIN more : u.ordered[more[k]] = [id |-> u.byTag[tag][k], tag |-> tag]
      <4> TAKE k \in DOMAIN more
      <4>1. CASE k \in 1 .. Len(old)
        BY <1>3, <1>6, <1>7, <1>8, <2>1, <2>4, <3>2, <4>1
      <4>2. CASE k = Len(old) + 1  BY <1>2, <1>3, <1>8, <3>2, <4>2
      <4> QED  BY <3>1, <3>2, <4>1, <4>2
    <3>6. \A i \in DOMAIN u.ordered :
            u.ordered[i].tag = tag => \E k \in DOMAIN more : more[k] = i
      <4> SUFFICES ASSUME NEW i \in 1 .. n + 1, u.ordered[i].tag = tag
                   PROVE  \E k \in DOMAIN more : more[k] = i
        BY <1>3
      <4>1. CASE i \in 1 .. n
        <5>1. PICK k \in DOMAIN at : at[k] = i  BY <1>1, <1>3, <2>1, <2>4, <4>1
        <5>2. k \in 1 .. Len(old) /\ k \in DOMAIN more  BY <1>6, <1>7, <2>1, <2>4, <3>2, <5>1
        <5> QED  BY <3>2, <5>1, <5>2
      <4>2. CASE i = n + 1
        <5>1. Len(old) + 1 \in DOMAIN more  BY <1>7, <3>2
        <5> QED  BY <3>2, <4>2, <5>1
      <4> QED  BY <2>2, <4>1, <4>2
    <3>7. TagInOrder(u, tag)  BY <3>3, <3>4, <3>5, <3>6 DEF TagInOrder
    <3> QED  BY <2>4, <3>7
  <2> QED  BY <2>3, <2>4
<1> QED  BY <1>13, <1>14

\* The ids stay in their order with one more pair, if the numbers below its id are
\* there.
LEMMA NumberedMore ==
  ASSUME NEW r \in Registries, NEW u \in Registries, NEW id \in Ids, NEW tag \in Tags,
         Numbered(r), u.ordered = Append(r.ordered, [id |-> id, tag |-> tag]),
         DOMAIN u.queries = DOMAIN r.queries \cup {id},
         DOMAIN u.queries \cap Nat = 1 .. u.nextId - 1,
         id \in Nat => 1 .. id - 1 \subseteq DOMAIN r.queries
  PROVE  Numbered(u)
<1> DEFINE n == Len(r.ordered)
<1>1. n \in Nat /\ r.ordered \in Seq(Pairs) /\ DOMAIN r.ordered = 1 .. n  BY DEF Registries
<1>2. PICK p \in Pairs : p = [id |-> id, tag |-> tag]  BY DEF Pairs
<1>3. /\ Len(u.ordered) = n + 1 /\ u.ordered[n + 1] = p
      /\ \A i \in 1 .. n : u.ordered[i] = r.ordered[i]
  BY <1>1, <1>2
<1>4. p.id = id  BY <1>2
<1> HIDE DEF n
<1>5. \A m \in 0 .. n : Seen(u, m) = Seen(r, m)
  <2> TAKE m \in 0 .. n
  <2>1. \A i \in 1 .. m : i \in 1 .. n  BY <1>1
  <2> QED  BY <1>3, <2>1 DEF Seen
<1>6. Seen(r, n) = DOMAIN r.queries  BY DEF Numbered, n
<1>7. Seen(u, n + 1) = Seen(r, n) \cup {id}
  <2>1. 1 .. n + 1 = (1 .. n) \cup {n + 1}  BY <1>1
  <2> QED  BY <1>3, <1>4, <2>1 DEF Seen
<1>8. ASSUME NEW i \in 1 .. n + 1, u.ordered[i].id \in Nat
      PROVE  1 .. u.ordered[i].id - 1 \subseteq Seen(u, i - 1)
  <2>1. CASE i \in 1 .. n
    <3>1. i - 1 \in 0 .. n  BY <1>1, <2>1
    <3>2. 1 .. r.ordered[i].id - 1 \subseteq Seen(r, i - 1)
      BY <1>3, <1>8, <2>1 DEF Numbered, n
    <3> QED  BY <1>3, <1>5, <2>1, <3>1, <3>2
  <2>2. CASE i = n + 1
    <3>1. n \in 0 .. n /\ i - 1 = n  BY <1>1, <2>2
    <3>2. Seen(u, i - 1) = DOMAIN r.queries  BY <1>5, <1>6, <3>1
    <3>3. u.ordered[i].id = id  BY <1>3, <1>4, <2>2
    <3> QED  BY <1>8, <3>2, <3>3
  <2>3. i \in 1 .. n \/ i = n + 1  BY <1>1
  <2> QED  BY <2>1, <2>2, <2>3
<1> QED  BY <1>3, <1>6, <1>7, <1>8 DEF Numbered

\* A registry that has all that another one has.
Extends(r, u) ==
  /\ \A id \in DOMAIN r.queries : id \in DOMAIN u.queries /\ u.queries[id] = r.queries[id]
  /\ \A tag \in Tags : Range(r.byTag[tag]) \subseteq Range(u.byTag[tag])

\* What tagging a query that is registered keeps.
LEMMA TagKeeps ==
  ASSUME NEW r \in Registries, RegOK(r), NEW id \in DOMAIN r.queries, NEW tag \in Tags
  PROVE  RegOK(Tag(r, id, tag)) /\ Extends(r, Tag(r, id, tag))
         /\ id \in Range(Tag(r, id, tag).byTag[tag])
<1>1. id \in Ids  BY IdQueriesAre DEF Registries
<1>2. PICK u : u = Tag(r, id, tag)  OBVIOUS
<1>3. u \in Registries /\ u.queries = r.queries /\ u.byNs = r.byNs /\ u.nextId = r.nextId
  BY <1>1, <1>2, TagIs
<1>4. CASE id \in Range(r.byTag[tag])
  <2>1. u = r
    <3>1. id \in ToSet(r.byTag[tag])  BY <1>4 DEF ToSet, Range
    <3> QED  BY <1>2, <3>1 DEF Tag
  <2> QED  BY <1>2, <1>4, <2>1 DEF Extends
<1>5. CASE id \notin Range(r.byTag[tag])
  <2>1. /\ u.byTag = [r.byTag EXCEPT ![tag] = Append(@, id)]
        /\ u.ordered = Append(r.ordered, [id |-> id, tag |-> tag])
    BY <1>1, <1>2, <1>5, TagIs
  <2>2. Tagged(u) /\ \A t \in Tags : TagInOrder(u, t)
    <3>1. Tagged(r) /\ \A t \in Tags : TagInOrder(r, t)  BY DEF RegOK
    <3> QED  BY <1>1, <1>3, <1>5, <2>1, <3>1, OnePairMore
  <2>3. OnceEach(u) /\ ByNamespace(u)  BY <1>3 DEF RegOK, OnceEach, ByNamespace
  <2>4. Numbered(u)
    <3>1. Numbered(r)  BY DEF RegOK
    <3>2. DOMAIN r.queries \cap Nat = 1 .. r.nextId - 1 /\ r.nextId \in Nat
      BY <3>1 DEF Numbered, Registries
    <3>3. id \in Nat => 1 .. id - 1 \subseteq DOMAIN r.queries
      <4> SUFFICES ASSUME id \in Nat, NEW m \in 1 .. id - 1 PROVE m \in DOMAIN r.queries
        OBVIOUS
      <4>1. id \in 1 .. r.nextId - 1  BY <3>2
      <4>2. m \in 1 .. r.nextId - 1  BY <3>2, <4>1
      <4> QED  BY <3>2, <4>2
    <3>4. DOMAIN u.queries = DOMAIN r.queries \cup {id}  BY <1>3
    <3>5. DOMAIN u.queries \cap Nat = 1 .. u.nextId - 1  BY <1>3, <3>2
    <3> QED  BY <1>1, <1>3, <2>1, <3>1, <3>3, <3>4, <3>5, NumberedMore
  <2>5. /\ \A t \in Tags : Range(r.byTag[t]) \subseteq Range(u.byTag[t])
        /\ id \in Range(u.byTag[tag])
    <3>1. r.byTag \in [Tags -> Seq(Ids)]  BY DEF Registries
    <3>2. \A t \in Tags \ {tag} : u.byTag[t] = r.byTag[t]  BY <2>1, <3>1
    <3>3. u.byTag[tag] = Append(r.byTag[tag], id)  BY <2>1, <3>1
    <3>4. PICK old : old = r.byTag[tag]  OBVIOUS
    <3>5. old \in Seq(Ids)  BY <3>1, <3>4
    <3>6. Range(Append(old, id)) = Range(old) \cup {id}  BY <1>1, <3>5, RangeOfMore
    <3> QED  BY <3>2, <3>3, <3>4, <3>6
  <2> QED  BY <1>2, <1>3, <2>2, <2>3, <2>4, <2>5 DEF RegOK, Extends
<1> QED  BY <1>4, <1>5

\* A registry with one more query.
Added(r, u, q, id, tag) ==
  /\ u \in Registries /\ RegOK(u) /\ Extends(r, u)
  /\ id \in Range(u.byTag[tag])
  /\ DOMAIN u.queries = DOMAIN r.queries \cup {id} /\ u.queries[id] = q
  /\ u.ordered = Append(r.ordered, [id |-> id, tag |-> tag])

\* What adding a query that is not there, and tagging it, keeps.
LEMMA AddKeeps ==
  ASSUME NEW r \in Registries, RegOK(r), NEW q \in Queries, q \notin Range(r.queries),
         NEW tag \in Tags
  PROVE  Added(r, Tag(AddNew(r, q), NewId(r, q), tag), q, NewId(r, q), tag)
<1> DEFINE s == AddNew(r, q)  id == NewId(r, q)  u == Tag(s, id, tag)
<1>1. /\ id \in Ids /\ s \in Registries
      /\ DOMAIN s.queries = DOMAIN r.queries \cup {id}
      /\ \A i \in DOMAIN r.queries : s.queries[i] = r.queries[i]
      /\ id \notin DOMAIN r.queries => s.queries[id] = q
      /\ s.byNs = [r.byNs EXCEPT ![NsOf[q]] = Append(r.byNs[NsOf[q]], id)]
      /\ s.byTag = r.byTag /\ s.ordered = r.ordered
      /\ s.nextId = IF q \in Counts THEN r.nextId ELSE r.nextId + 1
  BY AddIs
<1>2. r.nextId \in Nat /\ r.nextId # 0 /\ DOMAIN r.queries \cap Nat = 1 .. r.nextId - 1
  BY DEF Registries, RegOK, Numbered
<1>3. IF q \in Counts THEN id = q /\ id \notin Nat ELSE id = r.nextId
  BY RegistryAssumption DEF NewId
<1>4. u = Tag(s, id, tag)  OBVIOUS
<1> HIDE DEF s, u, id
<1>5. id \notin DOMAIN r.queries
  <2>1. CASE q \in Counts
    <3> SUFFICES ASSUME id \in DOMAIN r.queries PROVE FALSE  OBVIOUS
    <3>1. r.queries[id] = id  BY <1>3, <2>1 DEF RegOK, OnceEach
    <3> QED  BY <1>3, <2>1, <3>1 DEF Range
  <2>2. CASE q \notin Counts  BY <1>2, <1>3, <2>2
  <2> QED  BY <2>1, <2>2
<1>6. Range(r.byTag[tag]) \subseteq DOMAIN r.queries  BY DEF RegOK, Tagged
<1>7. id \notin Range(s.byTag[tag])  BY <1>1, <1>5, <1>6
<1>8. /\ u \in Registries /\ u.queries = s.queries /\ u.byNs = s.byNs /\ u.nextId = s.nextId
      /\ u.byTag = [s.byTag EXCEPT ![tag] = Append(@, id)]
      /\ u.ordered = Append(s.ordered, [id |-> id, tag |-> tag])
  BY <1>1, <1>4, <1>7, TagIs
<1>9. /\ u.byTag = [r.byTag EXCEPT ![tag] = Append(@, id)]
      /\ u.ordered = Append(r.ordered, [id |-> id, tag |-> tag])
      /\ id \notin Range(r.byTag[tag])
  BY <1>1, <1>7, <1>8
<1>10. /\ DOMAIN u.queries = DOMAIN r.queries \cup {id} /\ u.queries[id] = q
       /\ \A i \in DOMAIN r.queries : u.queries[i] = r.queries[i]
       /\ u.nextId = IF q \in Counts THEN r.nextId ELSE r.nextId + 1
  BY <1>1, <1>5, <1>8
<1>11. Tagged(u) /\ \A t \in Tags : TagInOrder(u, t)
  <2>1. Tagged(r) /\ \A t \in Tags : TagInOrder(r, t)  BY DEF RegOK
  <2>2. DOMAIN r.queries \subseteq DOMAIN u.queries /\ id \in DOMAIN u.queries  BY <1>10
  <2> QED  BY <1>1, <1>8, <1>9, <2>1, <2>2, OnePairMore
<1>12. Numbered(u)
  <2>1. DOMAIN u.queries \cap Nat = 1 .. u.nextId - 1
    <3>1. CASE q \in Counts  BY <1>2, <1>3, <1>10, <3>1
    <3>2. CASE q \notin Counts
      <4>1. u.nextId = r.nextId + 1 /\ id = r.nextId  BY <1>3, <1>10, <3>2
      <4>2. 1 .. u.nextId - 1 = (1 .. r.nextId - 1) \cup {id}  BY <1>2, <4>1
      <4>3. DOMAIN u.queries \cap Nat = (DOMAIN r.queries \cap Nat) \cup {id}
        BY <1>2, <1>10, <4>1
      <4> QED  BY <1>2, <4>2, <4>3
    <3> QED  BY <3>1, <3>2
  <2>2. id \in Nat => 1 .. id - 1 \subseteq DOMAIN r.queries  BY <1>2, <1>3
  <2>3. Numbered(r)  BY DEF RegOK
  <2> QED  BY <1>1, <1>8, <1>9, <1>10, <2>1, <2>2, <2>3, NumberedMore
<1>13. OnceEach(u)
  <2>1. OnceEach(r)  BY DEF RegOK
  <2>2. IF id \in Nat THEN u.queries[id] \notin Counts ELSE u.queries[id] = id
    BY <1>2, <1>3, <1>10
  <2>3. \A i \in DOMAIN r.queries : r.queries[i] # q  BY DEF Range
  <2> QED  BY <1>10, <2>1, <2>2, <2>3 DEF OnceEach
<1>14. ByNamespace(u)
  <2>1. ByNamespace(r)  BY DEF RegOK
  <2>2. NsOf[q] \in Namespaces /\ r.byNs \in [Namespaces -> Seq(Ids)]
    BY DEF Registries, Namespaces
  <2>3. ASSUME NEW ns \in Namespaces
        PROVE  Range(u.byNs[ns]) = {i \in DOMAIN u.queries : NsOf[u.queries[i]] = ns}
    <3>1. Range(r.byNs[ns]) = {i \in DOMAIN r.queries : NsOf[r.queries[i]] = ns}
      BY <2>1 DEF ByNamespace
    <3>2. CASE ns = NsOf[q]
      <4>1. u.byNs[ns] = Append(r.byNs[ns], id)  BY <1>1, <1>8, <2>2, <3>2
      <4>2. r.byNs[ns] \in Seq(Ids)  BY <2>2
      <4>3. Range(u.byNs[ns]) = Range(r.byNs[ns]) \cup {id}  BY <4>1, <4>2, RangeOfMore
      <4> QED  BY <1>5, <1>10, <3>1, <3>2, <4>3
    <3>3. CASE ns # NsOf[q]
      <4>1. u.byNs[ns] = r.byNs[ns]  BY <1>1, <1>8, <2>2, <3>3
      <4> QED  BY <1>5, <1>10, <3>1, <3>3, <4>1
    <3> QED  BY <3>2, <3>3
  <2> QED  BY <2>3 DEF ByNamespace
<1>15. Extends(r, u) /\ id \in Range(u.byTag[tag])
  <2>1. r.byTag \in [Tags -> Seq(Ids)]  BY DEF Registries
  <2>2. \A t \in Tags \ {tag} : u.byTag[t] = r.byTag[t]  BY <1>9, <2>1
  <2>3. u.byTag[tag] = Append(r.byTag[tag], id) /\ r.byTag[tag] \in Seq(Ids)  BY <1>9, <2>1
  <2>4. Range(u.byTag[tag]) = Range(r.byTag[tag]) \cup {id}  BY <2>3, RangeOfMore
  <2>5. \A t \in Tags : Range(r.byTag[t]) \subseteq Range(u.byTag[t])  BY <2>2, <2>4
  <2> QED  BY <1>10, <2>4, <2>5 DEF Extends
<1>16. RegOK(u)  BY <1>11, <1>12, <1>13, <1>14 DEF RegOK
<1>17. Added(r, u, q, id, tag)  BY <1>8, <1>9, <1>10, <1>15, <1>16 DEF Added
<1> QED  BY <1>17 DEF u, id, s

\* registerQuery keeps what a registry has, and tags the query.
LEMMA RegisterKeeps ==
  ASSUME NEW r \in Registries, RegOK(r), NEW q \in Queries, NEW tag \in Tags,
         NEW u, u = RegisterQuery(r, q, tag)
  PROVE  /\ u \in Registries /\ RegOK(u) /\ Extends(r, u)
         /\ \E id \in Range(u.byTag[tag]) : u.queries[id] = q
<1>1. OnceEach(r) /\ ByNamespace(r)  BY DEF RegOK
<1>2. DOMAIN r.queries \subseteq Ids  BY IdQueriesAre DEF Registries
<1>3. NoId \notin DOMAIN r.queries  BY <1>2, RegistryAssumption DEF Ids
<1>4. CASE q \in Range(r.queries)
  <2>1. PICK id \in DOMAIN r.queries : r.queries[id] = q  BY <1>4 DEF Range
  <2>2. QueryId(r, q) = id  BY <1>1, <2>1, QueryIdIs
  <2>3. u = Tag(r, id, tag)  BY <1>3, <2>1, <2>2 DEF RegisterQuery
  <2>4. u \in Registries /\ u.queries = r.queries
    <3>1. id \in Ids  BY <1>2, <2>1
    <3>2. Tag(r, id, tag) \in Registries /\ Tag(r, id, tag).queries = r.queries
      BY ONLY <3>1, TagIs, r \in Registries, tag \in Tags
    <3> QED  BY <2>3, <3>2
  <2>5. RegOK(u) /\ Extends(r, u) /\ id \in Range(u.byTag[tag])  BY <2>1, <2>3, TagKeeps
  <2> QED  BY <2>1, <2>4, <2>5
<1>5. CASE q \notin Range(r.queries)
  <2>1. QueryId(r, q) = NoId  BY <1>1, <1>5, QueryIdIs
  <2>2. PICK id : id = NewId(r, q)  OBVIOUS
  <2>3. u = Tag(AddNew(r, q), NewId(r, q), tag)  BY <2>1 DEF RegisterQuery
  <2>4. /\ u \in Registries /\ RegOK(u) /\ Extends(r, u)
        /\ id \in Range(u.byTag[tag]) /\ u.queries[id] = q
    <3>1. Added(r, u, q, id, tag)  BY <1>5, <2>2, <2>3, AddKeeps
    <3> QED  BY <3>1 DEF Added
  <2> QED  BY <2>4
<1> QED  BY <1>4, <1>5

\* A registry to which a list of queries was added.
RegisteredAll(r, u, qs) ==
  /\ u \in Registries /\ RegOK(u) /\ Extends(r, u)
  /\ \A k \in 1 .. Len(qs) : \E id \in Range(u.byTag["subs"]) : u.queries[id] = qs[k]

\* subscribe registers one query after the other.
LEMMA RegisterAll ==
  ASSUME NEW r \in Registries, RegOK(r), NEW qs \in Seq(Queries)
  PROVE  RegisteredAll(r, RegisteredFrom(r, qs), qs)
<1>2. PICK v : /\ v[0] = r
               /\ \A k \in 1 .. Len(qs) : v[k] = RegisterSub(v[k - 1], qs[k])
               /\ RegisteredFrom(r, qs) = v[Len(qs)]
  BY RegisteringSteps
<1>3. Len(qs) \in Nat /\ \A k \in 1 .. Len(qs) : qs[k] \in Queries  OBVIOUS
<1> DEFINE Good(n) ==
             /\ v[n] \in Registries /\ RegOK(v[n]) /\ Extends(r, v[n])
             /\ \A k \in 1 .. n :
                  \E id \in Range(v[n].byTag["subs"]) : v[n].queries[id] = qs[k]
           Bad == {n \in 0 .. Len(qs) : ~ Good(n)}
<1>4. Good(0)
  <2>1. 1 .. 0 = {}  OBVIOUS
  <2> QED  BY <1>2, <2>1 DEF Extends
<1>5. ASSUME NEW n \in 1 .. Len(qs), Good(n - 1) PROVE Good(n)
  <2>1. v[n] = RegisterQuery(v[n - 1], qs[n], "subs")  BY <1>2 DEF RegisterSub
  <2>2. "subs" \in Tags  BY DEF Tags
  <2>3. PICK w : w = v[n - 1]  OBVIOUS
  <2>4. w \in Registries /\ RegOK(w) /\ Extends(r, w)  BY <1>5, <2>3
  <2>5. /\ v[n] \in Registries /\ RegOK(v[n]) /\ Extends(w, v[n])
        /\ \E id \in Range(v[n].byTag["subs"]) : v[n].queries[id] = qs[n]
    BY <1>3, <2>1, <2>2, <2>3, <2>4, RegisterKeeps
  <2>6. Extends(r, v[n])  BY <2>4, <2>5 DEF Extends
  <2>7. ASSUME NEW k \in 1 .. n - 1
        PROVE  \E id \in Range(v[n].byTag["subs"]) : v[n].queries[id] = qs[k]
    <3>1. PICK id \in Range(w.byTag["subs"]) : w.queries[id] = qs[k]  BY <1>5, <2>3
    <3>2. Range(w.byTag["subs"]) \subseteq DOMAIN w.queries  BY <2>2, <2>4 DEF RegOK, Tagged
    <3>3. v[n].queries[id] = w.queries[id] /\ id \in Range(v[n].byTag["subs"])
      BY <2>2, <2>5, <3>1, <3>2 DEF Extends
    <3> QED  BY <3>1, <3>3
  <2>8. \A k \in 1 .. n : k \in 1 .. n - 1 \/ k = n  OBVIOUS
  <2> QED  BY <2>5, <2>6, <2>7, <2>8
<1>6. ASSUME Bad # {} PROVE FALSE
  <2> HIDE DEF Good
  <2>1. PICK n \in Bad : \A m \in Bad : n <= m
    <3>1. Bad \in SUBSET Nat  BY <1>3
    <3> HIDE DEF Bad
    <3> QED  BY <1>6, <3>1, LeastOf
  <2>2. n \in 0 .. Len(qs) /\ ~ Good(n)  BY <2>1
  <2>3. n \in 1 .. Len(qs) /\ n - 1 \in 0 .. Len(qs) /\ ~ (n <= n - 1)  BY <1>3, <1>4, <2>2
  <2>4. n - 1 \notin Bad
    <3> HIDE DEF Bad
    <3> QED  BY <2>1, <2>3
  <2> QED  BY <1>5, <2>2, <2>3, <2>4
<1>7. Good(Len(qs))
  <2> HIDE DEF Good
  <2>1. Len(qs) \in 0 .. Len(qs)  BY <1>3
  <2> QED  BY <1>6, <2>1
<1> QED  BY <1>2, <1>7 DEF RegisteredAll

\* The registry of a model that has none yet.
LEMMA NewRegistryOK ==
  NewRegistry \in Registries /\ RegOK(NewRegistry)
<1> DEFINE r == NewRegistry
<1>1. /\ r.queries = << >> /\ r.byNs = [ns \in Namespaces |-> << >>]
      /\ r.byTag = [tag \in Tags |-> << >>] /\ r.ordered = << >> /\ r.nextId = 1
      /\ r = [queries |-> r.queries, byNs |-> r.byNs, byTag |-> r.byTag,
              ordered |-> r.ordered, nextId |-> r.nextId]
  BY DEF NewRegistry
<1> HIDE DEF r
<1>2. DOMAIN r.queries = {} /\ Len(r.ordered) = 0 /\ DOMAIN r.ordered = {} /\ 1 .. 0 = {}
  BY <1>1
<1>3. r.queries \in IdQueries
  <2>1. r.queries = [i \in DOMAIN r.queries |-> r.queries[i]]  BY <1>1
  <2> QED  BY <1>2, <2>1, IdQueriesAre
<1>4. r \in Registries
  <2>1. << >> \in Seq(Ids) /\ << >> \in Seq(Pairs)  OBVIOUS
  <2>2. r.byNs \in [Namespaces -> Seq(Ids)] /\ r.byTag \in [Tags -> Seq(Ids)]  BY <1>1, <2>1
  <2>3. r.ordered \in Seq(Pairs) /\ r.nextId \in Nat \ {0}  BY <1>1, <2>1
  <2> QED  BY <1>1, <1>3, <2>2, <2>3 DEF Registries
<1>5. OnceEach(r) /\ Numbered(r)
  <2>1. 1 .. r.nextId - 1 = {}  BY <1>1
  <2>2. Seen(r, Len(r.ordered)) = {}  BY <1>2 DEF Seen
  <2> QED  BY <1>2, <2>1, <2>2 DEF OnceEach, Numbered
<1>6. ByNamespace(r)
  <2>1. \A ns \in Namespaces : Range(r.byNs[ns]) = {}  BY <1>1 DEF Range
  <2> QED  BY <1>2, <2>1 DEF ByNamespace
<1>7. \A tag \in Tags : r.byTag[tag] = << >> /\ Range(r.byTag[tag]) = {}
  BY <1>1 DEF Range
<1>8. Tagged(r)
  BY <1>2, <1>7 DEF Tagged
<1>9. ASSUME NEW tag \in Tags PROVE TagInOrder(r, tag)
  <2> DEFINE at == [k \in {} |-> 0]
  <2>1. at \in [DOMAIN r.byTag[tag] -> DOMAIN r.ordered] /\ DOMAIN at = {}  BY <1>2, <1>7
  <2> HIDE DEF at
  <2> QED  BY <1>2, <2>1 DEF TagInOrder
<1>10. r \in Registries /\ RegOK(r)  BY <1>4, <1>5, <1>6, <1>8, <1>9 DEF RegOK
<1> QED  BY <1>10 DEF r

\* A registry that was loaded from the first n pairs of another one.
Loaded(r, u, n) ==
  /\ u \in Registries /\ RegOK(u)
  /\ DOMAIN u.queries = Seen(r, n)
  /\ \A id \in DOMAIN u.queries : u.queries[id] = r.queries[id]
  /\ Len(u.ordered) = n /\ \A i \in 1 .. n : u.ordered[i] = r.ordered[i]

\* One more pair of the bundle: its query gets the id that it had.
LEMMA LoadOne ==
  ASSUME NEW r \in Registries, RegOK(r), NEW n \in 1 .. Len(r.ordered),
         NEW w, Loaded(r, w, n - 1)
  PROVE  Loaded(r, LoadQuery(w, BundleOf(r)[n]), n)
<1>1. PICK id, tag : id = r.ordered[n].id /\ tag = r.ordered[n].tag  OBVIOUS
<1>2. /\ r.ordered \in Seq(Pairs) /\ Len(r.ordered) \in Nat
      /\ DOMAIN r.ordered = 1 .. Len(r.ordered)
  BY DEF Registries
<1>3. r.ordered[n] \in Pairs /\ id \in Ids /\ tag \in Tags
      /\ r.ordered[n] = [id |-> id, tag |-> tag]
  <2>1. PICK p \in Pairs : p = r.ordered[n]  BY <1>2
  <2>2. p.id \in Ids /\ p.tag \in Tags /\ p = [id |-> p.id, tag |-> p.tag]  BY DEF Pairs
  <2> QED  BY <1>1, <2>1, <2>2
<1>4. id \in DOMAIN r.queries
  <2>1. DOMAIN r.queries = Seen(r, Len(r.ordered))  BY DEF RegOK, Numbered
  <2> QED  BY <1>1, <2>1 DEF Seen
<1>5. PICK q \in Queries : q = r.queries[id]  BY <1>4, IdQueriesAre DEF Registries
<1>6. BundleOf(r)[n] = [q |-> q, id |-> id, tag |-> tag]
  BY <1>1, <1>2, <1>5 DEF BundleOf
<1>7. PICK u : u = LoadQuery(w, BundleOf(r)[n])  OBVIOUS
<1>8. u = IF id \in DOMAIN w.queries THEN Tag(w, id, tag)
          ELSE Tag(AddNew(w, q), NewId(w, q), tag)
  BY <1>6, <1>7 DEF LoadQuery
<1>9. /\ w \in Registries /\ RegOK(w) /\ DOMAIN w.queries = Seen(r, n - 1)
      /\ \A i \in DOMAIN w.queries : w.queries[i] = r.queries[i]
      /\ Len(w.ordered) = n - 1 /\ \A i \in 1 .. n - 1 : w.ordered[i] = r.ordered[i]
  BY DEF Loaded
<1>10. Seen(r, n) = Seen(r, n - 1) \cup {id}
  <2>1. 1 .. n = (1 .. n - 1) \cup {n}  OBVIOUS
  <2> QED  BY <1>1, <2>1 DEF Seen
<1>11. ASSUME NEW x \in Registries, x.ordered = Append(w.ordered, [id |-> id, tag |-> tag])
       PROVE  Len(x.ordered) = n /\ \A i \in 1 .. n : x.ordered[i] = r.ordered[i]
  <2>1. w.ordered \in Seq(Pairs)  BY <1>9 DEF Registries
  <2>2. PICK p \in Pairs : p = [id |-> id, tag |-> tag]  BY <1>3
  <2>3. /\ Len(x.ordered) = n /\ x.ordered[n] = p
        /\ \A i \in 1 .. n - 1 : x.ordered[i] = w.ordered[i]
    BY <1>9, <1>11, <2>1, <2>2
  <2>4. \A i \in 1 .. n : i \in 1 .. n - 1 \/ i = n  OBVIOUS
  <2> QED  BY <1>3, <1>9, <2>2, <2>3, <2>4
<1>12. CASE id \in DOMAIN w.queries
  <2>1. u = Tag(w, id, tag)  BY <1>8, <1>12
  <2>2. id \notin Range(w.byTag[tag])
    <3>1. \A i \in 1 .. n - 1 : r.ordered[i] # r.ordered[n]
      <4>1. \A i \in 1 .. n - 1 : i \in 1 .. Len(r.ordered) /\ i # n  BY <1>2
      <4> QED  BY <4>1 DEF RegOK, Tagged
    <3>2. ~ IsTagged(w, Len(w.ordered), id, tag)  BY <1>3, <1>9, <3>1 DEF IsTagged
    <3>3. Range(w.byTag[tag]) = {i \in DOMAIN w.queries : IsTagged(w, Len(w.ordered), i, tag)}
      BY <1>3, <1>9 DEF RegOK, Tagged
    <3> QED  BY <3>2, <3>3
  <2>3. /\ u \in Registries /\ u.queries = w.queries
        /\ u.ordered = Append(w.ordered, [id |-> id, tag |-> tag])
    <3>1. /\ Tag(w, id, tag) \in Registries /\ Tag(w, id, tag).queries = w.queries
          /\ Tag(w, id, tag).ordered = Append(w.ordered, [id |-> id, tag |-> tag])
      <4>1. w \in Registries /\ id \in Ids /\ tag \in Tags  BY <1>3, <1>9
      <4> QED  BY ONLY <2>2, <4>1, TagIs
    <3> QED  BY <2>1, <3>1
  <2>4. RegOK(u)  BY <1>3, <1>9, <1>12, <2>1, TagKeeps
  <2>5. Len(u.ordered) = n /\ \A i \in 1 .. n : u.ordered[i] = r.ordered[i]
    BY <1>11, <2>3
  <2>6. Seen(r, n) = DOMAIN w.queries  BY <1>9, <1>10, <1>12
  <2>7. Loaded(r, u, n)  BY <1>9, <2>3, <2>4, <2>5, <2>6 DEF Loaded
  <2> QED  BY <1>7, <2>7
<1>13. CASE id \notin DOMAIN w.queries
  <2>1. q \notin Range(w.queries)
    <3> SUFFICES ASSUME NEW j \in DOMAIN w.queries, w.queries[j] = q PROVE FALSE
      BY DEF Range
    <3>1. DOMAIN r.queries = Seen(r, Len(r.ordered))  BY DEF RegOK, Numbered
    <3>2. j \in DOMAIN r.queries
      <4>1. \A i \in 1 .. n - 1 : i \in 1 .. Len(r.ordered)  BY <1>2
      <4> QED  BY <1>9, <3>1, <4>1 DEF Seen
    <3>3. r.queries[j] = r.queries[id]  BY <1>5, <1>9
    <3>4. j = id  BY <1>4, <3>2, <3>3 DEF RegOK, OnceEach
    <3> QED  BY <1>13, <3>4
  <2>2. NewId(w, q) = id
    <3>1. IF id \in Nat THEN q \notin Counts ELSE q = id  BY <1>4, <1>5 DEF RegOK, OnceEach
    <3>2. CASE id \in Nat
      <4>1. 1 .. id - 1 \subseteq DOMAIN w.queries  BY <1>1, <1>9, <3>2 DEF RegOK, Numbered
      <4>2. /\ DOMAIN w.queries \cap Nat = 1 .. w.nextId - 1
            /\ w.nextId \in Nat /\ w.nextId # 0
        BY <1>9 DEF RegOK, Numbered, Registries
      <4>3. id # 0
        <5>1. id \in DOMAIN r.queries \cap Nat  BY <1>4, <3>2
        <5>2. DOMAIN r.queries \cap Nat = 1 .. r.nextId - 1  BY DEF RegOK, Numbered
        <5> QED  BY <5>1, <5>2
      <4>4. 1 .. id - 1 \subseteq 1 .. w.nextId - 1
        <5>1. \A m \in 1 .. id - 1 : m \in Nat  OBVIOUS
        <5> QED  BY <4>1, <4>2, <5>1
      <4>5. id \notin 1 .. w.nextId - 1  BY <1>13, <4>2
      <4>6. id = w.nextId
        <5>1. id = 1 \/ id - 1 \in 1 .. id - 1  BY <3>2, <4>3
        <5>2. id <= w.nextId  BY <3>2, <4>2, <4>4, <5>1
        <5>3. id >= w.nextId  BY <3>2, <4>2, <4>3, <4>5
        <5> QED  BY <3>2, <4>2, <5>2, <5>3
      <4> QED  BY <3>1, <3>2, <4>6 DEF NewId
    <3>3. CASE id \notin Nat
      <4>1. id \in Counts  BY <1>3, <3>3 DEF Ids
      <4> QED  BY <3>1, <3>3, <4>1 DEF NewId
    <3> QED  BY <3>2, <3>3
  <2>3. Added(w, u, q, id, tag)
    <3>1. Added(w, Tag(AddNew(w, q), NewId(w, q), tag), q, NewId(w, q), tag)
      BY <1>3, <1>9, <2>1, AddKeeps
    <3> QED  BY <1>8, <1>13, <2>2, <3>1
  <2>4. /\ u \in Registries /\ RegOK(u) /\ DOMAIN u.queries = Seen(r, n)
        /\ u.ordered = Append(w.ordered, [id |-> id, tag |-> tag])
        /\ u.queries[id] = q /\ \A i \in DOMAIN w.queries : u.queries[i] = w.queries[i]
    BY <1>9, <1>10, <2>3 DEF Added, Extends
  <2>5. Len(u.ordered) = n /\ \A i \in 1 .. n : u.ordered[i] = r.ordered[i]
    BY <1>11, <2>4
  <2>6. \A i \in DOMAIN u.queries : u.queries[i] = r.queries[i]
    BY <1>5, <1>9, <1>10, <2>4
  <2>7. Loaded(r, u, n)  BY <2>4, <2>5, <2>6 DEF Loaded
  <2> QED  BY <1>7, <2>7
<1> QED  BY <1>12, <1>13

\* The browser's registry has what the server's had, under the same ids.
Same(r, u) ==
  /\ u \in Registries /\ RegOK(u) /\ DOMAIN u.queries = DOMAIN r.queries
  /\ Extends(r, u)

\* What the browser loads is what was bundled.
LEMMA BundleLoads ==
  ASSUME NEW r \in Registries, RegOK(r)
  PROVE  Same(r, LoadOf(BundleOf(r)))
<1> DEFINE n == Len(r.ordered)  b == BundleOf(r)
<1>1. LoadOf(b) = LoadedFrom(NewRegistry, b)  BY DEF LoadOf, LoadedFrom
<1>2. n \in Nat /\ DOMAIN r.ordered = 1 .. n  BY DEF Registries
<1>3. Len(b) = n /\ b \in Seq(Range(b))
  <2>1. b = [k \in 1 .. n |-> b[k]] /\ DOMAIN b = 1 .. n  BY <1>2 DEF BundleOf
  <2>2. \A k \in 1 .. n : b[k] \in Range(b)  BY <2>1 DEF Range
  <2> HIDE DEF b, n
  <2> QED  BY <1>2, <2>1, <2>2
<1>4. PICK start : start = NewRegistry  OBVIOUS
<1> HIDE DEF b
<1>5. PICK v : /\ v[0] = start
               /\ \A k \in 1 .. Len(b) : v[k] = LoadQuery(v[k - 1], b[k])
               /\ LoadedFrom(start, b) = v[Len(b)]
  BY <1>3, LoadingSteps
<1> DEFINE Bad == {k \in 0 .. n : ~ Loaded(r, v[k], k)}
<1>6. Loaded(r, v[0], 0)
  <2>1. start \in Registries /\ RegOK(start)  BY <1>4, NewRegistryOK
  <2>2. DOMAIN start.queries = {} /\ Len(start.ordered) = 0  BY <1>4 DEF NewRegistry
  <2>3. Seen(r, 0) = {} /\ 1 .. 0 = {}  BY DEF Seen
  <2> QED  BY <1>5, <2>1, <2>2, <2>3 DEF Loaded
<1>7. ASSUME Bad # {} PROVE FALSE
  <2>1. PICK k \in Bad : \A m \in Bad : k <= m
    <3>1. Bad \in SUBSET Nat  BY <1>2
    <3> HIDE DEF Bad
    <3> QED  BY <1>7, <3>1, LeastOf
  <2>2. k \in 0 .. n /\ ~ Loaded(r, v[k], k)  BY <2>1
  <2>3. k \in 1 .. n /\ k - 1 \in 0 .. n /\ ~ (k <= k - 1)  BY <1>2, <1>6, <2>2
  <2>4. k - 1 \notin Bad
    <3> HIDE DEF Bad
    <3> QED  BY <2>1, <2>3
  <2>5. Loaded(r, v[k - 1], k - 1)  BY <2>3, <2>4
  <2>6. v[k] = LoadQuery(v[k - 1], BundleOf(r)[k])  BY <1>3, <1>5, <2>3 DEF b
  <2> HIDE DEF Bad
  <2> QED  BY <2>2, <2>3, <2>5, <2>6, LoadOne
<1>8. PICK u : u = LoadOf(b)  OBVIOUS
<1>9. Loaded(r, u, n)
  <2>1. n \in 0 .. n  BY <1>2
  <2> QED  BY <1>1, <1>3, <1>4, <1>5, <1>7, <1>8, <2>1
<1>10. u \in Registries /\ RegOK(u) /\ DOMAIN u.queries = DOMAIN r.queries
  <2>1. DOMAIN r.queries = Seen(r, n)  BY DEF RegOK, Numbered
  <2> QED  BY <1>9, <2>1 DEF Loaded
<1>11. \A tag \in Tags : Range(r.byTag[tag]) = Range(u.byTag[tag])
  <2>1. Len(u.ordered) = n /\ \A i \in 1 .. n : u.ordered[i] = r.ordered[i]
    BY <1>9 DEF Loaded
  <2>2. \A id, tag : IsTagged(u, n, id, tag) <=> IsTagged(r, n, id, tag)
    BY <2>1 DEF IsTagged
  <2>3. \A tag \in Tags :
          Range(r.byTag[tag]) = {id \in DOMAIN r.queries : IsTagged(r, n, id, tag)}
    BY DEF RegOK, Tagged
  <2>4. \A tag \in Tags :
          Range(u.byTag[tag]) = {id \in DOMAIN u.queries : IsTagged(u, n, id, tag)}
    BY <1>10, <2>1 DEF RegOK, Tagged
  <2> HIDE DEF n
  <2> QED  BY <1>10, <2>2, <2>3, <2>4
<1>12. Extends(r, u)  BY <1>9, <1>10, <1>11 DEF Extends, Loaded
<1>13. Same(r, u)  BY <1>10, <1>12 DEF Same
<1> QED  BY <1>8, <1>13 DEF b

-----------------------------------------------------------------------------
(* The invariant *)

FiniteTargets == {T \in SUBSET Targets : IsFiniteSet(T)}
Askings == UNION {[T -> Nat] : T \in FiniteTargets}
Gots == UNION {[P -> Values] : P \in SUBSET Paths}
Txns == [type : {"txn"}, path : Paths, ver : 1 .. MaxVer]
Answers == [type : {"subscribe", "fetch", "replace"}, asked : Askings, got : Gots,
            ver : 0 .. MaxVer]
S2CMessages ==
  Txns \cup [type : {"newTxns"}, txns : Seq(Txns)] \cup [type : {"resync", "fatalErr"}]
    \cup Answers
C2SMessages == [type : {"unsubscribe", "subscribe", "fetch", "subs"}, asked : Askings]
Requests ==
  [type : {"subscribe", "fetch", "subs"}, asked : Askings, live : BOOLEAN,
   stage : {"guard", "fetch"}, left : SUBSET Targets, got : Gots, ver : 0 .. MaxVer]

\* The store.
Begun(r) ==
  r.left # {} /\ r.left \subseteq DOMAIN r.asked /\ (r.live \/ r.stage = "guard")
StoreOK ==
  /\ db \in [Paths -> 0 .. MaxVer] /\ ver \in 0 .. MaxVer
  /\ requests \subseteq Requests
  /\ \A r \in requests : Begun(r)

\* The indexes agree.
IndexesOK ==
  /\ fwd \in [Targets -> SUBSET Subscribers] /\ rev \in [Subscribers -> FiniteTargets]
  /\ hub \in [Subscribers -> SUBSET Queries]
  /\ \A t \in Targets, s \in Subscribers : s \in fwd[t] <=> t \in rev[s]
  /\ \A s \in Subscribers : hub[s] = rev[s] \cap Queries

\* The connection.
Formed(m) ==
  /\ m.type = "unsubscribe" =>
       DOMAIN m.asked = {} \/ \E t \in Patterns : DOMAIN m.asked = {t}
  /\ m.type \in {"subscribe", "fetch"} => DOMAIN m.asked # {}
NetOK ==
  /\ up \in BOOLEAN /\ conns \in 0 .. MaxConns /\ sockVer \in 0 .. MaxVer
  /\ buffering \in BOOLEAN /\ buffer \in Seq(Txns)
  /\ c2s \in Seq(C2SMessages) /\ s2c \in Seq(S2CMessages)
  /\ ~ (buffering /\ up) /\ (buffer # << >> => buffering)
  /\ onServer \in BOOLEAN
  /\ (onServer => conns = 0 /\ ~ buffering /\ ~ up /\ c2s = << >>)
  /\ \A k \in 1 .. Len(c2s) : Formed(c2s[k])

\* The model.
ModelOK ==
  /\ patterns \subseteq Patterns /\ patterns \in FiniteTargets
  /\ data \in [Paths -> Values] /\ memVer \in 0 .. MaxVer /\ seen \in [Paths -> Values]
  /\ ops \in Nat /\ stamp \in [Targets -> Nat] /\ \A t \in Targets : stamp[t] <= ops
  /\ acked \subseteq Subs

RegistryOK == reg \in Registries /\ RegOK(reg)

\* Whoever asked for a target, and has not asked anew, has it registered.
AskedOK(asked) == \A t \in DOMAIN asked : asked[t] <= ops /\ (asked[t] = stamp[t] => t \in Subs)
RequestAsked(r) == r.live => AskedOK(r.asked)
MessageAsked(m) == m.type # "unsubscribe" => AskedOK(m.asked)
AnswerAsked(m) == m \in Answers => AskedOK(m.asked)
RequestsAsked == \A r \in requests : RequestAsked(r)
CallsAsked == \A k \in 1 .. Len(c2s) : MessageAsked(c2s[k])
AnswersAsked == \A k \in 1 .. Len(s2c) : AnswerAsked(s2c[k])
AskedIsRegistered == RequestsAsked /\ CallsAsked /\ AnswersAsked

\* The queries that were shipped are there, under the ids that they were shipped with.
ShippedOK ==
  \A q \in DOMAIN shipped :
    shipped[q] \in DOMAIN reg.queries /\ reg.queries[shipped[q]] = q

SubInv ==
  /\ StoreOK /\ IndexesOK /\ NetOK /\ ModelOK /\ RegistryOK /\ AskedIsRegistered /\ ShippedOK
  /\ SentOnce

\* Functions from some paths to versions.
LEMMA GotsAre ==
  ASSUME NEW f
  PROVE  f \in Gots <=> /\ DOMAIN f \subseteq Paths /\ f = [p \in DOMAIN f |-> f[p]]
                        /\ \A p \in DOMAIN f : f[p] \in Values
<1>1. ASSUME f \in Gots
      PROVE  /\ DOMAIN f \subseteq Paths /\ f = [p \in DOMAIN f |-> f[p]]
             /\ \A p \in DOMAIN f : f[p] \in Values
  <2>1. PICK P \in SUBSET Paths : f \in [P -> Values]  BY <1>1 DEF Gots
  <2> QED  BY <2>1
<1>2. ASSUME DOMAIN f \subseteq Paths, f = [p \in DOMAIN f |-> f[p]],
             \A p \in DOMAIN f : f[p] \in Values
      PROVE  f \in Gots
  <2>1. DOMAIN f \in SUBSET Paths /\ f \in [DOMAIN f -> Values]  BY <1>2
  <2> QED  BY <2>1 DEF Gots
<1> QED  BY <1>1, <1>2

\* Finite sets of targets.
LEMMA FiniteTargetsAre ==
  /\ {} \in FiniteTargets /\ \A t \in Targets : {t} \in FiniteTargets
  /\ \A S, T \in FiniteTargets : S \cup T \in FiniteTargets
  /\ \A S : \A T \in FiniteTargets : S \cap T \in FiniteTargets /\ T \cap S \in FiniteTargets
                                      /\ T \ S \in FiniteTargets
<1>1. {} \in FiniteTargets /\ \A t \in Targets : {t} \in FiniteTargets
  <2>1. {} \in SUBSET Targets /\ \A t \in Targets : {t} \in SUBSET Targets  OBVIOUS
  <2> QED  BY <2>1, FS_EmptySet, FS_Singleton DEF FiniteTargets
<1>2. ASSUME NEW S \in FiniteTargets, NEW T \in FiniteTargets
      PROVE  S \cup T \in FiniteTargets
  <2>1. IsFiniteSet(S) /\ IsFiniteSet(T) /\ S \cup T \in SUBSET Targets  BY DEF FiniteTargets
  <2>2. IsFiniteSet(S \cup T)  BY <2>1, FS_Union
  <2> QED  BY <2>1, <2>2 DEF FiniteTargets
<1>3. ASSUME NEW T \in FiniteTargets, NEW S \in SUBSET T PROVE S \in FiniteTargets
  BY FS_Subset DEF FiniteTargets
<1>4. ASSUME NEW S, NEW T \in FiniteTargets
      PROVE  S \cap T \in FiniteTargets /\ T \cap S \in FiniteTargets /\ T \ S \in FiniteTargets
  <2>1. S \cap T \in SUBSET T /\ T \cap S \in SUBSET T /\ T \ S \in SUBSET T  OBVIOUS
  <2> QED  BY <1>3, <2>1
<1> QED  BY <1>1, <1>2, <1>4

\* ... and the numbers under which they were asked for.
LEMMA AskingsAre ==
  ASSUME NEW f
  PROVE  /\ f \in Askings <=> /\ DOMAIN f \in FiniteTargets /\ f = [t \in DOMAIN f |-> f[t]]
                              /\ \A t \in DOMAIN f : f[t] \in Nat
         /\ f \in Askings => DOMAIN f \subseteq Targets
<1>1. ASSUME f \in Askings
      PROVE  /\ DOMAIN f \in FiniteTargets /\ f = [t \in DOMAIN f |-> f[t]]
             /\ \A t \in DOMAIN f : f[t] \in Nat
  <2>1. PICK T \in FiniteTargets : f \in [T -> Nat]  BY <1>1 DEF Askings
  <2> QED  BY <2>1
<1>2. ASSUME DOMAIN f \in FiniteTargets, f = [t \in DOMAIN f |-> f[t]],
             \A t \in DOMAIN f : f[t] \in Nat
      PROVE  f \in Askings
  <2>1. f \in [DOMAIN f -> Nat]  BY <1>2
  <2> QED  BY <1>2, <2>1 DEF Askings
<1>3. \A T \in FiniteTargets : T \subseteq Targets  BY DEF FiniteTargets
<1> QED  BY <1>1, <1>2, <1>3

\* An asking of some targets, and one of none.
LEMMA AskingOf ==
  ASSUME NEW T \in FiniteTargets, NEW n \in Nat
  PROVE  [t \in T |-> n] \in Askings /\ << >> \in Askings /\ << >> \in Gots
<1>1. DOMAIN << >> = {} /\ << >> = [t \in {} |-> << >>[t]]  OBVIOUS
<1>2. << >> \in Askings  BY <1>1, AskingsAre, FiniteTargetsAre
<1>3. << >> \in Gots  BY <1>1, GotsAre
<1> DEFINE f == [t \in T |-> n]
<1>4. DOMAIN f = T /\ f = [t \in DOMAIN f |-> f[t]] /\ \A t \in DOMAIN f : f[t] \in Nat
  OBVIOUS
<1> HIDE DEF f
<1>5. f \in Askings  BY <1>4, AskingsAre
<1> QED  BY <1>2, <1>3, <1>5 DEF f

\* What is read is put over what is there.
LEMMA OverIs ==
  ASSUME NEW f \in Gots
  PROVE  /\ \A d \in [Paths -> Values] : Over(f, d) \in [Paths -> Values]
         /\ \A g \in Gots : Over(f, g) \in Gots
<1>1. DOMAIN f \subseteq Paths /\ \A p \in DOMAIN f : f[p] \in Values  BY GotsAre
<1>2. ASSUME NEW d \in [Paths -> Values] PROVE Over(f, d) \in [Paths -> Values]
  <2>1. DOMAIN f \cup DOMAIN d = Paths  BY <1>1
  <2>2. Over(f, d) = [p \in Paths |-> IF p \in DOMAIN f THEN f[p] ELSE d[p]]
    BY <2>1 DEF Over
  <2> QED  BY <1>1, <2>2
<1>3. ASSUME NEW g \in Gots PROVE Over(f, g) \in Gots
  <2>1. DOMAIN g \subseteq Paths /\ \A p \in DOMAIN g : g[p] \in Values  BY GotsAre
  <2>2. PICK h : h = Over(f, g)  OBVIOUS
  <2>3. h = [p \in DOMAIN f \cup DOMAIN g |-> IF p \in DOMAIN f THEN f[p] ELSE g[p]]
    BY <2>2 DEF Over
  <2>4. DOMAIN h = DOMAIN f \cup DOMAIN g /\ h = [p \in DOMAIN h |-> h[p]]  BY <2>3
  <2>5. \A p \in DOMAIN h : h[p] \in Values  BY <1>1, <2>1, <2>3
  <2> QED  BY <1>1, <2>1, <2>2, <2>4, <2>5, GotsAre
<1> QED  BY <1>2, <1>3

\* What a message holds, by its type.
LEMMA MessageKinds ==
  ASSUME NEW m \in S2CMessages
  PROVE  /\ m.type \in {"txn", "newTxns", "resync", "fatalErr", "subscribe", "fetch", "replace"}
         /\ m.type = "txn" => m \in Txns /\ m.path \in Paths /\ m.ver \in 1 .. MaxVer
         /\ m.type = "newTxns" => m.txns \in Seq(Txns)
         /\ m.type \in {"subscribe", "fetch", "replace"} =>
              /\ m \in Answers
              /\ m.asked \in Askings /\ m.got \in Gots /\ m.ver \in 0 .. MaxVer
         /\ m \in Answers => m.type \in {"subscribe", "fetch", "replace"}
<1>1. CASE m \in Txns  BY <1>1 DEF Txns, Answers
<1>2. CASE m \in [type : {"newTxns"}, txns : Seq(Txns)]  BY <1>2 DEF Answers
<1>3. CASE m \in [type : {"resync", "fatalErr"}]  BY <1>3 DEF Answers
<1>4. CASE m \in Answers  BY <1>4 DEF Answers
<1> QED  BY <1>1, <1>2, <1>3, <1>4 DEF S2CMessages

\* Targets, and the assumptions on the constants.
LEMMA Kinds ==
  /\ Patterns \subseteq Targets /\ Queries \subseteq Targets /\ Patterns \cap Queries = {}
  /\ Me \in Subscribers /\ Others \subseteq Subscribers /\ OtherTargets \subseteq Patterns
  /\ MaxVer \in Nat /\ MaxOps \in Nat /\ MaxConns \in Nat
  /\ Covers \in [Targets -> SUBSET Paths]
  /\ 0 \in 0 .. MaxVer /\ \A n \in 0 .. MaxVer : n \in Values
  /\ Unread \in Values
<1>1. /\ Patterns \cap Queries = {} /\ OtherTargets \subseteq Patterns
      /\ MaxVer \in Nat /\ MaxOps \in Nat /\ MaxConns \in Nat
      /\ Covers \in [Targets -> SUBSET Paths]
  BY SubscriptionsAssumption
<1> QED  BY <1>1 DEF Targets, Subscribers, Values, Unread

-----------------------------------------------------------------------------
(* The indexes *)

\* Who enters targets does so in every index;
LEMMA EnterKeeps ==
  ASSUME IndexesOK, NEW s \in Subscribers, NEW ts \in FiniteTargets, Enter(s, ts)
  PROVE  IndexesOK'
<1>1. /\ fwd' = [t \in Targets |-> IF t \in ts THEN fwd[t] \cup {s} ELSE fwd[t]]
      /\ rev' = [rev EXCEPT ![s] = rev[s] \cup ts]
      /\ hub' = [hub EXCEPT ![s] = hub[s] \cup (ts \cap Queries)]
  BY DEF Enter, IndexesOK
<1>2. /\ fwd' \in [Targets -> SUBSET Subscribers] /\ rev' \in [Subscribers -> FiniteTargets]
      /\ hub' \in [Subscribers -> SUBSET Queries]
  <2>1. rev[s] \cup ts \in FiniteTargets  BY FiniteTargetsAre DEF IndexesOK
  <2> QED  BY <1>1, <2>1 DEF IndexesOK
<1>3. \A t \in Targets, x \in Subscribers : x \in fwd'[t] <=> t \in rev'[x]
  BY <1>1 DEF IndexesOK
<1>4. \A x \in Subscribers : hub'[x] = rev'[x] \cap Queries
  <2> TAKE x \in Subscribers
  <2>1. hub[x] = rev[x] \cap Queries  BY DEF IndexesOK
  <2>2. CASE x = s
    <3>1. hub'[x] = hub[x] \cup (ts \cap Queries) /\ rev'[x] = rev[x] \cup ts
      BY <1>1, <2>2 DEF IndexesOK
    <3> QED  BY <2>1, <3>1
  <2>3. CASE x # s
    <3>1. hub'[x] = hub[x] /\ rev'[x] = rev[x]  BY <1>1, <2>3 DEF IndexesOK
    <3> QED  BY <2>1, <3>1
  <2> QED  BY <2>2, <2>3
<1> QED  BY <1>2, <1>3, <1>4 DEF IndexesOK

\* ... who leaves one target, by the pattern interface,
LEMMA LeaveKeeps ==
  ASSUME IndexesOK, NEW s \in Subscribers, NEW t \in Patterns, Leave(s, t)
  PROVE  IndexesOK'
<1>1. t \in Targets /\ t \notin Queries  BY Kinds
<1>2. CASE \A u \in rev[s] : Interface(u) # Interface(t)
  BY <1>2 DEF Leave, IndexesOK
<1>3. CASE ~ \A u \in rev[s] : Interface(u) # Interface(t)
  <2>1. /\ rev' = [rev EXCEPT ![s] = rev[s] \ {t}]
        /\ fwd' = [fwd EXCEPT ![t] = fwd[t] \ {s}] /\ hub' = hub
    BY <1>3 DEF Leave, IndexesOK
  <2>2. /\ fwd' \in [Targets -> SUBSET Subscribers] /\ rev' \in [Subscribers -> FiniteTargets]
        /\ hub' \in [Subscribers -> SUBSET Queries]
    <3>1. rev[s] \ {t} \in FiniteTargets  BY FiniteTargetsAre DEF IndexesOK
    <3> QED  BY <2>1, <3>1 DEF IndexesOK
  <2>3. \A u \in Targets, x \in Subscribers : x \in fwd'[u] <=> u \in rev'[x]
    BY <1>1, <2>1 DEF IndexesOK
  <2>4. \A x \in Subscribers : rev'[x] \cap Queries = rev[x] \cap Queries
    BY <1>1, <2>1 DEF IndexesOK
  <2> QED  BY <2>1, <2>2, <2>3, <2>4 DEF IndexesOK
<1> QED  BY <1>2, <1>3

\* ... and who leaves all of them.
LEMMA LeaveEveryKeeps ==
  ASSUME IndexesOK, NEW s \in Subscribers,
         fwd' = [t \in Targets |-> fwd[t] \ {s}],
         rev' = [rev EXCEPT ![s] = {}], hub' = [hub EXCEPT ![s] = {}]
  PROVE  IndexesOK'
<1>1. /\ fwd' \in [Targets -> SUBSET Subscribers] /\ rev' \in [Subscribers -> FiniteTargets]
      /\ hub' \in [Subscribers -> SUBSET Queries]
  BY FiniteTargetsAre DEF IndexesOK
<1>2. \A t \in Targets, x \in Subscribers : x \in fwd'[t] <=> t \in rev'[x]
  BY DEF IndexesOK
<1>3. \A x \in Subscribers : hub'[x] = rev'[x] \cap Queries
  BY DEF IndexesOK
<1> QED  BY <1>1, <1>2, <1>3 DEF IndexesOK

-----------------------------------------------------------------------------
(* Messages *)

\* A sequence with one more member, and without its first.
IsMore(u, s, x) ==
  /\ Len(u) = Len(s) + 1 /\ u[Len(s) + 1] = x
  /\ \A k \in 1 .. Len(s) : u[k] = s[k]
IsLess(u, s) ==
  Len(s) = Len(u) + 1 /\ Head(s) = s[1] /\ \A k \in 1 .. Len(u) : u[k] = s[k + 1]

\* Append puts the new member last.
LEMMA MoreIs ==
  ASSUME NEW S, NEW s \in Seq(S), NEW x \in S
  PROVE  Append(s, x) \in Seq(S) /\ IsMore(Append(s, x), s, x)
BY DEF IsMore

\* Tail takes the first.
LEMMA LessIs ==
  ASSUME NEW S, NEW s \in Seq(S), s # << >>
  PROVE  Tail(s) \in Seq(S) /\ IsLess(Tail(s), s) /\ Head(s) \in S /\ 1 \in 1 .. Len(s)
<1>1. Len(s) \in Nat /\ Len(s) # 0  OBVIOUS
<1>2. PICK u : u = Tail(s)  OBVIOUS
<1>3. u \in Seq(S) /\ Len(u) = Len(s) - 1 /\ \A k \in 1 .. Len(u) : u[k] = s[k + 1]
  BY <1>1, <1>2
<1>4. Len(s) = Len(u) + 1  BY <1>1, <1>3
<1>5. Head(s) = s[1] /\ 1 \in 1 .. Len(s)  BY <1>1
<1>6. s[1] \in S  BY <1>5
<1> QED  BY <1>2, <1>3, <1>4, <1>5, <1>6 DEF IsLess

\* What was asked stays registered, if no target is stamped with an old number, and
\* none that is not stamped anew is taken from what is registered.
LEMMA AskedKept ==
  ASSUME ops \in Nat, ops' \in Nat, ops <= ops', stamp' \in [Targets -> Nat],
         \A t \in Targets :
           stamp'[t] > ops \/ (stamp'[t] = stamp[t] /\ (t \in Subs => t \in Subs')),
         NEW a \in Askings, AskedOK(a)
  PROVE  AskedOK(a)'
<1>1. DOMAIN a \subseteq Targets /\ \A t \in DOMAIN a : a[t] \in Nat  BY AskingsAre
<1> SUFFICES ASSUME NEW t \in DOMAIN a
             PROVE  a[t] <= ops' /\ (a[t] = stamp'[t] => t \in Subs')
  BY DEF AskedOK
<1>2. a[t] <= ops /\ (a[t] = stamp[t] => t \in Subs)  BY DEF AskedOK
<1>3. t \in Targets /\ a[t] \in Nat /\ stamp'[t] \in Nat  BY <1>1
<1> QED  BY <1>2, <1>3

\* A socket is sent each transaction once: with another message, and with one less.
LEMMA SentMore ==
  ASSUME s2c \in Seq(S2CMessages), SentOnce, NEW x \in S2CMessages, x.type # "txn",
         s2c' = Append(s2c, x), sockVer' = sockVer
  PROVE  SentOnce'
<1>1. IsMore(s2c', s2c, x) /\ s2c' \in Seq(S2CMessages)  BY MoreIs
<1>2. Len(s2c) \in Nat /\ DOMAIN s2c = 1 .. Len(s2c) /\ DOMAIN s2c' = 1 .. Len(s2c')  BY <1>1
<1> SUFFICES ASSUME NEW k \in DOMAIN s2c', s2c'[k].type = "txn"
             PROVE  /\ s2c'[k].ver <= sockVer'
                    /\ \A j \in 1 .. k - 1 : s2c'[j].type = "txn" => s2c'[j].ver < s2c'[k].ver
  BY DEF SentOnce
<1>3. k \in 1 .. Len(s2c)  BY <1>1, <1>2 DEF IsMore
<1>4. \A j \in 1 .. k : s2c'[j] = s2c[j]  BY <1>1, <1>2, <1>3 DEF IsMore
<1>5. k \in 1 .. k /\ \A j \in 1 .. k - 1 : j \in 1 .. k  BY <1>2, <1>3
<1> QED  BY <1>2, <1>3, <1>4, <1>5 DEF SentOnce

\* ... and when its first is taken.
LEMMA SentLess ==
  ASSUME s2c \in Seq(S2CMessages), SentOnce, s2c # << >>, s2c' = Tail(s2c),
         sockVer' = sockVer
  PROVE  SentOnce'
<1>1. IsLess(s2c', s2c) /\ s2c' \in Seq(S2CMessages)  BY LessIs
<1>2. /\ Len(s2c) \in Nat /\ DOMAIN s2c = 1 .. Len(s2c)
      /\ Len(s2c') \in Nat /\ DOMAIN s2c' = 1 .. Len(s2c')
  BY <1>1
<1> SUFFICES ASSUME NEW k \in DOMAIN s2c', s2c'[k].type = "txn"
             PROVE  /\ s2c'[k].ver <= sockVer'
                    /\ \A j \in 1 .. k - 1 : s2c'[j].type = "txn" => s2c'[j].ver < s2c'[k].ver
  BY DEF SentOnce
<1>3. k \in 1 .. Len(s2c') /\ k + 1 \in DOMAIN s2c  BY <1>1, <1>2 DEF IsLess
<1>4. \A j \in 1 .. k : s2c'[j] = s2c[j + 1]  BY <1>1, <1>2, <1>3 DEF IsLess
<1>5. s2c'[k] = s2c[k + 1]  BY <1>2, <1>3, <1>4
<1>6. /\ s2c[k + 1].ver <= sockVer
      /\ \A j \in 1 .. k : s2c[j].type = "txn" => s2c[j].ver < s2c[k + 1].ver
  BY <1>2, <1>3, <1>5 DEF SentOnce
<1>7. ASSUME NEW j \in 1 .. k - 1, s2c'[j].type = "txn" PROVE s2c'[j].ver < s2c'[k].ver
  <2>1. j \in 1 .. k /\ j + 1 \in 1 .. k  BY <1>2, <1>3
  <2>2. s2c'[j] = s2c[j + 1]  BY <1>4, <2>1
  <2> QED  BY <1>5, <1>6, <1>7, <2>1, <2>2
<1> QED  BY <1>5, <1>6, <1>7

\* What is registered are targets.
LEMMA SubsAre ==
  ASSUME ModelOK, RegistryOK
  PROVE  /\ Subs \in FiniteTargets
         /\ LookupWithTag(reg, "subs") \subseteq Queries
<1>1. "subs" \in Tags /\ reg.queries \in IdQueries  BY DEF Tags, RegistryOK, Registries
<1>2. Range(reg.byTag["subs"]) \subseteq DOMAIN reg.queries
  BY <1>1 DEF RegistryOK, RegOK, Tagged
<1>3. ToSet(reg.byTag["subs"]) = Range(reg.byTag["subs"])  BY DEF ToSet, Range
<1>4. LookupWithTag(reg, "subs") \subseteq Queries
  BY <1>1, <1>2, <1>3, IdQueriesAre DEF LookupWithTag
<1>5. PICK ids : ids = reg.byTag["subs"]  OBVIOUS
<1>6. ids \in Seq(Ids) /\ Len(ids) \in Nat /\ DOMAIN ids = 1 .. Len(ids)
  BY <1>1, <1>5 DEF RegistryOK, Registries
<1> DEFINE S == LookupWithTag(reg, "subs")
           f == [k \in 1 .. Len(ids) |-> reg.queries[ids[k]]]
<1>7. S = {reg.queries[id] : id \in Range(ids)}  BY <1>3, <1>5 DEF LookupWithTag
<1>8. f \in Surjection(1 .. Len(ids), S)
  <2>1. \A k \in 1 .. Len(ids) : ids[k] \in Range(ids)  BY <1>6 DEF Range
  <2>2. f \in [1 .. Len(ids) -> S]  BY <1>7, <2>1
  <2>3. \A q \in S : \E k \in 1 .. Len(ids) : f[k] = q  BY <1>6, <1>7 DEF Range
  <2> HIDE DEF f, S
  <2> QED  BY <2>2, <2>3, Fun_IsSurj
<1>9. S \in FiniteTargets
  <2>1. IsFiniteSet(1 .. Len(ids))
    <3>1. 1 \in Int /\ Len(ids) \in Int  BY <1>6
    <3> QED  BY <3>1, FS_Interval
  <2>2. S \in SUBSET Targets  BY <1>4, Kinds
  <2> HIDE DEF f, S
  <2>3. IsFiniteSet(S)  BY <1>8, <2>1, FS_Surjection
  <2> QED  BY <2>2, <2>3 DEF FiniteTargets
<1>10. Subs \in FiniteTargets  BY <1>9, FiniteTargetsAre DEF Subs, ModelOK
<1> QED  BY <1>4, <1>10

\* A registry that extends another has its subscriptions.
LEMMA LookupGrows ==
  ASSUME NEW r \in Registries, RegOK(r), NEW u, Extends(r, u)
  PROVE  LookupWithTag(r, "subs") \subseteq LookupWithTag(u, "subs")
<1>1. "subs" \in Tags  BY DEF Tags
<1>2. Range(r.byTag["subs"]) \subseteq DOMAIN r.queries  BY <1>1 DEF RegOK, Tagged
<1>3. \A x : ToSet(x) = Range(x)  BY DEF ToSet, Range
<1> SUFFICES ASSUME NEW q \in LookupWithTag(r, "subs") PROVE q \in LookupWithTag(u, "subs")
  OBVIOUS
<1>4. PICK id \in Range(r.byTag["subs"]) : q = r.queries[id]  BY <1>3 DEF LookupWithTag
<1>5. id \in Range(u.byTag["subs"]) /\ u.queries[id] = q
  BY <1>1, <1>2, <1>4 DEF Extends
<1> QED  BY <1>3, <1>5 DEF LookupWithTag

\* The ids that were shipped stay.
LEMMA ShippedKept ==
  ASSUME ShippedOK, Extends(reg, reg'), shipped' = shipped
  PROVE  ShippedOK'
BY DEF ShippedOK, Extends

-----------------------------------------------------------------------------
(* The steps *)

\* A request that the store begins to work on.
LEMMA RequestIs ==
  ASSUME NEW type \in {"subscribe", "fetch", "subs"}, NEW asked \in Askings
  PROVE  /\ Request(type, asked) \in Requests
         /\ DOMAIN asked # {} => Begun(Request(type, asked))
         /\ Request(type, asked).asked = asked
<1> DEFINE r == Request(type, asked)
<1>1. r = [type |-> type, asked |-> asked, live |-> TRUE,
           stage |-> IF type = "subscribe" THEN "guard" ELSE "fetch",
           left |-> DOMAIN asked, got |-> << >>, ver |-> 0]
  BY DEF Request
<1>2. DOMAIN asked \in SUBSET Targets  BY AskingsAre
<1>3. << >> \in Gots
  <2>1. 0 \in Nat  OBVIOUS
  <2> QED  BY <2>1, AskingOf, FiniteTargetsAre
<1>4. PICK stage \in {"guard", "fetch"} :
        stage = IF type = "subscribe" THEN "guard" ELSE "fetch"
  OBVIOUS
<1>5. r = [type |-> type, asked |-> asked, live |-> TRUE, stage |-> stage,
           left |-> DOMAIN asked, got |-> << >>, ver |-> 0]
  BY <1>1, <1>4
<1> HIDE DEF r
<1>6. r \in Requests  BY <1>2, <1>3, <1>5, Kinds DEF Requests
<1>7. DOMAIN asked # {} => Begun(r)  BY <1>5 DEF Begun
<1>8. r.asked = asked  BY <1>5
<1> QED  BY <1>6, <1>7, <1>8 DEF r

\* The members of u are new ones, of X, or members of s.
Among(u, s, X) == \A k \in 1 .. Len(u) : u[k] \in X \/ \E j \in 1 .. Len(s) : u[k] = s[j]

\* A list that stays, that gets one member, and that loses its first.
LEMMA AmongOld ==
  ASSUME NEW S, NEW s \in Seq(S)
  PROVE  /\ \A X : Among(s, s, X)
         /\ \A x \in S : Among(Append(s, x), s, {x})
         /\ s # << >> => Among(Tail(s), s, {})
<1>1. Len(s) \in Nat  OBVIOUS
<1>2. \A X : Among(s, s, X)  BY DEF Among
<1>3. ASSUME NEW x \in S PROVE Among(Append(s, x), s, {x})
  <2>1. PICK u : u = Append(s, x)  OBVIOUS
  <2>2. IsMore(u, s, x)  BY <2>1, MoreIs
  <2>3. \A k \in 1 .. Len(u) : k \in 1 .. Len(s) \/ k = Len(s) + 1  BY <1>1, <2>2 DEF IsMore
  <2> QED  BY <2>1, <2>2, <2>3 DEF IsMore, Among
<1>4. ASSUME s # << >> PROVE Among(Tail(s), s, {})
  <2>1. PICK u : u = Tail(s)  OBVIOUS
  <2>2. u \in Seq(S) /\ IsLess(u, s)  BY <1>4, <2>1, LessIs
  <2>3. Len(u) \in Nat /\ Len(s) = Len(u) + 1  BY <2>2 DEF IsLess
  <2>4. ASSUME NEW k \in 1 .. Len(u) PROVE \E j \in 1 .. Len(s) : u[k] = s[j]
    <3>1. k + 1 \in 1 .. Len(s) /\ u[k] = s[k + 1]  BY <2>2, <2>3 DEF IsLess
    <3> QED  BY <3>1
  <2> QED  BY <2>1, <2>4 DEF Among
<1> QED  BY <1>2, <1>3, <1>4

\* What was asked stays registered, if that holds of what is new and of every asking
\* that there was: in the requests, and on either way of the connection.
LEMMA RequestsStay ==
  ASSUME StoreOK, RequestsAsked, \A a \in Askings : AskedOK(a) => AskedOK(a)',
         \A r \in requests' : r \in requests \/ RequestAsked(r)'
  PROVE  RequestsAsked'
<1>1. ASSUME NEW r \in requests PROVE RequestAsked(r)'
  <2>1. r \in Requests /\ RequestAsked(r)  BY DEF StoreOK, RequestsAsked
  <2>2. r.asked \in Askings  BY <2>1 DEF Requests
  <2> QED  BY <2>1, <2>2 DEF RequestAsked
<1>2. \A r \in requests' : RequestAsked(r)'  BY <1>1
<1> QED  BY <1>2 DEF RequestsAsked

\* ... in the messages to the store
LEMMA CallsStay ==
  ASSUME NetOK, CallsAsked, \A a \in Askings : AskedOK(a) => AskedOK(a)',
         NEW X, Among(c2s', c2s, X), \A m \in X : MessageAsked(m)'
  PROVE  CallsAsked'
<1>1. ASSUME NEW j \in 1 .. Len(c2s) PROVE MessageAsked(c2s[j]) /\ c2s[j].asked \in Askings
  <2>1. c2s[j] \in C2SMessages /\ MessageAsked(c2s[j])  BY DEF NetOK, CallsAsked
  <2> QED  BY <2>1 DEF C2SMessages
<1>2. ASSUME NEW k \in 1 .. Len(c2s') PROVE MessageAsked(c2s[k])'
  <2>1. ASSUME NEW j \in 1 .. Len(c2s), c2s'[k] = c2s[j] PROVE MessageAsked(c2s[k])'
    BY <1>1, <2>1 DEF MessageAsked
  <2> QED  BY <2>1 DEF Among
<1> QED  BY <1>2 DEF CallsAsked

\* ... and in those to the model.
LEMMA AnswersStay ==
  ASSUME AnswersAsked, \A a \in Askings : AskedOK(a) => AskedOK(a)',
         NEW X, Among(s2c', s2c, X), \A m \in X : AnswerAsked(m)'
  PROVE  AnswersAsked'
<1>1. ASSUME NEW k \in 1 .. Len(s2c') PROVE AnswerAsked(s2c[k])'
  <2>1. ASSUME NEW j \in 1 .. Len(s2c), s2c'[k] = s2c[j] PROVE AnswerAsked(s2c[k])'
    <3>1. AnswerAsked(s2c[j])  BY DEF AnswersAsked
    <3>2. s2c[j] \in Answers => s2c[j].asked \in Askings  BY DEF Answers
    <3> QED  BY <2>1, <3>1, <3>2 DEF AnswerAsked
  <2> QED  BY <2>1 DEF Among
<1> QED  BY <1>1 DEF AnswersAsked

\* What is asked for goes over the socket, if there is one.
LEMMA CallKeeps ==
  ASSUME NetOK, NEW m \in C2SMessages, Formed(m),
         c2s' = IF ~up THEN c2s ELSE Append(c2s, m),
         UNCHANGED <<up, conns, sockVer, buffering, buffer, s2c, onServer>>
  PROVE  NetOK' /\ Among(c2s', c2s, {m}) /\ Among(s2c', s2c, {})
<1>1. c2s \in Seq(C2SMessages) /\ s2c \in Seq(S2CMessages)  BY DEF NetOK
<1>2. c2s' \in Seq(C2SMessages) /\ Among(c2s', c2s, {m})
  <2>1. CASE up  BY <1>1, <2>1, AmongOld, MoreIs
  <2>2. CASE ~up  BY <1>1, <2>2, AmongOld
  <2> QED  BY <2>1, <2>2
<1>3. \A k \in 1 .. Len(c2s') : Formed(c2s'[k])  BY <1>2 DEF Among, NetOK
<1>4. onServer' => c2s' = << >>  BY DEF NetOK
<1>5. NetOK'  BY <1>2, <1>3, <1>4 DEF NetOK
<1> QED  BY <1>1, <1>2, <1>5, AmongOld

\* What a model asks for becomes a request or a message.
LEMMA AskKeeps ==
  ASSUME SubInv, NEW type \in {"subscribe", "fetch"}, NEW asked \in Askings,
         DOMAIN asked # {}, Ask(type, asked), AskedOK(asked)',
         \A a \in Askings : AskedOK(a) => AskedOK(a)',
         UNCHANGED <<db, ver, fwd, rev, hub, threw, up, conns, sockVer, buffering, buffer,
                     s2c, onServer>>
  PROVE  StoreOK' /\ IndexesOK' /\ NetOK' /\ AskedIsRegistered' /\ SentOnce'
<1>1. PICK r : r = Request(type, asked)  OBVIOUS
<1>2. r \in Requests /\ Begun(r) /\ r.asked = asked  BY <1>1, RequestIs
<1>3. requests' \subseteq requests \cup {r}  BY <1>1 DEF Ask
<1>4. PICK m : m = [type |-> type, asked |-> asked]  OBVIOUS
<1>5. m \in C2SMessages /\ Formed(m) /\ m.asked = asked  BY <1>4 DEF C2SMessages, Formed
<1>6. c2s' = IF ~up THEN c2s ELSE Append(c2s, m)  BY <1>4 DEF Ask
<1>7. StoreOK /\ NetOK /\ AskedIsRegistered  BY DEF SubInv
<1>8. StoreOK'
  <2>1. requests' \subseteq Requests /\ \A x \in requests' : Begun(x)
    BY <1>2, <1>3, <1>7 DEF StoreOK
  <2> QED  BY <1>7, <2>1 DEF StoreOK
<1>9. NetOK' /\ Among(c2s', c2s, {m}) /\ Among(s2c', s2c, {})
  BY <1>5, <1>6, <1>7, CallKeeps
<1>10. RequestAsked(r)' /\ MessageAsked(m)'  BY <1>2, <1>5 DEF RequestAsked, MessageAsked
<1>11. AskedIsRegistered'
  <2>1. \A x \in requests' : x \in requests \/ RequestAsked(x)'  BY <1>3, <1>10
  <2>2. \A x \in {m} : MessageAsked(x)'  BY <1>10
  <2>3. RequestsAsked'  BY <1>7, <2>1, RequestsStay DEF AskedIsRegistered
  <2>4. CallsAsked'  BY <1>7, <1>9, <2>2, CallsStay DEF AskedIsRegistered
  <2>5. AnswersAsked'  BY <1>7, <1>9, AnswersStay DEF AskedIsRegistered
  <2> QED  BY <2>3, <2>4, <2>5 DEF AskedIsRegistered
<1>12. IndexesOK' /\ SentOnce'  BY DEF SubInv, IndexesOK, SentOnce
<1> QED  BY <1>8, <1>9, <1>11, <1>12

\* A list of queries without repetition has them all.
LEMMA AllQueries ==
  ASSUME NEW S \in SUBSET Queries, IsFiniteSet(S), NEW qs \in SetToSeqs(S)
  PROVE  qs \in Seq(Queries) /\ \A q \in S : \E k \in 1 .. Len(qs) : qs[k] = q
<1> DEFINE n == Cardinality(S)
<1>1. n \in Nat  BY FS_CardinalityType
<1>2. qs \in [1 .. n -> S] /\ \A i, j \in 1 .. n : i # j => qs[i] # qs[j]
  BY DEF SetToSeqs
<1>3. qs \in Seq(Queries) /\ Len(qs) = n  BY <1>1, <1>2
<1>4. qs \in Injection(1 .. n, S)
  <2>1. \A i, j \in 1 .. n : qs[i] = qs[j] => i = j  BY <1>2
  <2> QED  BY <1>2, <2>1, Fun_IsInj
<1>5. IsFiniteSet(1 .. n) /\ Cardinality(1 .. n) = n
  <2>1. 1 \in Int /\ n \in Int  BY <1>1
  <2>2. IsFiniteSet(1 .. n) /\ Cardinality(1 .. n) = IF 1 > n THEN 0 ELSE n - 1 + 1
    BY <2>1, FS_Interval
  <2> QED  BY <1>1, <2>2
<1>6. qs \in Surjection(1 .. n, S)  BY <1>4, <1>5, FS_Injection
<1>7. \A q \in S : \E k \in 1 .. n : qs[k] = q  BY <1>6 DEF Surjection
<1> QED  BY <1>3, <1>7

\* subscribe registers its queries one by one and asks for all its targets at once.
LEMMA SubscribeStep ==
  ASSUME SubInv, NEW ts \in SUBSET Targets, IsFiniteSet(ts),
         Cardinality(ts) \in 1 .. MaxTargets - ops, Subscribe(ts)
  PROVE  SubInv'
<1>0. PICK asked : asked = [t \in ts |-> ops + 1]  OBVIOUS
<1>1. ModelOK /\ RegistryOK /\ ShippedOK /\ ops \in Nat  BY DEF SubInv, ModelOK
<1>2. PICK qs \in SetToSeqs(ts \cap Queries) : reg' = RegisteredFrom(reg, qs)
  BY DEF Subscribe, RegisteredFrom
<1>3. qs \in Seq(Queries) /\ \A q \in ts \cap Queries : \E k \in 1 .. Len(qs) : qs[k] = q
  <2>1. IsFiniteSet(ts \cap Queries)  BY FS_Subset
  <2> QED  BY <2>1, AllQueries
<1>4. RegisteredAll(reg, reg', qs)  BY <1>1, <1>2, <1>3, RegisterAll DEF RegistryOK
<1>5. RegistryOK' /\ Extends(reg, reg')  BY <1>4 DEF RegisteredAll, RegistryOK
<1>6. Subs \subseteq Subs' /\ ts \subseteq Subs'
  <2>1. patterns' = patterns \cup (ts \cap Patterns)  BY DEF Subscribe
  <2>2. LookupWithTag(reg, "subs") \subseteq LookupWithTag(reg', "subs")
    BY <1>1, <1>5, LookupGrows DEF RegistryOK
  <2>3. ts \cap Queries \subseteq LookupWithTag(reg', "subs")
    <3> SUFFICES ASSUME NEW q \in ts \cap Queries PROVE q \in LookupWithTag(reg', "subs")
      OBVIOUS
    <3>1. PICK k \in 1 .. Len(qs) : qs[k] = q  BY <1>3
    <3>2. \E id \in Range(reg'.byTag["subs"]) : reg'.queries[id] = q
      BY <1>4, <3>1 DEF RegisteredAll
    <3> QED  BY <3>2 DEF LookupWithTag, ToSet, Range
  <2> QED  BY <2>1, <2>2, <2>3 DEF Subs, Targets
<1>7. asked \in Askings /\ DOMAIN asked = ts
  <2>1. ops + 1 \in Nat /\ ts \in FiniteTargets  BY <1>1 DEF FiniteTargets
  <2> QED  BY <1>0, <2>1, AskingOf
<1>8. ts # {}
  <2> SUFFICES ASSUME ts = {} PROVE FALSE  OBVIOUS
  <2>1. Cardinality(ts) = 0  BY FS_EmptySet
  <2> QED  BY <2>1
<1>9. ops' = ops + 1 /\ stamp' = [t \in Targets |-> IF t \in ts THEN ops + 1 ELSE stamp[t]]
  BY DEF Subscribe
<1>10. stamp' \in [Targets -> Nat] /\ \A t \in Targets : stamp'[t] <= ops'
  BY <1>1, <1>9 DEF ModelOK
<1>11. \A a \in Askings : AskedOK(a) => AskedOK(a)'
  <2>1. ops' \in Nat /\ ops <= ops'  BY <1>1, <1>9
  <2>2. \A t \in Targets :
          stamp'[t] > ops \/ (stamp'[t] = stamp[t] /\ (t \in Subs => t \in Subs'))
    BY <1>1, <1>6, <1>9
  <2> QED  BY <1>1, <1>10, <2>1, <2>2, AskedKept
<1>12. AskedOK(asked)'
  <2>1. \A t \in ts : asked[t] <= ops' /\ t \in Subs'  BY <1>0, <1>1, <1>6, <1>9
  <2> QED  BY <1>7, <2>1 DEF AskedOK
<1>13. /\ Ask("subscribe", asked)
       /\ UNCHANGED <<db, ver, fwd, rev, hub, threw, up, conns, sockVer, buffering, buffer,
                      s2c, onServer, data, memVer, acked, seen, lossy, shipped>>
  BY <1>0 DEF Subscribe
<1>14. ModelOK'
  <2>1. patterns' \subseteq Patterns /\ patterns' \in FiniteTargets
    <3>1. ts \cap Patterns \in FiniteTargets
      BY FiniteTargetsAre DEF FiniteTargets
    <3>2. patterns' = patterns \cup (ts \cap Patterns)  BY DEF Subscribe
    <3> QED  BY <1>1, <3>1, <3>2, FiniteTargetsAre DEF ModelOK
  <2>2. acked' \subseteq Subs'  BY <1>1, <1>6, <1>13 DEF ModelOK
  <2> QED  BY <1>1, <1>9, <1>10, <1>13, <2>1, <2>2 DEF ModelOK
<1>15. StoreOK' /\ IndexesOK' /\ NetOK' /\ AskedIsRegistered' /\ SentOnce'
  BY <1>7, <1>8, <1>11, <1>12, <1>13, AskKeeps
<1>16. ShippedOK'  BY <1>1, <1>5, <1>13, ShippedKept
<1> QED  BY <1>5, <1>14, <1>15, <1>16 DEF SubInv

\* fetch registers its query and subscribes to nothing.
LEMMA FetchStep ==
  ASSUME SubInv, NEW t \in Targets, Fetch(t)
  PROVE  SubInv'
<1>0. PICK asked : asked = [u \in {t} |-> ops + 1]  OBVIOUS
<1>1. ModelOK /\ RegistryOK /\ ShippedOK /\ ops \in Nat  BY DEF SubInv, ModelOK
<1>2. RegistryOK' /\ Extends(reg, reg')
  <2>1. CASE t \in Queries
    <3>1. reg' = RegisterQuery(reg, t, "fetch") /\ "fetch" \in Tags
      BY <2>1 DEF Fetch, Tags
    <3>2. reg' \in Registries /\ RegOK(reg') /\ Extends(reg, reg')
      BY <1>1, <2>1, <3>1, RegisterKeeps DEF RegistryOK
    <3> QED  BY <3>2 DEF RegistryOK
  <2>2. CASE t \notin Queries
    <3>1. reg' = reg  BY <2>2 DEF Fetch
    <3> QED  BY <1>1, <3>1 DEF Extends, RegistryOK
  <2> QED  BY <2>1, <2>2
<1>3. /\ Ask("fetch", asked) /\ ops' = ops + 1
      /\ UNCHANGED <<db, ver, fwd, rev, hub, threw, up, conns, sockVer, buffering, buffer,
                     s2c, onServer, patterns, data, memVer, stamp, acked, seen, lossy, shipped>>
  BY <1>0 DEF Fetch
<1>4. Subs \subseteq Subs'
  <2>1. LookupWithTag(reg, "subs") \subseteq LookupWithTag(reg', "subs")
    BY <1>1, <1>2, LookupGrows DEF RegistryOK
  <2> QED  BY <1>3, <2>1 DEF Subs
<1>5. asked \in Askings /\ DOMAIN asked = {t}
  <2>1. {t} \in FiniteTargets /\ ops + 1 \in Nat  BY <1>1, FiniteTargetsAre
  <2> QED  BY <1>0, <2>1, AskingOf
<1>6. \A a \in Askings : AskedOK(a) => AskedOK(a)'
  <2>1. ops' \in Nat /\ ops <= ops' /\ stamp' \in [Targets -> Nat]  BY <1>1, <1>3 DEF ModelOK
  <2>2. \A u \in Targets :
          stamp'[u] > ops \/ (stamp'[u] = stamp[u] /\ (u \in Subs => u \in Subs'))
    BY <1>3, <1>4
  <2> QED  BY <1>1, <2>1, <2>2, AskedKept
<1>7. AskedOK(asked)'
  <2>1. asked[t] = ops + 1 /\ stamp'[t] \in Nat /\ stamp'[t] <= ops
    BY <1>0, <1>1, <1>3 DEF ModelOK
  <2>2. asked[t] <= ops' /\ asked[t] # stamp'[t]  BY <1>1, <1>3, <2>1
  <2> QED  BY <1>5, <2>2 DEF AskedOK
<1>8. ModelOK'
  <2>1. acked' \subseteq Subs'  BY <1>1, <1>3, <1>4 DEF ModelOK
  <2>2. \A u \in Targets : stamp'[u] <= ops'  BY <1>1, <1>3 DEF ModelOK
  <2> QED  BY <1>1, <1>3, <2>1, <2>2 DEF ModelOK
<1>9. StoreOK' /\ IndexesOK' /\ NetOK' /\ AskedIsRegistered' /\ SentOnce'
  BY <1>3, <1>5, <1>6, <1>7, AskKeeps
<1>10. ShippedOK'  BY <1>1, <1>2, <1>3, ShippedKept
<1> QED  BY <1>2, <1>8, <1>9, <1>10 DEF SubInv

\* What a model no longer wants goes over the socket like what it wants; nothing that
\* was asked before counts, if its targets are stamped anew.
LEMMA UnaskKeeps ==
  ASSUME SubInv, NEW asked \in Askings,
         DOMAIN asked = {} \/ \E t \in Patterns : DOMAIN asked = {t},
         c2s' = IF ~up THEN c2s ELSE Append(c2s, [type |-> "unsubscribe", asked |-> asked]),
         \A a \in Askings : AskedOK(a) => AskedOK(a)',
         UNCHANGED <<db, ver, requests, up, conns, sockVer, buffering, buffer, s2c, onServer>>
  PROVE  StoreOK' /\ NetOK' /\ AskedIsRegistered' /\ SentOnce'
<1>1. PICK m : m = [type |-> "unsubscribe", asked |-> asked]  OBVIOUS
<1>2. m \in C2SMessages /\ Formed(m) /\ m.type = "unsubscribe"
  BY <1>1 DEF C2SMessages, Formed
<1>3. StoreOK /\ NetOK /\ AskedIsRegistered  BY DEF SubInv
<1>4. NetOK' /\ Among(c2s', c2s, {m}) /\ Among(s2c', s2c, {})
  BY <1>1, <1>2, <1>3, CallKeeps
<1>5. \A x \in {m} : MessageAsked(x)'  BY <1>2 DEF MessageAsked
<1>6. AskedIsRegistered'
  <2>1. \A x \in requests' : x \in requests \/ RequestAsked(x)'  OBVIOUS
  <2>2. RequestsAsked'  BY <1>3, <2>1, RequestsStay DEF AskedIsRegistered
  <2>3. CallsAsked'  BY <1>3, <1>4, <1>5, CallsStay DEF AskedIsRegistered
  <2>4. AnswersAsked'  BY <1>3, <1>4, AnswersStay DEF AskedIsRegistered
  <2> QED  BY <2>2, <2>3, <2>4 DEF AskedIsRegistered
<1>7. StoreOK' /\ SentOnce'  BY <1>3 DEF SubInv, StoreOK, SentOnce
<1> QED  BY <1>4, <1>6, <1>7

\* unsubscribe of a pattern.
LEMMA UnsubscribeStep ==
  ASSUME SubInv, NEW t \in Patterns, Unsubscribe(t)
  PROVE  SubInv'
<1>1. ModelOK /\ RegistryOK /\ ShippedOK /\ ops \in Nat /\ t \in Targets
  BY Kinds DEF SubInv, ModelOK
<1>2. /\ ops' = ops + 1 /\ stamp' = [stamp EXCEPT ![t] = ops + 1]
      /\ patterns' = patterns \ {t} /\ acked' = acked \ {t}
      /\ UNCHANGED <<db, ver, requests, up, conns, sockVer, buffering, buffer, s2c,
                     onServer, reg, data, memVer, seen, lossy, shipped>>
  BY DEF Unsubscribe
<1>3. PICK asked : asked = [u \in {t} |-> 0]  OBVIOUS
<1>4. asked \in Askings /\ DOMAIN asked = {t}
  <2>1. {t} \in FiniteTargets /\ 0 \in Nat  BY <1>1, FiniteTargetsAre
  <2> QED  BY <1>3, <2>1, AskingOf
<1>5. c2s' = IF ~up THEN c2s ELSE Append(c2s, [type |-> "unsubscribe", asked |-> asked])
  BY <1>3 DEF Unsubscribe
<1>6. Subs \ {t} \subseteq Subs'  BY <1>2 DEF Subs
<1>7. stamp' \in [Targets -> Nat] /\ \A u \in Targets : stamp'[u] <= ops'
  BY <1>1, <1>2 DEF ModelOK
<1>8. \A a \in Askings : AskedOK(a) => AskedOK(a)'
  <2>1. ops' \in Nat /\ ops <= ops'  BY <1>1, <1>2
  <2>2. \A u \in Targets :
          stamp'[u] > ops \/ (stamp'[u] = stamp[u] /\ (u \in Subs => u \in Subs'))
    BY <1>1, <1>2, <1>6 DEF ModelOK
  <2> QED  BY <1>1, <1>7, <2>1, <2>2, AskedKept
<1>9. StoreOK' /\ NetOK' /\ AskedIsRegistered' /\ SentOnce'
  BY <1>2, <1>4, <1>5, <1>8, UnaskKeeps
<1>10. IndexesOK'
  <2>1. IndexesOK  BY DEF SubInv
  <2>2. CASE onServer
    <3>1. Leave(Me, t)  BY <2>2 DEF Unsubscribe
    <3> QED  BY <2>1, <3>1, LeaveKeeps, Kinds
  <2>3. CASE ~onServer
    <3>1. UNCHANGED <<fwd, rev, hub>>  BY <2>3 DEF Unsubscribe
    <3> QED  BY <2>1, <3>1 DEF IndexesOK
  <2> QED  BY <2>2, <2>3
<1>11. ModelOK'
  <2>1. acked' \subseteq Subs' /\ patterns' \subseteq Patterns /\ patterns' \in FiniteTargets
    BY <1>1, <1>2, <1>6, FiniteTargetsAre DEF ModelOK
  <2> QED  BY <1>1, <1>2, <1>7, <2>1 DEF ModelOK
<1>12. RegistryOK' /\ ShippedOK'  BY <1>1, <1>2 DEF RegistryOK, ShippedOK
<1> QED  BY <1>9, <1>10, <1>11, <1>12 DEF SubInv

\* unsubscribe without descriptors.
LEMMA UnsubscribeAllStep ==
  ASSUME SubInv, UnsubscribeAll
  PROVE  SubInv'
<1>1. ModelOK /\ RegistryOK /\ ShippedOK /\ ops \in Nat  BY DEF SubInv, ModelOK
<1>2. /\ ops' = ops + 1 /\ stamp' = [t \in Targets |-> ops + 1] /\ acked' = {}
      /\ UNCHANGED <<db, ver, requests, up, conns, sockVer, buffering, buffer, s2c,
                     onServer, reg, patterns, data, memVer, seen, lossy, shipped>>
  BY DEF UnsubscribeAll
<1>3. PICK asked : asked = << >>  OBVIOUS
<1>4. asked \in Askings /\ DOMAIN asked = {}
  <2>1. 0 \in Nat /\ {} \in FiniteTargets /\ DOMAIN << >> = {}  BY FiniteTargetsAre
  <2>2. << >> \in Askings  BY <2>1, AskingOf
  <2> QED  BY <1>3, <2>1, <2>2
<1>5. c2s' = IF ~up THEN c2s ELSE Append(c2s, [type |-> "unsubscribe", asked |-> asked])
  BY <1>3 DEF UnsubscribeAll
<1>6. stamp' \in [Targets -> Nat] /\ \A u \in Targets : stamp'[u] <= ops' /\ stamp'[u] > ops
  BY <1>1, <1>2
<1>7. \A a \in Askings : AskedOK(a) => AskedOK(a)'
  <2>1. ops' \in Nat /\ ops <= ops'  BY <1>1, <1>2
  <2> QED  BY <1>1, <1>6, <2>1, AskedKept
<1>8. StoreOK' /\ NetOK' /\ AskedIsRegistered' /\ SentOnce'
  BY <1>2, <1>4, <1>5, <1>7, UnaskKeeps
<1>9. IndexesOK'
  <2>1. IndexesOK  BY DEF SubInv
  <2>2. CASE onServer
    <3>1. /\ fwd' = [t \in Targets |-> fwd[t] \ {Me}]
          /\ rev' = [rev EXCEPT ![Me] = {}] /\ hub' = [hub EXCEPT ![Me] = {}]
      BY <2>2 DEF UnsubscribeAll, LeaveEvery
    <3> QED  BY <2>1, <3>1, LeaveEveryKeeps, Kinds
  <2>3. CASE ~onServer
    <3>1. UNCHANGED <<fwd, rev, hub>>  BY <2>3 DEF UnsubscribeAll
    <3> QED  BY <2>1, <3>1 DEF IndexesOK
  <2> QED  BY <2>2, <2>3
<1>10. ModelOK'  BY <1>1, <1>2, <1>6 DEF ModelOK
<1>11. RegistryOK' /\ ShippedOK'  BY <1>1, <1>2 DEF RegistryOK, ShippedOK
<1> QED  BY <1>8, <1>9, <1>10, <1>11 DEF SubInv

\* A step that asks for nothing and registers nothing keeps every asking.
LEMMA NothingAsked ==
  ASSUME UNCHANGED <<reg, patterns, ops, stamp>>
  PROVE  /\ \A a \in Askings : AskedOK(a) => AskedOK(a)'
         /\ Subs' = Subs
<1>1. Subs' = Subs  BY DEF Subs
<1> QED  BY <1>1 DEF AskedOK

\* A step of the store or of the connection leaves the model as it is.
LEMMA ModelStays ==
  ASSUME SubInv, UNCHANGED <<onServer, reg, patterns, data, memVer, ops, stamp, acked, seen,
                             shipped>>
  PROVE  ModelOK' /\ RegistryOK' /\ ShippedOK'
<1>1. Subs' = Subs  BY NothingAsked
<1>2. ModelOK'  BY <1>1 DEF SubInv, ModelOK
<1> QED  BY <1>2 DEF SubInv, RegistryOK, ShippedOK

\* The store takes one message: the model leaves, asks, or is entered again.
LEMMA ReceiveStep ==
  ASSUME SubInv, Receive
  PROVE  SubInv'
<1>1. StoreOK /\ IndexesOK /\ NetOK /\ AskedIsRegistered  BY DEF SubInv
<1>2. c2s \in Seq(C2SMessages) /\ c2s # << >> /\ c2s' = Tail(c2s)  BY <1>1 DEF NetOK, Receive
<1>3. /\ UNCHANGED <<db, ver, up, conns, sockVer, buffering, buffer, s2c>>
      /\ UNCHANGED <<onServer, reg, patterns, data, memVer>>
      /\ UNCHANGED <<ops, stamp, acked, seen, lossy, shipped>>
  BY DEF Receive, modelVars, history
<1>4. /\ c2s' \in Seq(C2SMessages) /\ IsLess(c2s', c2s) /\ 1 \in 1 .. Len(c2s)
      /\ Head(c2s) \in C2SMessages
  BY <1>2, LessIs
<1>5. Among(c2s', c2s, {})  BY <1>2, AmongOld
<1>6. PICK m : m = Head(c2s)  OBVIOUS
<1>7. m \in C2SMessages /\ Formed(m) /\ MessageAsked(m)
  <2>1. m = c2s[1]  BY <1>4, <1>6 DEF IsLess
  <2> QED  BY <1>1, <1>4, <1>6, <2>1 DEF NetOK, AskedIsRegistered, CallsAsked
<1>8. m.asked \in Askings /\ DOMAIN m.asked \in FiniteTargets
  BY <1>7, AskingsAre DEF C2SMessages
<1>9. ModelOK' /\ RegistryOK' /\ ShippedOK'  BY <1>3, ModelStays
<1>10. \A a \in Askings : AskedOK(a) => AskedOK(a)'  BY <1>3, NothingAsked
<1>11. NetOK'
  <2>1. \A k \in 1 .. Len(c2s') : Formed(c2s'[k])  BY <1>1, <1>5 DEF Among, NetOK
  <2>2. onServer' => c2s' = << >>  BY <1>1, <1>2, <1>3 DEF NetOK
  <2> QED  BY <1>1, <1>3, <1>4, <2>1, <2>2 DEF NetOK
<1>12. SentOnce' /\ CallsAsked' /\ AnswersAsked'
  <2>1. SentOnce'  BY <1>3 DEF SubInv, SentOnce
  <2>2. CallsAsked'  BY <1>1, <1>5, <1>10, CallsStay DEF AskedIsRegistered
  <2>3. s2c \in Seq(S2CMessages) /\ s2c' = s2c  BY <1>1, <1>3 DEF NetOK
  <2>4. Among(s2c', s2c, {})  BY <2>3, AmongOld
  <2>5. AnswersAsked'  BY <1>1, <1>10, <2>4, AnswersStay DEF AskedIsRegistered
  <2> QED  BY <2>1, <2>2, <2>5
<1>13. ASSUME NEW X \in SUBSET Requests, requests' = requests \cup X,
              \A r \in X : Begun(r) /\ RequestAsked(r)'
       PROVE  StoreOK' /\ RequestsAsked'
  <2>1. StoreOK'  BY <1>1, <1>3, <1>13 DEF StoreOK
  <2>2. \A r \in requests' : r \in requests \/ RequestAsked(r)'  BY <1>13
  <2> QED  BY <1>1, <1>10, <2>1, <2>2, RequestsStay DEF AskedIsRegistered
<1>14. CASE m.type = "unsubscribe"
  <2>1. /\ IF DOMAIN m.asked = {}
           THEN /\ fwd' = [t \in Targets |-> fwd[t] \ {Me}]
                /\ rev' = [rev EXCEPT ![Me] = {}] /\ hub' = [hub EXCEPT ![Me] = {}]
           ELSE \A t \in DOMAIN m.asked : Leave(Me, t)
        /\ UNCHANGED requests
    BY <1>6, <1>14 DEF Receive, LeaveEvery
  <2>2. IndexesOK'
    <3>1. CASE DOMAIN m.asked = {}  BY <1>1, <2>1, <3>1, LeaveEveryKeeps, Kinds
    <3>2. CASE DOMAIN m.asked # {}
      <4>1. PICK t \in Patterns : DOMAIN m.asked = {t}  BY <1>7, <1>14, <3>2 DEF Formed
      <4>2. Leave(Me, t)  BY <2>1, <3>2, <4>1
      <4> QED  BY <1>1, <4>2, LeaveKeeps, Kinds
    <3> QED  BY <3>1, <3>2
  <2>3. StoreOK' /\ RequestsAsked'
    <3>1. {} \in SUBSET Requests /\ requests' = requests \cup {}  BY <2>1
    <3>2. \A x \in {} : Begun(x) /\ RequestAsked(x)'  OBVIOUS
    <3> QED  BY <1>13, <3>1, <3>2
  <2> QED  BY <1>9, <1>11, <1>12, <2>2, <2>3 DEF SubInv, AskedIsRegistered
<1>15. CASE m.type \in {"subscribe", "fetch"}
  <2>1. requests' = requests \cup {Request(m.type, m.asked)} /\ UNCHANGED <<fwd, rev, hub>>
    BY <1>6, <1>15 DEF Receive
  <2>2. PICK r : r = Request(m.type, m.asked)  OBVIOUS
  <2>3. r \in Requests /\ Begun(r) /\ r.asked = m.asked
    <3>1. DOMAIN m.asked # {}  BY <1>7, <1>15 DEF Formed
    <3>2. PICK type \in {"subscribe", "fetch"} : type = m.type  BY <1>15
    <3> QED  BY <1>8, <2>2, <3>1, <3>2, RequestIs
  <2>4. RequestAsked(r)'  BY <1>7, <1>8, <1>10, <1>15, <2>3 DEF RequestAsked, MessageAsked
  <2>5. StoreOK' /\ RequestsAsked'
    <3>1. {r} \in SUBSET Requests /\ requests' = requests \cup {r}  BY <2>1, <2>2, <2>3
    <3>2. \A x \in {r} : Begun(x) /\ RequestAsked(x)'  BY <2>3, <2>4
    <3> QED  BY <1>13, <3>1, <3>2
  <2>6. IndexesOK'  BY <1>1, <2>1 DEF IndexesOK
  <2> QED  BY <1>9, <1>11, <1>12, <2>5, <2>6 DEF SubInv, AskedIsRegistered
<1>16. CASE m.type = "subs"
  <2>1. /\ Enter(Me, DOMAIN m.asked)
        /\ requests' = IF DOMAIN m.asked = {} THEN requests
                       ELSE requests \cup {Request("subs", m.asked)}
    BY <1>6, <1>16 DEF Receive
  <2>2. IndexesOK'  BY <1>1, <1>8, <2>1, EnterKeeps, Kinds
  <2>3. CASE DOMAIN m.asked = {}
    <3>1. StoreOK' /\ RequestsAsked'  BY <1>13, <2>1, <2>3
    <3> QED  BY <1>9, <1>11, <1>12, <2>2, <3>1 DEF SubInv, AskedIsRegistered
  <2>4. CASE DOMAIN m.asked # {}
    <3>1. PICK r : r = Request("subs", m.asked)  OBVIOUS
    <3>2. r \in Requests /\ Begun(r) /\ r.asked = m.asked  BY <1>8, <2>4, <3>1, RequestIs
    <3>3. RequestAsked(r)'  BY <1>7, <1>8, <1>10, <1>16, <3>2 DEF RequestAsked, MessageAsked
    <3>4. {r} \in SUBSET Requests /\ requests' = requests \cup {r}  BY <2>1, <2>4, <3>1, <3>2
    <3>5. \A x \in {r} : Begun(x) /\ RequestAsked(x)'  BY <3>2, <3>3
    <3>6. StoreOK' /\ RequestsAsked'  BY <1>13, <3>4, <3>5
    <3> QED  BY <1>9, <1>11, <1>12, <2>2, <3>6 DEF SubInv, AskedIsRegistered
  <2> QED  BY <2>3, <2>4
<1> QED  BY <1>7, <1>14, <1>15, <1>16 DEF C2SMessages

\* What is read reaches the model.
LEMMA NewerIs ==
  ASSUME ModelOK, NEW d \in [Paths -> Values]
  PROVE  Newer(d) \in [Paths -> Values]
<1>1. \A p \in Paths : seen[p] \in Values /\ d[p] \in Values  BY DEF ModelOK
<1>2. \A p \in Paths : Larger(seen[p], d[p]) \in Values  BY <1>1 DEF Larger
<1> QED  BY <1>2 DEF Newer

\* ... by _addData.
LEMMA AddDataKeeps ==
  ASSUME ModelOK, NEW got \in Gots, NEW v \in 0 .. MaxVer, AddData(got, v)
  PROVE  data' \in [Paths -> Values] /\ memVer' \in 0 .. MaxVer /\ seen' \in [Paths -> Values]
<1>1. PICK d : d = Over(got, data)  OBVIOUS
<1>2. d \in [Paths -> Values]  BY <1>1, OverIs DEF ModelOK
<1>3. Newer(d) \in [Paths -> Values]  BY <1>2, NewerIs
<1>4. Larger(memVer, v) \in 0 .. MaxVer  BY DEF Larger, ModelOK
<1> QED  BY <1>1, <1>2, <1>3, <1>4 DEF AddData

\* Only what is registered is confirmed.
LEMMA ConfirmKeeps ==
  ASSUME ModelOK, NEW a \in Askings, AskedOK(a), Confirm(a)
  PROVE  acked' \subseteq Subs
<1>1. \A t \in DOMAIN a : stamp[t] = a[t] => t \in Subs  BY DEF AskedOK
<1> QED  BY <1>1 DEF Confirm, ModelOK

\* A step that keeps the requests begun and asked for keeps what the store has.
LEMMA StoreKeeps ==
  ASSUME StoreOK, RequestsAsked, UNCHANGED <<db, ver, reg, patterns, ops, stamp>>,
         \A x \in requests' : x \in requests \/ (x \in Requests /\ Begun(x) /\ RequestAsked(x))
  PROVE  StoreOK' /\ RequestsAsked'
<1>1. requests' \subseteq Requests /\ \A x \in requests' : Begun(x)  BY DEF StoreOK
<1>2. StoreOK'  BY <1>1 DEF StoreOK
<1>3. \A a \in Askings : AskedOK(a) => AskedOK(a)'  BY NothingAsked
<1>4. \A x \in requests' : x \in requests \/ RequestAsked(x)'
  <2> SUFFICES ASSUME NEW x \in requests', x \notin requests PROVE RequestAsked(x)'
    OBVIOUS
  <2>1. x \in Requests /\ RequestAsked(x)  OBVIOUS
  <2>2. x.asked \in Askings  BY <2>1 DEF Requests
  <2> QED  BY <1>3, <2>1, <2>2 DEF RequestAsked
<1> QED  BY <1>2, <1>3, <1>4, RequestsStay

\* The guards let a request pass.
LEMMA GuardedStep ==
  ASSUME SubInv, NEW r \in requests, Guarded(r)
  PROVE  SubInv'
<1>1. StoreOK /\ IndexesOK /\ NetOK /\ AskedIsRegistered  BY DEF SubInv
<1>2. r \in Requests /\ Begun(r) /\ RequestAsked(r)
  BY <1>1 DEF StoreOK, AskedIsRegistered, RequestsAsked
<1>3. /\ Enter(Me, DOMAIN r.asked)
      /\ UNCHANGED <<db, ver, up, conns, sockVer, buffering, buffer, c2s, s2c, onServer, reg,
                     patterns, data, memVer, ops, stamp, acked, seen, shipped>>
  BY DEF Guarded, netVars, modelVars, history
<1>4. IndexesOK'
  <2>1. r.asked \in Askings  BY <1>2 DEF Requests
  <2>2. DOMAIN r.asked \in FiniteTargets  BY <2>1, AskingsAre
  <2> QED  BY <1>1, <1>3, <2>2, EnterKeeps, Kinds
<1>5. PICK done : done = [r EXCEPT !.stage = "fetch"]  OBVIOUS
<1>6. requests' = (requests \ {r}) \cup IF r.live THEN {done} ELSE {}
  BY <1>5 DEF Guarded
<1>7. r.live => done \in Requests /\ Begun(done) /\ RequestAsked(done)
  <2>1. /\ done.asked = r.asked /\ done.live = r.live /\ done.left = r.left
        /\ done.stage = "fetch" /\ done \in Requests
    BY <1>2, <1>5 DEF Requests
  <2> QED  BY <1>2, <2>1 DEF Begun, RequestAsked
<1>8. StoreOK' /\ RequestsAsked'
  <2>1. \A x \in requests' :
          x \in requests \/ (x \in Requests /\ Begun(x) /\ RequestAsked(x))
    BY <1>6, <1>7
  <2> QED  BY <1>1, <1>3, <2>1, StoreKeeps DEF AskedIsRegistered
<1>9. \A a \in Askings : AskedOK(a) => AskedOK(a)'  BY <1>3, NothingAsked
<1>10. NetOK' /\ CallsAsked' /\ AnswersAsked' /\ SentOnce'
  <2>1. NetOK' /\ SentOnce'  BY <1>1, <1>3 DEF NetOK, SubInv, SentOnce
  <2>2. c2s \in Seq(C2SMessages) /\ s2c \in Seq(S2CMessages)  BY <1>1 DEF NetOK
  <2>3. Among(c2s', c2s, {}) /\ Among(s2c', s2c, {})  BY <1>3, <2>2, AmongOld
  <2>4. CallsAsked'  BY <1>1, <1>9, <2>3, CallsStay DEF AskedIsRegistered
  <2>5. AnswersAsked'  BY <1>1, <1>9, <2>3, AnswersStay DEF AskedIsRegistered
  <2> QED  BY <2>1, <2>4, <2>5
<1>11. ModelOK' /\ RegistryOK' /\ ShippedOK'  BY <1>3, ModelStays
<1> QED  BY <1>4, <1>8, <1>10, <1>11 DEF SubInv, AskedIsRegistered

\* What the store answers is the last on the socket.
LEMMA AnswerKeeps ==
  ASSUME NetOK, CallsAsked, AnswersAsked, SentOnce,
         NEW m \in S2CMessages, m.type # "txn", AnswerAsked(m),
         s2c' = Append(s2c, m) \/ s2c' = s2c,
         UNCHANGED <<up, conns, sockVer, buffering, buffer, c2s, onServer>>,
         UNCHANGED <<reg, patterns, ops, stamp>>
  PROVE  NetOK' /\ CallsAsked' /\ AnswersAsked' /\ SentOnce'
<1>1. c2s \in Seq(C2SMessages) /\ s2c \in Seq(S2CMessages)  BY DEF NetOK
<1>2. \A a \in Askings : AskedOK(a) => AskedOK(a)'  BY NothingAsked
<1>3. s2c' \in Seq(S2CMessages) /\ Among(s2c', s2c, {m})
  <2>1. CASE s2c' = Append(s2c, m)  BY <1>1, <2>1, AmongOld, MoreIs
  <2>2. CASE s2c' = s2c  BY <1>1, <2>2, AmongOld
  <2> QED  BY <2>1, <2>2
<1>4. NetOK'  BY <1>3 DEF NetOK
<1>5. CallsAsked'
  <2>1. Among(c2s', c2s, {})  BY <1>1, AmongOld
  <2> QED  BY <1>2, <2>1, CallsStay
<1>6. AnswersAsked'
  <2>1. \A x \in {m} : AnswerAsked(x)'
    <3>1. m \in Answers => m.asked \in Askings  BY DEF Answers
    <3> QED  BY <1>2, <3>1 DEF AnswerAsked
  <2> QED  BY <1>2, <1>3, <2>1, AnswersStay
<1>7. SentOnce'
  <2>1. CASE s2c' = Append(s2c, m)  BY <1>1, <2>1, SentMore
  <2>2. CASE s2c' = s2c  BY <2>2 DEF SentOnce
  <2> QED  BY <2>1, <2>2
<1> QED  BY <1>4, <1>5, <1>6, <1>7

\* A guard refuses a request.
LEMMA RefuseStep ==
  ASSUME SubInv, NEW r \in requests, Refuse(r)
  PROVE  SubInv'
<1>1. StoreOK /\ IndexesOK /\ NetOK /\ AskedIsRegistered  BY DEF SubInv
<1>2. /\ requests' = requests \ {r}
      /\ UNCHANGED <<db, ver, fwd, rev, hub, threw, up, conns, sockVer, buffering, buffer, c2s>>
      /\ UNCHANGED <<onServer, reg, patterns, data, memVer, ops, stamp, acked, seen, shipped>>
  BY DEF Refuse, modelVars, history
<1>3. StoreOK' /\ RequestsAsked'  BY <1>1, <1>2, StoreKeeps DEF AskedIsRegistered
<1>4. PICK m : m = [type |-> "fatalErr"]  OBVIOUS
<1>5. m \in S2CMessages /\ m.type # "txn"  BY <1>4 DEF S2CMessages
<1>6. AnswerAsked(m)  BY <1>4, <1>5, MessageKinds DEF AnswerAsked
<1>7. s2c' = Append(s2c, m) \/ s2c' = s2c  BY <1>4 DEF Refuse
<1>8. NetOK' /\ CallsAsked' /\ AnswersAsked' /\ SentOnce'
  BY <1>1, <1>2, <1>5, <1>6, <1>7, AnswerKeeps DEF SubInv, AskedIsRegistered
<1>9. IndexesOK'  BY <1>1, <1>2 DEF IndexesOK
<1>10. ModelOK' /\ RegistryOK' /\ ShippedOK'  BY <1>2, ModelStays
<1> QED  BY <1>3, <1>8, <1>9, <1>10 DEF SubInv, AskedIsRegistered

\* One target of a request is read, and with the last one the answer goes out.
LEMMA ReadStep ==
  ASSUME SubInv, NEW r \in requests, NEW t \in r.left, Read(r, t)
  PROVE  SubInv'
<1>1. StoreOK /\ IndexesOK /\ NetOK /\ AskedIsRegistered /\ ModelOK  BY DEF SubInv
<1>2. r \in Requests /\ Begun(r) /\ RequestAsked(r) /\ r.stage = "fetch"
  BY <1>1 DEF StoreOK, AskedIsRegistered, RequestsAsked, Read
<1>3. /\ r.asked \in Askings /\ r.live /\ AskedOK(r.asked) /\ r.got \in Gots
      /\ r.ver \in 0 .. MaxVer /\ r.left \in SUBSET Targets
      /\ r.type \in {"subscribe", "fetch", "subs"}
  BY <1>2 DEF Requests, Begun, RequestAsked
<1>4. /\ UNCHANGED <<db, ver, fwd, rev, hub, threw, up, conns, sockVer, buffering, buffer, c2s>>
      /\ UNCHANGED <<onServer, reg, patterns, ops, stamp, lossy, shipped>>
  BY DEF Read
<1> DEFINE got == Over([p \in Covers[t] |-> db[p]], r.got)
           v == IF Covers[t] = {} THEN r.ver ELSE ver
<1>5. got \in Gots /\ v \in 0 .. MaxVer
  <2>1. Covers[t] \in SUBSET Paths /\ ver \in 0 .. MaxVer /\ db \in [Paths -> 0 .. MaxVer]
    BY <1>1, <1>3, Kinds DEF StoreOK
  <2>2. PICK f : f = [p \in Covers[t] |-> db[p]]  OBVIOUS
  <2>3. DOMAIN f \subseteq Paths /\ f = [p \in DOMAIN f |-> f[p]]  BY <2>1, <2>2
  <2>4. \A p \in DOMAIN f : f[p] \in Values  BY <2>1, <2>2, Kinds
  <2>5. f \in Gots  BY <2>3, <2>4, GotsAre
  <2>6. got = Over(f, r.got)  BY <2>2
  <2>7. v \in 0 .. MaxVer  BY <1>3, <2>1
  <2> HIDE DEF got, v
  <2> QED  BY <1>3, <2>5, <2>6, <2>7, OverIs
<1>6. PICK done : done = HasRead(r, t)  OBVIOUS
<1>7. IF done.left # {}
      THEN /\ requests' = (requests \ {r}) \cup {done}
           /\ UNCHANGED <<s2c, data, memVer, seen, acked>>
      ELSE /\ requests' = requests \ {r}
           /\ s2c' = IF onServer THEN s2c
                     ELSE Append(s2c,
                            [type |-> IF r.type = "subs" THEN "replace" ELSE r.type,
                             asked |-> r.asked, got |-> done.got, ver |-> done.ver])
           /\ IF onServer
              THEN /\ AddData(done.got, done.ver)
                   /\ IF r.type = "fetch" THEN UNCHANGED acked ELSE Confirm(r.asked)
              ELSE UNCHANGED <<data, memVer, seen, acked>>
  BY <1>6 DEF Read
<1>8. done = [r EXCEPT !.left = r.left \ {t}, !.got = got, !.ver = v]  BY <1>6 DEF HasRead
<1> HIDE DEF got, v
<1>9. /\ done \in Requests /\ done.left = r.left \ {t} /\ done.got = got /\ done.ver = v
      /\ done.asked = r.asked /\ done.live = r.live /\ done.stage = r.stage
  BY <1>2, <1>3, <1>5, <1>8 DEF Requests
<1>10. StoreOK' /\ RequestsAsked'
  <2>1. done.left # {} => Begun(done) /\ RequestAsked(done)
    BY <1>2, <1>9 DEF Begun, RequestAsked
  <2>2. \A x \in requests' :
          x \in requests \/ (x \in Requests /\ Begun(x) /\ RequestAsked(x))
    BY <1>7, <1>9, <2>1
  <2> QED  BY <1>1, <1>4, <2>2, StoreKeeps DEF AskedIsRegistered
<1>11. PICK m : m = [type |-> IF r.type = "subs" THEN "replace" ELSE r.type,
                     asked |-> r.asked, got |-> done.got, ver |-> done.ver]
  OBVIOUS
<1>12. m \in Answers /\ m \in S2CMessages /\ m.type # "txn" /\ m.asked = r.asked
  <2>1. PICK type \in {"subscribe", "fetch", "replace"} :
          type = IF r.type = "subs" THEN "replace" ELSE r.type
    BY <1>3
  <2>2. m = [type |-> type, asked |-> r.asked, got |-> got, ver |-> v]  BY <1>9, <1>11, <2>1
  <2> QED  BY <1>3, <1>5, <2>2 DEF Answers, S2CMessages
<1>13. NetOK' /\ CallsAsked' /\ AnswersAsked' /\ SentOnce'
  <2>1. AnswerAsked(m)  BY <1>3, <1>12 DEF AnswerAsked
  <2>2. s2c' = Append(s2c, m) \/ s2c' = s2c  BY <1>7, <1>11
  <2> QED  BY <1>1, <1>4, <1>12, <2>1, <2>2, AnswerKeeps DEF SubInv, AskedIsRegistered
<1>14. IndexesOK'  BY <1>1, <1>4 DEF IndexesOK
<1>15. ModelOK'
  <2>1. Subs' = Subs  BY <1>4, NothingAsked
  <2>2. CASE done.left # {} \/ ~onServer
    <3>1. UNCHANGED <<data, memVer, seen, acked>>  BY <1>7, <2>2
    <3> QED  BY <1>1, <1>4, <2>1, <3>1 DEF ModelOK
  <2>3. CASE done.left = {} /\ onServer
    <3>1. AddData(done.got, done.ver)  BY <1>7, <2>3
    <3>2. /\ data' \in [Paths -> Values] /\ memVer' \in 0 .. MaxVer
          /\ seen' \in [Paths -> Values]
      BY <1>1, <1>5, <1>9, <3>1, AddDataKeeps
    <3>3. UNCHANGED acked \/ Confirm(r.asked)  BY <1>7, <2>3
    <3>4. acked' \subseteq Subs  BY <1>1, <1>3, <3>3, ConfirmKeeps DEF ModelOK
    <3> QED  BY <1>1, <1>4, <2>1, <3>2, <3>4 DEF ModelOK
  <2> QED  BY <2>2, <2>3
<1>16. RegistryOK' /\ ShippedOK'  BY <1>4 DEF SubInv, RegistryOK, ShippedOK
<1> QED  BY <1>10, <1>13, <1>14, <1>15, <1>16 DEF SubInv, AskedIsRegistered

\* Somebody writes: the socket has not seen the version before.
LEMMA WriteStep ==
  ASSUME SubInv, NEW p \in Paths, Write(p)
  PROVE  SubInv'
<1>1. StoreOK /\ IndexesOK /\ NetOK /\ AskedIsRegistered /\ ModelOK  BY DEF SubInv
<1>2. PICK n : n = Cardinality({t \in Targets : Me \in fwd[t] /\ p \in Covers[t]})  OBVIOUS
<1>3. PICK txn : txn = [type |-> "txn", path |-> p, ver |-> ver + 1]  OBVIOUS
<1>4. /\ ver < MaxVer /\ ver' = ver + 1 /\ db' = [db EXCEPT ![p] = ver + 1]
      /\ IF onServer /\ n > 0 THEN AddData([x \in {p} |-> ver + 1], ver + 1)
         ELSE UNCHANGED <<data, memVer, seen>>
      /\ s2c' = IF up THEN s2c \o Sends(txn, n) ELSE s2c
      /\ sockVer' = IF up /\ n > 0 THEN Larger(sockVer, ver + 1) ELSE sockVer
      /\ buffer' = IF buffering THEN buffer \o [k \in 1 .. n |-> txn] ELSE buffer
      /\ UNCHANGED <<fwd, rev, hub, requests, threw, up, conns, buffering, c2s, onServer>>
      /\ UNCHANGED <<reg, patterns, ops, stamp, acked, lossy, shipped>>
  BY <1>2, <1>3 DEF Write
<1>5. n \in Nat
  <2> DEFINE T == {t \in Targets : Me \in fwd[t] /\ p \in Covers[t]}
  <2>1. rev[Me] \in FiniteTargets /\ T \subseteq rev[Me]  BY <1>1, Kinds DEF IndexesOK
  <2>2. IsFiniteSet(T)
    <3> HIDE DEF T
    <3> QED  BY <2>1, FS_Subset DEF FiniteTargets
  <2>3. Cardinality(T) \in Nat
    <3> HIDE DEF T
    <3> QED  BY <2>2, FS_CardinalityType
  <2> QED  BY <1>2, <2>3
<1>6. /\ ver \in Nat /\ MaxVer \in Nat /\ ver + 1 \in 1 .. MaxVer /\ ver + 1 \in 0 .. MaxVer
      /\ ver + 1 \in Values
  <2>1. ver \in 0 .. MaxVer /\ MaxVer \in Nat  BY <1>1, Kinds DEF StoreOK
  <2>2. ver + 1 \in 0 .. MaxVer  BY <1>4, <2>1
  <2> QED  BY <2>1, <2>2, Kinds
<1>7. txn \in Txns /\ txn \in S2CMessages /\ txn.type = "txn" /\ txn.ver = ver + 1
  BY <1>3, <1>6 DEF Txns, S2CMessages
<1>8. StoreOK'
  <2>1. db' \in [Paths -> 0 .. MaxVer] /\ ver' \in 0 .. MaxVer  BY <1>1, <1>4, <1>6 DEF StoreOK
  <2> QED  BY <1>1, <1>4, <2>1 DEF StoreOK
<1>9. IndexesOK'  BY <1>1, <1>4 DEF IndexesOK
<1>10. s2c \in Seq(S2CMessages) /\ c2s \in Seq(C2SMessages) /\ sockVer \in 0 .. MaxVer
  BY <1>1 DEF NetOK
<1>11. \/ /\ s2c' = Append(s2c, txn) /\ sockVer' = ver + 1 /\ sockVer < ver + 1
       \/ s2c' = s2c /\ sockVer' \in 0 .. MaxVer /\ sockVer <= sockVer'
  <2>1. CASE up /\ n > 0 /\ ver + 1 > sockVer
    <3>1. Sends(txn, n) = <<txn>>  BY <1>7, <2>1 DEF Sends
    <3>2. s2c \o <<txn>> = Append(s2c, txn)  BY <1>7, <1>10
    <3>3. sockVer' = ver + 1  BY <1>4, <1>6, <1>10, <2>1 DEF Larger
    <3> QED  BY <1>4, <1>6, <1>10, <2>1, <3>1, <3>2, <3>3
  <2>2. CASE ~ (up /\ n > 0 /\ ver + 1 > sockVer)
    <3>1. up => Sends(txn, n) = << >>  BY <1>7, <2>2 DEF Sends
    <3>2. s2c' = s2c  BY <1>4, <1>10, <3>1
    <3>3. sockVer' = sockVer  BY <1>4, <1>6, <1>10, <2>2 DEF Larger
    <3> QED  BY <1>10, <3>2, <3>3
  <2> QED  BY <2>1, <2>2
<1>12. s2c' \in Seq(S2CMessages) /\ Among(s2c', s2c, {txn}) /\ sockVer' \in 0 .. MaxVer
  <2>1. CASE s2c' = Append(s2c, txn) /\ sockVer' = ver + 1
    BY <1>6, <1>7, <1>10, <2>1, AmongOld, MoreIs
  <2>2. CASE s2c' = s2c /\ sockVer' \in 0 .. MaxVer  BY <1>10, <2>2, AmongOld
  <2> QED  BY <1>11, <2>1, <2>2
<1>13. SentOnce'
  <2>1. CASE s2c' = Append(s2c, txn) /\ sockVer' = ver + 1 /\ sockVer < ver + 1
    <3>1. IsMore(s2c', s2c, txn)  BY <1>7, <1>10, <2>1, MoreIs
    <3>2. /\ Len(s2c) \in Nat /\ DOMAIN s2c = 1 .. Len(s2c)
          /\ DOMAIN s2c' = 1 .. Len(s2c) + 1
      BY <1>10, <1>12, <3>1 DEF IsMore
    <3>3. \A k \in 1 .. Len(s2c) : s2c'[k] = s2c[k]  BY <3>1 DEF IsMore
    <3>4. s2c'[Len(s2c) + 1] = txn  BY <3>1 DEF IsMore
    <3>5. \A k \in 1 .. Len(s2c) : s2c[k].type = "txn" =>
            /\ s2c[k].ver \in Nat /\ s2c[k].ver <= sockVer
            /\ \A j \in 1 .. k - 1 : s2c[j].type = "txn" => s2c[j].ver < s2c[k].ver
      <4>1. \A k \in 1 .. Len(s2c) : s2c[k] \in S2CMessages  BY <1>10
      <4>2. \A k \in 1 .. Len(s2c) : s2c[k].type = "txn" => s2c[k].ver \in 1 .. MaxVer
        BY <4>1, MessageKinds
      <4>3. SentOnce  BY DEF SubInv
      <4> QED  BY <1>6, <3>2, <4>2, <4>3 DEF SentOnce
    <3> SUFFICES ASSUME NEW k \in DOMAIN s2c', s2c'[k].type = "txn"
                 PROVE  /\ s2c'[k].ver <= sockVer'
                        /\ \A j \in 1 .. k - 1 :
                             s2c'[j].type = "txn" => s2c'[j].ver < s2c'[k].ver
      BY DEF SentOnce
    <3>6. CASE k \in 1 .. Len(s2c)
      <4>1. \A j \in 1 .. k - 1 : j \in 1 .. Len(s2c) /\ s2c'[j] = s2c[j]
        BY <3>2, <3>3, <3>6
      <4>2. s2c[k].ver \in Nat /\ s2c[k].ver <= sockVer  BY <3>3, <3>5, <3>6
      <4>3. s2c[k].ver <= sockVer'  BY <1>6, <1>10, <2>1, <4>2
      <4> QED  BY <3>3, <3>5, <3>6, <4>1, <4>3
    <3>7. CASE k = Len(s2c) + 1
      <4>1. s2c'[k].ver = ver + 1  BY <1>7, <3>4, <3>7
      <4>2. ASSUME NEW j \in 1 .. k - 1, s2c'[j].type = "txn" PROVE s2c'[j].ver < ver + 1
        <5>1. j \in 1 .. Len(s2c) /\ s2c'[j] = s2c[j]  BY <3>2, <3>3, <3>7
        <5>2. s2c[j].ver \in Nat /\ s2c[j].ver <= sockVer  BY <3>5, <4>2, <5>1
        <5> QED  BY <1>6, <1>10, <2>1, <5>1, <5>2
      <4> QED  BY <1>6, <2>1, <4>1, <4>2
    <3> QED  BY <3>2, <3>6, <3>7
  <2>2. CASE s2c' = s2c /\ sockVer' \in 0 .. MaxVer /\ sockVer <= sockVer'
    <3>1. SentOnce  BY DEF SubInv
    <3>2. \A k \in DOMAIN s2c : s2c[k].type = "txn" => s2c[k].ver \in 1 .. MaxVer
      <4>1. \A k \in DOMAIN s2c : s2c[k] \in S2CMessages  BY <1>10
      <4> QED  BY <4>1, MessageKinds
    <3>3. \A k \in DOMAIN s2c : s2c[k].type = "txn" => s2c[k].ver <= sockVer'
      <4> TAKE k \in DOMAIN s2c
      <4> HAVE s2c[k].type = "txn"
      <4>1. s2c[k].ver <= sockVer /\ s2c[k].ver \in 1 .. MaxVer  BY <3>1, <3>2 DEF SentOnce
      <4> QED  BY <1>6, <1>10, <2>2, <4>1
    <3> QED  BY <2>2, <3>1, <3>3 DEF SentOnce
  <2> QED  BY <1>11, <2>1, <2>2
<1>14. NetOK'
  <2>1. buffer' \in Seq(Txns) /\ (buffer' # << >> => buffering)
    <3>1. buffer \in Seq(Txns) /\ (buffer # << >> => buffering)  BY <1>1 DEF NetOK
    <3>2. PICK more : more = [k \in 1 .. n |-> txn]  OBVIOUS
    <3>3. more \in Seq(Txns)  BY <1>5, <1>7, <3>2
    <3>4. buffer \o more \in Seq(Txns)  BY <3>1, <3>3
    <3> QED  BY <1>4, <3>1, <3>2, <3>4
  <2> QED  BY <1>1, <1>4, <1>12, <2>1 DEF NetOK
<1>15. AskedIsRegistered'
  <2>1. \A a \in Askings : AskedOK(a) => AskedOK(a)'  BY <1>4, NothingAsked
  <2>2. RequestsAsked'  BY <1>1, <1>4, <2>1, RequestsStay DEF AskedIsRegistered
  <2>3. Among(c2s', c2s, {})  BY <1>4, <1>10, AmongOld
  <2>4. CallsAsked'  BY <1>1, <2>1, <2>3, CallsStay DEF AskedIsRegistered
  <2>5. \A m \in {txn} : AnswerAsked(m)'  BY <1>7, MessageKinds DEF AnswerAsked
  <2>6. AnswersAsked'  BY <1>1, <1>12, <2>1, <2>5, AnswersStay DEF AskedIsRegistered
  <2> QED  BY <2>2, <2>4, <2>6 DEF AskedIsRegistered
<1>16. ModelOK'
  <2>1. Subs' = Subs  BY <1>4, NothingAsked
  <2>2. CASE onServer /\ n > 0
    <3>1. PICK f : f = [x \in {p} |-> ver + 1]  OBVIOUS
    <3>2. DOMAIN f \subseteq Paths /\ f = [x \in DOMAIN f |-> f[x]]  BY <3>1
    <3>3. \A x \in DOMAIN f : f[x] \in Values  BY <1>6, <3>1
    <3>4. f \in Gots  BY <3>2, <3>3, GotsAre
    <3>5. AddData(f, ver + 1)  BY <1>4, <2>2, <3>1
    <3>6. /\ data' \in [Paths -> Values] /\ memVer' \in 0 .. MaxVer
          /\ seen' \in [Paths -> Values]
      BY <1>1, <1>6, <3>4, <3>5, AddDataKeeps
    <3> QED  BY <1>1, <1>4, <2>1, <3>6 DEF ModelOK
  <2>3. CASE ~ (onServer /\ n > 0)
    <3>1. UNCHANGED <<data, memVer, seen>>  BY <1>4, <2>3
    <3> QED  BY <1>1, <1>4, <2>1, <3>1 DEF ModelOK
  <2> QED  BY <2>2, <2>3
<1>17. RegistryOK' /\ ShippedOK'  BY <1>4 DEF SubInv, RegistryOK, ShippedOK
<1> QED  BY <1>8, <1>9, <1>13, <1>14, <1>15, <1>16, <1>17 DEF SubInv

\* Others come and go in the indexes only.
LEMMA OtherStep ==
  ASSUME SubInv, NEW o \in Others, NEW t \in OtherTargets,
         OtherSubscribe(o, t) \/ OtherUnsubscribe(o, t)
  PROVE  SubInv'
<1>1. /\ UNCHANGED <<db, ver, requests, up, conns, sockVer, buffering, buffer, c2s, s2c>>
      /\ UNCHANGED <<onServer, reg, patterns, data, memVer, ops, stamp, acked, seen, shipped>>
  BY DEF OtherSubscribe, OtherUnsubscribe, netVars, modelVars, history
<1>2. o \in Subscribers /\ t \in Patterns /\ t \in Targets  BY Kinds
<1>3. IndexesOK'
  <2>1. IndexesOK  BY DEF SubInv
  <2>2. CASE OtherSubscribe(o, t)
    <3>1. Enter(o, {t})  BY <2>2 DEF OtherSubscribe
    <3>2. {t} \in FiniteTargets  BY <1>2, FiniteTargetsAre
    <3> QED  BY <1>2, <2>1, <3>1, <3>2, EnterKeeps
  <2>3. CASE OtherUnsubscribe(o, t)
    <3>1. Leave(o, t)  BY <2>3 DEF OtherUnsubscribe
    <3> QED  BY <1>2, <2>1, <3>1, LeaveKeeps
  <2> QED  BY <2>2, <2>3
<1>4. StoreOK' /\ NetOK' /\ SentOnce'  BY <1>1 DEF SubInv, StoreOK, NetOK, SentOnce
<1>5. AskedIsRegistered'
  <2>1. Subs' = Subs  BY <1>1, NothingAsked
  <2> QED
    BY <1>1, <2>1 DEF SubInv, AskedIsRegistered, RequestsAsked, CallsAsked, AnswersAsked,
                      RequestAsked, MessageAsked, AnswerAsked, AskedOK
<1>6. ModelOK' /\ RegistryOK' /\ ShippedOK'  BY <1>1, ModelStays
<1> QED  BY <1>3, <1>4, <1>5, <1>6 DEF SubInv

\* Who asked has gone: nobody waits for what was asked.
LEMMA AbandonedAre ==
  ASSUME StoreOK
  PROVE  \A x \in Abandoned : x \in Requests /\ Begun(x) /\ ~x.live
<1> SUFFICES ASSUME NEW r \in requests, r.stage = "guard"
             PROVE  HasGone(r) \in Requests /\ Begun(HasGone(r)) /\ ~HasGone(r).live
  BY DEF Abandoned
<1>1. PICK a : a = [t \in DOMAIN r.asked |-> 0]  OBVIOUS
<1>2. PICK x : x = HasGone(r)  OBVIOUS
<1>3. r \in Requests /\ Begun(r)  BY DEF StoreOK
<1>4. r.asked \in Askings  BY <1>3 DEF Requests
<1>5. DOMAIN r.asked \in FiniteTargets /\ 0 \in Nat  BY <1>4, AskingsAre
<1>6. a \in Askings /\ DOMAIN a = DOMAIN r.asked  BY <1>1, <1>5, AskingOf
<1>7. x = [r EXCEPT !.live = FALSE, !.asked = a]  BY <1>1, <1>2 DEF HasGone
<1>8. x \in Requests /\ ~x.live /\ x.asked = a /\ x.left = r.left /\ x.stage = "guard"
  BY <1>3, <1>6, <1>7 DEF Requests
<1>9. Begun(x)  BY <1>3, <1>6, <1>8 DEF Begun
<1> QED  BY <1>2, <1>8, <1>9

\* The model goes to the browser, with its registry.
LEMMA BundleStep ==
  ASSUME SubInv, Bundle
  PROVE  SubInv'
<1>1. StoreOK /\ IndexesOK /\ NetOK /\ AskedIsRegistered /\ ModelOK /\ RegistryOK
  BY DEF SubInv
<1>2. /\ onServer /\ onServer' = FALSE /\ reg' = LoadOf(BundleOf(reg))
      /\ shipped' = IdsIn(reg) /\ buffering' = TRUE /\ requests' = Abandoned
      /\ UNCHANGED <<db, ver, fwd, rev, hub, threw, up, conns, sockVer, buffer, c2s, s2c>>
      /\ UNCHANGED <<patterns, data, memVer, ops, stamp, acked, seen, lossy>>
  BY DEF Bundle
<1>3. Same(reg, reg')  BY <1>1, <1>2, BundleLoads DEF RegistryOK
<1>4. RegistryOK'  BY <1>3 DEF Same, RegistryOK
<1>5. Subs \subseteq Subs'
  <2>1. LookupWithTag(reg, "subs") \subseteq LookupWithTag(reg', "subs")
    BY <1>1, <1>3, LookupGrows DEF RegistryOK, Same
  <2> QED  BY <1>2, <2>1 DEF Subs
<1>6. ModelOK'
  <2>1. acked' \subseteq Subs'  BY <1>1, <1>2, <1>5 DEF ModelOK
  <2> QED  BY <1>1, <1>2, <2>1 DEF ModelOK
<1>7. \A a \in Askings : AskedOK(a) => AskedOK(a)'  BY <1>2, <1>5 DEF AskedOK
<1>8. StoreOK' /\ RequestsAsked'
  <2>1. \A x \in requests' : x \in Requests /\ Begun(x) /\ ~x.live
    BY <1>1, <1>2, AbandonedAre
  <2>2. \A x \in requests' : RequestAsked(x)'  BY <2>1 DEF RequestAsked
  <2>3. RequestsAsked'  BY <2>2 DEF RequestsAsked
  <2> QED  BY <1>1, <1>2, <2>1, <2>3 DEF StoreOK
<1>9. CallsAsked' /\ AnswersAsked'
  <2>1. c2s \in Seq(C2SMessages) /\ s2c \in Seq(S2CMessages)  BY <1>1 DEF NetOK
  <2>2. Among(c2s', c2s, {}) /\ Among(s2c', s2c, {})  BY <1>2, <2>1, AmongOld
  <2>3. CallsAsked'  BY <1>1, <1>7, <2>2, CallsStay DEF AskedIsRegistered
  <2>4. AnswersAsked'  BY <1>1, <1>7, <2>2, AnswersStay DEF AskedIsRegistered
  <2> QED  BY <2>3, <2>4
<1>10. NetOK' /\ IndexesOK' /\ SentOnce'
  <2>1. SentOnce'  BY <1>2 DEF SubInv, SentOnce
  <2> QED  BY <1>1, <1>2, <2>1 DEF NetOK, IndexesOK
<1>11. ShippedOK'
  <2> DEFINE registered == {reg.queries[id] : id \in DOMAIN reg.queries}
  <2>1. shipped' = [q \in registered |-> QueryId(reg, q)]  BY <1>2 DEF IdsIn
  <2> SUFFICES ASSUME NEW q \in DOMAIN shipped'
               PROVE  shipped'[q] \in DOMAIN reg'.queries /\ reg'.queries[shipped'[q]] = q
    BY DEF ShippedOK
  <2>2. PICK id \in DOMAIN reg.queries : q = reg.queries[id]  BY <2>1
  <2>3. q \in Queries
    <3>1. reg.queries \in IdQueries  BY <1>1 DEF RegistryOK, Registries
    <3> QED  BY <2>2, <3>1, IdQueriesAre
  <2>4. shipped'[q] = id
    <3>1. shipped'[q] = QueryId(reg, q)  BY <2>1
    <3>2. QueryId(reg, q) = id  BY <1>1, <2>2, <2>3, QueryIdIs DEF RegistryOK, RegOK
    <3> QED  BY <3>1, <3>2
  <2> QED  BY <1>3, <2>2, <2>4 DEF Same, Extends
<1> QED  BY <1>4, <1>6, <1>8, <1>9, <1>10, <1>11 DEF SubInv, AskedIsRegistered

\* A socket: its first message.
LEMMA ConnectStep ==
  ASSUME SubInv, Connect
  PROVE  SubInv'
<1>1. StoreOK /\ IndexesOK /\ NetOK /\ AskedIsRegistered  BY DEF SubInv
<1>2. /\ ~onServer /\ ~up /\ conns < MaxConns /\ up' = TRUE /\ conns' = conns + 1
      /\ buffering' = FALSE /\ buffer' = << >>
      /\ UNCHANGED <<db, ver, fwd, rev, hub, requests, threw, sockVer, c2s>>
      /\ UNCHANGED <<onServer, reg, patterns, data, memVer, ops, stamp, acked, seen, shipped>>
  BY DEF Connect, storeVars, modelVars, history
<1>3. PICK m : m = IF buffering THEN [type |-> "newTxns", txns |-> buffer]
                   ELSE [type |-> "resync"]
  OBVIOUS
<1>4. s2c' = <<m>>  BY <1>3 DEF Connect
<1>5. m \in S2CMessages /\ m.type # "txn" /\ m.type \in {"newTxns", "resync"}
  BY <1>1, <1>3 DEF S2CMessages, NetOK
<1>6. /\ s2c' \in Seq(S2CMessages) /\ Len(s2c') = 1 /\ DOMAIN s2c' = {1} /\ s2c'[1] = m
      /\ 1 .. 1 = {1}
  BY <1>4, <1>5
<1>7. NetOK'
  <2>1. conns' \in 0 .. MaxConns  BY <1>1, <1>2, Kinds DEF NetOK
  <2>2. buffer' \in Seq(Txns)  BY <1>2
  <2> QED  BY <1>1, <1>2, <1>6, <2>1, <2>2 DEF NetOK
<1>8. SentOnce'  BY <1>5, <1>6 DEF SentOnce
<1>9. AskedIsRegistered'
  <2>1. \A a \in Askings : AskedOK(a) => AskedOK(a)'  BY <1>2, NothingAsked
  <2>2. RequestsAsked'  BY <1>1, <1>2, <2>1, RequestsStay DEF AskedIsRegistered
  <2>3. c2s \in Seq(C2SMessages)  BY <1>1 DEF NetOK
  <2>4. Among(c2s', c2s, {})  BY <1>2, <2>3, AmongOld
  <2>5. CallsAsked'  BY <1>1, <2>1, <2>4, CallsStay DEF AskedIsRegistered
  <2>6. m \notin Answers  BY <1>5, MessageKinds
  <2>7. AnswersAsked'  BY <1>6, <2>6 DEF AnswersAsked, AnswerAsked
  <2> QED  BY <2>2, <2>5, <2>7 DEF AskedIsRegistered
<1>10. StoreOK' /\ IndexesOK'  BY <1>1, <1>2 DEF StoreOK, IndexesOK
<1>11. ModelOK' /\ RegistryOK' /\ ShippedOK'  BY <1>2, ModelStays
<1> QED  BY <1>7, <1>8, <1>9, <1>10, <1>11 DEF SubInv

\* The connection breaks: nothing is under way.
LEMMA DisconnectStep ==
  ASSUME SubInv, Drop \/ Fatal
  PROVE  SubInv'
<1>1. StoreOK /\ IndexesOK /\ NetOK /\ AskedIsRegistered  BY DEF SubInv
<1>2. /\ up /\ up' = FALSE /\ sockVer' = 0 /\ c2s' = << >> /\ s2c' = << >>
      /\ buffering' = TRUE /\ requests' = Abandoned /\ conns' \in {conns, MaxConns}
      /\ UNCHANGED <<db, ver, fwd, rev, hub, threw, buffer>>
      /\ UNCHANGED <<onServer, reg, patterns, data, memVer, ops, stamp, acked, seen, shipped>>
  BY DEF Drop, Fatal, Disconnected, modelVars
<1>3. Len(c2s') = 0 /\ Len(s2c') = 0 /\ DOMAIN s2c' = {} /\ 1 .. 0 = {}  BY <1>2
<1>4. NetOK'
  <2>1. conns' \in 0 .. MaxConns /\ 0 \in 0 .. MaxVer  BY <1>1, <1>2, Kinds DEF NetOK
  <2>2. ~onServer  BY <1>1, <1>2 DEF NetOK
  <2>3. c2s' \in Seq(C2SMessages) /\ s2c' \in Seq(S2CMessages)  BY <1>2
  <2> QED  BY <1>1, <1>2, <1>3, <2>1, <2>2, <2>3 DEF NetOK
<1>5. SentOnce'  BY <1>3 DEF SentOnce
<1>6. StoreOK' /\ RequestsAsked'
  <2>1. \A x \in requests' : x \in Requests /\ Begun(x) /\ ~x.live
    BY <1>1, <1>2, AbandonedAre
  <2>2. \A x \in requests' : RequestAsked(x)'  BY <2>1 DEF RequestAsked
  <2>3. RequestsAsked'  BY <2>2 DEF RequestsAsked
  <2> QED  BY <1>1, <1>2, <2>1, <2>3 DEF StoreOK
<1>7. CallsAsked' /\ AnswersAsked'  BY <1>3 DEF CallsAsked, AnswersAsked
<1>8. IndexesOK'  BY <1>1, <1>2 DEF IndexesOK
<1>9. ModelOK' /\ RegistryOK' /\ ShippedOK'  BY <1>2, ModelStays
<1> QED  BY <1>4, <1>5, <1>6, <1>7, <1>8, <1>9 DEF SubInv, AskedIsRegistered

\* The store no longer buffers.
LEMMA ExpireStep ==
  ASSUME SubInv, Expire
  PROVE  SubInv'
<1>1. /\ buffering' = FALSE /\ buffer' = << >>
      /\ UNCHANGED <<db, ver, fwd, rev, hub, requests, threw, up, conns, sockVer, c2s, s2c>>
      /\ UNCHANGED <<onServer, reg, patterns, data, memVer, ops, stamp, acked, seen, shipped>>
  BY DEF Expire, storeVars, modelVars
<1>2. NetOK'
  <2>1. NetOK /\ buffer' \in Seq(Txns)  BY <1>1 DEF SubInv
  <2> QED  BY <1>1, <2>1 DEF NetOK
<1>3. StoreOK' /\ IndexesOK' /\ SentOnce'  BY <1>1 DEF SubInv, StoreOK, IndexesOK, SentOnce
<1>4. AskedIsRegistered'
  <2>1. Subs' = Subs  BY <1>1, NothingAsked
  <2> QED
    BY <1>1, <2>1 DEF SubInv, AskedIsRegistered, RequestsAsked, CallsAsked, AnswersAsked,
                      RequestAsked, MessageAsked, AnswerAsked, AskedOK
<1>5. ModelOK' /\ RegistryOK' /\ ShippedOK'  BY <1>1, ModelStays
<1> QED  BY <1>2, <1>3, <1>4, <1>5 DEF SubInv

\* The memory of the model, on its way through a list of transactions.
Memories == [data : [Paths -> Values], ver : 0 .. MaxVer]

\* A list of transactions leaves versions of paths in memory.
LEMMA ApplyTxnsKeeps ==
  ASSUME ModelOK, NEW txns \in Seq(Txns), ApplyTxns(txns)
  PROVE  data' \in [Paths -> Values] /\ memVer' \in 0 .. MaxVer /\ seen' \in [Paths -> Values]
<1>1. ASSUME NEW m \in Memories, NEW txn \in Txns PROVE OnTxn(m, txn) \in Memories
  <2>1. /\ txn.path \in Paths /\ txn.ver \in 0 .. MaxVer /\ txn.ver \in Values
        /\ m.data \in [Paths -> Values]
    BY Kinds DEF Txns, Memories
  <2>2. PICK f : f = [p \in {txn.path} |-> txn.ver]  OBVIOUS
  <2>3. f \in Gots
    <3>1. DOMAIN f \subseteq Paths /\ f = [p \in DOMAIN f |-> f[p]]  BY <2>1, <2>2
    <3>2. \A p \in DOMAIN f : f[p] \in Values  BY <2>1, <2>2
    <3> QED  BY <3>1, <3>2, GotsAre
  <2>4. PICK d : d = Over(f, m.data)  OBVIOUS
  <2>5. d \in [Paths -> Values]  BY <2>1, <2>3, <2>4, OverIs
  <2>6. OnTxn(m, txn) = IF txn.ver > m.ver THEN [data |-> d, ver |-> txn.ver] ELSE m
    BY <2>2, <2>4 DEF OnTxn
  <2> QED  BY <2>1, <2>5, <2>6 DEF Memories
<1>2. PICK start : start = [data |-> data, ver |-> memVer]  OBVIOUS
<1>3. start \in Memories  BY <1>2 DEF Memories, ModelOK
<1>4. Applied(txns) = AppliedFrom(start, txns)  BY <1>2 DEF Applied, AppliedFrom
<1>5. PICK m : m = Applied(txns)  OBVIOUS
<1>6. m \in Memories  BY <1>1, <1>3, <1>4, <1>5, ApplyingStays
<1>7. data' = m.data /\ memVer' = m.ver /\ seen' = Newer(m.data)  BY <1>5 DEF ApplyTxns
<1>8. m.data \in [Paths -> Values] /\ m.ver \in 0 .. MaxVer  BY <1>6 DEF Memories
<1>9. Newer(m.data) \in [Paths -> Values]  BY <1>8, NewerIs
<1> QED  BY <1>7, <1>8, <1>9

\* The model takes one message.
LEMMA ClientReceiveStep ==
  ASSUME SubInv, ClientReceive
  PROVE  SubInv'
<1>1. StoreOK /\ IndexesOK /\ NetOK /\ AskedIsRegistered /\ ModelOK /\ RegistryOK
  BY DEF SubInv
<1>2. PICK m : m = Head(s2c)  OBVIOUS
<1>3. /\ up /\ s2c # << >> /\ s2c' = Tail(s2c) /\ OnMessage(m)
      /\ UNCHANGED <<db, ver, fwd, rev, hub, requests, threw, up, conns, sockVer>>
      /\ UNCHANGED <<buffering, buffer, onServer, reg, patterns, ops, stamp, shipped>>
  BY <1>2 DEF ClientReceive, storeVars
<1>4. s2c \in Seq(S2CMessages) /\ c2s \in Seq(C2SMessages)  BY <1>1 DEF NetOK
<1>5. /\ s2c' \in Seq(S2CMessages) /\ Among(s2c', s2c, {}) /\ m \in S2CMessages
      /\ m = s2c[1] /\ 1 \in 1 .. Len(s2c)
  BY <1>2, <1>3, <1>4, LessIs, AmongOld DEF IsLess
<1>6. AnswerAsked(m)  BY <1>1, <1>5 DEF AskedIsRegistered, AnswersAsked
<1>7. Subs' = Subs /\ \A a \in Askings : AskedOK(a) => AskedOK(a)'  BY <1>3, NothingAsked
<1>8. ASSUME \/ UNCHANGED c2s
             \/ c2s' = Append(c2s, [type |-> "subs", asked |-> [t \in Subs |-> stamp[t]]])
      PROVE  NetOK' /\ CallsAsked'
  <2>1. CASE UNCHANGED c2s
    <3>1. NetOK'  BY <1>1, <1>3, <1>5, <2>1 DEF NetOK
    <3>2. Among(c2s', c2s, {})  BY <1>4, <2>1, AmongOld
    <3>3. CallsAsked'  BY <1>1, <1>7, <3>2, CallsStay DEF AskedIsRegistered
    <3> QED  BY <3>1, <3>3
  <2>2. CASE c2s' = Append(c2s, [type |-> "subs", asked |-> [t \in Subs |-> stamp[t]]])
    <3>1. PICK a : a = [t \in Subs |-> stamp[t]]  OBVIOUS
    <3>2. Subs \in FiniteTargets /\ Subs \subseteq Targets
      BY <1>1, SubsAre DEF FiniteTargets
    <3>3. a \in Askings
      <4>1. DOMAIN a \in FiniteTargets /\ a = [t \in DOMAIN a |-> a[t]]  BY <3>1, <3>2
      <4>2. \A t \in DOMAIN a : a[t] \in Nat  BY <1>1, <3>1, <3>2 DEF ModelOK
      <4> QED  BY <4>1, <4>2, AskingsAre
    <3>4. AskedOK(a)  BY <1>1, <3>1, <3>2 DEF AskedOK, ModelOK
    <3>5. PICK call : call = [type |-> "subs", asked |-> a]  OBVIOUS
    <3>6. call \in C2SMessages /\ Formed(call) /\ call.asked = a
      BY <3>3, <3>5 DEF C2SMessages, Formed
    <3>7. c2s' = IF ~up THEN c2s ELSE Append(c2s, call)  BY <1>3, <2>2, <3>1, <3>5
    <3>8. c2s' \in Seq(C2SMessages) /\ Among(c2s', c2s, {call})
      BY <1>3, <1>4, <3>6, <3>7, AmongOld, MoreIs
    <3>9. NetOK'
      <4>1. \A k \in 1 .. Len(c2s') : Formed(c2s'[k])
        BY <1>1, <3>6, <3>8 DEF Among, NetOK
      <4>2. ~onServer  BY <1>1, <1>3 DEF NetOK
      <4> QED  BY <1>1, <1>3, <1>5, <3>8, <4>1, <4>2 DEF NetOK
    <3>10. CallsAsked'
      <4>1. \A x \in {call} : MessageAsked(x)'
        BY <1>7, <3>3, <3>4, <3>6 DEF MessageAsked
      <4> QED  BY <1>1, <1>7, <3>8, <4>1, CallsStay DEF AskedIsRegistered
    <3> QED  BY <3>9, <3>10
  <2> QED  BY <1>8, <2>1, <2>2
<1>9. NetOK' /\ CallsAsked'
  <2>1. \/ UNCHANGED c2s
        \/ c2s' = Append(c2s, [type |-> "subs", asked |-> [t \in Subs |-> stamp[t]]])
    BY <1>3 DEF OnMessage
  <2> QED  BY <1>8, <2>1
<1>10. ModelOK'
  <2>1. ASSUME data' \in [Paths -> Values], memVer' \in 0 .. MaxVer,
               seen' \in [Paths -> Values], acked' \subseteq Subs
        PROVE  ModelOK'
    BY <1>1, <1>3, <1>7, <2>1 DEF ModelOK
  <2>2. /\ data \in [Paths -> Values] /\ memVer \in 0 .. MaxVer
        /\ seen \in [Paths -> Values] /\ acked \subseteq Subs
    BY <1>1 DEF ModelOK
  <2>3. CASE m.type = "txn" /\ ApplyTxns(<<m>>) /\ UNCHANGED acked
    <3>1. m \in Txns  BY <1>5, <2>3, MessageKinds
    <3>2. <<m>> \in Seq(Txns)  BY <3>1
    <3> QED  BY <1>1, <2>1, <2>2, <2>3, <3>2, ApplyTxnsKeeps
  <2>4. CASE m.type = "newTxns" /\ ApplyTxns(m.txns) /\ UNCHANGED acked
    <3>1. m.txns \in Seq(Txns)  BY <1>5, <2>4, MessageKinds
    <3> QED  BY <1>1, <2>1, <2>2, <2>4, <3>1, ApplyTxnsKeeps
  <2>5. CASE /\ m.type = "txn" /\ seen' = Newer(Over([p \in {m.path} |-> m.ver], data))
             /\ UNCHANGED <<data, memVer, acked>>
    <3>1. m.path \in Paths /\ m.ver \in Values
      <4>1. m.path \in Paths /\ m.ver \in 1 .. MaxVer  BY <1>5, <2>5, MessageKinds
      <4>2. m.ver \in 0 .. MaxVer  BY <4>1, Kinds
      <4> QED  BY <4>1, <4>2, Kinds
    <3>2. PICK f : f = [p \in {m.path} |-> m.ver]  OBVIOUS
    <3>3. DOMAIN f \subseteq Paths /\ f = [p \in DOMAIN f |-> f[p]]  BY <3>1, <3>2
    <3>4. \A p \in DOMAIN f : f[p] \in Values  BY <3>1, <3>2
    <3>5. f \in Gots  BY <3>3, <3>4, GotsAre
    <3>6. PICK d : d = Over(f, data)  OBVIOUS
    <3>7. d \in [Paths -> Values]  BY <2>2, <3>5, <3>6, OverIs
    <3>8. seen' = Newer(d)  BY <2>5, <3>2, <3>6
    <3>9. seen' \in [Paths -> Values]  BY <1>1, <3>7, <3>8, NewerIs
    <3> QED  BY <2>1, <2>2, <2>5, <3>9
  <2>6. CASE /\ m.type \in {"subscribe", "fetch"} /\ AddData(m.got, m.ver)
             /\ UNCHANGED acked \/ Confirm(m.asked)
    <3>1. m \in Answers /\ m.asked \in Askings /\ m.got \in Gots /\ m.ver \in 0 .. MaxVer
      BY <1>5, <2>6, MessageKinds
    <3>2. /\ data' \in [Paths -> Values] /\ memVer' \in 0 .. MaxVer
          /\ seen' \in [Paths -> Values]
      BY <1>1, <2>6, <3>1, AddDataKeeps
    <3>3. AskedOK(m.asked)  BY <1>6, <3>1 DEF AnswerAsked
    <3>4. acked' \subseteq Subs  BY <1>1, <2>2, <2>6, <3>1, <3>3, ConfirmKeeps
    <3> QED  BY <2>1, <3>2, <3>4
  <2>7. CASE m.type = "resync" /\ UNCHANGED <<data, memVer, seen, acked>>
    BY <2>1, <2>2, <2>7
  <2>8. CASE /\ m.type = "replace" /\ data' = Over(m.got, [p \in Paths |-> Unread])
             /\ memVer' = m.ver /\ seen' = Newer(data') /\ Confirm(m.asked)
    <3>1. m \in Answers /\ m.asked \in Askings /\ m.got \in Gots /\ m.ver \in 0 .. MaxVer
      BY <1>5, <2>8, MessageKinds
    <3>2. PICK none : none = [p \in Paths |-> Unread]  OBVIOUS
    <3>3. none \in [Paths -> Values]  BY <3>2, Kinds
    <3>4. PICK d : d = Over(m.got, none)  OBVIOUS
    <3>5. d \in [Paths -> Values]  BY <3>1, <3>3, <3>4, OverIs
    <3>6. data' = d /\ seen' = Newer(d)  BY <2>8, <3>2, <3>4
    <3>7. seen' \in [Paths -> Values]  BY <1>1, <3>5, <3>6, NewerIs
    <3>8. AskedOK(m.asked)  BY <1>6, <3>1 DEF AnswerAsked
    <3>9. acked' \subseteq Subs  BY <1>1, <2>8, <3>1, <3>8, ConfirmKeeps
    <3> QED  BY <2>1, <2>8, <3>1, <3>5, <3>6, <3>7, <3>9
  <2> QED  BY <1>3, <2>3, <2>4, <2>5, <2>6, <2>7, <2>8 DEF OnMessage
<1>11. SentOnce'  BY <1>3, <1>4, SentLess DEF SubInv
<1>12. RequestsAsked' /\ AnswersAsked'
  <2>1. RequestsAsked'  BY <1>1, <1>3, <1>7, RequestsStay DEF AskedIsRegistered
  <2>2. AnswersAsked'  BY <1>1, <1>5, <1>7, AnswersStay DEF AskedIsRegistered
  <2> QED  BY <2>1, <2>2
<1>13. StoreOK' /\ IndexesOK' /\ RegistryOK' /\ ShippedOK'
  BY <1>1, <1>3 DEF SubInv, StoreOK, IndexesOK, RegistryOK, ShippedOK
<1> QED  BY <1>9, <1>10, <1>11, <1>12, <1>13 DEF SubInv, AskedIsRegistered

-----------------------------------------------------------------------------
(* The invariant, and the theorems *)

\* The invariant holds at first, is kept by every step, and so always holds.
LEMMA InitInv == Init => SubInv
<1> SUFFICES ASSUME Init PROVE SubInv  OBVIOUS
<1>1. /\ db = [p \in Paths |-> 0] /\ ver = 0
      /\ fwd = [t \in Targets |-> {}] /\ rev = [s \in Subscribers |-> {}]
      /\ hub = [s \in Subscribers |-> {}] /\ requests = {}
      /\ up = FALSE /\ conns = 0 /\ sockVer = 0
      /\ buffering = FALSE /\ buffer = << >> /\ c2s = << >> /\ s2c = << >>
      /\ onServer = TRUE /\ reg = NewRegistry /\ patterns = {}
      /\ data = [p \in Paths |-> Unread] /\ memVer = 0
      /\ ops = 0 /\ stamp = [t \in Targets |-> 0] /\ acked = {}
      /\ seen = data /\ shipped = << >>
  BY DEF Init
<1>2. StoreOK  BY <1>1, Kinds DEF StoreOK
<1>3. IndexesOK  BY <1>1, FiniteTargetsAre DEF IndexesOK
<1>4. c2s \in Seq(C2SMessages) /\ s2c \in Seq(S2CMessages) /\ buffer \in Seq(Txns)
      /\ Len(c2s) = 0 /\ Len(s2c) = 0 /\ DOMAIN s2c = {} /\ DOMAIN shipped = {} /\ 1 .. 0 = {}
  BY <1>1
<1>5. NetOK
  <2>1. 0 \in 0 .. MaxConns /\ 0 \in 0 .. MaxVer  BY Kinds
  <2> QED  BY <1>1, <1>4, <2>1 DEF NetOK
<1>6. ModelOK  BY <1>1, Kinds, FiniteTargetsAre DEF ModelOK
<1>7. RegistryOK  BY <1>1, NewRegistryOK DEF RegistryOK
<1>8. AskedIsRegistered /\ ShippedOK /\ SentOnce
  BY <1>1, <1>4 DEF AskedIsRegistered, RequestsAsked, CallsAsked, AnswersAsked, ShippedOK,
                    SentOnce
<1> QED  BY <1>2, <1>3, <1>5, <1>6, <1>7, <1>8 DEF SubInv

\* A step that changes nothing.
LEMMA StutterStep ==
  ASSUME SubInv, UNCHANGED vars
  PROVE  SubInv'
<1>1. /\ UNCHANGED <<db, ver, fwd, rev, hub, requests, threw, up, conns, sockVer>>
      /\ UNCHANGED <<buffering, buffer, c2s, s2c, onServer, reg, patterns, data, memVer>>
      /\ UNCHANGED <<ops, stamp, acked, seen, lossy, shipped>>
  BY DEF vars, storeVars, netVars, modelVars, history
<1>2. Subs' = Subs  BY <1>1, NothingAsked
<1>3. StoreOK' /\ IndexesOK' /\ NetOK' /\ SentOnce'
  BY <1>1 DEF SubInv, StoreOK, IndexesOK, NetOK, SentOnce
<1>4. AskedIsRegistered'
  BY <1>1, <1>2 DEF SubInv, AskedIsRegistered, RequestsAsked, CallsAsked, AnswersAsked,
                    RequestAsked, MessageAsked, AnswerAsked, AskedOK
<1>5. ModelOK' /\ RegistryOK' /\ ShippedOK'  BY <1>1, ModelStays
<1> QED  BY <1>3, <1>4, <1>5 DEF SubInv

\* One case for each action.
LEMMA NextInv == SubInv /\ [Next]_vars => SubInv'
<1> SUFFICES ASSUME SubInv, [Next]_vars PROVE SubInv'  OBVIOUS
<1>1. ASSUME NEW ts \in SUBSET Targets, IsFiniteSet(ts),
             Cardinality(ts) \in 1 .. MaxTargets - ops, Subscribe(ts)
      PROVE  SubInv'
  BY <1>1, SubscribeStep
<1>2. ASSUME NEW t \in Targets, Fetch(t) PROVE SubInv'  BY <1>2, FetchStep
<1>3. ASSUME NEW t \in Patterns, Unsubscribe(t) PROVE SubInv'  BY <1>3, UnsubscribeStep
<1>4. CASE UnsubscribeAll  BY <1>4, UnsubscribeAllStep
<1>5. CASE Receive  BY <1>5, ReceiveStep
<1>6. ASSUME NEW r \in requests, Guarded(r) \/ Refuse(r) \/ \E t \in r.left : Read(r, t)
      PROVE  SubInv'
  BY <1>6, GuardedStep, RefuseStep, ReadStep
<1>7. ASSUME NEW p \in Paths, Write(p) PROVE SubInv'  BY <1>7, WriteStep
<1>8. ASSUME NEW o \in Others, NEW t \in OtherTargets,
             OtherSubscribe(o, t) \/ OtherUnsubscribe(o, t)
      PROVE  SubInv'
  BY <1>8, OtherStep
<1>9. CASE Bundle  BY <1>9, BundleStep
<1>10. CASE Connect  BY <1>10, ConnectStep
<1>11. CASE Drop \/ Fatal  BY <1>11, DisconnectStep
<1>12. CASE Expire  BY <1>12, ExpireStep
<1>13. CASE ClientReceive  BY <1>13, ClientReceiveStep
<1>14. CASE UNCHANGED vars  BY <1>14, StutterStep
<1> QED
  BY <1>1, <1>2, <1>3, <1>4, <1>5, <1>6, <1>7, <1>8, <1>9, <1>10, <1>11, <1>12, <1>13, <1>14
  DEF Next

\* SubInv is an invariant of the specification.
LEMMA Invariant == Spec => []SubInv
BY InitInv, NextInv, PTL DEF Spec

\* What the registry's invariant says of its indexes.
LEMMA RegistryIndexed ==
  ASSUME NEW r \in Registries, RegOK(r)
  PROVE  Indexed(r)
<1>1. OnceEach(r) /\ ByNamespace(r) /\ Tagged(r) /\ \A tag \in Tags : TagInOrder(r, tag)
  BY DEF RegOK
<1>2. ASSUME NEW id \in DOMAIN r.queries PROVE QueryId(r, r.queries[id]) = id
  <2>1. r.queries \in IdQueries  BY DEF Registries
  <2>2. r.queries[id] \in Queries  BY <2>1, IdQueriesAre
  <2> QED  BY <1>1, <2>2, QueryIdIs
<1>3. \A s : ToSet(s) = Range(s)  BY DEF ToSet, Range
<1>4. \A ns \in Namespaces :
        ToSet(r.byNs[ns]) = {id \in DOMAIN r.queries : NsOf[r.queries[id]] = ns}
  BY <1>1, <1>3 DEF ByNamespace
<1>5. \A tag \in Tags : ToSet(r.byTag[tag]) \subseteq DOMAIN r.queries
  BY <1>1, <1>3 DEF Tagged
<1> QED  BY <1>1, <1>2, <1>4, <1>5 DEF Indexed

\* In every state the channels' two indexes and the hub's agree, what waits is asked for,
\* a model on the server has no connection, and the registry of the model's queries has
\* each of them once and in its indexes; the model takes for subscribed only what it has
\* registered.
THEOREM SubscriptionsTypeCorrect == Spec => []TypeOK
<1>1. SubInv => TypeOK
  <2> SUFFICES ASSUME SubInv PROVE TypeOK  OBVIOUS
  <2>1. StoreOK /\ IndexesOK /\ NetOK /\ ModelOK /\ RegistryOK  BY DEF SubInv
  <2>2. ASSUME NEW t \in Targets PROVE fwd[t] = {s \in Subscribers : t \in rev[s]}
    <3>1. fwd[t] \in SUBSET Subscribers  BY <2>1 DEF IndexesOK
    <3>2. \A s \in Subscribers : s \in fwd[t] <=> t \in rev[s]  BY <2>1 DEF IndexesOK
    <3> QED  BY <3>1, <3>2
  <2>3. \A s \in Subscribers : hub[s] = rev[s] \cap Queries  BY <2>1 DEF IndexesOK
  <2>4. /\ db \in [Paths -> 0 .. MaxVer] /\ ver \in 0 .. MaxVer
        /\ \A r \in requests : r.left # {} /\ (r.live \/ r.stage = "guard")
    BY <2>1 DEF StoreOK, Begun
  <2>5. /\ up \in BOOLEAN /\ conns \in 0 .. MaxConns
        /\ ~(buffering /\ up) /\ (buffer # << >> => buffering)
        /\ (onServer => conns = 0 /\ ~buffering /\ c2s = << >>)
    BY <2>1 DEF NetOK
  <2>6. data \in [Paths -> Values] /\ memVer \in 0 .. MaxVer /\ acked \subseteq Subs
    BY <2>1 DEF ModelOK
  <2>7. Indexed(reg)  BY <2>1, RegistryIndexed DEF RegistryOK
  <2> QED  BY <2>2, <2>3, <2>4, <2>5, <2>6, <2>7 DEF TypeOK
<1> QED  BY <1>1, Invariant, PTL

\* By however many paths and globs a transaction matches, a socket is sent it once, and
\* the versions on a socket go up.  That is for a transaction that no query matches, or
\* one query and nothing else (CoversAssumption): with two queries, or a query and a
\* path, the code sends it again under a fraction above its version.
THEOREM PatternsSentOnce == Spec => []SentOnce
<1>1. SubInv => SentOnce  BY DEF SubInv
<1> QED  BY <1>1, Invariant, PTL

\* A query that was bundled has in the browser the id that it had on the server, from the
\* load of the bundle on, whatever is registered before and after.
THEOREM IdsKept == Spec => []IdsSurviveBundle
<1>1. SubInv => IdsSurviveBundle
  <2> SUFFICES ASSUME SubInv, NEW q \in DOMAIN shipped PROVE QueryId(reg, q) = shipped[q]
    BY DEF IdsSurviveBundle
  <2>1. shipped[q] \in DOMAIN reg.queries /\ reg.queries[shipped[q]] = q
    BY DEF SubInv, ShippedOK
  <2>2. reg \in Registries /\ OnceEach(reg) /\ ByNamespace(reg)
    BY DEF SubInv, RegistryOK, RegOK
  <2>3. q \in Queries
    <3>1. reg.queries \in IdQueries  BY <2>2 DEF Registries
    <3> QED  BY <2>1, <3>1, IdQueriesAre
  <2> QED  BY <2>1, <2>2, <2>3, QueryIdIs
<1> QED  BY <1>1, Invariant, PTL

-----------------------------------------------------------------------------
(* What keeps the model in step *)

\* A transaction wrote a path last; a message has one that did; one is on its way.
Newest(txn, p) == txn.path = p /\ txn.ver = db[p]
Carries(m, p) ==
  \/ m.type = "txn" /\ Newest(m, p)
  \/ m.type = "newTxns" /\ \E i \in 1 .. Len(m.txns) : Newest(m.txns[i], p)
OnItsWay(p) ==
  \/ \E k \in 1 .. Len(buffer) : Newest(buffer[k], p)
  \/ \E k \in 1 .. Len(s2c) : Carries(s2c[k], p)

\* The newest of a path has reached the model, or will: by a transaction, by an answer.
Told(p) == seen[p] = db[p] \/ OnItsWay(p)
Sure(t) == \A p \in Covers[t] : Told(p)
Brings(got, p) == (p \in DOMAIN got /\ got[p] = db[p]) \/ Told(p)

\* The store has the model under a target, and no call is under way that takes it out.
TakesOut(m, t) == m.type = "unsubscribe" /\ (DOMAIN m.asked = {} \/ t \in DOMAIN m.asked)
Remains(t) == \A k \in 1 .. Len(c2s) : ~TakesOut(c2s[k], t)
Watched(t) == Me \in fwd[t] /\ Remains(t)

\* The answer to what was asked confirms a target, or replaces what is confirmed.
Matters(asked, t) == asked[t] = stamp[t] \/ t \in acked

\* What the store has read, but for what is left, is as new as what was written since
\* will be; what a replacement will not bring is there already.
Good(asked, left, got) ==
  \A t \in DOMAIN asked : Matters(asked, t) =>
    Watched(t) /\ (t \notin left => \A p \in Covers[t] : Brings(got, p))
Chained(asked) == \A t \in acked \ DOMAIN asked : Sure(t)

AckedGood == \A t \in acked : Watched(t) /\ (~lossy => Sure(t))
RequestGood(r) ==
  /\ r.stage = "guard" =>
       r.left = DOMAIN r.asked /\ \A t \in DOMAIN r.asked : r.asked[t] = stamp[t] => Remains(t)
  /\ r.stage = "fetch" /\ r.type # "fetch" => Good(r.asked, r.left, r.got)
  /\ r.type = "subs" => Chained(r.asked)
RequestsGood ==
  \A r \in requests :
    /\ r.type = "subs" => r.stage = "fetch" /\ up
    /\ r.live => RequestGood(r) /\ (up \/ onServer)
CallGood(m, k) ==
  m.type \in {"subscribe", "subs"} =>
    /\ \A t \in DOMAIN m.asked : m.asked[t] = stamp[t] =>
         \A j \in k + 1 .. Len(c2s) : ~TakesOut(c2s[j], t)
    /\ m.type = "subs" => Chained(m.asked)
CallsGood == \A k \in 1 .. Len(c2s) : CallGood(c2s[k], k)
AnswerGood(m) ==
  /\ m.type \in {"subscribe", "replace"} => Good(m.asked, {}, m.got)
  /\ m.type = "replace" => Chained(m.asked)
AnswersGood == \A k \in 1 .. Len(s2c) : AnswerGood(s2c[k])
LinkGood == (~up => s2c = << >> /\ c2s = << >>) /\ (up \/ onServer \/ buffering \/ lossy)

\* Whatever the model has, or will get, was written before; the transactions come in the
\* order of their versions, and each after whatever has a lower one.
Old(got) == \A p \in DOMAIN got : got[p] <= db[p]
TxnOld(txn) == txn.ver <= db[txn.path] /\ memVer < txn.ver
TxnsGood(txns) ==
  /\ \A i \in 1 .. Len(txns) : TxnOld(txns[i])
  /\ \A i, j \in 1 .. Len(txns) : i < j => txns[i].ver < txns[j].ver \/ txns[i] = txns[j]
Below(m, v) ==
  /\ m.type \in {"txn", "subscribe", "fetch", "replace"} => m.ver < v
  /\ m.type = "newTxns" => \A i \in 1 .. Len(m.txns) : m.txns[i].ver < v
MessageOld(m) ==
  /\ m.type = "txn" => TxnOld(m)
  /\ m.type = "newTxns" => TxnsGood(m.txns)
  /\ m.type \in {"subscribe", "fetch", "replace"} => Old(m.got) /\ m.ver <= ver
MessagesOld ==
  \A k \in 1 .. Len(s2c) :
    /\ MessageOld(s2c[k])
    /\ s2c[k].type = "newTxns" => k = 1
    /\ s2c[k].type = "txn" => \A j \in 1 .. k - 1 : Below(s2c[j], s2c[k].ver)
MemoryOld ==
  /\ \A p \in Paths : db[p] <= ver /\ data[p] <= db[p] /\ seen[p] <= db[p]
  /\ memVer <= ver /\ sockVer <= ver
RequestsOld == \A r \in requests : Old(r.got) /\ r.ver <= ver
VersionsOK == MemoryOld /\ RequestsOld /\ TxnsGood(buffer) /\ MessagesOld

FlowOK == AckedGood /\ RequestsGood /\ CallsGood /\ AnswersGood /\ LinkGood
InStepInv == FlowOK /\ VersionsOK

\* A step loses nothing: what becomes confirmed is sound; the model leaves a target only
\* when it asks to; and a path of a target that it is under is written with its knowledge.
Continues ==
  /\ \A t \in Targets : stamp'[t] = stamp[t] \/ stamp'[t] > ops
  /\ \A t \in acked' : t \in acked \/ (Watched(t)' /\ Sure(t)')
  /\ \A t \in Targets :
       /\ Remains(t) => Remains(t)' \/ stamp'[t] > ops
       /\ Watched(t) => Watched(t)' \/ (t \notin acked' /\ stamp'[t] > ops)
       /\ Watched(t) => \A p \in Covers[t] :
            (Told(p) => Told(p)') /\ (db'[p] = db[p] \/ Told(p)')

\* What was asked for stays good,
LEMMA GoodStays ==
  ASSUME Continues, ops \in Nat, stamp \in [Targets -> Nat], stamp' \in [Targets -> Nat],
         NEW asked \in Askings, AskedOK(asked), NEW left, NEW got, Good(asked, left, got)
  PROVE  Good(asked, left, got)'
<1>1. DOMAIN asked \subseteq Targets /\ \A t \in DOMAIN asked : asked[t] \in Nat
  BY AskingsAre
<1> SUFFICES ASSUME NEW t \in DOMAIN asked, Matters(asked, t)'
             PROVE  Watched(t)' /\ (t \notin left => \A p \in Covers[t] : Brings(got, p)')
  BY DEF Good
<1>2. t \in Targets /\ asked[t] \in Nat /\ asked[t] <= ops  BY <1>1 DEF AskedOK
<1>3. stamp'[t] = stamp[t] \/ stamp'[t] > ops  BY <1>2 DEF Continues
<1>4. asked[t] = stamp'[t] \/ t \in acked'  BY DEF Matters
<1>5. asked[t] = stamp'[t] => stamp'[t] = stamp[t] /\ ~ (stamp'[t] > ops)  BY <1>2, <1>3
<1>6. CASE Matters(asked, t)
  <2>1. Watched(t) /\ (t \notin left => \A p \in Covers[t] : Brings(got, p))
    BY <1>6 DEF Good
  <2>2. Watched(t)'  BY <1>2, <1>4, <1>5, <2>1 DEF Continues
  <2>3. ASSUME NEW p \in Covers[t], Brings(got, p) PROVE Brings(got, p)'
    <3>1. (Told(p) => Told(p)') /\ (db'[p] = db[p] \/ Told(p)')
      BY <1>2, <2>1 DEF Continues
    <3> QED  BY <2>3, <3>1 DEF Brings
  <2> QED  BY <2>1, <2>2, <2>3
<1>7. CASE ~Matters(asked, t)
  <2>1. t \in acked' /\ t \notin acked  BY <1>4, <1>5, <1>7 DEF Matters
  <2>2. Watched(t)' /\ Sure(t)'  BY <2>1 DEF Continues
  <2> QED  BY <2>2 DEF Sure, Brings
<1> QED  BY <1>6, <1>7

\* ... and what was confirmed.
LEMMA AckedStays ==
  ASSUME Continues, AckedGood, acked \subseteq Targets
  PROVE  /\ (lossy => lossy') => AckedGood'
         /\ \A asked : Chained(asked) => Chained(asked)'
<1>1. ASSUME NEW t \in acked, t \in acked' PROVE Watched(t)' /\ (Sure(t) => Sure(t)')
  <2>1. Watched(t) /\ t \in Targets  BY DEF AckedGood
  <2> QED  BY <1>1, <2>1 DEF Continues, Sure
<1>2. ASSUME NEW t \in acked', t \notin acked PROVE Watched(t)' /\ Sure(t)'
  BY <1>2 DEF Continues
<1>3. ASSUME lossy => lossy' PROVE AckedGood'
  <2> SUFFICES ASSUME NEW t \in acked' PROVE Watched(t)' /\ (~lossy' => Sure(t)')
    BY DEF AckedGood
  <2> QED  BY <1>1, <1>2, <1>3 DEF AckedGood
<1>4. ASSUME NEW asked, Chained(asked) PROVE Chained(asked)'
  <2> SUFFICES ASSUME NEW t \in acked' \ DOMAIN asked PROVE Sure(t)'
    BY DEF Chained
  <2> QED  BY <1>1, <1>2, <1>4 DEF Chained
<1> QED  BY <1>3, <1>4

\* What everybody has asked for stays good.
LEMMA RequestGoodStays ==
  ASSUME Continues, AckedGood, acked \subseteq Targets, ops \in Nat,
         stamp \in [Targets -> Nat], stamp' \in [Targets -> Nat],
         NEW r \in Requests, AskedOK(r.asked), RequestGood(r)
  PROVE  RequestGood(r)'
<1>1. r.asked \in Askings  BY DEF Requests
<1>2. DOMAIN r.asked \subseteq Targets /\ \A t \in DOMAIN r.asked : r.asked[t] \in Nat
  BY <1>1, AskingsAre
<1>3. ASSUME r.stage = "guard", NEW t \in DOMAIN r.asked, r.asked[t] = stamp'[t]
      PROVE  Remains(t)'
  <2>1. r.asked[t] <= ops /\ t \in Targets /\ r.asked[t] \in Nat  BY <1>2 DEF AskedOK
  <2>2. ~ (stamp'[t] > ops)  BY <1>3, <2>1
  <2>3. stamp'[t] = stamp[t]  BY <2>1, <2>2 DEF Continues
  <2>4. Remains(t)  BY <1>3, <2>3 DEF RequestGood
  <2> QED  BY <2>1, <2>2, <2>4 DEF Continues
<1>4. ASSUME Good(r.asked, r.left, r.got) PROVE Good(r.asked, r.left, r.got)'
  <2>1. PICK asked, left, got : asked = r.asked /\ left = r.left /\ got = r.got  OBVIOUS
  <2>2. Good(asked, left, got)'  BY <1>1, <1>4, <2>1, GoodStays
  <2> QED  BY <2>1, <2>2
<1>5. Chained(r.asked) => Chained(r.asked)'  BY AckedStays
<1> QED  BY <1>3, <1>4, <1>5 DEF RequestGood

\* ... and what is on its way to the model as an answer.
LEMMA AnswerGoodStays ==
  ASSUME Continues, AckedGood, acked \subseteq Targets, ops \in Nat,
         stamp \in [Targets -> Nat], stamp' \in [Targets -> Nat],
         NEW m \in S2CMessages, AnswerAsked(m), AnswerGood(m)
  PROVE  AnswerGood(m)'
<1>1. m.type \in {"subscribe", "replace"} => m \in Answers /\ m.asked \in Askings
  BY MessageKinds
<1>2. ASSUME m.type \in {"subscribe", "replace"} PROVE Good(m.asked, {}, m.got)'
  <2>1. PICK asked, got : asked = m.asked /\ got = m.got  OBVIOUS
  <2>2. Good(asked, {}, got)  BY <1>2, <2>1 DEF AnswerGood
  <2>3. AskedOK(asked) /\ asked \in Askings  BY <1>1, <1>2, <2>1 DEF AnswerAsked
  <2>4. Good(asked, {}, got)'  BY <2>2, <2>3, GoodStays
  <2> QED  BY <2>1, <2>4
<1>3. Chained(m.asked) => Chained(m.asked)'  BY AckedStays
<1> QED  BY <1>2, <1>3 DEF AnswerGood

\* A call stays good wherever it is, if those after it are or take out what is asked anew.
LEMMA CallGoodStays ==
  ASSUME Continues, AckedGood, acked \subseteq Targets, ops \in Nat,
         stamp \in [Targets -> Nat], stamp' \in [Targets -> Nat],
         NEW m \in C2SMessages, MessageAsked(m), NEW k \in Nat, NEW i \in Nat, CallGood(m, k),
         \A j \in i + 1 .. Len(c2s') :
           \/ \E l \in k + 1 .. Len(c2s) : c2s'[j] = c2s[l]
           \/ \A t \in Targets : TakesOut(c2s'[j], t) => stamp'[t] > ops
  PROVE  CallGood(m, i)'
<1>1. m.asked \in Askings  BY DEF C2SMessages
<1>2. DOMAIN m.asked \subseteq Targets /\ \A t \in DOMAIN m.asked : m.asked[t] \in Nat
  BY <1>1, AskingsAre
<1> SUFFICES ASSUME m.type \in {"subscribe", "subs"} PROVE CallGood(m, i)'
  BY DEF CallGood
<1>3. ASSUME NEW t \in DOMAIN m.asked, m.asked[t] = stamp'[t],
             NEW j \in i + 1 .. Len(c2s')
      PROVE  ~TakesOut(c2s'[j], t)
  <2>1. m.asked[t] <= ops /\ t \in Targets /\ m.asked[t] \in Nat
    BY <1>2 DEF MessageAsked, AskedOK
  <2>2. ~ (stamp'[t] > ops)  BY <1>3, <2>1
  <2>3. stamp'[t] = stamp[t]  BY <2>1, <2>2 DEF Continues
  <2>4. \A l \in k + 1 .. Len(c2s) : ~TakesOut(c2s[l], t)  BY <1>3, <2>3 DEF CallGood
  <2>5. CASE \E l \in k + 1 .. Len(c2s) : c2s'[j] = c2s[l]
    <3>1. PICK l \in k + 1 .. Len(c2s) : c2s'[j] = c2s[l]  BY <2>5
    <3> QED  BY <2>4, <3>1 DEF TakesOut
  <2>6. CASE \A u \in Targets : TakesOut(c2s'[j], u) => stamp'[u] > ops
    BY <2>1, <2>2, <2>6
  <2> QED  BY <1>3, <2>5, <2>6
<1>4. Chained(m.asked) => Chained(m.asked)'  BY AckedStays
<1>5. m.type = "subs" => Chained(m.asked)'  BY <1>4 DEF CallGood
<1>6. \A t \in DOMAIN m.asked : m.asked[t] = stamp'[t] =>
        \A j \in i + 1 .. Len(c2s') : ~TakesOut(c2s[j], t)'
  BY <1>3 DEF TakesOut
<1> QED  BY <1>5, <1>6 DEF CallGood

\* The types that these lemmas rest on.
LEMMA Bases ==
  ASSUME SubInv
  PROVE  /\ ops \in Nat /\ stamp \in [Targets -> Nat] /\ acked \subseteq Targets
         /\ c2s \in Seq(C2SMessages) /\ s2c \in Seq(S2CMessages)
         /\ Len(c2s) \in Nat /\ Len(s2c) \in Nat /\ DOMAIN s2c = 1 .. Len(s2c)
         /\ \A k \in 1 .. Len(c2s) : c2s[k] \in C2SMessages /\ MessageAsked(c2s[k])
         /\ \A k \in 1 .. Len(s2c) : s2c[k] \in S2CMessages /\ AnswerAsked(s2c[k])
         /\ \A r \in requests : r \in Requests /\ Begun(r) /\ RequestAsked(r)
         /\ Covers \in [Targets -> SUBSET Paths]
<1>1. StoreOK /\ NetOK /\ ModelOK /\ RegistryOK /\ AskedIsRegistered  BY DEF SubInv
<1>2. acked \subseteq Targets
  <2>1. Subs \subseteq Targets  BY <1>1, SubsAre DEF FiniteTargets
  <2> QED  BY <1>1, <2>1 DEF ModelOK
<1>3. c2s \in Seq(C2SMessages) /\ s2c \in Seq(S2CMessages)  BY <1>1 DEF NetOK
<1>4. ops \in Nat /\ stamp \in [Targets -> Nat]  BY <1>1 DEF ModelOK
<1>5. \A k \in 1 .. Len(c2s) : c2s[k] \in C2SMessages /\ MessageAsked(c2s[k])
  BY <1>1, <1>3 DEF AskedIsRegistered, CallsAsked
<1>6. \A k \in 1 .. Len(s2c) : s2c[k] \in S2CMessages /\ AnswerAsked(s2c[k])
  BY <1>1, <1>3 DEF AskedIsRegistered, AnswersAsked
<1>7. \A r \in requests : r \in Requests /\ Begun(r) /\ RequestAsked(r)
  BY <1>1 DEF StoreOK, AskedIsRegistered, RequestsAsked
<1> QED  BY <1>2, <1>3, <1>4, <1>5, <1>6, <1>7, Kinds

\* After a step that loses nothing: what is confirmed, and what has been answered,
LEMMA AnswersStayGood ==
  ASSUME SubInv, SubInv', FlowOK, Continues,
         NEW X, Among(s2c', s2c, X), \A x \in X : AnswerGood(x)'
  PROVE  ((lossy => lossy') => AckedGood') /\ AnswersGood'
<1>1. AckedGood /\ AnswersGood /\ stamp' \in [Targets -> Nat]
  <2>1. stamp' \in [Targets -> Nat]  BY DEF SubInv, ModelOK
  <2> QED  BY <2>1 DEF FlowOK
<1>2. (lossy => lossy') => AckedGood'  BY <1>1, Bases, AckedStays
<1>3. ASSUME NEW k \in 1 .. Len(s2c') PROVE AnswerGood(s2c[k])'
  <2>1. PICK m : m = s2c'[k]  OBVIOUS
  <2>2. AnswerGood(m)'
    <3>1. CASE m \in X  BY <3>1
    <3>2. ASSUME NEW j \in 1 .. Len(s2c), m = s2c[j] PROVE AnswerGood(m)'
      <4>1. m \in S2CMessages /\ AnswerAsked(m)  BY <3>2, Bases
      <4>2. AnswerGood(m)  BY <1>1, <3>2 DEF AnswersGood
      <4> QED  BY <1>1, <4>1, <4>2, Bases, AnswerGoodStays
    <3> QED  BY <2>1, <3>1, <3>2 DEF Among
  <2> QED  BY <2>1, <2>2
<1> QED  BY <1>2, <1>3 DEF AnswersGood

\* ... what the store works on,
LEMMA RequestsStayGood ==
  ASSUME SubInv, SubInv', FlowOK, Continues, UNCHANGED <<up, onServer>>,
         \A r \in requests' \ requests :
           /\ r.type = "subs" => r.stage = "fetch" /\ up
           /\ r.live => RequestGood(r)' /\ (up \/ onServer)
  PROVE  RequestsGood'
<1>1. AckedGood /\ RequestsGood /\ stamp' \in [Targets -> Nat]
  <2>1. stamp' \in [Targets -> Nat]  BY DEF SubInv, ModelOK
  <2> QED  BY <2>1 DEF FlowOK
<1>2. ASSUME NEW r \in requests, r.live PROVE RequestGood(r)' /\ (up \/ onServer)
  <2>1. r \in Requests /\ AskedOK(r.asked)  BY <1>2, Bases DEF RequestAsked
  <2>2. RequestGood(r) /\ (up \/ onServer)  BY <1>1, <1>2 DEF RequestsGood
  <2> QED  BY <1>1, <2>1, <2>2, Bases, RequestGoodStays
<1>3. \A r \in requests : r.type = "subs" => r.stage = "fetch" /\ up
  BY <1>1 DEF RequestsGood
<1>4. \A r \in requests' :
        /\ r.type = "subs" => r.stage = "fetch" /\ up
        /\ r.live => RequestGood(r)' /\ (up \/ onServer)
  BY <1>2, <1>3
<1> QED  BY <1>4 DEF RequestsGood

\* ... and what is on its way to the store: with as many calls, one more, or one less.
LEMMA CallsStayGood ==
  ASSUME SubInv, SubInv', FlowOK, Continues,
         \/ c2s' = c2s
         \/ c2s # << >> /\ c2s' = Tail(c2s)
         \/ \E x \in C2SMessages :
              /\ c2s' = Append(c2s, x)
              /\ \A t \in Targets : TakesOut(x, t) => stamp'[t] > ops
              /\ x.type = "subs" => Chained(x.asked)'
  PROVE  CallsGood'
<1>1. AckedGood /\ CallsGood /\ stamp' \in [Targets -> Nat]
  <2>1. stamp' \in [Targets -> Nat]  BY DEF SubInv, ModelOK
  <2> QED  BY <2>1 DEF FlowOK
<1>2. ASSUME NEW m \in C2SMessages, NEW k \in 1 .. Len(c2s), m = c2s[k], NEW i \in Nat,
             \A j \in i + 1 .. Len(c2s') :
               \/ \E l \in k + 1 .. Len(c2s) : c2s'[j] = c2s[l]
               \/ \A t \in Targets : TakesOut(c2s'[j], t) => stamp'[t] > ops
      PROVE  CallGood(m, i)'
  <2>1. MessageAsked(m) /\ k \in Nat  BY <1>2, Bases
  <2>2. CallGood(m, k)  BY <1>1, <1>2 DEF CallsGood
  <2> QED  BY <1>1, <1>2, <2>1, <2>2, Bases, CallGoodStays
<1> SUFFICES ASSUME NEW i \in 1 .. Len(c2s') PROVE CallGood(c2s[i], i)'
  BY DEF CallsGood
<1>3. PICK m : m = c2s'[i]  OBVIOUS
<1>4. c2s' \in Seq(C2SMessages) /\ Len(c2s') \in Nat /\ i \in Nat /\ m \in C2SMessages
  <2>1. c2s' \in Seq(C2SMessages)  BY DEF SubInv, NetOK
  <2> QED  BY <1>3, <2>1
<1>5. CallGood(m, i)'
  <2>1. CASE c2s' = c2s
    <3>1. i \in 1 .. Len(c2s) /\ m = c2s[i]  BY <1>3, <2>1
    <3>2. \A j \in i + 1 .. Len(c2s') : \E l \in i + 1 .. Len(c2s) : c2s'[j] = c2s[l]
      BY <2>1
    <3> QED  BY <1>2, <1>4, <3>1, <3>2
  <2>2. CASE c2s # << >> /\ c2s' = Tail(c2s)
    <3>1. IsLess(c2s', c2s)  BY <2>2, Bases, LessIs
    <3>2. i + 1 \in 1 .. Len(c2s) /\ m = c2s[i + 1]  BY <1>3, <1>4, <3>1 DEF IsLess
    <3>3. ASSUME NEW j \in i + 1 .. Len(c2s')
          PROVE  \E l \in (i + 1) + 1 .. Len(c2s) : c2s'[j] = c2s[l]
      <4>1. j \in 1 .. Len(c2s') /\ j + 1 \in (i + 1) + 1 .. Len(c2s)
        BY <1>4, <3>1 DEF IsLess
      <4>2. c2s'[j] = c2s[j + 1]  BY <3>1, <4>1 DEF IsLess
      <4> QED  BY <4>1, <4>2
    <3> QED  BY <1>2, <1>4, <3>2, <3>3
  <2>3. ASSUME NEW x \in C2SMessages, c2s' = Append(c2s, x),
               \A t \in Targets : TakesOut(x, t) => stamp'[t] > ops,
               x.type = "subs" => Chained(x.asked)'
        PROVE  CallGood(m, i)'
    <3>1. IsMore(c2s', c2s, x)  BY <2>3, Bases, MoreIs
    <3>2. CASE i \in 1 .. Len(c2s)
      <4>1. m = c2s[i]  BY <1>3, <3>1, <3>2 DEF IsMore
      <4>2. ASSUME NEW j \in i + 1 .. Len(c2s')
            PROVE  \/ \E l \in i + 1 .. Len(c2s) : c2s'[j] = c2s[l]
                   \/ \A t \in Targets : TakesOut(c2s'[j], t) => stamp'[t] > ops
        <5>1. Len(c2s') = Len(c2s) + 1 /\ Len(c2s) \in Nat  BY <3>1, Bases DEF IsMore
        <5>2. j \in i + 1 .. Len(c2s) \/ j = Len(c2s) + 1  BY <1>4, <5>1
        <5>3. CASE j \in i + 1 .. Len(c2s)
          <6>1. j \in 1 .. Len(c2s)  BY <1>4, <5>1, <5>3
          <6> QED  BY <3>1, <5>3, <6>1 DEF IsMore
        <5>4. CASE j = Len(c2s) + 1
          <6>1. c2s'[j] = x  BY <3>1, <5>4 DEF IsMore
          <6> QED  BY <2>3, <6>1
        <5> QED  BY <5>2, <5>3, <5>4
      <4> QED  BY <1>2, <1>4, <3>2, <4>1, <4>2
    <3>3. CASE i = Len(c2s) + 1
      <4>1. m = x  BY <1>3, <3>1, <3>3 DEF IsMore
      <4>2. i + 1 .. Len(c2s') = {}  BY <3>1, <3>3, <1>4 DEF IsMore
      <4> QED  BY <2>3, <4>1, <4>2 DEF CallGood
    <3>4. i \in 1 .. Len(c2s) \/ i = Len(c2s) + 1
      <4>1. Len(c2s') = Len(c2s) + 1 /\ Len(c2s) \in Nat  BY <3>1, Bases DEF IsMore
      <4> QED  BY <4>1
    <3> QED  BY <3>2, <3>3, <3>4
  <2> QED  BY <2>1, <2>2, <2>3
<1> QED  BY <1>3, <1>5

\* The calls under way that take the model out.
LEMMA RemainsIs ==
  ASSUME c2s \in Seq(C2SMessages), NEW t
  PROVE  /\ c2s' = c2s => (Remains(t) <=> Remains(t)')
         /\ c2s' = << >> => Remains(t)'
         /\ c2s # << >> /\ c2s' = Tail(c2s) =>
              (Remains(t) <=> ~TakesOut(Head(c2s), t) /\ Remains(t)')
         /\ \A x \in C2SMessages : c2s' = Append(c2s, x) =>
              (Remains(t)' <=> Remains(t) /\ ~TakesOut(x, t))
<1> DEFINE Out(m) == TakesOut(m, t)
<1>1. Remains(t) = \A k \in 1 .. Len(c2s) : ~Out(c2s[k])  BY DEF Remains
<1>2. Remains(t)' = \A k \in 1 .. Len(c2s') : ~Out(c2s'[k])  BY DEF Remains, TakesOut
<1>3. \A m : Out(m) <=> TakesOut(m, t)  OBVIOUS
<1>4. Len(c2s) \in Nat  OBVIOUS
<1> HIDE DEF Out
<1>5. c2s' = c2s => (Remains(t) <=> Remains(t)')  BY <1>1, <1>2
<1>6. c2s' = << >> => Remains(t)'  BY <1>2
<1>7. ASSUME c2s # << >>, c2s' = Tail(c2s)
      PROVE  Remains(t) <=> ~Out(Head(c2s)) /\ Remains(t)'
  <2>1. IsLess(c2s', c2s) /\ Len(c2s') \in Nat /\ 1 \in 1 .. Len(c2s)  BY <1>7, LessIs
  <2>2. Head(c2s) = c2s[1] /\ Len(c2s) = Len(c2s') + 1
        /\ \A k \in 1 .. Len(c2s') : c2s'[k] = c2s[k + 1]
    BY <2>1 DEF IsLess
  <2>3. ASSUME Remains(t) PROVE ~Out(Head(c2s)) /\ Remains(t)'
    <3>1. \A k \in 1 .. Len(c2s') : k + 1 \in 1 .. Len(c2s)  BY <2>1, <2>2
    <3> QED  BY <1>1, <1>2, <2>1, <2>2, <2>3, <3>1
  <2>4. ASSUME ~Out(Head(c2s)), Remains(t)' PROVE Remains(t)
    <3> SUFFICES ASSUME NEW k \in 1 .. Len(c2s) PROVE ~Out(c2s[k])  BY <1>1
    <3>1. CASE k = 1  BY <2>2, <2>4, <3>1
    <3>2. CASE k # 1
      <4>1. k - 1 \in 1 .. Len(c2s') /\ (k - 1) + 1 = k  BY <2>1, <2>2, <3>2
      <4>2. c2s'[k - 1] = c2s[k]  BY <2>2, <4>1
      <4> QED  BY <1>2, <2>4, <4>1, <4>2
    <3> QED  BY <3>1, <3>2
  <2> QED  BY <2>3, <2>4
<1>8. ASSUME NEW x \in C2SMessages, c2s' = Append(c2s, x)
      PROVE  Remains(t)' <=> Remains(t) /\ ~Out(x)
  <2>1. IsMore(c2s', c2s, x)  BY <1>8, MoreIs
  <2>2. /\ Len(c2s') = Len(c2s) + 1 /\ c2s'[Len(c2s) + 1] = x
        /\ \A k \in 1 .. Len(c2s) : c2s'[k] = c2s[k]
    BY <2>1 DEF IsMore
  <2>3. \A k : k \in 1 .. Len(c2s') <=> k \in 1 .. Len(c2s) \/ k = Len(c2s) + 1
    BY <1>4, <2>2
  <2> QED  BY <1>1, <1>2, <2>2, <2>3
<1> QED  BY <1>3, <1>5, <1>6, <1>7, <1>8

\* What the model was told and what is on its way stays, if none of it is touched.
LEMMA ToldSame ==
  ASSUME UNCHANGED <<db, seen, buffer, s2c>>
  PROVE  \A p : Told(p) <=> Told(p)'
BY DEF Told, OnItsWay, Carries, Newest

\* What the model asks for: its targets are stamped anew or not asked for anew.
LEMMA AskFlow ==
  ASSUME SubInv, SubInv', FlowOK, NEW type \in {"subscribe", "fetch"}, NEW asked \in Askings,
         Ask(type, asked), \A t \in Targets : stamp'[t] = stamp[t] \/ stamp'[t] > ops,
         UNCHANGED <<db, fwd, up, buffering, buffer, s2c, onServer, seen, acked, lossy>>
  PROVE  FlowOK'
<1>1. PICK x : x = [type |-> type, asked |-> asked]  OBVIOUS
<1>2. x \in C2SMessages /\ x.type \notin {"subs", "unsubscribe"}  BY <1>1 DEF C2SMessages
<1>3. c2s' = c2s \/ c2s' = Append(c2s, x)  BY <1>1 DEF Ask
<1>4. \A t : ~TakesOut(x, t)  BY <1>2 DEF TakesOut
<1>5. \A t : Remains(t) => Remains(t)'  BY <1>2, <1>3, <1>4, Bases, RemainsIs
<1>6. Continues
  <2>1. \A t : Watched(t) => Watched(t)'  BY <1>5 DEF Watched
  <2> QED  BY <1>5, <2>1, ToldSame DEF Continues
<1>7. AckedGood' /\ AnswersGood'
  <2>1. Among(s2c', s2c, {})  BY Bases, AmongOld
  <2> QED  BY <1>6, <2>1, AnswersStayGood
<1>8. CallsGood'
  <2>1. \/ c2s' = c2s
        \/ /\ c2s' = Append(c2s, x)
           /\ \A t \in Targets : TakesOut(x, t) => stamp'[t] > ops
           /\ x.type = "subs" => Chained(x.asked)'
    BY <1>2, <1>3, <1>4
  <2> QED  BY <1>2, <1>6, <2>1, CallsStayGood
<1>9. RequestsGood'
  <2>1. PICK r : r = Request(type, asked)  OBVIOUS
  <2>2. ASSUME onServer PROVE RequestGood(r)' /\ r.type # "subs"
    <3>1. /\ r.stage = IF type = "subscribe" THEN "guard" ELSE "fetch"
          /\ r.left = DOMAIN asked /\ r.asked = asked /\ r.type = type
      BY <2>1 DEF Request
    <3>2. c2s' = << >>  BY <2>2 DEF SubInv, NetOK
    <3>3. \A t : Remains(t)'  BY <3>2, Bases, RemainsIs
    <3> QED  BY <2>2, <3>1, <3>3 DEF RequestGood
  <2>3. \A y \in requests' : y \in requests \/ (y = r /\ onServer)
    BY <2>1 DEF Ask
  <2>4. \A y \in requests' \ requests :
          /\ y.type = "subs" => y.stage = "fetch" /\ up
          /\ y.live => RequestGood(y)' /\ (up \/ onServer)
    BY <2>2, <2>3
  <2> QED  BY <1>6, <2>4, RequestsStayGood
<1>10. LinkGood'
  <2>1. ~up => c2s' = c2s  BY DEF Ask
  <2> QED  BY <2>1 DEF FlowOK, LinkGood
<1> QED  BY <1>7, <1>8, <1>9, <1>10 DEF FlowOK

\* The model subscribes,
LEMMA SubscribeFlow ==
  ASSUME SubInv, SubInv', FlowOK, NEW ts \in SUBSET Targets, IsFiniteSet(ts), Subscribe(ts)
  PROVE  FlowOK'
<1>1. PICK asked : asked = [t \in ts |-> ops + 1]  OBVIOUS
<1>2. ops \in Nat /\ stamp \in [Targets -> Nat]  BY Bases
<1>3. asked \in Askings
  <2>1. ts \in FiniteTargets /\ ops + 1 \in Nat  BY <1>2 DEF FiniteTargets
  <2> QED  BY <1>1, <2>1, AskingOf
<1>4. \A t \in Targets : stamp'[t] = stamp[t] \/ stamp'[t] > ops
  <2>1. stamp' = [t \in Targets |-> IF t \in ts THEN ops + 1 ELSE stamp[t]]
    BY DEF Subscribe
  <2> QED  BY <1>2, <2>1
<1>5. /\ Ask("subscribe", asked)
      /\ UNCHANGED <<db, fwd, up, buffering, buffer, s2c, onServer, seen, acked, lossy>>
  BY <1>1 DEF Subscribe
<1> QED  BY <1>3, <1>4, <1>5, AskFlow

\* ... or fetches.
LEMMA FetchFlow ==
  ASSUME SubInv, SubInv', FlowOK, NEW t \in Targets, Fetch(t)
  PROVE  FlowOK'
<1>1. PICK asked : asked = [u \in {t} |-> ops + 1]  OBVIOUS
<1>2. asked \in Askings
  <2>1. {t} \in FiniteTargets /\ ops + 1 \in Nat  BY Bases, FiniteTargetsAre
  <2> QED  BY <1>1, <2>1, AskingOf
<1>3. /\ Ask("fetch", asked) /\ stamp' = stamp
      /\ UNCHANGED <<db, fwd, up, buffering, buffer, s2c, onServer, seen, acked, lossy>>
  BY <1>1 DEF Fetch
<1> QED  BY <1>2, <1>3, AskFlow

\* The model asks no longer: whatever it leaves is stamped anew and not confirmed.
LEMMA UnaskFlow ==
  ASSUME SubInv, SubInv', FlowOK, NEW asked \in Askings, NEW T \in SUBSET Targets,
         c2s' = IF ~up THEN c2s ELSE Append(c2s, [type |-> "unsubscribe", asked |-> asked]),
         \A t \in Targets : IF t \in T THEN stamp'[t] > ops ELSE stamp'[t] = stamp[t],
         acked' = acked \ T,
         \A t \in Targets \ T : Me \in fwd[t] => Me \in fwd'[t],
         \A t \in Targets \ T : DOMAIN asked # {} /\ t \notin DOMAIN asked,
         UNCHANGED <<db, requests, up, buffering, buffer, s2c, onServer, seen, lossy>>
  PROVE  FlowOK'
<1>1. PICK x : x = [type |-> "unsubscribe", asked |-> asked]  OBVIOUS
<1>2. x \in C2SMessages /\ x.type = "unsubscribe" /\ x.asked = asked
  BY <1>1 DEF C2SMessages
<1>3. c2s' = c2s \/ c2s' = Append(c2s, x)  BY <1>1
<1>4. \A t \in Targets \ T : ~TakesOut(x, t)  BY <1>2 DEF TakesOut
<1>5. \A t \in Targets \ T : Remains(t) => Remains(t)'
  BY <1>2, <1>3, <1>4, Bases, RemainsIs
<1>6. Continues
  <2>1. \A t \in Targets \ T : Watched(t) => Watched(t)'  BY <1>5 DEF Watched
  <2>2. \A t \in Targets : t \in T => t \notin acked' /\ stamp'[t] > ops  OBVIOUS
  <2>3. \A t \in acked' : t \in acked  OBVIOUS
  <2>4. \A t \in Targets : stamp'[t] = stamp[t] \/ stamp'[t] > ops  OBVIOUS
  <2> QED  BY <1>5, <2>1, <2>2, <2>3, <2>4, ToldSame DEF Continues
<1>7. AckedGood' /\ AnswersGood'
  <2>1. Among(s2c', s2c, {})  BY Bases, AmongOld
  <2> QED  BY <1>6, <2>1, AnswersStayGood
<1>8. CallsGood'
  <2>1. \/ c2s' = c2s
        \/ /\ c2s' = Append(c2s, x)
           /\ \A t \in Targets : TakesOut(x, t) => stamp'[t] > ops
           /\ x.type = "subs" => Chained(x.asked)'
    BY <1>2, <1>3, <1>4
  <2> QED  BY <1>2, <1>6, <2>1, CallsStayGood
<1>9. RequestsGood'
  <2>1. requests' \ requests = {}  OBVIOUS
  <2> QED  BY <1>6, <2>1, RequestsStayGood
<1>10. LinkGood'  BY DEF FlowOK, LinkGood
<1> QED  BY <1>7, <1>8, <1>9, <1>10 DEF FlowOK

\* Who leaves a target leaves no other; others leave the model where it is.
LEMMA LeaveTakes ==
  ASSUME IndexesOK, NEW s \in Subscribers, NEW t \in Targets, Leave(s, t)
  PROVE  /\ \A u \in Targets : u # t => fwd'[u] = fwd[u]
         /\ \A x \in Subscribers, u \in Targets : x # s /\ x \in fwd[u] => x \in fwd'[u]
<1>1. fwd' = fwd \/ fwd' = [fwd EXCEPT ![t] = fwd[t] \ {s}]  BY DEF Leave, IndexesOK
<1>2. fwd \in [Targets -> SUBSET Subscribers]  BY DEF IndexesOK
<1> QED  BY <1>1, <1>2

\* The model leaves one pattern,
LEMMA UnsubscribeFlow ==
  ASSUME SubInv, SubInv', FlowOK, NEW t \in Patterns, Unsubscribe(t)
  PROVE  FlowOK'
<1>1. t \in Targets /\ ops \in Nat /\ stamp \in [Targets -> Nat] /\ IndexesOK
  BY Kinds, Bases DEF SubInv
<1>2. PICK asked : asked = [u \in {t} |-> 0]  OBVIOUS
<1>3. asked \in Askings /\ DOMAIN asked = {t}
  <2>1. {t} \in FiniteTargets /\ 0 \in Nat  BY <1>1, FiniteTargetsAre
  <2> QED  BY <1>2, <2>1, AskingOf
<1>4. /\ c2s' = IF ~up THEN c2s ELSE Append(c2s, [type |-> "unsubscribe", asked |-> asked])
      /\ stamp' = [stamp EXCEPT ![t] = ops + 1] /\ acked' = acked \ {t}
      /\ UNCHANGED <<db, requests, up, buffering, buffer, s2c, onServer, seen, lossy>>
  BY <1>2 DEF Unsubscribe
<1>5. \A u \in Targets : IF u \in {t} THEN stamp'[u] > ops ELSE stamp'[u] = stamp[u]
  BY <1>1, <1>4
<1>6. \A u \in Targets \ {t} : fwd'[u] = fwd[u]
  <2>1. CASE onServer
    <3>1. Leave(Me, t)  BY <2>1 DEF Unsubscribe
    <3> QED  BY <1>1, <3>1, LeaveTakes, Kinds
  <2>2. CASE ~onServer
    <3>1. fwd' = fwd  BY <2>2 DEF Unsubscribe
    <3> QED  BY <3>1
  <2> QED  BY <2>1, <2>2
<1>7. {t} \in SUBSET Targets  BY <1>1
<1> QED  BY <1>3, <1>4, <1>5, <1>6, <1>7, UnaskFlow

\* ... or everything.
LEMMA UnsubscribeAllFlow ==
  ASSUME SubInv, SubInv', FlowOK, UnsubscribeAll
  PROVE  FlowOK'
<1>1. PICK asked : asked = << >>  OBVIOUS
<1>2. asked \in Askings
  <2>1. 0 \in Nat /\ {} \in FiniteTargets  BY FiniteTargetsAre
  <2> QED  BY <1>1, <2>1, AskingOf
<1>3. /\ c2s' = IF ~up THEN c2s ELSE Append(c2s, [type |-> "unsubscribe", asked |-> asked])
      /\ stamp' = [t \in Targets |-> ops + 1] /\ acked' = {}
      /\ UNCHANGED <<db, requests, up, buffering, buffer, s2c, onServer, seen, lossy>>
  BY <1>1 DEF UnsubscribeAll
<1>4. \A t \in Targets :
        IF t \in Targets THEN stamp'[t] > ops ELSE stamp'[t] = stamp[t]
  BY <1>3, Bases
<1>5. acked' = acked \ Targets  BY <1>3, Bases
<1>6. Targets \in SUBSET Targets /\ Targets \ Targets = {}  OBVIOUS
<1> QED  BY <1>2, <1>3, <1>4, <1>5, <1>6, UnaskFlow

\* What the model has of a path only gets newer, and is never newer than what was written.
LEMMA NewerTells ==
  ASSUME ModelOK, NEW d \in [Paths -> Values], NEW w \in [Paths -> Int],
         \A p \in Paths : d[p] <= w[p] /\ seen[p] <= w[p], seen' = Newer(d)
  PROVE  \A p \in Paths :
           /\ seen[p] <= seen'[p] /\ seen'[p] <= w[p]
           /\ (d[p] = w[p] \/ seen[p] = w[p] => seen'[p] = w[p])
<1> SUFFICES ASSUME NEW p \in Paths
             PROVE  /\ seen[p] <= seen'[p] /\ seen'[p] <= w[p]
                    /\ (d[p] = w[p] \/ seen[p] = w[p] => seen'[p] = w[p])
  OBVIOUS
<1>1. seen'[p] = IF seen[p] < d[p] THEN d[p] ELSE seen[p]  BY DEF Newer, Larger
<1>2. seen[p] \in Int /\ d[p] \in Int /\ w[p] \in Int
  <2>1. Values \subseteq Int  BY Kinds DEF Values, Unread
  <2> QED  BY <2>1 DEF ModelOK
<1> QED  BY <1>1, <1>2

\* ... by _addData.
LEMMA AddDataTells ==
  ASSUME ModelOK, NEW got \in Gots, NEW v \in 0 .. MaxVer, AddData(got, v),
         NEW w \in [Paths -> Int], \A p \in Paths : data[p] <= w[p] /\ seen[p] <= w[p],
         \A p \in DOMAIN got : got[p] <= w[p]
  PROVE  /\ \A p \in Paths :
              /\ data'[p] <= w[p] /\ seen[p] <= seen'[p] /\ seen'[p] <= w[p]
              /\ seen[p] = w[p] => seen'[p] = w[p]
         /\ \A p \in DOMAIN got : got[p] = w[p] => seen'[p] = w[p]
<1>1. PICK d : d = Over(got, data)  OBVIOUS
<1>2. d \in [Paths -> Values] /\ data' = d /\ seen' = Newer(d)
  BY <1>1, OverIs DEF AddData, ModelOK
<1>3. DOMAIN got \subseteq Paths /\ DOMAIN data = Paths  BY GotsAre DEF ModelOK
<1>4. \A p \in Paths : d[p] = IF p \in DOMAIN got THEN got[p] ELSE data[p]
  BY <1>1, <1>3 DEF Over
<1>5. \A p \in Paths : d[p] <= w[p]  BY <1>4
<1>6. \A p \in Paths :
        /\ seen[p] <= seen'[p] /\ seen'[p] <= w[p]
        /\ (d[p] = w[p] \/ seen[p] = w[p] => seen'[p] = w[p])
  BY <1>2, <1>5, NewerTells
<1> QED  BY <1>2, <1>3, <1>4, <1>5, <1>6

\* One more message takes nothing away.
LEMMA ToldMore ==
  ASSUME s2c \in Seq(S2CMessages), buffer' = buffer, db' = db,
         s2c' = s2c \/ \E x \in S2CMessages : s2c' = Append(s2c, x),
         NEW p, seen[p] = db[p] => seen'[p] = db[p]
  PROVE  Told(p) => Told(p)'
<1>1. \A k \in 1 .. Len(s2c) : k \in 1 .. Len(s2c') /\ s2c'[k] = s2c[k]
  <2>1. CASE s2c' = s2c  BY <2>1
  <2>2. ASSUME NEW x \in S2CMessages, s2c' = Append(s2c, x)
        PROVE  \A k \in 1 .. Len(s2c) : k \in 1 .. Len(s2c') /\ s2c'[k] = s2c[k]
    <3>1. IsMore(s2c', s2c, x) /\ Len(s2c) \in Nat  BY <2>2, MoreIs
    <3> QED  BY <3>1 DEF IsMore
  <2> QED  BY <2>1, <2>2
<1>2. ASSUME NEW k \in 1 .. Len(s2c), Carries(s2c[k], p) PROVE OnItsWay(p)'
  <2>1. k \in 1 .. Len(s2c') /\ s2c'[k] = s2c[k]  BY <1>1
  <2>2. Carries(s2c[k], p)'  BY <1>2, <2>1 DEF Carries, Newest
  <2> QED  BY <2>1, <2>2 DEF OnItsWay
<1>3. ASSUME NEW k \in 1 .. Len(buffer), Newest(buffer[k], p) PROVE OnItsWay(p)'
  BY <1>3 DEF OnItsWay, Newest
<1> QED  BY <1>2, <1>3 DEF Told, OnItsWay

\* The store takes a call: it leaves nothing but what the call asks for.
LEMMA ReceiveFlow ==
  ASSUME SubInv, SubInv', FlowOK, Receive
  PROVE  FlowOK'
<1>1. /\ c2s # << >> /\ c2s' = Tail(c2s)
      /\ UNCHANGED <<db, up, buffering, buffer, s2c, onServer, seen, stamp, acked, ops, lossy>>
  BY DEF Receive, modelVars, history
<1>2. PICK m : m = Head(c2s)  OBVIOUS
<1>3. m = c2s[1] /\ 1 \in 1 .. Len(c2s) /\ m \in C2SMessages /\ MessageAsked(m)
  <2>1. m = c2s[1] /\ 1 \in 1 .. Len(c2s)  BY <1>1, <1>2, Bases, LessIs DEF IsLess
  <2> QED  BY <2>1, Bases
<1>4. /\ m.asked \in Askings /\ DOMAIN m.asked \subseteq Targets
      /\ m.type \in {"unsubscribe", "subscribe", "fetch", "subs"} /\ Formed(m)
  <2>1. Formed(m)  BY <1>3 DEF SubInv, NetOK
  <2> QED  BY <1>3, <2>1, AskingsAre DEF C2SMessages
<1>5. \A t : Remains(t) <=> ~TakesOut(m, t) /\ Remains(t)'
  BY <1>1, <1>2, Bases, RemainsIs
<1>6. \/ /\ m.type = "unsubscribe" /\ UNCHANGED requests
         /\ IF DOMAIN m.asked = {} THEN LeaveEvery(Me, FALSE)
            ELSE \A t \in DOMAIN m.asked : Leave(Me, t)
      \/ /\ m.type \in {"subscribe", "fetch"} /\ UNCHANGED fwd
         /\ requests' = requests \cup {Request(m.type, m.asked)}
      \/ /\ m.type = "subs" /\ Enter(Me, DOMAIN m.asked)
         /\ requests' = IF DOMAIN m.asked = {} THEN requests
                        ELSE requests \cup {Request("subs", m.asked)}
  BY <1>2 DEF Receive
<1>7. IndexesOK /\ Me \in Subscribers /\ AckedGood /\ CallsGood /\ LinkGood
  BY Kinds DEF SubInv, FlowOK
<1>8. ASSUME NEW t \in Targets, Watched(t) PROVE Me \in fwd'[t]
  <2>1. ~TakesOut(m, t) /\ Me \in fwd[t]  BY <1>5, <1>8 DEF Watched
  <2>2. CASE m.type = "unsubscribe"
    <3>1. DOMAIN m.asked # {} /\ t \notin DOMAIN m.asked  BY <2>1, <2>2 DEF TakesOut
    <3>2. PICK u \in Patterns : DOMAIN m.asked = {u}  BY <1>4, <2>2, <3>1 DEF Formed
    <3>3. Leave(Me, u) /\ u \in Targets /\ u # t  BY <1>6, <2>2, <3>1, <3>2, Kinds
    <3> QED  BY <1>7, <2>1, <3>3, LeaveTakes
  <2>3. CASE m.type \in {"subscribe", "fetch"}  BY <1>6, <2>1, <2>3
  <2>4. CASE m.type = "subs"
    <3>1. Enter(Me, DOMAIN m.asked)  BY <1>6, <2>4
    <3> QED  BY <2>1, <3>1 DEF Enter
  <2> QED  BY <1>4, <2>2, <2>3, <2>4
<1>9. \A t \in Targets : Watched(t) => Watched(t)'  BY <1>5, <1>8 DEF Watched
<1>10. Continues  BY <1>1, <1>5, <1>9, ToldSame DEF Continues
<1>11. AckedGood' /\ AnswersGood'
  <2>1. Among(s2c', s2c, {})  BY <1>1, Bases, AmongOld
  <2> QED  BY <1>1, <1>10, <2>1, AnswersStayGood
<1>12. CallsGood'  BY <1>1, <1>10, CallsStayGood
<1>13. CallGood(m, 0)'
  <2>1. IsLess(c2s', c2s) /\ Len(c2s') \in Nat /\ Len(c2s) = Len(c2s') + 1
    BY <1>1, Bases, LessIs DEF IsLess
  <2>2. ASSUME NEW j \in 0 + 1 .. Len(c2s') PROVE \E l \in 1 + 1 .. Len(c2s) : c2s'[j] = c2s[l]
    <3>1. j \in 1 .. Len(c2s') /\ j + 1 \in 1 + 1 .. Len(c2s)  BY <2>1
    <3> QED  BY <2>1, <3>1 DEF IsLess
  <2>3. CallGood(m, 1)  BY <1>3, <1>7 DEF CallsGood
  <2>4. stamp' \in [Targets -> Nat]  BY <1>1, Bases
  <2> QED  BY <1>3, <1>7, <1>10, <2>2, <2>3, <2>4, Bases, CallGoodStays
<1>14. ASSUME m.type \in {"subscribe", "subs"}, NEW t \in DOMAIN m.asked,
              m.asked[t] = stamp'[t]
       PROVE  Remains(t)'
  <2>1. \A j \in 0 + 1 .. Len(c2s') : ~TakesOut(c2s'[j], t)  BY <1>13, <1>14 DEF CallGood, TakesOut
  <2> QED  BY <2>1 DEF Remains, TakesOut
<1>15. ASSUME m.type # "unsubscribe" PROVE RequestGood(Request(m.type, m.asked))'
  <2>1. PICK r : r = Request(m.type, m.asked)  OBVIOUS
  <2> SUFFICES RequestGood(r)'  BY <2>1
  <2>2. /\ r.stage = IF m.type = "subscribe" THEN "guard" ELSE "fetch"
        /\ r.left = DOMAIN m.asked /\ r.asked = m.asked /\ r.type = m.type /\ r.got = << >>
    BY <2>1 DEF Request
  <2>3. CASE m.type = "subscribe"  BY <1>14, <2>2, <2>3 DEF RequestGood
  <2>4. CASE m.type = "fetch"  BY <2>2, <2>4 DEF RequestGood
  <2>5. CASE m.type = "subs"
    <3>1. ASSUME NEW t \in DOMAIN m.asked, Matters(m.asked, t)' PROVE Watched(t)'
      <4>1. Enter(Me, DOMAIN m.asked)  BY <1>6, <2>5
      <4>2. Me \in fwd'[t]  BY <1>4, <4>1 DEF Enter
      <4>3. Remains(t)'
        <5>1. m.asked[t] = stamp'[t] \/ t \in acked'  BY <3>1 DEF Matters
        <5>2. t \in acked' => Watched(t)'  BY <1>11 DEF AckedGood
        <5> QED  BY <1>14, <2>5, <5>1, <5>2 DEF Watched
      <4> QED  BY <4>2, <4>3 DEF Watched
    <3>2. Good(r.asked, r.left, r.got)'  BY <2>2, <3>1 DEF Good, Matters
    <3>3. Chained(m.asked)'  BY <1>13, <2>5 DEF CallGood
    <3> QED  BY <2>2, <2>5, <3>2, <3>3 DEF RequestGood, Chained
  <2> QED  BY <1>4, <1>15, <2>3, <2>4, <2>5
<1>16. RequestsGood'
  <2>1. up  BY <1>1, <1>7 DEF LinkGood
  <2>2. \A r \in requests' \ requests :
          r = Request(m.type, m.asked) /\ m.type # "unsubscribe"
    BY <1>6
  <2>3. \A r \in requests' \ requests : r.type = "subs" => r.stage = "fetch"
    BY <2>2 DEF Request
  <2>4. \A r \in requests' \ requests :
          /\ r.type = "subs" => r.stage = "fetch" /\ up
          /\ r.live => RequestGood(r)' /\ (up \/ onServer)
    BY <1>15, <2>1, <2>2, <2>3
  <2> QED  BY <1>1, <1>10, <2>4, RequestsStayGood
<1>17. LinkGood'  BY <1>1, <1>7 DEF LinkGood
<1> QED  BY <1>11, <1>12, <1>16, <1>17 DEF FlowOK

\* The guards let a request pass: the model is under all its targets before one is read.
LEMMA GuardedFlow ==
  ASSUME SubInv, SubInv', FlowOK, NEW r \in requests, Guarded(r)
  PROVE  FlowOK'
<1>1. /\ r.stage = "guard" /\ Enter(Me, DOMAIN r.asked)
      /\ UNCHANGED <<db, up, buffering, buffer, c2s, s2c, onServer, seen, stamp, acked, lossy>>
  BY DEF Guarded, netVars, modelVars, history
<1>2. \A t : Remains(t) => Remains(t)'  BY <1>1, Bases, RemainsIs
<1>3. \A t \in Targets : Me \in fwd[t] \/ t \in DOMAIN r.asked => Me \in fwd'[t]
  BY <1>1 DEF Enter
<1>4. Continues
  <2>1. \A t \in Targets : Watched(t) => Watched(t)'  BY <1>2, <1>3 DEF Watched
  <2> QED  BY <1>1, <1>2, <2>1, ToldSame DEF Continues
<1>5. AckedGood' /\ AnswersGood'
  <2>1. Among(s2c', s2c, {})  BY <1>1, Bases, AmongOld
  <2> QED  BY <1>1, <1>4, <2>1, AnswersStayGood
<1>6. CallsGood'  BY <1>1, <1>4, CallsStayGood
<1>7. PICK done : done = [r EXCEPT !.stage = "fetch"]  OBVIOUS
<1>8. r \in Requests /\ RequestAsked(r) /\ r.asked \in Askings /\ DOMAIN r.asked \subseteq Targets
  BY Bases, AskingsAre DEF Requests
<1>9. /\ done.stage = "fetch" /\ done.asked = r.asked /\ done.left = r.left
      /\ done.got = r.got /\ done.type = r.type /\ done.live = r.live
  BY <1>7, <1>8 DEF Requests
<1>10. ASSUME r.live PROVE RequestGood(done)' /\ (up \/ onServer)
  <2>1. RequestGood(r) /\ (up \/ onServer) /\ AckedGood  BY <1>10 DEF FlowOK, RequestsGood
  <2>2. ASSUME NEW t \in DOMAIN r.asked, Matters(r.asked, t)' PROVE Watched(t)' /\ t \in r.left
    <3>1. r.asked[t] = stamp[t] \/ t \in acked  BY <1>1, <2>2 DEF Matters
    <3>2. Remains(t)  BY <1>1, <2>1, <3>1 DEF RequestGood, AckedGood, Watched
    <3>3. t \in Targets /\ t \in r.left  BY <1>1, <1>8, <2>1 DEF RequestGood
    <3> QED  BY <1>2, <1>3, <3>2, <3>3 DEF Watched
  <2>3. Good(done.asked, done.left, done.got)'  BY <1>9, <2>2 DEF Good, Matters
  <2>4. r.type = "subs" => Chained(done.asked)'
    <3>1. acked \subseteq Targets  BY Bases
    <3>2. Chained(r.asked) => Chained(r.asked)'  BY <1>4, <2>1, <3>1, AckedStays
    <3> QED  BY <1>9, <2>1, <3>2 DEF RequestGood, Chained
  <2> QED  BY <1>1, <1>9, <2>1, <2>3, <2>4 DEF RequestGood
<1>11. RequestsGood'
  <2>1. requests' = (requests \ {r}) \cup (IF r.live THEN {done} ELSE {})
    BY <1>7 DEF Guarded
  <2>2. r.type # "subs"  BY <1>1 DEF FlowOK, RequestsGood
  <2>3. \A x \in requests' \ requests :
          /\ x.type = "subs" => x.stage = "fetch" /\ up
          /\ x.live => RequestGood(x)' /\ (up \/ onServer)
    BY <1>9, <1>10, <2>1, <2>2
  <2> QED  BY <1>1, <1>4, <2>3, RequestsStayGood
<1>12. LinkGood'  BY <1>1 DEF FlowOK, LinkGood
<1> QED  BY <1>5, <1>6, <1>11, <1>12 DEF FlowOK

\* A request is refused.
LEMMA RefuseFlow ==
  ASSUME SubInv, SubInv', FlowOK, NEW r \in requests, Refuse(r)
  PROVE  FlowOK'
<1>1. /\ requests' = requests \ {r}
      /\ UNCHANGED <<db, fwd, up, buffering, buffer, c2s, onServer, seen, stamp, acked, lossy>>
  BY DEF Refuse, modelVars, history
<1>2. PICK m : m = [type |-> "fatalErr"]  OBVIOUS
<1>3. m \in S2CMessages /\ m.type = "fatalErr"  BY <1>2 DEF S2CMessages
<1>4. IF r.type = "subs" THEN s2c' = Append(s2c, m) ELSE s2c' = s2c  BY <1>2 DEF Refuse
<1>5. Continues
  <2>1. \A t : Remains(t) => Remains(t)'  BY <1>1, Bases, RemainsIs
  <2>2. \A t : Watched(t) => Watched(t)'  BY <1>1, <2>1 DEF Watched
  <2>3. \A p : Told(p) => Told(p)'  BY <1>1, <1>3, <1>4, Bases, ToldMore
  <2> QED  BY <1>1, <2>1, <2>2, <2>3 DEF Continues
<1>6. AckedGood' /\ AnswersGood'
  <2>1. AnswerGood(m)'  BY <1>3 DEF AnswerGood
  <2>2. Among(s2c', s2c, {m})  BY <1>3, <1>4, Bases, AmongOld
  <2> QED  BY <1>1, <1>5, <2>1, <2>2, AnswersStayGood
<1>7. CallsGood'  BY <1>1, <1>5, CallsStayGood
<1>8. RequestsGood'
  <2>1. requests' \ requests = {}  BY <1>1
  <2> QED  BY <1>1, <1>5, <2>1, RequestsStayGood
<1>9. LinkGood'
  <2>1. r.type = "subs" => up  BY DEF FlowOK, RequestsGood
  <2> QED  BY <1>1, <1>4, <2>1 DEF FlowOK, LinkGood
<1> QED  BY <1>6, <1>7, <1>8, <1>9 DEF FlowOK

\* One target more is read.
LEMMA GoodRead ==
  ASSUME NEW asked, NEW left, NEW got, NEW t, Good(asked, left, got),
         NEW more, more = Over([p \in Covers[t] |-> db[p]], got)
  PROVE  Good(asked, left \ {t}, more)
<1>1. /\ DOMAIN more = Covers[t] \cup DOMAIN got
      /\ \A p \in DOMAIN more : more[p] = IF p \in Covers[t] THEN db[p] ELSE got[p]
  BY DEF Over
<1>2. \A p : Brings(got, p) => Brings(more, p)  BY <1>1 DEF Brings
<1>3. \A p \in Covers[t] : Brings(more, p)  BY <1>1 DEF Brings
<1> QED  BY <1>2, <1>3 DEF Good

\* What is read is what was written.
LEMMA HasReadOld ==
  ASSUME SubInv, RequestsOld, NEW r \in requests, NEW t \in r.left, NEW done,
         done = HasRead(r, t)
  PROVE  /\ done.got \in Gots /\ done.ver \in 0 .. MaxVer
         /\ Old(done.got) /\ done.ver <= ver
         /\ done.left = r.left \ {t} /\ done.asked = r.asked /\ done.type = r.type
<1>1. /\ r \in Requests /\ t \in Targets /\ r.got \in Gots /\ r.ver \in 0 .. MaxVer
      /\ Old(r.got) /\ r.ver <= ver
  <2>1. r \in Requests  BY Bases
  <2>2. r.left \in SUBSET Targets /\ r.got \in Gots /\ r.ver \in 0 .. MaxVer
    BY <2>1 DEF Requests
  <2> QED  BY <2>1, <2>2 DEF RequestsOld
<1>2. /\ Covers[t] \in SUBSET Paths /\ ver \in 0 .. MaxVer /\ db \in [Paths -> 0 .. MaxVer]
      /\ MaxVer \in Nat
  BY <1>1, Kinds DEF SubInv, StoreOK
<1>3. PICK f : f = [p \in Covers[t] |-> db[p]]  OBVIOUS
<1>4. PICK got, v : got = Over(f, r.got) /\ v = IF Covers[t] = {} THEN r.ver ELSE ver
  OBVIOUS
<1>5. done = [r EXCEPT !.left = r.left \ {t}, !.got = got, !.ver = v]
  BY <1>3, <1>4 DEF HasRead
<1>6. /\ done.left = r.left \ {t} /\ done.got = got /\ done.ver = v
      /\ done.asked = r.asked /\ done.type = r.type
  BY <1>1, <1>5 DEF Requests
<1>7. f \in Gots
  <2>1. DOMAIN f \subseteq Paths /\ f = [p \in DOMAIN f |-> f[p]]  BY <1>2, <1>3
  <2>2. \A p \in DOMAIN f : f[p] \in Values  BY <1>2, <1>3, Kinds
  <2> QED  BY <2>1, <2>2, GotsAre
<1>8. got \in Gots  BY <1>1, <1>4, <1>7, OverIs
<1>9. v \in 0 .. MaxVer /\ v <= ver  BY <1>1, <1>2, <1>4
<1>10. Old(got)
  <2>1. /\ DOMAIN got = Covers[t] \cup DOMAIN r.got
        /\ \A p \in DOMAIN got : got[p] = IF p \in Covers[t] THEN db[p] ELSE r.got[p]
    BY <1>3, <1>4 DEF Over
  <2>2. \A p \in Covers[t] : db[p] <= db[p]  BY <1>2
  <2> QED  BY <1>1, <2>1, <2>2 DEF Old
<1> QED  BY <1>6, <1>8, <1>9, <1>10

\* One target of a request is read, and with the last one the answer goes out.
LEMMA ReadFlow ==
  ASSUME SubInv, SubInv', InStepInv, NEW r \in requests, NEW t \in r.left, Read(r, t)
  PROVE  FlowOK'
<1>1. /\ r.stage = "fetch"
      /\ UNCHANGED <<db, fwd, up, buffering, buffer, c2s, onServer, stamp, ops, lossy>>
  BY DEF Read
<1>2. PICK done : done = HasRead(r, t)  OBVIOUS
<1>3. IF done.left # {}
      THEN /\ requests' = (requests \ {r}) \cup {done}
           /\ UNCHANGED <<s2c, data, memVer, seen, acked>>
      ELSE /\ requests' = requests \ {r}
           /\ s2c' = IF onServer THEN s2c
                     ELSE Append(s2c,
                            [type |-> IF r.type = "subs" THEN "replace" ELSE r.type,
                             asked |-> r.asked, got |-> done.got, ver |-> done.ver])
           /\ IF onServer
              THEN /\ AddData(done.got, done.ver)
                   /\ IF r.type = "fetch" THEN UNCHANGED acked ELSE Confirm(r.asked)
              ELSE UNCHANGED <<data, memVer, seen, acked>>
  BY <1>2 DEF Read
<1>4. /\ r \in Requests /\ r.live /\ AskedOK(r.asked) /\ r.asked \in Askings
      /\ t \in Targets /\ DOMAIN r.asked \subseteq Targets /\ r.got \in Gots
      /\ r.ver \in 0 .. MaxVer /\ r.type \in {"subscribe", "fetch", "subs"}
      /\ r.left \in SUBSET Targets
  <2>1. r \in Requests /\ Begun(r) /\ RequestAsked(r)  BY Bases
  <2>2. r.live /\ AskedOK(r.asked)  BY <1>1, <2>1 DEF Begun, RequestAsked
  <2>3. r.asked \in Askings /\ r.left \in SUBSET Targets  BY <2>1 DEF Requests
  <2> QED  BY <2>1, <2>2, <2>3, AskingsAre DEF Requests
<1>5. /\ FlowOK /\ VersionsOK /\ AckedGood /\ RequestGood(r) /\ (up \/ onServer)
      /\ (r.type = "subs" => up)
  BY <1>4 DEF InStepInv, FlowOK, RequestsGood
<1>6. PICK got : got = Over([p \in Covers[t] |-> db[p]], r.got)  OBVIOUS
<1>7. PICK v : v = done.ver  OBVIOUS
<1>8. /\ done.got \in Gots /\ v \in 0 .. MaxVer /\ Old(done.got)
      /\ done.left = r.left \ {t} /\ done.asked = r.asked /\ done.type = r.type
  BY <1>2, <1>5, <1>7, HasReadOld DEF VersionsOK
<1>9. /\ done.left = r.left \ {t} /\ done.got = got /\ done.ver = v /\ done.asked = r.asked
      /\ done.live = r.live /\ done.stage = "fetch" /\ done.type = r.type
  <2>1. done = [r EXCEPT !.left = r.left \ {t}, !.got = got,
                         !.ver = IF Covers[t] = {} THEN r.ver ELSE ver]
    BY <1>2, <1>6 DEF HasRead
  <2>2. done.live = r.live /\ done.stage = "fetch" /\ done.got = got
    BY <1>1, <1>4, <2>1 DEF Requests
  <2> QED  BY <1>7, <1>8, <2>2
<1>10. got \in Gots /\ v \in 0 .. MaxVer /\ \A p \in DOMAIN got : got[p] <= db[p]
  BY <1>8, <1>9 DEF Old
<1>11. ASSUME r.type # "fetch" PROVE Good(r.asked, done.left, got)
  <2>1. Good(r.asked, r.left, r.got)  BY <1>1, <1>5, <1>11 DEF RequestGood
  <2>2. PICK asked, left, old : asked = r.asked /\ left = r.left /\ old = r.got  OBVIOUS
  <2>3. Good(asked, left \ {t}, got)  BY <1>6, <2>1, <2>2, GoodRead
  <2> QED  BY <1>9, <2>2, <2>3
<1>12. ASSUME UNCHANGED <<seen, acked>>, s2c' = s2c \/ \E x \in S2CMessages : s2c' = Append(s2c, x)
       PROVE  Continues
  <2>1. \A u : Remains(u) => Remains(u)'  BY <1>1, Bases, RemainsIs
  <2>2. \A u : Watched(u) => Watched(u)'  BY <1>1, <2>1 DEF Watched
  <2>3. \A p : Told(p) => Told(p)'  BY <1>1, <1>12, Bases, ToldMore
  <2> QED  BY <1>1, <1>12, <2>1, <2>2, <2>3 DEF Continues
<1>13. PICK m : m = [type |-> IF r.type = "subs" THEN "replace" ELSE r.type,
                     asked |-> r.asked, got |-> done.got, ver |-> done.ver]
  OBVIOUS
<1>14. /\ m \in S2CMessages /\ m.asked = r.asked /\ m.got = got
       /\ m.type = IF r.type = "subs" THEN "replace" ELSE r.type
  <2>1. PICK type \in {"subscribe", "fetch", "replace"} :
          type = IF r.type = "subs" THEN "replace" ELSE r.type
    BY <1>4
  <2>2. m = [type |-> type, asked |-> r.asked, got |-> got, ver |-> v]  BY <1>9, <1>13, <2>1
  <2> QED  BY <1>4, <1>10, <2>1, <2>2 DEF Answers, S2CMessages
<1>15. Continues
  <2>1. CASE done.left # {} \/ ~onServer
    <3>1. UNCHANGED <<seen, acked>> /\ (s2c' = s2c \/ s2c' = Append(s2c, m))
      BY <1>3, <1>13, <2>1
    <3> QED  BY <1>12, <1>14, <3>1
  <2>2. CASE done.left = {} /\ onServer
    <3>1. AddData(got, v) /\ s2c' = s2c
      BY <1>3, <1>9, <2>2
    <3>2. /\ ModelOK /\ db \in [Paths -> Int]
          /\ \A p \in Paths : data[p] <= db[p] /\ seen[p] <= db[p]
      <4>1. db \in [Paths -> 0 .. MaxVer]  BY DEF SubInv, StoreOK
      <4>2. db \in [Paths -> Int]  BY <4>1
      <4> QED  BY <1>5, <4>2 DEF SubInv, VersionsOK, MemoryOld
    <3>3. PICK w : w = db  OBVIOUS
    <3>4. /\ \A p \in Paths : seen[p] = w[p] => seen'[p] = w[p]
          /\ \A p \in DOMAIN got : got[p] = w[p] => seen'[p] = w[p]
      BY <1>10, <3>1, <3>2, <3>3, AddDataTells
    <3>5. \A p \in Paths : Told(p) => Told(p)'
      BY <1>1, <3>1, <3>3, <3>4, Bases, ToldMore
    <3>6. \A u : Remains(u) => Remains(u)'  BY <1>1, Bases, RemainsIs
    <3>7. \A u : Watched(u) => Watched(u)'  BY <1>1, <3>6 DEF Watched
    <3>8. ASSUME NEW u \in acked', u \notin acked PROVE Watched(u)' /\ Sure(u)'
      <4>1. r.type # "fetch" /\ u \in DOMAIN r.asked /\ stamp[u] = r.asked[u]
        BY <1>3, <2>2, <3>8 DEF Confirm
      <4>2. Watched(u) /\ \A p \in Covers[u] : Brings(got, p)
        BY <1>11, <2>2, <4>1 DEF Good, Matters
      <4>3. Covers[u] \subseteq Paths  BY <1>4, <4>1, Kinds
      <4>4. \A p \in Covers[u] : Told(p)'
        <5> SUFFICES ASSUME NEW p \in Covers[u] PROVE Told(p)'  OBVIOUS
        <5>1. CASE Told(p)  BY <3>5, <4>3, <5>1
        <5>2. CASE p \in DOMAIN got /\ got[p] = db[p]
          <6>1. seen'[p] = db'[p]  BY <1>1, <3>3, <3>4, <5>2
          <6> QED  BY <6>1 DEF Told
        <5> QED  BY <4>2, <5>1, <5>2 DEF Brings
      <4> QED  BY <3>7, <4>2, <4>4 DEF Sure
    <3>9. \A u \in Targets : Covers[u] \subseteq Paths  BY Kinds
    <3> QED  BY <1>1, <3>5, <3>6, <3>7, <3>8, <3>9 DEF Continues
  <2> QED  BY <2>1, <2>2
<1>16. ASSUME r.type # "fetch" PROVE Good(r.asked, done.left, got)'
  <2>1. PICK asked, left : asked = r.asked /\ left = done.left  OBVIOUS
  <2>2. Good(asked, left, got)  BY <1>11, <1>16, <2>1
  <2>3. AskedOK(asked) /\ asked \in Askings /\ stamp' \in [Targets -> Nat]
    BY <1>1, <1>4, <2>1, Bases
  <2>4. Good(asked, left, got)'  BY <1>15, <2>2, <2>3, Bases, GoodStays
  <2> QED  BY <2>1, <2>4
<1>17. r.type = "subs" => Chained(r.asked)'
  <2>1. Chained(r.asked) => Chained(r.asked)'  BY <1>5, <1>15, Bases, AckedStays
  <2> QED  BY <1>5, <2>1 DEF RequestGood
<1>18. AckedGood' /\ AnswersGood'
  <2>1. CASE s2c' = s2c
    <3>1. Among(s2c', s2c, {})  BY <2>1, Bases, AmongOld
    <3> QED  BY <1>1, <1>5, <1>15, <3>1, AnswersStayGood
  <2>2. CASE s2c' = Append(s2c, m) /\ done.left = {}
    <3>1. Among(s2c', s2c, {m})  BY <1>14, <2>2, Bases, AmongOld
    <3>2. AnswerGood(m)'
      <4>1. m.type \in {"subscribe", "replace"} => r.type # "fetch"  BY <1>4, <1>14
      <4>2. m.type = "replace" => r.type = "subs"  BY <1>4, <1>14
      <4>3. r.type # "fetch" => Good(m.asked, {}, m.got)'  BY <1>14, <1>16, <2>2
      <4>4. r.type = "subs" => Chained(m.asked)'  BY <1>14, <1>17
      <4> QED  BY <4>1, <4>2, <4>3, <4>4 DEF AnswerGood
    <3> QED  BY <1>1, <1>5, <1>15, <3>1, <3>2, AnswersStayGood
  <2>3. s2c' = s2c \/ (s2c' = Append(s2c, m) /\ done.left = {})  BY <1>3, <1>13
  <2> QED  BY <2>1, <2>2, <2>3
<1>19. CallsGood'  BY <1>1, <1>5, <1>15, CallsStayGood
<1>20. RequestsGood'
  <2>1. RequestGood(done)'
    <3>1. r.type # "fetch" => Good(done.asked, done.left, done.got)'  BY <1>9, <1>16
    <3>2. r.type = "subs" => Chained(done.asked)'  BY <1>9, <1>17
    <3> QED  BY <1>9, <3>1, <3>2 DEF RequestGood
  <2>2. \A x \in requests' \ requests : x = done  BY <1>3
  <2>3. \A x \in requests' \ requests :
          /\ x.type = "subs" => x.stage = "fetch" /\ up
          /\ x.live => RequestGood(x)' /\ (up \/ onServer)
    BY <1>5, <1>9, <2>1, <2>2
  <2> QED  BY <1>1, <1>5, <1>15, <2>3, RequestsStayGood
<1>21. LinkGood'
  <2>1. up \/ s2c' = s2c  BY <1>3, <1>5
  <2> QED  BY <1>1, <1>5, <2>1 DEF FlowOK, LinkGood
<1> QED  BY <1>18, <1>19, <1>20, <1>21 DEF FlowOK

\* A write counts the targets that the model is under.
LEMMA MatchIs ==
  ASSUME IndexesOK, NEW p, NEW n,
         n = Cardinality({t \in Targets : Me \in fwd[t] /\ p \in Covers[t]})
  PROVE  n \in Nat /\ \A t \in Targets : Me \in fwd[t] /\ p \in Covers[t] => n > 0
<1> DEFINE T == {t \in Targets : Me \in fwd[t] /\ p \in Covers[t]}
<1>1. rev[Me] \in FiniteTargets /\ T \subseteq rev[Me]  BY Kinds DEF IndexesOK
<1>2. IsFiniteSet(T) /\ n = Cardinality(T)
  <2>1. n = Cardinality(T)  OBVIOUS
  <2> HIDE DEF T
  <2> QED  BY <1>1, <2>1, FS_Subset DEF FiniteTargets
<1>3. \A t \in Targets : Me \in fwd[t] /\ p \in Covers[t] => t \in T  OBVIOUS
<1> HIDE DEF T
<1>4. n \in Nat  BY <1>2, FS_CardinalityType
<1>5. n = 0 => T = {}  BY <1>2, FS_EmptySet
<1>6. \A t \in Targets : Me \in fwd[t] /\ p \in Covers[t] => n # 0  BY <1>3, <1>5
<1>7. n # 0 => n > 0  BY <1>4
<1> QED  BY <1>4, <1>6, <1>7

\* Nobody waits for an answer, and nothing is on its way.
LEMMA QuietFlow ==
  ASSUME c2s' = << >>, s2c' = << >>, \A r \in requests' : ~r.live /\ r.type # "subs",
         AckedGood', up' \/ onServer' \/ buffering' \/ lossy'
  PROVE  FlowOK'
<1>1. Len(c2s') = 0 /\ Len(s2c') = 0 /\ 1 .. 0 = {}  OBVIOUS
<1>2. CallsGood' /\ AnswersGood'  BY <1>1 DEF CallsGood, AnswersGood
<1>3. RequestsGood'  BY DEF RequestsGood
<1>4. LinkGood'  BY DEF LinkGood
<1> QED  BY <1>2, <1>3, <1>4 DEF FlowOK

\* A write reaches the model, its socket or its buffer, if the model is under a target
\* of the path.
LEMMA WriteFlow ==
  ASSUME SubInv, SubInv', InStepInv, NEW p \in Paths, Write(p)
  PROVE  FlowOK'
<1>1. PICK n : n = Cardinality({t \in Targets : Me \in fwd[t] /\ p \in Covers[t]})  OBVIOUS
<1>2. PICK txn : txn = [type |-> "txn", path |-> p, ver |-> ver + 1]  OBVIOUS
<1>3. /\ ver < MaxVer /\ ver' = ver + 1 /\ db' = [db EXCEPT ![p] = ver + 1]
      /\ IF onServer /\ n > 0 THEN AddData([x \in {p} |-> ver + 1], ver + 1)
         ELSE UNCHANGED <<data, memVer, seen>>
      /\ s2c' = IF up THEN s2c \o Sends(txn, n) ELSE s2c
      /\ buffer' = IF buffering THEN buffer \o [k \in 1 .. n |-> txn] ELSE buffer
      /\ UNCHANGED <<fwd, requests, up, buffering, c2s, onServer, ops, stamp, acked, lossy>>
  BY <1>1, <1>2 DEF Write
<1>4. /\ FlowOK /\ VersionsOK /\ AckedGood /\ LinkGood /\ IndexesOK /\ ModelOK /\ NetOK
      /\ db \in [Paths -> 0 .. MaxVer] /\ ver \in 0 .. MaxVer /\ MaxVer \in Nat
  BY Kinds DEF InStepInv, FlowOK, SubInv, StoreOK
<1>5. n \in Nat /\ \A t \in Targets : Me \in fwd[t] /\ p \in Covers[t] => n > 0
  BY <1>1, <1>4, MatchIs
<1>6. /\ ver + 1 \in 0 .. MaxVer /\ ver + 1 \in 1 .. MaxVer /\ ver + 1 \in Values
      /\ ver \in Nat /\ db'[p] = ver + 1 /\ \A q \in Paths : q # p => db'[q] = db[q]
  <2>1. ver + 1 \in 0 .. MaxVer /\ ver + 1 \in 1 .. MaxVer  BY <1>3, <1>4
  <2> QED  BY <1>3, <1>4, <2>1, Kinds
<1>7. txn \in Txns /\ txn \in S2CMessages /\ txn.type = "txn" /\ txn.ver = ver + 1 /\ txn.path = p
  BY <1>2, <1>6 DEF Txns, S2CMessages
<1>8. /\ \A q \in Paths : q # p /\ seen[q] = db[q] => seen'[q] = db'[q]
      /\ onServer /\ n > 0 => seen'[p] = db'[p]
  <2>1. CASE onServer /\ n > 0
    <3>1. PICK f : f = [x \in {p} |-> ver + 1]  OBVIOUS
    <3>2. DOMAIN f \subseteq Paths /\ f = [x \in DOMAIN f |-> f[x]]  BY <3>1
    <3>3. \A x \in DOMAIN f : f[x] \in Values  BY <1>6, <3>1
    <3>4. f \in Gots  BY <3>2, <3>3, GotsAre
    <3>5. AddData(f, ver + 1)  BY <1>3, <2>1, <3>1
    <3>6. PICK w : w = db'  OBVIOUS
    <3>7. w \in [Paths -> Int] /\ w[p] = ver + 1 /\ \A q \in Paths : q # p => w[q] = db[q]
      <4>1. w \in [Paths -> 0 .. MaxVer]  BY <3>6 DEF SubInv, StoreOK
      <4>2. w \in [Paths -> Int]  BY <4>1
      <4> QED  BY <1>6, <3>6, <4>2
    <3>8. \A q \in Paths : data[q] <= w[q] /\ seen[q] <= w[q]
      <4> SUFFICES ASSUME NEW q \in Paths PROVE data[q] <= w[q] /\ seen[q] <= w[q]
        OBVIOUS
      <4>1. db[q] <= ver /\ data[q] <= db[q] /\ seen[q] <= db[q]
        BY <1>4 DEF VersionsOK, MemoryOld
      <4>2. data[q] \in Int /\ seen[q] \in Int /\ db[q] \in Int
        BY <1>4 DEF ModelOK, Values, Unread
      <4> QED  BY <1>6, <3>7, <4>1, <4>2
    <3>9. \A x \in DOMAIN f : f[x] <= w[x]  BY <1>6, <3>1, <3>7
    <3>10. /\ \A q \in Paths : seen[q] = w[q] => seen'[q] = w[q]
           /\ \A q \in DOMAIN f : f[q] = w[q] => seen'[q] = w[q]
      BY <1>4, <1>6, <3>4, <3>5, <3>7, <3>8, <3>9, AddDataTells
    <3> QED  BY <1>6, <3>1, <3>6, <3>7, <3>10
  <2>2. CASE ~ (onServer /\ n > 0)  BY <1>3, <1>6, <2>2
  <2> QED  BY <2>1, <2>2
<1>9. s2c' = s2c \/ s2c' = Append(s2c, txn)
  <2>1. Sends(txn, n) = <<txn>> \/ Sends(txn, n) = << >>  BY DEF Sends
  <2>2. s2c \o <<txn>> = Append(s2c, txn) /\ s2c \o << >> = s2c  BY <1>7, Bases
  <2> QED  BY <1>3, <2>1, <2>2
<1>10. up /\ n > 0 => s2c' = Append(s2c, txn)
  <2>1. sockVer \in 0 .. MaxVer /\ sockVer <= ver  BY <1>4 DEF NetOK, VersionsOK, MemoryOld
  <2>2. ver + 1 > sockVer  BY <1>6, <2>1
  <2>3. n > 0 => Sends(txn, n) = <<txn>>  BY <1>7, <2>2 DEF Sends
  <2>4. s2c \o <<txn>> = Append(s2c, txn)  BY <1>7, Bases
  <2> QED  BY <1>3, <2>3, <2>4
<1>11. \A k \in 1 .. Len(s2c) : k \in 1 .. Len(s2c') /\ s2c'[k] = s2c[k]
  <2>1. CASE s2c' = s2c  BY <2>1
  <2>2. CASE s2c' = Append(s2c, txn)
    <3>1. IsMore(s2c', s2c, txn) /\ Len(s2c) \in Nat  BY <1>7, <2>2, Bases, MoreIs
    <3> QED  BY <3>1 DEF IsMore
  <2> QED  BY <1>9, <2>1, <2>2
<1>12. /\ \A k \in 1 .. Len(buffer) : k \in 1 .. Len(buffer') /\ buffer'[k] = buffer[k]
       /\ buffering /\ n > 0 => \E k \in 1 .. Len(buffer') : buffer'[k] = txn
  <2>1. buffer \in Seq(Txns) /\ Len(buffer) \in Nat  BY <1>4 DEF NetOK
  <2>2. CASE ~buffering  BY <1>3, <2>2
  <2>3. CASE buffering
    <3>1. PICK more : more = [k \in 1 .. n |-> txn]  OBVIOUS
    <3>2. more \in Seq(Txns) /\ Len(more) = n /\ \A k \in 1 .. n : more[k] = txn
      BY <1>5, <1>7, <3>1
    <3>3. buffer' = buffer \o more  BY <1>3, <2>3, <3>1
    <3>4. /\ Len(buffer') = Len(buffer) + n
          /\ \A k \in 1 .. Len(buffer) : buffer'[k] = buffer[k]
      BY <2>1, <3>2, <3>3
    <3>5. \A k \in 1 .. Len(buffer) : k \in 1 .. Len(buffer')  BY <1>5, <2>1, <3>4
    <3>6. ASSUME n > 0 PROVE \E k \in 1 .. Len(buffer') : buffer'[k] = txn
      <4>1. Len(buffer) + 1 \in 1 .. Len(buffer')  BY <1>5, <2>1, <3>4, <3>6
      <4>2. (buffer \o more)[Len(buffer) + 1] = more[1]
        BY <1>5, <2>1, <3>2, <3>6
      <4>3. more[1] = txn  BY <1>5, <3>2, <3>6
      <4> QED  BY <3>3, <4>1, <4>2, <4>3
    <3> QED  BY <3>4, <3>5, <3>6
  <2> QED  BY <2>2, <2>3
<1>13. ASSUME NEW q \in Paths, q # p, Told(q) PROVE Told(q)'
  <2>1. db'[q] = db[q]  BY <1>6, <1>13
  <2>2. CASE seen[q] = db[q]  BY <1>8, <1>13, <2>2 DEF Told
  <2>3. ASSUME NEW k \in 1 .. Len(s2c), Carries(s2c[k], q) PROVE Told(q)'
    <3>1. k \in 1 .. Len(s2c') /\ s2c'[k] = s2c[k]  BY <1>11
    <3>2. Carries(s2c[k], q)'  BY <2>1, <2>3, <3>1 DEF Carries, Newest
    <3> QED  BY <3>1, <3>2 DEF Told, OnItsWay
  <2>4. ASSUME NEW k \in 1 .. Len(buffer), Newest(buffer[k], q) PROVE Told(q)'
    <3>1. k \in 1 .. Len(buffer') /\ buffer'[k] = buffer[k]  BY <1>12
    <3>2. Newest(buffer[k], q)'  BY <2>1, <2>4, <3>1 DEF Newest
    <3> QED  BY <3>1, <3>2 DEF Told, OnItsWay
  <2> QED  BY <1>13, <2>2, <2>3, <2>4 DEF Told, OnItsWay
<1>14. ASSUME n > 0, up \/ onServer \/ buffering PROVE Told(p)'
  <2>1. CASE onServer  BY <1>8, <1>14, <2>1 DEF Told
  <2>2. CASE up
    <3>1. IsMore(s2c', s2c, txn) /\ Len(s2c) \in Nat  BY <1>7, <1>10, <1>14, <2>2, Bases, MoreIs
    <3>2. PICK k : k = Len(s2c) + 1  OBVIOUS
    <3>3. k \in 1 .. Len(s2c') /\ s2c'[k] = txn  BY <3>1, <3>2 DEF IsMore
    <3>4. Newest(s2c[k], p)'  BY <1>6, <1>7, <3>3 DEF Newest
    <3>5. Carries(s2c[k], p)'  BY <1>7, <3>3, <3>4 DEF Carries
    <3> QED  BY <3>3, <3>5 DEF Told, OnItsWay
  <2>3. CASE buffering
    <3>1. PICK k \in 1 .. Len(buffer') : buffer'[k] = txn  BY <1>12, <1>14, <2>3
    <3>2. Newest(buffer[k], p)'  BY <1>6, <1>7, <3>1 DEF Newest
    <3> QED  BY <3>1, <3>2 DEF Told, OnItsWay
  <2> QED  BY <1>14, <2>1, <2>2, <2>3
<1>15. \A u : Remains(u) => Remains(u)'  BY <1>3, Bases, RemainsIs
<1>16. \A u : Watched(u) => Watched(u)'  BY <1>3, <1>15 DEF Watched
<1>17. CASE up \/ onServer \/ buffering
  <2>1. Continues
    <3>1. ASSUME NEW u \in Targets, Watched(u), NEW q \in Covers[u]
          PROVE  (Told(q) => Told(q)') /\ (db'[q] = db[q] \/ Told(q)')
      <4>1. q \in Paths  BY Kinds
      <4>2. CASE q = p
        <5>1. n > 0  BY <1>5, <3>1, <4>2 DEF Watched
        <5> QED  BY <1>14, <1>17, <4>2, <5>1
      <4>3. CASE q # p  BY <1>6, <1>13, <4>1, <4>3
      <4> QED  BY <4>2, <4>3
    <3> QED  BY <1>3, <1>15, <1>16, <3>1 DEF Continues
  <2>2. AckedGood' /\ AnswersGood'
    <3>1. Among(s2c', s2c, {txn})  BY <1>7, <1>9, Bases, AmongOld
    <3>2. AnswerGood(txn)'  BY <1>7 DEF AnswerGood
    <3> QED  BY <1>3, <1>4, <2>1, <3>1, <3>2, AnswersStayGood
  <2>3. CallsGood'  BY <1>3, <1>4, <2>1, CallsStayGood
  <2>4. RequestsGood'
    <3>1. requests' \ requests = {}  BY <1>3
    <3> QED  BY <1>3, <1>4, <2>1, <3>1, RequestsStayGood
  <2>5. LinkGood'  BY <1>3, <1>4 DEF LinkGood
  <2> QED  BY <2>2, <2>3, <2>4, <2>5 DEF FlowOK
<1>18. CASE ~ (up \/ onServer \/ buffering)
  <2>1. c2s' = << >> /\ s2c' = << >> /\ lossy'  BY <1>3, <1>4, <1>18 DEF LinkGood
  <2>2. \A r \in requests' : ~r.live /\ r.type # "subs"
    BY <1>3, <1>4, <1>18 DEF FlowOK, RequestsGood
  <2>3. AckedGood'  BY <1>3, <1>4, <1>16, <2>1 DEF AckedGood
  <2> QED  BY <2>1, <2>2, <2>3, QuietFlow
<1> QED  BY <1>17, <1>18

\* Others come and go.
LEMMA OtherFlow ==
  ASSUME SubInv, SubInv', FlowOK, NEW o \in Others, NEW t \in OtherTargets,
         OtherSubscribe(o, t) \/ OtherUnsubscribe(o, t)
  PROVE  FlowOK'
<1>1. UNCHANGED <<db, requests, up, buffering, buffer, c2s, s2c, onServer, seen, stamp, acked,
                  lossy>>
  BY DEF OtherSubscribe, OtherUnsubscribe, netVars, modelVars, history
<1>2. /\ IndexesOK /\ Me \in Subscribers /\ o \in Subscribers /\ o # Me /\ t \in Targets
  BY Kinds, SubscriptionsAssumption DEF SubInv
<1>3. \A u \in Targets : Me \in fwd[u] => Me \in fwd'[u]
  <2>1. CASE OtherSubscribe(o, t)
    <3>1. Enter(o, {t})  BY <2>1 DEF OtherSubscribe
    <3> QED  BY <3>1 DEF Enter
  <2>2. CASE OtherUnsubscribe(o, t)
    <3>1. Leave(o, t)  BY <2>2 DEF OtherUnsubscribe
    <3> QED  BY <1>2, <3>1, LeaveTakes
  <2> QED  BY <2>1, <2>2
<1>4. \A u : Remains(u) => Remains(u)'  BY <1>1, Bases, RemainsIs
<1>5. Continues
  <2>1. \A u \in Targets : Watched(u) => Watched(u)'  BY <1>3, <1>4 DEF Watched
  <2> QED  BY <1>1, <1>4, <2>1, ToldSame DEF Continues
<1>6. AckedGood' /\ AnswersGood'
  <2>1. Among(s2c', s2c, {})  BY <1>1, Bases, AmongOld
  <2> QED  BY <1>1, <1>5, <2>1, AnswersStayGood
<1>7. CallsGood'  BY <1>1, <1>5, CallsStayGood
<1>8. RequestsGood'
  <2>1. requests' \ requests = {}  BY <1>1
  <2> QED  BY <1>1, <1>5, <2>1, RequestsStayGood
<1>9. LinkGood'  BY <1>1 DEF FlowOK, LinkGood
<1> QED  BY <1>6, <1>7, <1>8, <1>9 DEF FlowOK

\* Of the requests whose model has gone, nobody waits for an answer.
LEMMA AbandonedQuiet ==
  ASSUME SubInv, FlowOK
  PROVE  \A r \in Abandoned : ~r.live /\ r.type # "subs"
<1> SUFFICES ASSUME NEW x \in requests, x.stage = "guard"
             PROVE  ~HasGone(x).live /\ HasGone(x).type # "subs"
  BY DEF Abandoned
<1>1. x \in Requests /\ x.type # "subs"  BY Bases DEF FlowOK, RequestsGood
<1>2. PICK a : a = [t \in DOMAIN x.asked |-> 0]  OBVIOUS
<1>3. HasGone(x) = [x EXCEPT !.live = FALSE, !.asked = a]  BY <1>2 DEF HasGone
<1>4. ~HasGone(x).live /\ HasGone(x).type = x.type  BY <1>1, <1>3 DEF Requests
<1> QED  BY <1>1, <1>4

\* The model goes to the browser: the store buffers for it.
LEMMA BundleFlow ==
  ASSUME SubInv, SubInv', FlowOK, Bundle
  PROVE  FlowOK'
<1>1. /\ onServer /\ buffering' = TRUE /\ requests' = Abandoned
      /\ UNCHANGED <<db, fwd, up, buffer, c2s, s2c, acked, seen, lossy>>
  BY DEF Bundle
<1>2. c2s' = << >> /\ s2c' = << >>  BY <1>1 DEF SubInv, NetOK, FlowOK, LinkGood
<1>3. \A t : Remains(t)'  BY <1>2, Bases, RemainsIs
<1>4. AckedGood'  BY <1>1, <1>3, ToldSame DEF FlowOK, AckedGood, Watched, Sure
<1>5. \A r \in requests' : ~r.live /\ r.type # "subs"  BY <1>1, AbandonedQuiet
<1> QED  BY <1>1, <1>2, <1>4, <1>5, QuietFlow

\* A socket: the first message has what was buffered.
LEMMA ConnectFlow ==
  ASSUME SubInv, SubInv', FlowOK, Connect
  PROVE  FlowOK'
<1>1. /\ ~onServer /\ ~up /\ up' = TRUE /\ buffer' = << >>
      /\ UNCHANGED <<db, fwd, requests, c2s, onServer, acked, seen, lossy>>
  BY DEF Connect, storeVars, modelVars, history
<1>2. PICK m : m = IF buffering THEN [type |-> "newTxns", txns |-> buffer]
                   ELSE [type |-> "resync"]
  OBVIOUS
<1>3. s2c' = <<m>>  BY <1>2 DEF Connect
<1>4. Len(s2c') = 1 /\ 1 .. 1 = {1} /\ s2c'[1] = m  BY <1>3
<1>5. m.type \in {"newTxns", "resync"}  BY <1>2
<1>6. /\ c2s' = << >> /\ s2c = << >> /\ (buffering \/ lossy) /\ AckedGood
      /\ \A r \in requests : r.type # "subs" /\ ~r.live
  BY <1>1 DEF FlowOK, LinkGood, RequestsGood
<1>7. ASSUME buffering, NEW p, Told(p) PROVE Told(p)'
  <2>1. CASE seen[p] = db[p]  BY <1>1, <2>1 DEF Told
  <2>2. CASE OnItsWay(p)
    <3>1. Len(s2c) = 0 /\ 1 .. 0 = {}  BY <1>6
    <3>2. PICK k \in 1 .. Len(buffer) : Newest(buffer[k], p)
      BY <2>2, <3>1 DEF OnItsWay
    <3>3. m.type = "newTxns" /\ m.txns = buffer  BY <1>2, <1>7
    <3>4. \E i \in 1 .. Len(m.txns) : m.txns[i].path = p /\ m.txns[i].ver = db'[p]
      BY <1>1, <3>2, <3>3 DEF Newest
    <3>5. PICK j : j = 1  OBVIOUS
    <3>6. j \in 1 .. Len(s2c') /\ s2c'[j] = m  BY <1>4, <3>5
    <3>7. Carries(s2c[j], p)'  BY <3>3, <3>4, <3>6 DEF Carries, Newest
    <3> QED  BY <3>6, <3>7 DEF Told, OnItsWay
  <2> QED  BY <1>7, <2>1, <2>2 DEF Told
<1>8. AckedGood'
  <2>1. \A t : Remains(t)'  BY <1>6, Bases, RemainsIs
  <2> QED  BY <1>1, <1>6, <1>7, <2>1 DEF AckedGood, Watched, Sure
<1>9. AnswersGood'  BY <1>4, <1>5 DEF AnswersGood, AnswerGood
<1>10. CallsGood' /\ RequestsGood'
  <2>1. Len(c2s') = 0 /\ 1 .. 0 = {}  BY <1>6
  <2> QED  BY <1>1, <1>6, <2>1 DEF CallsGood, RequestsGood
<1>11. LinkGood'  BY <1>1 DEF LinkGood
<1> QED  BY <1>8, <1>9, <1>10, <1>11 DEF FlowOK

\* The connection breaks: if it took nothing, nothing was on its way.
LEMMA DisconnectFlow ==
  ASSUME SubInv, SubInv', FlowOK, Drop \/ Fatal
  PROVE  FlowOK'
<1>1. /\ up /\ c2s' = << >> /\ s2c' = << >> /\ buffering' = TRUE /\ requests' = Abandoned
      /\ lossy' = (lossy \/ \E k \in DOMAIN s2c : s2c[k].type \in {"txn", "newTxns"})
      /\ UNCHANGED <<db, fwd, buffer, acked, seen>>
  BY DEF Drop, Fatal, Disconnected, modelVars
<1>2. ASSUME ~lossy', NEW p, Told(p) PROVE Told(p)'
  <2>1. \A k \in 1 .. Len(s2c) : ~Carries(s2c[k], p)  BY <1>1, <1>2, Bases DEF Carries
  <2>2. seen[p] = db[p] \/ \E k \in 1 .. Len(buffer) : Newest(buffer[k], p)
    BY <1>2, <2>1 DEF Told, OnItsWay
  <2> QED  BY <1>1, <2>2 DEF Told, OnItsWay, Newest
<1>3. AckedGood'
  <2>1. \A t : Remains(t)'  BY <1>1, Bases, RemainsIs
  <2>2. AckedGood  BY DEF FlowOK
  <2>3. ~lossy' => ~lossy  BY <1>1
  <2> QED  BY <1>1, <1>2, <2>1, <2>2, <2>3 DEF AckedGood, Watched, Sure
<1>4. \A r \in requests' : ~r.live /\ r.type # "subs"  BY <1>1, AbandonedQuiet
<1> QED  BY <1>1, <1>3, <1>4, QuietFlow

\* The buffer goes.
LEMMA ExpireFlow ==
  ASSUME SubInv, SubInv', FlowOK, Expire
  PROVE  FlowOK'
<1>1. /\ buffering /\ lossy' = TRUE
      /\ UNCHANGED <<db, fwd, requests, c2s, s2c, up, onServer, acked, seen>>
  BY DEF Expire, storeVars, modelVars
<1>2. ~up /\ ~onServer  BY <1>1 DEF SubInv, NetOK
<1>3. c2s' = << >> /\ s2c' = << >> /\ AckedGood /\ RequestsGood
  BY <1>1, <1>2 DEF FlowOK, LinkGood
<1>4. \A r \in requests' : ~r.live /\ r.type # "subs"
  BY <1>1, <1>2, <1>3 DEF RequestsGood
<1>5. AckedGood'
  <2>1. \A t : Remains(t)'  BY <1>3, Bases, RemainsIs
  <2> QED  BY <1>1, <1>3, <2>1 DEF AckedGood, Watched
<1> QED  BY <1>1, <1>3, <1>4, <1>5, QuietFlow

\* A list of transactions, in the order of their versions and all newer than the memory,
\* leaves in it the newest of every path that it has, and nothing newer than was written.
LEMMA TxnsTell ==
  ASSUME ModelOK, StoreOK, MemoryOld, NEW txns \in Seq(Txns), TxnsGood(txns), ApplyTxns(txns)
  PROVE  /\ \A p \in Paths :
              /\ data'[p] <= db[p] /\ seen[p] <= seen'[p] /\ seen'[p] <= db[p]
              /\ seen[p] = db[p] => seen'[p] = db[p]
              /\ (\E i \in 1 .. Len(txns) : Newest(txns[i], p)) => seen'[p] = db[p]
         /\ \A n \in Nat : memVer < n /\ (\A i \in 1 .. Len(txns) : txns[i].ver < n) => memVer' < n
<1>1. PICK start : start = [data |-> data, ver |-> memVer]  OBVIOUS
<1>2. Applied(txns) = AppliedFrom(start, txns)  BY <1>1 DEF Applied, AppliedFrom
<1>3. PICK v : /\ v[0] = start
               /\ \A k \in 1 .. Len(txns) : v[k] = OnTxn(v[k - 1], txns[k])
               /\ AppliedFrom(start, txns) = v[Len(txns)]
  BY ApplyingSteps
<1>4. /\ Len(txns) \in Nat /\ db \in [Paths -> 0 .. MaxVer] /\ MaxVer \in Nat
      /\ \A k \in 1 .. Len(txns) :
           /\ txns[k].path \in Paths /\ txns[k].ver \in 1 .. MaxVer
           /\ txns[k].ver \in Nat /\ txns[k].ver <= db[txns[k].path] /\ memVer < txns[k].ver
      /\ \A i, j \in 1 .. Len(txns) : i < j => txns[i].ver < txns[j].ver \/ txns[i] = txns[j]
  <2>1. ASSUME NEW k \in 1 .. Len(txns)
        PROVE  txns[k].path \in Paths /\ txns[k].ver \in 1 .. MaxVer /\ txns[k].ver \in Nat
    <3>1. txns[k] \in Txns  OBVIOUS
    <3>2. txns[k].path \in Paths /\ txns[k].ver \in 1 .. MaxVer  BY <3>1 DEF Txns
    <3> QED  BY <3>2, Kinds
  <2>2. \A k \in 1 .. Len(txns) : txns[k].ver <= db[txns[k].path] /\ memVer < txns[k].ver
    BY DEF TxnsGood, TxnOld
  <2> QED  BY <2>1, <2>2, Kinds DEF StoreOK, TxnsGood
<1> DEFINE Fine(k) ==
             /\ v[k].data \in [Paths -> Values] /\ v[k].ver \in 0 .. MaxVer
             /\ \A p \in Paths : v[k].data[p] <= db[p]
             /\ \A p \in Paths :
                  (\E i \in 1 .. k : Newest(txns[i], p)) => v[k].data[p] = db[p]
             /\ \A n \in Nat : memVer < n /\ (\A i \in 1 .. k : txns[i].ver < n) => v[k].ver < n
<1>5. Fine(0)
  <2>1. v[0].data = data /\ v[0].ver = memVer /\ 1 .. 0 = {}  BY <1>1, <1>3
  <2>2. data \in [Paths -> Values] /\ memVer \in 0 .. MaxVer  BY DEF ModelOK
  <2>3. \A p \in Paths : data[p] <= db[p]  BY DEF MemoryOld
  <2> QED  BY <2>1, <2>2, <2>3
<1>6. ASSUME NEW k \in 1 .. Len(txns), Fine(k - 1) PROVE Fine(k)
  <2>1. PICK x, y : x = v[k - 1] /\ y = txns[k]  OBVIOUS
  <2>2. v[k] = OnTxn(x, y)  BY <1>3, <2>1
  <2>3. /\ x.data \in [Paths -> Values] /\ x.ver \in 0 .. MaxVer
        /\ \A p \in Paths : x.data[p] <= db[p]
        /\ \A p \in Paths :
             (\E i \in 1 .. k - 1 : Newest(txns[i], p)) => x.data[p] = db[p]
        /\ \A n \in Nat :
             memVer < n /\ (\A i \in 1 .. k - 1 : txns[i].ver < n) => x.ver < n
    BY <1>6, <2>1
  <2> HIDE DEF Fine
  <2>4. /\ y.path \in Paths /\ y.ver \in 1 .. MaxVer /\ y.ver \in Nat /\ y.ver <= db[y.path]
        /\ memVer < y.ver /\ y.ver \in Values
    <3>1. y.ver \in 1 .. MaxVer  BY <1>4, <2>1
    <3>2. y.ver \in 0 .. MaxVer  BY <1>4, <3>1
    <3> QED  BY <1>4, <2>1, <3>1, <3>2, Kinds
  <2>5. \A i \in 1 .. k - 1 :
          /\ i \in 1 .. Len(txns) /\ txns[i].ver \in Nat
          /\ txns[i].ver < y.ver \/ txns[i] = y
    BY <1>4, <2>1
  <2>6. \A i \in 1 .. k : i \in 1 .. k - 1 \/ (i = k /\ txns[i] = y)  BY <1>4, <2>1
  <2>7. \A i \in 1 .. k - 1 : i \in 1 .. k  BY <1>4
  <2>8. CASE y.ver > x.ver
    <3>1. PICK f : f = [p \in {y.path} |-> y.ver]  OBVIOUS
    <3>2. PICK d : d = Over(f, x.data)  OBVIOUS
    <3>3. v[k] = [data |-> d, ver |-> y.ver]  BY <2>2, <2>8, <3>1, <3>2 DEF OnTxn
    <3>4. v[k].data = d /\ v[k].ver = y.ver  BY <3>3
    <3>5. /\ d \in [Paths -> Values]
          /\ \A p \in Paths : d[p] = IF p = y.path THEN y.ver ELSE x.data[p]
      <4>1. DOMAIN f = {y.path} /\ DOMAIN x.data = Paths /\ f[y.path] = y.ver
        BY <2>3, <3>1
      <4>2. DOMAIN f \cup DOMAIN x.data = Paths  BY <2>4, <4>1
      <4>3. d = [p \in Paths |-> IF p = y.path THEN y.ver ELSE x.data[p]]
        BY <3>2, <4>1, <4>2 DEF Over
      <4> QED  BY <2>3, <2>4, <4>3
    <3>6. \A p \in Paths : d[p] <= db[p]  BY <2>3, <2>4, <3>5
    <3>7. ASSUME NEW p \in Paths, NEW i \in 1 .. k, Newest(txns[i], p) PROVE d[p] = db[p]
      <4>1. CASE i \in 1 .. k - 1
        <5>1. x.data[p] = db[p] /\ txns[i].ver = db[p]  BY <2>3, <3>7, <4>1 DEF Newest
        <5>2. p = y.path => y.ver = db[p]
          <6>1. txns[i].ver < y.ver \/ txns[i].ver = y.ver  BY <2>5, <4>1
          <6>2. db[p] \in Nat  BY <1>4
          <6> QED  BY <2>4, <5>1, <6>1, <6>2
        <5> QED  BY <3>5, <5>1, <5>2
      <4>2. CASE txns[i] = y  BY <3>5, <3>7, <4>2 DEF Newest
      <4> QED  BY <2>6, <4>1, <4>2
    <3>8. \A n \in Nat : (\A i \in 1 .. k : txns[i].ver < n) => y.ver < n
      BY <1>4, <2>1
    <3>9. y.ver \in 0 .. MaxVer  BY <1>4, <2>4
    <3>10. v[k].data \in [Paths -> Values] /\ v[k].ver \in 0 .. MaxVer  BY <3>4, <3>5, <3>9
    <3>11. \A p \in Paths : v[k].data[p] <= db[p]  BY <3>4, <3>6
    <3>12. \A p \in Paths : (\E i \in 1 .. k : Newest(txns[i], p)) => v[k].data[p] = db[p]
      BY <3>4, <3>7
    <3>13. \A n \in Nat :
             memVer < n /\ (\A i \in 1 .. k : txns[i].ver < n) => v[k].ver < n
      BY <3>4, <3>8
    <3> QED  BY <3>10, <3>11, <3>12, <3>13 DEF Fine
  <2>9. CASE ~ (y.ver > x.ver)
    <3>1. v[k] = x  BY <2>2, <2>9 DEF OnTxn
    <3>2. \E i \in 1 .. k - 1 : txns[i] = y
      <4> SUFFICES ASSUME \A i \in 1 .. k - 1 : txns[i] # y PROVE FALSE  OBVIOUS
      <4>1. \A i \in 1 .. k - 1 : txns[i].ver < y.ver  BY <2>5
      <4>2. x.ver < y.ver  BY <2>3, <2>4, <4>1
      <4>3. x.ver \in Int /\ y.ver \in Int  BY <1>4, <2>3, <2>4
      <4> QED  BY <2>9, <4>2, <4>3
    <3>3. ASSUME NEW p \in Paths, NEW i \in 1 .. k, Newest(txns[i], p) PROVE x.data[p] = db[p]
      <4>1. \E j \in 1 .. k - 1 : Newest(txns[j], p)  BY <2>6, <3>2, <3>3
      <4> QED  BY <2>3, <4>1
    <3>4. \A n \in Nat : (\A i \in 1 .. k : txns[i].ver < n) => \A i \in 1 .. k - 1 : txns[i].ver < n
      BY <2>7
    <3> QED  BY <2>3, <3>1, <3>3, <3>4 DEF Fine
  <2> QED  BY <2>8, <2>9
<1> DEFINE Bad == {k \in 0 .. Len(txns) : ~Fine(k)}
<1> HIDE DEF Fine
<1>7. ASSUME Bad # {} PROVE FALSE
  <2>1. PICK k \in Bad : \A m \in Bad : k <= m
    <3>1. Bad \in SUBSET Nat  BY <1>4
    <3> HIDE DEF Bad
    <3> QED  BY <1>7, <3>1, LeastOf
  <2>2. k \in 0 .. Len(txns) /\ ~Fine(k)  BY <2>1
  <2>3. k # 0  BY <1>5, <2>2
  <2>4. k \in 1 .. Len(txns) /\ k - 1 \in 0 .. Len(txns) /\ ~ (k <= k - 1)  BY <1>4, <2>2, <2>3
  <2>5. k - 1 \notin Bad
    <3> HIDE DEF Bad
    <3> QED  BY <2>1, <2>4
  <2>6. Fine(k - 1)  BY <2>4, <2>5
  <2> QED  BY <1>6, <2>2, <2>4, <2>6
<1>8. Fine(Len(txns))
  <2>1. Len(txns) \in 0 .. Len(txns)  BY <1>4
  <2> QED  BY <1>7, <2>1
<1>9. PICK m : m = Applied(txns)  OBVIOUS
<1>10. data' = m.data /\ memVer' = m.ver /\ seen' = Newer(m.data) /\ m = v[Len(txns)]
  BY <1>2, <1>3, <1>9 DEF ApplyTxns
<1>11. /\ m.data \in [Paths -> Values] /\ \A p \in Paths : m.data[p] <= db[p]
       /\ \A p \in Paths :
            (\E i \in 1 .. Len(txns) : Newest(txns[i], p)) => m.data[p] = db[p]
       /\ \A n \in Nat :
            memVer < n /\ (\A i \in 1 .. Len(txns) : txns[i].ver < n) => m.ver < n
  BY <1>8, <1>10 DEF Fine
<1>12. PICK w : w = db  OBVIOUS
<1>13. w \in [Paths -> Int] /\ \A p \in Paths : m.data[p] <= w[p] /\ seen[p] <= w[p]
  <2>1. w \in [Paths -> Int]  BY <1>4, <1>12
  <2> QED  BY <1>11, <1>12, <2>1 DEF MemoryOld
<1>14. \A p \in Paths :
         /\ seen[p] <= seen'[p] /\ seen'[p] <= w[p]
         /\ (m.data[p] = w[p] \/ seen[p] = w[p] => seen'[p] = w[p])
  BY <1>10, <1>11, <1>13, NewerTells
<1> QED  BY <1>10, <1>11, <1>12, <1>14

\* What a message does to the model: what it has of a path gets newer only, is never newer
\* than what was written, and as new if the message has that; and of the versions that the
\* memory was behind, it stays behind those that are beyond the message.
Tells(m) ==
  /\ \A p \in Paths :
       /\ data'[p] <= db[p] /\ seen[p] <= seen'[p] /\ seen'[p] <= db[p]
       /\ seen[p] = db[p] \/ Carries(m, p) => seen'[p] = db[p]
  /\ m.type \in {"subscribe", "fetch", "replace"} =>
       \A p \in DOMAIN m.got : m.got[p] = db[p] => seen'[p] = db[p]
Trails(m) == \A n \in Nat : memVer < n /\ Below(m, n) => memVer' < n

\* A transaction.
LEMMA TxnTells ==
  ASSUME SubInv, MemoryOld, NEW m \in Txns, TxnOld(m), ApplyTxns(<<m>>)
  PROVE  Tells(m) /\ Trails(m)
<1>1. PICK txns : txns = <<m>>  OBVIOUS
<1>2. txns \in Seq(Txns) /\ Len(txns) = 1 /\ 1 .. 1 = {1} /\ txns[1] = m  BY <1>1
<1>3. TxnsGood(txns)  BY <1>2 DEF TxnsGood
<1>4. m.type = "txn"  BY DEF Txns
<1>5. ModelOK /\ StoreOK /\ ApplyTxns(txns)  BY <1>1 DEF SubInv
<1>6. /\ \A p \in Paths :
           /\ data'[p] <= db[p] /\ seen[p] <= seen'[p] /\ seen'[p] <= db[p]
           /\ seen[p] = db[p] => seen'[p] = db[p]
           /\ (\E i \in 1 .. Len(txns) : Newest(txns[i], p)) => seen'[p] = db[p]
      /\ \A n \in Nat : memVer < n /\ (\A i \in 1 .. Len(txns) : txns[i].ver < n) => memVer' < n
  BY <1>2, <1>3, <1>5, TxnsTell
<1>7. \A p : Carries(m, p) => \E i \in 1 .. Len(txns) : Newest(txns[i], p)
  BY <1>2, <1>4 DEF Carries, Newest
<1>8. \A n \in Nat : Below(m, n) => \A i \in 1 .. Len(txns) : txns[i].ver < n
  BY <1>2, <1>4 DEF Below
<1>9. Tells(m)  BY <1>4, <1>6, <1>7 DEF Tells
<1>10. Trails(m)  BY <1>6, <1>8 DEF Trails
<1> QED  BY <1>9, <1>10

\* What the store had buffered.
LEMMA NewTxnsTell ==
  ASSUME SubInv, MemoryOld, NEW m \in S2CMessages, m.type = "newTxns", TxnsGood(m.txns),
         ApplyTxns(m.txns)
  PROVE  Tells(m) /\ Trails(m)
<1>1. PICK txns : txns = m.txns  OBVIOUS
<1>2. txns \in Seq(Txns) /\ TxnsGood(txns) /\ ApplyTxns(txns) /\ ModelOK /\ StoreOK
  BY <1>1, MessageKinds DEF SubInv
<1>3. /\ \A p \in Paths :
           /\ data'[p] <= db[p] /\ seen[p] <= seen'[p] /\ seen'[p] <= db[p]
           /\ seen[p] = db[p] => seen'[p] = db[p]
           /\ (\E i \in 1 .. Len(txns) : Newest(txns[i], p)) => seen'[p] = db[p]
      /\ \A n \in Nat : memVer < n /\ (\A i \in 1 .. Len(txns) : txns[i].ver < n) => memVer' < n
  BY <1>2, TxnsTell
<1>4. \A p : Carries(m, p) => \E i \in 1 .. Len(txns) : Newest(txns[i], p)
  BY <1>1 DEF Carries
<1>5. \A n \in Nat : Below(m, n) => \A i \in 1 .. Len(txns) : txns[i].ver < n
  BY <1>1 DEF Below
<1>6. Tells(m)  BY <1>3, <1>4 DEF Tells
<1>7. Trails(m)  BY <1>3, <1>5 DEF Trails
<1> QED  BY <1>6, <1>7

\* A transaction that the Serializer keeps back.
LEMMA WaitingTells ==
  ASSUME SubInv, MemoryOld, NEW m \in Txns, TxnOld(m), UNCHANGED <<data, memVer>>,
         seen' = Newer(Over([p \in {m.path} |-> m.ver], data))
  PROVE  Tells(m) /\ Trails(m)
<1>1. m.type = "txn" /\ m.path \in Paths /\ m.ver \in 1 .. MaxVer /\ m.ver <= db[m.path]
  BY DEF Txns, TxnOld
<1>2. m.ver \in 0 .. MaxVer  BY <1>1, Kinds
<1>3. m.ver \in Values  BY <1>2, Kinds
<1>4. ModelOK /\ db \in [Paths -> 0 .. MaxVer] /\ \A p \in Paths : data[p] <= db[p] /\ seen[p] <= db[p]
  BY DEF SubInv, StoreOK, MemoryOld
<1>5. PICK f : f = [p \in {m.path} |-> m.ver]  OBVIOUS
<1>6. f \in Gots
  <2>1. DOMAIN f \subseteq Paths /\ f = [p \in DOMAIN f |-> f[p]]  BY <1>1, <1>5
  <2>2. \A p \in DOMAIN f : f[p] \in Values  BY <1>3, <1>5
  <2> QED  BY <2>1, <2>2, GotsAre
<1>7. PICK d : d = Over(f, data)  OBVIOUS
<1>8. d \in [Paths -> Values] /\ seen' = Newer(d)  BY <1>4, <1>5, <1>6, <1>7, OverIs DEF ModelOK
<1>9. \A p \in Paths : d[p] = IF p = m.path THEN m.ver ELSE data[p]
  <2>1. DOMAIN f = {m.path} /\ f[m.path] = m.ver /\ DOMAIN data = Paths
    BY <1>4, <1>5 DEF ModelOK
  <2> QED  BY <1>7, <2>1 DEF Over
<1>10. PICK w : w = db  OBVIOUS
<1>11. w \in [Paths -> Int] /\ \A p \in Paths : d[p] <= w[p] /\ seen[p] <= w[p]
  <2>1. w \in [Paths -> Int]  BY <1>4, <1>10
  <2> QED  BY <1>1, <1>4, <1>9, <1>10, <2>1
<1>12. \A p \in Paths :
         /\ seen[p] <= seen'[p] /\ seen'[p] <= w[p]
         /\ (d[p] = w[p] \/ seen[p] = w[p] => seen'[p] = w[p])
  BY <1>4, <1>8, <1>11, NewerTells
<1>13. \A p \in Paths : Carries(m, p) => d[p] = db[p]  BY <1>1, <1>9 DEF Carries, Newest
<1>14. Tells(m)  BY <1>1, <1>4, <1>10, <1>12, <1>13 DEF Tells
<1> QED  BY <1>14 DEF Trails

\* An answer.
LEMMA AnswerTells ==
  ASSUME SubInv, SubInv', MemoryOld, NEW m \in S2CMessages, m.type \in {"subscribe", "fetch"},
         Old(m.got), AddData(m.got, m.ver)
  PROVE  Tells(m) /\ Trails(m)
<1>1. PICK got, v : got = m.got /\ v = m.ver  OBVIOUS
<1>2. got \in Gots /\ v \in 0 .. MaxVer  BY <1>1, MessageKinds
<1>3. ModelOK /\ db \in [Paths -> 0 .. MaxVer] /\ \A p \in Paths : data[p] <= db[p] /\ seen[p] <= db[p]
  BY DEF SubInv, StoreOK, MemoryOld
<1>4. PICK w : w = db  OBVIOUS
<1>5. w \in [Paths -> Int]  BY <1>3, <1>4
<1>6. AddData(got, v) /\ \A p \in DOMAIN got : got[p] <= w[p]  BY <1>1, <1>4 DEF Old
<1>7. /\ \A p \in Paths :
           /\ data'[p] <= w[p] /\ seen[p] <= seen'[p] /\ seen'[p] <= w[p]
           /\ seen[p] = w[p] => seen'[p] = w[p]
      /\ \A p \in DOMAIN got : got[p] = w[p] => seen'[p] = w[p]
  BY <1>2, <1>3, <1>4, <1>5, <1>6, AddDataTells
<1>8. \A p : ~Carries(m, p)  BY DEF Carries
<1>9. Tells(m)  BY <1>1, <1>4, <1>7, <1>8 DEF Tells
<1>10. memVer' = IF memVer < m.ver THEN m.ver ELSE memVer  BY DEF AddData, Larger
<1>11. Trails(m)  BY <1>10 DEF Trails, Below
<1> QED  BY <1>9, <1>11

\* A snapshot that replaces what there is.
LEMMA ReplaceTells ==
  ASSUME SubInv, SubInv', MemoryOld, NEW m \in S2CMessages, m.type = "replace", Old(m.got),
         data' = Over(m.got, [p \in Paths |-> Unread]), memVer' = m.ver, seen' = Newer(data')
  PROVE  Tells(m) /\ Trails(m)
<1>1. PICK got, e : got = m.got /\ e = [p \in Paths |-> Unread]  OBVIOUS
<1>2. PICK d : d = Over(got, e)  OBVIOUS
<1>3. got \in Gots /\ e \in [Paths -> Values]  BY <1>1, MessageKinds, Kinds
<1>4. d \in [Paths -> Values] /\ seen' = Newer(d) /\ data' = d  BY <1>1, <1>2, <1>3, OverIs
<1>5. ModelOK /\ db \in [Paths -> 0 .. MaxVer] /\ \A p \in Paths : seen[p] <= db[p]
  BY DEF SubInv, StoreOK, MemoryOld
<1>6. \A p \in Paths : d[p] = IF p \in DOMAIN got THEN got[p] ELSE Unread
  BY <1>1, <1>2 DEF Over
<1>7. PICK w : w = db  OBVIOUS
<1>8. w \in [Paths -> Int] /\ \A p \in Paths : d[p] <= w[p] /\ seen[p] <= w[p]
  <2>1. w \in [Paths -> Int]  BY <1>5, <1>7
  <2>2. \A p \in Paths : Unread <= w[p]  BY <1>5, <1>7 DEF Unread
  <2>3. \A p \in DOMAIN got : got[p] <= w[p]  BY <1>1, <1>7 DEF Old
  <2> QED  BY <1>5, <1>6, <1>7, <2>1, <2>2, <2>3
<1>9. \A p \in Paths :
        /\ seen[p] <= seen'[p] /\ seen'[p] <= w[p]
        /\ (d[p] = w[p] \/ seen[p] = w[p] => seen'[p] = w[p])
  BY <1>4, <1>5, <1>8, NewerTells
<1>10. \A p : ~Carries(m, p)  BY DEF Carries
<1>11. \A p \in DOMAIN got : got[p] = db[p] => d[p] = w[p] /\ p \in Paths
  <2>1. DOMAIN got \subseteq Paths  BY <1>3, GotsAre
  <2> QED  BY <1>6, <1>7, <2>1
<1>12. Tells(m)  BY <1>1, <1>4, <1>7, <1>8, <1>9, <1>10, <1>11 DEF Tells
<1> QED  BY <1>12 DEF Trails, Below

\* A message has nothing from a later version.
LEMMA AllBelow ==
  ASSUME SubInv, MemoryOld, NEW m \in S2CMessages, MessageOld(m)
  PROVE  Below(m, ver + 1)
<1>1. ver \in Nat /\ db \in [Paths -> 0 .. MaxVer] /\ MaxVer \in Nat
  BY Kinds DEF SubInv, StoreOK
<1>2. \A txn \in Txns : TxnOld(txn) => txn.ver < ver + 1
  <2> SUFFICES ASSUME NEW txn \in Txns, TxnOld(txn) PROVE txn.ver < ver + 1  OBVIOUS
  <2>1. txn.path \in Paths /\ txn.ver \in Int  BY DEF Txns
  <2>2. txn.ver <= db[txn.path] /\ db[txn.path] <= ver  BY <2>1 DEF TxnOld, MemoryOld
  <2>3. db[txn.path] \in Int  BY <1>1, <2>1
  <2> QED  BY <1>1, <2>1, <2>2, <2>3
<1>3. m.type = "txn" => m.ver < ver + 1  BY <1>2, MessageKinds DEF MessageOld
<1>4. m.type = "newTxns" => \A i \in 1 .. Len(m.txns) : m.txns[i].ver < ver + 1
  <2> SUFFICES ASSUME m.type = "newTxns", NEW i \in 1 .. Len(m.txns)
               PROVE  m.txns[i].ver < ver + 1
    OBVIOUS
  <2>1. m.txns \in Seq(Txns) /\ TxnsGood(m.txns)  BY MessageKinds DEF MessageOld
  <2>2. m.txns[i] \in Txns /\ TxnOld(m.txns[i])  BY <2>1 DEF TxnsGood
  <2> QED  BY <1>2, <2>2
<1>5. m.type \in {"subscribe", "fetch", "replace"} => m.ver < ver + 1
  <2>1. m.type \in {"subscribe", "fetch", "replace"} => m.ver <= ver /\ m.ver \in 0 .. MaxVer
    BY MessageKinds DEF MessageOld
  <2> QED  BY <1>1, <2>1
<1> QED  BY <1>3, <1>4, <1>5 DEF Below

\* Any message.
LEMMA ReceiveTells ==
  ASSUME SubInv, SubInv', VersionsOK, ClientReceive, NEW m, m = Head(s2c)
  PROVE  Tells(m) /\ Trails(m) /\ memVer' <= ver
<1>1. s2c # << >> /\ OnMessage(m) /\ UNCHANGED <<db, ver>>
  BY DEF ClientReceive, storeVars
<1>2. m \in S2CMessages /\ MessageOld(m)
  <2>1. m = s2c[1] /\ 1 \in 1 .. Len(s2c)  BY <1>1, Bases, LessIs DEF IsLess
  <2> QED  BY <2>1, Bases DEF VersionsOK, MessagesOld
<1>3. MemoryOld /\ StoreOK /\ ModelOK /\ ModelOK'  BY DEF VersionsOK, SubInv
<1>4. Tells(m) /\ Trails(m)
  <2>1. CASE m.type = "txn"
    <3>1. m \in Txns /\ TxnOld(m)  BY <1>2, <2>1, MessageKinds DEF MessageOld
    <3>2. \/ ApplyTxns(<<m>>)
          \/ /\ UNCHANGED <<data, memVer>>
             /\ seen' = Newer(Over([p \in {m.path} |-> m.ver], data))
      BY <1>1, <2>1 DEF OnMessage
    <3> QED  BY <1>3, <3>1, <3>2, TxnTells, WaitingTells
  <2>2. CASE m.type = "newTxns"
    <3>1. TxnsGood(m.txns)  BY <1>2, <2>2 DEF MessageOld
    <3>2. ApplyTxns(m.txns)  BY <1>1, <2>2 DEF OnMessage
    <3> QED  BY <1>2, <1>3, <2>2, <3>1, <3>2, NewTxnsTell
  <2>3. CASE m.type \in {"subscribe", "fetch"}
    <3>1. Old(m.got)  BY <1>2, <2>3 DEF MessageOld
    <3>2. AddData(m.got, m.ver)  BY <1>1, <2>3 DEF OnMessage
    <3> QED  BY <1>2, <1>3, <2>3, <3>1, <3>2, AnswerTells
  <2>4. CASE m.type = "resync"
    <3>1. UNCHANGED <<data, memVer, seen>>  BY <1>1, <2>4 DEF OnMessage
    <3>2. \A p : ~Carries(m, p)  BY <2>4 DEF Carries
    <3>3. \A p \in Paths : seen[p] <= seen[p]
      <4>1. \A p \in Paths : seen[p] \in Int  BY <1>3 DEF ModelOK, Values, Unread
      <4> QED  BY <4>1
    <3>4. Tells(m)  BY <1>3, <2>4, <3>1, <3>2, <3>3 DEF Tells, MemoryOld
    <3> QED  BY <3>1, <3>4 DEF Trails
  <2>5. CASE m.type = "replace"
    <3>1. Old(m.got)  BY <1>2, <2>5 DEF MessageOld
    <3>2. /\ data' = Over(m.got, [p \in Paths |-> Unread]) /\ memVer' = m.ver
          /\ seen' = Newer(data')
      BY <1>1, <2>5 DEF OnMessage
    <3> QED  BY <1>2, <1>3, <2>5, <3>1, <3>2, ReplaceTells
  <2>6. CASE m.type = "fatalErr"  BY <1>1, <2>6 DEF OnMessage
  <2> QED  BY <1>2, <2>1, <2>2, <2>3, <2>4, <2>5, <2>6, MessageKinds
<1>5. memVer' <= ver
  <2>1. ver \in Nat /\ memVer \in Nat /\ memVer' \in Nat  BY <1>3, Kinds DEF StoreOK, ModelOK
  <2>2. PICK n : n = ver + 1  OBVIOUS
  <2>3. Below(m, n)  BY <1>2, <1>3, <2>2, AllBelow
  <2>4. n \in Nat /\ memVer < n  BY <1>3, <2>1, <2>2 DEF MemoryOld
  <2>5. memVer' < n  BY <1>4, <2>3, <2>4 DEF Trails
  <2> QED  BY <2>1, <2>2, <2>5
<1> QED  BY <1>4, <1>5

\* The model takes a message: what it carried has reached the model, and what it confirms
\* was in it.
LEMMA ClientReceiveFlow ==
  ASSUME SubInv, SubInv', InStepInv, ClientReceive
  PROVE  FlowOK'
<1>1. /\ up /\ s2c # << >> /\ s2c' = Tail(s2c) /\ OnMessage(Head(s2c))
      /\ UNCHANGED <<db, fwd, requests, up, buffering, buffer, onServer, ops, stamp>>
  BY DEF ClientReceive, storeVars
<1>2. PICK m : m = Head(s2c)  OBVIOUS
<1>3. FlowOK /\ VersionsOK /\ AckedGood  BY DEF InStepInv, FlowOK
<1>4. m \in S2CMessages /\ AnswerGood(m) /\ m = s2c[1] /\ IsLess(s2c', s2c)
      /\ Len(s2c') \in Nat
  <2>1. m = s2c[1] /\ 1 \in 1 .. Len(s2c) /\ IsLess(s2c', s2c) /\ Tail(s2c) \in Seq(S2CMessages)
    BY <1>1, <1>2, Bases, LessIs DEF IsLess
  <2> QED  BY <1>1, <1>3, <2>1, Bases DEF FlowOK, AnswersGood
<1>5. Tells(m)  BY <1>2, <1>3, ReceiveTells
<1>6. /\ \A p \in Paths : seen[p] = db[p] \/ Carries(m, p) => seen'[p] = db[p]
      /\ m.type \in {"subscribe", "replace"} =>
           \A p \in DOMAIN m.got : m.got[p] = db[p] => seen'[p] = db[p]
  BY <1>5 DEF Tells
<1>7. ASSUME NEW p \in Paths, Told(p) PROVE Told(p)'
  <2>1. CASE seen[p] = db[p]  BY <1>1, <1>6, <2>1 DEF Told
  <2>2. ASSUME NEW k \in 1 .. Len(buffer), Newest(buffer[k], p) PROVE Told(p)'
    BY <1>1, <2>2 DEF Told, OnItsWay, Newest
  <2>3. ASSUME NEW k \in 1 .. Len(s2c), Carries(s2c[k], p) PROVE Told(p)'
    <3>1. CASE k = 1  BY <1>1, <1>4, <1>6, <2>3, <3>1 DEF Told
    <3>2. CASE k # 1
      <4>1. PICK j : j = k - 1  OBVIOUS
      <4>2. j \in 1 .. Len(s2c') /\ k = j + 1  BY <1>4, <3>2, <4>1 DEF IsLess
      <4>3. s2c'[j] = s2c[k]  BY <1>4, <4>2 DEF IsLess
      <4>4. Carries(s2c[j], p)'  BY <1>1, <2>3, <4>3 DEF Carries, Newest
      <4> QED  BY <4>2, <4>4 DEF Told, OnItsWay
    <3> QED  BY <3>1, <3>2
  <2> QED  BY <1>7, <2>1, <2>2, <2>3 DEF Told, OnItsWay
<1>8. PICK x : x = [type |-> "subs", asked |-> [t \in Subs |-> stamp[t]]]  OBVIOUS
<1>9. x \in C2SMessages /\ x.type = "subs" /\ DOMAIN x.asked = Subs
  <2>1. PICK a : a = [t \in Subs |-> stamp[t]]  OBVIOUS
  <2>2. Subs \in FiniteTargets /\ stamp \in [Targets -> Nat] /\ Subs \subseteq Targets
    BY SubsAre, Bases DEF SubInv, FiniteTargets
  <2>3. DOMAIN a = Subs /\ a = [t \in DOMAIN a |-> a[t]] /\ \A t \in DOMAIN a : a[t] \in Nat
    BY <2>1, <2>2
  <2>4. a \in Askings  BY <2>2, <2>3, AskingsAre
  <2> QED  BY <1>8, <2>1, <2>3, <2>4 DEF C2SMessages
<1>10. c2s' = c2s \/ (c2s' = Append(c2s, x) /\ acked' = acked)
  BY <1>1, <1>8 DEF OnMessage
<1>11. /\ m.type \in {"subscribe", "replace"} => Confirm(m.asked)
       /\ m.type \notin {"subscribe", "replace"} => acked' = acked
       /\ m.type # "replace" => lossy' = lossy
  BY <1>1, <1>2 DEF OnMessage
<1>12. \A t : Remains(t) => Remains(t)'
  <2>1. \A t : ~TakesOut(x, t)  BY <1>9 DEF TakesOut
  <2> QED  BY <1>9, <1>10, <2>1, Bases, RemainsIs
<1>13. \A t : Watched(t) => Watched(t)'  BY <1>1, <1>12 DEF Watched
<1>14. \A t \in Targets : Covers[t] \subseteq Paths  BY Kinds
<1>15. ASSUME m.type \in {"subscribe", "replace"}, NEW t \in DOMAIN m.asked, Matters(m.asked, t)
       PROVE  Watched(t)' /\ Sure(t)'
  <2>1. Watched(t) /\ \A p \in Covers[t] : Brings(m.got, p)
    BY <1>4, <1>15 DEF AnswerGood, Good
  <2>2. t \in Targets
    <3>1. m.asked \in Askings  BY <1>4, <1>15, MessageKinds
    <3> QED  BY <3>1, AskingsAre
  <2>3. ASSUME NEW p \in Covers[t] PROVE Told(p)'
    <3>1. CASE Told(p)  BY <1>7, <1>14, <2>2, <3>1
    <3>2. CASE p \in DOMAIN m.got /\ m.got[p] = db[p]
      <4>1. seen'[p] = db'[p]  BY <1>1, <1>6, <1>15, <3>2
      <4> QED  BY <4>1 DEF Told
    <3> QED  BY <2>1, <3>1, <3>2 DEF Brings
  <2> QED  BY <1>13, <2>1, <2>3 DEF Sure
<1>16. ASSUME NEW t \in acked', t \notin acked PROVE Watched(t)' /\ Sure(t)'
  <2>1. m.type \in {"subscribe", "replace"} /\ t \in DOMAIN m.asked /\ stamp[t] = m.asked[t]
    BY <1>11, <1>16 DEF Confirm
  <2> QED  BY <1>15, <2>1 DEF Matters
<1>17. Continues  BY <1>1, <1>7, <1>12, <1>13, <1>14, <1>16 DEF Continues
<1>18. ((lossy => lossy') => AckedGood') /\ AnswersGood'
  <2>1. Among(s2c', s2c, {})  BY <1>1, Bases, AmongOld
  <2> QED  BY <1>3, <1>17, <2>1, AnswersStayGood
<1>19. AckedGood'
  <2>1. CASE m.type # "replace"  BY <1>11, <1>18, <2>1
  <2>2. CASE m.type = "replace"
    <3> SUFFICES ASSUME NEW t \in acked' PROVE Watched(t)' /\ Sure(t)'
      BY DEF AckedGood
    <3>1. CASE t \notin acked  BY <1>16, <3>1
    <3>2. CASE t \in acked /\ t \in DOMAIN m.asked  BY <1>15, <2>2, <3>2 DEF Matters
    <3>3. CASE t \in acked /\ t \notin DOMAIN m.asked
      <4>1. Sure(t) /\ Watched(t)  BY <1>3, <1>4, <2>2, <3>3 DEF AnswerGood, Chained, AckedGood
      <4>2. t \in Targets  BY <3>3, Bases
      <4> QED  BY <1>7, <1>13, <1>14, <4>1, <4>2 DEF Sure
    <3> QED  BY <3>1, <3>2, <3>3
  <2> QED  BY <2>1, <2>2
<1>20. CallsGood'
  <2>1. acked \subseteq Subs  BY DEF SubInv, ModelOK
  <2>2. acked' = acked => Chained(x.asked)'  BY <1>9, <2>1 DEF Chained
  <2>3. \A t : ~TakesOut(x, t)  BY <1>9 DEF TakesOut
  <2>4. \/ c2s' = c2s
        \/ /\ c2s' = Append(c2s, x)
           /\ \A t \in Targets : TakesOut(x, t) => stamp'[t] > ops
           /\ x.type = "subs" => Chained(x.asked)'
    BY <1>10, <2>2, <2>3
  <2> QED  BY <1>3, <1>9, <1>17, <2>4, CallsStayGood
<1>21. RequestsGood'
  <2>1. requests' \ requests = {}  BY <1>1
  <2> QED  BY <1>1, <1>3, <1>17, <2>1, RequestsStayGood
<1>22. LinkGood'  BY <1>1 DEF LinkGood
<1> QED  BY <1>18, <1>19, <1>20, <1>21, <1>22 DEF FlowOK

-----------------------------------------------------------------------------
(* Versions *)

\* What is written gets newer.
Grows == ver <= ver' /\ \A p \in Paths : db[p] <= db'[p]

\* What was read before is not newer than what is written now,
LEMMA OldStays ==
  ASSUME StoreOK, StoreOK', Grows, NEW got \in Gots, Old(got)
  PROVE  Old(got)'
<1> SUFFICES ASSUME NEW p \in DOMAIN got PROVE got[p] <= db'[p]
  BY DEF Old
<1>1. p \in Paths /\ got[p] \in Int  BY GotsAre DEF Values, Unread
<1>2. got[p] <= db[p] /\ db[p] <= db'[p]  BY <1>1 DEF Old, Grows
<1>3. db[p] \in Int /\ db'[p] \in Int  BY <1>1 DEF StoreOK
<1> QED  BY <1>1, <1>2, <1>3

\* ... nor is a transaction, which the memory is still behind,
LEMMA TxnOldStays ==
  ASSUME StoreOK, StoreOK', Grows, NEW txn \in Txns, TxnOld(txn), memVer' < txn.ver
  PROVE  TxnOld(txn)'
<1>1. txn.path \in Paths /\ txn.ver \in Int  BY DEF Txns
<1>2. txn.ver <= db[txn.path] /\ db[txn.path] <= db'[txn.path]  BY <1>1 DEF TxnOld, Grows
<1>3. db[txn.path] \in Int /\ db'[txn.path] \in Int  BY <1>1 DEF StoreOK
<1> QED  BY <1>1, <1>2, <1>3 DEF TxnOld

\* ... nor are several,
LEMMA TxnsStay ==
  ASSUME StoreOK, StoreOK', Grows, memVer' = memVer, NEW txns \in Seq(Txns), TxnsGood(txns)
  PROVE  TxnsGood(txns)'
<1>1. ASSUME NEW i \in 1 .. Len(txns) PROVE TxnOld(txns[i])'
  <2>1. PICK txn \in Txns : txn = txns[i]  OBVIOUS
  <2>2. TxnOld(txn) /\ memVer' < txn.ver  BY <2>1 DEF TxnsGood, TxnOld
  <2>3. TxnOld(txn)'  BY <2>2, TxnOldStays
  <2> QED  BY <2>1, <2>3
<1> QED  BY <1>1 DEF TxnsGood

\* ... nor is what a message has.
LEMMA MessageStays ==
  ASSUME StoreOK, StoreOK', Grows, memVer' = memVer, NEW m \in S2CMessages, MessageOld(m)
  PROVE  MessageOld(m)'
<1>1. m.type = "txn" => TxnOld(m)'
  <2>1. m.type = "txn" => m \in Txns /\ TxnOld(m) /\ memVer' < m.ver
    BY MessageKinds DEF MessageOld, TxnOld
  <2> QED  BY <2>1, TxnOldStays
<1>2. m.type = "newTxns" => TxnsGood(m.txns)'
  <2>1. PICK txns : txns = m.txns  OBVIOUS
  <2>2. m.type = "newTxns" => txns \in Seq(Txns) /\ TxnsGood(txns)
    BY <2>1, MessageKinds DEF MessageOld
  <2>3. m.type = "newTxns" => TxnsGood(txns)'  BY <2>2, TxnsStay
  <2> QED  BY <2>1, <2>3
<1>3. ASSUME m.type \in {"subscribe", "fetch", "replace"} PROVE Old(m.got)' /\ m.ver <= ver'
  <2>1. PICK got : got = m.got  OBVIOUS
  <2>2. got \in Gots /\ Old(got) /\ m.ver \in 0 .. MaxVer /\ m.ver <= ver
    BY <1>3, <2>1, MessageKinds DEF MessageOld
  <2>3. Old(got)'  BY <2>2, OldStays
  <2>4. m.ver <= ver'  BY <2>2, Kinds DEF StoreOK, Grows
  <2> QED  BY <2>1, <2>3, <2>4
<1> QED  BY <1>1, <1>2, <1>3 DEF MessageOld

\* What is on its way to the model stays old; what is sent now comes after it.
LEMMA MessagesStay ==
  ASSUME SubInv, SubInv', Grows, memVer' = memVer, MessagesOld,
         \/ s2c' = s2c
         \/ \E x \in S2CMessages :
              /\ s2c' = Append(s2c, x) /\ MessageOld(x)' /\ x.type # "newTxns"
              /\ x.type = "txn" => \A j \in 1 .. Len(s2c) : Below(s2c[j], x.ver)
  PROVE  MessagesOld'
<1>1. StoreOK /\ StoreOK' /\ s2c \in Seq(S2CMessages) /\ Len(s2c) \in Nat
  BY Bases DEF SubInv
<1>2. ASSUME NEW k \in 1 .. Len(s2c), NEW m, m = s2c[k]
      PROVE  /\ MessageOld(m)' /\ (m.type = "newTxns" => k = 1)
             /\ m.type = "txn" => \A j \in 1 .. k - 1 : Below(s2c[j], m.ver)
  <2>1. m \in S2CMessages /\ MessageOld(m)  BY <1>1, <1>2 DEF MessagesOld
  <2>2. MessageOld(m)'  BY <1>1, <2>1, MessageStays
  <2> QED  BY <1>2, <2>2 DEF MessagesOld
<1> SUFFICES ASSUME NEW k \in 1 .. Len(s2c'), NEW m, m = s2c'[k]
             PROVE  /\ MessageOld(m)' /\ (m.type = "newTxns" => k = 1)
                    /\ m.type = "txn" => \A j \in 1 .. k - 1 : Below(s2c'[j], m.ver)
  BY DEF MessagesOld, Below
<1>3. CASE s2c' = s2c  BY <1>2, <1>3
<1>4. ASSUME NEW x \in S2CMessages, s2c' = Append(s2c, x), MessageOld(x)', x.type # "newTxns",
             x.type = "txn" => \A j \in 1 .. Len(s2c) : Below(s2c[j], x.ver)
      PROVE  /\ MessageOld(m)' /\ (m.type = "newTxns" => k = 1)
             /\ m.type = "txn" => \A j \in 1 .. k - 1 : Below(s2c'[j], m.ver)
  <2>1. IsMore(s2c', s2c, x)  BY <1>1, <1>4, MoreIs
  <2>2. Len(s2c') = Len(s2c) + 1 /\ \A j \in 1 .. Len(s2c) : s2c'[j] = s2c[j]
    BY <2>1 DEF IsMore
  <2>3. \A j \in 1 .. k - 1 : j \in 1 .. Len(s2c) /\ s2c'[j] = s2c[j]  BY <1>1, <2>2
  <2>4. CASE k \in 1 .. Len(s2c)
    <3>1. m = s2c[k]  BY <2>2, <2>4
    <3> QED  BY <1>2, <2>3, <2>4, <3>1
  <2>5. CASE k = Len(s2c) + 1
    <3>1. m = x  BY <2>1, <2>5 DEF IsMore
    <3> QED  BY <1>4, <2>3, <3>1
  <2> QED  BY <1>1, <2>2, <2>4, <2>5
<1> QED  BY <1>3, <1>4

\* ... as what was read does, and what is buffered.
LEMMA RequestsStayOld ==
  ASSUME SubInv, SubInv', Grows, RequestsOld,
         \A r \in requests' \ requests : Old(r.got)' /\ r.ver <= ver'
  PROVE  RequestsOld'
<1>1. ASSUME NEW r \in requests PROVE Old(r.got)' /\ r.ver <= ver'
  <2>1. r \in Requests /\ Old(r.got) /\ r.ver <= ver  BY Bases DEF RequestsOld
  <2>2. PICK got : got = r.got  OBVIOUS
  <2>3. got \in Gots /\ Old(got) /\ r.ver \in 0 .. MaxVer  BY <2>1, <2>2 DEF Requests
  <2>4. Old(got)'  BY <2>3, OldStays DEF SubInv
  <2>5. ver \in Int /\ ver' \in Int  BY DEF SubInv, StoreOK
  <2>6. r.ver <= ver'  BY <2>1, <2>3, <2>5 DEF Grows
  <2> QED  BY <2>2, <2>4, <2>6
<1>2. \A r \in requests' : Old(r.got)' /\ r.ver <= ver'  BY <1>1
<1> QED  BY <1>2 DEF RequestsOld

\* What is buffered stays in order.
LEMMA BufferStays ==
  ASSUME SubInv, SubInv', Grows, memVer' = memVer, TxnsGood(buffer), buffer' = buffer
  PROVE  TxnsGood(buffer)'
<1>1. PICK txns : txns = buffer  OBVIOUS
<1>2. txns \in Seq(Txns) /\ TxnsGood(txns)  BY <1>1 DEF SubInv, NetOK
<1>3. TxnsGood(txns)'  BY <1>2, TxnsStay DEF SubInv
<1> QED  BY <1>1, <1>3 DEF TxnsGood

\* Nothing is written, sent or read.
LEMMA StillVersions ==
  ASSUME SubInv, SubInv', VersionsOK,
         UNCHANGED <<db, ver, data, memVer, seen, sockVer, s2c, buffer>>,
         \A r \in requests' \ requests : Old(r.got) /\ r.ver <= ver
  PROVE  VersionsOK'
<1>1. Grows
  <2>1. ver \in Int /\ \A p \in Paths : db[p] \in Int  BY DEF SubInv, StoreOK
  <2> QED  BY <2>1 DEF Grows
<1>2. MemoryOld'  BY DEF VersionsOK, MemoryOld
<1>3. RequestsOld'
  <2>1. \A r \in requests' \ requests : Old(r.got)' /\ r.ver <= ver'  BY DEF Old
  <2> QED  BY <1>1, <2>1, RequestsStayOld DEF VersionsOK
<1>4. TxnsGood(buffer)'  BY <1>1, BufferStays DEF VersionsOK
<1>5. MessagesOld'  BY <1>1, MessagesStay DEF VersionsOK
<1> QED  BY <1>2, <1>3, <1>4, <1>5 DEF VersionsOK

\* Nothing is on its way, or nothing is buffered.
LEMMA NoneSent ==
  ASSUME s2c' = << >> PROVE MessagesOld'
<1>1. Len(s2c') = 0 /\ 1 .. 0 = {}  OBVIOUS
<1> QED  BY <1>1 DEF MessagesOld

\* ... in its buffer.
LEMMA NoneBuffered ==
  ASSUME buffer' = << >> PROVE TxnsGood(buffer)'
<1>1. Len(buffer') = 0 /\ 1 .. 0 = {}  OBVIOUS
<1> QED  BY <1>1 DEF TxnsGood

\* A new request has read nothing; one whose model has gone, what it had.
LEMMA NewRequestOld ==
  ASSUME SubInv
  PROVE  /\ \A type, asked : Old(Request(type, asked).got) /\ Request(type, asked).ver <= ver
         /\ RequestsOld => \A r \in Abandoned : Old(r.got) /\ r.ver <= ver
<1>1. ver \in Nat  BY Kinds DEF SubInv, StoreOK
<1>2. ASSUME NEW type, NEW asked
      PROVE  Old(Request(type, asked).got) /\ Request(type, asked).ver <= ver
  <2>1. Request(type, asked).got = << >> /\ Request(type, asked).ver = 0  BY DEF Request
  <2>2. DOMAIN << >> = {}  OBVIOUS
  <2> QED  BY <1>1, <2>1, <2>2 DEF Old
<1>3. ASSUME RequestsOld, NEW x \in requests PROVE Old(HasGone(x).got) /\ HasGone(x).ver <= ver
  <2>1. x \in Requests /\ Old(x.got) /\ x.ver <= ver  BY <1>3, Bases DEF RequestsOld
  <2>2. PICK a : a = [t \in DOMAIN x.asked |-> 0]  OBVIOUS
  <2>3. HasGone(x) = [x EXCEPT !.live = FALSE, !.asked = a]  BY <2>2 DEF HasGone
  <2>4. HasGone(x).got = x.got /\ HasGone(x).ver = x.ver  BY <2>1, <2>3 DEF Requests
  <2> QED  BY <2>1, <2>4
<1> QED  BY <1>2, <1>3 DEF Abandoned

\* The steps that neither write, nor send, nor read.
LEMMA StillSteps ==
  ASSUME SubInv, SubInv', VersionsOK,
         \/ \E ts : Subscribe(ts)
         \/ \E t : Fetch(t) \/ Unsubscribe(t)
         \/ UnsubscribeAll \/ Receive \/ Bundle
         \/ \E r \in requests : Guarded(r)
         \/ \E o, t : OtherSubscribe(o, t) \/ OtherUnsubscribe(o, t)
  PROVE  VersionsOK'
<1> DEFINE Still == UNCHANGED <<db, ver, data, memVer, seen, sockVer, s2c, buffer>>
<1>1. \A type, asked : Old(Request(type, asked).got) /\ Request(type, asked).ver <= ver
  BY NewRequestOld
<1>2. ASSUME Still,
             \A r \in requests' \ requests : \E type, asked : r = Request(type, asked)
      PROVE  VersionsOK'
  BY <1>1, <1>2, StillVersions
<1>3. ASSUME NEW ts, Subscribe(ts) PROVE VersionsOK'
  BY <1>2, <1>3 DEF Subscribe, Ask
<1>4. ASSUME NEW t, Fetch(t) PROVE VersionsOK'
  BY <1>2, <1>4 DEF Fetch, Ask
<1>5. ASSUME NEW t, Unsubscribe(t) PROVE VersionsOK'
  BY <1>2, <1>5 DEF Unsubscribe
<1>6. CASE UnsubscribeAll
  BY <1>2, <1>6 DEF UnsubscribeAll
<1>7. CASE Receive
  BY <1>2, <1>7 DEF Receive, modelVars, history
<1>8. CASE Bundle
  <2>1. Still /\ requests' = Abandoned  BY <1>8 DEF Bundle
  <2>2. \A r \in requests' \ requests : Old(r.got) /\ r.ver <= ver
    BY <2>1, NewRequestOld DEF VersionsOK
  <2> QED  BY <2>1, <2>2, StillVersions
<1>9. ASSUME NEW r \in requests, Guarded(r) PROVE VersionsOK'
  <2>1. Still  BY <1>9 DEF Guarded, netVars, modelVars, history
  <2>2. PICK done : done = [r EXCEPT !.stage = "fetch"]  OBVIOUS
  <2>3. \A x \in requests' \ requests : x = done  BY <1>9, <2>2 DEF Guarded
  <2>4. r \in Requests /\ Old(r.got) /\ r.ver <= ver  BY Bases DEF VersionsOK, RequestsOld
  <2>5. done.got = r.got /\ done.ver = r.ver  BY <2>2, <2>4 DEF Requests
  <2> QED  BY <2>1, <2>3, <2>4, <2>5, StillVersions
<1>10. ASSUME NEW o, NEW t, OtherSubscribe(o, t) \/ OtherUnsubscribe(o, t) PROVE VersionsOK'
  BY <1>2, <1>10 DEF OtherSubscribe, OtherUnsubscribe, netVars, modelVars, history
<1> QED  BY <1>3, <1>4, <1>5, <1>6, <1>7, <1>8, <1>9, <1>10

\* A request is refused.
LEMMA RefuseVersions ==
  ASSUME SubInv, SubInv', VersionsOK, NEW r \in requests, Refuse(r)
  PROVE  VersionsOK'
<1>1. /\ requests' = requests \ {r}
      /\ UNCHANGED <<db, ver, data, memVer, seen, sockVer, buffer>>
  BY DEF Refuse, modelVars, history
<1>2. Grows
  <2>1. ver \in Int /\ \A p \in Paths : db[p] \in Int  BY DEF SubInv, StoreOK
  <2> QED  BY <1>1, <2>1 DEF Grows
<1>3. MemoryOld'  BY <1>1 DEF VersionsOK, MemoryOld
<1>4. RequestsOld'
  <2>1. requests' \ requests = {}  BY <1>1
  <2> QED  BY <1>2, <2>1, RequestsStayOld DEF VersionsOK
<1>5. TxnsGood(buffer)'  BY <1>1, <1>2, BufferStays DEF VersionsOK
<1>6. MessagesOld'
  <2>1. PICK m : m = [type |-> "fatalErr"]  OBVIOUS
  <2>2. m \in S2CMessages /\ m.type = "fatalErr"  BY <2>1 DEF S2CMessages
  <2>3. MessageOld(m)'  BY <2>2 DEF MessageOld
  <2>4. s2c' = s2c \/ s2c' = Append(s2c, m)  BY <2>1 DEF Refuse
  <2> QED  BY <1>1, <1>2, <2>2, <2>3, <2>4, MessagesStay DEF VersionsOK
<1> QED  BY <1>3, <1>4, <1>5, <1>6 DEF VersionsOK

\* A target is read.
LEMMA ReadVersions ==
  ASSUME SubInv, SubInv', InStepInv, NEW r \in requests, NEW t \in r.left, Read(r, t)
  PROVE  VersionsOK'
<1>1. UNCHANGED <<db, ver, up, sockVer, buffering, buffer, onServer>>  BY DEF Read
<1>2. PICK done : done = HasRead(r, t)  OBVIOUS
<1>3. PICK got, v : got = done.got /\ v = done.ver  OBVIOUS
<1>4. /\ got \in Gots /\ v \in 0 .. MaxVer /\ Old(got) /\ v <= ver
      /\ VersionsOK /\ LinkGood /\ MemoryOld /\ RequestsOld
  BY <1>2, <1>3, HasReadOld DEF InStepInv, FlowOK, VersionsOK
<1>5. PICK m : m = [type |-> IF r.type = "subs" THEN "replace" ELSE r.type,
                    asked |-> r.asked, got |-> done.got, ver |-> done.ver]
  OBVIOUS
<1>6. \/ /\ requests' = (requests \ {r}) \cup {done}
         /\ UNCHANGED <<s2c, data, memVer, seen>>
      \/ /\ requests' = requests \ {r} /\ s2c' = Append(s2c, m)
         /\ UNCHANGED <<data, memVer, seen>>
      \/ /\ requests' = requests \ {r} /\ onServer /\ s2c' = s2c /\ AddData(got, v)
  BY <1>2, <1>3, <1>5 DEF Read
<1>7. Grows
  <2>1. ver \in Int /\ \A p \in Paths : db[p] \in Int  BY DEF SubInv, StoreOK
  <2> QED  BY <1>1, <2>1 DEF Grows
<1>8. RequestsOld'
  <2>1. \A x \in requests' \ requests : x = done  BY <1>6
  <2>2. Old(done.got)' /\ done.ver <= ver'  BY <1>1, <1>3, <1>4 DEF Old
  <2>3. \A x \in requests' \ requests : Old(x.got)' /\ x.ver <= ver'
    BY <2>1, <2>2 DEF Old
  <2> QED  BY <1>4, <1>7, <2>3, RequestsStayOld
<1>9. CASE UNCHANGED <<data, memVer, seen>>
  <2>1. MemoryOld'  BY <1>1, <1>4, <1>9 DEF MemoryOld
  <2>2. TxnsGood(buffer)'  BY <1>1, <1>4, <1>7, <1>9, BufferStays DEF VersionsOK
  <2>3. MessagesOld'
    <3>1. m \in S2CMessages /\ m.type \in {"subscribe", "fetch", "replace"}
          /\ m.got = got /\ m.ver = v
      <4>1. r \in Requests  BY Bases
      <4>2. r.type \in {"subscribe", "fetch", "subs"} /\ r.asked \in Askings
        BY <4>1 DEF Requests
      <4>3. PICK type \in {"subscribe", "fetch", "replace"} :
              type = IF r.type = "subs" THEN "replace" ELSE r.type
        BY <4>2
      <4>4. m = [type |-> type, asked |-> r.asked, got |-> got, ver |-> v]
        BY <1>3, <1>5, <4>3
      <4> QED  BY <1>4, <4>2, <4>3, <4>4 DEF Answers, S2CMessages
    <3>2. MessageOld(m)'  BY <1>1, <1>4, <3>1 DEF MessageOld, Old
    <3>3. s2c' = s2c \/ s2c' = Append(s2c, m)  BY <1>6
    <3> QED  BY <1>4, <1>7, <1>9, <3>1, <3>2, <3>3, MessagesStay DEF VersionsOK
  <2> QED  BY <1>8, <2>1, <2>2, <2>3 DEF VersionsOK
<1>10. CASE onServer /\ s2c' = s2c /\ AddData(got, v)
  <2>1. s2c' = << >> /\ buffer' = << >>
    BY <1>1, <1>4, <1>10 DEF SubInv, NetOK, LinkGood
  <2>2. ModelOK /\ db \in [Paths -> 0 .. MaxVer] /\ ver \in 0 .. MaxVer /\ MaxVer \in Nat
    BY Kinds DEF SubInv, StoreOK
  <2>3. PICK w : w = db  OBVIOUS
  <2>4. w \in [Paths -> Int] /\ \A p \in Paths : data[p] <= w[p] /\ seen[p] <= w[p]
    <3>1. w \in [Paths -> Int]  BY <2>2, <2>3
    <3> QED  BY <1>4, <2>3, <3>1 DEF MemoryOld
  <2>5. \A p \in DOMAIN got : got[p] <= w[p]  BY <1>4, <2>3 DEF Old
  <2>6. \A p \in Paths : data'[p] <= w[p] /\ seen'[p] <= w[p]
    BY <1>4, <1>10, <2>2, <2>4, <2>5, AddDataTells
  <2>7. memVer' <= ver
    <3>1. memVer' = IF memVer < v THEN v ELSE memVer  BY <1>10 DEF AddData, Larger
    <3> QED  BY <1>4, <3>1 DEF MemoryOld
  <2>8. MemoryOld'  BY <1>1, <1>4, <2>3, <2>6, <2>7 DEF MemoryOld
  <2> QED  BY <1>8, <2>1, <2>8, NoneSent, NoneBuffered DEF VersionsOK
<1> QED  BY <1>6, <1>9, <1>10

\* A write has the newest version, on the socket and in the buffer.
LEMMA WriteVersions ==
  ASSUME SubInv, SubInv', InStepInv, NEW p \in Paths, Write(p)
  PROVE  VersionsOK'
<1>1. PICK n : n = Cardinality({t \in Targets : Me \in fwd[t] /\ p \in Covers[t]})  OBVIOUS
<1>2. PICK txn : txn = [type |-> "txn", path |-> p, ver |-> ver + 1]  OBVIOUS
<1>3. /\ ver < MaxVer /\ ver' = ver + 1 /\ db' = [db EXCEPT ![p] = ver + 1]
      /\ IF onServer /\ n > 0 THEN AddData([x \in {p} |-> ver + 1], ver + 1)
         ELSE UNCHANGED <<data, memVer, seen>>
      /\ s2c' = IF up THEN s2c \o Sends(txn, n) ELSE s2c
      /\ sockVer' = IF up /\ n > 0 THEN Larger(sockVer, ver + 1) ELSE sockVer
      /\ buffer' = IF buffering THEN buffer \o [k \in 1 .. n |-> txn] ELSE buffer
      /\ requests' = requests
  BY <1>1, <1>2 DEF Write
<1>4. /\ VersionsOK /\ MemoryOld /\ LinkGood /\ IndexesOK /\ ModelOK /\ NetOK /\ StoreOK /\ StoreOK'
      /\ db \in [Paths -> 0 .. MaxVer] /\ db' \in [Paths -> 0 .. MaxVer]
      /\ ver \in 0 .. MaxVer /\ MaxVer \in Nat /\ ver \in Nat
  BY Kinds DEF InStepInv, FlowOK, VersionsOK, SubInv, StoreOK
<1>5. n \in Nat  BY <1>1, <1>4, MatchIs
<1>6. /\ ver + 1 \in 0 .. MaxVer /\ ver + 1 \in 1 .. MaxVer /\ ver + 1 \in Values
      /\ db'[p] = ver + 1 /\ \A q \in Paths : q # p => db'[q] = db[q]
  <2>1. ver + 1 \in 0 .. MaxVer /\ ver + 1 \in 1 .. MaxVer  BY <1>3, <1>4
  <2> QED  BY <1>3, <1>4, <2>1, Kinds
<1>7. txn \in Txns /\ txn \in S2CMessages /\ txn.type = "txn" /\ txn.ver = ver + 1 /\ txn.path = p
  BY <1>2, <1>6 DEF Txns, S2CMessages
<1>8. Grows
  <2>1. \A q \in Paths : db[q] <= ver /\ db[q] \in Int  BY <1>4 DEF MemoryOld
  <2> QED  BY <1>3, <1>4, <1>6, <2>1 DEF Grows
<1>9. \A q \in Paths : data[q] <= db'[q] /\ seen[q] <= db'[q]
  <2> SUFFICES ASSUME NEW q \in Paths PROVE data[q] <= db'[q] /\ seen[q] <= db'[q]
    OBVIOUS
  <2>1. data[q] <= db[q] /\ seen[q] <= db[q] /\ db[q] <= db'[q]
    BY <1>4, <1>8 DEF MemoryOld, Grows
  <2>2. data[q] \in Int /\ seen[q] \in Int /\ db[q] \in Int /\ db'[q] \in Int
    BY <1>4 DEF ModelOK, Values, Unread
  <2> QED  BY <2>1, <2>2
<1>10. (\A q \in Paths : data'[q] <= db'[q] /\ seen'[q] <= db'[q]) /\ memVer' <= ver'
  <2>1. CASE onServer /\ n > 0
    <3>1. PICK f : f = [x \in {p} |-> ver + 1]  OBVIOUS
    <3>2. f \in Gots
      <4>1. DOMAIN f \subseteq Paths /\ f = [x \in DOMAIN f |-> f[x]]  BY <3>1
      <4>2. \A x \in DOMAIN f : f[x] \in Values  BY <1>6, <3>1
      <4> QED  BY <4>1, <4>2, GotsAre
    <3>3. PICK w : w = db'  OBVIOUS
    <3>4. w \in [Paths -> Int] /\ \A q \in Paths : data[q] <= w[q] /\ seen[q] <= w[q]
      <4>1. w \in [Paths -> Int]  BY <1>4, <3>3
      <4> QED  BY <1>9, <3>3, <4>1
    <3>5. AddData(f, ver + 1)  BY <1>3, <2>1, <3>1
    <3>6. \A x \in DOMAIN f : f[x] <= w[x]  BY <1>4, <1>6, <3>1, <3>3
    <3>7. \A q \in Paths : data'[q] <= w[q] /\ seen'[q] <= w[q]
      BY <1>4, <1>6, <3>2, <3>4, <3>5, <3>6, AddDataTells
    <3>8. memVer' = IF memVer < ver + 1 THEN ver + 1 ELSE memVer
      BY <3>5 DEF AddData, Larger
    <3>9. memVer <= ver /\ memVer \in Int  BY <1>4 DEF MemoryOld, ModelOK
    <3> QED  BY <1>3, <1>4, <3>3, <3>7, <3>8, <3>9
  <2>2. CASE ~ (onServer /\ n > 0)
    <3>1. UNCHANGED <<data, memVer, seen>>  BY <1>3, <2>2
    <3>2. memVer <= ver /\ memVer \in Int  BY <1>4 DEF MemoryOld, ModelOK
    <3> QED  BY <1>3, <1>4, <1>9, <3>1, <3>2
  <2> QED  BY <2>1, <2>2
<1>11. MemoryOld'
  <2>1. \A q \in Paths : db'[q] <= ver'
    <3>1. \A q \in Paths : db[q] <= ver /\ db[q] \in Int  BY <1>4 DEF MemoryOld
    <3> QED  BY <1>3, <1>4, <1>6, <3>1
  <2>2. sockVer' <= ver'
    <3>1. sockVer \in Int /\ sockVer <= ver  BY <1>4 DEF NetOK, MemoryOld
    <3>2. sockVer' = sockVer \/ sockVer' = ver + 1  BY <1>3 DEF Larger
    <3> QED  BY <1>3, <1>4, <3>1, <3>2
  <2> QED  BY <1>10, <2>1, <2>2 DEF MemoryOld
<1>12. RequestsOld'
  <2>1. requests' \ requests = {}  BY <1>3
  <2> QED  BY <1>4, <1>8, <2>1, RequestsStayOld DEF VersionsOK
<1>13. CASE onServer
  <2>1. s2c' = << >> /\ buffer' = << >>
    BY <1>3, <1>4, <1>13 DEF NetOK, LinkGood
  <2> QED  BY <1>11, <1>12, <2>1, NoneSent, NoneBuffered DEF VersionsOK
<1>14. CASE ~onServer
  <2>1. memVer' = memVer /\ memVer \in Int /\ memVer <= ver
    BY <1>3, <1>4, <1>14 DEF MemoryOld, ModelOK
  <2>2. TxnOld(txn)'  BY <1>4, <1>6, <1>7, <2>1 DEF TxnOld
  <2>3. MessagesOld'
    <3>1. s2c' = s2c \/ s2c' = Append(s2c, txn)
      <4>1. Sends(txn, n) = <<txn>> \/ Sends(txn, n) = << >>  BY DEF Sends
      <4>2. s2c \o <<txn>> = Append(s2c, txn) /\ s2c \o << >> = s2c  BY <1>7, Bases
      <4> QED  BY <1>3, <4>1, <4>2
    <3>2. MessageOld(txn)'  BY <1>7, <2>2 DEF MessageOld
    <3>3. \A j \in 1 .. Len(s2c) : Below(s2c[j], txn.ver)
      <4> SUFFICES ASSUME NEW j \in 1 .. Len(s2c) PROVE Below(s2c[j], txn.ver)  OBVIOUS
      <4>1. s2c[j] \in S2CMessages /\ MessageOld(s2c[j])
        BY <1>4, Bases DEF VersionsOK, MessagesOld
      <4> QED  BY <1>4, <1>7, <4>1, AllBelow
    <3> QED  BY <1>4, <1>7, <1>8, <2>1, <3>1, <3>2, <3>3, MessagesStay DEF VersionsOK
  <2>4. TxnsGood(buffer)'
    <3>1. CASE ~buffering
      <4>1. buffer' = buffer  BY <1>3, <3>1
      <4> QED  BY <1>4, <1>8, <2>1, <4>1, BufferStays DEF VersionsOK
    <3>2. CASE buffering
      <4>1. PICK b, c, more : b = buffer /\ c = buffer' /\ more = [k \in 1 .. n |-> txn]
        OBVIOUS
      <4>2. b \in Seq(Txns) /\ TxnsGood(b) /\ Len(b) \in Nat
        BY <1>4, <4>1 DEF NetOK, VersionsOK
      <4>3. more \in Seq(Txns) /\ Len(more) = n /\ \A k \in 1 .. n : more[k] = txn
        BY <1>5, <1>7, <4>1
      <4>4. c = b \o more  BY <1>3, <3>2, <4>1
      <4>5. /\ Len(c) = Len(b) + n
            /\ \A k \in 1 .. Len(c) : (k \in 1 .. Len(b) /\ c[k] = b[k])
                                      \/ (k > Len(b) /\ c[k] = txn)
        <5>1. Len(c) = Len(b) + n  BY <4>2, <4>3, <4>4
        <5>2. ASSUME NEW k \in 1 .. Len(c) PROVE (k \in 1 .. Len(b) /\ c[k] = b[k])
                                                 \/ (k > Len(b) /\ c[k] = txn)
          <6>1. CASE k <= Len(b)  BY <4>2, <4>3, <4>4, <6>1
          <6>2. CASE k > Len(b)
            <7>1. k - Len(b) \in 1 .. n  BY <1>5, <4>2, <5>1, <6>2
            <7>2. c[k] = more[k - Len(b)]  BY <4>2, <4>3, <4>4, <5>1, <6>2
            <7> QED  BY <4>3, <6>2, <7>1, <7>2
          <6> QED  BY <4>2, <6>1, <6>2
        <5> QED  BY <5>1, <5>2
      <4>6. TxnsGood(b)'  BY <1>4, <1>8, <2>1, <4>2, TxnsStay
      <4>7. \A k \in 1 .. Len(b) : b[k].ver < txn.ver
        <5> SUFFICES ASSUME NEW k \in 1 .. Len(b) PROVE b[k].ver < txn.ver  OBVIOUS
        <5>1. b[k] \in Txns /\ TxnOld(b[k])  BY <4>2 DEF TxnsGood
        <5>2. b[k].path \in Paths /\ b[k].ver \in Int  BY <5>1 DEF Txns
        <5>3. b[k].ver <= db[b[k].path] /\ db[b[k].path] <= ver
          BY <1>4, <5>1, <5>2 DEF TxnOld, MemoryOld
        <5>4. db[b[k].path] \in Int  BY <1>4, <5>2
        <5> QED  BY <1>4, <1>7, <5>2, <5>3, <5>4
      <4>8. \A i \in 1 .. Len(c) : TxnOld(c[i])'  BY <2>2, <4>5, <4>6 DEF TxnsGood
      <4>9. \A i, j \in 1 .. Len(c) : i < j => c[i].ver < c[j].ver \/ c[i] = c[j]
        <5> SUFFICES ASSUME NEW i \in 1 .. Len(c), NEW j \in 1 .. Len(c), i < j
                     PROVE  c[i].ver < c[j].ver \/ c[i] = c[j]
          OBVIOUS
        <5>1. CASE j \in 1 .. Len(b)
          <6>1. i \in 1 .. Len(b) /\ c[i] = b[i]  BY <4>2, <4>5, <5>1
          <6>2. c[j] = b[j]  BY <4>2, <4>5, <5>1
          <6> QED  BY <4>2, <5>1, <6>1, <6>2 DEF TxnsGood
        <5>2. CASE c[j] = txn  BY <4>5, <4>7, <5>2
        <5> QED  BY <4>5, <5>1, <5>2
      <4>10. TxnsGood(c)'  BY <4>8, <4>9 DEF TxnsGood
      <4> QED  BY <4>1, <4>10 DEF TxnsGood
    <3> QED  BY <3>1, <3>2
  <2> QED  BY <1>11, <1>12, <2>3, <2>4 DEF VersionsOK
<1> QED  BY <1>13, <1>14

\* What was buffered comes first on a new socket.
LEMMA ConnectVersions ==
  ASSUME SubInv, SubInv', VersionsOK, Connect
  PROVE  VersionsOK'
<1>1. /\ buffer' = << >>
      /\ UNCHANGED <<db, ver, requests, data, memVer, seen, sockVer>>
  BY DEF Connect, storeVars, modelVars, history
<1>2. PICK m : m = IF buffering THEN [type |-> "newTxns", txns |-> buffer]
                   ELSE [type |-> "resync"]
  OBVIOUS
<1>3. s2c' = <<m>>  BY <1>2 DEF Connect
<1>4. Len(s2c') = 1 /\ 1 .. 1 = {1} /\ s2c'[1] = m  BY <1>3
<1>5. MessageOld(m)' /\ m.type \in {"newTxns", "resync"}
  <2>1. CASE buffering
    <3>1. m.type = "newTxns" /\ m.txns = buffer  BY <1>2, <2>1
    <3>2. TxnsGood(m.txns)  BY <3>1 DEF VersionsOK
    <3>3. TxnsGood(m.txns)'  BY <1>1, <3>2 DEF TxnsGood, TxnOld
    <3> QED  BY <3>1, <3>3 DEF MessageOld
  <2>2. CASE ~buffering
    <3>1. m.type = "resync"  BY <1>2, <2>2
    <3> QED  BY <3>1 DEF MessageOld
  <2> QED  BY <2>1, <2>2
<1>6. MessagesOld'  BY <1>4, <1>5 DEF MessagesOld, MessageOld, TxnsGood, TxnOld, Old
<1>7. MemoryOld' /\ RequestsOld'  BY <1>1 DEF VersionsOK, MemoryOld, RequestsOld, Old
<1> QED  BY <1>1, <1>6, <1>7, NoneBuffered DEF VersionsOK

\* A connection that breaks, and a buffer that goes, take what was there.
LEMMA DisconnectVersions ==
  ASSUME SubInv, SubInv', VersionsOK, Drop \/ Fatal \/ Expire
  PROVE  VersionsOK'
<1>1. UNCHANGED <<db, ver, data, memVer, seen>>
  BY DEF Drop, Fatal, Expire, storeVars, modelVars
<1>2. ver \in Nat /\ Grows
  <2>1. ver \in Int /\ \A p \in Paths : db[p] \in Int  BY DEF SubInv, StoreOK
  <2>2. ver \in Nat  BY Kinds DEF SubInv, StoreOK
  <2> QED  BY <1>1, <2>1, <2>2 DEF Grows
<1>3. CASE Drop \/ Fatal
  <2>1. sockVer' = 0 /\ s2c' = << >> /\ requests' = Abandoned /\ buffer' = buffer
    BY <1>3 DEF Drop, Fatal, Disconnected
  <2>2. MemoryOld'  BY <1>1, <1>2, <2>1 DEF VersionsOK, MemoryOld
  <2>3. RequestsOld'
    <3>1. \A r \in requests' : Old(r.got) /\ r.ver <= ver
      BY <2>1, NewRequestOld DEF VersionsOK
    <3> QED  BY <1>1, <3>1 DEF RequestsOld, Old
  <2>4. TxnsGood(buffer)'  BY <1>1, <1>2, <2>1, BufferStays DEF VersionsOK
  <2> QED  BY <2>1, <2>2, <2>3, <2>4, NoneSent DEF VersionsOK
<1>4. CASE Expire
  <2>1. buffer' = << >> /\ UNCHANGED <<requests, sockVer, s2c>>
    BY <1>4 DEF Expire, storeVars
  <2>2. MemoryOld' /\ RequestsOld'
    BY <1>1, <2>1 DEF VersionsOK, MemoryOld, RequestsOld, Old
  <2>3. MessagesOld'  BY <1>1, <1>2, <2>1, MessagesStay DEF VersionsOK
  <2> QED  BY <2>1, <2>2, <2>3, NoneBuffered DEF VersionsOK
<1> QED  BY <1>3, <1>4

\* What is behind the message that is taken has a later version than all that is in it.
LEMMA ClientReceiveVersions ==
  ASSUME SubInv, SubInv', VersionsOK, ClientReceive
  PROVE  VersionsOK'
<1>1. /\ up /\ s2c # << >> /\ s2c' = Tail(s2c)
      /\ UNCHANGED <<db, ver, requests, sockVer, buffering, buffer>>
  BY DEF ClientReceive, storeVars
<1>2. PICK m : m = Head(s2c)  OBVIOUS
<1>3. Tells(m) /\ Trails(m) /\ memVer' <= ver  BY <1>2, ReceiveTells
<1>4. m = s2c[1] /\ IsLess(s2c', s2c) /\ Len(s2c') \in Nat
  <2>1. m = s2c[1] /\ IsLess(s2c', s2c) /\ Tail(s2c) \in Seq(S2CMessages)
    BY <1>1, <1>2, Bases, LessIs DEF IsLess
  <2> QED  BY <1>1, <2>1
<1>5. MemoryOld'  BY <1>1, <1>3 DEF VersionsOK, MemoryOld, Tells
<1>6. RequestsOld'  BY <1>1 DEF VersionsOK, RequestsOld, Old
<1>7. buffer' = << >>  BY <1>1 DEF SubInv, NetOK
<1>8. MessagesOld'
  <2> SUFFICES ASSUME NEW k \in 1 .. Len(s2c'), NEW x, x = s2c'[k]
               PROVE  /\ MessageOld(x)' /\ x.type # "newTxns"
                      /\ x.type = "txn" => \A j \in 1 .. k - 1 : Below(s2c'[j], x.ver)
    BY DEF MessagesOld, Below
  <2>1. k + 1 \in 1 .. Len(s2c) /\ x = s2c[k + 1] /\ k + 1 # 1  BY <1>4 DEF IsLess
  <2>2. /\ x \in S2CMessages /\ MessageOld(x) /\ x.type # "newTxns"
        /\ x.type = "txn" => \A j \in 1 .. (k + 1) - 1 : Below(s2c[j], x.ver)
    BY <2>1, Bases DEF VersionsOK, MessagesOld
  <2>3. x.type = "txn" => \A j \in 1 .. k - 1 : Below(s2c'[j], x.ver)
    <3>1. \A j \in 1 .. k - 1 : j \in 1 .. Len(s2c') /\ j + 1 \in 1 .. (k + 1) - 1
      BY <1>4
    <3>2. \A j \in 1 .. k - 1 : s2c'[j] = s2c[j + 1]  BY <1>4, <3>1 DEF IsLess
    <3> QED  BY <2>2, <3>1, <3>2
  <2>4. x.type = "txn" => TxnOld(x)'
    <3> SUFFICES ASSUME x.type = "txn" PROVE TxnOld(x)'  OBVIOUS
    <3>1. TxnOld(x) /\ x.ver \in Nat  BY <2>2, MessageKinds, Kinds DEF MessageOld
    <3>2. 1 \in 1 .. (k + 1) - 1  BY <1>4
    <3>3. Below(m, x.ver)  BY <1>4, <2>2, <3>2
    <3>4. memVer' < x.ver  BY <1>3, <3>1, <3>3 DEF Trails, TxnOld
    <3> QED  BY <1>1, <3>1, <3>4 DEF TxnOld
  <2>5. MessageOld(x)'  BY <1>1, <2>2, <2>4 DEF MessageOld, Old
  <2> QED  BY <2>2, <2>3, <2>5
<1> QED  BY <1>5, <1>6, <1>7, <1>8, NoneBuffered DEF VersionsOK

-----------------------------------------------------------------------------
(* The model is in step *)

\* At first nothing is confirmed, and nobody waits for anything.
LEMMA InStepInit == Init => InStepInv
<1> SUFFICES ASSUME Init PROVE InStepInv  OBVIOUS
<1>1. /\ db = [p \in Paths |-> 0] /\ ver = 0 /\ requests = {} /\ sockVer = 0
      /\ buffer = << >> /\ c2s = << >> /\ s2c = << >> /\ onServer = TRUE
      /\ data = [p \in Paths |-> Unread] /\ memVer = 0 /\ acked = {} /\ seen = data
  BY DEF Init
<1>2. Len(buffer) = 0 /\ Len(c2s) = 0 /\ Len(s2c) = 0 /\ 1 .. 0 = {}  BY <1>1
<1>3. AckedGood /\ RequestsGood /\ CallsGood /\ AnswersGood /\ LinkGood
  BY <1>1, <1>2 DEF AckedGood, RequestsGood, CallsGood, AnswersGood, LinkGood
<1>4. MemoryOld  BY <1>1 DEF MemoryOld, Unread
<1>5. RequestsOld /\ TxnsGood(buffer) /\ MessagesOld
  BY <1>1, <1>2 DEF RequestsOld, TxnsGood, MessagesOld
<1> QED  BY <1>3, <1>4, <1>5 DEF InStepInv, FlowOK, VersionsOK

\* A step that changes nothing.
LEMMA InStepStutter ==
  ASSUME InStepInv, UNCHANGED vars
  PROVE  InStepInv'
<1>1. /\ UNCHANGED <<db, ver, fwd, rev, hub, requests, threw, up, conns, sockVer>>
      /\ UNCHANGED <<buffering, buffer, c2s, s2c, onServer, reg, patterns, data, memVer>>
      /\ UNCHANGED <<ops, stamp, acked, seen, lossy, shipped>>
  BY DEF vars, storeVars, netVars, modelVars, history
<1>2. \A p : Told(p) <=> Told(p)'  BY <1>1, ToldSame
<1>3. \A t : Watched(t) <=> Watched(t)'  BY <1>1 DEF Watched, Remains, TakesOut
<1>4. \A t : Remains(t) <=> Remains(t)'  BY <1>1 DEF Remains, TakesOut
<1>5. \A t : Sure(t) <=> Sure(t)'  BY <1>2 DEF Sure
<1>6. \A asked, left, got : Good(asked, left, got) => Good(asked, left, got)'
  BY <1>1, <1>2, <1>3 DEF Good, Matters, Brings
<1>7. \A asked : Chained(asked) => Chained(asked)'  BY <1>1, <1>5 DEF Chained
<1>8. AckedGood'  BY <1>1, <1>3, <1>5 DEF InStepInv, FlowOK, AckedGood
<1>9. RequestsGood'
  <2> SUFFICES ASSUME NEW r \in requests, r.live, RequestGood(r) PROVE RequestGood(r)'
    BY <1>1 DEF InStepInv, FlowOK, RequestsGood
  <2>1. PICK asked, left, got : asked = r.asked /\ left = r.left /\ got = r.got  OBVIOUS
  <2>2. Good(asked, left, got) => Good(asked, left, got)'  BY <1>6
  <2>3. Chained(asked) => Chained(asked)'  BY <1>7
  <2>4. \A t : stamp'[t] = stamp[t]  BY <1>1
  <2> QED  BY <1>4, <2>1, <2>2, <2>3, <2>4 DEF RequestGood
<1>10. CallsGood'
  <2> SUFFICES ASSUME NEW k \in 1 .. Len(c2s), CallGood(c2s[k], k) PROVE CallGood(c2s[k], k)'
    BY <1>1 DEF InStepInv, FlowOK, CallsGood
  <2>1. PICK m : m = c2s[k]  OBVIOUS
  <2>2. CallGood(m, k)'  BY <1>1, <1>7, <2>1 DEF CallGood, TakesOut
  <2> QED  BY <1>1, <2>1, <2>2
<1>11. AnswersGood'
  <2> SUFFICES ASSUME NEW k \in 1 .. Len(s2c), AnswerGood(s2c[k]) PROVE AnswerGood(s2c[k])'
    BY <1>1 DEF InStepInv, FlowOK, AnswersGood
  <2>1. PICK m : m = s2c[k]  OBVIOUS
  <2>2. AnswerGood(m)'  BY <1>6, <1>7, <2>1 DEF AnswerGood
  <2> QED  BY <1>1, <2>1, <2>2
<1>12. LinkGood'  BY <1>1 DEF InStepInv, FlowOK, LinkGood
<1>13. VersionsOK'
  BY <1>1 DEF InStepInv, VersionsOK, MemoryOld, RequestsOld, MessagesOld, MessageOld,
              TxnsGood, TxnOld, Old
<1> QED  BY <1>8, <1>9, <1>10, <1>11, <1>12, <1>13 DEF InStepInv, FlowOK

\* One case for each action: what flows, and the versions of it.
LEMMA InStepNext == SubInv /\ InStepInv /\ [Next]_vars => InStepInv'
<1> SUFFICES ASSUME SubInv, InStepInv, [Next]_vars PROVE InStepInv'  OBVIOUS
<1>1. SubInv' /\ FlowOK /\ VersionsOK  BY NextInv DEF InStepInv
<1>2. ASSUME NEW ts \in SUBSET Targets, IsFiniteSet(ts), Subscribe(ts) PROVE InStepInv'
  BY <1>1, <1>2, SubscribeFlow, StillSteps DEF InStepInv
<1>3. ASSUME NEW t \in Targets, Fetch(t) PROVE InStepInv'
  BY <1>1, <1>3, FetchFlow, StillSteps DEF InStepInv
<1>4. ASSUME NEW t \in Patterns, Unsubscribe(t) PROVE InStepInv'
  BY <1>1, <1>4, UnsubscribeFlow, StillSteps DEF InStepInv
<1>5. CASE UnsubscribeAll
  BY <1>1, <1>5, UnsubscribeAllFlow, StillSteps DEF InStepInv
<1>6. CASE Receive
  BY <1>1, <1>6, ReceiveFlow, StillSteps DEF InStepInv
<1>7. ASSUME NEW r \in requests, Guarded(r) PROVE InStepInv'
  BY <1>1, <1>7, GuardedFlow, StillSteps DEF InStepInv
<1>8. ASSUME NEW r \in requests, Refuse(r) PROVE InStepInv'
  BY <1>1, <1>8, RefuseFlow, RefuseVersions DEF InStepInv
<1>9. ASSUME NEW r \in requests, NEW t \in r.left, Read(r, t) PROVE InStepInv'
  <2>1. FlowOK'  BY <1>1, <1>9, ReadFlow
  <2>2. VersionsOK'  BY <1>1, <1>9, ReadVersions
  <2> QED  BY <2>1, <2>2 DEF InStepInv
<1>10. ASSUME NEW p \in Paths, Write(p) PROVE InStepInv'
  <2>1. FlowOK'  BY <1>1, <1>10, WriteFlow
  <2>2. VersionsOK'  BY <1>1, <1>10, WriteVersions
  <2> QED  BY <2>1, <2>2 DEF InStepInv
<1>11. ASSUME NEW o \in Others, NEW t \in OtherTargets,
              OtherSubscribe(o, t) \/ OtherUnsubscribe(o, t)
       PROVE  InStepInv'
  <2>1. FlowOK'  BY <1>1, <1>11, OtherFlow
  <2>2. VersionsOK'  BY <1>1, <1>11, StillSteps
  <2> QED  BY <2>1, <2>2 DEF InStepInv
<1>12. CASE Bundle
  BY <1>1, <1>12, BundleFlow, StillSteps DEF InStepInv
<1>13. CASE Connect
  BY <1>1, <1>13, ConnectFlow, ConnectVersions DEF InStepInv
<1>14. CASE Drop \/ Fatal
  BY <1>1, <1>14, DisconnectFlow, DisconnectVersions DEF InStepInv
<1>15. CASE Expire
  BY <1>1, <1>15, ExpireFlow, DisconnectVersions DEF InStepInv
<1>16. CASE ClientReceive
  <2>1. FlowOK'  BY <1>1, <1>16, ClientReceiveFlow
  <2>2. VersionsOK'  BY <1>1, <1>16, ClientReceiveVersions
  <2> QED  BY <2>1, <2>2 DEF InStepInv
<1>17. CASE UNCHANGED vars  BY <1>17, InStepStutter
<1> QED
  BY <1>2, <1>3, <1>4, <1>5, <1>6, <1>7, <1>8, <1>9, <1>10, <1>11, <1>12, <1>13, <1>14,
     <1>15, <1>16, <1>17
  DEF Next

\* What is on its way is under way.
LEMMA OnItsWayIs ==
  ASSUME SubInv, NEW p, OnItsWay(p)
  PROVE  UnderWay(p)
<1>1. DOMAIN buffer = 1 .. Len(buffer)  BY DEF SubInv, NetOK
<1>2. ASSUME NEW k \in 1 .. Len(buffer), Newest(buffer[k], p) PROVE UnderWay(p)
  BY <1>1, <1>2 DEF UnderWay, Newest
<1>3. ASSUME NEW k \in 1 .. Len(s2c), Carries(s2c[k], p) PROVE UnderWay(p)
  <2>1. k \in DOMAIN s2c /\ s2c[k] \in S2CMessages  BY Bases
  <2>2. PICK m : m = s2c[k]  OBVIOUS
  <2>3. CASE m.type = "txn" /\ Newest(m, p)  BY <2>1, <2>2, <2>3 DEF UnderWay, Newest
  <2>4. ASSUME m.type = "newTxns", NEW i \in 1 .. Len(m.txns), Newest(m.txns[i], p)
        PROVE  UnderWay(p)
    <3>1. m.txns \in Seq(Txns)  BY <2>1, <2>2, <2>4, MessageKinds
    <3>2. m.txns[i] \in ToSet(m.txns)  BY <3>1 DEF ToSet
    <3> QED  BY <2>1, <2>2, <2>4, <3>2 DEF UnderWay, Newest
  <2> QED  BY <1>3, <2>2, <2>3, <2>4 DEF Carries
<1> QED  BY <1>2, <1>3 DEF OnItsWay

\* Once its last subscription to it was answered, and unless messages were lost that the
\* store does not know of, whatever of a target has not reached the model is on its way to
\* it: over any connections and bundles, whatever the model asks for meanwhile, and
\* whatever the guards refuse.
THEOREM ModelInStep == Spec => []InStep
<1>1. SubInv /\ InStepInv => InStep
  <2> SUFFICES ASSUME SubInv, InStepInv, ~lossy, NEW t \in acked, NEW p \in Covers[t],
                      data[p] = seen[p]
               PROVE  data[p] = db[p] \/ UnderWay(p)
    BY DEF InStep
  <2>1. Told(p)  BY DEF InStepInv, FlowOK, AckedGood, Sure
  <2> QED  BY <2>1, OnItsWayIs DEF Told
<1>2. Init => SubInv /\ InStepInv  BY InitInv, InStepInit
<1>3. SubInv /\ InStepInv /\ [Next]_vars => (SubInv /\ InStepInv)'  BY NextInv, InStepNext
<1> QED  BY <1>1, <1>2, <1>3, PTL DEF Spec
=============================================================================
