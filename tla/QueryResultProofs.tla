------------------------- MODULE QueryResultProofs -------------------------
(***************************************************************************)
(* Proofs about the two lists that follow a query by deltas.               *)
(*                                                                         *)
(* LiveResult, at the model: for any documents, keys, limits and bounds,   *)
(* and any queue of own transactions, the list of a live query's result    *)
(* is what the query finds in the collection as the model shows it, each   *)
(* document once and, if it is sorted, in the order of the sort.  An       *)
(* overlay is built by a fold over the queue; each of its steps shows one  *)
(* mutation and no other change (ExtendShows), as does a mutation below an *)
(* overlay, old or new (ShowsBelow).  The listener is proved right for any *)
(* list, any collection before and any collection after (ListenRight),     *)
(* then used for each action.                                              *)
(*                                                                         *)
(* PaginatedQuery, at the store: for any documents, keys, skips and limits *)
(* of two or more, the cached page is the one that a query would find, and *)
(* a client that hears what is published has its documents.  A write takes *)
(* a document out of the sorted documents, puts one in, or both: Put and   *)
(* Trade say so of any two lists, Slides, Lapses and Grows what it does to *)
(* their pages, and MovesKept, LeavesKept and EntersKept that the node     *)
(* does just that to its cache.                                            *)
(***************************************************************************)
EXTENDS LiveResult, PaginatedQuery, SequenceTheorems, FiniteSetTheorems, WellFoundedInduction,
        TLAPS

-----------------------------------------------------------------------------
(* Folds: an overlay is extended by one transaction after the other, a     *)
(* client hears one message after the other.                               *)

\* What the client makes of a message.
Heard(ids, m) ==
  IF m.type = "addDoc" THEN ids \cup ({m.id} \ {Out})
  ELSE IF m.type = "rmDoc" THEN ids \ {m.id} ELSE ids

\* The operators that are folded: Heard, and Extend over a memory.
Hearing == [type |-> "hear"]
Extending(docs, there) == [type |-> "extend", docs |-> docs, there |-> there]
Op(kind, x, y) ==
  IF kind.type = "hear" THEN Heard(x, y) ELSE Extend(x, kind.docs, kind.there, y)

LastOf(s) == CHOOSE x \in s : \A y \in s : x >= y

\* The function from which FoldLeft takes its value, with Op for its operator.
Step(kind, base, seq, f, s) == IF s = {} THEN base ELSE Op(kind, f[s \ {LastOf(s)}], seq[LastOf(s)])
Folding(kind, base, seq, D, f) == f = [s \in SUBSET D |-> Step(kind, base, seq, f, s)]
Folded(kind, base, seq) == (CHOOSE f : Folding(kind, base, seq, DOMAIN seq, f))[DOMAIN seq]

\* A set of numbers has a least one.
LEMMA LeastOf ==
  ASSUME NEW T \in SUBSET Nat, T # {}
  PROVE  \E n \in T : \A m \in T : n <= m
<1> DEFINE R == {ss \in Nat \X Nat : ss[1] < ss[2]}
<1>1. IsWellFoundedOn(R, Nat)
  BY NatLessThanWellFounded DEF OpToRel
<1> HIDE DEF R
<1>2. PICK n \in T : \A m \in T : <<m, n>> \notin R
  BY <1>1, WFMin
<1>3. \A m \in T : ~(m < n)
  BY <1>2 DEF R
<1> QED  BY <1>3

\* A set of numbers up to n has a greatest one.
LEMMA GreatestOf ==
  ASSUME NEW n \in Nat, NEW T \in SUBSET (1 .. n), T # {}
  PROVE  \E m \in T : \A k \in T : k <= m
<1> DEFINE B == {b \in 0 .. n : \A k \in T : k <= b}
<1>1. n \in B /\ B \in SUBSET Nat /\ B # {}  OBVIOUS
<1>2. PICK b \in B : \A c \in B : b <= c
  <2> HIDE DEF B
  <2> QED  BY <1>1, LeastOf
<1>3. b \in 0 .. n /\ \A k \in T : k \in 1 .. n /\ k <= b  BY <1>2
<1>4. ASSUME b \notin T PROVE FALSE
  <2>1. PICK k \in T : TRUE  OBVIOUS
  <2>2. b # 0  BY <1>3, <2>1
  <2>3. \A m \in T : m <= b - 1  BY <1>3, <1>4
  <2>4. b - 1 \in B  BY <1>3, <2>2, <2>3
  <2>5. b <= b - 1
    <3> HIDE DEF B
    <3> QED  BY <1>2, <2>4
  <2> QED  BY <1>3, <2>5
<1> QED  BY <1>3, <1>4
\* The last place of a set with k in it, of the places up to k, is k.
LEMMA LastIs ==
  ASSUME NEW k \in Nat, NEW s \in SUBSET (1 .. k), k \in s
  PROVE  LastOf(s) = k
<1> DEFINE P(x) == x \in s /\ \A y \in s : x >= y
<1>1. P(k) /\ \A x : P(x) => x = k
  <2>1. \A y \in s : y \in Nat /\ k >= y  OBVIOUS
  <2>2. ASSUME NEW x, P(x) PROVE x = k
    <3>1. x \in Nat /\ k >= x /\ x >= k  BY <2>1, <2>2
    <3> QED  BY <3>1
  <2> QED  BY <2>1, <2>2
<1>2. LastOf(s) = CHOOSE x : P(x)  BY DEF LastOf
<1> HIDE DEF P
<1> QED  BY <1>1, <1>2

\* There is such a function on the sets of the first n places.
LEMMA FoldingExists ==
  ASSUME NEW kind, NEW base, NEW seq, NEW n \in Nat
  PROVE  \E f : Folding(kind, base, seq, 1 .. n, f)
<1> DEFINE Bad == {k \in Nat : ~ \E f : Folding(kind, base, seq, 1 .. k, f)}
<1>1. ASSUME Bad # {} PROVE FALSE
  <2>1. PICK k \in Bad : \A m \in Bad : k <= m
    <3>1. Bad \in SUBSET Nat  OBVIOUS
    <3> HIDE DEF Bad
    <3> QED  BY <1>1, <3>1, LeastOf
  <2>2. k \in Nat /\ ~ \E f : Folding(kind, base, seq, 1 .. k, f)  BY <2>1
  <2>3. CASE k = 0
    <3> DEFINE f == [s \in SUBSET (1 .. 0) |-> base]
    <3>1. \A s \in SUBSET (1 .. 0) : Step(kind, base, seq, f, s) = base  BY DEF Step
    <3>2. Folding(kind, base, seq, 1 .. 0, f)
      <4>1. f = [s \in SUBSET (1 .. 0) |-> Step(kind, base, seq, f, s)]  BY <3>1
      <4> QED  BY <4>1 DEF Folding
    <3> QED  BY <2>2, <2>3, <3>2
  <2>4. CASE k # 0
    <3>1. k - 1 \in Nat /\ ~ (k <= k - 1)  BY <2>2, <2>4
    <3>2. k - 1 \notin Bad
      <4> HIDE DEF Bad
      <4> QED  BY <2>1, <3>1
    <3>3. PICK f : Folding(kind, base, seq, 1 .. k - 1, f)  BY <3>1, <3>2
    <3> DEFINE g == [s \in SUBSET (1 .. k) |->
                       IF k \in s THEN Step(kind, base, seq, f, s) ELSE f[s]]
    <3>4. ASSUME NEW s \in SUBSET (1 .. k) PROVE g[s] = Step(kind, base, seq, g, s)
      <4>1. CASE k \in s
        <5>1. s \ {k} \in SUBSET (1 .. k) /\ k \notin s \ {k} /\ s # {}  BY <4>1
        <5>2. LastOf(s) = k  BY <2>2, <4>1, LastIs
        <5>3. g[s \ {k}] = f[s \ {k}]  BY <5>1
        <5>4. g[s] = Step(kind, base, seq, f, s)  BY <4>1
        <5> HIDE DEF g
        <5> QED  BY <5>1, <5>2, <5>3, <5>4 DEF Step
      <4>2. CASE k \notin s
        <5>1. s \in SUBSET (1 .. k - 1)  BY <2>2, <4>2
        <5>2. f[s] = Step(kind, base, seq, f, s)
          <6>1. f = [x \in SUBSET (1 .. k - 1) |-> Step(kind, base, seq, f, x)]
            BY <3>3 DEF Folding
          <6> QED  BY <5>1, <6>1
        <5>3. g[s] = f[s]  BY <4>2
        <5>4. g[s \ {LastOf(s)}] = f[s \ {LastOf(s)}]  BY <4>2
        <5> HIDE DEF g
        <5> QED  BY <5>2, <5>3, <5>4 DEF Step
      <4> QED  BY <4>1, <4>2
    <3>5. Folding(kind, base, seq, 1 .. k, g)
      <4>1. g = [s \in SUBSET (1 .. k) |-> g[s]]  OBVIOUS
      <4>2. g = [s \in SUBSET (1 .. k) |-> Step(kind, base, seq, g, s)]
        <5> HIDE DEF g
        <5> QED  BY <3>4, <4>1
      <4> HIDE DEF g
      <4> QED  BY <4>2 DEF Folding
    <3> QED  BY <2>2, <3>5
  <2> QED  BY <2>3, <2>4
<1> QED  BY <1>1

\* FoldLeft passes through a list of values, one for each member of the sequence:
\* each is Op of the one before it and the member.
LEMMA FoldLeftSteps ==
  ASSUME NEW kind, NEW base, NEW S, NEW seq \in Seq(S)
  PROVE  \E v : /\ v[0] = base
                /\ \A k \in 1 .. Len(seq) : v[k] = Op(kind, v[k - 1], seq[k])
                /\ Folded(kind, base, seq) = v[Len(seq)]
<1> DEFINE n == Len(seq)
<1>1. n \in Nat /\ DOMAIN seq = 1 .. n  OBVIOUS
<1>2. PICK f : f = CHOOSE g : Folding(kind, base, seq, 1 .. n, g)  OBVIOUS
<1>3. Folding(kind, base, seq, 1 .. n, f)  BY <1>1, <1>2, FoldingExists
<1>4. Folded(kind, base, seq) = f[1 .. n]  BY <1>1, <1>2 DEF Folded
<1> HIDE DEF n
<1>5. \A s \in SUBSET (1 .. n) : f[s] = Step(kind, base, seq, f, s)
  <2>1. f = [s \in SUBSET (1 .. n) |-> Step(kind, base, seq, f, s)]  BY <1>3 DEF Folding
  <2> QED  BY <2>1
<1> DEFINE v == [k \in 0 .. n |-> f[1 .. k]]
<1>6. v[0] = base
  <2>1. (1 .. 0) \in SUBSET (1 .. n) /\ (1 .. 0) = {}  BY <1>1
  <2>2. f[1 .. 0] = base  BY <1>5, <2>1 DEF Step
  <2> QED  BY <1>1, <2>2
<1>7. ASSUME NEW k \in 1 .. n PROVE v[k] = Op(kind, v[k - 1], seq[k])
  <2>1. k \in Nat /\ k \in 1 .. k /\ (1 .. k) \in SUBSET (1 .. n)  BY <1>1
  <2>2. LastOf(1 .. k) = k  BY <2>1, LastIs
  <2>3. (1 .. k) \ {k} = 1 .. k - 1 /\ 1 .. k # {}  BY <2>1
  <2>4. f[1 .. k] = Op(kind, f[1 .. k - 1], seq[k])  BY <1>5, <2>1, <2>2, <2>3 DEF Step
  <2>5. v[k] = f[1 .. k] /\ v[k - 1] = f[1 .. k - 1]  BY <1>1
  <2> QED  BY <2>4, <2>5
<1>8. Folded(kind, base, seq) = v[n]  BY <1>1, <1>4
<1> HIDE DEF v
<1>9. /\ v[0] = base
      /\ \A k \in 1 .. Len(seq) : v[k] = Op(kind, v[k - 1], seq[k])
      /\ Folded(kind, base, seq) = v[Len(seq)]
  BY <1>6, <1>7, <1>8 DEF n
<1> QED  BY <1>9

\* What holds of 0 and goes from each number to the next up to n holds of all.
LEMMA Upto ==
  ASSUME NEW n \in Nat, NEW T, 0 \in T, \A k \in 1 .. n : k - 1 \in T => k \in T
  PROVE  \A k \in 0 .. n : k \in T
<1> DEFINE Bad == {k \in 0 .. n : k \notin T}
<1>1. ASSUME Bad # {} PROVE FALSE
  <2>1. PICK k \in Bad : \A m \in Bad : k <= m
    <3>1. Bad \in SUBSET Nat  OBVIOUS
    <3> HIDE DEF Bad
    <3> QED  BY <1>1, <3>1, LeastOf
  <2>2. k \in 0 .. n /\ k \notin T  BY <2>1
  <2>3. k \in 1 .. n /\ k - 1 \in 0 .. n /\ ~ (k <= k - 1)  BY <2>2
  <2>4. k - 1 \notin Bad
    <3> HIDE DEF Bad
    <3> QED  BY <2>1, <2>3
  <2> QED  BY <2>2, <2>3, <2>4
<1> QED  BY <1>1

\* Array.prototype.splice with one element to insert: a place later from there on.
LEMMA InsertAtIs ==
  ASSUME NEW S, NEW s \in Seq(S), NEW i \in 1 .. Len(s) + 1, NEW e \in S
  PROVE  /\ InsertAt(s, i, e) \in Seq(S)
         /\ Len(InsertAt(s, i, e)) = Len(s) + 1
         /\ \A k \in 1 .. i - 1 : InsertAt(s, i, e)[k] = s[k]
         /\ InsertAt(s, i, e)[i] = e
         /\ \A k \in i + 1 .. Len(s) + 1 : InsertAt(s, i, e)[k] = s[k - 1]
<1>1. PICK n \in Nat : n = Len(s)  OBVIOUS
<1>2. PICK a : a = SubSeq(s, 1, i - 1)  OBVIOUS
<1>3. PICK b : b = SubSeq(s, i, Len(s))  OBVIOUS
<1>4. a \in Seq(S) /\ Len(a) = i - 1 /\ \A k \in 1 .. i - 1 : a[k] = s[k]
  BY <1>1, <1>2
<1>5. b \in Seq(S) /\ Len(b) = n - i + 1 /\ \A k \in 1 .. n - i + 1 : b[k] = s[i + k - 1]
  BY <1>1, <1>3
<1>6. PICK c : c = a \o <<e>>  OBVIOUS
<1>7. c \in Seq(S) /\ Len(c) = i /\ (\A k \in 1 .. i - 1 : c[k] = s[k]) /\ c[i] = e
  BY <1>1, <1>4, <1>6
<1>8. PICK r : r = c \o b  OBVIOUS
<1>9. r \in Seq(S) /\ Len(r) = n + 1 /\ (\A k \in 1 .. i : r[k] = c[k])
      /\ \A k \in i + 1 .. n + 1 : r[k] = b[k - i]
  BY <1>1, <1>5, <1>7, <1>8
<1>10. \A k \in i + 1 .. n + 1 : k - i \in 1 .. n - i + 1 /\ i + (k - i) - 1 = k - 1
  BY <1>1
<1>11. r = InsertAt(s, i, e)  BY <1>2, <1>3, <1>6, <1>8 DEF InsertAt
<1>12. \A k \in i + 1 .. n + 1 : r[k] = s[k - 1]  BY <1>5, <1>9, <1>10
<1>13. r[i] = e /\ \A k \in 1 .. i - 1 : r[k] = s[k]  BY <1>1, <1>7, <1>9
<1> QED  BY <1>1, <1>9, <1>11, <1>12, <1>13

\* And with one element to remove.
LEMMA RemoveAtIs ==
  ASSUME NEW S, NEW s \in Seq(S), NEW i \in 1 .. Len(s)
  PROVE  /\ RemoveAt(s, i) \in Seq(S)
         /\ Len(RemoveAt(s, i)) = Len(s) - 1
         /\ \A k \in 1 .. i - 1 : RemoveAt(s, i)[k] = s[k]
         /\ \A k \in i .. Len(s) - 1 : RemoveAt(s, i)[k] = s[k + 1]
<1>1. PICK n \in Nat : n = Len(s)  OBVIOUS
<1>2. PICK a : a = SubSeq(s, 1, i - 1)  OBVIOUS
<1>3. PICK b : b = SubSeq(s, i + 1, Len(s))  OBVIOUS
<1>4. a \in Seq(S) /\ Len(a) = i - 1 /\ \A k \in 1 .. i - 1 : a[k] = s[k]
  BY <1>1, <1>2
<1>5. b \in Seq(S) /\ Len(b) = n - i /\ \A k \in 1 .. n - i : b[k] = s[i + k]
  BY <1>1, <1>3
<1>6. PICK r : r = a \o b  OBVIOUS
<1>7. r \in Seq(S) /\ Len(r) = n - 1 /\ (\A k \in 1 .. i - 1 : r[k] = a[k])
      /\ \A k \in i .. n - 1 : r[k] = b[k - (i - 1)]
  <2>1. PICK m \in Nat : m = i - 1 /\ i \in Nat  BY <1>1
  <2>2. Len(a) = m /\ Len(b) = n - m - 1  BY <1>1, <1>4, <1>5, <2>1
  <2>3. r \in Seq(S) /\ Len(r) = n - 1  BY <1>1, <1>4, <1>5, <1>6, <2>1, <2>2
  <2>4. \A k \in 1 .. m : r[k] = a[k]  BY <1>4, <1>5, <1>6, <2>1, <2>2
  <2>5. \A k \in m + 1 .. n - 1 : r[k] = b[k - m]
    BY <1>1, <1>4, <1>5, <1>6, <2>1, <2>2
  <2>6. m + 1 = i /\ \A k \in i .. n - 1 : k - m = k - (i - 1)  BY <1>1, <2>1
  <2>7. \A k \in i .. n - 1 : r[k] = b[k - (i - 1)]  BY ONLY <2>5, <2>6
  <2>8. \A k \in 1 .. i - 1 : r[k] = a[k]  BY ONLY <2>1, <2>4
  <2> QED  BY <2>3, <2>7, <2>8
<1>8. \A k \in i .. n - 1 : k - (i - 1) \in 1 .. n - i /\ i + (k - (i - 1)) = k + 1
  BY <1>1
<1>9. r = RemoveAt(s, i)  BY <1>2, <1>3, <1>6 DEF RemoveAt
<1>10. \A k \in i .. n - 1 : r[k] = s[k + 1]  BY <1>5, <1>7, <1>8
<1> QED  BY <1>1, <1>4, <1>7, <1>9, <1>10

-----------------------------------------------------------------------------
\* The collection that the model shows.

\* A mutation sets the key of its document and leaves the others.
LEMMA ApplyTyped ==
  ASSUME NEW docs \in Collections, NEW op \in Ops
  PROVE  /\ ApplyOp(docs, op) \in Collections /\ op.id \in Ids
         /\ \A i \in Ids : ApplyOp(docs, op)[i] = IF i = op.id THEN op.key ELSE docs[i]
<1>1. op.id \in Ids /\ op.key \in 0 .. MaxKey
  <2>1. MaxKey \in Nat  BY ResultAssumption
  <2> QED  BY <2>1 DEF Ops, Absent
<1> QED  BY <1>1 DEF ApplyOp, Collections

\* The memory has no documents without an object for the collection.
Holds(docs, there) == there \in BOOLEAN /\ (there \/ \A i \in Ids : docs[i] = Absent)

\* What an overlay shows is a collection.
LEMMA ShowTyped ==
  ASSUME NEW o \in Overlays, NEW docs \in Collections
  PROVE  Show(o, docs) \in Collections
<1>1. MaxKey \in Nat  BY ResultAssumption
<1>2. ASSUME NEW i \in Ids PROVE (IF o[i] < 0 THEN docs[i] ELSE o[i]) \in 0 .. MaxKey
  <2>1. o[i] \in ByWorld .. MaxKey /\ docs[i] \in 0 .. MaxKey
    BY DEF Overlays, Collections
  <2> QED  BY <1>1, <2>1 DEF ByWorld
<1> QED  BY <1>2 DEF Show, Collections

\* Extended by a mutation, an overlay shows it, and shows all else as before.
LEMMA ExtendShows ==
  ASSUME NEW o \in Overlays, NEW docs \in Collections, NEW there, Holds(docs, there),
         NEW op \in Ops
  PROVE  /\ Extend(o, docs, there, op) \in Overlays
         /\ \A i \in Ids : Show(Extend(o, docs, there, op), docs)[i]
                             = IF i = op.id THEN op.key ELSE Show(o, docs)[i]
<1>1. MaxKey \in Nat /\ op.id \in Ids /\ op.key \in 0 .. MaxKey
      /\ (op.kind = "del" => op.key = 0)
  <2>1. MaxKey \in Nat  BY ResultAssumption
  <2> QED  BY <2>1 DEF Ops, Absent
<1>2. \A i \in Ids : o[i] \in ByWorld .. MaxKey /\ docs[i] \in 0 .. MaxKey
  BY DEF Overlays, Collections
<1>3. \A r \in Overlays, i \in Ids : Show(r, docs)[i] = IF r[i] < 0 THEN docs[i] ELSE r[i]
  BY DEF Show
<1>4. CASE op.kind = "del" /\ ~there /\ o[op.id] = ByWorld
  <2>1. Extend(o, docs, there, op) = o  BY <1>4 DEF Extend, ExtendDel
  <2>2. Show(o, docs)[op.id] = 0
    BY <1>1, <1>3, <1>4 DEF Holds, ByWorld, Absent
  <2> QED  BY <1>1, <1>4, <2>1, <2>2
<1>5. CASE op.kind = "del" /\ ~ (~there /\ o[op.id] = ByWorld)
  <2>1. PICK r : r = [i \in Ids |-> IF i = op.id THEN Absent
                        ELSE IF o[i] \notin {ByWorld, ByCollection} THEN o[i]
                        ELSE IF docs[i] = Absent THEN Absent ELSE ByDoc]
    OBVIOUS
  <2>2. Extend(o, docs, there, op) = r  BY <1>5, <2>1 DEF Extend, ExtendDel
  <2>3. \A i \in Ids : r[i] \in ByWorld .. MaxKey
    BY <1>1, <1>2, <2>1 DEF ByWorld, ByCollection, ByDoc, Absent
  <2>4. r \in Overlays  BY <2>1, <2>3 DEF Overlays
  <2>5. ASSUME NEW i \in Ids
        PROVE Show(r, docs)[i] = IF i = op.id THEN op.key ELSE Show(o, docs)[i]
    BY <1>1, <1>2, <1>3, <1>5, <2>1, <2>4 DEF ByWorld, ByCollection, ByDoc, Absent
  <2> QED  BY <2>2, <2>4, <2>5
<1>6. CASE op.kind # "del"
  <2>1. PICK r : r = [i \in Ids |-> IF i = op.id THEN op.key
                        ELSE IF o[i] # ByWorld THEN o[i]
                        ELSE IF there THEN ByCollection ELSE Absent]
    OBVIOUS
  <2>2. Extend(o, docs, there, op) = r  BY <1>6, <2>1 DEF Extend, ExtendSet
  <2>3. \A i \in Ids : r[i] \in ByWorld .. MaxKey
    BY <1>1, <1>2, <2>1 DEF ByWorld, ByCollection, Absent
  <2>4. r \in Overlays  BY <2>1, <2>3 DEF Overlays
  <2>5. ASSUME NEW i \in Ids
        PROVE Show(r, docs)[i] = IF i = op.id THEN op.key ELSE Show(o, docs)[i]
    BY <1>1, <1>2, <1>3, <1>6, <2>1, <2>4 DEF Holds, ByWorld, ByCollection, Absent
  <2> QED  BY <2>2, <2>4, <2>5
<1> QED  BY <1>4, <1>5, <1>6

\* An overlay is built in as many steps as there are transactions in the queue.
LEMMA BuildSteps ==
  ASSUME NEW docs \in Collections, NEW there, Holds(docs, there), NEW queue \in Seq(Ops)
  PROVE  \E v : /\ v[0] = [i \in Ids |-> ByWorld]
                /\ \A k \in 1 .. Len(queue) :
                     v[k] = Extend(v[k - 1], docs, there, queue[k])
                /\ \A k \in 0 .. Len(queue) : v[k] \in Overlays
                /\ Build(docs, there, queue) = v[Len(queue)]
<1>1. PICK base : base = [i \in Ids |-> ByWorld]  OBVIOUS
<1>2. PICK kind : kind = Extending(docs, there)  OBVIOUS
<1>3. \A x, y : Op(kind, x, y) = Extend(x, docs, there, y)  BY <1>2 DEF Op, Extending
<1>4. Build(docs, there, queue) = Folded(kind, base, queue)
  <2> DEFINE P(f) == f = [s \in SUBSET DOMAIN queue |->
                            IF s = {} THEN base
                            ELSE Extend(f[s \ {LastOf(s)}], docs, there, queue[LastOf(s)])]
  <2>1. Build(docs, there, queue) = (CHOOSE f : P(f))[DOMAIN queue]
    BY <1>1 DEF Build, FoldLeft, MapThenFoldSet, Max, LastOf
  <2>2. \A f : P(f) <=> Folding(kind, base, queue, DOMAIN queue, f)
    BY <1>3 DEF Folding, Step
  <2> HIDE DEF P
  <2>3. PICK f : f = CHOOSE g : P(g)  OBVIOUS
  <2> QED  BY <2>1, <2>2, <2>3 DEF Folded
<1>5. PICK v : /\ v[0] = base
               /\ \A k \in 1 .. Len(queue) : v[k] = Extend(v[k - 1], docs, there, queue[k])
               /\ Folded(kind, base, queue) = v[Len(queue)]
  BY <1>3, FoldLeftSteps
<1>6. \A k \in 0 .. Len(queue) : v[k] \in Overlays
  <2> DEFINE T == {k \in 0 .. Len(queue) : v[k] \in Overlays}
  <2>1. Len(queue) \in Nat  OBVIOUS
  <2>2. 0 \in T
    <3>1. MaxKey \in Nat  BY ResultAssumption
    <3>2. base \in Overlays  BY <1>1, <3>1 DEF Overlays, ByWorld
    <3> QED  BY <1>5, <2>1, <3>2
  <2>3. ASSUME NEW k \in 1 .. Len(queue), k - 1 \in T PROVE k \in T
    <3>1. queue[k] \in Ops /\ v[k - 1] \in Overlays /\ k \in 0 .. Len(queue)
      BY <2>1, <2>3
    <3>2. v[k] \in Overlays  BY <1>5, <3>1, ExtendShows
    <3> QED  BY <3>1, <3>2
  <2>4. \A k \in 0 .. Len(queue) : k \in T
    <3> HIDE DEF T
    <3> QED  BY <2>1, <2>2, <2>3, Upto
  <2> QED  BY <2>4
<1> QED  BY <1>1, <1>4, <1>5, <1>6

\* Without transactions it shows the memory.
LEMMA BuildTyped ==
  ASSUME NEW docs \in Collections, NEW there, Holds(docs, there), NEW queue \in Seq(Ops)
  PROVE  /\ Build(docs, there, queue) \in Overlays
         /\ queue = << >> => Show(Build(docs, there, queue), docs) = docs
<1>1. PICK n \in Nat : n = Len(queue)  OBVIOUS
<1>2. PICK v : /\ v[0] = [i \in Ids |-> ByWorld]
               /\ \A k \in 0 .. n : v[k] \in Overlays
               /\ Build(docs, there, queue) = v[n]
  BY <1>1, BuildSteps
<1>3. v[n] \in Overlays  BY <1>1, <1>2
<1>4. ASSUME queue = << >> PROVE Show(v[0], docs) = docs
  <2>1. Show(v[0], docs) = [i \in Ids |-> docs[i]]  BY <1>2 DEF Show, ByWorld
  <2> QED  BY <2>1 DEF Collections
<1>5. queue = << >> => n = 0  BY <1>1
<1> QED  BY <1>2, <1>3, <1>4, <1>5

\* A transaction below the queue changes what is shown of its document at most, and
\* to nothing but what it wrote.
LEMMA BuildBelow ==
  ASSUME NEW docs \in Collections, NEW there, Holds(docs, there), NEW queue \in Seq(Ops),
         NEW op \in Ops, NEW since, Holds(ApplyOp(docs, op), since)
  PROVE  LET was == Show(Build(docs, there, queue), docs)
             now == Show(Build(ApplyOp(docs, op), since, queue), ApplyOp(docs, op))
         IN /\ \A i \in Ids \ {op.id} : now[i] = was[i]
            /\ now[op.id] \in {was[op.id], op.key}
<1>1. PICK n \in Nat : n = Len(queue)  OBVIOUS
<1>2. PICK after \in Collections : after = ApplyOp(docs, op)  BY ApplyTyped
<1>3. /\ op.id \in Ids /\ Holds(after, since)
      /\ \A i \in Ids : after[i] = IF i = op.id THEN op.key ELSE docs[i]
  BY <1>2, ApplyTyped
<1>4. PICK v : /\ v[0] = [i \in Ids |-> ByWorld]
               /\ \A k \in 1 .. n : v[k] = Extend(v[k - 1], docs, there, queue[k])
               /\ \A k \in 0 .. n : v[k] \in Overlays
               /\ Build(docs, there, queue) = v[n]
  BY <1>1, BuildSteps
<1>5. PICK w : /\ w[0] = [i \in Ids |-> ByWorld]
               /\ \A k \in 1 .. n : w[k] = Extend(w[k - 1], after, since, queue[k])
               /\ \A k \in 0 .. n : w[k] \in Overlays
               /\ Build(after, since, queue) = w[n]
  BY <1>1, <1>3, BuildSteps
<1> DEFINE T == {k \in 0 .. n :
                   /\ \A i \in Ids \ {op.id} : Show(w[k], after)[i] = Show(v[k], docs)[i]
                   /\ Show(w[k], after)[op.id] \in {Show(v[k], docs)[op.id], op.key}}
<1>6. 0 \in T
  <2>1. \A i \in Ids : Show(w[0], after)[i] = after[i] /\ Show(v[0], docs)[i] = docs[i]
    BY <1>4, <1>5 DEF Show, ByWorld
  <2> QED  BY <1>1, <1>3, <2>1
<1>7. ASSUME NEW k \in 1 .. n, k - 1 \in T PROVE k \in T
  <2>1. k \in 0 .. n /\ k - 1 \in 0 .. n /\ queue[k] \in Ops  BY <1>1
  <2>2. /\ \A i \in Ids \ {op.id} : Show(w[k - 1], after)[i] = Show(v[k - 1], docs)[i]
        /\ Show(w[k - 1], after)[op.id] \in {Show(v[k - 1], docs)[op.id], op.key}
    BY <1>7
  <2>3. PICK q \in Ops : q = queue[k]  BY <2>1
  <2>4. \A i \in Ids : Show(v[k], docs)[i]
                         = IF i = q.id THEN q.key ELSE Show(v[k - 1], docs)[i]
    <3>1. PICK o \in Overlays : o = v[k - 1]  BY <1>4, <2>1
    <3>2. v[k] = Extend(o, docs, there, q)  BY <1>4, <2>3, <3>1
    <3> QED  BY <3>1, <3>2, ExtendShows
  <2>5. \A i \in Ids : Show(w[k], after)[i]
                         = IF i = q.id THEN q.key ELSE Show(w[k - 1], after)[i]
    <3>1. PICK o \in Overlays : o = w[k - 1]  BY <1>5, <2>1
    <3>2. w[k] = Extend(o, after, since, q)  BY <1>5, <2>3, <3>1
    <3> QED  BY <1>3, <3>1, <3>2, ExtendShows
  <2>6. \A i \in Ids \ {op.id} : Show(w[k], after)[i] = Show(v[k], docs)[i]
    BY <2>2, <2>4, <2>5
  <2>7. Show(w[k], after)[op.id] \in {Show(v[k], docs)[op.id], op.key}
    BY <1>3, <2>2, <2>4, <2>5
  <2> QED  BY <2>1, <2>6, <2>7
<1>8. \A k \in 0 .. n : k \in T
  <2> HIDE DEF T
  <2> QED  BY <1>6, <1>7, Upto
<1>9. n \in T  BY <1>1, <1>8
<1> QED  BY <1>2, <1>4, <1>5, <1>9

-----------------------------------------------------------------------------
\* The list that the query gives when it is run.

\* Of a finite set that is ordered, with who comes up to each of its members: each
\* number up to its size is the place of one of them, who comes later has the greater.
LEMMA Places ==
  ASSUME NEW F, IsFiniteSet(F), NEW upto \in [F -> SUBSET F],
         \A i \in F : i \in upto[i],
         \A i, j \in F : i \in upto[j] \/ j \in upto[i],
         \A i, j \in F : i \in upto[j] /\ j \in upto[i] => i = j,
         \A i, j, k \in F : i \in upto[j] /\ j \in upto[k] => i \in upto[k]
  PROVE  /\ \A i \in F : Cardinality(upto[i]) \in 1 .. Cardinality(F)
         /\ \A i, j \in F : i \in upto[j] /\ i # j
                            => Cardinality(upto[i]) < Cardinality(upto[j])
         /\ \A n \in 1 .. Cardinality(F) : \E i \in F : Cardinality(upto[i]) = n
<1>1. PICK n \in Nat : n = Cardinality(F)  BY FS_CardinalityType
<1>2. ASSUME NEW i \in F PROVE IsFiniteSet(upto[i]) /\ Cardinality(upto[i]) \in 1 .. n
  <2>1. upto[i] \in SUBSET F /\ i \in upto[i]  OBVIOUS
  <2>2. IsFiniteSet(upto[i]) /\ Cardinality(upto[i]) <= n  BY <1>1, <2>1, FS_Subset
  <2>3. Cardinality(upto[i]) \in Nat /\ Cardinality(upto[i]) # 0
    BY <2>1, <2>2, FS_CardinalityType, FS_EmptySet
  <2> QED  BY <1>1, <2>2, <2>3
<1>3. ASSUME NEW i \in F, NEW j \in F, i \in upto[j], i # j
      PROVE  Cardinality(upto[i]) < Cardinality(upto[j])
  <2>1. upto[i] \in SUBSET upto[j]
    <3>1. upto[i] \in SUBSET F  OBVIOUS
    <3> QED  BY <1>3, <3>1
  <2>2. j \in upto[j] /\ j \notin upto[i]  BY <1>3
  <2>3. upto[i] # upto[j]  BY <2>2
  <2>4. /\ IsFiniteSet(upto[j])
        /\ Cardinality(upto[i]) \in Nat /\ Cardinality(upto[j]) \in Nat
    BY <1>1, <1>2
  <2>5. /\ Cardinality(upto[i]) <= Cardinality(upto[j])
        /\ Cardinality(upto[i]) # Cardinality(upto[j])
    BY <2>1, <2>3, <2>4, FS_Subset
  <2> QED  BY <2>4, <2>5
<1>4. \A m \in 1 .. n : \E i \in F : Cardinality(upto[i]) = m
  <2> DEFINE f == [i \in F |-> Cardinality(upto[i])]
  <2>1. f \in [F -> 1 .. n]  BY <1>2
  <2>2. ASSUME NEW i \in F, NEW j \in F, f[i] = f[j] PROVE i = j
    <3>1. Cardinality(upto[i]) = Cardinality(upto[j]) /\ Cardinality(upto[i]) \in Nat
      BY <1>1, <1>2, <2>2
    <3>2. i \in upto[j] \/ j \in upto[i]  OBVIOUS
    <3> QED  BY <1>3, <3>1, <3>2
  <2>3. f \in Injection(F, 1 .. n)  BY <2>1, <2>2 DEF Injection, IsInjective
  <2>4. IsFiniteSet(1 .. n) /\ Cardinality(1 .. n) = n
    <3>1. n \in Int /\ 1 \in Int /\ (1 > n => n = 0) /\ n - 1 + 1 = n  BY <1>1
    <3> QED  BY <3>1, FS_Interval
  <2>5. f \in Surjection(F, 1 .. n)
    <3> HIDE DEF f
    <3> QED  BY <1>1, <2>3, <2>4, FS_Injection
  <2>6. \A m \in 1 .. n : \E i \in F : f[i] = m  BY <2>5 DEF Surjection
  <2> QED  BY <2>6
<1> QED  BY <1>1, <1>2, <1>3, <1>4

\* A query that is run finds what passes, each document once, in the order of the keys
\* if it is sorted, and no more than its limit.
IsRun(p, v, upTo) ==
  /\ p \in Seq(Ids) /\ IsInjective(p)
  /\ limit # 0 => Len(p) <= limit
  /\ \A i \in ToSet(p) : v[i] # Absent /\ v[i] <= upTo
  /\ limit = 0 => \A i \in Ids : v[i] # Absent /\ v[i] <= upTo => i \in ToSet(p)
  /\ sorted => \A j, k \in DOMAIN p : j < k => v[p[j]] <= v[p[k]]

\* syncRun is such a run (scope.js, TransformBuilder.js: filter, sort, slice).
LEMMA SyncRunIs ==
  ASSUME NEW v \in Collections, NEW upTo \in Nat, limit \in Nat
  PROVE  IsRun(SyncRun(v, upTo), v, upTo)
<1> DEFINE found == {i \in Ids : v[i] # Absent /\ v[i] <= upTo}
           Earlier(j, i) == IF sorted /\ v[j] # v[i] THEN v[j] < v[i] ELSE j <= i
           Place(i) == Cardinality({j \in found : Earlier(j, i)})
           all == [n \in 1 .. Cardinality(found) |-> CHOOSE i \in found : Place(i) = n]
           upto == [i \in found |-> {j \in found : Earlier(j, i)}]
<1>1. IsFiniteSet(found) /\ found \subseteq Ids
  <2>1. IsFiniteSet(Ids) /\ found \in SUBSET Ids  BY ResultAssumption
  <2> QED  BY <2>1, FS_Subset
<1>2. \A i \in found : i \in Nat /\ v[i] \in Nat /\ i \in Ids
  <2>1. Ids \subseteq Nat /\ MaxKey \in Nat  BY ResultAssumption
  <2>2. \A i \in Ids : v[i] \in 0 .. MaxKey  BY DEF Collections
  <2> QED  BY <2>1, <2>2
<1>3. /\ upto \in [found -> SUBSET found]
      /\ \A i, j \in found : j \in upto[i] <=> Earlier(j, i)
  <2> HIDE DEF Earlier
  <2> QED  OBVIOUS
<1>4. /\ \A i, j \in found : Earlier(i, j) \/ Earlier(j, i)
      /\ \A i, j \in found : Earlier(i, j) /\ Earlier(j, i) => i = j
      /\ \A i, j, k \in found : Earlier(i, j) /\ Earlier(j, k) => Earlier(i, k)
  <2> HIDE DEF found
  <2> QED  BY <1>2
<1>5. PICK n \in Nat : n = Cardinality(found)  BY <1>1, FS_CardinalityType
<1>6. /\ \A i \in found : Place(i) \in 1 .. n
      /\ \A i, j \in found : Earlier(i, j) /\ i # j => Place(i) < Place(j)
      /\ \A m \in 1 .. n : \E i \in found : Place(i) = m
  <2>1. \A i \in found : Place(i) = Cardinality(upto[i])  OBVIOUS
  <2> HIDE DEF upto, Earlier, found, Place
  <2>2. /\ \A i \in found : Cardinality(upto[i]) \in 1 .. Cardinality(found)
        /\ \A i, j \in found : i \in upto[j] /\ i # j
                               => Cardinality(upto[i]) < Cardinality(upto[j])
        /\ \A m \in 1 .. Cardinality(found) : \E i \in found : Cardinality(upto[i]) = m
    <3>1. /\ \A i \in found : i \in upto[i]
          /\ \A i, j \in found : i \in upto[j] \/ j \in upto[i]
          /\ \A i, j \in found : i \in upto[j] /\ j \in upto[i] => i = j
          /\ \A i, j, k \in found : i \in upto[j] /\ j \in upto[k] => i \in upto[k]
      BY <1>3, <1>4
    <3> QED  BY <1>1, <1>3, <3>1, Places
  <2> QED  BY <1>3, <1>5, <2>1, <2>2
<1>7. PICK s : s = all  OBVIOUS
<1>8. /\ s = [m \in 1 .. n |-> s[m]]
      /\ \A m \in 1 .. n : s[m] \in found /\ Place(s[m]) = m
  <2> HIDE DEF Place, found
  <2>1. \A m \in 1 .. n : s[m] = CHOOSE i \in found : Place(i) = m  BY <1>5, <1>7
  <2>2. ASSUME NEW m \in 1 .. n PROVE s[m] \in found /\ Place(s[m]) = m
    <3>1. \E i \in found : Place(i) = m  BY <1>6
    <3> QED  BY <2>1, <3>1
  <2>3. s = [m \in 1 .. n |-> s[m]]  BY <1>5, <1>7
  <2> QED  BY <2>2, <2>3
<1> HIDE DEF all
<1>9. /\ s \in Seq(Ids) /\ Len(s) = n
      /\ \A m \in 1 .. n : s[m] \in found
      /\ \A i \in found : \E m \in 1 .. n : s[m] = i
      /\ \A j, k \in 1 .. n : s[j] = s[k] => j = k
      /\ \A j, k \in 1 .. n : j < k /\ sorted => v[s[j]] <= v[s[k]]
  <2> HIDE DEF Place, found
  <2>1. \A m \in 1 .. n : s[m] \in found /\ s[m] \in Ids /\ Place(s[m]) = m  BY <1>1, <1>8
  <2>2. s \in Seq(Ids) /\ Len(s) = n
    <3>1. s \in [1 .. n -> Ids]  BY <1>8, <2>1
    <3> QED  BY <3>1
  <2>3. ASSUME NEW i \in found PROVE \E m \in 1 .. n : s[m] = i
    <3>1. PICK m \in 1 .. n : m = Place(i)  BY <1>6
    <3>2. PICK o : o = s[m]  OBVIOUS
    <3>3. o \in found /\ Place(o) = Place(i) /\ Place(i) \in Nat  BY <2>1, <3>1, <3>2
    <3>4. Earlier(o, i) \/ Earlier(i, o)
      <4> HIDE DEF Earlier
      <4> QED  BY <1>4, <3>3
    <3>5. o = i
      <4> HIDE DEF Earlier
      <4> QED  BY <1>6, <3>3, <3>4
    <3> QED  BY <3>2, <3>5
  <2>4. \A j, k \in 1 .. n : s[j] = s[k] => j = k
    <3>1. ASSUME NEW j \in 1 .. n, NEW k \in 1 .. n, s[j] = s[k] PROVE j = k
      <4>1. Place(s[j]) = j /\ Place(s[k]) = k  BY <2>1
      <4> QED  BY <3>1, <4>1
    <3> QED  BY <3>1
  <2>5. ASSUME NEW j \in 1 .. n, NEW k \in 1 .. n, j < k, sorted PROVE v[s[j]] <= v[s[k]]
    <3>1. PICK a \in found, b \in found : a = s[j] /\ b = s[k]  BY <2>1
    <3>2. Place(a) = j /\ Place(b) = k /\ a # b  BY <2>1, <2>5, <3>1
    <3>3. ~ Earlier(b, a)
      <4> HIDE DEF Earlier
      <4> QED  BY <1>6, <2>5, <3>1, <3>2
    <3>4. v[a] <= v[b]  BY <1>2, <2>5, <3>3
    <3> QED  BY <3>1, <3>4
  <2> QED  BY <2>1, <2>2, <2>3, <2>4, <2>5
<1>10. \A i : i \in found <=> i \in Ids /\ v[i] # Absent /\ v[i] <= upTo  OBVIOUS
<1> HIDE DEF found
<1>11. PICK p : p = IF limit = 0 \/ Len(s) <= limit THEN s ELSE SubSeq(s, 1, limit)  OBVIOUS
<1>12. SyncRun(v, upTo) = p  BY <1>7, <1>11 DEF SyncRun, all, found, Place, Earlier
<1>13. PICK l \in 0 .. n : /\ p \in Seq(Ids) /\ Len(p) = l
                           /\ \A k \in 1 .. l : p[k] = s[k]
                           /\ limit # 0 => l <= limit
                           /\ limit = 0 => l = n
  <2>1. CASE limit = 0 \/ Len(s) <= limit
    BY <1>9, <1>11, <2>1
  <2>2. CASE ~ (limit = 0 \/ Len(s) <= limit)
    <3>1. limit \in 0 .. n  BY <1>5, <1>9, <2>2
    <3>2. p \in Seq(Ids) /\ Len(p) = limit /\ \A k \in 1 .. limit : p[k] = s[k]
      BY <1>9, <1>11, <2>2, <3>1
    <3> QED  BY <2>2, <3>1, <3>2
  <2> QED  BY <2>1, <2>2
<1>14. DOMAIN p = 1 .. l /\ \A k \in 1 .. l : k \in 1 .. n  BY <1>5, <1>13
<1>15. IsInjective(p)  BY <1>9, <1>13, <1>14 DEF IsInjective
<1>16. \A i \in ToSet(p) : v[i] # Absent /\ v[i] <= upTo
  BY <1>9, <1>10, <1>13, <1>14 DEF ToSet
<1>17. ASSUME limit = 0, NEW i \in found PROVE i \in ToSet(p)
  BY <1>9, <1>13, <1>14, <1>17 DEF ToSet
<1>18. sorted => \A j, k \in DOMAIN p : j < k => v[p[j]] <= v[p[k]]
  BY <1>9, <1>13, <1>14
<1> QED  BY <1>10, <1>12, <1>13, <1>15, <1>16, <1>17, <1>18 DEF IsRun

-----------------------------------------------------------------------------
\* The list when one document comes, goes or moves.

Ordered(p, v) == \A j, k \in DOMAIN p : j < k => v[p[j]] <= v[p[k]]

\* q is p with id at one place more; q is p without what is at one place.
IsWith(q, p, at, id) ==
  /\ q \in Seq(Ids) /\ Len(q) = Len(p) + 1
  /\ \A k \in 1 .. at - 1 : q[k] = p[k]
  /\ q[at] = id
  /\ \A k \in at + 1 .. Len(p) + 1 : q[k] = p[k - 1]

IsWithout(q, p, at) ==
  /\ q \in Seq(Ids) /\ Len(q) = Len(p) - 1
  /\ \A k \in 1 .. at - 1 : q[k] = p[k]
  /\ \A k \in at .. Len(p) - 1 : q[k] = p[k + 1]

\* Who is in the longer list.
LEMMA WithHas ==
  ASSUME NEW p \in Seq(Ids), NEW at \in 1 .. Len(p) + 1, NEW id \in Ids,
         NEW q, IsWith(q, p, at, id)
  PROVE  /\ ToSet(q) = ToSet(p) \cup {id}
         /\ IsInjective(p) /\ id \notin ToSet(p) => IsInjective(q)
<1>1. PICK n \in Nat : n = Len(p) /\ at \in 1 .. n + 1 /\ DOMAIN p = 1 .. n  OBVIOUS
<1>2. /\ DOMAIN q = 1 .. n + 1
      /\ \A k \in 1 .. at - 1 : q[k] = p[k]
      /\ q[at] = id
      /\ \A k \in at + 1 .. n + 1 : q[k] = p[k - 1]
  BY <1>1 DEF IsWith
<1>3. ASSUME NEW k \in 1 .. n + 1
      PROVE  /\ k < at => k \in 1 .. at - 1 /\ k \in 1 .. n
             /\ k > at => k \in at + 1 .. n + 1 /\ k - 1 \in 1 .. n
             /\ k < at \/ k = at \/ k > at
  BY <1>1
<1>4. ASSUME NEW i \in ToSet(q) PROVE i \in ToSet(p) \cup {id}
  <2>1. PICK k \in 1 .. n + 1 : q[k] = i  BY <1>2 DEF ToSet
  <2> QED  BY <1>1, <1>2, <1>3, <2>1 DEF ToSet
<1>5. ASSUME NEW i \in ToSet(p) PROVE i \in ToSet(q)
  <2>1. PICK k \in 1 .. n : p[k] = i  BY <1>1 DEF ToSet
  <2>2. CASE k < at
    <3>1. k \in 1 .. at - 1 /\ k \in 1 .. n + 1  BY <1>1, <2>2
    <3> QED  BY <1>2, <2>1, <3>1 DEF ToSet
  <2>3. CASE ~ (k < at)
    <3>1. k + 1 \in at + 1 .. n + 1 /\ k + 1 \in 1 .. n + 1 /\ k + 1 - 1 = k  BY <1>1, <2>3
    <3>2. q[k + 1] = p[k + 1 - 1]  BY <1>2, <3>1
    <3> QED  BY <1>2, <2>1, <3>1, <3>2 DEF ToSet
  <2> QED  BY <2>2, <2>3
<1>6. id \in ToSet(q)  BY <1>1, <1>2 DEF ToSet
<1>7. ASSUME IsInjective(p), id \notin ToSet(p) PROVE IsInjective(q)
  <2>1. /\ \A j, k \in 1 .. n : p[j] = p[k] => j = k
        /\ \A k \in 1 .. n : p[k] # id
    BY <1>1, <1>7 DEF IsInjective, ToSet
  <2>2. ASSUME NEW j \in 1 .. n + 1, NEW k \in 1 .. n + 1, q[j] = q[k] PROVE j = k
    <3>1. CASE j < at
      <4>1. q[j] = p[j] /\ j \in 1 .. n  BY <1>2, <1>3, <3>1
      <4>2. CASE k < at  BY <1>2, <1>3, <2>1, <2>2, <4>1, <4>2
      <4>3. CASE k = at  BY <1>2, <2>1, <2>2, <4>1, <4>3
      <4>4. CASE k > at
        <5>1. q[k] = p[k - 1] /\ k - 1 \in 1 .. n  BY <1>2, <1>3, <4>4
        <5>2. j = k - 1  BY <2>1, <2>2, <4>1, <5>1
        <5> QED  BY <1>1, <3>1, <4>4, <5>2
      <4> QED  BY <1>3, <4>2, <4>3, <4>4
    <3>2. CASE j = at
      <4>1. CASE k < at  BY <1>2, <1>3, <2>1, <2>2, <3>2, <4>1
      <4>2. CASE k = at  BY <3>2, <4>2
      <4>3. CASE k > at
        <5>1. q[k] = p[k - 1] /\ k - 1 \in 1 .. n  BY <1>2, <1>3, <4>3
        <5> QED  BY <1>2, <2>1, <2>2, <3>2, <5>1
      <4> QED  BY <1>3, <4>1, <4>2, <4>3
    <3>3. CASE j > at
      <4>1. q[j] = p[j - 1] /\ j - 1 \in 1 .. n  BY <1>2, <1>3, <3>3
      <4>2. CASE k < at
        <5>1. q[k] = p[k] /\ k \in 1 .. n  BY <1>2, <1>3, <4>2
        <5>2. k = j - 1  BY <2>1, <2>2, <4>1, <5>1
        <5> QED  BY <1>1, <3>3, <4>2, <5>2
      <4>3. CASE k = at  BY <1>2, <2>1, <2>2, <4>1, <4>3
      <4>4. CASE k > at
        <5>1. q[k] = p[k - 1] /\ k - 1 \in 1 .. n  BY <1>2, <1>3, <4>4
        <5>2. j - 1 = k - 1  BY <2>1, <2>2, <4>1, <5>1
        <5> QED  BY <5>2
      <4> QED  BY <1>3, <4>2, <4>3, <4>4
    <3> QED  BY <1>3, <3>1, <3>2, <3>3
  <2> QED  BY <1>2, <2>2 DEF IsInjective
<1> QED  BY <1>4, <1>5, <1>6, <1>7

\* Who is in the shorter one.
LEMMA WithoutHas ==
  ASSUME NEW p \in Seq(Ids), NEW at \in 1 .. Len(p), NEW q, IsWithout(q, p, at),
         IsInjective(p)
  PROVE  /\ ToSet(q) = ToSet(p) \ {p[at]}
         /\ IsInjective(q)
<1>1. PICK n \in Nat : n = Len(p) /\ at \in 1 .. n /\ DOMAIN p = 1 .. n  OBVIOUS
<1>2. /\ DOMAIN q = 1 .. n - 1
      /\ \A k \in 1 .. at - 1 : q[k] = p[k]
      /\ \A k \in at .. n - 1 : q[k] = p[k + 1]
  BY <1>1 DEF IsWithout
<1>3. \A j, k \in 1 .. n : p[j] = p[k] => j = k  BY <1>1 DEF IsInjective
<1>4. ASSUME NEW k \in 1 .. n - 1
      PROVE  /\ k < at => q[k] = p[k] /\ k \in 1 .. n
             /\ ~ (k < at) => q[k] = p[k + 1] /\ k + 1 \in 1 .. n /\ k + 1 # at
  <2>1. CASE k < at
    <3>1. k \in 1 .. at - 1 /\ k \in 1 .. n  BY <1>1, <2>1
    <3> QED  BY <1>2, <2>1, <3>1
  <2>2. CASE ~ (k < at)
    <3>1. k \in at .. n - 1 /\ k + 1 \in 1 .. n /\ k + 1 # at  BY <1>1, <2>2
    <3> QED  BY <1>2, <2>2, <3>1
  <2> QED  BY <2>1, <2>2
<1>5. ASSUME NEW i \in ToSet(q) PROVE i \in ToSet(p) \ {p[at]}
  <2>1. PICK k \in 1 .. n - 1 : q[k] = i  BY <1>2 DEF ToSet
  <2>2. CASE k < at
    <3>1. q[k] = p[k] /\ k \in 1 .. n /\ k # at  BY <1>1, <1>4, <2>2
    <3> QED  BY <1>1, <1>3, <2>1, <3>1 DEF ToSet
  <2>3. CASE ~ (k < at)
    <3>1. q[k] = p[k + 1] /\ k + 1 \in 1 .. n /\ k + 1 # at  BY <1>4, <2>3
    <3> QED  BY <1>1, <1>3, <2>1, <3>1 DEF ToSet
  <2> QED  BY <2>2, <2>3
<1>6. ASSUME NEW i \in ToSet(p) \ {p[at]} PROVE i \in ToSet(q)
  <2>1. PICK k \in 1 .. n : p[k] = i /\ k # at  BY <1>1 DEF ToSet
  <2>2. CASE k < at
    <3>1. k \in 1 .. n - 1  BY <1>1, <2>2
    <3> QED  BY <1>2, <1>4, <2>1, <2>2, <3>1 DEF ToSet
  <2>3. CASE k > at
    <3>1. k - 1 \in 1 .. n - 1 /\ ~ (k - 1 < at) /\ k - 1 + 1 = k  BY <1>1, <2>3
    <3>2. q[k - 1] = p[k - 1 + 1]  BY <1>4, <3>1
    <3> QED  BY <1>2, <2>1, <3>1, <3>2 DEF ToSet
  <2> QED  BY <1>1, <2>1, <2>2, <2>3
<1>7. ASSUME NEW j \in 1 .. n - 1, NEW k \in 1 .. n - 1, q[j] = q[k] PROVE j = k
  <2>1. CASE j < at /\ k < at  BY <1>3, <1>4, <1>7, <2>1
  <2>2. CASE j < at /\ ~ (k < at)
    <3>1. j = k + 1  BY <1>3, <1>4, <1>7, <2>2
    <3> QED  BY <1>1, <2>2, <3>1
  <2>3. CASE ~ (j < at) /\ k < at
    <3>1. j + 1 = k  BY <1>3, <1>4, <1>7, <2>3
    <3> QED  BY <1>1, <2>3, <3>1
  <2>4. CASE ~ (j < at) /\ ~ (k < at)
    <3>1. j + 1 = k + 1  BY <1>3, <1>4, <1>7, <2>4
    <3> QED  BY <3>1
  <2> QED  BY <2>1, <2>2, <2>3, <2>4
<1> QED  BY <1>2, <1>5, <1>6, <1>7 DEF IsInjective

\* A document keeps the order if it goes behind what is not greater and before what
\* is not smaller.
LEMMA WithOrdered ==
  ASSUME NEW v \in Collections, NEW p \in Seq(Ids), NEW at \in 1 .. Len(p) + 1,
         NEW id \in Ids, NEW q, IsWith(q, p, at, id), Ordered(p, v),
         \A k \in 1 .. at - 1 : v[p[k]] <= v[id],
         \A k \in at .. Len(p) : v[id] <= v[p[k]]
  PROVE  Ordered(q, v)
<1>1. PICK n \in Nat : n = Len(p) /\ at \in 1 .. n + 1 /\ DOMAIN p = 1 .. n  OBVIOUS
<1>2. /\ DOMAIN q = 1 .. n + 1
      /\ \A k \in 1 .. at - 1 : q[k] = p[k]
      /\ q[at] = id
      /\ \A k \in at + 1 .. n + 1 : q[k] = p[k - 1]
  BY <1>1 DEF IsWith
<1>3. \A j, k \in 1 .. n : j < k => v[p[j]] <= v[p[k]]  BY <1>1 DEF Ordered
<1>4. ASSUME NEW k \in 1 .. n + 1
      PROVE  /\ k < at => q[k] = p[k] /\ k \in 1 .. n /\ v[q[k]] <= v[id]
             /\ k > at => q[k] = p[k - 1] /\ k - 1 \in 1 .. n /\ v[id] <= v[q[k]]
             /\ k < at \/ k = at \/ k > at
  <2>1. CASE k < at
    <3>1. k \in 1 .. at - 1 /\ k \in 1 .. n  BY <1>1, <2>1
    <3> QED  BY <1>1, <1>2, <2>1, <3>1
  <2>2. CASE k = at  BY <1>1, <2>2
  <2>3. CASE k > at
    <3>1. k \in at + 1 .. n + 1 /\ k - 1 \in 1 .. n /\ k - 1 \in at .. n  BY <1>1, <2>3
    <3> QED  BY <1>1, <1>2, <2>3, <3>1
  <2> QED  BY <1>1, <2>1, <2>2, <2>3
<1>5. \A i \in Ids : v[i] \in Int
  <2>1. MaxKey \in Nat  BY ResultAssumption
  <2> QED  BY <2>1 DEF Collections
<1>6. \A k \in 1 .. n + 1 : q[k] \in Ids /\ v[q[k]] \in Int  BY <1>1, <1>5 DEF IsWith
<1>7. ASSUME NEW j \in 1 .. n + 1, NEW k \in 1 .. n + 1, j < k PROVE v[q[j]] <= v[q[k]]
  <2>1. CASE k < at
    <3>1. j < at  BY <1>1, <1>7, <2>1
    <3> QED  BY <1>3, <1>4, <1>7, <2>1, <3>1
  <2>2. CASE k = at
    <3>1. j < at  BY <1>7, <2>2
    <3> QED  BY <1>2, <1>4, <2>2, <3>1
  <2>3. CASE k > at
    <3>1. CASE j < at
      <4>1. v[q[j]] <= v[id] /\ v[id] <= v[q[k]] /\ v[id] \in Int  BY <1>4, <1>5, <2>3, <3>1
      <4>2. v[q[j]] \in Int /\ v[q[k]] \in Int  BY <1>6
      <4> QED  BY ONLY <4>1, <4>2
    <3>2. CASE j = at  BY <1>2, <1>4, <2>3, <3>2
    <3>3. CASE j > at
      <4>1. q[j] = p[j - 1] /\ q[k] = p[k - 1] /\ j - 1 \in 1 .. n /\ k - 1 \in 1 .. n
        BY <1>4, <2>3, <3>3
      <4>2. j - 1 < k - 1  BY <1>7
      <4> QED  BY <1>3, <4>1, <4>2
    <3> QED  BY <1>4, <3>1, <3>2, <3>3
  <2> QED  BY <1>4, <2>1, <2>2, <2>3
<1> QED  BY <1>2, <1>7 DEF Ordered

\* A list stays in order when one is taken out, whatever that one is.
LEMMA WithoutOrdered ==
  ASSUME NEW v, NEW p \in Seq(Ids), NEW at \in 1 .. Len(p), NEW q, IsWithout(q, p, at),
         \A j, k \in DOMAIN p \ {at} : j < k => v[p[j]] <= v[p[k]]
  PROVE  Ordered(q, v)
<1>1. PICK n \in Nat : n = Len(p) /\ at \in 1 .. n /\ DOMAIN p = 1 .. n  OBVIOUS
<1>2. /\ DOMAIN q = 1 .. n - 1
      /\ \A k \in 1 .. at - 1 : q[k] = p[k]
      /\ \A k \in at .. n - 1 : q[k] = p[k + 1]
  BY <1>1 DEF IsWithout
<1> DEFINE From(k) == IF k < at THEN k ELSE k + 1
<1>3. \A k \in 1 .. n - 1 : q[k] = p[From(k)] /\ From(k) \in DOMAIN p \ {at}
  BY <1>1, <1>2
<1>4. \A j, k \in 1 .. n - 1 : j < k => From(j) < From(k)  BY <1>1
<1> HIDE DEF From
<1> QED  BY <1>2, <1>3, <1>4 DEF Ordered

\* Max of SequencesExt, of some numbers up to n.
LEMMA MaxIs ==
  ASSUME NEW n \in Nat, NEW T \in SUBSET (1 .. n)
  PROVE  /\ Max(T \cup {0}) \in T \cup {0}
         /\ \A k \in T : k <= Max(T \cup {0})
<1> DEFINE U == T \cup {0}
           P(x) == x \in U /\ \A y \in U : x >= y
<1>1. \E m : P(m)
  <2>1. CASE T = {}
    <3>1. P(0)  BY <2>1
    <3> QED  BY <3>1
  <2>2. CASE T # {}
    <3>1. PICK m \in T : \A k \in T : k <= m  BY <2>2, GreatestOf
    <3>2. \A k \in T : k \in Nat  OBVIOUS
    <3>3. P(m)  BY <3>1, <3>2
    <3> QED  BY <3>3
  <2> QED  BY <2>1, <2>2
<1>2. Max(U) = CHOOSE x : P(x)  BY DEF Max
<1>3. P(Max(U))
  <2> HIDE DEF P
  <2> QED  BY <1>1, <1>2
<1>4. \A k \in U : k \in Nat  OBVIOUS
<1> QED  BY <1>3, <1>4

\* A document that is inserted is in the list once more; in a sorted list it comes
\* behind those that are not greater (find.js:147-172).
LEMMA InsertPointerIs ==
  ASSUME NEW v \in Collections, NEW p \in Seq(Ids), NEW id \in Ids, NEW newKey \in Nat
  PROVE  \E at \in 1 .. Len(p) + 1 :
           /\ IsWith(InsertPointer(p, v, id, newKey), p, at, id)
           /\ sorted /\ Ordered(p, v) /\ (\A i \in ToSet(p) : v[i] # Absent)
              => /\ \A k \in 1 .. at - 1 : v[p[k]] <= newKey
                 /\ \A k \in at .. Len(p) : newKey <= v[p[k]]
<1>1. PICK n \in Nat : n = Len(p) /\ DOMAIN p = 1 .. n  OBVIOUS
<1>2. \A k \in 1 .. n : v[p[k]] \in Int /\ p[k] \in ToSet(p)
  <2>1. MaxKey \in Nat  BY ResultAssumption
  <2>2. \A k \in 1 .. n : p[k] \in Ids /\ p[k] \in ToSet(p)  BY <1>1 DEF ToSet
  <2> QED  BY <2>1, <2>2 DEF Collections
<1>3. CASE ~ sorted
  <2>1. InsertPointer(p, v, id, newKey) = Append(p, id)  BY <1>3 DEF InsertPointer
  <2>2. IsWith(Append(p, id), p, n + 1, id)  BY <1>1 DEF IsWith
  <2>3. n + 1 \in 1 .. Len(p) + 1  BY <1>1
  <2> QED  BY <1>3, <2>1, <2>2, <2>3
<1>4. CASE sorted
  <2> DEFINE T == {k \in DOMAIN p : v[p[k]] # Absent /\ v[p[k]] <= newKey}
  <2>1. T \in SUBSET (1 .. n)  BY <1>1
  <2>2. PICK m : m = Max(T \cup {0})  OBVIOUS
  <2>3. m \in T \cup {0} /\ \A k \in T : k <= m  BY <2>1, <2>2, MaxIs
  <2>4. m \in 0 .. n /\ m + 1 \in 1 .. Len(p) + 1 /\ m + 1 - 1 = m  BY <1>1, <2>1, <2>3
  <2>5. InsertPointer(p, v, id, newKey) = InsertAt(p, m + 1, id)
    BY <1>4, <2>2 DEF InsertPointer
  <2>6. IsWith(InsertAt(p, m + 1, id), p, m + 1, id)
    <3>1. PICK at \in 1 .. Len(p) + 1 : at = m + 1  BY <2>4
    <3>2. IsWith(InsertAt(p, at, id), p, at, id)  BY InsertAtIs DEF IsWith
    <3> QED  BY <3>1, <3>2
  <2>7. ASSUME Ordered(p, v), \A i \in ToSet(p) : v[i] # Absent
        PROVE  /\ \A k \in 1 .. m : v[p[k]] <= newKey
               /\ \A k \in m + 1 .. n : newKey <= v[p[k]]
    <3>1. ASSUME NEW k \in 1 .. m PROVE v[p[k]] <= newKey
      <4>1. m \in T /\ m \in 1 .. n /\ k \in 1 .. n  BY <2>3, <2>4
      <4>2. v[p[m]] <= newKey  BY <4>1
      <4>3. CASE k = m  BY <4>2, <4>3
      <4>4. CASE k # m
        <5>1. k < m  BY <2>4, <4>4
        <5>2. v[p[k]] <= v[p[m]]  BY <1>1, <2>7, <4>1, <5>1 DEF Ordered
        <5> QED  BY <1>2, <4>1, <4>2, <5>2
      <4> QED  BY <4>3, <4>4
    <3>2. ASSUME NEW k \in m + 1 .. n PROVE newKey <= v[p[k]]
      <4>1. k \in 1 .. n /\ ~ (k <= m)  BY <2>4
      <4>2. k \notin T
        <5> HIDE DEF T
        <5> QED  BY <2>3, <4>1
      <4>3. v[p[k]] # Absent  BY <1>2, <2>7, <4>1
      <4>4. ~ (v[p[k]] <= newKey)  BY <1>1, <4>1, <4>2, <4>3
      <4> QED  BY <1>2, <4>1, <4>4
    <3> QED  BY <3>1, <3>2
  <2> QED  BY <1>1, <2>4, <2>5, <2>6, <2>7
<1> QED  BY <1>3, <1>4

\* Numbers up to n but one, and some of them, how many: if none before them is left
\* out, the k-th is one of them just when k is no more than that.
LEMMA CountedFromOne ==
  ASSUME NEW n \in Nat, NEW at \in 1 .. n, NEW C \in SUBSET (1 .. n \ {at})
  PROVE  /\ Cardinality(C) \in 0 .. n - 1
         /\ (\A a \in 1 .. n \ {at}, b \in C : a < b => a \in C)
            => \A k \in 1 .. n - 1 :
                 (IF k < at THEN k ELSE k + 1) \in C <=> k <= Cardinality(C)
<1> DEFINE Spot(k) == IF k < at THEN k ELSE k + 1
           First(k) == IF k < at THEN 1 .. k ELSE 1 .. k + 1 \ {at}
<1>1. ASSUME NEW k \in 0 .. n - 1 PROVE IsFiniteSet(First(k)) /\ Cardinality(First(k)) = k
  <2>1. /\ IsFiniteSet(1 .. k) /\ Cardinality(1 .. k) = k
        /\ IsFiniteSet(1 .. k + 1) /\ Cardinality(1 .. k + 1) = k + 1
    <3>1. k \in Int /\ k + 1 \in Int /\ 1 \in Int /\ (1 > k => k = 0) /\ ~ (1 > k + 1)
          /\ k - 1 + 1 = k /\ k + 1 - 1 + 1 = k + 1
      OBVIOUS
    <3> QED  BY <3>1, FS_Interval
  <2>2. CASE k < at  BY <2>1, <2>2
  <2>3. CASE ~ (k < at)
    <3>1. at \in 1 .. k + 1  BY <2>3
    <3>2. /\ IsFiniteSet(1 .. k + 1 \ {at})
          /\ Cardinality(1 .. k + 1 \ {at}) = k + 1 - 1
      <4>1. PICK U : U = 1 .. k + 1  OBVIOUS
      <4>2. IsFiniteSet(U) /\ Cardinality(U) = k + 1 /\ at \in U  BY <2>1, <3>1, <4>1
      <4>3. IsFiniteSet(U \ {at}) /\ Cardinality(U \ {at}) = k + 1 - 1
        BY <4>2, FS_RemoveElement
      <4> QED  BY <4>1, <4>3
    <3> QED  BY <2>3, <3>2
  <2> QED  BY <2>2, <2>3
<1>2. First(n - 1) = 1 .. n \ {at} /\ n - 1 \in 0 .. n - 1  OBVIOUS
<1>3. IsFiniteSet(C) /\ Cardinality(C) \in Nat /\ Cardinality(C) <= n - 1
  <2>1. IsFiniteSet(First(n - 1)) /\ Cardinality(First(n - 1)) = n - 1  BY <1>1, <1>2
  <2>2. C \in SUBSET First(n - 1)  BY <1>2
  <2> HIDE DEF First
  <2> QED  BY <2>1, <2>2, FS_Subset, FS_CardinalityType
<1>4. ASSUME \A a \in 1 .. n \ {at}, b \in C : a < b => a \in C, NEW k \in 1 .. n - 1
      PROVE  Spot(k) \in C <=> k <= Cardinality(C)
  <2>1. Spot(k) \in 1 .. n \ {at}  OBVIOUS
  <2>2. ASSUME Spot(k) \in C PROVE k <= Cardinality(C)
    <3>1. \A a \in First(k) : a \in 1 .. n \ {at} /\ (a < Spot(k) \/ a = Spot(k))  OBVIOUS
    <3>2. First(k) \in SUBSET C
      <4> HIDE DEF First, Spot
      <4> QED  BY <1>4, <2>2, <3>1
    <3>3. k \in 0 .. n - 1  OBVIOUS
    <3>4. Cardinality(First(k)) = k  BY <1>1, <3>3
    <3> HIDE DEF First
    <3> QED  BY <1>3, <3>2, <3>4, FS_Subset
  <2>3. ASSUME Spot(k) \notin C PROVE ~ (k <= Cardinality(C))
    <3>1. \A b \in C : b \in 1 .. n \ {at} /\ ~ (Spot(k) < b) /\ b # Spot(k)
      <4> HIDE DEF Spot
      <4> QED  BY <1>4, <2>1, <2>3
    <3>2. \A b \in 1 .. n \ {at} : ~ (Spot(k) < b) /\ b # Spot(k) => b \in First(k - 1)
      OBVIOUS
    <3>3. C \in SUBSET First(k - 1)
      <4> HIDE DEF First, Spot
      <4> QED  BY <3>1, <3>2
    <3>4. k - 1 \in 0 .. n - 1  OBVIOUS
    <3>5. IsFiniteSet(First(k - 1)) /\ Cardinality(First(k - 1)) = k - 1  BY <1>1, <3>4
    <3>6. Cardinality(C) <= k - 1
      <4> HIDE DEF First
      <4> QED  BY <3>3, <3>5, FS_Subset
    <3> QED  BY <1>3, <3>4, <3>6
  <2> QED  BY <2>2, <2>3
<1>5. Cardinality(C) \in 0 .. n - 1  BY <1>3
<1> QED  BY <1>4, <1>5

\* A document that stays a result keeps the list's documents, and goes to where the
\* others, in order, have it between them (find.js:118-131).
LEMMA MovedIs ==
  ASSUME NEW v \in Collections, NEW p \in Seq(Ids), IsInjective(p), NEW pos \in 1 .. Len(p),
         NEW r, r = InsertAt(RemoveAt(p, pos), NewPos(p, v, pos), p[pos])
  PROVE  /\ r \in Seq(Ids) /\ Len(r) = Len(p) /\ IsInjective(r) /\ ToSet(r) = ToSet(p)
         /\ /\ sorted
            /\ \A i \in ToSet(p) : v[i] # Absent
            /\ \A j, k \in DOMAIN p \ {pos} : j < k => v[p[j]] <= v[p[k]]
            => Ordered(r, v)
<1>1. PICK n \in Nat : n = Len(p) /\ DOMAIN p = 1 .. n /\ pos \in 1 .. n  OBVIOUS
<1>2. PICK id \in Ids : id = p[pos] /\ id \in ToSet(p)  BY DEF ToSet
<1>3. PICK q : q = RemoveAt(p, pos)  OBVIOUS
<1>4. IsWithout(q, p, pos)  BY <1>3, RemoveAtIs DEF IsWithout
<1>5. /\ q \in Seq(Ids) /\ Len(q) = n - 1
      /\ \A k \in 1 .. n - 1 : q[k] = p[IF k < pos THEN k ELSE k + 1]
  BY <1>1, <1>4 DEF IsWithout
<1>6. ToSet(q) = ToSet(p) \ {id} /\ IsInjective(q)  BY <1>2, <1>4, WithoutHas
<1> DEFINE C == {k \in DOMAIN p :
                   /\ v[p[k]] # Absent
                   /\ IF sorted /\ v[p[k]] # v[p[pos]] THEN v[p[k]] < v[p[pos]] ELSE k < pos}
<1>7. C \in SUBSET (1 .. n \ {pos})  BY <1>1
<1>8. PICK at : at = NewPos(p, v, pos)  OBVIOUS
<1>9. at = 1 + Cardinality(C)  BY <1>8 DEF NewPos
<1>10. PICK c : c = Cardinality(C)  OBVIOUS
<1>11. c \in 0 .. n - 1
  <2> HIDE DEF C
  <2> QED  BY <1>1, <1>7, <1>10, CountedFromOne
<1>12. at \in 1 .. Len(q) + 1 /\ at = c + 1 /\ c \in 0 .. n - 1
  <2> HIDE DEF C
  <2>1. at = 1 + c  BY <1>9, <1>10
  <2> QED  BY <1>1, <1>5, <1>11, <2>1
<1>13. IsWith(r, q, at, id)
  <2>1. r = InsertAt(q, at, id)  BY <1>2, <1>3, <1>8
  <2>2. PICK i \in 1 .. Len(q) + 1 : i = at  BY <1>12
  <2>3. q \in Seq(Ids)  BY <1>5
  <2>4. /\ InsertAt(q, i, id) \in Seq(Ids)
        /\ Len(InsertAt(q, i, id)) = Len(q) + 1
        /\ \A k \in 1 .. i - 1 : InsertAt(q, i, id)[k] = q[k]
        /\ InsertAt(q, i, id)[i] = id
        /\ \A k \in i + 1 .. Len(q) + 1 : InsertAt(q, i, id)[k] = q[k - 1]
    BY <2>3, InsertAtIs
  <2>5. IsWith(InsertAt(q, i, id), q, i, id)  BY <2>4 DEF IsWith
  <2> QED  BY <2>1, <2>2, <2>5
<1>14. r \in Seq(Ids) /\ Len(r) = n  BY <1>1, <1>5, <1>13 DEF IsWith
<1>15. ToSet(r) = ToSet(p) /\ IsInjective(r)
  <2>1. /\ ToSet(r) = ToSet(q) \cup {id}
        /\ IsInjective(q) /\ id \notin ToSet(q) => IsInjective(r)
    BY <1>5, <1>12, <1>13, WithHas
  <2> QED  BY <1>2, <1>6, <2>1
<1>16. ASSUME sorted, \A i \in ToSet(p) : v[i] # Absent,
              \A j, k \in DOMAIN p \ {pos} : j < k => v[p[j]] <= v[p[k]]
       PROVE  Ordered(r, v)
  <2>1. Ordered(q, v)  BY <1>4, <1>16, WithoutOrdered
  <2>2. \A k \in 1 .. n : v[p[k]] \in Int /\ v[p[k]] # Absent
    <3>1. MaxKey \in Nat  BY ResultAssumption
    <3>2. \A k \in 1 .. n : p[k] \in Ids /\ p[k] \in ToSet(p)  BY <1>1 DEF ToSet
    <3> QED  BY <1>16, <3>1, <3>2 DEF Collections
  <2>3. \A k \in 1 .. n : k \in C <=> IF v[p[k]] # v[id] THEN v[p[k]] < v[id] ELSE k < pos
    BY <1>1, <1>2, <1>16, <2>2
  <2>4. v[id] \in Int  BY <1>1, <1>2, <2>2
  <2>5. ASSUME NEW a \in 1 .. n \ {pos}, NEW b \in C, a < b PROVE a \in C
    <3>1. b \in 1 .. n \ {pos}  BY <1>7
    <3>2. v[p[a]] <= v[p[b]]  BY <1>1, <1>16, <2>5, <3>1
    <3>3. IF v[p[b]] # v[id] THEN v[p[b]] < v[id] ELSE b < pos  BY <2>3, <3>1
    <3>4. IF v[p[a]] # v[id] THEN v[p[a]] < v[id] ELSE a < pos
      <4>1. v[p[a]] \in Int /\ v[p[b]] \in Int  BY <2>2, <3>1
      <4>2. a \in Int /\ b \in Int /\ pos \in Int  BY <1>1, <3>1
      <4> QED  BY <2>4, <2>5, <3>2, <3>3, <4>1, <4>2
    <3> HIDE DEF C
    <3> QED  BY <2>3, <3>4
  <2> HIDE DEF C
  <2>6. \A k \in 1 .. n - 1 : (IF k < pos THEN k ELSE k + 1) \in C <=> k <= c
    BY <1>1, <1>7, <1>10, <2>5, CountedFromOne
  <2>7. ASSUME NEW k \in 1 .. n - 1
        PROVE  /\ k <= c => v[q[k]] <= v[id]
               /\ ~ (k <= c) => v[id] <= v[q[k]]
    <3>1. PICK m \in 1 .. n : m = IF k < pos THEN k ELSE k + 1  BY <1>1
    <3>2. q[k] = p[m]  BY <1>5, <3>1
    <3>3. m \in C <=> k <= c  BY <2>6, <3>1
    <3>4. k <= c => v[p[m]] <= v[id]  BY <2>2, <2>3, <2>4, <3>3
    <3>5. ~ (k <= c) => v[id] <= v[p[m]]  BY <2>2, <2>3, <2>4, <3>3
    <3> QED  BY <3>2, <3>4, <3>5
  <2>8. \A k \in 1 .. at - 1 : v[q[k]] <= v[id]
    <3>1. \A k \in 1 .. at - 1 : k \in 1 .. n - 1 /\ k <= c  BY <1>12
    <3> QED  BY <2>7, <3>1
  <2>9. \A k \in at .. Len(q) : v[id] <= v[q[k]]
    <3>1. \A k \in at .. Len(q) : k \in 1 .. n - 1 /\ ~ (k <= c)  BY <1>5, <1>12
    <3> QED  BY <2>7, <3>1
  <2>10. PICK i \in 1 .. Len(q) + 1 : i = at  BY <1>12
  <2>11. /\ q \in Seq(Ids) /\ IsWith(r, q, i, id)
         /\ \A k \in 1 .. i - 1 : v[q[k]] <= v[id]
         /\ \A k \in i .. Len(q) : v[id] <= v[q[k]]
    BY <1>5, <1>13, <2>8, <2>9, <2>10
  <2> QED  BY <2>1, <2>10, <2>11, WithOrdered
<1> QED  BY <1>1, <1>14, <1>15, <1>16

-----------------------------------------------------------------------------
\* The invariant: TypeOK, ResultIsQuery and InOrder are inductive together.  Insertions
\* keep the order of a list whose documents are all there to be compared with, which
\* ResultIsQuery says of them.

\* What the three say of a list p, of the collection v, a bound b and the documents
\* that the list has lost track of.
Fits(p) ==
  /\ p \in Seq(Ids) /\ IsInjective(p)
  /\ limit # 0 => Len(p) <= limit

Finds(p, v, b, lost) ==
  \A i \in Ids \ lost :
    /\ i \in ToSet(p) => v[i] # Absent /\ v[i] <= b
    /\ limit = 0 /\ v[i] # Absent /\ v[i] <= b => i \in ToSet(p)

Right(p, v, b, lost) ==
  Fits(p) /\ Finds(p, v, b, lost) /\ (sorted /\ lost = {} => Ordered(p, v))

\* Whether a list is in order depends on its own documents only.
LEMMA OrderedSame ==
  ASSUME NEW p \in Seq(Ids), NEW v, NEW w, \A i \in ToSet(p) : v[i] = w[i], Ordered(p, w)
  PROVE  Ordered(p, v)
<1>1. \A k \in DOMAIN p : p[k] \in ToSet(p)  BY DEF ToSet
<1> QED  BY <1>1 DEF Ordered

\* A query that has just been run has lost nothing.
LEMMA SyncRight ==
  ASSUME NEW v \in Collections, NEW b \in Nat, limit \in Nat
  PROVE  Right(SyncRun(v, b), v, b, {})
<1>1. PICK p : p = SyncRun(v, b)  OBVIOUS
<1>2. IsRun(p, v, b)  BY <1>1, SyncRunIs
<1>3. Ordered(p, v) \/ ~ sorted  BY <1>2 DEF IsRun, Ordered
<1> QED  BY <1>1, <1>2, <1>3 DEF IsRun, Right, Fits, Finds

\* A document that is set as a whole.
LEMMA AddRight ==
  ASSUME limit \in Nat, bound \in Nat, NEW was \in Collections, NEW v \in Collections,
         NEW id \in Ids, NEW newKey \in Nat, newKey # Absent,
         \A i \in Ids \ {id} : v[i] = was[i], v[id] \in {was[id], newKey},
         NEW p, NEW lost, Right(p, was, bound, lost),
         NEW now, now = IF v[id] # newKey \/ (id \in ToSet(p) /\ was[id] # newKey)
                        THEN lost \cup {id} ELSE lost
  PROVE  Right(OnAddDoc(p, v, id, newKey), v, bound, now)
<1>1. /\ p \in Seq(Ids) /\ IsInjective(p) /\ Len(p) \in Nat
      /\ limit # 0 => Len(p) <= limit
  BY DEF Right, Fits
<1>2. PICK q : q = OnAddDoc(p, v, id, newKey)  OBVIOUS
<1>3. CASE newKey <= bound /\ Room(p, id)
  <2>1. PICK at \in 1 .. Len(p) + 1 :
           /\ IsWith(InsertPointer(p, v, id, newKey), p, at, id)
           /\ sorted /\ Ordered(p, v) /\ (\A i \in ToSet(p) : v[i] # Absent)
              => /\ \A k \in 1 .. at - 1 : v[p[k]] <= newKey
                 /\ \A k \in at .. Len(p) : newKey <= v[p[k]]
    BY <1>1, InsertPointerIs
  <2>2. q = InsertPointer(p, v, id, newKey)  BY <1>2, <1>3 DEF OnAddDoc, Passes
  <2>3. IsWith(q, p, at, id)  BY <2>1, <2>2
  <2>4. id \notin ToSet(p) /\ (limit = 0 \/ Len(p) # limit)  BY <1>3 DEF Room
  <2>5. ToSet(q) = ToSet(p) \cup {id} /\ IsInjective(q)  BY <1>1, <2>3, <2>4, WithHas
  <2>6. Fits(q)
    <3>1. q \in Seq(Ids) /\ Len(q) = Len(p) + 1  BY <2>3 DEF IsWith
    <3>2. limit # 0 => Len(p) + 1 <= limit  BY <1>1, <2>4
    <3> QED  BY <2>5, <3>1, <3>2 DEF Fits
  <2>7. Finds(q, v, bound, now)
    <3>1. ASSUME NEW i \in Ids \ now
          PROVE  /\ i \in ToSet(q) => v[i] # Absent /\ v[i] <= bound
                 /\ limit = 0 /\ v[i] # Absent /\ v[i] <= bound => i \in ToSet(q)
      <4>1. CASE i = id
        <5>1. v[i] = newKey  BY <3>1, <4>1
        <5> QED  BY <1>3, <2>5, <4>1, <5>1
      <4>2. CASE i # id
        <5>1. v[i] = was[i] /\ i \in Ids \ lost  BY <3>1, <4>2
        <5> QED  BY <2>5, <4>2, <5>1 DEF Right, Finds
      <4> QED  BY <4>1, <4>2
    <3> QED  BY <3>1 DEF Finds
  <2>8. ASSUME sorted, now = {} PROVE Ordered(q, v)
    <3>1. lost = {} /\ v[id] = newKey  BY <2>8
    <3>2. Ordered(p, was)  BY <2>8, <3>1 DEF Right
    <3>3. \A i \in ToSet(p) : i \in Ids  BY <1>1 DEF ToSet
    <3>4. \A i \in ToSet(p) : v[i] = was[i]  BY <2>4, <3>3
    <3>5. \A i \in ToSet(p) : was[i] # Absent  BY <3>1, <3>3 DEF Right, Finds
    <3>6. Ordered(p, v)  BY <1>1, <3>2, <3>4, OrderedSame
    <3>7. /\ \A k \in 1 .. at - 1 : v[p[k]] <= v[id]
          /\ \A k \in at .. Len(p) : v[id] <= v[p[k]]
      BY <2>1, <2>8, <3>1, <3>4, <3>5, <3>6
    <3> QED  BY <1>1, <2>3, <3>6, <3>7, WithOrdered
  <2> QED  BY <1>2, <2>6, <2>7, <2>8 DEF Right
<1>4. CASE ~ (newKey <= bound /\ Room(p, id))
  <2>1. q = p  BY <1>2, <1>4 DEF OnAddDoc, Passes
  <2>2. id \in ToSet(p) \/ ~ (newKey <= bound) \/ limit # 0  BY <1>4 DEF Room
  <2>3. Finds(p, v, bound, now)
    <3>1. ASSUME NEW i \in Ids \ now
          PROVE  /\ i \in ToSet(p) => v[i] # Absent /\ v[i] <= bound
                 /\ limit = 0 /\ v[i] # Absent /\ v[i] <= bound => i \in ToSet(p)
      <4>1. i \in Ids \ lost  BY <3>1
      <4>2. CASE i = id
        <5>1. v[i] = newKey /\ (i \in ToSet(p) => was[i] = newKey)  BY <3>1, <4>2
        <5> QED  BY <2>2, <4>1, <4>2, <5>1 DEF Right, Finds
      <4>3. CASE i # id
        <5>1. v[i] = was[i]  BY <3>1, <4>3
        <5> QED  BY <4>1, <5>1 DEF Right, Finds
      <4> QED  BY <4>2, <4>3
    <3> QED  BY <3>1 DEF Finds
  <2>4. ASSUME sorted, now = {} PROVE Ordered(p, v)
    <3>1. lost = {} /\ v[id] = newKey /\ (id \in ToSet(p) => was[id] = newKey)  BY <2>4
    <3>2. Ordered(p, was)  BY <2>4, <3>1 DEF Right
    <3>3. \A i \in ToSet(p) : i \in Ids  BY <1>1 DEF ToSet
    <3>4. \A i \in ToSet(p) : v[i] = was[i]  BY <3>1, <3>3
    <3> QED  BY <1>1, <3>2, <3>4, OrderedSame
  <2> QED  BY <1>2, <2>1, <2>3, <2>4 DEF Right, Fits
<1> QED  BY <1>3, <1>4

\* A document that goes out of the list.
LEMMA RmRight ==
  ASSUME limit \in Nat, NEW was \in Collections, NEW v \in Collections, NEW id \in Ids,
         \A i \in Ids \ {id} : v[i] = was[i],
         NEW p, NEW b, NEW lost, Right(p, was, b, lost),
         NEW now, lost \subseteq now, id \in now \/ v[id] = Absent \/ ~ (v[id] <= b)
  PROVE  Right(OnRmDoc(p, id), v, b, now)
<1>1. /\ p \in Seq(Ids) /\ IsInjective(p) /\ Len(p) \in Nat
      /\ limit # 0 => Len(p) <= limit
  BY DEF Right, Fits
<1>2. PICK q : q = OnRmDoc(p, id)  OBVIOUS
<1>3. /\ q \in Seq(Ids) /\ IsInjective(q) /\ Len(q) <= Len(p) /\ Len(q) \in Nat
      /\ ToSet(q) = ToSet(p) \ {id}
      /\ Ordered(p, was) => Ordered(q, v)
  <2>1. \A k \in DOMAIN p : p[k] \in Ids  BY <1>1
  <2>2. CASE id \in ToSet(p)
    <3>1. PICK pos \in 1 .. Len(p) : pos = PosOf(p, id) /\ p[pos] = id
      <4>1. \E k \in DOMAIN p : p[k] = id  BY <2>2 DEF ToSet
      <4>2. PosOf(p, id) \in DOMAIN p /\ p[PosOf(p, id)] = id  BY <4>1 DEF PosOf
      <4> QED  BY <1>1, <4>2
    <3>2. IsWithout(q, p, pos)
      <4>1. q = RemoveAt(p, pos)  BY <1>2, <2>2, <3>1 DEF OnRmDoc
      <4> QED  BY <1>1, <4>1, RemoveAtIs DEF IsWithout
    <3>3. ToSet(q) = ToSet(p) \ {id} /\ IsInjective(q)  BY <1>1, <3>1, <3>2, WithoutHas
    <3>4. q \in Seq(Ids) /\ Len(q) = Len(p) - 1 /\ Len(q) \in Nat  BY <3>2 DEF IsWithout
    <3>5. ASSUME Ordered(p, was) PROVE Ordered(q, v)
      <4>1. ASSUME NEW k \in DOMAIN p \ {pos} PROVE v[p[k]] = was[p[k]]
        <5>1. p[k] # id  BY <1>1, <3>1, <4>1 DEF IsInjective
        <5> QED  BY <2>1, <5>1
      <4>2. \A j, k \in DOMAIN p \ {pos} : j < k => v[p[j]] <= v[p[k]]
        BY <3>5, <4>1 DEF Ordered
      <4> QED  BY <1>1, <3>2, <4>2, WithoutOrdered
    <3> QED  BY <1>1, <3>3, <3>4, <3>5
  <2>3. CASE id \notin ToSet(p)
    <3>1. q = p  BY <1>2, <2>3 DEF OnRmDoc
    <3>2. \A i \in ToSet(p) : v[i] = was[i]  BY <2>1, <2>3 DEF ToSet
    <3> QED  BY <1>1, <2>3, <3>1, <3>2, OrderedSame
  <2> QED  BY <2>2, <2>3
<1>4. Fits(q)
  <2>1. limit # 0 => Len(q) <= limit  BY <1>1, <1>3
  <2> QED  BY <1>3, <2>1 DEF Fits
<1>5. Finds(q, v, b, now)
  <2>1. ASSUME NEW i \in Ids \ now
        PROVE  /\ i \in ToSet(q) => v[i] # Absent /\ v[i] <= b
               /\ limit = 0 /\ v[i] # Absent /\ v[i] <= b => i \in ToSet(q)
    <3>1. CASE i = id  BY <1>3, <2>1, <3>1
    <3>2. CASE i # id
      <4>1. v[i] = was[i] /\ i \in Ids \ lost  BY <2>1, <3>2
      <4> QED  BY <1>3, <3>2, <4>1 DEF Right, Finds
    <3> QED  BY <3>1, <3>2
  <2> QED  BY <2>1 DEF Finds
<1>6. sorted /\ now = {} => Ordered(q, v)  BY <1>3 DEF Right
<1> QED  BY <1>2, <1>4, <1>5, <1>6 DEF Right

\* A document of which the key is set.
LEMMA UpdateRight ==
  ASSUME limit \in Nat, bound \in Nat, NEW was \in Collections, NEW v \in Collections,
         NEW id \in Ids, \A i \in Ids \ {id} : v[i] = was[i], v[id] # Absent,
         NEW p, NEW lost, Right(p, was, bound, lost)
  PROVE  Right(OnUpdate(p, v, id), v, bound, lost)
<1>1. /\ p \in Seq(Ids) /\ IsInjective(p) /\ Len(p) \in Nat
      /\ limit # 0 => Len(p) <= limit
  BY DEF Right, Fits
<1>2. PICK q : q = OnUpdate(p, v, id)  OBVIOUS
<1>3. PICK newKey \in Nat : newKey = v[id]
  <2>1. MaxKey \in Nat  BY ResultAssumption
  <2> QED  BY <2>1 DEF Collections
<1>4. \A i \in ToSet(p) : i \in Ids  BY <1>1 DEF ToSet
<1>5. ASSUME lost = {} PROVE \A i \in ToSet(p) : was[i] # Absent
  BY <1>4, <1>5 DEF Right, Finds
<1>6. CASE ~ Passes(v[id])
  <2>1. q = OnRmDoc(p, id)  BY <1>2, <1>6 DEF OnUpdate
  <2>2. id \in lost \/ v[id] = Absent \/ ~ (v[id] <= bound)  BY <1>6 DEF Passes
  <2>3. lost \subseteq lost  OBVIOUS
  <2> QED  BY <1>2, <2>1, <2>2, <2>3, RmRight
<1>7. CASE Passes(v[id]) /\ id \in ToSet(p)
  <2>1. PICK pos \in 1 .. Len(p) : pos = PosOf(p, id) /\ p[pos] = id
    <3>1. \E k \in DOMAIN p : p[k] = id  BY <1>7 DEF ToSet
    <3>2. PosOf(p, id) \in DOMAIN p /\ p[PosOf(p, id)] = id  BY <3>1 DEF PosOf
    <3> QED  BY <1>1, <3>2
  <2>2. q = InsertAt(RemoveAt(p, pos), NewPos(p, v, pos), p[pos])
    BY <1>2, <1>7, <2>1 DEF OnUpdate
  <2>3. /\ q \in Seq(Ids) /\ Len(q) = Len(p) /\ IsInjective(q) /\ ToSet(q) = ToSet(p)
        /\ /\ sorted
           /\ \A i \in ToSet(p) : v[i] # Absent
           /\ \A j, k \in DOMAIN p \ {pos} : j < k => v[p[j]] <= v[p[k]]
           => Ordered(q, v)
    <3>1. p \in Seq(Ids) /\ IsInjective(p) /\ pos \in 1 .. Len(p) /\ v \in Collections  BY <1>1
    <3> QED  BY ONLY <2>2, <3>1, MovedIs
  <2>4. Fits(q)
    <3>1. q \in Seq(Ids) /\ IsInjective(q) /\ Len(q) = Len(p)  BY ONLY <2>3
    <3>2. limit # 0 => Len(q) <= limit  BY ONLY <1>1, <3>1
    <3> QED  BY ONLY <3>1, <3>2 DEF Fits
  <2>5. Finds(q, v, bound, lost)
    <3>1. ASSUME NEW i \in Ids \ lost
          PROVE  /\ i \in ToSet(q) => v[i] # Absent /\ v[i] <= bound
                 /\ limit = 0 /\ v[i] # Absent /\ v[i] <= bound => i \in ToSet(q)
      <4>1. CASE i = id  BY <1>7, <2>3, <4>1 DEF Passes
      <4>2. CASE i # id
        <5>1. v[i] = was[i]  BY <3>1, <4>2
        <5> QED  BY <2>3, <3>1, <5>1 DEF Right, Finds
      <4> QED  BY <4>1, <4>2
    <3> QED  BY <3>1 DEF Finds
  <2>6. ASSUME sorted, lost = {} PROVE Ordered(q, v)
    <3>1. Ordered(p, was)  BY <2>6 DEF Right
    <3>2. \A i \in ToSet(p) : v[i] # Absent  BY <1>4, <1>5, <2>6
    <3>3. ASSUME NEW k \in DOMAIN p \ {pos} PROVE v[p[k]] = was[p[k]]
      <4>1. p[k] # id /\ p[k] \in Ids  BY <1>1, <2>1, <3>3 DEF IsInjective
      <4> QED  BY <4>1
    <3>4. \A j, k \in DOMAIN p \ {pos} : j < k => v[p[j]] <= v[p[k]]
      BY <3>1, <3>3 DEF Ordered
    <3> QED  BY <2>3, <2>6, <3>2, <3>4
  <2> QED  BY <1>2, <2>4, <2>5, <2>6 DEF Right
<1>8. CASE Passes(v[id]) /\ id \notin ToSet(p)
  <2>1. OnUpdate(p, v, id) = OnAddDoc(p, v, id, newKey)
    BY <1>3, <1>8 DEF OnUpdate, OnAddDoc
  <2>2. newKey # Absent /\ v[id] \in {was[id], newKey}  BY <1>3
  <2>3. lost = IF v[id] # newKey \/ (id \in ToSet(p) /\ was[id] # newKey)
               THEN lost \cup {id} ELSE lost
    BY <1>3, <1>8
  <2>4. Right(OnAddDoc(p, v, id, newKey), v, bound, lost)  BY <2>2, <2>3, AddRight
  <2> QED  BY <2>1, <2>4
<1> QED  BY <1>6, <1>7, <1>8

\* The listener, for any of the mutations.
LEMMA ListenRight ==
  ASSUME limit \in Nat, bound \in Nat, NEW was \in Collections, NEW v \in Collections,
         NEW op \in Ops, \A i \in Ids \ {op.id} : v[i] = was[i],
         v[op.id] \in {was[op.id], op.key}, astray \subseteq Ids,
         Right(pointers, was, bound, astray), Listen(op, was, v)
  PROVE  Right(pointers', v, bound, astray') /\ astray' \subseteq Ids
<1>1. op.id \in Ids /\ op.key \in Nat /\ op.kind \in {"doc", "key", "del"}
      /\ (op.kind = "del" <=> op.key = Absent)
  <2>1. MaxKey \in Nat  BY ResultAssumption
  <2> QED  BY <2>1 DEF Ops, Absent
<1>2. astray' \subseteq Ids /\ astray \subseteq astray'  BY <1>1 DEF Listen
<1>3. PICK now : now = astray'  OBVIOUS
<1>4. CASE op.kind = "doc"
  <2>1. pointers' = OnAddDoc(pointers, v, op.id, op.key)  BY <1>4 DEF Listen
  <2>2. now = IF v[op.id] # op.key \/ (op.id \in ToSet(pointers) /\ was[op.id] # op.key)
              THEN astray \cup {op.id} ELSE astray
    BY <1>3, <1>4 DEF Listen
  <2>3. op.key # Absent  BY <1>1, <1>4
  <2>4. Right(OnAddDoc(pointers, v, op.id, op.key), v, bound, now)
    BY <1>1, <2>2, <2>3, AddRight
  <2> QED  BY <1>2, <1>3, <2>1, <2>4
<1>5. CASE op.kind = "key"
  <2>1. now = astray  BY <1>3, <1>5 DEF Listen
  <2>2. CASE v[op.id] = Absent
    <3>1. pointers' = pointers  BY <1>5, <2>2 DEF Listen
    <3>2. \A i \in Ids : v[i] = was[i]  BY <1>1, <1>5, <2>2
    <3>3. Fits(pointers)  BY DEF Right
    <3>4. pointers \in Seq(Ids) /\ \A i \in ToSet(pointers) : i \in Ids
      BY <3>3 DEF Fits, ToSet
    <3>5. Finds(pointers, v, bound, now)  BY <2>1, <3>2 DEF Right, Finds
    <3>6. sorted /\ now = {} => Ordered(pointers, v)
      BY <2>1, <3>2, <3>4, OrderedSame DEF Right
    <3> QED  BY <1>2, <1>3, <3>1, <3>3, <3>5, <3>6 DEF Right
  <2>3. CASE v[op.id] # Absent
    <3>1. pointers' = OnUpdate(pointers, v, op.id)  BY <1>5, <2>3 DEF Listen
    <3>2. Right(OnUpdate(pointers, v, op.id), v, bound, astray)
      BY <1>1, <2>3, UpdateRight
    <3> QED  BY <1>2, <1>3, <2>1, <3>1, <3>2
  <2> QED  BY <2>2, <2>3
<1>6. CASE op.kind = "del"
  <2>1. pointers' = OnRmDoc(pointers, op.id)  BY <1>6 DEF Listen
  <2>2. op.id \in now \/ v[op.id] = Absent \/ ~ (v[op.id] <= bound)
    BY <1>1, <1>3, <1>6 DEF Listen
  <2>3. Right(OnRmDoc(pointers, op.id), v, bound, now)
    BY <1>1, <1>2, <1>3, <2>2, RmRight
  <2> QED  BY <1>2, <1>3, <2>1, <2>3
<1> QED  BY <1>1, <1>4, <1>5, <1>6

-----------------------------------------------------------------------------
\* The steps.

\* The types of what is not the list.
Typed ==
  /\ memory \in Collections /\ made \in BOOLEAN
  /\ made \/ \A i \in Ids : memory[i] = Absent
  /\ pending \in Seq(Ops) /\ Len(pending) <= MaxPending
  /\ overlay \in Overlays \cup {NoOverlay}
  /\ pending = << >> => overlay = NoOverlay
  /\ sorted \in BOOLEAN /\ limit \in Limits /\ bound \in Bounds /\ astray \subseteq Ids

\* The three properties together are inductive as they stand: that a document goes
\* where the order wants it needs that all the others in the list exist, which is
\* ResultIsQuery.
IInv == TypeOK /\ ResultIsQuery /\ InOrder

\* The same, with what is said of the list as Right.
Inv == Typed /\ Right(pointers, View, bound, astray)

\* The invariant says the three properties of the list, said of any list.
LEMMA InvIs == IInv <=> Inv
<1>1. TypeOK <=> Typed /\ Fits(pointers)  BY DEF TypeOK, Typed, Fits
<1>2. ResultIsQuery <=> Finds(pointers, View, bound, astray)
  BY DEF ResultIsQuery, Passes, Finds
<1>3. InOrder <=> (sorted /\ astray = {} => Ordered(pointers, View))
  BY DEF InOrder, Ordered
<1> QED  BY <1>1, <1>2, <1>3 DEF IInv, Inv, Right

\* The overlay that is read: o, or one built anew.
Over(o, docs, there, queue) == IF o = NoOverlay THEN Build(docs, there, queue) ELSE o
ShownBy(o, docs, there, queue) == Show(Over(o, docs, there, queue), docs)

\* What is shown, now and after a step.
LEMMA ViewIs ==
  /\ Overlay = Over(overlay, memory, made, pending)
  /\ View = ShownBy(overlay, memory, made, pending)
  /\ View' = ShownBy(overlay', memory', made', pending')
  /\ Typed => /\ memory \in Collections /\ Holds(memory, made) /\ pending \in Seq(Ops)
              /\ overlay \in Overlays \cup {NoOverlay}
              /\ pending = << >> => overlay = NoOverlay
BY DEF Overlay, View, Over, ShownBy, Typed, Holds

\* An overlay is not the lack of one.
LEMMA OverlaysAre == \A o \in Overlays : o # NoOverlay
<1>1. ASSUME NEW o \in Overlays PROVE o \in [Ids -> Int]
  <2>1. \A i \in Ids : o[i] \in Int  BY ResultAssumption DEF Overlays, ByWorld
  <2> QED  BY <2>1 DEF Overlays
<1> QED  BY <1>1, ResultAssumption

\* What is read is an overlay, and one that is there is read as it is.
LEMMA OverTyped ==
  ASSUME NEW docs \in Collections, NEW there, Holds(docs, there), NEW queue \in Seq(Ops),
         NEW o \in Overlays \cup {NoOverlay}
  PROVE  /\ Over(o, docs, there, queue) \in Overlays
         /\ ShownBy(o, docs, there, queue) \in Collections
         /\ ShownBy(Over(o, docs, there, queue), docs, there, queue)
              = ShownBy(o, docs, there, queue)
<1>1. PICK r : r = Over(o, docs, there, queue)  OBVIOUS
<1>2. r \in Overlays  BY <1>1, BuildTyped DEF Over
<1>3. r # NoOverlay  BY <1>2, OverlaysAre
<1>4. Over(r, docs, there, queue) = r  BY <1>3 DEF Over
<1>5. Show(r, docs) \in Collections  BY <1>2, ShowTyped
<1> QED  BY <1>1, <1>2, <1>4, <1>5 DEF ShownBy

\* What the constants say of the limit, the bound and the collection.
LEMMA NatsOfTyped ==
  Typed => limit \in Nat /\ bound \in Nat /\ View \in Collections
<1> SUFFICES ASSUME Typed PROVE limit \in Nat /\ bound \in Nat /\ View \in Collections
  OBVIOUS
<1>1. View \in Collections  BY ViewIs, OverTyped
<1> QED  BY <1>1, ResultAssumption DEF Typed

\* A new query has just been run.
LEMMA InitInv == Init => Inv
<1> SUFFICES ASSUME Init PROVE Inv
  OBVIOUS
<1>1. /\ memory \in Collections /\ pending = << >> /\ astray = {} /\ overlay = NoOverlay
      /\ made \in BOOLEAN /\ (made \/ \A i \in Ids : memory[i] = Absent)
      /\ limit \in Limits /\ sorted \in BOOLEAN /\ bound \in Bounds
      /\ pointers = SyncRun(memory, bound)
  BY DEF Init
<1>2. limit \in Nat /\ bound \in Nat /\ MaxPending \in Nat  BY <1>1, ResultAssumption
<1>3. << >> \in Seq(Ops) /\ Len(<< >>) = 0  OBVIOUS
<1>4. Typed  BY <1>1, <1>2, <1>3 DEF Typed
<1>5. View = memory
  <2>1. ShownBy(NoOverlay, memory, made, pending) = memory
    BY <1>1, <1>4, ViewIs, BuildTyped DEF ShownBy, Over
  <2> QED  BY <1>1, <2>1, ViewIs
<1>6. Right(SyncRun(memory, bound), memory, bound, {})  BY <1>1, <1>2, SyncRight
<1> QED  BY <1>1, <1>4, <1>5, <1>6 DEF Inv

\* What is shown next, and the list of it, of which the invariant is told.
LEMMA RightNext ==
  ASSUME NEW p, NEW v, NEW b, NEW lost, UNCHANGED <<sorted, limit>>, pointers' = p,
         View' = v, bound' = b, astray' = lost, Right(p, v, b, lost)
  PROVE  Right(pointers, View, bound, astray)'
BY DEF Right, Fits, Finds

\* A mutation of a document that the listener hears, of which what is shown is changed
\* in that document at most, and to nothing but what the mutation wrote.
LEMMA ListenInv ==
  ASSUME Inv, NEW op \in Ops, NEW v \in Collections, View' = v,
         \A i \in Ids \ {op.id} : v[i] = View[i], v[op.id] \in {View[op.id], op.key},
         Listen(op, View, v), UNCHANGED <<sorted, limit, bound>>,
         astray' \subseteq Ids => Typed'
  PROVE  Inv'
<1>1. /\ Typed /\ Right(pointers, View, bound, astray)
      /\ limit \in Nat /\ bound \in Nat /\ View \in Collections
  BY NatsOfTyped DEF Inv
<1>2. PICK was \in Collections : was = View  BY <1>1
<1>3. Right(pointers', v, bound, astray') /\ astray' \subseteq Ids
  <2>1. astray \subseteq Ids /\ Right(pointers, was, bound, astray) /\ Listen(op, was, v)
    BY <1>1, <1>2 DEF Typed
  <2>2. (\A i \in Ids \ {op.id} : v[i] = was[i]) /\ v[op.id] \in {was[op.id], op.key}
    BY <1>2
  <2> QED  BY <1>1, <2>1, <2>2, ListenRight
<1>4. Right(pointers, View, bound, astray)'
  <2>1. PICK p, b, lost : p = pointers' /\ b = bound' /\ lost = astray'  OBVIOUS
  <2>2. Right(p, v, b, lost)  BY <1>3, <2>1
  <2> QED  BY <2>1, <2>2, RightNext
<1> QED  BY <1>3, <1>4 DEF Inv

\* An own mutation: the overlay is extended by what the listener is told of.
LEMMA CommitInv ==
  ASSUME Inv, NEW op \in Ops, Commit(op)
  PROVE  Inv'
<1>1. Typed  BY DEF Inv
<1>2. /\ memory \in Collections /\ Holds(memory, made) /\ pending \in Seq(Ops)
      /\ overlay \in Overlays \cup {NoOverlay}
  BY <1>1, ViewIs
<1>3. /\ Len(pending) < MaxPending /\ pending' = Append(pending, op)
      /\ Len(pending) \in Nat /\ MaxPending \in Nat
      /\ overlay' = Extend(Overlay, memory, made, op)
      /\ UNCHANGED <<sorted, limit, bound, memory, made>>
      /\ Listen(op, View, View')
  BY <1>2, ResultAssumption DEF Commit
<1>4. pending' \in Seq(Ops) /\ Len(pending') <= MaxPending /\ pending' # << >>
  BY <1>2, <1>3
<1>5. PICK o \in Overlays : o = Overlay /\ View = Show(o, memory)
  BY <1>2, OverTyped, ViewIs DEF ShownBy
<1>6. PICK r \in Overlays : r = Extend(o, memory, made, op) /\ r # NoOverlay
  BY <1>2, ExtendShows, OverlaysAre
<1>7. PICK v \in Collections : v = Show(r, memory)  BY <1>2, ShowTyped
<1>8. View' = v  BY <1>3, <1>5, <1>6, <1>7, ViewIs DEF ShownBy, Over
<1>9. /\ op.id \in Ids
      /\ \A i \in Ids : v[i] = IF i = op.id THEN op.key ELSE View[i]
  BY <1>2, <1>5, <1>6, <1>7, ExtendShows, ApplyTyped
<1>10. (\A i \in Ids \ {op.id} : v[i] = View[i]) /\ v[op.id] \in {View[op.id], op.key}
  BY <1>9
<1>11. Listen(op, View, v)  BY <1>3, <1>8
<1>12. astray' \subseteq Ids => Typed'
  BY <1>1, <1>3, <1>4, <1>5, <1>6 DEF Typed
<1> QED  BY <1>3, <1>8, <1>10, <1>11, <1>12, ListenInv

\* What is left of an overlay is one, and so is what is read next.
LEMMA LooksPastTyped ==
  ASSUME Typed, NEW gone, LooksPast(gone), pending' = pending, memory' \in Collections,
         Holds(memory', made')
  PROVE  /\ overlay' \in Overlays \cup {NoOverlay}
         /\ pending' = << >> => overlay' = NoOverlay
         /\ pending = << >> => View' = memory'
         /\ overlay # NoOverlay => overlay' = Detach(gone) /\ overlay' \in Overlays
         /\ overlay = NoOverlay
              => View' = Show(Build(memory', made', pending), memory')
<1>1. /\ memory \in Collections /\ Holds(memory, made) /\ pending \in Seq(Ops)
      /\ overlay \in Overlays \cup {NoOverlay}
      /\ pending = << >> => overlay = NoOverlay
  BY ViewIs
<1>2. PICK docs \in Collections : docs = memory'  OBVIOUS
<1>3. PICK since : since = made' /\ Holds(docs, since)  BY <1>2
<1>4. PICK fresh \in Overlays : /\ fresh = Build(docs, since, pending)
                                /\ pending = << >> => Show(fresh, docs) = docs
  BY <1>1, <1>3, BuildTyped
<1>5. fresh # NoOverlay  BY OverlaysAre
<1>6. View' = ShownBy(overlay', docs, since, pending)  BY <1>2, <1>3, ViewIs
<1>7. overlay' = IF pending = << >> THEN NoOverlay
                 ELSE IF overlay = NoOverlay THEN fresh ELSE Detach(gone)
  BY <1>2, <1>3, <1>4 DEF LooksPast
<1>8. overlay # NoOverlay => Detach(gone) \in Overlays
  <2> SUFFICES ASSUME overlay # NoOverlay PROVE Detach(gone) \in Overlays
    OBVIOUS
  <2>1. PICK o \in Overlays : o = overlay  BY <1>1
  <2>2. MaxKey \in Nat  BY ResultAssumption
  <2>3. \A i \in Ids : o[i] \in ByWorld .. MaxKey /\ memory[i] \in 0 .. MaxKey
    BY <1>1 DEF Overlays, Collections
  <2>4. \A i \in Ids : (IF i \in gone THEN memory[i] ELSE o[i]) \in ByWorld .. MaxKey
    BY <2>2, <2>3 DEF ByWorld
  <2>5. Detach(gone) = [i \in Ids |-> IF i \in gone THEN memory[i] ELSE o[i]]
    BY <2>1 DEF Detach
  <2> QED  BY <2>4, <2>5 DEF Overlays
<1>9. overlay' \in Overlays \cup {NoOverlay}  BY <1>4, <1>7, <1>8
<1>10. pending = << >> => View' = docs
  BY <1>4, <1>6, <1>7 DEF ShownBy, Over
<1>11. overlay = NoOverlay => View' = Show(fresh, docs)
  BY <1>4, <1>5, <1>6, <1>7 DEF ShownBy, Over
<1> QED  BY <1>1, <1>2, <1>3, <1>4, <1>7, <1>8, <1>9, <1>10, <1>11

\* A transaction below an overlay, one that is kept or one that is built again.
LEMMA ShowsBelow ==
  ASSUME Typed, NEW op \in Ops, memory' = ApplyOp(memory, op),
         UNCHANGED pending, memory' \in Collections, Holds(memory', made'),
         NEW gone, LooksPast(gone), \A i \in gone : overlay[i] = ByDoc /\ i = op.id
  PROVE  /\ View' \in Collections
         /\ \A i \in Ids \ {op.id} : View'[i] = View[i]
         /\ View'[op.id] \in {View[op.id], op.key}
<1>1. /\ memory \in Collections /\ Holds(memory, made) /\ pending \in Seq(Ops)
      /\ overlay \in Overlays \cup {NoOverlay}
      /\ View = ShownBy(overlay, memory, made, pending)
  BY ViewIs
<1>2. PICK docs \in Collections :
        /\ docs = memory'
        /\ \A i \in Ids : docs[i] = IF i = op.id THEN op.key ELSE memory[i]
  BY <1>1, ApplyTyped
<1>3. PICK since : since = made' /\ Holds(docs, since)  BY <1>2
<1>4. op.id \in Ids  BY <1>1, ApplyTyped
<1>5. CASE overlay = NoOverlay
  <2>1. View' = Show(Build(docs, since, pending), docs)
    BY <1>2, <1>3, <1>5, LooksPastTyped
  <2>2. View = Show(Build(memory, made, pending), memory)
    BY <1>1, <1>5 DEF ShownBy, Over
  <2>3. Build(docs, since, pending) \in Overlays  BY <1>1, <1>3, BuildTyped
  <2>4. View' \in Collections  BY <2>1, <2>3, ShowTyped
  <2>5. docs = ApplyOp(memory, op)  BY <1>2
  <2> QED  BY <1>1, <1>3, <2>1, <2>2, <2>4, <2>5, BuildBelow
<1>6. CASE overlay # NoOverlay
  <2>1. PICK o \in Overlays : o = overlay  BY <1>1, <1>6
  <2>2. PICK r \in Overlays : r = overlay' /\ r = Detach(gone) /\ r # NoOverlay
    BY <1>6, LooksPastTyped, OverlaysAre
  <2>3. View' = Show(r, docs)  BY <1>2, <2>2, ViewIs DEF ShownBy, Over
  <2>4. View = Show(o, memory)  BY <1>1, <1>6, <2>1 DEF ShownBy, Over
  <2>5. \A i \in Ids : r[i] = IF i \in gone THEN memory[i] ELSE o[i]
    BY <1>6, <2>1, <2>2 DEF Detach
  <2>6. /\ \A i \in Ids : View'[i] = IF r[i] < 0 THEN docs[i] ELSE r[i]
        /\ \A i \in Ids : View[i] = IF o[i] < 0 THEN memory[i] ELSE o[i]
    BY <2>3, <2>4 DEF Show
  <2>7. View' \in Collections  BY <2>3, ShowTyped
  <2>8. \A i \in Ids : o[i] \in Int /\ memory[i] \in Nat
    <3>1. MaxKey \in Nat  BY ResultAssumption
    <3>2. \A i \in Ids : o[i] \in ByWorld .. MaxKey /\ memory[i] \in 0 .. MaxKey
      BY <1>1 DEF Overlays, Collections
    <3> QED  BY <3>1, <3>2 DEF ByWorld
  <2>9. \A i \in Ids \ {op.id} : View'[i] = View[i]
    BY <1>2, <2>5, <2>6
  <2>10. View'[op.id] \in {View[op.id], op.key}
    <3>1. CASE op.id \in gone
      <4>1. o[op.id] = ByDoc /\ r[op.id] = memory[op.id] /\ ~ (r[op.id] < 0)
        BY <1>4, <2>1, <2>5, <2>8, <3>1
      <4> QED  BY <1>4, <2>6, <4>1 DEF ByDoc
    <3>2. CASE op.id \notin gone
      <4>1. r[op.id] = o[op.id] /\ docs[op.id] = op.key  BY <1>2, <1>4, <2>5, <3>2
      <4> QED  BY <1>4, <2>6, <4>1
    <3> QED  BY <3>1, <3>2
  <2> QED  BY <2>7, <2>9, <2>10
<1> QED  BY <1>5, <1>6

\* Somebody else's transaction: an own one, or an overlay that does not follow the
\* memory, may hide it.
LEMMA RemoteTxnInv ==
  ASSUME Inv, NEW op \in Ops, RemoteTxn(op)
  PROVE  Inv'
<1>1. Typed  BY DEF Inv
<1> DEFINE gone == {i \in {op.id} : op.kind # "key" /\ overlay # NoOverlay /\ overlay[i] = ByDoc}
<1>2. /\ memory \in Collections /\ Holds(memory, made) /\ pending \in Seq(Ops)
      /\ memory' = ApplyOp(memory, op) /\ made' = (made \/ op.kind # "del")
      /\ LooksPast(gone)
      /\ UNCHANGED <<sorted, limit, bound, pending>>
      /\ Listen(op, View, View')
  BY <1>1, ViewIs DEF RemoteTxn
<1>3. memory' \in Collections /\ Holds(memory', made')
  <2>1. memory' \in Collections  BY <1>2, ApplyTyped
  <2>2. ASSUME ~made' PROVE \A i \in Ids : memory'[i] = Absent
    <3>1. op.kind = "del" /\ ~made  BY <1>2, <2>2
    <3>2. op.key = Absent  BY <3>1 DEF Ops
    <3>3. \A i \in Ids : memory[i] = Absent  BY <1>2, <3>1 DEF Holds
    <3> QED  BY <1>2, <3>2, <3>3, ApplyTyped
  <2>3. made' \in BOOLEAN  BY <1>2 DEF Holds
  <2> QED  BY <2>1, <2>2, <2>3 DEF Holds
<1>4. \A i \in gone : overlay[i] = ByDoc /\ i = op.id  OBVIOUS
<1> HIDE DEF gone
<1>5. /\ View' \in Collections
      /\ \A i \in Ids \ {op.id} : View'[i] = View[i]
      /\ View'[op.id] \in {View[op.id], op.key}
  BY <1>1, <1>2, <1>3, <1>4, ShowsBelow
<1>6. PICK v \in Collections : v = View'  BY <1>5
<1>7. /\ \A i \in Ids \ {op.id} : v[i] = View[i]
      /\ v[op.id] \in {View[op.id], op.key} /\ Listen(op, View, v)
  BY <1>2, <1>5, <1>6
<1>8. /\ overlay' \in Overlays \cup {NoOverlay}
      /\ pending' = << >> => overlay' = NoOverlay
  BY <1>1, <1>2, <1>3, LooksPastTyped
<1>9. astray' \subseteq Ids => Typed'  BY <1>1, <1>2, <1>3, <1>8 DEF Typed, Holds
<1> QED  BY <1>2, <1>6, <1>7, <1>9, ListenInv

\* What shows otherwise than before without a word is lost.
LEMMA LosesInv ==
  ASSUME Inv, Typed', UNCHANGED <<sorted, limit, bound, pointers>>,
         astray' = astray \cup {i \in Ids : View'[i] # View[i]}
  PROVE  Inv'
<1>1. Typed /\ Right(pointers, View, bound, astray)  BY DEF Inv
<1>2. PICK was : was = View  OBVIOUS
<1>3. PICK v : v = View'  OBVIOUS
<1>4. PICK p : p = pointers  OBVIOUS
<1>5. PICK now : now = astray'  OBVIOUS
<1>6. astray \subseteq now /\ \A i \in Ids \ now : v[i] = was[i]
  BY <1>2, <1>3, <1>5
<1>7. Right(p, was, bound, astray)  BY <1>1, <1>2, <1>4
<1>8. Fits(p)  BY <1>7 DEF Right
<1>9. Finds(p, v, bound, now)  BY <1>6, <1>7 DEF Right, Finds
<1>10. ASSUME sorted, now = {} PROVE Ordered(p, v)
  <2>1. Ordered(p, was)  BY <1>6, <1>7, <1>10 DEF Right
  <2>2. p \in Seq(Ids)  BY <1>8 DEF Fits
  <2>3. \A i \in ToSet(p) : v[i] = was[i]  BY <1>6, <1>10, <2>2 DEF ToSet
  <2> QED  BY <2>1, <2>2, <2>3, OrderedSame
<1>11. Right(p, v, bound, now)  BY <1>8, <1>9, <1>10 DEF Right
<1>12. Right(pointers, View, bound, astray)'
  <2>1. PICK b : b = bound  OBVIOUS
  <2>2. Right(p, v, b, now)  BY <1>11, <2>1
  <2>3. pointers' = p /\ bound' = b  BY <1>4, <2>1
  <2> QED  BY <1>3, <1>5, <2>2, <2>3, RightNext
<1> QED  BY <1>12 DEF Inv

\* An own transaction goes from the queue into the memory.
LEMMA ConfirmInv ==
  ASSUME Inv, Confirm
  PROVE  Inv'
<1>1. Typed  BY DEF Inv
<1>2. /\ memory \in Collections /\ Holds(memory, made)
      /\ pending \in Seq(Ops) /\ Len(pending) <= MaxPending
      /\ pending # << >> /\ MaxPending \in Nat
      /\ memory' = ApplyOp(memory, Head(pending)) /\ pending' = Tail(pending)
      /\ made' = (made \/ Head(pending).kind # "del")
      /\ overlay' = NoOverlay /\ astray' = astray \cup {i \in Ids : View'[i] # View[i]}
      /\ UNCHANGED <<sorted, limit, bound, pointers>>
  BY <1>1, ViewIs, ResultAssumption DEF Typed, Confirm, Rebuilds
<1>3. /\ Head(pending) \in Ops /\ pending' \in Seq(Ops) /\ Len(pending') <= MaxPending
  BY <1>2
<1>4. PICK op \in Ops : op = Head(pending)  BY <1>3
<1>5. memory' \in Collections  BY <1>2, <1>4, ApplyTyped
<1>6. made' \in BOOLEAN /\ (made' \/ \A i \in Ids : memory'[i] = Absent)
  <2>1. ASSUME ~made' PROVE \A i \in Ids : memory'[i] = Absent
    <3>1. op.kind = "del" /\ ~made  BY <1>2, <1>4, <2>1
    <3>2. op.key = Absent  BY <3>1 DEF Ops
    <3>3. \A i \in Ids : memory[i] = Absent  BY <1>2, <3>1 DEF Holds
    <3> QED  BY <1>2, <1>4, <3>2, <3>3, ApplyTyped
  <2>2. made' \in BOOLEAN  BY <1>2 DEF Holds
  <2> QED  BY <2>1, <2>2
<1>7. astray' \subseteq Ids  BY <1>1, <1>2 DEF Typed
<1>8. Typed'  BY <1>1, <1>2, <1>3, <1>5, <1>6, <1>7 DEF Typed
<1> QED  BY <1>2, <1>8, LosesInv

\* A transaction that is taken back.
LEMMA RejectInv ==
  ASSUME Inv, Reject
  PROVE  Inv'
<1>1. Typed  BY DEF Inv
<1>2. PICK k \in DOMAIN pending :
        /\ pending' = RemoveAt(pending, k)
        /\ overlay' = NoOverlay /\ astray' = astray \cup {i \in Ids : View'[i] # View[i]}
        /\ UNCHANGED <<sorted, limit, bound, memory, made, pointers>>
  BY DEF Reject, Rebuilds
<1>3. /\ pending \in Seq(Ops) /\ Len(pending) <= MaxPending
      /\ k \in 1 .. Len(pending) /\ Len(pending) \in Nat /\ MaxPending \in Nat
  BY <1>1, <1>2, ResultAssumption DEF Typed
<1>4. pending' \in Seq(Ops) /\ Len(pending') <= MaxPending
  <2>1. RemoveAt(pending, k) \in Seq(Ops) /\ Len(RemoveAt(pending, k)) = Len(pending) - 1
    BY <1>3, RemoveAtIs
  <2> QED  BY <1>2, <1>3, <2>1
<1>5. astray' \subseteq Ids  BY <1>1, <1>2 DEF Typed
<1>6. Typed'  BY <1>1, <1>2, <1>4, <1>5 DEF Typed
<1> QED  BY <1>2, <1>6, LosesInv

\* The overlay is dropped, for a transaction of another collection.
LEMMA AnswerElsewhereInv ==
  ASSUME Inv, AnswerElsewhere
  PROVE  Inv'
<1>1. Typed  BY DEF Inv
<1>2. /\ overlay' = NoOverlay /\ astray' = astray \cup {i \in Ids : View'[i] # View[i]}
      /\ UNCHANGED <<sorted, limit, bound, memory, made, pending, pointers>>
  BY DEF AnswerElsewhere, Rebuilds
<1>3. astray' \subseteq Ids  BY <1>1, <1>2 DEF Typed
<1>4. Typed'  BY <1>1, <1>2, <1>3 DEF Typed
<1> QED  BY <1>2, <1>4, LosesInv

\* To look at the collection does not change what is shown of it.
LEMMA LooksTyped ==
  ASSUME Typed, Looks, UNCHANGED <<memory, made, pending>>
  PROVE  /\ View' = View /\ overlay' \in Overlays \cup {NoOverlay}
         /\ pending' = << >> => overlay' = NoOverlay
<1>1. /\ memory \in Collections /\ Holds(memory, made) /\ pending \in Seq(Ops)
      /\ overlay \in Overlays \cup {NoOverlay}
      /\ pending = << >> => overlay = NoOverlay
      /\ View = ShownBy(overlay, memory, made, pending)
      /\ View' = ShownBy(overlay', memory, made, pending)
      /\ Overlay = Over(overlay, memory, made, pending)
  BY ViewIs
<1>2. overlay' = IF pending = << >> THEN NoOverlay ELSE Overlay  BY DEF Looks
<1>3. /\ Over(overlay, memory, made, pending) \in Overlays
      /\ ShownBy(Over(overlay, memory, made, pending), memory, made, pending)
           = ShownBy(overlay, memory, made, pending)
  BY <1>1, OverTyped
<1> QED  BY <1>1, <1>2, <1>3

LEMMA ReadInv ==
  ASSUME Inv, Read
  PROVE  Inv'
<1>1. Typed /\ Right(pointers, View, bound, astray)  BY DEF Inv
<1>2. UNCHANGED <<sorted, limit, bound, memory, made, pending, pointers, astray>> /\ Looks
  BY DEF Read
<1>3. /\ View' = View /\ overlay' \in Overlays \cup {NoOverlay}
      /\ pending' = << >> => overlay' = NoOverlay
  BY <1>1, <1>2, LooksTyped
<1>4. Right(pointers, View, bound, astray)'
  <2>1. PICK p, v, b, lost : p = pointers /\ v = View /\ b = bound /\ lost = astray
    OBVIOUS
  <2>2. Right(p, v, b, lost)  BY <1>1, <2>1
  <2>3. pointers' = p /\ View' = v /\ bound' = b /\ astray' = lost
    BY <1>2, <1>3, <2>1
  <2> QED  BY <1>2, <2>2, <2>3, RightNext
<1>5. Typed'  BY <1>1, <1>2, <1>3 DEF Typed
<1> QED  BY <1>4, <1>5 DEF Inv

\* The query is run again, on another collection or with another bound.
LEMMA RunInv ==
  ASSUME Typed', sorted' = sorted, limit' = limit, limit \in Nat, NEW b \in Nat,
         bound' = b, NEW v \in Collections, View' = v,
         pointers' = SyncRun(v, b), astray' = {}
  PROVE  Inv'
<1>1. PICK p : p = SyncRun(v, b)  OBVIOUS
<1>2. Right(p, v, b, {})  BY <1>1, SyncRight
<1>3. Right(pointers, View, bound, astray)'
  <2>1. PICK lost : lost = {}  OBVIOUS
  <2>2. Right(p, v, b, lost)  BY <1>2, <2>1
  <2> QED  BY <1>1, <2>1, <2>2, RightNext
<1> QED  BY <1>3 DEF Inv

\* A mutation of the whole collection leaves types as they are.
LEMMA WholeTyped ==
  ASSUME Typed, NEW docs \in Collections, NEW there, Holds(docs, there), memory' = docs,
         made' = there, LooksPast(Through), UNCHANGED <<sorted, limit, bound, pending>>,
         astray' \subseteq Ids
  PROVE  Typed' /\ View' \in Collections
<1>1. memory' \in Collections /\ Holds(memory', made')  OBVIOUS
<1>2. /\ overlay' \in Overlays \cup {NoOverlay}
      /\ pending' = << >> => overlay' = NoOverlay
  BY <1>1, LooksPastTyped
<1>3. pending \in Seq(Ops) /\ View' = ShownBy(overlay', docs, there, pending)  BY ViewIs
<1>4. View' \in Collections  BY <1>2, <1>3, OverTyped
<1>5. Typed'  BY <1>1, <1>2 DEF Typed, Holds
<1> QED  BY <1>4, <1>5

\* The collection is set as a whole: syncRun over what the model shows of it.
LEMMA RemoteSetAllInv ==
  ASSUME Inv, NEW docs \in Collections, RemoteSetAll(docs)
  PROVE  Inv'
<1>1. Typed /\ limit \in Nat /\ bound \in Nat  BY NatsOfTyped DEF Inv
<1>2. /\ memory' = docs /\ made' = TRUE /\ astray' = {} /\ LooksPast(Through)
      /\ pointers' = SyncRun(View', bound)
      /\ UNCHANGED <<sorted, limit, bound, pending>>
  BY DEF RemoteSetAll
<1>3. Holds(docs, TRUE)  BY DEF Holds
<1>4. Typed' /\ View' \in Collections  BY <1>1, <1>2, <1>3, WholeTyped
<1>5. PICK b \in Nat : b = bound  BY <1>1
<1>6. PICK v \in Collections : v = View'  BY <1>4
<1> QED  BY <1>1, <1>2, <1>4, <1>5, <1>6, RunInv

\* What the filter refers to changes: syncRun with the new value.
LEMMA SetBoundInv ==
  ASSUME Inv, NEW b \in Bounds, SetBound(b)
  PROVE  Inv'
<1>1. Typed /\ limit \in Nat /\ b \in Nat /\ View \in Collections
  BY NatsOfTyped, ResultAssumption DEF Inv
<1>2. /\ bound' = b /\ astray' = {} /\ pointers' = SyncRun(View', b) /\ Looks
      /\ UNCHANGED <<sorted, limit, memory, made, pending>>
  BY DEF SetBound
<1>3. /\ View' = View /\ overlay' \in Overlays \cup {NoOverlay}
      /\ pending' = << >> => overlay' = NoOverlay
  BY <1>1, <1>2, LooksTyped
<1>4. Typed'  BY <1>1, <1>2, <1>3 DEF Typed
<1>5. PICK v \in Collections : v = View'  BY <1>1, <1>3
<1> QED  BY <1>1, <1>2, <1>4, <1>5, RunInv

\* The collection is deleted: what is shown of it in spite of that is lost.
LEMMA RemoteDelAllInv ==
  ASSUME Inv, RemoteDelAll
  PROVE  Inv'
<1>1. Typed /\ limit \in Nat  BY NatsOfTyped DEF Inv
<1> DEFINE none == [i \in Ids |-> Absent]
<1>2. /\ memory' = none /\ made' = FALSE /\ LooksPast(Through) /\ pointers' = << >>
      /\ astray' = {i \in Ids : View'[i] # Absent}
      /\ UNCHANGED <<sorted, limit, bound, pending>>
  BY DEF RemoteDelAll
<1>3. none \in Collections /\ Holds(none, FALSE)
  <2>1. MaxKey \in Nat  BY ResultAssumption
  <2> QED  BY <2>1 DEF Collections, Absent, Holds
<1> HIDE DEF none
<1>4. astray' \subseteq Ids  BY <1>2
<1>5. Typed'  BY <1>1, <1>2, <1>3, <1>4, WholeTyped
<1>6. PICK v : v = View'  OBVIOUS
<1>7. PICK p \in Seq(Ids) : p = << >> /\ Len(p) = 0
  <2>1. << >> \in Seq(Ids) /\ Len(<< >>) = 0  OBVIOUS
  <2> QED  BY <2>1
<1>8. PICK now : now = astray' /\ now \subseteq Ids /\ \A i \in Ids \ now : v[i] = Absent
  BY <1>2, <1>6
<1>9. DOMAIN p = {} /\ ToSet(p) = {}  BY <1>7 DEF ToSet
<1>10. Fits(p)  BY <1>1, <1>7, <1>9 DEF Fits, IsInjective
<1>11. Finds(p, v, bound, now) /\ Ordered(p, v)  BY <1>8, <1>9 DEF Finds, Ordered
<1>12. Right(pointers, View, bound, astray)'
  <2>1. PICK b : b = bound  OBVIOUS
  <2>2. Right(p, v, b, now)  BY <1>10, <1>11, <2>1 DEF Right
  <2>3. pointers' = p /\ bound' = b  BY <1>2, <1>7, <2>1
  <2> QED  BY <1>2, <1>6, <1>8, <2>2, <2>3, RightNext
<1> QED  BY <1>5, <1>12 DEF Inv

\* The invariant is inductive: one step for each action.
LEMMA NextInv == Inv /\ [Next]_vars => Inv'
<1> SUFFICES ASSUME Inv, [Next]_vars PROVE Inv'
  OBVIOUS
<1>1. ASSUME NEW op \in Ops, Commit(op) PROVE Inv'  BY <1>1, CommitInv
<1>2. ASSUME NEW op \in Ops, RemoteTxn(op) PROVE Inv'  BY <1>2, RemoteTxnInv
<1>3. CASE Confirm  BY <1>3, ConfirmInv
<1>4. CASE Reject  BY <1>4, RejectInv
<1>5. CASE AnswerElsewhere  BY <1>5, AnswerElsewhereInv
<1>6. CASE Read  BY <1>6, ReadInv
<1>7. ASSUME NEW docs \in Collections, RemoteSetAll(docs) PROVE Inv'  BY <1>7, RemoteSetAllInv
<1>8. CASE RemoteDelAll  BY <1>8, RemoteDelAllInv
<1>9. ASSUME NEW b \in Bounds, SetBound(b) PROVE Inv'  BY <1>9, SetBoundInv
<1>10. CASE UNCHANGED vars
  <2>1. UNCHANGED <<sorted, limit, bound, memory, made, pending, overlay, pointers, astray>>
    BY <1>10 DEF vars
  <2>2. View' = View  BY <2>1, ViewIs
  <2> QED  BY <2>1, <2>2 DEF Inv, Typed, Right, Fits, Finds
<1> QED
  BY <1>1, <1>2, <1>3, <1>4, <1>5, <1>6, <1>7, <1>8, <1>9, <1>10 DEF Next

\* So it holds always.
LEMMA InvAlways == Spec => []IInv
<1>1. Init => Inv  BY InitInv
<1>2. Inv /\ [Next]_vars => Inv'  BY NextInv
<1>3. Inv => IInv  BY InvIs
<1> QED  BY <1>1, <1>2, <1>3, PTL DEF Spec

\* No document is twice in a result, and a limit is kept, whatever the model and the
\* store do and in whatever order (find.js:78-100 and 113-143).
THEOREM ResultTypeCorrect == Spec => []TypeOK
<1>1. IInv => TypeOK  BY DEF IInv
<1> QED  BY <1>1, InvAlways, PTL

\* Apart from the documents that the result has lost track of (astray), it contains
\* what passes in the collection as the model shows it, nothing else, and without a
\* limit all of it: own and others' mutations, confirmations, rejections, whole
\* collections set or deleted and a changed filter (scope.js:125-245, find.js), on an
\* overlay that is kept and follows the memory in part (txns.Model.js:517-592).  What
\* shows late, when the overlay is built anew, is what it has lost track of.
THEOREM ResultIsAlwaysQuery == Spec => []ResultIsQuery
<1>1. IInv => ResultIsQuery  BY DEF IInv
<1> QED  BY <1>1, InvAlways, PTL

\* A sorted result stays sorted under all insertions and moves of single documents,
\* as long as nothing was lost track of (find.js:113-172).
THEOREM ResultStaysInOrder == Spec => []InOrder
<1>1. IInv => InOrder  BY DEF IInv
<1> QED  BY <1>1, InvAlways, PTL
-----------------------------------------------------------------------------
(* Pages: documents in sequences                                           *)

\* q is p with d at one place more.
Put(q, p, at, d) ==
  /\ p \in Seq(Docs) /\ q \in Seq(Docs) /\ d \in Docs
  /\ Len(q) = Len(p) + 1 /\ at \in 1 .. Len(q)
  /\ \A m \in 1 .. at - 1 : q[m] = p[m]
  /\ q[at] = d
  /\ \A m \in at .. Len(p) : q[m + 1] = p[m]

LEMMA InsertPuts ==
  ASSUME NEW p \in Seq(Docs), NEW i \in 1 .. Len(p) + 1, NEW d \in Docs
  PROVE  Put(InsertAt(p, i, d), p, i, d)
<1>1. PICK n \in Nat : n = Len(p) /\ i \in 1 .. n + 1  OBVIOUS
<1>2. PICK q : q = InsertAt(p, i, d)  OBVIOUS
<1>3. /\ q \in Seq(Docs) /\ Len(q) = n + 1
      /\ \A k \in 1 .. i - 1 : q[k] = p[k]
      /\ q[i] = d
      /\ \A k \in i + 1 .. n + 1 : q[k] = p[k - 1]
  <2>1. /\ InsertAt(p, i, d) \in Seq(Docs)
        /\ Len(InsertAt(p, i, d)) = Len(p) + 1
        /\ \A k \in 1 .. i - 1 : InsertAt(p, i, d)[k] = p[k]
        /\ InsertAt(p, i, d)[i] = d
        /\ \A k \in i + 1 .. Len(p) + 1 : InsertAt(p, i, d)[k] = p[k - 1]
    BY InsertAtIs
  <2> QED  BY <1>1, <1>2, <2>1
<1>4. ASSUME NEW m \in i .. n PROVE q[m + 1] = p[m]
  <2>1. m + 1 \in i + 1 .. n + 1 /\ (m + 1) - 1 = m  BY <1>1
  <2> QED  BY <1>3, <2>1
<1> QED  BY <1>1, <1>2, <1>3, <1>4 DEF Put

LEMMA RemovePuts ==
  ASSUME NEW q \in Seq(Docs), NEW i \in 1 .. Len(q)
  PROVE  Put(q, RemoveAt(q, i), i, q[i])
<1>1. PICK n \in Nat : n = Len(q) /\ i \in 1 .. n /\ n # 0  OBVIOUS
<1>2. PICK p : p = RemoveAt(q, i)  OBVIOUS
<1>3. /\ p \in Seq(Docs) /\ Len(p) = n - 1
      /\ \A k \in 1 .. i - 1 : p[k] = q[k]
      /\ \A k \in i .. n - 1 : p[k] = q[k + 1]
  BY <1>1, <1>2, RemoveAtIs
<1>4. q[i] \in Docs  OBVIOUS
<1> QED  BY <1>1, <1>2, <1>3, <1>4 DEF Put

LEMMA AppendPuts ==
  ASSUME NEW p \in Seq(Docs), NEW d \in Docs
  PROVE  Put(Append(p, d), p, Len(p) + 1, d)
<1>1. PICK n \in Nat : n = Len(p)  OBVIOUS
<1>2. PICK q : q = Append(p, d)  OBVIOUS
<1>3. q \in Seq(Docs) /\ Len(q) = n + 1 /\ q[n + 1] = d /\ \A k \in 1 .. n : q[k] = p[k]
  BY <1>1, <1>2
<1> QED  BY <1>1, <1>2, <1>3 DEF Put

LEMMA ConsPuts ==
  ASSUME NEW p \in Seq(Docs), NEW d \in Docs
  PROVE  Put(<<d>> \o p, p, 1, d)
<1>1. PICK n \in Nat : n = Len(p)  OBVIOUS
<1>2. PICK q : q = <<d>> \o p  OBVIOUS
<1>3. <<d>> \in Seq(Docs) /\ Len(<<d>>) = 1  OBVIOUS
<1>4. q \in Seq(Docs) /\ Len(q) = n + 1 /\ q[1] = d
  BY <1>1, <1>2, <1>3
<1>5. ASSUME NEW m \in 1 .. n PROVE q[m + 1] = p[m]
  <2>1. m + 1 \in 2 .. n + 1 /\ (m + 1) - 1 = m  BY <1>1
  <2> QED  BY <1>1, <1>2, <1>3, <2>1
<1> QED  BY <1>1, <1>2, <1>4, <1>5 DEF Put

LEMMA TailPuts ==
  ASSUME NEW q \in Seq(Docs), Len(q) # 0
  PROVE  Put(q, Tail(q), 1, q[1])
<1>1. PICK n \in Nat : n = Len(q) /\ n # 0  OBVIOUS
<1>2. PICK p : p = Tail(q)  OBVIOUS
<1>3. q # << >>  BY <1>1
<1>4. p \in Seq(Docs) /\ Len(p) = n - 1 /\ q[1] \in Docs  BY <1>1, <1>2, <1>3
<1>5. ASSUME NEW m \in 1 .. n - 1 PROVE q[m + 1] = p[m]
  BY <1>1, <1>2, <1>3
<1> QED  BY <1>1, <1>2, <1>4, <1>5 DEF Put

LEMMA FrontPuts ==
  ASSUME NEW q \in Seq(Docs), Len(q) # 0
  PROVE  Put(q, Front(q), Len(q), q[Len(q)])
<1>1. PICK n \in Nat : n = Len(q) /\ n # 0  OBVIOUS
<1>2. PICK p : p = Front(q)  OBVIOUS
<1>3. p = SubSeq(q, 1, n - 1)  BY <1>1, <1>2 DEF Front
<1>4. p \in Seq(Docs) /\ Len(p) = n - 1 /\ \A m \in 1 .. n - 1 : p[m] = q[m]
  BY <1>1, <1>3
<1>5. q[n] \in Docs /\ n .. Len(p) = {}  BY <1>1, <1>4
<1> QED  BY <1>1, <1>2, <1>4, <1>5 DEF Put

\* Whose documents they are.
IdsOf(p) == {p[i].id : i \in DOMAIN p}

LEMMA PutIds ==
  ASSUME NEW p, NEW q, NEW at, NEW d, Put(q, p, at, d)
  PROVE  IdsOf(q) = IdsOf(p) \cup {d.id}
<1>1. PICK n \in Nat : n = Len(p) /\ DOMAIN p = 1 .. n /\ DOMAIN q = 1 .. n + 1
                       /\ at \in 1 .. n + 1
  BY DEF Put
<1>2. ASSUME NEW m \in 1 .. n + 1 PROVE q[m].id \in IdsOf(p) \cup {d.id}
  <2>1. CASE m < at
    <3>1. m \in 1 .. at - 1 /\ m \in 1 .. n  BY <1>1, <2>1
    <3>2. q[m] = p[m]  BY <3>1 DEF Put
    <3> QED  BY <1>1, <3>1, <3>2 DEF IdsOf
  <2>2. CASE m = at  BY <2>2 DEF Put
  <2>3. CASE at < m
    <3>1. m - 1 \in at .. n /\ (m - 1) + 1 = m /\ m - 1 \in 1 .. n  BY <1>1, <2>3
    <3>2. q[m] = p[m - 1]  BY <1>1, <3>1 DEF Put
    <3> QED  BY <1>1, <3>1, <3>2 DEF IdsOf
  <2> QED  BY <1>1, <2>1, <2>2, <2>3
<1>3. ASSUME NEW m \in 1 .. n PROVE p[m].id \in IdsOf(q)
  <2>1. CASE m < at
    <3>1. m \in 1 .. at - 1 /\ m \in 1 .. n + 1  BY <1>1, <2>1
    <3>2. q[m] = p[m]  BY <3>1 DEF Put
    <3> QED  BY <1>1, <3>1, <3>2 DEF IdsOf
  <2>2. CASE ~ (m < at)
    <3>1. m \in at .. n /\ m + 1 \in 1 .. n + 1  BY <1>1, <2>2
    <3>2. q[m + 1] = p[m]  BY <1>1, <3>1 DEF Put
    <3> QED  BY <1>1, <3>1, <3>2 DEF IdsOf
  <2> QED  BY <2>1, <2>2
<1>4. d.id \in IdsOf(q)  BY <1>1 DEF IdsOf, Put
<1>5. IdsOf(q) \subseteq IdsOf(p) \cup {d.id}  BY <1>1, <1>2 DEF IdsOf
<1>6. IdsOf(p) \subseteq IdsOf(q)  BY <1>1, <1>3 DEF IdsOf
<1> QED  BY <1>4, <1>5, <1>6

\* What is left of q, of length n, without d.
Left(p, q, at, d, n) ==
  /\ n \in Nat /\ n = Len(q) /\ p \in Seq(Docs) /\ q \in Seq(Docs) /\ d \in Docs
  /\ Len(p) = n - 1 /\ at \in 1 .. n /\ q[at] = d
  /\ \A m \in 1 .. at - 1 : q[m] = p[m]
  /\ \A m \in at .. n - 1 : q[m + 1] = p[m]

LEMMA PutLeft ==
  ASSUME NEW p, NEW q, NEW at, NEW d, Put(q, p, at, d)
  PROVE  Left(p, q, at, d, Len(q))
<1>1. PICK n : n = Len(q)  OBVIOUS
<1>2. p \in Seq(Docs) /\ q \in Seq(Docs) /\ d \in Docs /\ n = Len(p) + 1  BY <1>1 DEF Put
<1>3. Len(p) = n - 1 /\ n \in Nat  BY <1>2
<1>4. /\ at \in 1 .. n /\ q[at] = d
      /\ \A m \in 1 .. at - 1 : q[m] = p[m]
      /\ \A m \in at .. n - 1 : q[m + 1] = p[m]
  BY <1>1, <1>3 DEF Put
<1>5. Left(p, q, at, d, n)  BY <1>1, <1>2, <1>3, <1>4 DEF Left
<1> QED  BY <1>1, <1>5

LEMMA TailIs ==
  ASSUME NEW q, NEW p, NEW at, NEW d, Put(q, p, at, d)
  PROVE  Put(q, Tail(q), 1, Head(q))
<1>1. q \in Seq(Docs) /\ Len(q) # 0  BY PutLeft DEF Left, Put
<1>2. Head(q) = q[1]  BY <1>1
<1> QED  BY <1>1, <1>2, TailPuts

LEMMA FrontIs ==
  ASSUME NEW q, NEW p, NEW at, NEW d, Put(q, p, at, d), NEW l, l = Len(p)
  PROVE  Put(q, Front(q), l + 1, Last(q))
<1>1. q \in Seq(Docs) /\ Len(q) # 0 /\ Len(q) = l + 1  BY PutLeft DEF Left, Put
<1>2. Last(q) = q[Len(q)]  BY DEF Last
<1> QED  BY <1>1, <1>2, FrontPuts

\* q has x at i, where p has y at j, and else the same documents in the same order.
Trade(p, j, y, q, i, x) == \E r : Put(p, r, j, y) /\ Put(q, r, i, x)


-----------------------------------------------------------------------------
(* Pages: what the database has                                            *)

KeyMaps == [DocIds -> 0 .. NumKeys]
Found(k) == {i \in DocIds : k[i] # Out}
UpTo(k, i) == {j \in Found(k) : k[j] < k[i] \/ (k[j] = k[i] /\ j <= i)}
PlaceOf(k, i) == Cardinality(UpTo(k, i))
DocOf(k, i) == [id |-> i, key |-> k[i]]

\* No two documents that follow each other in a list are equal, or out of order.
Ascends(s) == \A m, n \in DOMAIN s : m < n => s[m].key < s[n].key

LEMMA FoundIs ==
  ASSUME NEW k \in KeyMaps
  PROVE  /\ IsFiniteSet(Found(k)) /\ Found(k) \subseteq DocIds
         /\ \A i \in Found(k) : i \in Nat /\ k[i] \in 1 .. NumKeys /\ DocOf(k, i) \in Docs
         /\ NumKeys \in Nat /\ NumDocs \in Nat
<1>1. NumDocs \in Nat /\ NumKeys \in Nat  BY PageAssumption
<1>2. Found(k) \in SUBSET DocIds  BY DEF Found
<1>3. IsFiniteSet(DocIds)
  <2>1. NumDocs \in Int /\ 1 \in Int  BY <1>1
  <2> QED  BY <2>1, FS_Interval DEF DocIds
<1>4. IsFiniteSet(Found(k))  BY <1>2, <1>3, FS_Subset
<1>5. ASSUME NEW i \in Found(k) PROVE i \in Nat /\ k[i] \in 1 .. NumKeys /\ DocOf(k, i) \in Docs
  <2>1. i \in DocIds /\ k[i] \in 0 .. NumKeys /\ k[i] # 0  BY DEF Found, KeyMaps, Out
  <2>2. i \in Nat /\ k[i] \in 1 .. NumKeys  BY <1>1, <2>1 DEF DocIds
  <2> QED  BY <2>1, <2>2 DEF DocOf, Docs
<1> QED  BY <1>1, <1>2, <1>4, <1>5

\* The places of the documents that pass are the numbers up to how many there are.
LEMMA PlacesOf ==
  ASSUME NEW k \in KeyMaps
  PROVE  /\ \A i \in Found(k) : PlaceOf(k, i) \in 1 .. Cardinality(Found(k))
         /\ \A i, j \in Found(k) : i \in UpTo(k, j) /\ i # j => PlaceOf(k, i) < PlaceOf(k, j)
         /\ \A n \in 1 .. Cardinality(Found(k)) : \E i \in Found(k) : PlaceOf(k, i) = n
         /\ Cardinality(Found(k)) \in Nat
         /\ \A i, j \in Found(k) : i \in UpTo(k, j) \/ j \in UpTo(k, i)
         /\ \A i \in Found(k) : IsFiniteSet(UpTo(k, i))
<1> DEFINE F == Found(k)  upto == [i \in F |-> UpTo(k, i)]
<1>1. IsFiniteSet(F) /\ \A i \in F : i \in Nat /\ k[i] \in Nat
  <2>1. \A i \in Found(k) : i \in Nat /\ k[i] \in 1 .. NumKeys  BY FoundIs
  <2>2. IsFiniteSet(Found(k)) /\ NumKeys \in Nat  BY FoundIs
  <2> QED  BY <2>1, <2>2
<1> HIDE DEF F
<1>2. \A i, j \in F : j \in UpTo(k, i) <=> k[j] < k[i] \/ (k[j] = k[i] /\ j <= i)
  BY DEF UpTo, F
<1>3. upto \in [F -> SUBSET F] /\ \A i \in F : upto[i] = UpTo(k, i)
  BY DEF UpTo, F
<1>4. \A i \in F : i \in UpTo(k, i)  BY <1>1, <1>2
<1>5. \A i, j \in F : i \in UpTo(k, j) \/ j \in UpTo(k, i)  BY <1>1, <1>2
<1>6. \A i, j \in F : i \in UpTo(k, j) /\ j \in UpTo(k, i) => i = j  BY <1>1, <1>2
<1>7. \A i, j, m \in F : i \in UpTo(k, j) /\ j \in UpTo(k, m) => i \in UpTo(k, m)
  BY <1>1, <1>2
<1> HIDE DEF upto
<1>8. /\ \A i \in F : Cardinality(upto[i]) \in 1 .. Cardinality(F)
      /\ \A i, j \in F : i \in upto[j] /\ i # j
                         => Cardinality(upto[i]) < Cardinality(upto[j])
      /\ \A n \in 1 .. Cardinality(F) : \E i \in F : Cardinality(upto[i]) = n
  <2>1. /\ \A i \in F : i \in upto[i]
        /\ \A i, j \in F : i \in upto[j] \/ j \in upto[i]
        /\ \A i, j \in F : i \in upto[j] /\ j \in upto[i] => i = j
        /\ \A i, j, m \in F : i \in upto[j] /\ j \in upto[m] => i \in upto[m]
    BY <1>3, <1>4, <1>5, <1>6, <1>7
  <2> QED  BY <1>1, <1>3, <2>1, Places
<1>9. \A i \in F : PlaceOf(k, i) = Cardinality(upto[i])  BY <1>3 DEF PlaceOf
<1>10. Cardinality(F) \in Nat  BY <1>1, FS_CardinalityType
<1>11. \A i \in F : IsFiniteSet(UpTo(k, i))
  <2>1. \A i \in F : UpTo(k, i) \in SUBSET F  BY <1>3
  <2> QED  BY <1>1, <2>1, FS_Subset
<1>12. /\ \A i \in F : PlaceOf(k, i) \in 1 .. Cardinality(F)
       /\ \A i, j \in F : i \in UpTo(k, j) /\ i # j => PlaceOf(k, i) < PlaceOf(k, j)
       /\ \A n \in 1 .. Cardinality(F) : \E i \in F : PlaceOf(k, i) = n
  BY <1>3, <1>8, <1>9
<1> QED  BY <1>5, <1>10, <1>11, <1>12 DEF F

\* What the query finds without its skip and limit: each document at its place.
LEMMA SortedIs ==
  ASSUME NEW k \in KeyMaps
  PROVE  /\ Sorted(k) \in Seq(Docs) /\ Len(Sorted(k)) = Cardinality(Found(k))
         /\ \A m \in 1 .. Len(Sorted(k)) :
              \E i \in Found(k) : PlaceOf(k, i) = m /\ Sorted(k)[m] = DocOf(k, i)
         /\ \A i \in Found(k) : /\ PlaceOf(k, i) \in 1 .. Len(Sorted(k))
                                /\ Sorted(k)[PlaceOf(k, i)] = DocOf(k, i)
<1> DEFINE n == Cardinality(Found(k))
           Who(m) == CHOOSE j \in Found(k) : PlaceOf(k, j) = m
<1>1. n \in Nat /\ \A m \in 1 .. n : \E i \in Found(k) : PlaceOf(k, i) = m  BY PlacesOf
<1>2. Sorted(k) = [m \in 1 .. n |-> DocOf(k, Who(m))]
  BY DEF Sorted, Found, PlaceOf, UpTo, DocOf
<1>3. \A m \in 1 .. n : Who(m) \in Found(k) /\ PlaceOf(k, Who(m)) = m  BY <1>1
<1> HIDE DEF Who
<1>4. PICK s : s = Sorted(k)  OBVIOUS
<1>5. s = [m \in 1 .. n |-> DocOf(k, Who(m))]  BY <1>2, <1>4
<1> HIDE DEF n
<1>6. \A m \in 1 .. n : s[m] = DocOf(k, Who(m)) /\ s[m] \in Docs  BY <1>3, <1>5, FoundIs
<1>7. s \in Seq(Docs) /\ Len(s) = n
  <2>1. s \in [1 .. n -> Docs]  BY <1>5, <1>6
  <2> QED  BY <1>1, <2>1
<1>8. ASSUME NEW i \in Found(k)
      PROVE  PlaceOf(k, i) \in 1 .. n /\ s[PlaceOf(k, i)] = DocOf(k, i)
  <2>1. PlaceOf(k, i) \in 1 .. n  BY PlacesOf DEF n
  <2>2. PICK j : j = Who(PlaceOf(k, i))  OBVIOUS
  <2>3. j \in Found(k) /\ PlaceOf(k, j) = PlaceOf(k, i)  BY <1>3, <2>1, <2>2
  <2>4. i = j
    <3>1. i \in UpTo(k, j) \/ j \in UpTo(k, i)  BY <2>3, PlacesOf
    <3>2. i # j => PlaceOf(k, i) < PlaceOf(k, j) \/ PlaceOf(k, j) < PlaceOf(k, i)
      BY <2>3, <3>1, PlacesOf
    <3>3. PlaceOf(k, i) \in Nat  BY <1>1, <2>1
    <3> QED  BY <2>3, <3>2, <3>3
  <2> QED  BY <1>6, <2>1, <2>2, <2>4
<1>9. \A m \in 1 .. n : \E i \in Found(k) : PlaceOf(k, i) = m /\ s[m] = DocOf(k, i)
  BY <1>3, <1>6
<1> QED  BY <1>4, <1>7, <1>8, <1>9 DEF n

\* Without ties its keys go up.
LEMMA SortedAscends ==
  ASSUME NEW k \in KeyMaps, ~ Tied(k)
  PROVE  Ascends(Sorted(k))
<1> SUFFICES ASSUME NEW m \in DOMAIN Sorted(k), NEW n \in DOMAIN Sorted(k), m < n
             PROVE  Sorted(k)[m].key < Sorted(k)[n].key
  BY DEF Ascends
<1>1. DOMAIN Sorted(k) = 1 .. Len(Sorted(k))  BY SortedIs
<1>2. PICK i \in Found(k) : PlaceOf(k, i) = m /\ Sorted(k)[m] = DocOf(k, i)  BY <1>1, SortedIs
<1>3. PICK j \in Found(k) : PlaceOf(k, j) = n /\ Sorted(k)[n] = DocOf(k, j)  BY <1>1, SortedIs
<1>4. m \in Nat /\ n \in Nat
  <2>1. Len(Sorted(k)) \in Nat  BY SortedIs
  <2> QED  BY <1>1, <2>1
<1>5. i # j  BY <1>2, <1>3, <1>4
<1>6. ~ (j \in UpTo(k, i))
  <2>1. j \in UpTo(k, i) => PlaceOf(k, j) < PlaceOf(k, i)  BY <1>5, PlacesOf
  <2> QED  BY <1>2, <1>3, <1>4, <2>1
<1>7. k[i] \in Nat /\ k[j] \in Nat
  <2>1. k[i] \in 1 .. NumKeys /\ k[j] \in 1 .. NumKeys /\ NumKeys \in Nat  BY FoundIs
  <2> QED  BY <2>1
<1>8. k[i] # k[j]
  <2>1. i \in DocIds /\ j \in DocIds /\ k[i] # Out  BY DEF Found
  <2> QED  BY <1>5, <2>1 DEF Tied
<1>9. k[i] < k[j]
  <2>1. ~ (k[j] < k[i])  BY <1>6 DEF UpTo
  <2> QED  BY <1>7, <1>8, <2>1
<1>10. Sorted(k)[m].key = k[i] /\ Sorted(k)[n].key = k[j]  BY <1>2, <1>3 DEF DocOf
<1> QED  BY <1>9, <1>10

\* Of a document that leaves, the others close the gap.
LEMMA SortedWithout ==
  ASSUME NEW k \in KeyMaps, NEW id \in Found(k), NEW r, r = [k EXCEPT ![id] = Out]
  PROVE  r \in KeyMaps /\ \E at : Put(Sorted(k), Sorted(r), at, DocOf(k, id))
<1>1. NumKeys \in Nat /\ id \in DocIds /\ IsFiniteSet(Found(k))  BY FoundIs
<1>2. r \in KeyMaps /\ DOMAIN k = DocIds
  <2>1. 0 \in 0 .. NumKeys  BY <1>1
  <2> QED  BY <1>1, <2>1 DEF KeyMaps, Out
<1>3. Found(r) = Found(k) \ {id} /\ \A j \in Found(r) : r[j] = k[j]
  BY <1>1, <1>2 DEF Found, KeyMaps
<1>4. \A j \in Found(r) : UpTo(r, j) = UpTo(k, j) \ {id}
  BY <1>3 DEF UpTo
<1>5. PICK a : a = PlaceOf(k, id)  OBVIOUS
<1>6. PICK n \in Nat : n = Cardinality(Found(k))  BY PlacesOf
<1>7. a \in 1 .. n /\ Cardinality(Found(r)) = n - 1
  <2>1. a \in 1 .. n  BY <1>5, <1>6, PlacesOf
  <2>2. Cardinality(Found(k) \ {id}) = n - 1  BY <1>1, <1>6, FS_RemoveElement
  <2> QED  BY <1>3, <2>1, <2>2
<1>8. ASSUME NEW j \in Found(r)
      PROVE  /\ PlaceOf(k, j) # a /\ PlaceOf(k, j) \in 1 .. n
             /\ PlaceOf(r, j) = IF PlaceOf(k, j) < a THEN PlaceOf(k, j) ELSE PlaceOf(k, j) - 1
  <2>1. j \in Found(k) /\ j # id  BY <1>3
  <2>2. PlaceOf(k, j) \in 1 .. n  BY <1>6, <2>1, PlacesOf
  <2>3. j \in UpTo(k, id) \/ id \in UpTo(k, j)  BY <2>1, PlacesOf
  <2>4. CASE id \in UpTo(k, j)
    <3>1. a < PlaceOf(k, j)  BY <1>5, <2>1, <2>4, PlacesOf
    <3>2. IsFiniteSet(UpTo(k, j))  BY <2>1, PlacesOf
    <3>3. Cardinality(UpTo(k, j) \ {id}) = PlaceOf(k, j) - 1
      BY <2>4, <3>2, FS_RemoveElement DEF PlaceOf
    <3>4. PlaceOf(r, j) = PlaceOf(k, j) - 1  BY <1>4, <3>3 DEF PlaceOf
    <3> QED  BY <1>6, <1>7, <2>2, <3>1, <3>4
  <2>5. CASE id \notin UpTo(k, j)
    <3>1. PlaceOf(k, j) < a  BY <1>5, <2>1, <2>3, <2>5, PlacesOf
    <3>2. UpTo(r, j) = UpTo(k, j)  BY <1>4, <2>5
    <3>3. PlaceOf(r, j) = PlaceOf(k, j)  BY <3>2 DEF PlaceOf
    <3> QED  BY <1>6, <1>7, <2>2, <3>1, <3>3
  <2> QED  BY <2>4, <2>5
<1>9. PICK s, t : s = Sorted(k) /\ t = Sorted(r)  OBVIOUS
<1>10. /\ s \in Seq(Docs) /\ Len(s) = n /\ t \in Seq(Docs) /\ Len(t) = n - 1
       /\ s[a] = DocOf(k, id) /\ DocOf(k, id) \in Docs
  <2>1. s \in Seq(Docs) /\ Len(s) = n  BY <1>6, <1>9, SortedIs
  <2>2. t \in Seq(Docs) /\ Len(t) = n - 1  BY <1>2, <1>7, <1>9, SortedIs
  <2>3. s[a] = DocOf(k, id)  BY <1>5, <1>9, SortedIs
  <2> QED  BY <2>1, <2>2, <2>3, FoundIs
<1>11. ASSUME NEW m \in 1 .. n, m # a
       PROVE  s[m] = t[IF m < a THEN m ELSE m - 1]
  <2>1. PICK j \in Found(k) : PlaceOf(k, j) = m /\ s[m] = DocOf(k, j)
    <3>1. m \in 1 .. Len(Sorted(k))  BY <1>9, <1>10
    <3> QED  BY <1>9, <3>1, SortedIs
  <2>2. j # id  BY <1>5, <1>11, <2>1
  <2>3. j \in Found(r)  BY <1>3, <2>1, <2>2
  <2>4. t[PlaceOf(r, j)] = DocOf(r, j)  BY <1>2, <1>9, <2>3, SortedIs
  <2>5. DocOf(r, j) = DocOf(k, j)  BY <1>3, <2>3 DEF DocOf
  <2> QED  BY <1>8, <2>1, <2>3, <2>4, <2>5
<1>12. \A m \in 1 .. a - 1 : s[m] = t[m]
  <2> TAKE m \in 1 .. a - 1
  <2>1. m \in 1 .. n /\ m # a /\ m < a  BY <1>7
  <2> QED  BY <1>11, <2>1
<1>13. \A m \in a .. n - 1 : s[m + 1] = t[m]
  <2> TAKE m \in a .. n - 1
  <2>1. m + 1 \in 1 .. n /\ m + 1 # a /\ ~ (m + 1 < a) /\ (m + 1) - 1 = m  BY <1>7
  <2> QED  BY <1>11, <2>1
<1>14. Put(s, t, a, DocOf(k, id))
  <2>1. Len(s) = Len(t) + 1 /\ a \in 1 .. Len(s)  BY <1>6, <1>7, <1>10
  <2> QED  BY <1>10, <1>12, <1>13, <2>1 DEF Put
<1> QED  BY <1>2, <1>9, <1>14

-----------------------------------------------------------------------------
(* Pages: what a slice of it is                                            *)

\* How long a page is, of n documents; c is the page of s.
PageLen(n) == IF n <= skip THEN 0 ELSE Smaller(Limit, n - skip)
IsPage(c, s) ==
  /\ c \in Seq(Docs) /\ Len(c) = PageLen(Len(s))
  /\ \A m \in 1 .. Len(c) : c[m] = s[skip + m]

LEMMA Numbers == Limit \in Nat /\ Limit >= 2 /\ NumDocs \in Nat /\ NumKeys \in Nat
<1> QED  BY PageAssumption

\* A document is no element that is undefined.
LEMMA AtIs ==
  ASSUME NEW s \in Seq(Docs), NEW i
  PROVE  /\ At(s, i) # Nothing <=> i \in 1 .. Len(s)
         /\ i \in 1 .. Len(s) => At(s, i) = s[i] /\ s[i] \in Docs
<1>1. DOMAIN s = 1 .. Len(s) /\ \A m \in 1 .. Len(s) : s[m] \in Docs  OBVIOUS
<1>2. Nothing \notin Docs  BY NamesAssumption
<1> QED  BY <1>1, <1>2 DEF At

LEMMA SmallerIs ==
  ASSUME NEW m \in Nat, NEW n \in Nat
  PROVE  /\ Smaller(m, n) \in Nat
         /\ m < n => Smaller(m, n) = m
         /\ n <= m => Smaller(m, n) = n
<1> QED  BY DEF Smaller

LEMMA SliceIs ==
  ASSUME skip \in Nat, NEW k \in KeyMaps, NEW from \in Nat, NEW to \in Nat, from <= to
  PROVE  /\ Slice(k, from, to) \in Seq(Docs)
         /\ Len(Slice(k, from, to)) =
              LET n == Len(Sorted(k)) IN
              IF n <= skip + from THEN 0 ELSE Smaller(to - from, n - skip - from)
         /\ \A i \in 1 .. Len(Slice(k, from, to)) :
              Slice(k, from, to)[i] = Sorted(k)[skip + from + i]
<1>1. PICK s \in Seq(Docs) : s = Sorted(k)  BY SortedIs
<1>2. PICK n \in Nat : n = Len(s) /\ DOMAIN s = 1 .. n /\ \A m \in 1 .. n : s[m] \in Docs  OBVIOUS
<1>3. PICK low \in Nat : low = skip + from  OBVIOUS
<1>4. PICK high \in Nat : high = Smaller(skip + to, n)
  <2>1. skip + to \in Nat  OBVIOUS
  <2> QED  BY <2>1, SmallerIs
<1>5. PICK t : t = SubSeq(s, low + 1, high)  OBVIOUS
<1>6. Slice(k, from, to) = t  BY <1>1, <1>2, <1>3, <1>4, <1>5 DEF Slice
<1>7. high <= n /\ high = IF skip + to < n THEN skip + to ELSE n  BY <1>2, <1>4 DEF Smaller
<1>8. CASE n <= low
  <2>1. high < low + 1 /\ high \in Int /\ low + 1 \in Int  BY <1>2, <1>7, <1>8
  <2>2. t = << >>  BY <1>5, <2>1
  <2>3. t \in Seq(Docs) /\ Len(t) = 0  BY <2>2
  <2> QED  BY <1>1, <1>2, <1>3, <1>6, <1>8, <2>3
<1>9. CASE low < n
  <2>1. low <= high /\ high - low = Smaller(to - from, n - low)
    <3>1. CASE skip + to < n
      <4>1. high = skip + to /\ high - low = to - from /\ to - from < n - low
        BY <1>2, <1>3, <1>7, <3>1
      <4> QED  BY <1>2, <1>3, <4>1 DEF Smaller
    <3>2. CASE ~ (skip + to < n)
      <4>1. high = n /\ ~ (to - from < n - low)  BY <1>2, <1>3, <1>7, <3>2
      <4> QED  BY <1>2, <1>3, <1>9, <4>1 DEF Smaller
    <3> QED  BY <3>1, <3>2
  <2>2. /\ t \in Seq(Docs) /\ Len(t) = high - low
        /\ \A i \in 1 .. high - low : t[i] = s[low + i]
    BY <1>2, <1>5, <1>7, <2>1
  <2>3. n - skip - from = n - low  BY <1>2, <1>3
  <2> QED  BY <1>1, <1>2, <1>3, <1>6, <1>9, <2>1, <2>2, <2>3
<1> QED  BY <1>2, <1>8, <1>9

LEMMA PageIs ==
  ASSUME skip \in Nat, NEW k \in KeyMaps
  PROVE  IsPage(Page(k), Sorted(k))
<1>1. PICK n \in Nat : n = Len(Sorted(k))  BY SortedIs
<1>2. PICK c : c = Page(k)  OBVIOUS
<1>3. /\ c \in Seq(Docs)
      /\ Len(c) = IF n <= skip + 0 THEN 0 ELSE Smaller(Limit - 0, n - skip - 0)
      /\ \A i \in 1 .. Len(c) : c[i] = Sorted(k)[skip + 0 + i]
  <2>1. PICK from \in Nat : from = 0  OBVIOUS
  <2>2. Limit \in Nat /\ from <= Limit  BY <2>1, Numbers
  <2>3. c = Slice(k, from, Limit)  BY <1>2, <2>1 DEF Page
  <2>4. /\ c \in Seq(Docs)
        /\ Len(c) = IF n <= skip + from THEN 0 ELSE Smaller(Limit - from, n - skip - from)
        /\ \A i \in 1 .. Len(c) : c[i] = Sorted(k)[skip + from + i]
    BY <1>1, <2>2, <2>3, SliceIs
  <2> QED  BY <2>1, <2>4
<1>4. skip + 0 = skip /\ Limit - 0 = Limit /\ n - skip - 0 = n - skip  BY <1>1, Numbers
<1> QED  BY <1>1, <1>2, <1>3, <1>4 DEF IsPage, PageLen

\* There is one page.
LEMMA OnePage ==
  ASSUME NEW s, NEW c, NEW d, IsPage(c, s), IsPage(d, s)
  PROVE  c = d
<1>1. c \in Seq(Docs) /\ d \in Seq(Docs) /\ Len(c) = Len(d)  BY DEF IsPage
<1>2. \A m \in 1 .. Len(c) : c[m] = d[m]  BY <1>1 DEF IsPage
<1> QED  BY <1>1, <1>2

\* The documents around the beginning of a page.
LEMMA FrontSlice ==
  ASSUME skip \in Nat, NEW k \in KeyMaps, NEW n \in Nat, n = Len(Sorted(k))
  PROVE  /\ Slice(k, 0, 2) \in Seq(Docs)
         /\ At(Slice(k, 0, 2), 1) = IF skip + 1 <= n THEN Sorted(k)[skip + 1] ELSE Nothing
         /\ At(Slice(k, 0, 2), 2) = IF skip + 2 <= n THEN Sorted(k)[skip + 2] ELSE Nothing
<1>1. PICK t : t = Slice(k, 0, 2)  OBVIOUS
<1>2. /\ t \in Seq(Docs)
      /\ Len(t) = IF n <= skip + 0 THEN 0 ELSE Smaller(2 - 0, n - skip - 0)
      /\ \A i \in 1 .. Len(t) : t[i] = Sorted(k)[skip + 0 + i]
  <2>1. PICK from \in Nat, to \in Nat : from = 0 /\ to = 2 /\ from <= to  OBVIOUS
  <2>2. t = Slice(k, from, to)  BY <1>1, <2>1
  <2>3. /\ t \in Seq(Docs)
        /\ Len(t) = IF n <= skip + from THEN 0 ELSE Smaller(to - from, n - skip - from)
        /\ \A i \in 1 .. Len(t) : t[i] = Sorted(k)[skip + from + i]
    BY <2>1, <2>2, SliceIs
  <2> QED  BY <2>1, <2>3
<1>3. Len(t) = IF n <= skip THEN 0 ELSE IF n = skip + 1 THEN 1 ELSE 2  BY <1>2 DEF Smaller
<1>4. 1 \in 1 .. Len(t) <=> skip + 1 <= n  BY <1>3
<1>5. 2 \in 1 .. Len(t) <=> skip + 2 <= n  BY <1>3
<1>6. \A i \in 1 .. Len(t) : t[i] = Sorted(k)[skip + i]  BY <1>2
<1> QED  BY <1>1, <1>2, <1>4, <1>5, <1>6, AtIs

\* The document that follows when something before the end of a page is gone.
LEMMA RefillIs ==
  ASSUME skip \in Nat, NEW k \in KeyMaps, NEW n \in Nat, n = Len(Sorted(k)), NEW c \in Seq(Docs)
  PROVE  /\ Refill(c, k).there <=> skip + Limit <= n
         /\ Refill(c, k).there => Refill(c, k).doc = Sorted(k)[skip + Limit]
                                  /\ Refill(c, k).doc \in Docs
         /\ Refill(c, k).sane => Refill(c, k).there
         /\ Refill(c, k).there /\ Len(c) # 0 /\ c[Len(c)] = Sorted(k)[skip + Limit - 1]
            => Refill(c, k).sane
         /\ Refill(c, k).there \in BOOLEAN /\ Refill(c, k).sane \in BOOLEAN
<1>1. PICK t : t = Slice(k, Limit - 2, Limit)  OBVIOUS
<1>2. /\ t \in Seq(Docs)
      /\ Len(t) = IF n <= skip + (Limit - 2) THEN 0
                  ELSE Smaller(Limit - (Limit - 2), n - skip - (Limit - 2))
      /\ \A i \in 1 .. Len(t) : t[i] = Sorted(k)[skip + (Limit - 2) + i]
  <2>1. PICK from \in Nat : from = Limit - 2  BY Numbers
  <2>2. Limit \in Nat /\ from <= Limit  BY <2>1, Numbers
  <2>3. t = Slice(k, from, Limit)  BY <1>1, <2>1
  <2>4. /\ t \in Seq(Docs)
        /\ Len(t) = IF n <= skip + from THEN 0 ELSE Smaller(Limit - from, n - skip - from)
        /\ \A i \in 1 .. Len(t) : t[i] = Sorted(k)[skip + from + i]
    BY <2>2, <2>3, SliceIs
  <2> QED  BY <2>1, <2>4
<1>3. PICK r : r = Refill(c, k)  OBVIOUS
<1>4. /\ r.doc = At(t, 2) /\ (r.there <=> At(t, 2) # Nothing)
      /\ (r.sane <=> At(t, 2) # Nothing /\ At(t, 1) = At(c, Len(c)))
      /\ r.there \in BOOLEAN /\ r.sane \in BOOLEAN
  BY <1>1, <1>3 DEF Refill
<1>5. 2 \in 1 .. Len(t) <=> skip + Limit <= n
  <2>1. Limit - (Limit - 2) = 2 /\ n - skip - (Limit - 2) = n - skip - Limit + 2  BY Numbers
  <2>2. n <= skip + (Limit - 2) => Len(t) = 0  BY <1>2
  <2>3. ~ (n <= skip + (Limit - 2))
        => Len(t) = IF 2 < n - skip - Limit + 2 THEN 2 ELSE n - skip - Limit + 2
    BY <1>2, <2>1 DEF Smaller
  <2>4. n <= skip + (Limit - 2) => ~ (skip + Limit <= n)  BY Numbers
  <2>5. ~ (n <= skip + (Limit - 2)) => (2 <= n - skip - Limit + 2 <=> skip + Limit <= n)
    BY Numbers
  <2>6. n - skip - Limit + 2 \in Int  BY Numbers
  <2>7. ASSUME NEW x \in Int, Len(t) = IF 2 < x THEN 2 ELSE x
        PROVE  2 \in 1 .. Len(t) <=> 2 <= x
    BY <2>7
  <2>8. ~ (n <= skip + (Limit - 2)) => (2 \in 1 .. Len(t) <=> 2 <= n - skip - Limit + 2)
    BY <2>3, <2>6, <2>7
  <2>9. Len(t) = 0 => ~ (2 \in 1 .. Len(t))  OBVIOUS
  <2> QED  BY <2>2, <2>4, <2>5, <2>8, <2>9
<1>6. 2 \in 1 .. Len(t) => /\ t[2] = Sorted(k)[skip + Limit] /\ 1 \in 1 .. Len(t)
                           /\ t[1] = Sorted(k)[skip + Limit - 1]
  <2>1. skip + (Limit - 2) + 2 = skip + Limit /\ skip + (Limit - 2) + 1 = skip + Limit - 1
    BY Numbers
  <2>2. Len(t) \in Nat  BY <1>2
  <2>3. 2 \in 1 .. Len(t) => 1 \in 1 .. Len(t)  BY <2>2
  <2> QED  BY <1>2, <2>1, <2>3
<1>7. r.there <=> 2 \in 1 .. Len(t)  BY <1>2, <1>4, AtIs
<1>8. r.there => r.doc = t[2] /\ r.doc \in Docs  BY <1>2, <1>4, <1>7, AtIs
<1>9. r.there /\ Len(c) # 0 /\ c[Len(c)] = Sorted(k)[skip + Limit - 1] => r.sane
  <2> SUFFICES ASSUME r.there, Len(c) # 0, c[Len(c)] = Sorted(k)[skip + Limit - 1] PROVE r.sane
    OBVIOUS
  <2>1. At(t, 1) = t[1]  BY <1>2, <1>6, <1>7, AtIs
  <2>2. Len(c) \in 1 .. Len(c)  OBVIOUS
  <2>3. At(c, Len(c)) = c[Len(c)]  BY <2>2, AtIs
  <2> QED  BY <1>4, <1>6, <1>7, <2>1, <2>3
<1> QED  BY <1>3, <1>4, <1>5, <1>6, <1>7, <1>8, <1>9

-----------------------------------------------------------------------------
(* Pages: where a document is                                              *)

\* Where a document stands relative to a list: before it, behind it, or at the first that
\* is not smaller.
Stands(c, d, p) ==
  \/ p = Before /\ d.key < c[1].key
  \/ p = After /\ d.key > c[Len(c)].key
  \/ /\ p \in 1 .. Len(c)
     /\ c[1].key <= d.key
     /\ Ascends(c) => d.key <= c[p].key /\ \A j \in 1 .. p - 1 : c[j].key < d.key

LEMMA RelPositionIs ==
  ASSUME NEW c \in Seq(Docs), NEW d \in Docs, NEW p, p = RelPosition(c, d)
  PROVE  /\ c = << >> => p = Null
         /\ c # << >> => Stands(c, d, p)
<1>1. CASE c = << >>  BY <1>1 DEF RelPosition
<1>2. CASE c # << >>
  <2>1. PICK n \in Nat : n = Len(c) /\ n # 0 /\ DOMAIN c = 1 .. n  BY <1>2
  <2>2. \A m \in 1 .. n : c[m] \in Docs /\ c[m].key \in Nat
    <3>1. \A m \in 1 .. n : c[m] \in Docs  BY <2>1
    <3> QED  BY <3>1, Numbers DEF Docs
  <2>3. d.key \in Nat /\ c[1] # Nothing /\ 1 \in 1 .. n /\ n \in 1 .. n
    <3>1. Nothing \notin Docs  BY NamesAssumption
    <3> QED  BY <2>1, <2>2, <3>1, Numbers DEF Docs
  <2>4. Last(c) = c[n]  BY <2>1 DEF Last
  <2> DEFINE First(i) ==
               i \in DOMAIN c /\ d.key <= c[i].key /\ \A j \in 1 .. i - 1 : d.key > c[j].key
  <2>10. PICK w : w = CHOOSE i : First(i)  OBVIOUS
  <2>5. p = IF d.key < c[1].key THEN Before
            ELSE IF d.key > c[n].key THEN After
            ELSE IF d.key = c[n].key /\ d.key # c[1].key THEN n
            ELSE w
    <3>1. p = IF c = << >> THEN Null
              ELSE IF c[1] = Nothing THEN Undefined
              ELSE IF d.key < c[1].key THEN Before
              ELSE IF d.key > Last(c).key THEN After
              ELSE IF d.key = Last(c).key /\ d.key # c[1].key THEN Len(c)
              ELSE CHOOSE i : First(i)
      BY DEF RelPosition
    <3> HIDE DEF First
    <3>2. p = IF d.key < c[1].key THEN Before
              ELSE IF d.key > Last(c).key THEN After
              ELSE IF d.key = Last(c).key /\ d.key # c[1].key THEN Len(c)
              ELSE w
      BY <1>2, <2>10, <2>3, <3>1
    <3> QED  BY <2>1, <2>4, <3>2
  <2>6. CASE d.key < c[1].key  BY <1>2, <2>5, <2>6 DEF Stands
  <2>7. CASE ~ (d.key < c[1].key) /\ d.key > c[n].key  BY <2>1, <2>5, <2>7 DEF Stands
  <2>8. CASE ~ (d.key < c[1].key) /\ d.key = c[n].key /\ d.key # c[1].key
    <3>1. p = n  BY <2>2, <2>3, <2>5, <2>8
    <3>2. c[1].key <= d.key  BY <2>2, <2>3, <2>8
    <3>3. Ascends(c) => \A j \in 1 .. n - 1 : c[j].key < d.key
      <4> SUFFICES ASSUME Ascends(c), NEW j \in 1 .. n - 1 PROVE c[j].key < d.key
        OBVIOUS
      <4>1. j \in 1 .. n /\ j < n  BY <2>1
      <4> QED  BY <2>1, <2>3, <2>8, <4>1 DEF Ascends
    <3> QED  BY <2>1, <2>2, <2>3, <2>8, <3>1, <3>2, <3>3 DEF Stands
  <2>9. CASE /\ ~ (d.key < c[1].key) /\ ~ (d.key > c[n].key)
             /\ ~ (d.key = c[n].key /\ d.key # c[1].key)
    <3>1. \E i : First(i)
      <4> DEFINE T == {i \in 1 .. n : d.key <= c[i].key}
      <4>1. n \in T  BY <2>2, <2>3, <2>9
      <4>2. PICK i \in T : \A m \in T : i <= m
        <5>1. T \in SUBSET Nat /\ T # {}  BY <2>1, <4>1
        <5> HIDE DEF T
        <5> QED  BY <5>1, LeastOf
      <4>3. \A j \in 1 .. i - 1 : d.key > c[j].key
        <5> SUFFICES ASSUME NEW j \in 1 .. i - 1 PROVE d.key > c[j].key
          OBVIOUS
        <5>1. i \in 1 .. n  OBVIOUS
        <5>2. j \in 1 .. n /\ ~ (i <= j)  BY <2>1, <5>1
        <5>3. j \notin T  BY <4>2, <5>2
        <5> QED  BY <2>2, <2>3, <5>2, <5>3
      <4>4. i \in DOMAIN c /\ d.key <= c[i].key  BY <2>1
      <4> HIDE DEF T
      <4>5. First(i)  BY <4>3, <4>4
      <4> QED  BY <4>5
    <3>2. p = w  BY <2>2, <2>3, <2>5, <2>9
    <3>3. First(p)
      <4> HIDE DEF First
      <4> QED  BY <2>10, <3>1, <3>2
    <3>4. \A j \in 1 .. p - 1 : c[j].key < d.key
      <4> SUFFICES ASSUME NEW j \in 1 .. p - 1 PROVE c[j].key < d.key
        OBVIOUS
      <4>1. d.key > c[j].key /\ j \in 1 .. n  BY <2>1, <3>3
      <4> QED  BY <2>2, <2>3, <4>1
    <3> QED  BY <2>1, <2>2, <2>3, <2>9, <3>3, <3>4 DEF Stands
  <2> QED  BY <2>3, <2>6, <2>7, <2>8, <2>9
<1> QED  BY <1>1, <1>2

-----------------------------------------------------------------------------
(* Pages: where a document was, and where it is now                        *)

LEMMA KeysOf ==
  ASSUME NEW s \in Seq(Docs)
  PROVE  /\ Len(s) \in Nat /\ DOMAIN s = 1 .. Len(s)
         /\ \A m \in 1 .. Len(s) : s[m] \in Docs /\ s[m].key \in Nat /\ s[m].id \in DocIds
         /\ Ascends(s) => \A m, n \in 1 .. Len(s) : m < n <=> s[m].key < s[n].key
<1>1. Len(s) \in Nat /\ DOMAIN s = 1 .. Len(s) /\ \A m \in 1 .. Len(s) : s[m] \in Docs  OBVIOUS
<1>2. \A d \in Docs : d.key \in Nat /\ d.id \in DocIds  BY Numbers DEF Docs
<1>3. ASSUME Ascends(s), NEW m \in 1 .. Len(s), NEW n \in 1 .. Len(s)
      PROVE  m < n <=> s[m].key < s[n].key
  <2>1. s[m].key \in Nat /\ s[n].key \in Nat /\ m \in Nat /\ n \in Nat  BY <1>1, <1>2
  <2>2. m < n => s[m].key < s[n].key  BY <1>1, <1>3 DEF Ascends
  <2>3. n < m => s[n].key < s[m].key  BY <1>1, <1>3 DEF Ascends
  <2>4. m = n \/ m < n \/ n < m  BY <2>1
  <2> QED  BY <2>1, <2>2, <2>3, <2>4
<1> QED  BY <1>1, <1>2, <1>3

LEMMA PageLenIs ==
  ASSUME skip \in Nat, NEW n \in Nat, NEW l, l = PageLen(n)
  PROVE  /\ l \in 0 .. Limit
         /\ l = 0 <=> n <= skip
         /\ l # 0 => skip + l <= n
         /\ l # 0 /\ l # Limit => n = skip + l
         /\ l = Limit <=> skip + Limit <= n
<1>1. Limit \in Nat /\ Limit >= 2  BY Numbers
<1>2. CASE n <= skip
  <2>1. l = 0  BY <1>2 DEF PageLen
  <2> QED  BY <1>1, <1>2, <2>1
<1>3. CASE ~ (n <= skip)
  <2>1. n - skip \in Nat /\ n - skip # 0  BY <1>3
  <2>2. l = Smaller(Limit, n - skip)  BY <1>3 DEF PageLen
  <2>3. l = IF Limit < n - skip THEN Limit ELSE n - skip  BY <2>2 DEF Smaller
  <2> QED  BY <1>1, <1>3, <2>1, <2>3
<1> QED  BY <1>2, <1>3

LEMMA PageAscends ==
  ASSUME skip \in Nat, NEW s \in Seq(Docs), Ascends(s), NEW c, IsPage(c, s)
  PROVE  /\ Ascends(c) /\ c \in Seq(Docs) /\ Len(c) \in 0 .. Limit
         /\ \A m \in 1 .. Len(c) : skip + m \in 1 .. Len(s) /\ c[m] = s[skip + m]
<1>1. c \in Seq(Docs) /\ Len(c) = PageLen(Len(s)) /\ Len(s) \in Nat
  BY DEF IsPage
<1>2. PICK l : l = Len(c)  OBVIOUS
<1>3. l \in 0 .. Limit /\ (l # 0 => skip + l <= Len(s))  BY <1>1, <1>2, PageLenIs
<1>4. \A m \in 1 .. l : skip + m \in 1 .. Len(s) /\ c[m] = s[skip + m]
  <2> TAKE m \in 1 .. l
  <2>1. c[m] = s[skip + m]  BY <1>2 DEF IsPage
  <2>2. l \in Nat /\ Limit \in Nat  BY <1>3, Numbers
  <2>3. skip + m \in 1 .. Len(s)  BY <1>1, <1>3, <2>2
  <2> QED  BY <2>1, <2>3
<1>5. Ascends(c)
  <2> SUFFICES ASSUME NEW m \in DOMAIN c, NEW n \in DOMAIN c, m < n PROVE c[m].key < c[n].key
    BY DEF Ascends
  <2>1. m \in 1 .. l /\ n \in 1 .. l /\ m \in Nat /\ n \in Nat  BY <1>1, <1>2
  <2>2. skip + m \in DOMAIN s /\ skip + n \in DOMAIN s /\ skip + m < skip + n  BY <1>4, <2>1
  <2>3. s[skip + m].key < s[skip + n].key  BY <2>2 DEF Ascends
  <2> QED  BY <1>4, <2>1, <2>3
<1> QED  BY <1>1, <1>2, <1>3, <1>4, <1>5

\* A document that is in the list: where the node finds it.
LEMMA OldStands ==
  ASSUME skip \in Nat, NEW s \in Seq(Docs), Ascends(s), NEW c, IsPage(c, s), c # << >>,
         NEW a \in 1 .. Len(s), NEW p, p = RelPosition(c, s[a])
  PROVE  \/ p = Before /\ a <= skip
         \/ p = After /\ a > skip + Len(c)
         \/ p \in 1 .. Len(c) /\ a = skip + p
<1>1. /\ Ascends(c) /\ c \in Seq(Docs)
      /\ \A m \in 1 .. Len(c) : skip + m \in 1 .. Len(s) /\ c[m] = s[skip + m]
  BY PageAscends
<1>2. \A m, n \in 1 .. Len(s) : m < n <=> s[m].key < s[n].key  BY KeysOf
<1>3. \A m \in 1 .. Len(s) : s[m] \in Docs /\ s[m].key \in Nat /\ m \in Nat  BY KeysOf
<1>4. PICK l \in Nat : l = Len(c) /\ l # 0  BY <1>1
<1>5. Stands(c, s[a], p)  BY <1>1, <1>3, RelPositionIs
<1>6. 1 \in 1 .. l /\ l \in 1 .. l  BY <1>4
<1>7. CASE p = Before /\ s[a].key < c[1].key
  <2>1. c[1] = s[skip + 1] /\ skip + 1 \in 1 .. Len(s)  BY <1>1, <1>4, <1>6
  <2>2. a < skip + 1  BY <1>2, <1>7, <2>1
  <2> QED  BY <1>3, <1>7, <2>2
<1>8. CASE p = After /\ s[a].key > c[l].key
  <2>1. c[l] = s[skip + l] /\ skip + l \in 1 .. Len(s)  BY <1>1, <1>4, <1>6
  <2>2. s[skip + l].key < s[a].key  BY <1>3, <1>8, <2>1
  <2>3. skip + l < a  BY <1>2, <2>1, <2>2
  <2> QED  BY <1>3, <1>4, <1>8, <2>3
<1>9. CASE /\ p \in 1 .. l /\ c[1].key <= s[a].key /\ s[a].key <= c[p].key
           /\ \A j \in 1 .. p - 1 : c[j].key < s[a].key
  <2>1. /\ c[1] = s[skip + 1] /\ skip + 1 \in 1 .. Len(s)
        /\ c[p] = s[skip + p] /\ skip + p \in 1 .. Len(s)
    BY <1>1, <1>4, <1>6, <1>9
  <2>2. ~ (a < skip + 1)
    <3>1. s[skip + 1].key <= s[a].key  BY ONLY <1>9, <2>1
    <3>2. s[skip + 1].key \in Nat /\ s[a].key \in Nat /\ skip + 1 \in 1 .. Len(s)  BY <1>3, <2>1
    <3>3. ~ (s[a].key < s[skip + 1].key)  BY ONLY <3>1, <3>2
    <3>4. a \in 1 .. Len(s)  OBVIOUS
    <3> QED  BY ONLY <1>2, <3>2, <3>3, <3>4
  <2>3. ~ (skip + p < a)
    <3>1. s[a].key <= s[skip + p].key  BY ONLY <1>9, <2>1
    <3>2. s[skip + p].key \in Nat /\ s[a].key \in Nat /\ skip + p \in 1 .. Len(s)  BY <1>3, <2>1
    <3>3. ~ (s[skip + p].key < s[a].key)  BY ONLY <3>1, <3>2
    <3>4. a \in 1 .. Len(s)  OBVIOUS
    <3> QED  BY ONLY <1>2, <3>2, <3>3, <3>4
  <2>4. ASSUME a < skip + p PROVE FALSE
    <3>1. PICK j \in 1 .. p - 1 : a = skip + j  BY <1>3, <1>4, <1>9, <2>2, <2>4
    <3>2. j \in 1 .. l  BY <1>4, <1>9
    <3>3. c[j] = s[a]  BY <1>1, <1>4, <3>1, <3>2
    <3> QED  BY <1>3, <1>9, <3>1, <3>3
  <2>5. a \in Nat /\ p \in Nat  BY <1>3, <1>4, <1>9
  <2>6. a = skip + p  BY <2>3, <2>4, <2>5
  <2> QED  BY <1>4, <1>9, <2>6
<1> QED  BY <1>1, <1>4, <1>5, <1>7, <1>8, <1>9 DEF Stands

\* t is r with new at b: how the others compare with it.
LEMMA ComparesTo ==
  ASSUME NEW r, NEW t, NEW b, NEW new, Put(t, r, b, new), Ascends(t)
  PROVE  /\ b \in 1 .. Len(r) + 1 /\ new.key \in Nat /\ Len(r) \in Nat
         /\ \A q \in 1 .. Len(r) : /\ r[q].key \in Nat /\ r[q].key # new.key
                                   /\ r[q].key < new.key <=> q < b
<1>1. /\ t \in Seq(Docs) /\ r \in Seq(Docs) /\ Len(t) = Len(r) + 1
      /\ b \in 1 .. Len(t) /\ t[b] = new
  BY DEF Put
<1>2. PICK n \in Nat : n = Len(r) /\ Len(t) = n + 1 /\ b \in 1 .. n + 1  BY <1>1
<1>3. /\ \A m, k \in 1 .. n + 1 : m < k <=> t[m].key < t[k].key
      /\ \A m \in 1 .. n + 1 : t[m].key \in Nat
  BY <1>1, <1>2, KeysOf
<1>4. ASSUME NEW q \in 1 .. n
      PROVE  r[q].key \in Nat /\ r[q].key # new.key /\ (r[q].key < new.key <=> q < b)
  <2>1. CASE q < b
    <3>1. q \in 1 .. b - 1 /\ q \in 1 .. n + 1  BY <1>2, <2>1
    <3>2. r[q] = t[q]  BY <3>1 DEF Put
    <3>3. t[q].key < t[b].key  BY <1>2, <1>3, <2>1, <3>1
    <3> QED  BY <1>1, <1>2, <1>3, <2>1, <3>1, <3>2, <3>3
  <2>2. CASE ~ (q < b)
    <3>1. q \in b .. n /\ q + 1 \in 1 .. n + 1 /\ b < q + 1  BY <1>2, <2>2
    <3>2. r[q] = t[q + 1]  BY <1>2, <3>1 DEF Put
    <3>3. t[b].key < t[q + 1].key  BY <1>2, <1>3, <3>1
    <3> QED  BY <1>1, <1>2, <1>3, <2>2, <3>1, <3>2, <3>3
  <2> QED  BY <2>1, <2>2
<1>5. new.key \in Nat  BY <1>1, <1>2, <1>3
<1> QED  BY <1>2, <1>4, <1>5

\* What is between two places moves by one.
Shifted(s, a, t, b, n) ==
  /\ n \in Nat /\ Len(s) = n /\ Len(t) = n /\ a \in 1 .. n /\ b \in 1 .. n
  /\ a <= b => /\ \A m \in 1 .. a - 1 : t[m] = s[m]
               /\ \A m \in a .. b - 1 : t[m] = s[m + 1]
               /\ \A m \in b + 1 .. n : t[m] = s[m]
  /\ b <= a => /\ \A m \in 1 .. b - 1 : t[m] = s[m]
               /\ \A m \in b + 1 .. a : t[m] = s[m - 1]
               /\ \A m \in a + 1 .. n : t[m] = s[m]

LEMMA Shifts ==
  ASSUME NEW s, NEW a, NEW old, NEW t, NEW b, NEW new, Trade(s, a, old, t, b, new)
  PROVE  Shifted(s, a, t, b, Len(s)) /\ t[b] = new /\ s[a] = old
<1>0. PICK n, r : n = Len(s) /\ Put(s, r, a, old) /\ Put(t, r, b, new)  BY DEF Trade
<1>1. /\ n \in Nat /\ Len(t) = n /\ Len(r) = n - 1 /\ a \in 1 .. n /\ b \in 1 .. n
      /\ t[b] = new /\ s[a] = old
  BY <1>0 DEF Put
<1>2. /\ \A m \in 1 .. a - 1 : s[m] = r[m]
      /\ \A m \in 1 .. b - 1 : t[m] = r[m]
      /\ \A m \in a .. n - 1 : s[m + 1] = r[m]
      /\ \A m \in b .. n - 1 : t[m + 1] = r[m]
  BY <1>0, <1>1 DEF Put
<1>3. ASSUME NEW m \in 1 .. n, m > b PROVE t[m] = r[m - 1] /\ m - 1 \in b .. n - 1
  <2>1. m - 1 \in b .. n - 1 /\ (m - 1) + 1 = m  BY <1>1, <1>3
  <2> QED  BY <1>2, <2>1
<1>4. ASSUME NEW m \in 1 .. n, m > a PROVE s[m] = r[m - 1]
  <2>1. m - 1 \in a .. n - 1 /\ (m - 1) + 1 = m  BY <1>1, <1>4
  <2> QED  BY <1>2, <2>1
<1>5. ASSUME a <= b
      PROVE  /\ \A m \in 1 .. a - 1 : t[m] = s[m]
             /\ \A m \in a .. b - 1 : t[m] = s[m + 1]
             /\ \A m \in b + 1 .. n : t[m] = s[m]
  <2>1. \A m \in 1 .. a - 1 : t[m] = s[m]
    <3> TAKE m \in 1 .. a - 1
    <3>1. m \in 1 .. b - 1  BY <1>1, <1>5
    <3> QED  BY <1>2, <3>1
  <2>2. \A m \in a .. b - 1 : t[m] = s[m + 1]
    <3> TAKE m \in a .. b - 1
    <3>1. m \in 1 .. b - 1 /\ m \in a .. n - 1  BY <1>1
    <3> QED  BY <1>2, <3>1
  <2>3. \A m \in b + 1 .. n : t[m] = s[m]
    <3> TAKE m \in b + 1 .. n
    <3>1. m \in 1 .. n /\ m > b /\ m > a  BY <1>1, <1>5
    <3> QED  BY <1>3, <1>4, <3>1
  <2> QED  BY <2>1, <2>2, <2>3
<1>6. ASSUME b <= a
      PROVE  /\ \A m \in 1 .. b - 1 : t[m] = s[m]
             /\ \A m \in b + 1 .. a : t[m] = s[m - 1]
             /\ \A m \in a + 1 .. n : t[m] = s[m]
  <2>1. \A m \in 1 .. b - 1 : t[m] = s[m]
    <3> TAKE m \in 1 .. b - 1
    <3>1. m \in 1 .. a - 1  BY <1>1, <1>6
    <3> QED  BY <1>2, <3>1
  <2>2. \A m \in b + 1 .. a : t[m] = s[m - 1]
    <3> TAKE m \in b + 1 .. a
    <3>1. m \in 1 .. n /\ m > b /\ m - 1 \in 1 .. a - 1  BY <1>1
    <3> QED  BY <1>2, <1>3, <3>1
  <2>3. \A m \in a + 1 .. n : t[m] = s[m]
    <3> TAKE m \in a + 1 .. n
    <3>1. m \in 1 .. n /\ m > b /\ m > a  BY <1>1, <1>6
    <3> QED  BY <1>3, <1>4, <3>1
  <2> QED  BY <2>1, <2>2, <2>3
<1>7. Shifted(s, a, t, b, n)  BY <1>0, <1>1, <1>5, <1>6 DEF Shifted
<1> QED  BY <1>0, <1>1, <1>7

\* And the keys tell which way.
LEMMA MovedCompares ==
  ASSUME NEW r, NEW s, NEW a, NEW old, Put(s, r, a, old), Ascends(s),
         NEW t, NEW b, NEW new, Put(t, r, b, new), Ascends(t), NEW n, n = Len(s)
  PROVE  /\ old.key \in Nat /\ new.key \in Nat /\ n \in Nat /\ a \in 1 .. n /\ b \in 1 .. n
         /\ s[a] = old
         /\ old.key < new.key => a <= b
         /\ new.key < old.key => b <= a
         /\ new.key = old.key => a = b
         /\ \A m \in 1 .. n : m # a =>
              /\ s[m].key \in Nat /\ s[m].key # new.key
              /\ s[m].key < new.key <=> (IF m < a THEN m ELSE m - 1) < b
<1>1. /\ n \in Nat /\ Len(r) = n - 1 /\ a \in 1 .. n /\ b \in 1 .. n /\ s[a] = old
      /\ \A m \in 1 .. a - 1 : s[m] = r[m]
      /\ \A m \in a .. n - 1 : s[m + 1] = r[m]
  BY DEF Put
<1>2. /\ old.key \in Nat
      /\ \A q \in 1 .. n - 1 : /\ r[q].key \in Nat /\ r[q].key # old.key
                               /\ r[q].key < old.key <=> q < a
  BY <1>1, ComparesTo
<1>3. /\ new.key \in Nat
      /\ \A q \in 1 .. n - 1 : /\ r[q].key \in Nat /\ r[q].key # new.key
                               /\ r[q].key < new.key <=> q < b
  BY <1>1, ComparesTo
<1>4. ASSUME old.key <= new.key PROVE a <= b
  <2>1. ASSUME b < a PROVE FALSE
    <3>1. b \in 1 .. n - 1  BY <1>1, <2>1
    <3>2. r[b].key < old.key /\ ~ (r[b].key < new.key) /\ r[b].key \in Nat
      BY <1>1, <1>2, <1>3, <2>1, <3>1
    <3> QED  BY <1>2, <1>3, <1>4, <3>2
  <2> QED  BY <1>1, <2>1
<1>5. ASSUME new.key <= old.key PROVE b <= a
  <2>1. ASSUME a < b PROVE FALSE
    <3>1. a \in 1 .. n - 1  BY <1>1, <2>1
    <3>2. r[a].key < new.key /\ ~ (r[a].key < old.key) /\ r[a].key \in Nat
      BY <1>1, <1>2, <1>3, <2>1, <3>1
    <3> QED  BY <1>2, <1>3, <1>5, <3>2
  <2> QED  BY <1>1, <2>1
<1>6. ASSUME NEW m \in 1 .. n, m # a
      PROVE  /\ s[m].key \in Nat /\ s[m].key # new.key
             /\ s[m].key < new.key <=> (IF m < a THEN m ELSE m - 1) < b
  <2>1. CASE m < a
    <3>1. m \in 1 .. a - 1 /\ m \in 1 .. n - 1  BY <1>1, <2>1
    <3>2. s[m] = r[m]  BY <1>1, <3>1
    <3> QED  BY <1>3, <2>1, <3>1, <3>2
  <2>2. CASE ~ (m < a)
    <3>1. m - 1 \in a .. n - 1 /\ (m - 1) + 1 = m /\ m - 1 \in 1 .. n - 1  BY <1>1, <1>6, <2>2
    <3>2. s[m] = r[m - 1]  BY <1>1, <3>1
    <3> QED  BY <1>3, <2>2, <3>1, <3>2
  <2> QED  BY <2>1, <2>2
<1>7. /\ old.key < new.key => a <= b
      /\ new.key < old.key => b <= a
      /\ new.key = old.key => a = b
  BY <1>1, <1>2, <1>3, <1>4, <1>5
<1> QED  BY <1>1, <1>2, <1>3, <1>6, <1>7

\* A document whose key changes: where the node puts it.
LEMMA NewStands ==
  ASSUME skip \in Nat,
         NEW r, NEW s, NEW a, NEW old, Put(s, r, a, old), Ascends(s),
         NEW t, NEW b, NEW new, Put(t, r, b, new), Ascends(t),
         NEW c, IsPage(c, s), c # << >>, NEW p, p = RelPosition(c, new)
  PROVE  \/ p = Before /\ b <= skip + 1 /\ (a <= skip => b <= skip)
         \/ p = After /\ b >= skip + Len(c) /\ (a > skip + Len(c) => b > skip + Len(c))
         \/ /\ p \in 1 .. Len(c)
            /\ a < skip + p => p # 1 /\ b = skip + p - 1
            /\ a >= skip + p => b = skip + p
<1>1. /\ s \in Seq(Docs) /\ new \in Docs  BY DEF Put
<1>2. /\ Ascends(c) /\ c \in Seq(Docs)
      /\ \A m \in 1 .. Len(c) : skip + m \in 1 .. Len(s) /\ c[m] = s[skip + m]
  BY <1>1, PageAscends
<1>3. PICK l \in Nat : l = Len(c) /\ l # 0  BY <1>2
<1>4. PICK n \in Nat : n = Len(s)  BY <1>1
<1>5. /\ old.key \in Nat /\ new.key \in Nat /\ a \in 1 .. n /\ b \in 1 .. n
      /\ s[a] = old
      /\ old.key < new.key => a <= b
      /\ new.key < old.key => b <= a
      /\ new.key = old.key => a = b
  BY <1>4, MovedCompares
<1>6. \A m \in 1 .. n : m # a =>
        /\ s[m].key \in Nat /\ s[m].key # new.key
        /\ s[m].key < new.key <=> (IF m < a THEN m ELSE m - 1) < b
  BY <1>4, MovedCompares
<1>7. Stands(c, new, p)  BY <1>1, <1>2, RelPositionIs
<1>8. \A m \in 1 .. l : skip + m \in 1 .. n /\ c[m] = s[skip + m]  BY <1>2, <1>3, <1>4
<1>9. 1 \in 1 .. l /\ l \in 1 .. l /\ a \in Nat /\ b \in Nat  BY <1>3, <1>5
<1>10. ASSUME NEW M \in 1 .. n, new.key < s[M].key
       PROVE  /\ a < M => b <= M - 1
              /\ a >= M => b <= M \/ (a = M /\ b <= a)
  <2>1. CASE M = a  BY <1>5, <1>9, <1>10, <2>1
  <2>2. CASE M # a
    <3>1. ~ (s[M].key < new.key)  BY <1>5, <1>6, <1>10, <2>2
    <3>2. ~ ((IF M < a THEN M ELSE M - 1) < b)  BY <1>6, <2>2, <3>1
    <3> QED  BY <1>9, <2>2, <3>2
  <2> QED  BY <2>1, <2>2
<1>11. ASSUME NEW M \in 1 .. n, s[M].key < new.key
       PROVE  b >= M /\ (a > M => b > M)
  <2>1. CASE M = a  BY <1>5, <1>9, <1>11, <2>1
  <2>2. CASE M # a
    <3>1. (IF M < a THEN M ELSE M - 1) < b  BY <1>6, <1>11, <2>2
    <3> QED  BY <1>9, <2>2, <3>1
  <2> QED  BY <2>1, <2>2
<1>12. CASE p = Before /\ new.key < c[1].key
  <2>1. skip + 1 \in 1 .. n /\ new.key < s[skip + 1].key  BY <1>8, <1>9, <1>12
  <2>2. /\ a < skip + 1 => b <= skip + 1 - 1
        /\ a >= skip + 1 => b <= skip + 1 \/ (a = skip + 1 /\ b <= a)
    BY <1>10, <2>1
  <2> QED  BY <1>9, <1>12, <2>2
<1>13. CASE p = After /\ new.key > c[l].key
  <2>1. skip + l \in 1 .. n /\ c[l] = s[skip + l]  BY <1>8, <1>9
  <2>2. s[skip + l].key < new.key
    <3>1. s[skip + l] \in Docs  BY <1>1, <1>4, <2>1
    <3>2. s[skip + l].key \in Nat  BY <1>1, <1>4, <2>1, KeysOf
    <3> QED  BY <1>5, <1>13, <2>1, <3>2
  <2>3. b >= skip + l /\ (a > skip + l => b > skip + l)  BY <1>11, <2>1, <2>2
  <2> QED  BY <1>3, <1>13, <2>3
<1>14. CASE /\ p \in 1 .. l /\ c[1].key <= new.key /\ new.key <= c[p].key
            /\ \A j \in 1 .. p - 1 : c[j].key < new.key
  <2>1. PICK M \in 1 .. n : M = skip + p /\ c[p] = s[M]  BY <1>8, <1>14
  <2>2. p \in Nat /\ p # 0 /\ s[M].key \in Nat /\ new.key <= s[M].key
    BY <1>1, <1>3, <1>4, <1>14, <2>1, KeysOf
  <2>3. p # 1 => M - 1 \in 1 .. n /\ s[M - 1].key < new.key
    <3> SUFFICES ASSUME p # 1 PROVE M - 1 \in 1 .. n /\ s[M - 1].key < new.key
      OBVIOUS
    <3>1. p - 1 \in 1 .. l /\ p - 1 \in 1 .. p - 1 /\ skip + (p - 1) = M - 1
      BY <1>14, <2>1, <2>2, <1>3
    <3>2. c[p - 1].key < new.key  BY <1>14, <3>1
    <3>3. skip + (p - 1) \in 1 .. n /\ c[p - 1] = s[skip + (p - 1)]  BY <1>8, <3>1
    <3> QED  BY <3>1, <3>2, <3>3
  <2>4. p = 1 => a = M /\ b = M
    <3> SUFFICES ASSUME p = 1 PROVE a = M /\ b = M
      OBVIOUS
    <3>1. s[M].key = new.key  BY <1>5, <1>14, <2>1, <2>2
    <3>2. M = a  BY <1>6, <3>1
    <3> QED  BY <1>5, <3>1, <3>2
  <2>5. p # 1 => b >= M - 1 /\ (a > M - 1 => b > M - 1)  BY <1>11, <2>3
  <2>6. CASE new.key < s[M].key
    <3>1. /\ a < M => b <= M - 1
          /\ a >= M => b <= M \/ (a = M /\ b <= a)
      BY <1>10, <2>6
    <3>2. CASE p = 1  BY <1>9, <1>14, <2>1, <2>4, <3>2
    <3>3. CASE p # 1
      <4>1. M \in Nat  BY <1>4
      <4>2. a < M => b = M - 1  BY <1>9, <2>5, <3>1, <3>3, <4>1
      <4>3. a >= M => b = M  BY <1>9, <2>5, <3>1, <3>3, <4>1
      <4>4. /\ a < skip + p => p # 1 /\ b = skip + p - 1
            /\ a >= skip + p => b = skip + p
        BY <2>1, <2>2, <3>3, <4>1, <4>2, <4>3
      <4> QED  BY <1>3, <1>14, <4>4
    <3> QED  BY <3>2, <3>3
  <2>7. CASE ~ (new.key < s[M].key)
    <3>1. s[M].key = new.key  BY <1>5, <2>2, <2>7
    <3>2. M = a /\ a = b  BY <1>5, <1>6, <3>1
    <3> QED  BY <1>3, <1>9, <1>14, <2>1, <2>2, <3>2
  <2> QED  BY <2>6, <2>7
<1> QED  BY <1>2, <1>3, <1>7, <1>12, <1>13, <1>14 DEF Stands

\* A document that comes: where the node puts it.
LEMMA EntersAt ==
  ASSUME skip \in Nat, NEW s, NEW t, NEW b, NEW new, Put(t, s, b, new), Ascends(s), Ascends(t),
         NEW c, IsPage(c, s), c # << >>, NEW p, p = RelPosition(c, new)
  PROVE  \/ p = Before /\ b <= skip + 1
         \/ p = After /\ b > skip + Len(c)
         \/ p \in 1 .. Len(c) /\ b = skip + p
<1>1. /\ s \in Seq(Docs) /\ new \in Docs  BY DEF Put
<1>2. /\ Ascends(c) /\ c \in Seq(Docs)
      /\ \A m \in 1 .. Len(c) : skip + m \in 1 .. Len(s) /\ c[m] = s[skip + m]
  BY <1>1, PageAscends
<1>3. PICK l \in Nat : l = Len(c) /\ l # 0  BY <1>2
<1>4. PICK n \in Nat : n = Len(s)  BY <1>1
<1>5. /\ b \in 1 .. n + 1 /\ new.key \in Nat
      /\ \A q \in 1 .. n : /\ s[q].key \in Nat /\ s[q].key # new.key
                           /\ s[q].key < new.key <=> q < b
  BY <1>4, ComparesTo
<1>6. Stands(c, new, p)  BY <1>1, <1>2, RelPositionIs
<1>7. \A m \in 1 .. l : skip + m \in 1 .. n /\ c[m] = s[skip + m]  BY <1>2, <1>3, <1>4
<1>8. 1 \in 1 .. l /\ l \in 1 .. l /\ b \in Nat  BY <1>3, <1>4, <1>5
<1>9. CASE p = Before /\ new.key < c[1].key
  <2>1. skip + 1 \in 1 .. n /\ ~ (s[skip + 1].key < new.key)  BY <1>5, <1>7, <1>8, <1>9
  <2>2. ~ (skip + 1 < b)  BY <1>5, <2>1
  <2> QED  BY <1>8, <1>9, <2>2
<1>10. CASE p = After /\ new.key > c[l].key
  <2>1. skip + l \in 1 .. n /\ s[skip + l].key < new.key  BY <1>5, <1>7, <1>8, <1>10
  <2>2. skip + l < b  BY <1>5, <2>1
  <2> QED  BY <1>3, <1>8, <1>10, <2>2
<1>11. CASE /\ p \in 1 .. l /\ c[1].key <= new.key /\ new.key <= c[p].key
            /\ \A j \in 1 .. p - 1 : c[j].key < new.key
  <2>1. PICK M \in 1 .. n : M = skip + p /\ c[p] = s[M]  BY <1>7, <1>11
  <2>2. b <= M
    <3>1. ~ (s[M].key < new.key)  BY <1>5, <1>11, <2>1
    <3> QED  BY <1>5, <1>8, <2>1, <3>1
  <2>3. p # 1
    <3> SUFFICES ASSUME p = 1 PROVE FALSE
      OBVIOUS
    <3>1. s[M].key = new.key  BY <1>5, <1>11, <2>1
    <3> QED  BY <1>5, <3>1
  <2>4. /\ p - 1 \in 1 .. l /\ p - 1 \in 1 .. p - 1 /\ skip + (p - 1) = M - 1
    BY <1>3, <1>11, <2>1, <2>3
  <2>5. c[p - 1].key < new.key  BY <1>11, <2>4
  <2>6. M - 1 \in 1 .. n /\ c[p - 1] = s[M - 1]  BY <1>7, <2>4
  <2>7. M - 1 < b  BY <1>5, <2>5, <2>6
  <2>8. b = M  BY <1>8, <2>1, <2>2, <2>7
  <2> QED  BY <1>3, <1>11, <2>1, <2>8
<1> QED  BY <1>2, <1>3, <1>6, <1>9, <1>10, <1>11 DEF Stands

-----------------------------------------------------------------------------
(* Pages: what one write does to one                                       *)

\* Inserting first and then removing is removing first and then inserting.
LEMMA Turns ==
  ASSUME NEW more, NEW c, NEW q, NEW i, NEW j, NEW x, NEW y,
         Put(more, c, i, x), Put(more, q, j, y), i # j
  PROVE  /\ i > j => Trade(c, j, y, q, i - 1, x)
         /\ i < j => Trade(c, j - 1, y, q, i, x)
<1>1. PICK l \in Nat : /\ l = Len(c) /\ l = Len(q) /\ Len(more) = l + 1
                       /\ i \in 1 .. l + 1 /\ j \in 1 .. l + 1
  BY DEF Put
<1>2. /\ c \in Seq(Docs) /\ q \in Seq(Docs) /\ more[i] = x /\ more[j] = y /\ x \in Docs
      /\ \A m \in 1 .. i - 1 : more[m] = c[m]
      /\ \A m \in i .. l : more[m + 1] = c[m]
      /\ \A m \in 1 .. j - 1 : more[m] = q[m]
      /\ \A m \in j .. l : more[m + 1] = q[m]
  BY <1>1 DEF Put
<1>3. l # 0 /\ i \in Nat /\ j \in Nat  BY <1>1
<1>4. CASE i > j
  <2>1. j \in 1 .. l /\ i - 1 \in 1 .. l /\ i - 1 \in j .. l  BY <1>1, <1>3, <1>4
  <2>2. c[j] = y
    <3>1. j \in 1 .. i - 1  BY <2>1
    <3> QED  BY <1>2, <3>1
  <2>3. PICK p : Put(c, p, j, y)  BY <1>1, <1>2, <2>1, <2>2, RemovePuts
  <2>4. /\ p \in Seq(Docs) /\ Len(p) = l - 1
        /\ \A m \in 1 .. j - 1 : c[m] = p[m]
        /\ \A m \in j .. l - 1 : c[m + 1] = p[m]
    <3>1. Left(p, c, j, y, l)  BY <1>1, <2>3, PutLeft
    <3> QED  BY <3>1 DEF Left
  <2>5. q[i - 1] = x
    <3>1. i - 1 \in j .. l /\ (i - 1) + 1 = i  BY <2>1, <1>3
    <3> QED  BY <1>2, <3>1
  <2>6. ASSUME NEW m \in 1 .. (i - 1) - 1 PROVE q[m] = p[m]
    <3>1. m \in Nat /\ m \in 1 .. l - 1 /\ m \in 1 .. l  BY <1>1, <1>3
    <3>2. CASE m < j
      <4>1. m \in 1 .. j - 1 /\ m \in 1 .. i - 1  BY <1>3, <3>1, <3>2, <1>4
      <4> QED  BY <1>2, <2>4, <4>1
    <3>3. CASE ~ (m < j)
      <4>1. m \in j .. l /\ m \in j .. l - 1 /\ m + 1 \in 1 .. i - 1  BY <1>3, <3>1, <3>3, <2>6
      <4> QED  BY <1>2, <2>4, <4>1
    <3> QED  BY <3>2, <3>3
  <2>7. ASSUME NEW m \in i - 1 .. l - 1 PROVE q[m + 1] = p[m]
    <3>1. /\ m + 1 \in i .. l /\ m + 1 \in j .. l /\ m \in j .. l - 1
      BY <1>1, <1>3, <1>4
    <3>2. more[(m + 1) + 1] = c[m + 1] /\ more[(m + 1) + 1] = q[m + 1]  BY <1>2, <3>1
    <3> QED  BY <2>4, <3>1, <3>2
  <2>8. Len(q) = Len(p) + 1 /\ i - 1 \in 1 .. Len(q) /\ Len(p) = l - 1  BY <1>1, <2>1, <2>4
  <2>9. Put(q, p, i - 1, x)  BY <1>2, <2>4, <2>5, <2>6, <2>7, <2>8 DEF Put
  <2> QED  BY <1>3, <1>4, <2>3, <2>9 DEF Trade
<1>5. CASE i < j
  <2>1. i \in 1 .. l /\ j - 1 \in 1 .. l /\ j - 1 \in i .. l  BY <1>1, <1>3, <1>5
  <2>2. c[j - 1] = y
    <3>1. j - 1 \in i .. l /\ (j - 1) + 1 = j  BY <2>1, <1>3
    <3> QED  BY <1>2, <3>1
  <2>3. PICK p : Put(c, p, j - 1, y)  BY <1>1, <1>2, <2>1, <2>2, RemovePuts
  <2>4. /\ p \in Seq(Docs) /\ Len(p) = l - 1
        /\ \A m \in 1 .. (j - 1) - 1 : c[m] = p[m]
        /\ \A m \in j - 1 .. l - 1 : c[m + 1] = p[m]
    <3>1. Left(p, c, j - 1, y, l)  BY <1>1, <2>3, PutLeft
    <3> QED  BY <3>1 DEF Left
  <2>5. q[i] = x
    <3>1. i \in 1 .. j - 1  BY <2>1, <1>3, <1>5
    <3> QED  BY <1>2, <3>1
  <2>6. ASSUME NEW m \in 1 .. i - 1 PROVE q[m] = p[m]
    <3>1. m \in 1 .. (j - 1) - 1 /\ m \in 1 .. j - 1  BY <1>3, <1>5
    <3> QED  BY <1>2, <2>4, <3>1
  <2>7. ASSUME NEW m \in i .. l - 1 PROVE q[m + 1] = p[m]
    <3>1. m \in Nat /\ m \in i .. l  BY <1>1, <1>3
    <3>2. CASE m < j - 1
      <4>1. m + 1 \in 1 .. j - 1 /\ m \in 1 .. (j - 1) - 1  BY <1>3, <2>7, <3>1, <3>2, <1>1
      <4> QED  BY <1>2, <2>4, <3>1, <4>1
    <3>3. CASE ~ (m < j - 1)
      <4>1. m \in j - 1 .. l - 1 /\ m + 1 \in j .. l /\ m + 1 \in i .. l
        BY <1>1, <1>3, <1>5, <3>1, <3>3
      <4>2. more[(m + 1) + 1] = c[m + 1] /\ more[(m + 1) + 1] = q[m + 1]  BY <1>2, <4>1
      <4> QED  BY <2>4, <4>1, <4>2
    <3> QED  BY <3>2, <3>3
  <2>8. Len(q) = Len(p) + 1 /\ i \in 1 .. Len(q) /\ Len(p) = l - 1  BY <1>1, <2>1, <2>4
  <2>9. Put(q, p, i, x)  BY <1>2, <2>4, <2>5, <2>6, <2>7, <2>8 DEF Put
  <2> QED  BY <1>3, <1>5, <2>3, <2>9 DEF Trade
<1> QED  BY <1>3, <1>4, <1>5

\* A document moves from a to b: what leaves the page of length l, and what comes.
Slid(a, b, j, i, l) ==
  \/ /\ a <= b
     /\ a = skip + j \/ (j = 1 /\ a <= skip)
     /\ b = skip + i \/ (i = l /\ skip + l <= b)
  \/ /\ b <= a
     /\ a = skip + j \/ (j = l /\ skip + l <= a)
     /\ b = skip + i \/ (i = 1 /\ b <= skip + 1)

LEMMA Slides ==
  ASSUME skip \in Nat,
         NEW s, NEW a, NEW old, NEW t, NEW b, NEW new, Trade(s, a, old, t, b, new),
         NEW c, IsPage(c, s), NEW j, NEW y, NEW q, NEW i, NEW x, Trade(c, j, y, q, i, x),
         x = t[skip + i], Slid(a, b, j, i, Len(c))
  PROVE  IsPage(q, t)
<1>0. PICK l : l = Len(c)  OBVIOUS
<1>1. PICK n \in Nat : n = Len(s) /\ Shifted(s, a, t, b, n)
  <2>1. Shifted(s, a, t, b, Len(s))  BY Shifts
  <2> QED  BY <2>1 DEF Shifted
<1>2. /\ Len(t) = n /\ a \in 1 .. n /\ b \in 1 .. n
      /\ a <= b => /\ \A m \in 1 .. a - 1 : t[m] = s[m]
                   /\ \A m \in a .. b - 1 : t[m] = s[m + 1]
                   /\ \A m \in b + 1 .. n : t[m] = s[m]
      /\ b <= a => /\ \A m \in 1 .. b - 1 : t[m] = s[m]
                   /\ \A m \in b + 1 .. a : t[m] = s[m - 1]
                   /\ \A m \in a + 1 .. n : t[m] = s[m]
  BY <1>1 DEF Shifted
<1>3. \/ /\ a <= b
         /\ a = skip + j \/ (j = 1 /\ a <= skip)
         /\ b = skip + i \/ (i = l /\ skip + l <= b)
      \/ /\ b <= a
         /\ a = skip + j \/ (j = l /\ skip + l <= a)
         /\ b = skip + i \/ (i = 1 /\ b <= skip + 1)
  BY <1>0 DEF Slid
<1>4. /\ l \in Nat /\ Len(q) = l /\ j \in 1 .. l /\ i \in 1 .. l /\ q[i] = t[skip + i]
      /\ q \in Seq(Docs)
      /\ j <= i => /\ \A m \in 1 .. j - 1 : q[m] = c[m]
                   /\ \A m \in j .. i - 1 : q[m] = c[m + 1]
                   /\ \A m \in i + 1 .. l : q[m] = c[m]
      /\ i <= j => /\ \A m \in 1 .. i - 1 : q[m] = c[m]
                   /\ \A m \in i + 1 .. j : q[m] = c[m - 1]
                   /\ \A m \in j + 1 .. l : q[m] = c[m]
  <2>1. Shifted(c, j, q, i, Len(c)) /\ q[i] = x  BY Shifts
  <2>2. Shifted(c, j, q, i, l) /\ q \in Seq(Docs)  BY <1>0, <2>1 DEF Trade, Put
  <2> QED  BY <2>1, <2>2 DEF Shifted
<1>5. /\ l = PageLen(n) /\ \A m \in 1 .. l : c[m] = s[skip + m]
  BY <1>0, <1>1 DEF IsPage
<1>6. skip + l <= n  BY <1>4, <1>5, PageLenIs
<1>7. a \in Nat /\ b \in Nat /\ i \in Nat /\ j \in Nat /\ i # 0 /\ j # 0  BY <1>2, <1>4
<1>8. ASSUME NEW m \in 1 .. l PROVE q[m] = t[skip + m]
  <2>1. m \in Nat /\ skip + m \in 1 .. n /\ l \in Nat /\ i <= l /\ j <= l  BY <1>4, <1>6
  <2>2. CASE m = i  BY <1>4, <2>2
  <2>3. CASE /\ m # i /\ a <= b
             /\ a = skip + j \/ (j = 1 /\ a <= skip)
             /\ b = skip + i \/ (i = l /\ skip + l <= b)
    <3>1. j <= i  BY <1>4, <1>7, <2>3
    <3>2. CASE m < j
      <4>1. m \in 1 .. j - 1 /\ skip + m \in 1 .. a - 1  BY <1>7, <2>1, <2>3, <3>2
      <4> QED  BY <1>2, <1>4, <1>5, <2>3, <3>1, <4>1
    <3>3. CASE j <= m /\ m < i
      <4>1. /\ m \in j .. i - 1 /\ m + 1 \in 1 .. l
            /\ skip + m \in a .. b - 1 /\ skip + (m + 1) = (skip + m) + 1
        BY <1>7, <2>1, <2>3, <3>3
      <4>2. q[m] = c[m + 1] /\ t[skip + m] = s[(skip + m) + 1]  BY <1>2, <1>4, <2>3, <3>1, <4>1
      <4>3. c[m + 1] = s[skip + (m + 1)]  BY <1>5, <4>1
      <4> QED  BY <4>1, <4>2, <4>3
    <3>4. CASE i < m
      <4>1. m \in i + 1 .. l /\ skip + m \in b + 1 .. n  BY <1>4, <1>7, <2>1, <2>3, <3>4
      <4> QED  BY <1>2, <1>4, <1>5, <2>3, <3>1, <4>1
    <3> QED  BY <1>7, <2>1, <2>3, <3>2, <3>3, <3>4
  <2>4. CASE /\ m # i /\ b <= a
             /\ a = skip + j \/ (j = l /\ skip + l <= a)
             /\ b = skip + i \/ (i = 1 /\ b <= skip + 1)
    <3>1. i <= j  BY <1>4, <1>7, <2>4
    <3>2. CASE m < i
      <4>1. m \in 1 .. i - 1 /\ skip + m \in 1 .. b - 1  BY <1>7, <2>1, <2>4, <3>2
      <4> QED  BY <1>2, <1>4, <1>5, <2>4, <3>1, <4>1
    <3>3. CASE i < m /\ m <= j
      <4>1. /\ m \in i + 1 .. j /\ m - 1 \in 1 .. l
            /\ skip + m \in b + 1 .. a /\ skip + (m - 1) = (skip + m) - 1
        BY <1>7, <2>1, <2>4, <3>3
      <4>2. q[m] = c[m - 1] /\ t[skip + m] = s[(skip + m) - 1]  BY <1>2, <1>4, <2>4, <3>1, <4>1
      <4>3. c[m - 1] = s[skip + (m - 1)]  BY <1>5, <4>1
      <4> QED  BY <4>1, <4>2, <4>3
    <3>4. CASE j < m
      <4>1. m \in j + 1 .. l /\ skip + m \in a + 1 .. n  BY <1>4, <1>7, <2>1, <2>4, <3>4
      <4>2. q[m] = c[m]  BY <1>4, <2>4, <3>1, <4>1
      <4>3. c[m] = s[skip + m] /\ t[skip + m] = s[skip + m]  BY <1>2, <1>5, <2>4, <4>1
      <4> QED  BY <4>2, <4>3
    <3> QED  BY <1>7, <2>1, <2>4, <3>2, <3>3, <3>4
  <2> QED  BY <1>3, <2>2, <2>3, <2>4
<1> QED  BY <1>0, <1>1, <1>2, <1>4, <1>5, <1>8 DEF IsPage

LEMMA PageLenOf ==
  ASSUME skip \in Nat, NEW n \in Nat
  PROVE  /\ skip + Limit <= n => PageLen(n) = Limit
         /\ \A x \in 0 .. Limit : n = skip + x => PageLen(n) = x
<1>1. Limit \in Nat /\ Limit >= 2  BY Numbers
<1>2. CASE n <= skip  BY <1>1, <1>2 DEF PageLen
<1>3. CASE ~ (n <= skip)
  <2>1. PageLen(n) = IF Limit < n - skip THEN Limit ELSE n - skip  BY <1>3 DEF PageLen, Smaller
  <2> QED  BY <1>1, <1>3, <2>1
<1> QED  BY <1>2, <1>3

\* A document leaves: the page loses one, and gets the one that follows, if there is one.
LEMMA Lapses ==
  ASSUME skip \in Nat,
         NEW s, NEW t, NEW a, NEW old, Put(s, t, a, old),
         NEW c, IsPage(c, s), NEW p, NEW j, NEW y, Put(c, p, j, y),
         a = skip + j \/ (j = 1 /\ a <= skip)
  PROVE  /\ Len(t) < skip + Limit => IsPage(p, t)
         /\ skip + Limit <= Len(t)
            => Len(c) = Limit /\ \A q : Put(q, p, Len(c), t[skip + Limit]) => IsPage(q, t)
<1>1. PICK n \in Nat : n = Len(s) /\ Left(t, s, a, old, n)
  <2>1. Left(t, s, a, old, Len(s))  BY PutLeft
  <2> QED  BY <2>1 DEF Left
<1>2. PICK l \in Nat : l = Len(c) /\ Left(p, c, j, y, l)
  <2>1. Left(p, c, j, y, Len(c))  BY PutLeft
  <2> QED  BY <2>1 DEF Left
<1>3. /\ a \in 1 .. n /\ t \in Seq(Docs) /\ Len(t) = n - 1
      /\ \A m \in 1 .. a - 1 : s[m] = t[m]
      /\ \A m \in a .. n - 1 : s[m + 1] = t[m]
  BY <1>1 DEF Left
<1>4. /\ j \in 1 .. l /\ p \in Seq(Docs) /\ Len(p) = l - 1
      /\ \A m \in 1 .. j - 1 : c[m] = p[m]
      /\ \A m \in j .. l - 1 : c[m + 1] = p[m]
  BY <1>2 DEF Left
<1>5. l = PageLen(n) /\ \A m \in 1 .. l : c[m] = s[skip + m]  BY <1>1, <1>2 DEF IsPage
<1>6. /\ l \in 1 .. Limit /\ skip + l <= n /\ (l # Limit => n = skip + l)
      /\ l = Limit <=> skip + Limit <= n
  <2>1. /\ l \in 0 .. Limit /\ (l # 0 => skip + l <= n) /\ (l # 0 /\ l # Limit => n = skip + l)
        /\ l = Limit <=> skip + Limit <= n
    BY <1>5, PageLenIs
  <2> QED  BY <1>4, <2>1, Numbers
<1>7. a \in Nat /\ j \in Nat /\ Limit \in Nat /\ Limit >= 2  BY <1>3, <1>4, Numbers
<1>8. ASSUME NEW m \in 1 .. l - 1 PROVE p[m] = t[skip + m]
  <2>1. m \in Nat /\ m \in 1 .. l  BY <1>6, <1>7
  <2>2. CASE m < j
    <3>1. m \in 1 .. j - 1 /\ skip + m \in 1 .. a - 1  BY <1>7, <2>1, <2>2
    <3> QED  BY <1>3, <1>4, <1>5, <2>1, <3>1
  <2>3. CASE ~ (m < j)
    <3>1. /\ m \in j .. l - 1 /\ m + 1 \in 1 .. l /\ skip + m \in a .. n - 1
          /\ skip + (m + 1) = (skip + m) + 1
      BY <1>6, <1>7, <2>1, <2>3
    <3>2. p[m] = c[m + 1] /\ t[skip + m] = s[(skip + m) + 1]  BY <1>3, <1>4, <3>1
    <3>3. c[m + 1] = s[skip + (m + 1)]  BY <1>5, <3>1
    <3> QED  BY <3>1, <3>2, <3>3
  <2> QED  BY <2>2, <2>3
<1>9. n - 1 \in Nat  BY <1>6, <1>7
<1>10. ASSUME n - 1 < skip + Limit PROVE IsPage(p, t)
  <2>1. l - 1 \in 0 .. Limit /\ n - 1 = skip + (l - 1)  BY <1>6, <1>7, <1>10
  <2>2. PageLen(n - 1) = l - 1  BY <1>9, <2>1, PageLenOf
  <2> QED  BY <1>3, <1>4, <1>8, <2>2 DEF IsPage
<1>11. ASSUME skip + Limit <= n - 1
       PROVE  l = Limit /\ \A q : Put(q, p, l, t[skip + Limit]) => IsPage(q, t)
  <2>1. l = Limit /\ PageLen(n - 1) = l  BY <1>6, <1>7, <1>9, <1>11, PageLenOf
  <2> SUFFICES ASSUME NEW q, Put(q, p, l, t[skip + l]) PROVE IsPage(q, t)
    BY <2>1
  <2>2. Left(p, q, l, t[skip + l], Len(q))  BY PutLeft
  <2>3. Len(q) = l
    <3>1. Len(p) = Len(q) - 1 /\ Len(q) \in Nat  BY <2>2 DEF Left
    <3> QED  BY <1>4, <3>1
  <2>4. q \in Seq(Docs) /\ q[l] = t[skip + l] /\ \A m \in 1 .. l - 1 : q[m] = p[m]
    BY <2>2 DEF Left
  <2>5. \A m \in 1 .. l : m = l \/ m \in 1 .. l - 1  OBVIOUS
  <2>6. \A m \in 1 .. l : q[m] = t[skip + m]  BY <1>8, <2>4, <2>5
  <2> QED  BY <1>3, <2>1, <2>3, <2>4, <2>6 DEF IsPage
<1> QED  BY <1>2, <1>3, <1>10, <1>11, <1>7

\* A document enters: the page gets one, and loses its last if it was full.
LEMMA Grows ==
  ASSUME skip \in Nat,
         NEW s, NEW t, NEW b, NEW new, Put(t, s, b, new),
         NEW c, IsPage(c, s), NEW p,
         (Len(c) < Limit /\ p = c) \/ (Len(c) = Limit /\ \E y : Put(c, p, Len(c), y)),
         NEW q, NEW i, Put(q, p, i, t[skip + i]),
         b = skip + i \/ (i = 1 /\ b <= skip + 1), skip < Len(t)
  PROVE  IsPage(q, t)
<1>1. PICK n \in Nat : Len(t) = n /\ Left(s, t, b, new, n)
  <2>1. Left(s, t, b, new, Len(t))  BY PutLeft
  <2> QED  BY <2>1 DEF Left
<1>2. /\ b \in 1 .. n /\ s \in Seq(Docs) /\ Len(s) = n - 1 /\ n - 1 \in Nat
      /\ \A m \in 1 .. b - 1 : t[m] = s[m]
      /\ \A m \in b .. n - 1 : t[m + 1] = s[m]
  BY <1>1 DEF Left
<1>3. PICK l : l = Len(c)  OBVIOUS
<1>4. /\ c \in Seq(Docs) /\ l = PageLen(n - 1) /\ \A m \in 1 .. l : c[m] = s[skip + m]
  BY <1>2, <1>3 DEF IsPage
<1>5. /\ l \in 0 .. Limit /\ (l = 0 <=> n - 1 <= skip) /\ (l # 0 => skip + l <= n - 1)
      /\ (l # 0 /\ l # Limit => n - 1 = skip + l)
  <2>1. PICK w \in Nat : w = n - 1  BY <1>2
  <2>2. l = PageLen(w)  BY <1>4, <2>1
  <2>3. /\ l \in 0 .. Limit /\ (l = 0 <=> w <= skip) /\ (l # 0 => skip + l <= w)
        /\ (l # 0 /\ l # Limit => w = skip + l)
    <3>1. skip \in Nat /\ w \in Nat /\ l = PageLen(w)  BY <2>2
    <3> QED  BY ONLY <3>1, PageLenIs
  <2> QED  BY <2>1, <2>3
<1>6. Limit \in Nat /\ Limit >= 2 /\ l \in Nat /\ b \in Nat  BY <1>2, <1>5, Numbers
<1>7. PICK o \in Nat : /\ o = Len(p) /\ p \in Seq(Docs) /\ o <= l
                       /\ o + 1 = PageLen(n) /\ \A m \in 1 .. o : p[m] = s[skip + m]
  <2>1. CASE l < Limit /\ p = c
    <3>1. n = skip + (l + 1) /\ l + 1 \in 0 .. Limit  BY <1>1, <1>2, <1>5, <1>6, <2>1
    <3>2. PageLen(n) = l + 1  BY <3>1, PageLenOf
    <3>3. l = Len(p) /\ p \in Seq(Docs) /\ l <= l
      <4>1. l = Len(p)  BY <1>3, <2>1
      <4>2. p \in Seq(Docs)  BY <1>4, <2>1
      <4>3. l <= l  BY <1>6
      <4> QED  BY <4>1, <4>2, <4>3
    <3>4. l + 1 = PageLen(n) /\ \A m \in 1 .. l : p[m] = s[skip + m]  BY <1>4, <2>1, <3>2
    <3> QED  BY <1>6, <3>3, <3>4
  <2>2. CASE l = Limit /\ \E y : Put(c, p, l, y)
    <3>1. PICK y : Put(c, p, l, y)  BY <2>2
    <3>2. Left(p, c, l, y, l)  BY <1>3, <3>1, PutLeft
    <3>3. p \in Seq(Docs) /\ Len(p) = l - 1 /\ \A m \in 1 .. l - 1 : c[m] = p[m]  BY <3>2 DEF Left
    <3>4. skip + Limit <= n /\ l - 1 \in Nat /\ (l - 1) + 1 = l  BY <1>2, <1>5, <1>6, <2>2
    <3>5. PageLen(n) = l  BY <2>2, <3>4, PageLenOf
    <3>6. PICK o \in Nat : o = l - 1 /\ o + 1 = l /\ o <= l  BY <1>6, <3>4
    <3>7. o = Len(p) /\ o + 1 = PageLen(n) /\ \A m \in 1 .. o : c[m] = p[m]
      BY <3>3, <3>5, <3>6
    <3>8. \A m \in 1 .. o : m \in 1 .. l  BY <1>6, <3>6
    <3>9. \A m \in 1 .. o : p[m] = s[skip + m]  BY <1>4, <3>7, <3>8
    <3> QED  BY <3>3, <3>6, <3>7, <3>9
  <2> QED  BY <1>3, <2>1, <2>2
<1>8. Left(p, q, i, t[skip + i], o + 1)
  <2>1. Left(p, q, i, t[skip + i], Len(q))  BY PutLeft
  <2>2. Len(p) = Len(q) - 1 /\ Len(q) \in Nat  BY <2>1 DEF Left
  <2> QED  BY <1>7, <2>1, <2>2
<1>9. /\ Len(q) = o + 1 /\ q \in Seq(Docs) /\ i \in 1 .. o + 1 /\ q[i] = t[skip + i]
      /\ \A m \in 1 .. i - 1 : q[m] = p[m]
      /\ \A m \in i .. o : q[m + 1] = p[m]
  <2>1. (o + 1) - 1 = o  BY <1>7
  <2> QED  BY <1>8, <2>1 DEF Left
<1>10. skip + (o + 1) <= n
  <2>1. o + 1 # 0 => skip + (o + 1) <= n  BY <1>7, PageLenIs
  <2> QED  BY <1>7, <2>1
<1>11. ASSUME NEW m \in 1 .. o + 1 PROVE q[m] = t[skip + m]
  <2>1. m \in Nat /\ i \in Nat  BY <1>7, <1>9
  <2>2. CASE m < i
    <3>1. m \in 1 .. i - 1 /\ skip + m \in 1 .. b - 1 /\ m \in 1 .. o
      BY <1>6, <1>7, <1>9, <2>1, <2>2
    <3> QED  BY <1>2, <1>7, <1>9, <3>1
  <2>3. CASE m = i  BY <1>9, <2>3
  <2>4. CASE i < m
    <3>1. /\ m - 1 \in i .. o /\ m - 1 \in 1 .. o /\ skip + (m - 1) \in b .. n - 1
          /\ (m - 1) + 1 = m /\ (skip + (m - 1)) + 1 = skip + m
      BY <1>6, <1>7, <1>9, <1>10, <2>1, <2>4
    <3>2. q[(m - 1) + 1] = p[m - 1] /\ t[(skip + (m - 1)) + 1] = s[skip + (m - 1)]
      BY <1>2, <1>9, <3>1
    <3>3. p[m - 1] = s[skip + (m - 1)]  BY <1>7, <3>1
    <3> QED  BY <3>1, <3>2, <3>3
  <2> QED  BY <2>1, <2>2, <2>3, <2>4
<1> QED  BY <1>1, <1>7, <1>9, <1>11 DEF IsPage

\* No document twice.
Distinct(s) == \A m, n \in DOMAIN s : s[m].id = s[n].id => m = n

LEMMA SortedDistinct ==
  ASSUME NEW k \in KeyMaps
  PROVE  Distinct(Sorted(k))
<1> SUFFICES ASSUME NEW m \in DOMAIN Sorted(k), NEW n \in DOMAIN Sorted(k),
                    Sorted(k)[m].id = Sorted(k)[n].id
             PROVE  m = n
  BY DEF Distinct
<1>1. DOMAIN Sorted(k) = 1 .. Len(Sorted(k))  BY SortedIs
<1>2. PICK i \in Found(k) : PlaceOf(k, i) = m /\ Sorted(k)[m] = DocOf(k, i)  BY <1>1, SortedIs
<1>3. PICK j \in Found(k) : PlaceOf(k, j) = n /\ Sorted(k)[n] = DocOf(k, j)  BY <1>1, SortedIs
<1>4. i = j  BY <1>2, <1>3 DEF DocOf
<1> QED  BY <1>2, <1>3, <1>4

LEMMA PageDistinct ==
  ASSUME skip \in Nat, NEW s \in Seq(Docs), Distinct(s), NEW c, IsPage(c, s)
  PROVE  Distinct(c)
<1>1. PICK n \in Nat : n = Len(s) /\ DOMAIN s = 1 .. n  OBVIOUS
<1>2. PICK l : l = Len(c)  OBVIOUS
<1>3. /\ c \in Seq(Docs) /\ l = PageLen(n) /\ \A m \in 1 .. l : c[m] = s[skip + m]
  BY <1>1, <1>2 DEF IsPage
<1>4. l \in 0 .. Limit /\ (l # 0 => skip + l <= n)  BY <1>3, PageLenIs
<1>5. DOMAIN c = 1 .. l /\ Limit \in Nat
  <2>1. DOMAIN c = 1 .. Len(c)  BY <1>3
  <2> QED  BY <1>2, <2>1, Numbers
<1> SUFFICES ASSUME NEW m \in 1 .. l, NEW q \in 1 .. l, c[m].id = c[q].id PROVE m = q
  BY <1>5 DEF Distinct
<1>6. skip + m \in 1 .. n /\ skip + q \in 1 .. n /\ m \in Nat /\ q \in Nat  BY <1>4, <1>5
<1>7. c[m] = s[skip + m] /\ c[q] = s[skip + q]  BY <1>3
<1>8. skip + m = skip + q  BY <1>1, <1>6, <1>7 DEF Distinct
<1> QED  BY <1>6, <1>8

LEMMA PutApart ==
  ASSUME NEW p, NEW q, NEW at, NEW d, Put(q, p, at, d), Distinct(q)
  PROVE  d.id \notin IdsOf(p)
<1>1. PICK n \in Nat : n = Len(p) /\ DOMAIN p = 1 .. n /\ DOMAIN q = 1 .. n + 1
                       /\ at \in 1 .. n + 1 /\ q[at] = d
  BY DEF Put
<1>2. ASSUME NEW m \in 1 .. n, p[m].id = d.id PROVE FALSE
  <2>1. CASE m < at
    <3>1. m \in 1 .. at - 1 /\ m \in 1 .. n + 1  BY <1>1, <2>1
    <3>2. q[m] = p[m]  BY <3>1 DEF Put
    <3>3. m = at  BY <1>1, <1>2, <3>1, <3>2 DEF Distinct
    <3> QED  BY <1>1, <2>1, <3>3
  <2>2. CASE ~ (m < at)
    <3>1. m \in at .. n /\ m + 1 \in 1 .. n + 1 /\ m + 1 # at  BY <1>1, <2>2
    <3>2. q[m + 1] = p[m]  BY <1>1, <3>1 DEF Put
    <3>3. m + 1 = at  BY <1>1, <1>2, <3>1, <3>2 DEF Distinct
    <3> QED  BY <3>1, <3>3
  <2> QED  BY <2>1, <2>2
<1> QED  BY <1>1, <1>2 DEF IdsOf

-----------------------------------------------------------------------------
(* Pages: what a client hears                                              *)

LEMMA HearingSteps ==
  ASSUME NEW base, NEW S, NEW seq \in Seq(S)
  PROVE  \E v : /\ v[0] = base
                /\ \A k \in 1 .. Len(seq) : v[k] = Heard(v[k - 1], seq[k])
                /\ Hear(base, seq) = v[Len(seq)]
<1> DEFINE P(f) == f = [s \in SUBSET DOMAIN seq |->
                          IF s = {} THEN base ELSE Heard(f[s \ {LastOf(s)}], seq[LastOf(s)])]
<1>1. \A x, y : Op(Hearing, x, y) = Heard(x, y)  BY DEF Op, Hearing
<1>2. Len(seq) \in Nat /\ DOMAIN seq = 1 .. Len(seq)  OBVIOUS
<1>3. \A f : P(f) <=> Folding(Hearing, base, seq, DOMAIN seq, f)  BY <1>1 DEF Folding, Step
<1>4. \E f : P(f)
  <2>1. PICK f : Folding(Hearing, base, seq, 1 .. Len(seq), f)  BY <1>2, FoldingExists
  <2>2. P(f)
    <3> HIDE DEF P
    <3> QED  BY <1>2, <1>3, <2>1
  <2> HIDE DEF P
  <2> QED  BY <2>2
<1>5. Hear(base, seq) = (CHOOSE f : P(f))[DOMAIN seq]
  BY DEF Hear, Heard, FoldLeft, MapThenFoldSet, Max, LastOf
<1> HIDE DEF P
<1>6. Folded(Hearing, base, seq) = (CHOOSE f : P(f))[DOMAIN seq]
  <2>1. PICK f : f = CHOOSE g : P(g)  OBVIOUS
  <2> QED  BY <1>3 DEF Folded
<1>7. PICK v : /\ v[0] = base
               /\ \A k \in 1 .. Len(seq) : v[k] = Op(Hearing, v[k - 1], seq[k])
               /\ Folded(Hearing, base, seq) = v[Len(seq)]
  BY FoldLeftSteps
<1> QED  BY <1>1, <1>5, <1>6, <1>7

Said == [type : {"addDoc", "rmDoc", "txn"}, id : 0 .. NumDocs]

\* A client hears one message, or one after the other.
LEMMA HearIs ==
  ASSUME NEW ids, NEW x \in Said, NEW y \in Said
  PROVE  /\ Hear(ids, << >>) = ids
         /\ Hear(ids, <<x>>) = Heard(ids, x)
         /\ Hear(ids, <<x, y>>) = Heard(Heard(ids, x), y)
<1>1. Hear(ids, << >>) = ids
  <2>1. PICK m : m = << >>  OBVIOUS
  <2>2. m \in Seq(Said) /\ Len(m) = 0  BY <2>1
  <2>3. PICK v : /\ v[0] = ids /\ Hear(ids, m) = v[Len(m)]
    <3>1. m \in Seq(Said)  BY <2>2
    <3>2. \E v : /\ v[0] = ids
                 /\ \A k \in 1 .. Len(m) : v[k] = Heard(v[k - 1], m[k])
                 /\ Hear(ids, m) = v[Len(m)]
      BY ONLY <3>1, HearingSteps
    <3> QED  BY <3>2
  <2> QED  BY <2>1, <2>2, <2>3
<1>2. Hear(ids, <<x>>) = Heard(ids, x)
  <2>1. PICK m : m = <<x>>  OBVIOUS
  <2>2. m \in Seq(Said) /\ Len(m) = 1 /\ m[1] = x  BY <2>1
  <2>3. PICK v : /\ v[0] = ids /\ Hear(ids, m) = v[Len(m)]
                 /\ \A k \in 1 .. Len(m) : v[k] = Heard(v[k - 1], m[k])
    <3>1. m \in Seq(Said)  BY <2>2
    <3>2. \E v : /\ v[0] = ids
                 /\ \A k \in 1 .. Len(m) : v[k] = Heard(v[k - 1], m[k])
                 /\ Hear(ids, m) = v[Len(m)]
      BY ONLY <3>1, HearingSteps
    <3> QED  BY ONLY <3>2
  <2>4. v[1] = Heard(v[1 - 1], m[1])  BY <2>2, <2>3
  <2> QED  BY <2>1, <2>2, <2>3, <2>4
<1>3. Hear(ids, <<x, y>>) = Heard(Heard(ids, x), y)
  <2>1. PICK m : m = <<x, y>>  OBVIOUS
  <2>2. m \in Seq(Said) /\ Len(m) = 2 /\ m[1] = x /\ m[2] = y  BY <2>1
  <2>3. PICK v : /\ v[0] = ids /\ Hear(ids, m) = v[Len(m)]
                 /\ \A k \in 1 .. Len(m) : v[k] = Heard(v[k - 1], m[k])
    <3>1. m \in Seq(Said)  BY <2>2
    <3>2. \E v : /\ v[0] = ids
                 /\ \A k \in 1 .. Len(m) : v[k] = Heard(v[k - 1], m[k])
                 /\ Hear(ids, m) = v[Len(m)]
      BY ONLY <3>1, HearingSteps
    <3> QED  BY ONLY <3>2
  <2>4. v[1] = Heard(v[1 - 1], m[1]) /\ v[2] = Heard(v[2 - 1], m[2])  BY <2>2, <2>3
  <2> QED  BY <2>1, <2>2, <2>3, <2>4
<1> QED  BY <1>1, <1>2, <1>3

\* Messages about documents.
LEMMA SaidIs ==
  ASSUME NEW d \in Docs, NEW ids
  PROVE  /\ d # Nothing /\ Add(d) \in Said /\ Rm(d) \in Said /\ Txn(d) \in Said
         /\ Heard(ids, Add(d)) = ids \cup {d.id}
         /\ Heard(ids, Rm(d)) = ids \ {d.id}
         /\ Heard(ids, Txn(d)) = ids
<1>1. d.id \in 0 .. NumDocs /\ d.id # Out /\ d # Nothing
  <2>1. d.id \in DocIds  BY DEF Docs
  <2> QED  BY <2>1, Numbers, NamesAssumption DEF DocIds, Out
<1>2. /\ Add(d) = [type |-> "addDoc", id |-> d.id]
      /\ Rm(d) = [type |-> "rmDoc", id |-> d.id]
      /\ Txn(d) = [type |-> "txn", id |-> d.id]
  BY <1>1 DEF Add, Rm, Txn
<1>3. Add(d) \in Said /\ Rm(d) \in Said /\ Txn(d) \in Said  BY <1>1, <1>2 DEF Said
<1>4. {d.id} \ {Out} = {d.id}  BY <1>1
<1>5. Heard(ids, Add(d)) = ids \cup {d.id}  BY <1>2, <1>4 DEF Heard
<1>6. Heard(ids, Rm(d)) = ids \ {d.id}  BY <1>2 DEF Heard
<1>7. Heard(ids, Txn(d)) = ids  BY <1>2 DEF Heard
<1> QED  BY <1>1, <1>3, <1>5, <1>6, <1>7

\* What a client has that had the one list and hears that y is out of it and x in.
Swapped(c, q, x, y) ==
  /\ Hear(IdsOf(c), <<Rm(y), Add(x)>>) = IdsOf(q)
  /\ x.id # y.id => Hear(IdsOf(c), <<Add(x), Rm(y)>>) = IdsOf(q)
  /\ x.id = y.id => Hear(IdsOf(c), <<Txn(x)>>) = IdsOf(q)
  /\ x.id \in IdsOf(c) => x.id = y.id

LEMMA SwapHeard ==
  ASSUME NEW c, NEW j, NEW y, NEW q, NEW i, NEW x, Trade(c, j, y, q, i, x),
         Distinct(c), Distinct(q)
  PROVE  Swapped(c, q, x, y)
<1>0. PICK p : Put(c, p, j, y) /\ Put(q, p, i, x)  BY DEF Trade
<1>1. /\ IdsOf(c) = IdsOf(p) \cup {y.id} /\ y.id \notin IdsOf(p)
      /\ IdsOf(q) = IdsOf(p) \cup {x.id} /\ x.id \notin IdsOf(p)
  BY <1>0, PutIds, PutApart
<1>2. x \in Docs /\ y \in Docs  BY <1>0 DEF Put
<1>3. PICK C, Q, P : C = IdsOf(c) /\ Q = IdsOf(q) /\ P = IdsOf(p)  OBVIOUS
<1>4. PICK a, g, w : a = Add(x) /\ g = Rm(y) /\ w = Txn(x)  OBVIOUS
<1>5. /\ a \in Said /\ g \in Said /\ w \in Said
      /\ \A ids : /\ Heard(ids, a) = ids \cup {x.id} /\ Heard(ids, g) = ids \ {y.id}
                  /\ Heard(ids, w) = ids
  BY <1>2, <1>4, SaidIs
<1>6. Hear(C, <<g, a>>) = (C \ {y.id}) \cup {x.id}
  <2>1. Hear(C, <<g, a>>) = Heard(Heard(C, g), a)
    <3>1. g \in Said /\ a \in Said  BY <1>5
    <3> QED  BY ONLY <3>1, HearIs
  <2> QED  BY <1>5, <2>1
<1>7. Hear(C, <<a, g>>) = (C \cup {x.id}) \ {y.id}
  <2>1. Hear(C, <<a, g>>) = Heard(Heard(C, a), g)
    <3>1. g \in Said /\ a \in Said  BY <1>5
    <3> QED  BY ONLY <3>1, HearIs
  <2> QED  BY <1>5, <2>1
<1>8. Hear(C, <<w>>) = C
  <2>1. Hear(C, <<w>>) = Heard(C, w)  BY <1>5, HearIs
  <2> QED  BY <1>5, <2>1
<1>9. C = P \cup {y.id} /\ y.id \notin P /\ Q = P \cup {x.id} /\ x.id \notin P  BY <1>1, <1>3
<1>10. /\ (C \ {y.id}) \cup {x.id} = Q
       /\ x.id # y.id => (C \cup {x.id}) \ {y.id} = Q
       /\ x.id = y.id => C = Q
       /\ x.id \in C => x.id = y.id
  BY <1>9
<1>11. /\ Hear(C, <<g, a>>) = Q
       /\ x.id # y.id => Hear(C, <<a, g>>) = Q
       /\ x.id = y.id => Hear(C, <<w>>) = Q
       /\ x.id \in C => x.id = y.id
  BY <1>6, <1>7, <1>8, <1>10
<1> QED  BY <1>3, <1>4, <1>11 DEF Swapped

LEMMA Pair ==
  ASSUME NEW x \in Said, NEW y \in Said
  PROVE  Append(<<x>>, y) = <<x, y>>
<1>1. PICK o : o = <<x>>  OBVIOUS
<1>2. o \in Seq(Said) /\ Len(o) = 1 /\ o[1] = x  BY <1>1
<1>3. PICK u, w : u = Append(o, y) /\ w = <<x, y>>  OBVIOUS
<1>4. u \in Seq(Said) /\ Len(u) = 2 /\ u[1] = x /\ u[2] = y
  <2>1. x \in Said /\ y \in Said  OBVIOUS
  <2>2. /\ u \in Seq(Said) /\ Len(u) = Len(o) + 1
        /\ \A i \in 1 .. Len(o) : u[i] = o[i]
        /\ u[Len(o) + 1] = y
    BY <1>2, <1>3, <2>1, AppendProperties
  <2>3. 1 \in 1 .. Len(o) /\ Len(o) + 1 = 2  BY <1>2
  <2> QED  BY <1>2, <2>2, <2>3
<1>5. w \in Seq(Said) /\ Len(w) = 2 /\ w[1] = x /\ w[2] = y
  <2>1. x \in Said /\ y \in Said  OBVIOUS
  <2>2. Len(w) = 2 /\ w[1] = x /\ w[2] = y  BY ONLY <1>3
  <2>3. w \in Seq(Said)  BY ONLY <1>3, <2>1
  <2> QED  BY ONLY <2>2, <2>3
<1>6. \A m \in 1 .. Len(u) : u[m] = w[m]
  <2>1. \A m \in 1 .. 2 : m = 1 \/ m = 2  OBVIOUS
  <2> QED  BY <1>4, <1>5, <2>1
<1>7. u = w  BY <1>4, <1>5, <1>6
<1> QED  BY <1>1, <1>3, <1>7

-----------------------------------------------------------------------------
(* Pages: what the node makes of a write                                   *)

\* What the node has made of a write is right: its cache is the page that there is now,
\* and who had the page as it was and hears what it says has this one.
Kept(out, c, t) == IsPage(out.cache, t) /\ Hear(IdsOf(c), out.msgs) = IdsOf(out.cache)

\* Places in a cache are none of the special positions.
LEMMA Types ==
  /\ FromType(Before) = "prior" /\ FromType(After) = "later" /\ FromType(Null) = "curr"
  /\ Before # After /\ Null # After /\ Null # Before
  /\ \A i \in 1 .. Limit : /\ FromType(i) = "curr" /\ Index(i) = i
                           /\ i # Before /\ i # After /\ i # Null /\ i # Undefined
<1>1. /\ Before # After /\ Null # After /\ Null # Before
      /\ \A i \in 1 .. Limit : i # Before /\ i # After /\ i # Null /\ i # Undefined
  BY Numbers DEF Before, After, Null, Undefined
<1>2. \A i \in 1 .. Limit : Index(i) = i  BY <1>1 DEF Index
<1> QED  BY <1>1, <1>2 DEF FromType

LEMMA ToTypeIs ==
  ASSUME NEW c, NEW from, NEW to
  PROVE  /\ from # Before => ToType(c, from, to) = FromType(to)
         /\ to # After => ToType(c, from, to) = FromType(to)
         /\ from = Before /\ to = After
            => ToType(c, from, to) = IF Len(c) < Limit THEN "curr" ELSE "later"
<1> QED  BY Types DEF ToType

\* What a write ends in, but for whose objects go into the cache.
Ends(out, c, m, h) == out.cache = c /\ out.msgs = m /\ out.tracks = h

LEMMA EndsIs ==
  ASSUME NEW c, NEW m, NEW h, NEW u
  PROVE  Ends(Outcome(c, m, h, u), c, m, h)
<1> QED  BY DEF Outcome, Ends

\* What becomes of it, from where it was and where it is.
MovesTo(out, c, new, from, to, f, g, first, second, rf) ==
  /\ f = "prior" /\ g = "prior" => out = Unmoved(c, TRUE)
  /\ f = "prior" /\ g = "curr"
     => LET more == With(c, to, new)
        IN Ends(out, Tail(more), <<Rm(Head(more)), Add(new)>>, TRUE)
  /\ f = "prior" /\ g = "later"
     => LET more == Refilled(c, rf)
        IN Ends(out, Tail(more), Append(RefillMsgs(rf), Rm(Head(more))), rf.sane)
  /\ f = "curr" /\ g = "prior"
     => IF ~ (second = At(c, 1)) THEN out = Unmoved(c, FALSE)
        ELSE Ends(out, <<first>> \o Without(c, from),
                           IF \E i \in DOMAIN c : c[i].id = first.id THEN <<Txn(new)>>
                           ELSE <<Rm(new), Add(first)>>, TRUE)
  /\ f = "curr" /\ g = "curr"
     => Ends(out, IF from < to THEN Without(With(c, to, new), from)
                      ELSE With(Without(c, from), to, new),
                      <<Txn(new)>>, c # << >>)
  /\ f = "curr" /\ g = "later"
     => Ends(out, Without(Refilled(c, rf), from), Append(RefillMsgs(rf), Rm(new)),
                      rf.sane /\ rf.doc.id # new.id)
  /\ f = "later" /\ g = "prior"
     => LET more == IF second = At(c, 1) THEN <<first>> \o c ELSE c
        IN Ends(out, Front(more),
                         Append(IF second = At(c, 1) THEN <<Add(first)>> ELSE << >>,
                                Rm(Last(more))),
                         second = At(c, 1))
  /\ f = "later" /\ g = "curr"
     => LET more == With(c, to, new)
        IN Ends(out, Front(more), <<Add(new), Rm(Last(more))>>, TRUE)
  /\ f = "later" /\ g = "later" => out = Unmoved(c, TRUE)

LEMMA MovesIs ==
  ASSUME NEW c, NEW k, NEW old, NEW new
  PROVE  LET from == RelPosition(c, old)
             to == RelPosition(c, new)
         IN MovesTo(Moves(c, k, old, new), c, new, from, to, FromType(from), ToType(c, from, to),
                    At(Slice(k, 0, 2), 1), At(Slice(k, 0, 2), 2), Refill(c, k))
<1> QED  BY EndsIs DEF Moves, MovesTo

\* What is on one side of the page stays there: the page stays.
LEMMA Stays ==
  ASSUME skip \in Nat,
         NEW s, NEW a, NEW old, NEW t, NEW b, NEW new, Trade(s, a, old, t, b, new),
         NEW c, IsPage(c, s),
         (a <= skip /\ b <= skip) \/ (a > skip + Len(c) /\ b > skip + Len(c))
  PROVE  IsPage(c, t)
<1>1. PICK n \in Nat : n = Len(s) /\ Shifted(s, a, t, b, n)
  <2>1. Shifted(s, a, t, b, Len(s))  BY Shifts
  <2> QED  BY <2>1 DEF Shifted
<1>2. /\ Len(t) = n /\ a \in 1 .. n /\ b \in 1 .. n
      /\ a <= b => /\ \A m \in 1 .. a - 1 : t[m] = s[m]
                   /\ \A m \in b + 1 .. n : t[m] = s[m]
      /\ b <= a => /\ \A m \in 1 .. b - 1 : t[m] = s[m]
                   /\ \A m \in a + 1 .. n : t[m] = s[m]
  BY <1>1 DEF Shifted
<1>3. PICK l : l = Len(c)  OBVIOUS
<1>4. /\ c \in Seq(Docs) /\ l = PageLen(n) /\ \A m \in 1 .. l : c[m] = s[skip + m]
  BY <1>1, <1>3 DEF IsPage
<1>5. l \in 0 .. Limit /\ (l # 0 => skip + l <= n)  BY <1>4, PageLenIs
<1>6. l \in Nat /\ a \in Nat /\ b \in Nat  BY <1>2, <1>5, Numbers
<1>7. ASSUME NEW m \in 1 .. l PROVE t[skip + m] = s[skip + m]
  <2>1. m \in Nat /\ skip + m \in 1 .. n  BY <1>1, <1>5, <1>6
  <2>2. CASE a <= skip /\ b <= skip
    <3>1. skip + m \in a + 1 .. n /\ skip + m \in b + 1 .. n  BY <1>6, <2>1, <2>2
    <3> QED  BY <1>2, <1>6, <3>1
  <2>3. CASE a > skip + l /\ b > skip + l
    <3>1. skip + m \in 1 .. a - 1 /\ skip + m \in 1 .. b - 1  BY <1>6, <2>1, <2>3
    <3> QED  BY <1>2, <1>6, <3>1
  <2> QED  BY <1>3, <2>2, <2>3
<1> QED  BY <1>2, <1>3, <1>4, <1>7 DEF IsPage

\* One for another.
LEMMA Swaps ==
  ASSUME skip \in Nat,
         NEW s, NEW a, NEW old, NEW t, NEW b, NEW new, Trade(s, a, old, t, b, new),
         Distinct(s), Distinct(t),
         NEW c, IsPage(c, s), NEW j, NEW y, NEW q, NEW i, NEW x, Trade(c, j, y, q, i, x),
         x = t[skip + i], Slid(a, b, j, i, Len(c))
  PROVE  IsPage(q, t) /\ Swapped(c, q, x, y)
<1>1. s \in Seq(Docs) /\ t \in Seq(Docs)  BY DEF Trade, Put
<1>2. IsPage(q, t)  BY Slides
<1>3. Distinct(c) /\ Distinct(q)  BY <1>1, <1>2, PageDistinct
<1> QED  BY <1>2, <1>3, SwapHeard

\* The document passed before, and passes now.
LEMMA MovesKept ==
  ASSUME skip \in Nat, NEW k \in KeyMaps, NEW t, t = Sorted(k),
         NEW r, NEW s, NEW a, NEW old, Put(s, r, a, old), Ascends(s), Distinct(s),
         NEW b, NEW new, Put(t, r, b, new), Ascends(t), Distinct(t), old.id = new.id,
         NEW c, IsPage(c, s), NEW out, out = Moves(c, k, old, new), out.tracks
  PROVE  Kept(out, c, t)
<1>1. PICK from, to : from = RelPosition(c, old) /\ to = RelPosition(c, new)  OBVIOUS
<1>2. PICK rf : rf = Refill(c, k)  OBVIOUS
<1>3. PICK first, second : first = At(Slice(k, 0, 2), 1) /\ second = At(Slice(k, 0, 2), 2)  OBVIOUS
<1>4. PICK f, g : f = FromType(from) /\ g = ToType(c, from, to)  OBVIOUS
<1>0. /\ MovesTo(out, c, new, from, to, f, g, first, second, rf) /\ Trade(s, a, old, t, b, new)
  BY <1>1, <1>2, <1>3, <1>4, MovesIs DEF Trade
<1>5. c # << >>
  <2> SUFFICES ASSUME c = << >> PROVE FALSE
    OBVIOUS
  <2>1. from = Null /\ to = Null  BY <1>1 DEF RelPosition
  <2>2. f = "curr" /\ g = "curr"  BY <1>4, <2>1, Types, ToTypeIs
  <2>3. Ends(out, IF from < to THEN Without(With(c, to, new), from)
                      ELSE With(Without(c, from), to, new), <<Txn(new)>>, c # << >>)
    BY <1>0, <2>2 DEF MovesTo
  <2>4. out.tracks = FALSE
    <3>1. PICK e, h : h = (c # << >>) /\ Ends(out, e, <<Txn(new)>>, h)  BY <2>3
    <3>2. h = FALSE  BY <3>1
    <3> QED  BY <3>1, <3>2 DEF Outcome, Ends
  <2> QED  BY <2>4
<1>6. PICK n \in Nat : /\ n = Len(s) /\ n = Len(t) /\ a \in 1 .. n /\ b \in 1 .. n
                       /\ Shifted(s, a, t, b, n) /\ t[b] = new /\ s[a] = old
  <2>1. Shifted(s, a, t, b, Len(s)) /\ t[b] = new /\ s[a] = old  BY <1>0, Shifts
  <2> QED  BY <2>1 DEF Shifted
<1>7. /\ c \in Seq(Docs) /\ s \in Seq(Docs) /\ t \in Seq(Docs) /\ old \in Docs /\ new \in Docs
      /\ \A m \in 1 .. n : t[m] \in Docs
  <2>1. c \in Seq(Docs) /\ s \in Seq(Docs) /\ t \in Seq(Docs) /\ old \in Docs /\ new \in Docs
    BY DEF Put, IsPage
  <2> QED  BY <1>6, <2>1, KeysOf
<1>8. PICK l \in Nat : l = Len(c) /\ l # 0  BY <1>5, <1>7
<1>9. /\ l \in 1 .. Limit /\ skip + l <= n /\ (l # Limit => n = skip + l)
      /\ l = Limit <=> skip + Limit <= n
  <2>1. l = PageLen(n)  BY <1>6, <1>8 DEF IsPage
  <2>2. /\ l \in 0 .. Limit /\ (l # 0 => skip + l <= n) /\ (l # 0 /\ l # Limit => n = skip + l)
        /\ l = Limit <=> skip + Limit <= n
    <3>1. skip \in Nat /\ n \in Nat /\ l = PageLen(n)  BY <2>1
    <3> QED  BY ONLY <3>1, PageLenIs
  <2> QED  BY <1>8, <2>2, Numbers
<1>10. Limit \in Nat /\ Limit >= 2 /\ a \in Nat /\ b \in Nat  BY <1>6, Numbers
<1>11. \/ from = Before /\ a <= skip
       \/ from = After /\ a > skip + l
       \/ from \in 1 .. l /\ a = skip + from
  <2>1. from = RelPosition(c, s[a])  BY <1>1, <1>6
  <2>2. \/ from = Before /\ a <= skip
        \/ from = After /\ a > skip + Len(c)
        \/ from \in 1 .. Len(c) /\ a = skip + from
    <3>1. a \in 1 .. Len(s)  BY <1>6
    <3> QED  BY <1>5, <1>7, <2>1, <3>1, OldStands
  <2> QED  BY <1>8, <2>2
<1>12. \/ to = Before /\ b <= skip + 1 /\ (a <= skip => b <= skip)
       \/ to = After /\ b >= skip + l /\ (a > skip + l => b > skip + l)
       \/ /\ to \in 1 .. l
          /\ a < skip + to => to # 1 /\ b = skip + to - 1
          /\ a >= skip + to => b = skip + to
  BY <1>1, <1>5, <1>8, NewStands
<1>13. /\ from \in 1 .. l => f = "curr" /\ Index(from) = from /\ from # Before /\ from # After
       /\ to \in 1 .. l => FromType(to) = "curr" /\ Index(to) = to /\ to # Before /\ to # After
       /\ from = Before => f = "prior"
       /\ from = After => f = "later"
       /\ to = Before => g = "prior"
       /\ to \in 1 .. l => g = "curr"
       /\ to = After /\ from # Before => g = "later"
       /\ to = After /\ from = Before => g = IF l < Limit THEN "curr" ELSE "later"
  <2>1. \A i \in 1 .. l : i \in 1 .. Limit  BY <1>8, <1>9, <1>10
  <2> QED  BY <1>4, <1>8, <2>1, Types, ToTypeIs
<1>14. \A m \in 1 .. l : c[m] = s[skip + m] /\ skip + m \in 1 .. n /\ c[m] \in Docs
  <2>1. \A m \in 1 .. l : c[m] = s[skip + m]  BY <1>8 DEF IsPage
  <2>2. \A m \in 1 .. l : skip + m \in 1 .. n  BY <1>8, <1>9
  <2> QED  BY <1>7, <1>8, <2>1, <2>2
<1>15. first = t[skip + 1] /\ first \in Docs
  <2>1. skip + 1 <= n /\ skip + 1 \in 1 .. n  BY <1>9, <1>6, <1>10
  <2> QED  BY <1>3, <1>6, <1>7, <2>1, FrontSlice
<1>16. rf.sane => l = Limit /\ rf.doc = t[skip + l] /\ rf.doc \in Docs
  <2>1. /\ rf.there <=> skip + Limit <= n
        /\ rf.there => rf.doc = t[skip + Limit] /\ rf.doc \in Docs
        /\ rf.sane => rf.there
    BY <1>2, <1>6, <1>7, RefillIs
  <2> QED  BY <1>9, <2>1
<1>17. \A m, o \in 1 .. n : /\ t[m].id = t[o].id => m = o
                            /\ s[m].id = s[o].id => m = o
  <2>1. DOMAIN t = 1 .. n /\ DOMAIN s = 1 .. n
    <3>1. DOMAIN t = 1 .. Len(t) /\ DOMAIN s = 1 .. Len(s)  BY <1>7
    <3> QED  BY <1>6, <3>1
  <2> QED  BY <2>1 DEF Distinct
<1>18. CASE (f = "prior" /\ g = "prior") \/ (f = "later" /\ g = "later")
  <2>1. out = Unmoved(c, TRUE)  BY <1>0, <1>18 DEF MovesTo
  <2>2. (a <= skip /\ b <= skip) \/ (a > skip + l /\ b > skip + l)
    BY <1>9, <1>10, <1>11, <1>12, <1>13, <1>18
  <2>3. IsPage(c, t)  BY <1>0, <1>8, <2>2, Stays
  <2>4. out.cache = c /\ out.msgs = << >>  BY <2>1 DEF Unmoved, Outcome, Ends
  <2>5. Hear(IdsOf(c), << >>) = IdsOf(c)
    <3>1. Rm(new) \in Said  BY <1>7, SaidIs
    <3> QED  BY <3>1, HearIs
  <2> QED  BY <2>3, <2>4, <2>5 DEF Kept
<1>19. CASE f = "prior" /\ g = "curr"
  <2>1. PICK more, q, y : more = With(c, to, new) /\ q = Tail(more) /\ y = Head(more)  OBVIOUS
  <2>2. out.cache = q /\ out.msgs = <<Rm(y), Add(new)>>
    <3>1. Ends(out, q, <<Rm(y), Add(new)>>, TRUE)
      BY <1>0, <1>19, <2>1 DEF MovesTo
    <3> QED  BY <3>1 DEF Outcome, Ends
  <2>3. PICK i : /\ i \in 1 .. l /\ b = skip + i /\ Put(more, c, i + 1, new)
    <3>1. from = Before /\ a <= skip  BY <1>11, <1>13, <1>19
    <3>2. CASE to \in 1 .. l
      <4>1. to # 1 /\ b = skip + to - 1 /\ to \in Nat
        BY <1>8, <1>10, <1>12, <1>13, <3>1, <3>2, Types
      <4>2. more = InsertAt(c, to, new)  BY <1>13, <2>1, <3>2 DEF With
      <4>3. to \in 1 .. l + 1 /\ to - 1 \in 1 .. l /\ (to - 1) + 1 = to /\ b = skip + (to - 1)
        BY <3>2, <4>1, <1>8
      <4>4. Put(more, c, to, new)  BY <1>7, <1>8, <4>2, <4>3, InsertPuts
      <4> QED  BY <4>3, <4>4
    <3>3. CASE to = After
      <4>1. l # Limit  BY <1>9, <1>10, <1>13, <1>19, <3>1, <3>3
      <4>2. b = skip + l  BY <1>6, <1>9, <1>10, <1>12, <3>3, <4>1, Types, <1>8
      <4>3. more = Append(c, new)  BY <2>1, <3>3 DEF With
      <4>4. Put(more, c, l + 1, new)  BY <1>7, <1>8, <4>3, AppendPuts
      <4>5. l \in 1 .. l  BY <1>8
      <4> QED  BY <4>2, <4>4, <4>5
    <3> QED  BY <1>12, <1>13, <1>19, <3>2, <3>3
  <2>4. Put(more, q, 1, y)  BY <2>1, <2>3, TailIs
  <2>5. Trade(c, 1, y, q, i, new)
    <3>1. i + 1 > 1 /\ i + 1 # 1 /\ (i + 1) - 1 = i  BY <2>3, <1>8
    <3> QED  BY <2>3, <2>4, <3>1, Turns
  <2>6. Slid(a, b, 1, i, Len(c)) /\ new = t[skip + i]
    <3>1. a <= skip /\ a <= b  BY <1>10, <1>11, <1>13, <1>19, <2>3
    <3> QED  BY <1>6, <1>8, <2>3, <3>1 DEF Slid
  <2>7. IsPage(q, t) /\ Swapped(c, q, new, y)  BY <1>0, <2>5, <2>6, Swaps
  <2> QED  BY <2>2, <2>7 DEF Kept, Swapped
<1>20. CASE f = "prior" /\ g = "later"
  <2>1. PICK more, q, y : more = Refilled(c, rf) /\ q = Tail(more) /\ y = Head(more)  OBVIOUS
  <2>2. /\ out.cache = q /\ out.msgs = Append(RefillMsgs(rf), Rm(y)) /\ rf.sane
    <3>1. Ends(out, q, Append(RefillMsgs(rf), Rm(y)), rf.sane)
      BY <1>0, <1>20, <2>1 DEF MovesTo
    <3> QED  BY <3>1 DEF Outcome, Ends
  <2>3. PICK x : x = rf.doc /\ x = t[skip + l] /\ x \in Docs  BY <1>16, <2>2
  <2>4. more = Append(c, x)  BY <2>1, <2>2, <2>3 DEF Refilled
  <2>5. Put(more, c, l + 1, x)  BY <1>7, <1>8, <2>3, <2>4, AppendPuts
  <2>6. Put(more, q, 1, y)  BY <2>1, <2>5, TailIs
  <2>11. out.msgs = <<Add(x), Rm(y)>>
    <3>1. out.msgs = Append(<<Add(x)>>, Rm(y))  BY <2>2, <2>3 DEF RefillMsgs
    <3>2. Add(x) \in Said /\ Rm(y) \in Said
      <4>1. y \in Docs  BY <2>6 DEF Put
      <4> QED  BY <2>3, <4>1, SaidIs
    <3> QED  BY <3>1, <3>2, Pair
  <2>7. Trade(c, 1, y, q, l, x)
    <3>1. l + 1 > 1 /\ l + 1 # 1 /\ (l + 1) - 1 = l  BY <1>8
    <3> QED  BY <2>5, <2>6, <3>1, Turns
  <2>8. a <= skip /\ skip + l <= b /\ a <= b  BY <1>10, <1>11, <1>12, <1>13, <1>20, <1>8
  <2>9. x.id # y.id
    <3>1. y = s[skip + 1]
      <4>1. 1 \in 1 .. l  BY <1>8
      <4>2. c[1] = y  BY <2>7 DEF Trade, Put
      <4> QED  BY <1>14, <4>1, <4>2
    <3>2. skip \in a .. b - 1 /\ skip \in 1 .. n /\ skip + l \in 1 .. n /\ skip # skip + l
      BY <1>6, <1>8, <1>9, <1>10, <2>8
    <3>3. t[skip] = s[skip + 1]  BY <1>6, <2>8, <3>2 DEF Shifted
    <3> QED  BY <1>17, <2>3, <3>1, <3>2, <3>3
  <2>10. IsPage(q, t) /\ Swapped(c, q, x, y)
    <3>1. Slid(a, b, 1, l, Len(c))  BY <1>8, <2>8 DEF Slid
    <3> QED  BY <1>0, <2>3, <2>7, <3>1, Swaps
  <2> QED  BY <2>2, <2>9, <2>10, <2>11 DEF Kept, Swapped
<1>21. CASE f = "curr" /\ g = "prior"
  <2>1. from \in 1 .. l /\ a = skip + from /\ to = Before /\ b <= skip + 1
    BY <1>11, <1>12, <1>13, <1>21
  <2>2. PICK p, q : p = Without(c, from) /\ q = <<first>> \o p  OBVIOUS
  <2>3. /\ out.cache = q
        /\ out.msgs = IF first.id \in IdsOf(c) THEN <<Txn(new)>> ELSE <<Rm(new), Add(first)>>
    <3>1. IF ~ (second = At(c, 1)) THEN out = Unmoved(c, FALSE)
          ELSE Ends(out, q, IF \E i \in DOMAIN c : c[i].id = first.id THEN <<Txn(new)>>
                                ELSE <<Rm(new), Add(first)>>, TRUE)
      BY <1>0, <1>21, <2>2 DEF MovesTo
    <3>2. Unmoved(c, FALSE).tracks = FALSE  BY DEF Unmoved, Outcome, Ends
    <3>3. Ends(out, q, IF \E i \in DOMAIN c : c[i].id = first.id THEN <<Txn(new)>>
                           ELSE <<Rm(new), Add(first)>>, TRUE)
      BY <3>1, <3>2
    <3>4. (\E i \in DOMAIN c : c[i].id = first.id) <=> first.id \in IdsOf(c)  BY DEF IdsOf
    <3> QED  BY <3>3, <3>4 DEF Outcome, Ends
  <2>4. p = RemoveAt(c, from)
    <3>1. DOMAIN c = 1 .. l  BY <1>7, <1>8
    <3> QED  BY <1>13, <2>1, <2>2, <3>1 DEF Without
  <2>5. PICK y : y = c[from] /\ Put(c, p, from, y)  BY <1>7, <1>8, <2>1, <2>4, RemovePuts
  <2>6. Put(q, p, 1, first)
    <3>1. p \in Seq(Docs)  BY <2>5 DEF Put
    <3> QED  BY <1>15, <2>2, <3>1, ConsPuts
  <2>7. y = old  BY <1>6, <1>14, <2>1, <2>5
  <2>8. Rm(new) = Rm(y) /\ (first.id = y.id => Txn(new) = Txn(first))
    BY <2>7 DEF Rm, Txn
  <2>9. b <= a  BY <1>10, <2>1, <1>8
  <2>10. Trade(c, from, y, q, 1, first)  BY <2>5, <2>6 DEF Trade
  <2>11. IsPage(q, t) /\ Swapped(c, q, first, y)
    <3>1. PICK i : i = 1  OBVIOUS
    <3>2. Slid(a, b, from, i, Len(c)) /\ Trade(c, from, y, q, i, first)
      BY <2>1, <2>9, <2>10, <3>1 DEF Slid
    <3>3. first = t[skip + i]  BY <1>15, <3>1
    <3> QED  BY <1>0, <3>2, <3>3, Swaps
  <2> QED  BY <2>3, <2>8, <2>11 DEF Kept, Swapped
<1>22. CASE f = "curr" /\ g = "curr"
  <2>1. /\ from \in 1 .. l /\ a = skip + from /\ to \in 1 .. l /\ from \in Nat /\ to \in Nat
        /\ a < skip + to => to # 1 /\ b = skip + to - 1
        /\ a >= skip + to => b = skip + to
    BY <1>8, <1>11, <1>12, <1>13, <1>22
  <2>2. PICK q : /\ q = IF from < to THEN Without(With(c, to, new), from)
                        ELSE With(Without(c, from), to, new)
                 /\ out.cache = q /\ out.msgs = <<Txn(new)>>
    <3>1. PICK q, h : /\ q = IF from < to THEN Without(With(c, to, new), from)
                             ELSE With(Without(c, from), to, new)
                      /\ Ends(out, q, <<Txn(new)>>, h)
      BY <1>0, <1>22 DEF MovesTo
    <3> QED  BY <3>1 DEF Outcome, Ends
  <2>3. PICK i, y : Trade(c, from, y, q, i, new) /\ b = skip + i /\ i \in 1 .. l
    <3>1. CASE from < to
      <4>1. PICK more : more = With(c, to, new)  OBVIOUS
      <4>2. more = InsertAt(c, to, new)  BY <1>13, <2>1, <4>1 DEF With
      <4>3. Put(more, c, to, new)
        <5>1. to \in 1 .. l + 1  BY <1>8, <2>1
        <5> QED  BY <1>7, <1>8, <4>2, <5>1, InsertPuts
      <4>4. more \in Seq(Docs) /\ Len(more) = l + 1  BY <1>8, <4>3 DEF Put
      <4>5. from \in 1 .. Len(more)  BY <1>8, <2>1, <4>4
      <4>6. q = RemoveAt(more, from)
        <5>1. q = Without(more, from)  BY <2>2, <3>1, <4>1
        <5>2. from \in DOMAIN more  BY <4>4, <4>5
        <5> QED  BY <1>13, <2>1, <5>1, <5>2 DEF Without
      <4>7. PICK y : Put(more, q, from, y)  BY <4>4, <4>5, <4>6, RemovePuts
      <4>8. Trade(c, from, y, q, to - 1, new)
        <5>1. to > from /\ to # from  BY <2>1, <3>1
        <5> QED  BY <4>3, <4>7, <5>1, Turns
      <4>9. to # 1 /\ b = skip + (to - 1) /\ to - 1 \in 1 .. l  BY <1>8, <2>1, <3>1
      <4> QED  BY <4>8, <4>9
    <3>2. CASE ~ (from < to)
      <4>1. PICK p : p = Without(c, from)  OBVIOUS
      <4>2. p = RemoveAt(c, from)
        <5>1. DOMAIN c = 1 .. l  BY <1>7, <1>8
        <5> QED  BY <1>13, <2>1, <4>1, <5>1 DEF Without
      <4>3. PICK y : Put(c, p, from, y)  BY <1>7, <1>8, <2>1, <4>2, RemovePuts
      <4>4. p \in Seq(Docs) /\ to \in 1 .. Len(p) + 1
        <5>1. p \in Seq(Docs) /\ l = Len(p) + 1  BY <1>8, <4>3 DEF Put
        <5> QED  BY <2>1, <5>1
      <4>5. q = InsertAt(p, to, new)  BY <1>13, <2>1, <2>2, <3>2, <4>1 DEF With
      <4>6. Put(q, p, to, new)  BY <1>7, <4>4, <4>5, InsertPuts
      <4>7. b = skip + to  BY <1>10, <2>1, <3>2
      <4> QED  BY <2>1, <4>3, <4>6, <4>7 DEF Trade
    <3> QED  BY <3>1, <3>2
  <2>4. Slid(a, b, from, i, Len(c)) /\ new = t[skip + i]
    <3>1. a <= b \/ b <= a  BY <1>10
    <3> QED  BY <1>6, <2>1, <2>3, <3>1 DEF Slid
  <2>5. IsPage(q, t) /\ Swapped(c, q, new, y)  BY <1>0, <2>3, <2>4, Swaps
  <2>6. y = old
    <3>1. c[from] = y  BY <2>3 DEF Trade, Put
    <3> QED  BY <1>6, <1>14, <2>1, <3>1
  <2> QED  BY <2>2, <2>5, <2>6 DEF Kept, Swapped
<1>23. CASE f = "curr" /\ g = "later"
  <2>1. from \in 1 .. l /\ a = skip + from /\ to = After /\ b >= skip + l /\ from \in Nat
    BY <1>8, <1>11, <1>12, <1>13, <1>23
  <2>2. PICK more, q : more = Refilled(c, rf) /\ q = Without(more, from)  OBVIOUS
  <2>3. /\ out.cache = q /\ out.msgs = Append(RefillMsgs(rf), Rm(new)) /\ rf.sane
        /\ rf.doc.id # new.id
    <3>1. PICK h : /\ h = (rf.sane /\ rf.doc.id # new.id)
                   /\ Ends(out, q, Append(RefillMsgs(rf), Rm(new)), h)
      BY <1>0, <1>23, <2>2 DEF MovesTo
    <3>2. out.cache = q /\ out.msgs = Append(RefillMsgs(rf), Rm(new))  BY <3>1 DEF Outcome, Ends
    <3>3. h = TRUE
      <4>1. h \in BOOLEAN  BY <3>1
      <4>2. ASSUME h = FALSE PROVE FALSE
        <5>1. out.tracks = FALSE  BY <3>1, <4>2 DEF Outcome, Ends
        <5> QED  BY <5>1
      <4> QED  BY <4>1, <4>2
    <3> QED  BY <3>1, <3>2, <3>3
  <2>4. PICK x : x = rf.doc /\ x = t[skip + l] /\ x \in Docs  BY <1>16, <2>3
  <2>5. more = Append(c, x)  BY <2>2, <2>3, <2>4 DEF Refilled
  <2>6. Put(more, c, l + 1, x)  BY <1>7, <1>8, <2>4, <2>5, AppendPuts
  <2>7. PICK y : Put(more, q, from, y)
    <3>1. more \in Seq(Docs) /\ Len(more) = l + 1  BY <1>8, <2>6 DEF Put
    <3>2. from \in 1 .. Len(more) /\ from \in DOMAIN more  BY <1>8, <2>1, <3>1
    <3>3. q = RemoveAt(more, from)  BY <1>13, <2>1, <2>2, <3>2 DEF Without
    <3> QED  BY <3>1, <3>2, <3>3, RemovePuts
  <2>8. Trade(c, from, y, q, l, x)
    <3>1. l + 1 > from /\ l + 1 # from /\ (l + 1) - 1 = l  BY <1>8, <2>1
    <3> QED  BY <2>6, <2>7, <3>1, Turns
  <2>9. y = old
    <3>1. c[from] = y  BY <2>8 DEF Trade, Put
    <3> QED  BY <1>6, <1>14, <2>1, <3>1
  <2>10. IsPage(q, t) /\ Swapped(c, q, x, y)
    <3>1. Slid(a, b, from, l, Len(c))  BY <1>8, <1>10, <2>1 DEF Slid
    <3> QED  BY <1>0, <2>4, <2>8, <3>1, Swaps
  <2>11. out.msgs = <<Add(x), Rm(y)>>
    <3>1. Rm(new) = Rm(y)  BY <2>9 DEF Rm
    <3>2. out.msgs = Append(<<Add(x)>>, Rm(y))  BY <2>3, <2>4, <3>1 DEF RefillMsgs
    <3>3. Add(x) \in Said /\ Rm(y) \in Said  BY <1>7, <2>4, <2>9, SaidIs
    <3> QED  BY <3>2, <3>3, Pair
  <2>12. x.id # y.id  BY <2>3, <2>4, <2>9
  <2> QED  BY <2>3, <2>10, <2>11, <2>12 DEF Kept, Swapped
<1>24. CASE f = "later" /\ g = "prior"
  <2>1. a > skip + l /\ b <= skip + 1  BY <1>11, <1>12, <1>13, <1>24
  <2>2. PICK more, q, y : more = <<first>> \o c /\ q = Front(more) /\ y = Last(more)  OBVIOUS
  <2>3. out.cache = q /\ out.msgs = Append(<<Add(first)>>, Rm(y))
    <3>1. PICK h, m : /\ h = (second = At(c, 1)) /\ m = IF h THEN <<first>> \o c ELSE c
                      /\ Ends(out, Front(m), Append(IF h THEN <<Add(first)>> ELSE << >>,
                                                        Rm(Last(m))), h)
      BY <1>0, <1>24 DEF MovesTo
    <3>2. h = TRUE
      <4>1. h \in BOOLEAN  BY <3>1
      <4>2. ASSUME h = FALSE PROVE FALSE
        <5>1. out.tracks = FALSE  BY <3>1, <4>2 DEF Outcome, Ends
        <5> QED  BY <5>1
      <4> QED  BY <4>1, <4>2
    <3> QED  BY <2>2, <3>1, <3>2 DEF Outcome, Ends
  <2>4. Put(more, c, 1, first)  BY <1>7, <1>15, <2>2, ConsPuts
  <2>5. Put(more, q, l + 1, y)  BY <1>8, <2>2, <2>4, FrontIs
  <2>6. Trade(c, l, y, q, 1, first)
    <3>1. 1 < l + 1 /\ 1 # l + 1 /\ (l + 1) - 1 = l  BY <1>8
    <3> QED  BY <2>4, <2>5, <3>1, Turns
  <2>7. IsPage(q, t) /\ Swapped(c, q, first, y)
    <3>1. PICK i : i = 1  OBVIOUS
    <3>2. Slid(a, b, l, i, Len(c)) /\ Trade(c, l, y, q, i, first)
      BY <1>8, <1>10, <2>1, <2>6, <3>1 DEF Slid
    <3>3. first = t[skip + i]  BY <1>15, <3>1
    <3> QED  BY <1>0, <3>2, <3>3, Swaps
  <2>8. y = s[skip + l] /\ y \in Docs
    <3>1. c[l] = y  BY <2>6 DEF Trade, Put
    <3>2. l \in 1 .. l  BY <1>8
    <3> QED  BY <1>14, <3>1, <3>2
  <2>9. first.id # y.id
    <3>1. /\ (skip + l) + 1 \in b + 1 .. a /\ (skip + l) + 1 \in 1 .. n /\ b <= a
          /\ skip + 1 \in 1 .. n /\ ((skip + l) + 1) - 1 = skip + l /\ (skip + l) + 1 # skip + 1
      BY <1>6, <1>8, <1>9, <1>10, <2>1
    <3>2. t[(skip + l) + 1] = y  BY <1>6, <2>8, <3>1 DEF Shifted
    <3> QED  BY <1>15, <1>17, <3>1, <3>2
  <2>10. out.msgs = <<Add(first), Rm(y)>>
    <3>1. Add(first) \in Said /\ Rm(y) \in Said  BY <1>15, <2>8, SaidIs
    <3> QED  BY <2>3, <3>1, Pair
  <2> QED  BY <2>3, <2>7, <2>9, <2>10 DEF Kept, Swapped
<1>25. CASE f = "later" /\ g = "curr"
  <2>1. a > skip + l /\ to \in 1 .. l /\ to \in Nat  BY <1>8, <1>11, <1>12, <1>13, <1>25
  <2>2. b = skip + to  BY <1>8, <1>10, <1>12, <1>13, <2>1, Types
  <2>3. PICK more, q, y : more = With(c, to, new) /\ q = Front(more) /\ y = Last(more)  OBVIOUS
  <2>4. out.cache = q /\ out.msgs = <<Add(new), Rm(y)>>
    <3>1. Ends(out, q, <<Add(new), Rm(y)>>, TRUE)  BY <1>0, <1>25, <2>3 DEF MovesTo
    <3> QED  BY <3>1 DEF Outcome, Ends
  <2>5. Put(more, c, to, new)
    <3>1. more = InsertAt(c, to, new)  BY <1>13, <2>1, <2>3 DEF With
    <3>2. to \in 1 .. l + 1  BY <1>8, <2>1
    <3> QED  BY <1>7, <1>8, <3>1, <3>2, InsertPuts
  <2>6. Put(more, q, l + 1, y)  BY <1>8, <2>3, <2>5, FrontIs
  <2>7. Trade(c, l, y, q, to, new)
    <3>1. to < l + 1 /\ to # l + 1 /\ (l + 1) - 1 = l  BY <1>8, <2>1
    <3> QED  BY <2>5, <2>6, <3>1, Turns
  <2>8. IsPage(q, t) /\ Swapped(c, q, new, y)
    <3>1. Slid(a, b, l, to, Len(c))  BY <1>8, <1>10, <2>1, <2>2 DEF Slid
    <3>2. new = t[skip + to]  BY <1>6, <2>2
    <3> QED  BY <1>0, <2>7, <3>1, <3>2, Swaps
  <2>9. y.id # new.id
    <3>1. c[l] = y  BY <2>7 DEF Trade, Put
    <3>2. l \in 1 .. l /\ skip + l \in 1 .. n /\ skip + l # a  BY <1>8, <1>14, <2>1
    <3>3. y = s[skip + l]  BY <1>14, <3>1, <3>2
    <3> QED  BY <1>6, <1>17, <3>2, <3>3
  <2> QED  BY <2>4, <2>8, <2>9 DEF Kept, Swapped
<1>26. f \in {"prior", "curr", "later"} /\ g \in {"prior", "curr", "later"}
  BY <1>11, <1>12, <1>13
<1> QED  BY <1>18, <1>19, <1>20, <1>21, <1>22, <1>23, <1>24, <1>25, <1>26

\* Who had a list and hears that y is out of it has the rest.
LEMMA RemoveHeard ==
  ASSUME NEW c, NEW p, NEW j, NEW y, Put(c, p, j, y), Distinct(c)
  PROVE  Hear(IdsOf(c), <<Rm(y)>>) = IdsOf(p)
<1>1. IdsOf(c) = IdsOf(p) \cup {y.id} /\ y.id \notin IdsOf(p)  BY PutIds, PutApart
<1>2. PICK C, P, g : C = IdsOf(c) /\ P = IdsOf(p) /\ g = Rm(y)  OBVIOUS
<1>3. g \in Said /\ Heard(C, g) = C \ {y.id}
  <2>1. y \in Docs  BY DEF Put
  <2> QED  BY <1>2, <2>1, SaidIs
<1>4. Hear(C, <<g>>) = Heard(C, g)  BY <1>3, HearIs
<1>5. C \ {y.id} = P  BY <1>1, <1>2
<1> QED  BY <1>2, <1>3, <1>4, <1>5

LEMMA AddHeard ==
  ASSUME NEW p, NEW q, NEW i, NEW x, Put(q, p, i, x)
  PROVE  Hear(IdsOf(p), <<Add(x)>>) = IdsOf(q)
<1>1. IdsOf(q) = IdsOf(p) \cup {x.id}  BY PutIds
<1>2. PICK P, a : P = IdsOf(p) /\ a = Add(x)  OBVIOUS
<1>3. a \in Said /\ Heard(P, a) = P \cup {x.id}
  <2>1. x \in Docs  BY DEF Put
  <2> QED  BY <1>2, <2>1, SaidIs
<1>4. Hear(P, <<a>>) = Heard(P, a)  BY <1>3, HearIs
<1> QED  BY <1>1, <1>2, <1>3, <1>4

LEMMA SilenceHeard ==
  ASSUME NEW ids
  PROVE  Hear(ids, << >>) = ids
<1>1. [type |-> "txn", id |-> 0] \in Said  BY Numbers DEF Said
<1> QED  BY <1>1, HearIs

\* What becomes of a document that does not pass any more.
LeavesTo(out, c, k, old, from) ==
  /\ from = After => out = Unmoved(c, TRUE)
  /\ from = Before
     => LET r == Refill(c, k)
            more == Refilled(c, r)
        IN Ends(out, Tail(more), Append(RefillMsgs(r), Rm(Head(more))), r.there => r.sane)
  /\ from # After /\ from # Before
     => LET rest == Without(c, from)
            r == Refill(rest, k)
        IN Ends(out, Refilled(rest, r), Append(RefillMsgs(r), Rm(old)), r.there => r.sane)

LEMMA LeavesIs ==
  ASSUME NEW c, NEW k, NEW old
  PROVE  LeavesTo(Leaves(c, k, old), c, k, old, RelPosition(c, old))
<1>1. PICK out, from : out = Leaves(c, k, old) /\ from = RelPosition(c, old)  OBVIOUS
<1>2. Before # After  BY Types
<1>3. from = After => out = Unmoved(c, TRUE)  BY <1>1, <1>2, EndsIs DEF Leaves
<1>4. from = Before
      => LET r == Refill(c, k)
             more == Refilled(c, r)
         IN Ends(out, Tail(more), Append(RefillMsgs(r), Rm(Head(more))), r.there => r.sane)
  BY <1>1, <1>2, EndsIs DEF Leaves
<1>5. from # After /\ from # Before
      => LET rest == Without(c, from)
             r == Refill(rest, k)
         IN Ends(out, Refilled(rest, r), Append(RefillMsgs(r), Rm(old)), r.there => r.sane)
  BY <1>1, <1>2, EndsIs DEF Leaves
<1> QED  BY <1>1, <1>3, <1>4, <1>5 DEF LeavesTo

\* The document passed before, and does not any more.
LEMMA LeavesKept ==
  ASSUME skip \in Nat, NEW k \in KeyMaps, NEW t, t = Sorted(k),
         NEW s, NEW a, NEW old, Put(s, t, a, old), Ascends(s), Distinct(s), Distinct(t),
         NEW c, IsPage(c, s), NEW out, out = Leaves(c, k, old), out.tracks
  PROVE  Kept(out, c, t)
<1>1. PICK from : from = RelPosition(c, old)  OBVIOUS
<1>2. LeavesTo(out, c, k, old, from)  BY <1>1, LeavesIs
<1>3. PICK n \in Nat : n = Len(s) /\ Left(t, s, a, old, n)
  <2>1. Left(t, s, a, old, Len(s))  BY PutLeft
  <2> QED  BY <2>1 DEF Left
<1>4. /\ t \in Seq(Docs) /\ s \in Seq(Docs) /\ old \in Docs /\ c \in Seq(Docs)
      /\ Len(t) = n - 1 /\ a \in 1 .. n /\ s[a] = old /\ n - 1 \in Nat
      /\ \A m \in 1 .. a - 1 : s[m] = t[m]
      /\ \A m \in a .. n - 1 : s[m + 1] = t[m]
  <2>1. c \in Seq(Docs)  BY DEF IsPage
  <2>2. a \in 1 .. n => n - 1 \in Nat  OBVIOUS
  <2> QED  BY <1>3, <2>1, <2>2 DEF Left
<1>5. PICK l \in Nat : l = Len(c) /\ l = PageLen(n)  BY <1>3, <1>4 DEF IsPage
<1>6. /\ l \in 0 .. Limit /\ (l = 0 <=> n <= skip) /\ (l # 0 => skip + l <= n)
      /\ (l # 0 /\ l # Limit => n = skip + l)
      /\ l = Limit <=> skip + Limit <= n
  BY <1>5, PageLenIs
<1>7. Distinct(c)  BY <1>4, PageDistinct
<1>8. Limit \in Nat /\ Limit >= 2 /\ a \in Nat  BY <1>4, Numbers
<1>9. c # << >> => \/ from = Before /\ a <= skip
                   \/ from = After /\ a > skip + l
                   \/ from \in 1 .. l /\ a = skip + from
  <2>1. from = RelPosition(c, s[a]) /\ a \in 1 .. Len(s)  BY <1>1, <1>3, <1>4
  <2>2. c # << >> => \/ from = Before /\ a <= skip
                     \/ from = After /\ a > skip + Len(c)
                     \/ from \in 1 .. Len(c) /\ a = skip + from
    BY <1>4, <2>1, OldStands
  <2> QED  BY <1>5, <2>2
<1>10. \A m \in 1 .. l : c[m] = s[skip + m]  BY <1>5 DEF IsPage
<1>11. ASSUME NEW p, NEW j, NEW y, Put(c, p, j, y), a = skip + j \/ (j = 1 /\ a <= skip)
       PROVE  /\ ~ (skip + Limit <= n - 1) => IsPage(p, t)
              /\ skip + Limit <= n - 1
                 => l = Limit /\ \A q : Put(q, p, l, t[skip + Limit]) => IsPage(q, t)
  <2>1. /\ Len(t) < skip + Limit => IsPage(p, t)
        /\ skip + Limit <= Len(t)
           => Len(c) = Limit /\ \A q : Put(q, p, Len(c), t[skip + Limit]) => IsPage(q, t)
    BY <1>11, Lapses
  <2> QED  BY <1>4, <1>5, <1>8, <2>1
<1>12. ASSUME NEW d \in Seq(Docs), NEW r, r = Refill(d, k)
       PROVE  /\ r.there <=> skip + Limit <= n - 1
              /\ r.there => r.doc = t[skip + Limit] /\ r.doc \in Docs
              /\ r.sane => r.there
              /\ r.there \in BOOLEAN /\ r.sane \in BOOLEAN
  <2>1. PICK o \in Nat : o = n - 1 /\ o = Len(Sorted(k))  BY <1>4
  <2> QED  BY <1>12, <2>1, RefillIs
<1>13. CASE c = << >>
  <2>1. from # After /\ from # Before  BY <1>1, <1>13, Types DEF RelPosition
  <2>2. Without(c, from) = c  BY <1>13 DEF Without
  <2>3. PICK r : r = Refill(c, k)  OBVIOUS
  <2>4. ~ (skip + Limit <= n - 1)
    <3>1. l = 0  BY <1>5, <1>13
    <3> QED  BY <1>6, <1>8, <3>1
  <2>5. r.there = FALSE /\ r.sane = FALSE
    <3>1. /\ r.there <=> skip + Limit <= n - 1
          /\ r.sane => r.there
          /\ r.there \in BOOLEAN /\ r.sane \in BOOLEAN
      BY <1>4, <1>12, <2>3
    <3> QED  BY <2>4, <3>1
  <2>6. out.cache = c /\ out.msgs = Append(<< >>, Rm(old))
    <3>1. PICK h : Ends(out, Refilled(c, r), Append(RefillMsgs(r), Rm(old)), h)
      BY <1>2, <2>1, <2>2, <2>3 DEF LeavesTo
    <3>2. Refilled(c, r) = c /\ RefillMsgs(r) = << >>  BY <2>5 DEF Refilled, RefillMsgs
    <3> QED  BY <3>1, <3>2 DEF Outcome, Ends
  <2>7. IsPage(c, t)
    <3>0. l = 0  BY <1>5, <1>13
    <3>1. n - 1 <= skip /\ l = 0  BY <1>6, <3>0
    <3>2. PageLen(n - 1) = 0  BY <3>1 DEF PageLen
    <3> QED  BY <1>4, <1>5, <3>1, <3>2 DEF IsPage
  <2>8. Hear(IdsOf(c), out.msgs) = IdsOf(c)
    <3>1. PICK C, g : C = IdsOf(c) /\ g = Rm(old)  OBVIOUS
    <3>2. C = {}  BY <1>13, <3>1 DEF IdsOf
    <3>3. g \in Said /\ Heard(C, g) = C \ {old.id}  BY <1>4, <3>1, SaidIs
    <3>4. out.msgs = <<g>>  BY <2>6, <3>1
    <3>5. Hear(C, <<g>>) = Heard(C, g)  BY <3>3, HearIs
    <3> QED  BY <3>1, <3>2, <3>3, <3>4, <3>5
  <2> QED  BY <2>6, <2>7, <2>8 DEF Kept
<1>14. CASE c # << >> /\ from = After
  <2>1. out.cache = c /\ out.msgs = << >>  BY <1>2, <1>14 DEF LeavesTo, Unmoved, Outcome, Ends
  <2>2. a > skip + l /\ l # 0  BY <1>4, <1>5, <1>6, <1>8, <1>9, <1>14, Types
  <2>3. l = Limit /\ skip + Limit <= n - 1  BY <1>4, <1>6, <1>8, <2>2
  <2>4. PageLen(n - 1) = l  BY <1>4, <2>3, PageLenOf
  <2>5. \A m \in 1 .. l : c[m] = t[skip + m]
    <3> TAKE m \in 1 .. l
    <3>1. skip + m \in 1 .. a - 1  BY <1>8, <2>2
    <3> QED  BY <1>4, <1>10, <3>1
  <2>6. IsPage(c, t)  BY <1>4, <1>5, <2>4, <2>5 DEF IsPage
  <2> QED  BY <2>1, <2>6, SilenceHeard DEF Kept
<1>15. c # << >> => l \in 1 .. Limit /\ l # 0
  <2>1. c # << >> => Len(c) # 0  BY <1>4
  <2> QED  BY <1>5, <1>6, <1>8, <2>1
<1>16. ASSUME skip + Limit <= n - 1 PROVE l = Limit  BY <1>6, <1>8, <1>16
<1>17. CASE c # << >> /\ from = Before
  <2>1. a <= skip /\ l \in 1 .. Limit
    <3>1. \A i \in 1 .. l : i \in 1 .. Limit  BY <1>15, <1>17, <1>8
    <3>2. from # After /\ ~ (from \in 1 .. l)  BY <1>17, <3>1, Types
    <3> QED  BY <1>9, <1>15, <1>17, <3>2
  <2>2. PICK r : r = Refill(c, k)  OBVIOUS
  <2>3. PICK more, q, y : more = Refilled(c, r) /\ q = Tail(more) /\ y = Head(more)  OBVIOUS
  <2>4. /\ r.there <=> skip + Limit <= n - 1
        /\ r.there => r.doc = t[skip + Limit] /\ r.doc \in Docs
        /\ r.sane => r.there
        /\ r.there \in BOOLEAN /\ r.sane \in BOOLEAN
    BY <1>4, <1>12, <2>2
  <2>5. /\ out.cache = q /\ out.msgs = Append(RefillMsgs(r), Rm(y)) /\ (r.there => r.sane)
    <3>1. PICK h : /\ h = (r.there => r.sane)
                   /\ Ends(out, q, Append(RefillMsgs(r), Rm(y)), h)
      BY <1>2, <1>17, <2>2, <2>3 DEF LeavesTo
    <3>2. out.cache = q /\ out.msgs = Append(RefillMsgs(r), Rm(y))  BY <3>1 DEF Outcome, Ends
    <3>3. h = TRUE
      <4>1. h \in BOOLEAN  BY <3>1
      <4>2. ASSUME h = FALSE PROVE FALSE
        <5>1. out.tracks = FALSE  BY <3>1, <4>2 DEF Outcome, Ends
        <5> QED  BY <5>1
      <4> QED  BY <4>1, <4>2
    <3> QED  BY <3>1, <3>2, <3>3
  <2>6. PICK i : i = 1  OBVIOUS
  <2>7. CASE r.there
    <3>1. PICK x : x = r.doc /\ x = t[skip + Limit] /\ x \in Docs  BY <2>4, <2>7
    <3>2. l = Limit /\ skip + Limit <= n - 1  BY <1>16, <2>4, <2>7
    <3>3. more = Append(c, x)  BY <2>3, <2>5, <2>7, <3>1 DEF Refilled
    <3>4. Put(more, c, l + 1, x)  BY <1>4, <1>5, <3>1, <3>3, AppendPuts
    <3>5. Put(more, q, i, y)  BY <2>3, <2>6, <3>4, TailIs
    <3>6. Trade(c, i, y, q, l, x)
      <4>1. l + 1 > i /\ l + 1 # i /\ (l + 1) - 1 = l  BY <2>1, <2>6
      <4> QED  BY <3>4, <3>5, <4>1, Turns
    <3>7. PICK p : Put(c, p, i, y) /\ Put(q, p, l, x)  BY <3>6 DEF Trade
    <3>8. IsPage(q, t)
      <4>1. \A z : Put(z, p, l, t[skip + Limit]) => IsPage(z, t)  BY <1>11, <2>1, <2>6, <3>2, <3>7
      <4> QED  BY <3>1, <3>7, <4>1
    <3>9. Swapped(c, q, x, y)
      <4>1. Distinct(q)  BY <1>4, <3>8, PageDistinct
      <4> QED  BY <1>7, <3>6, <4>1, SwapHeard
    <3>10. x.id # y.id
      <4>1. c[1] = y  BY <2>6, <3>7 DEF Put
      <4>2. /\ 1 \in 1 .. l /\ skip \in a .. n - 1 /\ skip \in 1 .. n - 1
            /\ skip + Limit \in 1 .. n - 1
            /\ skip # skip + Limit
        BY <1>4, <1>8, <2>1, <3>2
      <4>3. y = t[skip]  BY <1>4, <1>10, <4>1, <4>2
      <4>4. DOMAIN t = 1 .. n - 1
        <5>1. DOMAIN t = 1 .. Len(t)  BY <1>4
        <5> QED  BY <1>4, <5>1
      <4> QED  BY <3>1, <4>2, <4>3, <4>4 DEF Distinct
    <3>11. out.msgs = <<Add(x), Rm(y)>>
      <4>1. out.msgs = Append(<<Add(x)>>, Rm(y))  BY <2>5, <2>7, <3>1 DEF RefillMsgs
      <4>2. Add(x) \in Said /\ Rm(y) \in Said
        <5>1. y \in Docs  BY <3>7 DEF Put
        <5> QED  BY <3>1, <5>1, SaidIs
      <4> QED  BY <4>1, <4>2, Pair
    <3> QED  BY <2>5, <3>8, <3>9, <3>10, <3>11 DEF Kept, Swapped
  <2>8. CASE ~ r.there
    <3>1. r.sane = FALSE  BY <2>4, <2>8
    <3>2. more = c /\ RefillMsgs(r) = << >>  BY <2>3, <3>1 DEF Refilled, RefillMsgs
    <3>3. Put(c, q, i, y)
      <4>1. Put(c, Tail(c), 1, c[1])  BY <1>4, <1>5, <1>15, <1>17, TailPuts
      <4>2. Put(c, q, 1, Head(c))  BY <2>3, <3>2, <4>1, TailIs
      <4> QED  BY <2>3, <2>6, <3>2, <4>2
    <3>4. IsPage(q, t)  BY <1>11, <2>1, <2>4, <2>6, <2>8, <3>3
    <3>5. out.msgs = <<Rm(y)>>  BY <2>5, <3>2
    <3>6. Hear(IdsOf(c), <<Rm(y)>>) = IdsOf(q)  BY <1>7, <3>3, RemoveHeard
    <3> QED  BY <2>5, <3>4, <3>5, <3>6 DEF Kept
  <2> QED  BY <2>7, <2>8
<1>18. CASE c # << >> /\ from \in 1 .. l
  <2>1. /\ from # After /\ from # Before /\ Index(from) = from
    <3>1. from \in 1 .. Limit  BY <1>8, <1>15, <1>18
    <3> QED  BY <3>1, Types
  <2>2. a = skip + from  BY <1>9, <1>18, <2>1
  <2>3. PICK rest : rest = Without(c, from)  OBVIOUS
  <2>4. Put(c, rest, from, old)
    <3>1. from \in DOMAIN c /\ from \in 1 .. Len(c)
      <4>1. DOMAIN c = 1 .. Len(c)  BY <1>4
      <4> QED  BY <1>5, <1>18, <4>1
    <3>2. rest = RemoveAt(c, from)  BY <2>1, <2>3, <3>1 DEF Without
    <3>3. Put(c, rest, from, c[from])  BY <1>4, <3>1, <3>2, RemovePuts
    <3>4. c[from] = old  BY <1>4, <1>10, <1>18, <2>2
    <3> QED  BY <3>3, <3>4
  <2>5. rest \in Seq(Docs) /\ l = Len(rest) + 1  BY <1>5, <2>4 DEF Put
  <2>6. PICK r : r = Refill(rest, k)  OBVIOUS
  <2>7. /\ r.there <=> skip + Limit <= n - 1
        /\ r.there => r.doc = t[skip + Limit] /\ r.doc \in Docs
        /\ r.sane => r.there
        /\ r.there \in BOOLEAN /\ r.sane \in BOOLEAN
    BY <1>12, <2>5, <2>6
  <2>8. PICK q : q = Refilled(rest, r)  OBVIOUS
  <2>9. /\ out.cache = q /\ out.msgs = Append(RefillMsgs(r), Rm(old)) /\ (r.there => r.sane)
    <3>1. PICK h : /\ h = (r.there => r.sane)
                   /\ Ends(out, q, Append(RefillMsgs(r), Rm(old)), h)
      BY <1>2, <2>1, <2>3, <2>6, <2>8 DEF LeavesTo
    <3>2. out.cache = q /\ out.msgs = Append(RefillMsgs(r), Rm(old))  BY <3>1 DEF Outcome, Ends
    <3>3. h = TRUE
      <4>1. h \in BOOLEAN  BY <3>1
      <4>2. ASSUME h = FALSE PROVE FALSE
        <5>1. out.tracks = FALSE  BY <3>1, <4>2 DEF Outcome, Ends
        <5> QED  BY <5>1
      <4> QED  BY <4>1, <4>2
    <3> QED  BY <3>1, <3>2, <3>3
  <2>10. CASE r.there
    <3>1. PICK x : x = r.doc /\ x = t[skip + Limit] /\ x \in Docs  BY <2>7, <2>10
    <3>2. l = Limit /\ skip + Limit <= n - 1  BY <1>16, <2>7, <2>10
    <3>3. q = Append(rest, x)  BY <2>8, <2>9, <2>10, <3>1 DEF Refilled
    <3>4. Put(q, rest, l, x)
      <4>1. Put(q, rest, Len(rest) + 1, x)  BY <2>5, <3>1, <3>3, AppendPuts
      <4> QED  BY <2>5, <4>1
    <3>5. Trade(c, from, old, q, l, x)  BY <2>4, <3>4 DEF Trade
    <3>6. IsPage(q, t)
      <4>1. \A z : Put(z, rest, l, t[skip + Limit]) => IsPage(z, t)  BY <1>11, <2>2, <2>4, <3>2
      <4> QED  BY <3>1, <3>4, <4>1
    <3>7. Swapped(c, q, x, old)
      <4>1. Distinct(q)  BY <1>4, <3>6, PageDistinct
      <4> QED  BY <1>7, <3>5, <4>1, SwapHeard
    <3>8. x.id # old.id
      <4>1. old.id \notin IdsOf(t)  BY PutApart
      <4>2. skip + Limit \in 1 .. n - 1  BY <1>4, <1>8, <3>2
      <4>3. DOMAIN t = 1 .. n - 1
        <5>1. DOMAIN t = 1 .. Len(t)  BY <1>4
        <5> QED  BY <1>4, <5>1
      <4>4. x.id \in IdsOf(t)  BY <3>1, <4>2, <4>3 DEF IdsOf
      <4> QED  BY <4>1, <4>4
    <3>9. out.msgs = <<Add(x), Rm(old)>>
      <4>1. out.msgs = Append(<<Add(x)>>, Rm(old))  BY <2>9, <2>10, <3>1 DEF RefillMsgs
      <4>2. Add(x) \in Said /\ Rm(old) \in Said  BY <1>4, <3>1, SaidIs
      <4> QED  BY <4>1, <4>2, Pair
    <3> QED  BY <2>9, <3>6, <3>7, <3>8, <3>9 DEF Kept, Swapped
  <2>11. CASE ~ r.there
    <3>1. r.sane = FALSE  BY <2>7, <2>11
    <3>2. q = rest /\ RefillMsgs(r) = << >>  BY <2>8, <3>1 DEF Refilled, RefillMsgs
    <3>3. IsPage(q, t)  BY <1>11, <2>2, <2>4, <2>7, <2>11, <3>2
    <3>4. out.msgs = <<Rm(old)>>  BY <2>9, <3>2
    <3>5. Hear(IdsOf(c), <<Rm(old)>>) = IdsOf(q)  BY <1>7, <2>4, <3>2, RemoveHeard
    <3> QED  BY <2>9, <3>3, <3>4, <3>5 DEF Kept
  <2> QED  BY <2>10, <2>11
<1> QED  BY <1>9, <1>13, <1>14, <1>17, <1>18

\* The cache a document goes into, and what is said of the one that makes room.
MadeRoom(c, p, m) ==
  \/ Len(c) < Limit /\ p = c /\ m = << >>
  \/ Len(c) = Limit /\ \E y : Put(c, p, Len(c), y) /\ m = <<Rm(y)>>

LEMMA RoomIs ==
  ASSUME NEW c \in Seq(Docs), Len(c) <= Limit
  PROVE  MadeRoom(c, MakeRoom(c).cache, MakeRoom(c).msgs)
<1>1. Len(c) \in Nat /\ Limit \in Nat /\ Limit >= 2  BY Numbers
<1>2. CASE Len(c) < Limit
  <2>1. MakeRoom(c) = [cache |-> c, msgs |-> << >>]  BY <1>2 DEF MakeRoom
  <2> QED  BY <1>2, <2>1 DEF MadeRoom
<1>3. CASE ~ (Len(c) < Limit)
  <2>1. MakeRoom(c) = [cache |-> Front(c), msgs |-> <<Rm(Last(c))>>]  BY <1>3 DEF MakeRoom
  <2>2. Len(c) = Limit /\ Len(c) # 0  BY <1>1, <1>3
  <2>3. Put(c, Front(c), Len(c), c[Len(c)])  BY <2>2, FrontPuts
  <2>4. Last(c) = c[Len(c)]  BY DEF Last
  <2> QED  BY <2>1, <2>2, <2>3, <2>4 DEF MadeRoom
<1> QED  BY <1>2, <1>3

LEMMA GrowsHeard ==
  ASSUME skip \in Nat,
         NEW s, NEW t, NEW b, NEW new, Put(t, s, b, new), Distinct(s), Distinct(t),
         NEW c, IsPage(c, s), NEW p, NEW m, MadeRoom(c, p, m),
         NEW q, NEW i, NEW x, x = t[skip + i], Put(q, p, i, x),
         b = skip + i \/ (i = 1 /\ b <= skip + 1), skip < Len(t)
  PROVE  IsPage(q, t) /\ Hear(IdsOf(c), Append(m, Add(x))) = IdsOf(q)
<1>1. IsPage(q, t)
  <2>1. (Len(c) < Limit /\ p = c) \/ (Len(c) = Limit /\ \E y : Put(c, p, Len(c), y))
    BY DEF MadeRoom
  <2> QED  BY <2>1, Grows
<1>2. Distinct(c) /\ Distinct(q)
  <2>1. s \in Seq(Docs) /\ t \in Seq(Docs)  BY DEF Put
  <2> QED  BY <1>1, <2>1, PageDistinct
<1>3. x \in Docs  BY DEF Put
<1>4. CASE Len(c) < Limit /\ p = c /\ m = << >>
  <2>1. Append(m, Add(x)) = <<Add(x)>>  BY <1>4
  <2>2. Hear(IdsOf(p), <<Add(x)>>) = IdsOf(q)  BY AddHeard
  <2> QED  BY <1>1, <1>4, <2>1, <2>2
<1>5. CASE Len(c) = Limit /\ \E y : Put(c, p, Len(c), y) /\ m = <<Rm(y)>>
  <2>1. PICK y : Put(c, p, Len(c), y) /\ m = <<Rm(y)>>  BY <1>5
  <2>2. Trade(c, Len(c), y, q, i, x)  BY <2>1 DEF Trade
  <2>3. Swapped(c, q, x, y)  BY <1>2, <2>2, SwapHeard
  <2>4. Append(m, Add(x)) = <<Rm(y), Add(x)>>
    <3>1. y \in Docs  BY <2>1 DEF Put
    <3>2. Add(x) \in Said /\ Rm(y) \in Said  BY <1>3, <3>1, SaidIs
    <3> QED  BY <2>1, <3>2, Pair
  <2> QED  BY <1>1, <2>3, <2>4 DEF Swapped
<1> QED  BY <1>4, <1>5 DEF MadeRoom

\* What becomes of a document that passes now.
EntersTo(out, c, new, to, p, m, page) ==
  /\ to = After => \E h : h = (Len(c) = Limit) /\ out = Unmoved(c, h)
  /\ to \in {Before, Null} /\ skip = 0
     => Ends(out, <<new>> \o p, Append(m, Add(new)), TRUE)
  /\ to \in {Before, Null} /\ skip # 0
     => IF At(page, 2) # At(c, 1) THEN out = Unmoved(c, FALSE)
        ELSE \E h : /\ h = (page # << >>)
                    /\ Ends(out, <<At(page, 1)>> \o p, Append(m, Add(At(page, 1))), h)
  /\ to # After /\ to \notin {Before, Null}
     => \E h : /\ h = (to \in DOMAIN p)
               /\ Ends(out, CacheInsert(p, new, to), Append(m, Add(new)), h)

LEMMA EntersIs ==
  ASSUME NEW c, NEW k, NEW new
  PROVE  EntersTo(Enters(c, k, new), c, new, RelPosition(c, new), MakeRoom(c).cache,
                  MakeRoom(c).msgs, Slice(k, 0, 2))
<1>1. PICK out, to, p, m, page :
        /\ out = Enters(c, k, new) /\ to = RelPosition(c, new)
        /\ p = MakeRoom(c).cache /\ m = MakeRoom(c).msgs /\ page = Slice(k, 0, 2)
  OBVIOUS
<1>2. Before # After /\ Null # After  BY Types
<1>3. to = After => \E h : h = (Len(c) = Limit) /\ out = Unmoved(c, h)
  BY <1>1, <1>2, EndsIs DEF Enters
<1>4. to \in {Before, Null} /\ skip = 0
      => Ends(out, <<new>> \o p, Append(m, Add(new)), TRUE)
  BY <1>1, <1>2, EndsIs DEF Enters
<1>5. to \in {Before, Null} /\ skip # 0
      => IF At(page, 2) # At(c, 1) THEN out = Unmoved(c, FALSE)
         ELSE \E h : /\ h = (page # << >>)
                     /\ Ends(out, <<At(page, 1)>> \o p, Append(m, Add(At(page, 1))), h)
  BY <1>1, <1>2, EndsIs DEF Enters
<1>6. to # After /\ to \notin {Before, Null}
      => \E h : /\ h = (to \in DOMAIN p)
                /\ Ends(out, CacheInsert(p, new, to), Append(m, Add(new)), h)
  BY <1>1, <1>2, EndsIs DEF Enters
<1>7. EntersTo(out, c, new, to, p, m, page)  BY <1>3, <1>4, <1>5, <1>6 DEF EntersTo
<1> QED  BY <1>1, <1>7

\* The document did not pass before, and does now.
LEMMA EntersKept ==
  ASSUME skip \in Nat, NEW k \in KeyMaps, NEW t, t = Sorted(k),
         NEW s, NEW b, NEW new, Put(t, s, b, new), Ascends(s), Ascends(t),
         Distinct(s), Distinct(t),
         NEW c, IsPage(c, s), NEW out, out = Enters(c, k, new), out.tracks
  PROVE  Kept(out, c, t)
<1>1. PICK to : to = RelPosition(c, new)  OBVIOUS
<1>2. PICK p, m, page : p = MakeRoom(c).cache /\ m = MakeRoom(c).msgs /\ page = Slice(k, 0, 2)
  OBVIOUS
<1>3. EntersTo(out, c, new, to, p, m, page)  BY <1>1, <1>2, EntersIs
<1>4. PICK n \in Nat : n = Len(t) /\ Left(s, t, b, new, n)
  <2>1. Left(s, t, b, new, Len(t))  BY PutLeft
  <2> QED  BY <2>1 DEF Left
<1>5. /\ t \in Seq(Docs) /\ s \in Seq(Docs) /\ new \in Docs /\ c \in Seq(Docs)
      /\ Len(s) = n - 1 /\ b \in 1 .. n /\ t[b] = new /\ n - 1 \in Nat /\ b \in Nat
      /\ \A i \in 1 .. b - 1 : t[i] = s[i]
  <2>1. c \in Seq(Docs)  BY DEF IsPage
  <2>2. b \in 1 .. n => n - 1 \in Nat /\ b \in Nat  OBVIOUS
  <2> QED  BY <1>4, <2>1, <2>2 DEF Left
<1>6. PICK l \in Nat : l = Len(c) /\ l = PageLen(n - 1)  BY <1>5 DEF IsPage
<1>7. /\ l \in 0 .. Limit /\ (l = 0 <=> n - 1 <= skip) /\ (l # 0 => skip + l <= n - 1)
      /\ (l # 0 /\ l # Limit => n - 1 = skip + l)
      /\ l = Limit <=> skip + Limit <= n - 1
  <2>1. PICK w \in Nat : w = n - 1  BY <1>5
  <2>2. l = PageLen(w)  BY <1>6, <2>1
  <2>3. /\ l \in 0 .. Limit /\ (l = 0 <=> w <= skip) /\ (l # 0 => skip + l <= w)
        /\ (l # 0 /\ l # Limit => w = skip + l)
        /\ l = Limit <=> skip + Limit <= w
    <3>1. skip \in Nat /\ w \in Nat /\ l = PageLen(w)  BY <2>2
    <3> QED  BY ONLY <3>1, PageLenIs
  <2> QED  BY <2>1, <2>3
<1>8. Limit \in Nat /\ Limit >= 2  BY Numbers
<1>9. MadeRoom(c, p, m)
  <2>1. Len(c) <= Limit  BY <1>6, <1>7, <1>8
  <2> QED  BY <1>2, <1>5, <2>1, RoomIs
<1>10. /\ p \in Seq(Docs) /\ Len(p) \in Nat /\ Len(p) <= l
       /\ \A i \in 1 .. Len(p) : p[i] = c[i]
  <2>1. CASE p = c
    <3>1. p \in Seq(Docs) /\ Len(p) = l  BY <1>5, <1>6, <2>1
    <3>2. \A i \in 1 .. Len(p) : p[i] = c[i]  BY <2>1
    <3> QED  BY <3>1, <3>2
  <2>2. CASE \E y : Put(c, p, l, y)
    <3>1. PICK y : Put(c, p, l, y)  BY <2>2
    <3>2. Left(p, c, l, y, l)  BY <1>6, <3>1, PutLeft
    <3>3. p \in Seq(Docs) /\ Len(p) = l - 1 /\ \A i \in 1 .. l - 1 : c[i] = p[i]  BY <3>2 DEF Left
    <3> QED  BY <3>3
  <2> QED  BY <1>6, <1>9, <2>1, <2>2 DEF MadeRoom
<1>11. /\ c = << >> => to = Null
       /\ c # << >> => \/ to = Before /\ b <= skip + 1
                       \/ to = After /\ b > skip + l
                       \/ to \in 1 .. l /\ b = skip + to
  <2>1. c = << >> => to = Null  BY <1>1 DEF RelPosition
  <2>2. c # << >> => \/ to = Before /\ b <= skip + 1
                     \/ to = After /\ b > skip + Len(c)
                     \/ to \in 1 .. Len(c) /\ b = skip + to
    BY <1>1, EntersAt
  <2> QED  BY <1>6, <2>1, <2>2
<1>12. /\ l = 0 <=> c = << >>
       /\ \A i \in 1 .. l : i \in 1 .. Limit
  <2>1. Len(c) = 0 <=> c = << >>  BY <1>5
  <2> QED  BY <1>6, <1>7, <1>8, <2>1
<1>13. \A i \in 1 .. l : c[i] = s[skip + i]  BY <1>6 DEF IsPage
<1>14. /\ At(page, 1) = IF skip + 1 <= n THEN t[skip + 1] ELSE Nothing
       /\ At(page, 2) = IF skip + 2 <= n THEN t[skip + 2] ELSE Nothing
       /\ page \in Seq(Docs)
  BY <1>2, <1>4, FrontSlice
<1>15. CASE to = After
  <2>1. c # << >>  BY <1>11, <1>15, Types
  <2>2. PICK h : h = (Len(c) = Limit) /\ out = Unmoved(c, h)  BY <1>3, <1>15 DEF EntersTo
  <2>3. out.cache = c /\ out.msgs = << >>  BY <2>2 DEF Unmoved, Outcome, Ends
  <2>4. l = Limit
    <3> SUFFICES ASSUME l # Limit PROVE FALSE
      OBVIOUS
    <3>1. h = FALSE  BY <1>6, <2>2
    <3>2. out.tracks = FALSE  BY <2>2, <3>1 DEF Unmoved, Outcome, Ends
    <3> QED  BY <3>2
  <2>5. b > skip + l  BY <1>11, <1>12, <1>15, <2>1, Types
  <2>6. PageLen(n) = l
    <3>1. skip + Limit <= n  BY <1>5, <1>7, <1>8, <2>4
    <3> QED  BY <2>4, <3>1, PageLenOf
  <2>7. \A i \in 1 .. l : c[i] = t[skip + i]
    <3> TAKE i \in 1 .. l
    <3>1. skip + i \in 1 .. b - 1  BY <1>5, <2>5
    <3> QED  BY <1>5, <1>13, <3>1
  <2>8. IsPage(c, t)  BY <1>4, <1>5, <1>6, <2>6, <2>7 DEF IsPage
  <2> QED  BY <2>3, <2>8, SilenceHeard DEF Kept
<1>16. ASSUME to \in {Before, Null} PROVE b <= skip + 1
  <2>1. CASE c = << >>
    <3>1. n - 1 <= skip  BY <1>7, <1>12, <2>1
    <3> QED  BY <1>5, <3>1
  <2>2. CASE c # << >>
    <3>1. ~ (to \in 1 .. l) /\ to # After  BY <1>12, <1>16, Types
    <3> QED  BY <1>11, <2>2, <3>1
  <2> QED  BY <2>1, <2>2
<1>17. ASSUME NEW x \in Docs, x = t[skip + 1], skip + 1 <= n, to \in {Before, Null},
              out.cache = <<x>> \o p, out.msgs = Append(m, Add(x))
       PROVE  Kept(out, c, t)
  <2>1. PICK q, i : q = <<x>> \o p /\ i = 1  OBVIOUS
  <2>2. Put(q, p, i, x)  BY <1>10, <2>1, ConsPuts
  <2>3. IsPage(q, t) /\ Hear(IdsOf(c), Append(m, Add(x))) = IdsOf(q)
    <3>1. x = t[skip + i] /\ (b = skip + i \/ (i = 1 /\ b <= skip + 1)) /\ skip < Len(t)
      BY <1>4, <1>16, <1>17, <2>1
    <3> QED  BY <1>9, <2>2, <3>1, GrowsHeard
  <2> QED  BY <1>17, <2>1, <2>3 DEF Kept
<1>18. CASE to \in {Before, Null} /\ skip = 0
  <2>1. Ends(out, <<new>> \o p, Append(m, Add(new)), TRUE)  BY <1>3, <1>18 DEF EntersTo
  <2>2. out.cache = <<new>> \o p /\ out.msgs = Append(m, Add(new))  BY <2>1 DEF Outcome, Ends
  <2>3. b = skip + 1 /\ skip + 1 <= n  BY <1>5, <1>16, <1>18
  <2> QED  BY <1>5, <1>17, <1>18, <2>2, <2>3
<1>19. CASE to \in {Before, Null} /\ skip # 0
  <2>1. PICK h : /\ h = (page # << >>)
                 /\ Ends(out, <<At(page, 1)>> \o p, Append(m, Add(At(page, 1))), h)
    <3>1. At(page, 2) = At(c, 1)
      <4> SUFFICES ASSUME At(page, 2) # At(c, 1) PROVE FALSE
        OBVIOUS
      <4>1. out = Unmoved(c, FALSE)  BY <1>3, <1>19 DEF EntersTo
      <4>2. out.tracks = FALSE  BY <4>1 DEF Unmoved, Outcome, Ends
      <4> QED  BY <4>2
    <3> QED  BY <1>3, <1>19, <3>1 DEF EntersTo
  <2>2. PICK x : x = At(page, 1)  OBVIOUS
  <2>3. out.cache = <<x>> \o p /\ out.msgs = Append(m, Add(x))  BY <2>1, <2>2 DEF Outcome, Ends
  <2>4. page # << >>
    <3> SUFFICES ASSUME page = << >> PROVE FALSE
      OBVIOUS
    <3>1. h = FALSE  BY <2>1
    <3>2. out.tracks = FALSE  BY <2>1, <3>1 DEF Outcome, Ends
    <3> QED  BY <3>2
  <2>5. x \in Docs /\ x = t[skip + 1] /\ skip + 1 <= n
    <3>1. 1 \in 1 .. Len(page)  BY <1>14, <2>4
    <3>2. At(page, 1) # Nothing /\ At(page, 1) \in Docs  BY <1>14, <3>1, AtIs
    <3> QED  BY <1>14, <2>2, <3>2
  <2> QED  BY <1>17, <1>19, <2>3, <2>5
<1>20. CASE to \in 1 .. l /\ c # << >>
  <2>1. /\ to # After /\ to \notin {Before, Null} /\ to \in Nat
    <3>1. to \in 1 .. Limit /\ to \in Nat  BY <1>12, <1>20
    <3> QED  BY <3>1, Types
  <2>2. b = skip + to  BY <1>11, <1>20, <2>1
  <2>3. PICK h : /\ h = (to \in DOMAIN p)
                 /\ Ends(out, CacheInsert(p, new, to), Append(m, Add(new)), h)
    BY <1>3, <2>1 DEF EntersTo
  <2>4. to \in DOMAIN p
    <3> SUFFICES ASSUME to \notin DOMAIN p PROVE FALSE
      OBVIOUS
    <3>1. (to \in DOMAIN p) = FALSE  OBVIOUS
    <3>2. h = FALSE
      <4>1. h = (to \in DOMAIN p)  BY <2>3
      <4> QED  BY <3>1, <4>1
    <3>3. out.tracks = FALSE  BY <2>3, <3>2 DEF Outcome, Ends
    <3> QED  BY <3>3
  <2>5. to \in 1 .. Len(p) /\ to \in 1 .. Len(p) + 1
    <3>1. DOMAIN p = 1 .. Len(p)  BY <1>10
    <3> QED  BY <1>10, <2>1, <2>4, <3>1
  <2>6. p[to].id # new.id
    <3>1. p[to] = s[skip + to]  BY <1>10, <1>13, <1>20, <2>5
    <3>2. new.id \notin IdsOf(s)  BY PutApart
    <3>3. skip + to \in DOMAIN s
      <4>1. DOMAIN s = 1 .. n - 1
        <5>1. DOMAIN s = 1 .. Len(s)  BY <1>5
        <5> QED  BY <1>5, <5>1
      <4>2. skip + to \in 1 .. n - 1  BY <1>5, <1>7, <1>20, <2>1
      <4> QED  BY <4>1, <4>2
    <3> QED  BY <3>1, <3>2, <3>3 DEF IdsOf
  <2>7. PICK q : q = InsertAt(p, to, new)  OBVIOUS
  <2>8. out.cache = q /\ out.msgs = Append(m, Add(new))
    <3>1. CacheInsert(p, new, to) = q  BY <2>4, <2>6, <2>7 DEF CacheInsert
    <3> QED  BY <2>3, <3>1 DEF Outcome, Ends
  <2>9. Put(q, p, to, new)  BY <1>5, <1>10, <2>5, <2>7, InsertPuts
  <2>10. IsPage(q, t) /\ Hear(IdsOf(c), Append(m, Add(new))) = IdsOf(q)
    <3>1. new = t[skip + to] /\ skip < Len(t)  BY <1>4, <1>5, <2>1, <2>2, <1>20
    <3> QED  BY <1>9, <2>2, <2>9, <3>1, GrowsHeard
  <2> QED  BY <2>8, <2>10 DEF Kept
<1> QED  BY <1>11, <1>15, <1>18, <1>19, <1>20

\* What becomes of a write: none of it passes, or it moves, leaves or enters.
PublishTo(out, c, k, id, from, to) ==
  /\ from = Out /\ to = Out => out = Unmoved(c, TRUE)
  /\ from # Out /\ to # Out
     => out = Moves(c, k, [id |-> id, key |-> from], [id |-> id, key |-> to])
  /\ from # Out /\ to = Out => out = Leaves(c, k, [id |-> id, key |-> from])
  /\ from = Out /\ to # Out => out = Enters(c, k, [id |-> id, key |-> to])

LEMMA PublishIs ==
  ASSUME NEW c, NEW k, NEW id, NEW from, NEW to
  PROVE  PublishTo(ShouldPublish(c, k, id, from, to), c, k, id, from, to)
<1> QED  BY DEF ShouldPublish, PublishTo

\* One write to a page that is as the database has it.
LEMMA WriteKept ==
  ASSUME skip \in Nat, NEW k \in KeyMaps, NEW id \in DocIds, NEW to \in 0 .. NumKeys,
         NEW w, w = [k EXCEPT ![id] = to], ~ Tied(k), ~ Tied(w),
         NEW c, IsPage(c, Sorted(k)),
         NEW out, out = ShouldPublish(c, w, id, k[id], to), out.tracks
  PROVE  Kept(out, c, Sorted(w))
<1>1. w \in KeyMaps /\ w[id] = to /\ k[id] \in 0 .. NumKeys  BY DEF KeyMaps
<1>2. PICK s, t : s = Sorted(k) /\ t = Sorted(w)  OBVIOUS
<1>3. /\ Ascends(s) /\ Ascends(t) /\ Distinct(s) /\ Distinct(t)
  BY <1>1, <1>2, SortedAscends, SortedDistinct
<1>4. PICK from : from = k[id]  OBVIOUS
<1>5. PICK old, new : old = [id |-> id, key |-> from] /\ new = [id |-> id, key |-> to]  OBVIOUS
<1>6. PublishTo(out, c, w, id, from, to)  BY <1>4, PublishIs
<1>7. DocOf(k, id) = old /\ DocOf(w, id) = new  BY <1>1, <1>4, <1>5 DEF DocOf
<1>8. PICK r : r = [k EXCEPT ![id] = Out]  OBVIOUS
<1>9. r = [w EXCEPT ![id] = Out] /\ (to = Out => r = w) /\ (from = Out => r = k)
  <2>1. r = [w EXCEPT ![id] = Out]  BY <1>1, <1>8 DEF KeyMaps
  <2>2. to = Out => r = w  BY <1>8
  <2>3. from = Out => r = k  BY <1>4, <1>8 DEF KeyMaps
  <2> QED  BY <2>1, <2>2, <2>3
<1>10. from # Out => \E a : Put(s, Sorted(r), a, old)
  <2> SUFFICES ASSUME from # Out PROVE \E a : Put(s, Sorted(r), a, old)
    OBVIOUS
  <2>1. id \in Found(k)  BY <1>4 DEF Found
  <2>2. \E a : Put(Sorted(k), Sorted(r), a, DocOf(k, id))  BY <1>8, <2>1, SortedWithout
  <2> QED  BY <1>2, <1>7, <2>2
<1>11. to # Out => \E b : Put(t, Sorted(r), b, new)
  <2> SUFFICES ASSUME to # Out PROVE \E b : Put(t, Sorted(r), b, new)
    OBVIOUS
  <2>1. id \in Found(w)  BY <1>1 DEF Found
  <2>2. \E b : Put(Sorted(w), Sorted(r), b, DocOf(w, id))  BY <1>1, <1>9, <2>1, SortedWithout
  <2> QED  BY <1>2, <1>7, <2>2
<1>12. CASE from = Out /\ to = Out
  <2>1. out.cache = c /\ out.msgs = << >>  BY <1>6, <1>12 DEF PublishTo, Unmoved, Outcome, Ends
  <2>2. t = s  BY <1>2, <1>9, <1>12
  <2> QED  BY <1>2, <2>1, <2>2, SilenceHeard DEF Kept
<1>13. CASE from # Out /\ to # Out
  <2>1. out = Moves(c, w, old, new)  BY <1>5, <1>6, <1>13 DEF PublishTo
  <2>2. PICK a : Put(s, Sorted(r), a, old)  BY <1>10, <1>13
  <2>3. PICK b : Put(t, Sorted(r), b, new)  BY <1>11, <1>13
  <2>4. old.id = new.id  BY <1>5
  <2>5. IsPage(c, s)  BY <1>2
  <2> QED  BY <1>1, <1>2, <1>3, <2>1, <2>2, <2>3, <2>4, <2>5, MovesKept
<1>14. CASE from # Out /\ to = Out
  <2>1. out = Leaves(c, w, old)  BY <1>5, <1>6, <1>14 DEF PublishTo
  <2>2. PICK a : Put(s, Sorted(r), a, old)  BY <1>10, <1>14
  <2>3. Put(s, t, a, old) /\ IsPage(c, s)  BY <1>2, <1>9, <1>14, <2>2
  <2> QED  BY <1>1, <1>2, <1>3, <2>1, <2>3, LeavesKept
<1>15. CASE from = Out /\ to # Out
  <2>1. out = Enters(c, w, new)  BY <1>5, <1>6, <1>15 DEF PublishTo
  <2>2. PICK b : Put(t, Sorted(r), b, new)  BY <1>11, <1>15
  <2>3. Put(t, s, b, new) /\ IsPage(c, s)  BY <1>2, <1>9, <1>15, <2>2
  <2> QED  BY <1>1, <1>2, <1>3, <2>1, <2>3, EntersKept
<1> QED  BY <1>12, <1>13, <1>14, <1>15

-----------------------------------------------------------------------------
(* Pages: a node that has lost track                                       *)

\* What a cache and the messages are, whatever happened before.
Fair(c) == c = <<Nothing>> \/ (c \in Seq(Docs) /\ Len(c) <= Limit)
Telling(m) == m = << >> \/ (\E x \in Said : m = <<x>>) \/ (\E x, y \in Said : m = <<x, y>>)
Sound(out) == Fair(out.cache) /\ Telling(out.msgs)

\* A client that hears them knows documents, if it did.
LEMMA TellingKnown ==
  ASSUME NEW m, Telling(m), NEW ids, ids \subseteq DocIds
  PROVE  Hear(ids, m) \subseteq DocIds
<1>1. ASSUME NEW x \in Said, NEW K, K \subseteq DocIds PROVE Heard(K, x) \subseteq DocIds
  <2>1. {x.id} \ {Out} \subseteq DocIds  BY Numbers DEF Said, Out, DocIds
  <2> QED  BY <1>1, <2>1 DEF Heard
<1>2. CASE m = << >>  BY <1>2, SilenceHeard
<1>3. CASE \E x \in Said : m = <<x>>
  <2>1. PICK x \in Said : m = <<x>>  BY <1>3
  <2>2. Hear(ids, <<x>>) = Heard(ids, x)  BY HearIs
  <2> QED  BY <1>1, <2>1, <2>2
<1>4. CASE \E x, y \in Said : m = <<x, y>>
  <2>1. PICK x \in Said, y \in Said : m = <<x, y>>  BY <1>4
  <2>2. Hear(ids, <<x, y>>) = Heard(Heard(ids, x), y)  BY HearIs
  <2>3. PICK K : K = Heard(ids, x)  OBVIOUS
  <2>4. K \subseteq DocIds  BY <1>1, <2>3
  <2>5. Heard(K, y) \subseteq DocIds  BY <1>1, <2>4
  <2> QED  BY <2>1, <2>2, <2>3, <2>5
<1> QED  BY <1>2, <1>3, <1>4 DEF Telling

\* Lists of documents and their lengths.
Sized(c, l) == c \in Seq(Docs) /\ Len(c) = l

LEMMA Sizes ==
  ASSUME NEW l \in Nat, NEW c, Sized(c, l), NEW d \in Docs
  PROVE  /\ \A i \in 1 .. l + 1 : Sized(InsertAt(c, i, d), l + 1)
         /\ \A i \in 1 .. l : Sized(RemoveAt(c, i), l - 1)
         /\ Sized(Append(c, d), l + 1) /\ Sized(<<d>> \o c, l + 1)
         /\ l # 0 => /\ Sized(Tail(c), l - 1) /\ Sized(Front(c), l - 1)
                     /\ Head(c) \in Docs /\ Last(c) \in Docs
<1>1. c \in Seq(Docs) /\ Len(c) = l /\ DOMAIN c = 1 .. l  BY DEF Sized
<1>2. ASSUME NEW q, NEW i, NEW x, Put(q, c, i, x) PROVE Sized(q, l + 1)
  BY <1>1, <1>2 DEF Put, Sized
<1>3. ASSUME NEW p, NEW i, NEW x, Put(c, p, i, x) PROVE Sized(p, l - 1) /\ x \in Docs
  <2>1. p \in Seq(Docs) /\ l = Len(p) + 1 /\ x \in Docs  BY <1>1, <1>3 DEF Put
  <2> QED  BY <2>1 DEF Sized
<1>4. ASSUME NEW i \in 1 .. l + 1 PROVE Sized(InsertAt(c, i, d), l + 1)
  <2>1. Put(InsertAt(c, i, d), c, i, d)  BY <1>1, InsertPuts
  <2> QED  BY <1>2, <2>1
<1>5. ASSUME NEW i \in 1 .. l PROVE Sized(RemoveAt(c, i), l - 1)
  <2>1. Put(c, RemoveAt(c, i), i, c[i])  BY <1>1, RemovePuts
  <2> QED  BY <1>3, <2>1
<1>6. Sized(Append(c, d), l + 1)
  <2>1. Put(Append(c, d), c, l + 1, d)  BY <1>1, AppendPuts
  <2> QED  BY <1>2, <2>1
<1>7. Sized(<<d>> \o c, l + 1)
  <2>1. Put(<<d>> \o c, c, 1, d)  BY <1>1, ConsPuts
  <2> QED  BY <1>2, <2>1
<1>8. ASSUME l # 0
      PROVE  /\ Sized(Tail(c), l - 1) /\ Sized(Front(c), l - 1)
             /\ Head(c) \in Docs /\ Last(c) \in Docs
  <2>1. Put(c, Tail(c), 1, c[1])  BY <1>1, <1>8, TailPuts
  <2>2. Put(c, Front(c), l, c[l])  BY <1>1, <1>8, FrontPuts
  <2>3. Head(c) = c[1] /\ Last(c) = c[l]  BY <1>1, <1>8 DEF Last
  <2> QED  BY <1>3, <2>1, <2>2, <2>3
<1> QED  BY <1>4, <1>5, <1>6, <1>7, <1>8

\* What a refill makes of a list.
LEMMA RefillSizes ==
  ASSUME skip \in Nat, NEW k \in KeyMaps, NEW l \in Nat, NEW c, Sized(c, l),
         NEW r, r = Refill(c, k), NEW y \in Said
  PROVE  /\ Sized(Refilled(c, r), l) \/ Sized(Refilled(c, r), l + 1)
         /\ Telling(Append(RefillMsgs(r), y))
<1>1. c \in Seq(Docs)  BY DEF Sized
<1>2. PICK n \in Nat : n = Len(Sorted(k))  BY SortedIs
<1>3. (r.there => r.doc \in Docs) /\ (r.sane => r.there)  BY <1>1, <1>2, RefillIs
<1>4. CASE r.sane
  <2>1. PICK x \in Docs : x = r.doc  BY <1>3, <1>4
  <2>2. Refilled(c, r) = Append(c, x) /\ RefillMsgs(r) = <<Add(x)>>
    BY <1>4, <2>1 DEF Refilled, RefillMsgs
  <2>3. Sized(Append(c, x), l + 1)  BY Sizes
  <2>4. Add(x) \in Said  BY SaidIs
  <2>5. Append(<<Add(x)>>, y) = <<Add(x), y>>  BY <2>4, Pair
  <2> QED  BY <2>2, <2>3, <2>4, <2>5 DEF Telling
<1>5. CASE ~ r.sane
  <2>1. Refilled(c, r) = c /\ RefillMsgs(r) = << >>  BY <1>5 DEF Refilled, RefillMsgs
  <2>2. Append(<< >>, y) = <<y>>  OBVIOUS
  <2> QED  BY <2>1, <2>2 DEF Telling
<1> QED  BY <1>4, <1>5

\* The undefined element alone, or none.
LEMMA Small ==
  ASSUME NEW d \in Docs
  PROVE  /\ RelPosition(<<Nothing>>, d) = Undefined /\ RelPosition(<< >>, d) = Null
         /\ Without(<<Nothing>>, Undefined) = << >> /\ Without(<< >>, Null) = << >>
         /\ With(<< >>, Undefined, d) = <<d>> /\ With(<< >>, Null, d) = <<d>>
         /\ FromType(Undefined) = "curr" /\ Undefined # Before /\ Undefined # After
         /\ Undefined # Null /\ Undefined > Limit
<1>1. /\ FromType(Undefined) = "curr" /\ Undefined # Before /\ Undefined # After
      /\ Undefined # Null /\ Undefined > Limit
  BY Numbers DEF FromType, Undefined, Before, After, Null
<1>2. RelPosition(<< >>, d) = Null  BY DEF RelPosition
<1>3. PICK u : u = <<Nothing>>  OBVIOUS
<1>4. u # << >> /\ u[1] = Nothing /\ DOMAIN u = 1 .. 1 /\ Len(u) = 1 /\ u \in Seq({Nothing})
  BY <1>3
<1>5. RelPosition(u, d) = Undefined  BY <1>4 DEF RelPosition
<1>6. Index(Undefined) = 1 /\ Index(Null) = 1  BY DEF Index
<1>7. Without(u, Undefined) = << >>
  <2>1. Without(u, Undefined) = RemoveAt(u, 1)  BY <1>4, <1>6 DEF Without
  <2>2. RemoveAt(u, 1) = << >>
    <3>1. RemoveAt(u, 1) = SubSeq(u, 1, 0) \o SubSeq(u, 2, 1)  BY <1>4 DEF RemoveAt
    <3>2. SubSeq(u, 1, 0) = << >> /\ SubSeq(u, 2, 1) = << >>  BY <1>4
    <3> QED  BY <3>1, <3>2
  <2> QED  BY <2>1, <2>2
<1>8. Without(<< >>, Null) = << >>  BY DEF Without
<1>9. PICK e : e = << >>  OBVIOUS
<1>10. e \in Seq(Docs) /\ Len(e) = 0  BY <1>9
<1>11. InsertAt(e, 1, d) = <<d>>
  <2>1. Put(InsertAt(e, 1, d), e, 1, d)
    <3>1. PICK i : i = 1  OBVIOUS
    <3>2. i \in 1 .. Len(e) + 1  BY <1>10, <3>1
    <3>3. Put(InsertAt(e, i, d), e, i, d)  BY <1>10, <3>2, InsertPuts
    <3> QED  BY <3>1, <3>3
  <2>2. PICK q : q = InsertAt(e, 1, d)  OBVIOUS
  <2>3. q \in Seq(Docs) /\ Len(q) = 1 /\ q[1] = d  BY <1>10, <2>1, <2>2 DEF Put
  <2>4. q = <<d>>  BY <2>3
  <2> QED  BY <2>2, <2>4
<1>12. With(e, Undefined, d) = <<d>> /\ With(e, Null, d) = <<d>>
  BY <1>1, <1>6, <1>11, Types DEF With
<1> QED  BY <1>1, <1>2, <1>3, <1>5, <1>7, <1>8, <1>9, <1>12

\* A document goes into an empty list, or takes the place of the undefined element.
LEMMA OneFair == ASSUME NEW d \in Docs PROVE Fair(<<d>>) /\ Fair(<< >>)
<1>1. PICK q, e : q = <<d>> /\ e = << >>  OBVIOUS
<1>2. q \in Seq(Docs) /\ Len(q) = 1 /\ e \in Seq(Docs) /\ Len(e) = 0  BY <1>1
<1> QED  BY <1>1, <1>2, Numbers DEF Fair

LEMMA SizedFair ==
  ASSUME NEW c, NEW l, NEW m, Sized(c, l), l <= Limit, Telling(m), NEW h, NEW out,
         Ends(out, c, m, h)
  PROVE  Sound(out)
<1>1. out.cache = c /\ out.msgs = m  BY DEF Outcome, Ends
<1> QED  BY <1>1 DEF Sized, Fair, Sound

LEMMA Positions ==
  ASSUME NEW c \in Seq(Docs), NEW l \in Nat, l = Len(c), l # 0, NEW d \in Docs
  PROVE  RelPosition(c, d) \in {Before, After} \cup 1 .. l
<1>1. PICK p : p = RelPosition(c, d)  OBVIOUS
<1>2. c # << >>  OBVIOUS
<1>3. Stands(c, d, p)  BY <1>1, <1>2, RelPositionIs
<1> QED  BY <1>1, <1>3 DEF Stands

LEMMA MovesSound ==
  ASSUME skip \in Nat, NEW k \in KeyMaps, NEW old \in Docs, NEW new \in Docs, NEW c, Fair(c),
         NEW out, out = Moves(c, k, old, new)
  PROVE  Sound(out)
<1>1. PICK from, to : from = RelPosition(c, old) /\ to = RelPosition(c, new)  OBVIOUS
<1>2. PICK rf : rf = Refill(c, k)  OBVIOUS
<1>3. PICK first, second : first = At(Slice(k, 0, 2), 1) /\ second = At(Slice(k, 0, 2), 2)  OBVIOUS
<1>4. PICK f, g : f = FromType(from) /\ g = ToType(c, from, to)  OBVIOUS
<1>5. MovesTo(out, c, new, from, to, f, g, first, second, rf)
  BY <1>1, <1>2, <1>3, <1>4, MovesIs
<1>6. /\ Add(new) \in Said /\ Rm(new) \in Said /\ Txn(new) \in Said
      /\ Telling(<<Txn(new)>>) /\ Telling(<< >>)
  BY SaidIs DEF Telling
<1>7. CASE c = <<Nothing>> \/ c = << >>
  <2>1. PICK p \in {Undefined, Null} :
           /\ from = p /\ to = p /\ p \in Nat /\ p # Before /\ FromType(p) = "curr"
           /\ With(Without(c, p), p, new) = <<new>>
    <3>1. Undefined \in Nat /\ Null \in Nat  BY Numbers DEF Undefined, Null
    <3>2. CASE c = <<Nothing>>  BY <1>1, <3>1, <3>2, Small
    <3>3. CASE c = << >>  BY <1>1, <3>1, <3>3, Small, Types
    <3> QED  BY <1>7, <3>2, <3>3
  <2>2. f = "curr" /\ g = "curr"  BY <1>4, <2>1, ToTypeIs
  <2>3. PICK q, h : /\ q = IF from < to THEN Without(With(c, to, new), from)
                           ELSE With(Without(c, from), to, new)
                    /\ Ends(out, q, <<Txn(new)>>, h)
    BY <1>5, <2>2 DEF MovesTo
  <2>4. ~ (from < to)  BY <2>1
  <2>5. q = <<new>>  BY <2>1, <2>3, <2>4
  <2>6. out.cache = q /\ out.msgs = <<Txn(new)>>  BY <2>3 DEF Outcome, Ends
  <2> QED  BY <1>6, <2>5, <2>6, OneFair DEF Sound
<1>8. CASE c # <<Nothing>> /\ c # << >>
  <2>1. c \in Seq(Docs) /\ Len(c) <= Limit  BY <1>8 DEF Fair
  <2>2. PICK l \in Nat : l = Len(c) /\ l # 0  BY <1>8, <2>1
  <2>3. Sized(c, l) /\ l <= Limit /\ Limit \in Nat /\ l \in 1 .. Limit
    BY <2>1, <2>2, Numbers DEF Sized
  <2>4. from \in {Before, After} \cup 1 .. l /\ to \in {Before, After} \cup 1 .. l
    BY <1>1, <2>1, <2>2, Positions
  <2>5. /\ from \in 1 .. l => f = "curr" /\ Index(from) = from /\ from # Before /\ from # After
        /\ to \in 1 .. l => FromType(to) = "curr" /\ Index(to) = to /\ to # Before /\ to # After
        /\ from = Before => f = "prior"
        /\ from = After => f = "later"
        /\ to = Before => g = "prior"
        /\ to \in 1 .. l => g = "curr"
        /\ to = After /\ from # Before => g = "later"
        /\ to = After /\ from = Before => g = IF l < Limit THEN "curr" ELSE "later"
    <3>1. \A i \in 1 .. l : i \in 1 .. Limit  BY <2>3
    <3> QED  BY <1>4, <2>2, <3>1, Types, ToTypeIs
  <2>6. /\ l \in 1 .. l /\ l - 1 \in Nat /\ l - 1 <= Limit /\ l + 1 \in Nat /\ (l + 1) - 1 = l
        /\ l + 1 # 0
    BY <2>2, <2>3
  <2>7. first \in Docs \/ second # At(c, 1)
    <3>1. PICK e : e = Slice(k, 0, 2)  OBVIOUS
    <3>2. PICK n \in Nat : n = Len(Sorted(k))  BY SortedIs
    <3>3. e \in Seq(Docs)  BY <3>1, <3>2, FrontSlice
    <3>4. 1 \in 1 .. Len(c)  BY <2>2
    <3>5. At(c, 1) # Nothing  BY <2>1, <3>4, AtIs
    <3>6. CASE second # Nothing
      <4>1. 2 \in 1 .. Len(e)  BY <1>3, <3>1, <3>3, <3>6, AtIs
      <4>2. 1 \in 1 .. Len(e)  BY <3>3, <4>1
      <4> QED  BY <1>3, <3>1, <3>3, <4>2, AtIs
    <3> QED  BY <3>5, <3>6
  <2>8. CASE (f = "prior" /\ g = "prior") \/ (f = "later" /\ g = "later")
    <3>1. Ends(out, c, << >>, TRUE)  BY <1>5, <2>8, EndsIs DEF MovesTo, Unmoved
    <3> QED  BY <1>6, <2>3, <3>1, SizedFair
  <2>9. ASSUME g = "curr", f # "curr"
        PROVE  LET more == With(c, to, new) IN
               /\ Sized(Tail(more), l) /\ Sized(Front(more), l)
               /\ Head(more) \in Docs /\ Last(more) \in Docs
    <3>1. PICK more : more = With(c, to, new)  OBVIOUS
    <3>2. Sized(more, l + 1)
      <4>1. CASE to = After
        <5>1. more = Append(c, new)  BY <3>1, <4>1 DEF With
        <5> QED  BY <2>3, <5>1, Sizes
      <4>2. CASE to \in 1 .. l
        <5>1. more = InsertAt(c, to, new)  BY <2>5, <3>1, <4>2 DEF With
        <5>2. to \in 1 .. l + 1  BY <4>2
        <5> QED  BY <2>3, <5>1, <5>2, Sizes
      <4>3. to # Before  BY <2>5, <2>9
      <4> QED  BY <2>4, <4>1, <4>2, <4>3
    <3>3. /\ Sized(Tail(more), (l + 1) - 1) /\ Sized(Front(more), (l + 1) - 1)
          /\ Head(more) \in Docs /\ Last(more) \in Docs
      <4>1. PICK o \in Nat : o = l + 1 /\ o # 0  BY <2>6
      <4>2. Sized(more, o)  BY <3>2, <4>1
      <4>3. /\ Sized(Tail(more), o - 1) /\ Sized(Front(more), o - 1)
            /\ Head(more) \in Docs /\ Last(more) \in Docs
        BY <4>1, <4>2, Sizes
      <4> QED  BY <4>1, <4>3
    <3> QED  BY <2>6, <3>1, <3>3
  <2>10. CASE f = "prior" /\ g = "curr"
    <3>1. PICK more, y : more = With(c, to, new) /\ y = Head(more)  OBVIOUS
    <3>2. Ends(out, Tail(more), <<Rm(y), Add(new)>>, TRUE)  BY <1>5, <2>10, <3>1 DEF MovesTo
    <3>3. Sized(Tail(more), l) /\ y \in Docs  BY <2>9, <2>10, <3>1
    <3>4. Telling(<<Rm(y), Add(new)>>)  BY <1>6, <3>3, SaidIs DEF Telling
    <3> QED  BY <2>3, <3>2, <3>3, <3>4, SizedFair
  <2>11. PICK more : more = Refilled(c, rf)  OBVIOUS
  <2>12. PICK o \in Nat : Sized(more, o) /\ (o = l \/ o = l + 1) /\ o # 0
    <3>1. Sized(more, l) \/ Sized(more, l + 1)  BY <1>2, <1>6, <2>3, <2>11, RefillSizes
    <3> QED  BY <2>2, <2>6, <3>1
  <2>13. o - 1 <= Limit /\ o - 1 \in Nat  BY <2>3, <2>6, <2>12
  <2>14. CASE f = "prior" /\ g = "later"
    <3>1. PICK y : y = Head(more)  OBVIOUS
    <3>2. PICK h : Ends(out, Tail(more), Append(RefillMsgs(rf), Rm(y)), h)
      BY <1>5, <2>11, <2>14, <3>1 DEF MovesTo
    <3>3. Sized(Tail(more), o - 1) /\ y \in Docs  BY <2>12, <3>1, Sizes
    <3>4. Telling(Append(RefillMsgs(rf), Rm(y)))
      <4>1. Rm(y) \in Said  BY <3>3, SaidIs
      <4> QED  BY <1>2, <2>3, <4>1, RefillSizes
    <3> QED  BY <2>13, <3>2, <3>3, <3>4, SizedFair
  <2>15. ASSUME from \in 1 .. l PROVE Without(c, from) = RemoveAt(c, from)
    <3>1. DOMAIN c = 1 .. l  BY <2>1, <2>2
    <3> QED  BY <2>5, <2>15, <3>1 DEF Without
  <2>16. CASE f = "curr" /\ g = "prior"
    <3>1. from \in 1 .. l  BY <2>4, <2>5, <2>16
    <3>2. CASE second # At(c, 1)
      <4>1. Ends(out, c, << >>, FALSE)  BY <1>5, <2>16, <3>2, EndsIs DEF MovesTo, Unmoved
      <4> QED  BY <1>6, <2>3, <4>1, SizedFair
    <3>3. CASE second = At(c, 1)
      <4>1. first \in Docs  BY <2>7, <3>3
      <4>2. PICK m : /\ m = <<Txn(new)>> \/ m = <<Rm(new), Add(first)>>
                     /\ Ends(out, <<first>> \o Without(c, from), m, TRUE)
        BY <1>5, <2>16, <3>3 DEF MovesTo
      <4>3. Telling(m)  BY <1>6, <4>1, <4>2, SaidIs DEF Telling
      <4>4. Sized(<<first>> \o Without(c, from), l)
        <5>1. PICK p : p = RemoveAt(c, from)  OBVIOUS
        <5>2. Sized(p, l - 1)  BY <2>3, <3>1, <5>1, Sizes
        <5>3. PICK z \in Nat : z = l - 1 /\ z + 1 = l  BY <2>6
        <5>4. Sized(<<first>> \o p, z + 1)  BY <4>1, <5>2, <5>3, Sizes
        <5> QED  BY <2>15, <3>1, <5>1, <5>3, <5>4
      <4> QED  BY <2>3, <4>2, <4>3, <4>4, SizedFair
    <3> QED  BY <3>2, <3>3
  <2>17. CASE f = "curr" /\ g = "curr"
    <3>1. from \in 1 .. l /\ to \in 1 .. l  BY <2>4, <2>5, <2>17
    <3>2. PICK q, h : /\ q = IF from < to THEN Without(With(c, to, new), from)
                             ELSE With(Without(c, from), to, new)
                      /\ Ends(out, q, <<Txn(new)>>, h)
      BY <1>5, <2>17 DEF MovesTo
    <3>3. CASE from < to
      <4>1. PICK wide : wide = With(c, to, new)  OBVIOUS
      <4>2. wide = InsertAt(c, to, new)  BY <2>5, <3>1, <4>1 DEF With
      <4>3. to \in 1 .. l + 1  BY <3>1
      <4>4. Sized(wide, l + 1)  BY <2>3, <4>2, <4>3, Sizes
      <4>5. q = RemoveAt(wide, from) /\ from \in 1 .. l + 1
        <5>1. DOMAIN wide = 1 .. l + 1 /\ from \in 1 .. l + 1  BY <2>6, <3>1, <4>4 DEF Sized
        <5> QED  BY <2>5, <3>1, <3>2, <3>3, <4>1, <5>1 DEF Without
      <4>6. PICK z \in Nat : z = l + 1 /\ z - 1 = l  BY <2>6
      <4>7. Sized(RemoveAt(wide, from), z - 1)  BY <4>4, <4>5, <4>6, Sizes
      <4> QED  BY <1>6, <2>3, <3>2, <4>5, <4>6, <4>7, SizedFair
    <3>4. CASE ~ (from < to)
      <4>1. PICK p : p = RemoveAt(c, from)  OBVIOUS
      <4>2. Sized(p, l - 1)  BY <2>3, <3>1, <4>1, Sizes
      <4>3. PICK z \in Nat : z = l - 1 /\ z + 1 = l  BY <2>6
      <4>4. q = InsertAt(p, to, new)  BY <2>5, <2>15, <3>1, <3>2, <3>4, <4>1 DEF With
      <4>5. Sized(InsertAt(p, to, new), z + 1)  BY <3>1, <4>2, <4>3, Sizes
      <4> QED  BY <1>6, <2>3, <3>2, <4>3, <4>4, <4>5, SizedFair
    <3> QED  BY <3>3, <3>4
  <2>18. CASE f = "curr" /\ g = "later"
    <3>1. from \in 1 .. l  BY <2>4, <2>5, <2>18
    <3>2. PICK h : Ends(out, Without(more, from), Append(RefillMsgs(rf), Rm(new)), h)
      BY <1>5, <2>11, <2>18 DEF MovesTo
    <3>3. from \in 1 .. o  BY <2>12, <3>1
    <3>4. Without(more, from) = RemoveAt(more, from)
      <4>1. DOMAIN more = 1 .. o  BY <2>12 DEF Sized
      <4> QED  BY <2>5, <3>1, <3>3, <4>1 DEF Without
    <3>5. Sized(RemoveAt(more, from), o - 1)  BY <2>12, <3>3, Sizes
    <3>6. Telling(Append(RefillMsgs(rf), Rm(new)))  BY <1>2, <1>6, <2>3, RefillSizes
    <3> QED  BY <2>13, <3>2, <3>4, <3>5, <3>6, SizedFair
  <2>19. CASE f = "later" /\ g = "prior"
    <3>1. PICK h, m, w : /\ h = (second = At(c, 1)) /\ m = IF h THEN <<first>> \o c ELSE c
                         /\ w = IF h THEN <<Add(first)>> ELSE << >>
                         /\ Ends(out, Front(m), Append(w, Rm(Last(m))), h)
      BY <1>5, <2>19 DEF MovesTo
    <3>2. CASE second = At(c, 1)
      <4>1. first \in Docs /\ m = <<first>> \o c /\ w = <<Add(first)>>  BY <2>7, <3>1, <3>2
      <4>2. PICK z \in Nat : z = l + 1 /\ z - 1 = l /\ z # 0  BY <2>6
      <4>3. Sized(m, z)  BY <2>3, <4>1, <4>2, Sizes
      <4>4. Sized(Front(m), z - 1) /\ Last(m) \in Docs  BY <4>2, <4>3, Sizes
      <4>5. Telling(Append(w, Rm(Last(m))))
        <5>1. Add(first) \in Said /\ Rm(Last(m)) \in Said  BY <4>1, <4>4, SaidIs
        <5>2. Append(<<Add(first)>>, Rm(Last(m))) = <<Add(first), Rm(Last(m))>>  BY <5>1, Pair
        <5> QED  BY <4>1, <5>1, <5>2 DEF Telling
      <4> QED  BY <2>3, <3>1, <4>2, <4>4, <4>5, SizedFair
    <3>3. CASE second # At(c, 1)
      <4>1. m = c /\ w = << >>  BY <3>1, <3>3
      <4>2. Sized(Front(m), l - 1) /\ Last(m) \in Docs  BY <2>2, <2>3, <4>1, Sizes
      <4>3. Telling(Append(w, Rm(Last(m))))
        <5>1. Rm(Last(m)) \in Said  BY <4>2, SaidIs
        <5>2. Append(<< >>, Rm(Last(m))) = <<Rm(Last(m))>>  OBVIOUS
        <5> QED  BY <4>1, <5>1, <5>2 DEF Telling
      <4> QED  BY <2>6, <3>1, <4>2, <4>3, SizedFair
    <3> QED  BY <3>2, <3>3
  <2>20. CASE f = "later" /\ g = "curr"
    <3>1. PICK wide, y : wide = With(c, to, new) /\ y = Last(wide)  OBVIOUS
    <3>2. Ends(out, Front(wide), <<Add(new), Rm(y)>>, TRUE)  BY <1>5, <2>20, <3>1 DEF MovesTo
    <3>3. Sized(Front(wide), l) /\ y \in Docs  BY <2>9, <2>20, <3>1
    <3>4. Telling(<<Add(new), Rm(y)>>)  BY <1>6, <3>3, SaidIs DEF Telling
    <3> QED  BY <2>3, <3>2, <3>3, <3>4, SizedFair
  <2>21. f \in {"prior", "curr", "later"} /\ g \in {"prior", "curr", "later"}
    BY <2>4, <2>5
  <2> QED  BY <2>8, <2>10, <2>14, <2>16, <2>17, <2>18, <2>19, <2>20, <2>21
<1> QED  BY <1>7, <1>8

LEMMA LeavesSound ==
  ASSUME skip \in Nat, NEW k \in KeyMaps, NEW old \in Docs, NEW c, Fair(c),
         NEW out, out = Leaves(c, k, old)
  PROVE  Sound(out)
<1>1. PICK from : from = RelPosition(c, old)  OBVIOUS
<1>2. LeavesTo(out, c, k, old, from)  BY <1>1, LeavesIs
<1>3. Rm(old) \in Said /\ Limit \in Nat /\ Limit >= 2  BY SaidIs, Numbers
\* A rest with room for one more, and the document that follows it.
<1>4. ASSUME NEW rest, NEW l \in Nat, Sized(rest, l), l + 1 <= Limit, NEW r, r = Refill(rest, k),
             NEW h, Ends(out, Refilled(rest, r), Append(RefillMsgs(r), Rm(old)), h)
      PROVE  Sound(out)
  <2>1. PICK q, m : q = Refilled(rest, r) /\ m = Append(RefillMsgs(r), Rm(old))  OBVIOUS
  <2>2. (Sized(q, l) \/ Sized(q, l + 1)) /\ Telling(m)  BY <1>3, <1>4, <2>1, RefillSizes
  <2>3. l <= Limit  BY <1>3, <1>4
  <2> QED  BY <1>4, <2>1, <2>2, <2>3, SizedFair
<1>5. CASE c = <<Nothing>> \/ c = << >>
  <2>1. from # After /\ from # Before /\ Without(c, from) = << >>
    <3>1. CASE c = <<Nothing>>  BY <1>1, <3>1, Small
    <3>2. CASE c = << >>  BY <1>1, <3>2, Small, Types
    <3> QED  BY <1>5, <3>1, <3>2
  <2>2. PICK e : e = << >>  OBVIOUS
  <2>3. PICK z \in Nat : z = 0 /\ z + 1 <= Limit  BY <1>3
  <2>4. Sized(e, z)
    <3>1. e \in Seq(Docs) /\ Len(e) = 0  BY <2>2
    <3> QED  BY <2>3, <3>1 DEF Sized
  <2>5. PICK r, h : /\ r = Refill(e, k)
                    /\ Ends(out, Refilled(e, r), Append(RefillMsgs(r), Rm(old)), h)
    BY <1>2, <2>1, <2>2 DEF LeavesTo
  <2> QED  BY <1>4, <2>3, <2>4, <2>5
<1>6. CASE c # <<Nothing>> /\ c # << >>
  <2>1. c \in Seq(Docs) /\ Len(c) <= Limit  BY <1>6 DEF Fair
  <2>2. PICK l \in Nat : l = Len(c) /\ l # 0  BY <1>6, <2>1
  <2>3. Sized(c, l) /\ l <= Limit /\ l \in 1 .. Limit  BY <1>3, <2>1, <2>2 DEF Sized
  <2>4. from \in {Before, After} \cup 1 .. l  BY <1>1, <2>1, <2>2, Positions
  <2>5. from \in 1 .. l => Index(from) = from /\ from # Before /\ from # After
    <3>1. \A i \in 1 .. l : i \in 1 .. Limit  BY <1>3, <2>3
    <3> QED  BY <3>1, Types
  <2>6. CASE from = After
    <3>1. Ends(out, c, << >>, TRUE)  BY <1>2, <2>6, EndsIs DEF LeavesTo, Unmoved
    <3>2. Telling(<< >>)  BY DEF Telling
    <3> QED  BY <2>3, <3>1, <3>2, SizedFair
  <2>7. CASE from = Before
    <3>1. PICK r : r = Refill(c, k)  OBVIOUS
    <3>2. PICK more, y : more = Refilled(c, r) /\ y = Head(more)  OBVIOUS
    <3>3. PICK h : Ends(out, Tail(more), Append(RefillMsgs(r), Rm(y)), h)
      BY <1>2, <2>7, <3>1, <3>2 DEF LeavesTo
    <3>4. PICK o \in Nat : Sized(more, o) /\ (o = l \/ o = l + 1) /\ o # 0
      <4>1. Sized(more, l) \/ Sized(more, l + 1)  BY <1>3, <2>3, <3>1, <3>2, RefillSizes
      <4>2. l + 1 \in Nat /\ l + 1 # 0  BY <2>2
      <4> QED  BY <2>2, <4>1, <4>2
    <3>5. o - 1 <= Limit  BY <1>3, <2>3, <3>4
    <3>6. Sized(Tail(more), o - 1) /\ y \in Docs  BY <3>2, <3>4, Sizes
    <3>7. Telling(Append(RefillMsgs(r), Rm(y)))
      <4>1. Rm(y) \in Said  BY <3>6, SaidIs
      <4> QED  BY <2>3, <3>1, <4>1, RefillSizes
    <3> QED  BY <3>3, <3>5, <3>6, <3>7, SizedFair
  <2>8. CASE from \in 1 .. l
    <3>1. PICK rest : rest = Without(c, from)  OBVIOUS
    <3>2. rest = RemoveAt(c, from)
      <4>1. DOMAIN c = 1 .. l  BY <2>1, <2>2
      <4> QED  BY <2>5, <2>8, <3>1, <4>1 DEF Without
    <3>3. PICK z \in Nat : z = l - 1 /\ z + 1 <= Limit  BY <1>3, <2>2, <2>3
    <3>4. Sized(rest, z)  BY <2>3, <2>8, <3>2, <3>3, Sizes
    <3>5. PICK r, h : /\ r = Refill(rest, k)
                      /\ Ends(out, Refilled(rest, r), Append(RefillMsgs(r), Rm(old)), h)
      BY <1>2, <2>5, <2>8, <3>1 DEF LeavesTo
    <3> QED  BY <1>4, <3>3, <3>4, <3>5
  <2> QED  BY <2>4, <2>6, <2>7, <2>8
<1> QED  BY <1>5, <1>6

\* A cache that has made room takes one more.
LEMMA RoomSizes ==
  ASSUME NEW c \in Seq(Docs), NEW p, NEW m, MadeRoom(c, p, m)
  PROVE  /\ \E z \in Nat : Sized(p, z) /\ z + 1 <= Limit
         /\ \A x \in Said : Telling(Append(m, x))
<1>1. Len(c) \in Nat /\ Limit \in Nat /\ Limit >= 2  BY Numbers
<1>2. CASE Len(c) < Limit /\ p = c /\ m = << >>
  <2>1. Sized(p, Len(c)) /\ Len(c) + 1 <= Limit  BY <1>1, <1>2 DEF Sized
  <2>2. \A x : Append(<< >>, x) = <<x>>  OBVIOUS
  <2> QED  BY <1>1, <1>2, <2>1, <2>2 DEF Telling
<1>3. CASE Len(c) = Limit /\ \E y : Put(c, p, Len(c), y) /\ m = <<Rm(y)>>
  <2>1. PICK y : Put(c, p, Len(c), y) /\ m = <<Rm(y)>>  BY <1>3
  <2>2. p \in Seq(Docs) /\ Len(c) = Len(p) + 1 /\ y \in Docs  BY <2>1 DEF Put
  <2>3. PICK z \in Nat : z = Len(p) /\ z + 1 <= Limit  BY <1>1, <1>3, <2>2
  <2>4. Sized(p, z)  BY <2>2, <2>3 DEF Sized
  <2>5. Rm(y) \in Said  BY <2>2, SaidIs
  <2>6. ASSUME NEW x \in Said PROVE Append(<<Rm(y)>>, x) = <<Rm(y), x>>  BY <2>5, Pair
  <2> QED  BY <2>1, <2>3, <2>4, <2>5, <2>6 DEF Telling
<1> QED  BY <1>2, <1>3 DEF MadeRoom

LEMMA EntersSound ==
  ASSUME skip \in Nat, NEW k \in KeyMaps, NEW new \in Docs, NEW c, Fair(c),
         NEW out, out = Enters(c, k, new)
  PROVE  Sound(out)
<1>1. PICK to : to = RelPosition(c, new)  OBVIOUS
<1>2. PICK p, m, page : p = MakeRoom(c).cache /\ m = MakeRoom(c).msgs /\ page = Slice(k, 0, 2)
  OBVIOUS
<1>3. EntersTo(out, c, new, to, p, m, page)  BY <1>1, <1>2, EntersIs
<1>4. Add(new) \in Said /\ Limit \in Nat /\ Limit >= 2  BY SaidIs, Numbers
<1>5. page \in Seq(Docs)
  <2>1. PICK n \in Nat : n = Len(Sorted(k))  BY SortedIs
  <2> QED  BY <1>2, <2>1, FrontSlice
<1>6. CASE c = <<Nothing>>
  <2>1. to = Undefined /\ to # After /\ to \notin {Before, Null} /\ to > Limit
    BY <1>1, <1>6, Small
  <2>2. PICK u : u = <<Nothing>>  OBVIOUS
  <2>3. Len(u) = 1 /\ DOMAIN u = 1 .. 1  BY <2>2
  <2>4. p = u /\ m = << >>
    <3>1. Len(u) < Limit  BY <1>4, <2>3
    <3>2. MakeRoom(u) = [cache |-> u, msgs |-> << >>]  BY <3>1 DEF MakeRoom
    <3> QED  BY <1>2, <1>6, <2>2, <3>2
  <2>5. PICK h : Ends(out, CacheInsert(p, new, to), Append(m, Add(new)), h)
    BY <1>3, <2>1 DEF EntersTo
  <2>6. to \notin DOMAIN u
    <3>1. DOMAIN u = {1}  BY <2>3
    <3>2. to # 1  BY <1>4, <2>1
    <3> QED  BY <3>1, <3>2
  <2>7. CacheInsert(p, new, to) = u  BY <2>4, <2>6 DEF CacheInsert
  <2>8. Append(<< >>, Add(new)) = <<Add(new)>>  OBVIOUS
  <2>9. out.cache = u /\ out.msgs = <<Add(new)>>  BY <2>4, <2>5, <2>7, <2>8 DEF Outcome, Ends
  <2> QED  BY <1>4, <2>2, <2>9 DEF Sound, Fair, Telling
<1>7. CASE c # <<Nothing>>
  <2>1. c \in Seq(Docs) /\ Len(c) <= Limit  BY <1>7 DEF Fair
  <2>2. MadeRoom(c, p, m)  BY <1>2, <2>1, RoomIs
  <2>3. PICK z \in Nat : Sized(p, z) /\ z + 1 <= Limit  BY <2>1, <2>2, RoomSizes
  <2>4. \A x \in Said : Telling(Append(m, x))  BY <2>1, <2>2, RoomSizes
  <2>5. z <= Limit  BY <1>4, <2>3
  <2>6. CASE to = After
    <3>1. PICK h : Ends(out, c, << >>, h)  BY <1>3, <2>6, EndsIs DEF EntersTo, Unmoved
    <3>2. out.cache = c /\ out.msgs = << >>  BY <3>1 DEF Outcome, Ends
    <3> QED  BY <2>1, <3>2 DEF Sound, Fair, Telling
  <2>7. CASE to \in {Before, Null} /\ skip = 0
    <3>1. Ends(out, <<new>> \o p, Append(m, Add(new)), TRUE)  BY <1>3, <2>7 DEF EntersTo
    <3>2. Sized(<<new>> \o p, z + 1)  BY <2>3, Sizes
    <3> QED  BY <1>4, <2>3, <2>4, <3>1, <3>2, SizedFair
  <2>8. CASE to \in {Before, Null} /\ skip # 0
    <3>1. CASE At(page, 2) # At(c, 1)
      <4>1. Ends(out, c, << >>, FALSE)  BY <1>3, <2>8, <3>1, EndsIs DEF EntersTo, Unmoved
      <4>2. out.cache = c /\ out.msgs = << >>  BY <4>1 DEF Outcome, Ends
      <4> QED  BY <2>1, <4>2 DEF Sound, Fair, Telling
    <3>2. CASE At(page, 2) = At(c, 1)
      <4>1. PICK x, h : /\ x = At(page, 1)
                        /\ Ends(out, <<x>> \o p, Append(m, Add(x)), h)
        BY <1>3, <2>8, <3>2 DEF EntersTo
      <4>2. CASE x # Nothing
        <5>1. x \in Docs  BY <1>5, <4>1, <4>2, AtIs
        <5>2. Sized(<<x>> \o p, z + 1) /\ Add(x) \in Said  BY <2>3, <5>1, Sizes, SaidIs
        <5> QED  BY <2>3, <2>4, <4>1, <5>2, SizedFair
      <4>3. CASE x = Nothing
        <5>1. Add(x) \in Said
          <6>1. Add(x) = [type |-> "addDoc", id |-> 0]  BY <4>3 DEF Add, Out
          <6> QED  BY <6>1, Numbers DEF Said
        <5>2. ~ (1 \in 1 .. Len(page))  BY <1>5, <4>1, <4>3, AtIs
        <5>3. ~ (2 \in 1 .. Len(page))  BY <1>5, <5>2
        <5>4. At(c, 1) = Nothing  BY <1>5, <3>2, <5>3, AtIs
        <5>5. ~ (1 \in 1 .. Len(c))  BY <2>1, <5>4, AtIs
        <5>6. Len(c) = 0  BY <2>1, <5>5
        <5>7. Len(c) < Limit /\ Len(c) # Limit  BY <1>4, <5>6
        <5>8. p = c  BY <2>2, <5>7 DEF MadeRoom
        <5>9. c = << >>  BY <2>1, <5>6
        <5>10. <<x>> \o p = <<Nothing>>
          <6>1. PICK u, e : u = <<Nothing>> /\ e = << >>  OBVIOUS
          <6>2. u \in Seq({Nothing}) /\ e \in Seq({Nothing})  BY <6>1
          <6>3. u \o e = u  BY <6>1, <6>2
          <6> QED  BY <4>3, <5>8, <5>9, <6>1, <6>3
        <5>11. out.cache = <<Nothing>> /\ out.msgs = Append(m, Add(x))
          BY <4>1, <5>10 DEF Outcome, Ends
        <5> QED  BY <2>4, <5>1, <5>11 DEF Sound, Fair
      <4> QED  BY <4>2, <4>3
    <3> QED  BY <3>1, <3>2
  <2>9. CASE to # After /\ to \notin {Before, Null}
    <3>1. PICK q, h : /\ q = CacheInsert(p, new, to)
                      /\ Ends(out, q, Append(m, Add(new)), h)
      BY <1>3, <2>9 DEF EntersTo
    <3>2. Sized(q, z) \/ Sized(q, z + 1)
      <4>1. CASE q = p  BY <2>3, <4>1
      <4>2. CASE to \in DOMAIN p /\ q = InsertAt(p, to, new)
        <5>1. DOMAIN p = 1 .. z  BY <2>3 DEF Sized
        <5>2. to \in 1 .. z + 1  BY <4>2, <5>1
        <5> QED  BY <2>3, <4>2, <5>2, Sizes
      <4> QED  BY <3>1, <4>1, <4>2 DEF CacheInsert
    <3> QED  BY <1>4, <2>3, <2>4, <2>5, <3>1, <3>2, SizedFair
  <2> QED  BY <2>6, <2>7, <2>8, <2>9
<1> QED  BY <1>6, <1>7

LEMMA WriteSound ==
  ASSUME skip \in Nat, NEW k \in KeyMaps, NEW id \in DocIds, NEW from \in 0 .. NumKeys,
         NEW to \in 0 .. NumKeys, NEW c, Fair(c),
         NEW out, out = ShouldPublish(c, k, id, from, to)
  PROVE  Sound(out)
<1>1. PublishTo(out, c, k, id, from, to)  BY PublishIs
<1>2. PICK old, new : old = [id |-> id, key |-> from] /\ new = [id |-> id, key |-> to]  OBVIOUS
<1>3. (from # Out => old \in Docs) /\ (to # Out => new \in Docs)
  <2>1. \A n \in 0 .. NumKeys : n # Out => n \in 1 .. NumKeys  BY Numbers DEF Out
  <2> QED  BY <1>2, <2>1 DEF Docs
<1>4. CASE from = Out /\ to = Out
  <2>1. out.cache = c /\ out.msgs = << >>  BY <1>1, <1>4 DEF PublishTo, Unmoved, Outcome, Ends
  <2> QED  BY <2>1 DEF Sound, Telling
<1>5. CASE from # Out /\ to # Out  BY <1>1, <1>2, <1>3, <1>5, MovesSound DEF PublishTo
<1>6. CASE from # Out /\ to = Out  BY <1>1, <1>2, <1>3, <1>6, LeavesSound DEF PublishTo
<1>7. CASE from = Out /\ to # Out  BY <1>1, <1>2, <1>3, <1>7, EntersSound DEF PublishTo
<1> QED  BY <1>4, <1>5, <1>6, <1>7

-----------------------------------------------------------------------------
(* Pages: the invariant                                                    *)

PageInv == PageTypeOK /\ PageKept /\ ToldPage

LEMMA PageFair ==
  ASSUME skip \in Nat, NEW k \in KeyMaps
  PROVE  Page(k) \in Seq(Docs) /\ Len(Page(k)) <= Limit /\ IdsOf(Page(k)) \subseteq DocIds
<1>1. PICK c, s : c = Page(k) /\ s = Sorted(k)  OBVIOUS
<1>2. s \in Seq(Docs) /\ IsPage(c, s)  BY <1>1, SortedIs, PageIs
<1>3. c \in Seq(Docs) /\ Len(c) = PageLen(Len(s))  BY <1>2 DEF IsPage
<1>4. Len(c) <= Limit
  <2>1. PICK n \in Nat : n = Len(s)  BY <1>2
  <2>2. PICK l : l = PageLen(n)  OBVIOUS
  <2>3. l \in 0 .. Limit  BY <2>2, PageLenIs
  <2> QED  BY <1>3, <2>1, <2>2, <2>3, Numbers
<1>5. IdsOf(c) \subseteq DocIds
  <2>1. DOMAIN c = 1 .. Len(c) /\ \A i \in 1 .. Len(c) : c[i].id \in DocIds  BY <1>3, KeysOf
  <2> QED  BY <2>1 DEF IdsOf
<1> QED  BY <1>1, <1>3, <1>4, <1>5

\* A property set in place leaves a list of as many documents.
LEMMA InPlaceFair ==
  ASSUME NEW c, Fair(c), NEW id \in DocIds, NEW to \in 0 .. NumKeys
  PROVE  Fair(InPlace(c, id, to))
<1>1. PICK l \in Nat : l = Len(c) /\ l <= Limit /\ DOMAIN c = 1 .. l
  <2>1. CASE c = <<Nothing>>
    <3>1. Len(c) = 1 /\ DOMAIN c = 1 .. 1  BY <2>1
    <3> QED  BY <3>1, Numbers
  <2>2. CASE c \in Seq(Docs) /\ Len(c) <= Limit  BY <2>2
  <2> QED  BY <2>1, <2>2 DEF Fair
<1>2. PICK e : e = InPlace(c, id, to)  OBVIOUS
<1>3. /\ DOMAIN e = 1 .. l /\ e = [i \in 1 .. l |-> e[i]]
      /\ \A i \in 1 .. l : e[i] = c[i] \/ (to # Out /\ e[i] = [id |-> id, key |-> to])
  BY <1>1, <1>2 DEF InPlace
<1>4. to # Out => [id |-> id, key |-> to] \in Docs
  <2>1. to # Out => to \in 1 .. NumKeys  BY Numbers DEF Out
  <2> QED  BY <2>1 DEF Docs
<1>5. (\A i \in 1 .. l : e[i] \in Docs) => e \in Seq(Docs) /\ Len(e) = l
  <2> SUFFICES ASSUME \A i \in 1 .. l : e[i] \in Docs PROVE e \in Seq(Docs) /\ Len(e) = l
    OBVIOUS
  <2>1. e \in [1 .. l -> Docs]  BY <1>3
  <2> QED  BY <2>1
<1>6. CASE c \in Seq(Docs)
  <2>1. \A i \in 1 .. l : c[i] \in Docs  BY <1>1, <1>6
  <2>2. \A i \in 1 .. l : e[i] \in Docs  BY <1>3, <1>4, <2>1
  <2> QED  BY <1>1, <1>2, <1>5, <2>2 DEF Fair
<1>7. CASE c = <<Nothing>>
  <2>1. l = 1 /\ c[1] = Nothing  BY <1>1, <1>7
  <2>2. CASE e[1] = Nothing
    <3>1. e = <<Nothing>>  BY <1>3, <2>1, <2>2
    <3> QED  BY <1>2, <3>1 DEF Fair
  <2>3. CASE e[1] # Nothing
    <3>1. e[1] \in Docs
      <4>1. PICK i : i = 1  OBVIOUS
      <4>2. i \in 1 .. l  BY <2>1, <4>1
      <4>3. e[i] = c[i] \/ (to # Out /\ e[i] = [id |-> id, key |-> to])  BY <1>3, <4>2
      <4> QED  BY <1>4, <2>1, <2>3, <4>1, <4>3
    <3>2. \A i \in 1 .. l : e[i] \in Docs
      <4>1. \A i \in 1 .. l : i = 1  BY <2>1
      <4> QED  BY <3>1, <4>1
    <3> QED  BY <1>1, <1>2, <1>5, <3>2 DEF Fair
  <2> QED  BY <2>2, <2>3
<1> QED  BY <1>6, <1>7 DEF Fair

\* The database's objects in a cache are documents.
LEMMA LiveKnown ==
  ASSUME NEW out, Fair(out.cache), NEW id, NEW inPlace
  PROVE  LiveAfter(id, inPlace, out) \subseteq DocIds
<1>1. PICK e : e = out.cache  OBVIOUS
<1>2. \A j \in DOMAIN e : e[j] = Nothing \/ e[j].id \in DocIds
  <2>1. CASE e = <<Nothing>>
    <3>1. \A j \in DOMAIN e : e[j] = Nothing  BY <2>1
    <3> QED  BY <3>1
  <2>2. CASE e \in Seq(Docs)
    <3>1. \A j \in DOMAIN e : e[j] \in Docs  BY <2>2
    <3> QED  BY <3>1 DEF Docs
  <2> QED  BY <1>1, <2>1, <2>2 DEF Fair
<1>3. {d.id : d \in {e[j] : j \in DOMAIN e} \ {Nothing}} \subseteq DocIds  BY <1>2
<1> QED  BY <1>1, <1>3 DEF LiveAfter

LEMMA InitPageInv == PageInit => PageInv
<1> SUFFICES ASSUME PageInit PROVE PageInv
  OBVIOUS
<1>1. /\ key \in KeyMaps /\ skip \in Skips /\ skip \in Nat /\ cache = NoCache /\ lapsed = 0
      /\ live \subseteq DocIds
      /\ told = {Page(key)[i].id : i \in DOMAIN Page(key)}
  BY PageAssumption DEF PageInit, KeyMaps
<1>2. told \subseteq DocIds  BY <1>1, PageFair DEF IdsOf
<1>3. lapsed \in 0 .. MaxLapsed  BY <1>1, PageAssumption
<1> QED  BY <1>1, <1>2, <1>3 DEF PageInv, PageTypeOK, PageKept, ToldPage, KeyMaps

\* A write, whatever the node makes of it.
LEMMA WritePageInv ==
  ASSUME PageInv, NEW id \in DocIds, NEW to \in 0 .. NumKeys, NEW inPlace \in BOOLEAN,
         Write(id, to, inPlace)
  PROVE  PageInv'
<1>1. /\ key \in KeyMaps /\ skip \in Skips /\ skip \in Nat /\ told \subseteq DocIds
      /\ lapsed \in 0 .. MaxLapsed /\ lapsed \in Nat
      /\ cache = NoCache \/ Fair(cache)
  BY PageAssumption DEF PageInv, PageTypeOK, KeyMaps, Fair
<1>2. PICK k, w : k = key /\ w = key' /\ w = [k EXCEPT ![id] = to]  BY DEF Write
<1>3. k \in KeyMaps /\ w \in KeyMaps /\ k[id] \in 0 .. NumKeys  BY <1>1, <1>2 DEF KeyMaps
<1>4. PICK c, out :
        /\ c = AtHand(w, id, to, inPlace)
        /\ out = ShouldPublish(c, w, id, k[id], to)
        /\ cache' = out.cache
        /\ live' = LiveAfter(id, inPlace, out)
        /\ told' = Hear(told, out.msgs)
        /\ lapsed' = IF \/ lapsed # 0
                        \/ Loses(id, to, out)
                        \/ cache \notin {NoCache, c}
                     THEN lapsed + 1 ELSE 0
  BY <1>2 DEF Write
<1>5. /\ cache = NoCache => c = Page(w)
      /\ cache # NoCache => c = cache \/ c = InPlace(cache, id, to)
  BY <1>4 DEF AtHand
<1>6. Fair(c)
  <2>1. CASE cache = NoCache  BY <1>1, <1>3, <1>5, <2>1, PageFair DEF Fair
  <2>2. CASE cache # NoCache  BY <1>1, <1>5, <2>2, InPlaceFair
  <2> QED  BY <2>1, <2>2
<1>7. Sound(out)
  <2>1. PICK from \in 0 .. NumKeys : from = k[id]  BY <1>3
  <2> QED  BY <1>1, <1>3, <1>4, <1>6, <2>1, WriteSound
<1>8. PageTypeOK'
  <2>1. key' \in [DocIds -> 0 .. NumKeys]  BY <1>2, <1>3 DEF KeyMaps
  <2>2. skip' \in Skips  BY <1>1 DEF Write
  <2>3. cache' \in {NoCache, <<Nothing>>} \/ (cache' \in Seq(Docs) /\ Len(cache') <= Limit)
    BY <1>4, <1>7 DEF Sound, Fair
  <2>4. told' \subseteq DocIds
    <3>1. PICK m, ids : m = out.msgs /\ ids = told  OBVIOUS
    <3>2. Telling(m)  BY <1>7, <3>1 DEF Sound
    <3> QED  BY <1>1, <1>4, <3>1, <3>2, TellingKnown
  <2>5. lapsed' \in 0 .. MaxLapsed
    <3>1. lapsed < MaxLapsed /\ MaxLapsed \in Nat  BY PageAssumption DEF Write
    <3>2. lapsed' = lapsed + 1 \/ lapsed' = 0  BY <1>4
    <3> QED  BY <1>1, <3>1, <3>2
  <2>6. live' \subseteq DocIds  BY <1>4, <1>7, LiveKnown DEF Sound
  <2> QED  BY <2>1, <2>2, <2>3, <2>4, <2>5, <2>6 DEF PageTypeOK
<1>9. ASSUME lapsed' = 0
      PROVE  cache' = Page(w) /\ told' = IdsOf(Page(w))
  <2>1. lapsed = 0 /\ ~ Loses(id, to, out) /\ cache \in {NoCache, c}
    <3>1. lapsed + 1 # 0  BY <1>1
    <3> QED  BY <1>4, <1>9, <3>1
  <2>2. /\ out.tracks /\ ~ Tied(k) /\ ~ Tied(w)
        /\ cache = NoCache => {k[id], to} = {Out}
    BY <1>2, <2>1 DEF Loses
  <2>3. c = Page(k)
    <3>1. CASE cache = NoCache
      <4>1. k[id] = to  BY <2>2, <3>1
      <4>2. w = k  BY <1>2, <1>3, <4>1 DEF KeyMaps
      <4> QED  BY <1>5, <3>1, <4>2
    <3>2. CASE cache # NoCache  BY <1>2, <2>1, <3>2 DEF PageInv, PageKept
    <3> QED  BY <3>1, <3>2
  <2>4. told = IdsOf(c)  BY <1>2, <2>1, <2>3 DEF PageInv, ToldPage, IdsOf
  <2>5. IsPage(c, Sorted(k)) /\ IsPage(Page(w), Sorted(w))  BY <1>1, <1>3, <2>3, PageIs
  <2>6. Kept(out, c, Sorted(w))  BY <1>1, <1>2, <1>3, <1>4, <2>2, <2>5, WriteKept
  <2>7. IsPage(out.cache, Sorted(w)) /\ Hear(IdsOf(c), out.msgs) = IdsOf(out.cache)
    BY <2>6 DEF Kept
  <2>8. out.cache = Page(w)  BY <2>5, <2>7, OnePage
  <2> QED  BY <1>4, <2>4, <2>7, <2>8
<1>10. Page(key)' = Page(w)
  <2>1. skip' = skip  BY DEF Write
  <2> QED  BY <1>2, <2>1 DEF Page, Slice
<1>11. PageKept'  BY <1>9, <1>10 DEF PageKept
<1>12. ToldPage'  BY <1>9, <1>10 DEF ToldPage, IdsOf
<1> QED  BY <1>8, <1>11, <1>12 DEF PageInv

LEMMA NextPageInv == PageInv /\ [PageNext]_pageVars => PageInv'
<1> SUFFICES ASSUME PageInv, [PageNext]_pageVars PROVE PageInv'
  OBVIOUS
<1>1. ASSUME NEW id \in DocIds, NEW to \in 0 .. NumKeys, NEW inPlace \in BOOLEAN,
             Write(id, to, inPlace)
      PROVE  PageInv'
  BY <1>1, WritePageInv
<1>2. CASE UNCHANGED pageVars
  <2>1. UNCHANGED <<key, skip, cache, live, told, lapsed>>  BY <1>2 DEF pageVars
  <2>2. Page(key)' = Page(key)  BY <2>1 DEF Page, Slice
  <2> QED  BY <2>1, <2>2 DEF PageInv, PageTypeOK, PageKept, ToldPage
<1> QED  BY <1>1, <1>2 DEF PageNext

\* So it holds always.
LEMMA PageInvAlways == PageSpec => []PageInv
<1> QED  BY InitPageInv, NextPageInv, PTL DEF PageSpec

\* A page's cache never has more than the limit, and an undefined element is in it only
\* alone, also after the node has lost track (PaginatedQueryNode.js:71-309).
THEOREM PageTypeCorrect == PageSpec => []PageTypeOK
<1>1. PageInv => PageTypeOK  BY DEF PageInv
<1> QED  BY <1>1, PageInvAlways, PTL

\* Until the node loses track (it gives up, two documents are equal in the sort, the write
\* came before its cache was loaded, or it set a cached object of the database in place),
\* its cache is the page that a query would find: for any number of documents and keys, any
\* skip and any limit of two or more, wherever a document comes from and goes to
\* (PaginatedQueryNode.js:35-309).
THEOREM PageIsAlwaysKept == PageSpec => []PageKept
<1>1. PageInv => PageKept  BY DEF PageInv
<1> QED  BY <1>1, PageInvAlways, PTL

\* Until it loses track, in one of those ways, a client that fetched the page once and heard
\* every message has just its documents: what a message takes out and what it brings in are
\* the right ones, in an order that does not undo them (PaginatedQueryNode.js:98-309,
\* QueryHub.js:134-187).
THEOREM ClientHasPage == PageSpec => []ToldPage
<1>1. PageInv => ToldPage  BY DEF PageInv
<1> QED  BY <1>1, PageInvAlways, PTL
=============================================================================
