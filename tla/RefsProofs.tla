----------------------------- MODULE RefsProofs -----------------------------
(***************************************************************************)
(* Proofs about Refs: for any documents, lists and bounds, both models     *)
(* have the shape that they should; each view shows what its reference     *)
(* stands for, of a refList (RefsInv follows the reader through all the    *)
(* memories that it will have) and of a ref with a key; and a model that   *)
(* gets the transactions one by one has no id without its document.        *)
(***************************************************************************)
EXTENDS Refs, SequenceTheorems, TLAPS

Pointer == Ids \cup {Nothing}
Value == Contents \cup {Nothing}

\* The transactions of the author.
Inserts == [method : {"insert"}, at : Nat]
Takes == [method : {"remove"}, at : Nat, n : Nat]
           \cup [method : {"move"}, at : Nat, to : Nat, n : Nat]
Txns ==
  [path : {"doc"}, id : Ids, content : Value]
    \cup [path : {"list"}, key : Keys, op : Inserts, ids : {<<id>> : id \in Ids}]
    \cup [path : {"list"}, key : Keys, op : Takes, ids : {<< >>}]
    \cup [path : {"member"}, key : Keys, at : Nat, id : Pointer]
    \cup [path : {"key"}, id : Pointer]

GetterSet == [n : Nat, key : Keys]

\* The shape of a model.
ModelOK(m) ==
  /\ m \in [docs : [Ids -> Value], keys : [Keys -> Seq(Pointer)], sel : Pointer,
            ref : GetterSet, listeners : SUBSET GetterSet, list : Seq(Value), shown : Value]
  /\ m.ref \in m.listeners
  /\ \A l \in m.listeners : l.n <= m.ref.n

-----------------------------------------------------------------------------
(* Array mutators *)

\* Where the lists of array-mutators end: the smaller of two numbers.
LEMMA MinOfTwo ==
  ASSUME NEW a \in Nat, NEW b \in Nat
  PROVE  Min({a, b}) = IF a <= b THEN a ELSE b
<1> DEFINE P(x) == x \in {a, b} /\ \A y \in {a, b} : x <= y
<1>1. P(IF a <= b THEN a ELSE b)  OBVIOUS
<1>2. \A x, y : P(x) /\ P(y) => x = y  OBVIOUS
<1>3. Min({a, b}) = CHOOSE x : P(x)  BY DEF Min
<1> HIDE DEF P
<1>4. P(CHOOSE x : P(x))  BY <1>1
<1> QED  BY <1>1, <1>2, <1>3, <1>4

\* One list after another.
LEMMA CatIs ==
  ASSUME NEW S, NEW s \in Seq(S), NEW t \in Seq(S)
  PROVE  /\ s \o t \in Seq(S) /\ Len(s \o t) = Len(s) + Len(t)
         /\ \A i \in 1 .. Len(s) : (s \o t)[i] = s[i]
         /\ \A i \in 1 .. Len(t) : (s \o t)[Len(s) + i] = t[i]
<1>1. PICK n \in Nat : n = Len(s)  OBVIOUS
<1>2. PICK k \in Nat : k = Len(t)  OBVIOUS
<1> DEFINE r == s \o t
<1>3. /\ r \in Seq(S) /\ Len(r) = n + k
      /\ \A i \in 1 .. n + k : r[i] = IF i <= n THEN s[i] ELSE t[i - n]
  BY <1>1, <1>2, ConcatProperties
<1> HIDE DEF r
<1>4. ASSUME NEW i \in 1 .. n PROVE r[i] = s[i]
  <2>1. i \in 1 .. n + k /\ i <= n  BY <1>1, <1>2
  <2> QED  BY <1>3, <2>1
<1>5. ASSUME NEW i \in 1 .. k PROVE r[n + i] = t[i]
  <2>1. n + i \in 1 .. n + k /\ ~ (n + i <= n) /\ n + i - n = i  BY <1>1, <1>2
  <2> QED  BY <1>3, <2>1
<1> QED  BY <1>1, <1>2, <1>3, <1>4, <1>5 DEF r

\* How much of a list stays before and after what is spliced.
Ahead(s, at) == IF at <= Len(s) THEN at ELSE Len(s)
Behind(s, at, n) == IF at + n <= Len(s) THEN Len(s) - at - n ELSE 0

\* r is s with n members from at on replaced by xs.
IsSplice(r, s, at, n, xs) ==
  /\ Len(r) = Ahead(s, at) + Len(xs) + Behind(s, at, n)
  /\ \A i \in 1 .. Ahead(s, at) : r[i] = s[i]
  /\ \A i \in 1 .. Len(xs) : r[Ahead(s, at) + i] = xs[i]
  /\ \A i \in 1 .. Behind(s, at, n) : r[Ahead(s, at) + Len(xs) + i] = s[at + n + i]

\* splice gives such a list.
LEMMA SpliceIs ==
  ASSUME NEW S, NEW s \in Seq(S), NEW xs \in Seq(S), NEW at \in Nat, NEW n \in Nat
  PROVE  Splice(s, at, n, xs) \in Seq(S) /\ IsSplice(Splice(s, at, n, xs), s, at, n, xs)
<1>1. PICK m \in Nat : m = Len(s)  OBVIOUS
<1>2. PICK k \in Nat : k = Len(xs)  OBVIOUS
<1>3. PICK a \in Nat : a = Ahead(s, at) /\ a = (IF at <= m THEN at ELSE m)
  BY <1>1 DEF Ahead
<1>4. PICK b \in Nat : b = Behind(s, at, n) /\ b = (IF at + n <= m THEN m - at - n ELSE 0)
  <2>1. (IF at + n <= m THEN m - at - n ELSE 0) \in Nat  BY <1>1
  <2> QED  BY <1>1, <2>1 DEF Behind
<1> DEFINE front == SubSeq(s, 1, a)  back == SubSeq(s, at + n + 1, Len(s))
           most == front \o xs       r == most \o back
<1>5. Splice(s, at, n, xs) = r
  <2>1. Min({at, Len(s)}) = a  BY <1>1, <1>3, MinOfTwo
  <2> QED  BY <2>1 DEF Splice
<1>6. front \in Seq(S) /\ Len(front) = a /\ \A i \in 1 .. a : front[i] = s[i]
  BY <1>1, <1>3
<1>7. back \in Seq(S) /\ Len(back) = b /\ \A i \in 1 .. b : back[i] = s[at + n + i]
  BY <1>1, <1>4
<1> HIDE DEF front, back
<1>8. /\ most \in Seq(S) /\ Len(most) = a + k
      /\ \A i \in 1 .. a : most[i] = front[i]
      /\ \A i \in 1 .. k : most[a + i] = xs[i]
  <2>1. /\ most \in Seq(S) /\ Len(most) = Len(front) + Len(xs)
        /\ \A i \in 1 .. Len(front) : most[i] = front[i]
        /\ \A i \in 1 .. Len(xs) : most[Len(front) + i] = xs[i]
    <3>1. front \in Seq(S)  BY <1>6
    <3> QED  BY <3>1, CatIs
  <2> HIDE DEF most
  <2> QED  BY <1>2, <1>6, <2>1
<1>9. PICK l \in Nat : l = a + k  BY <1>2, <1>3
<1> HIDE DEF most
<1>10. /\ r \in Seq(S) /\ Len(r) = l + b
       /\ \A i \in 1 .. l : r[i] = most[i]
       /\ \A i \in 1 .. b : r[l + i] = back[i]
  <2>1. /\ r \in Seq(S) /\ Len(r) = Len(most) + Len(back)
        /\ \A i \in 1 .. Len(most) : r[i] = most[i]
        /\ \A i \in 1 .. Len(back) : r[Len(most) + i] = back[i]
    <3>1. most \in Seq(S) /\ back \in Seq(S)  BY <1>7, <1>8
    <3> QED  BY <3>1, CatIs
  <2> HIDE DEF r
  <2> QED  BY <1>7, <1>8, <1>9, <2>1
<1> HIDE DEF r
<1>11. /\ \A i \in 1 .. a : i \in 1 .. l
       /\ \A i \in 1 .. k : a + i \in 1 .. l
  BY <1>2, <1>3, <1>9
<1>12. /\ \A i \in 1 .. a : r[i] = s[i]
       /\ \A i \in 1 .. k : r[a + i] = xs[i]
       /\ \A i \in 1 .. b : r[l + i] = s[at + n + i]
  BY <1>6, <1>7, <1>8, <1>10, <1>11
<1>13. IsSplice(r, s, at, n, xs)  BY <1>2, <1>3, <1>4, <1>9, <1>10, <1>12 DEF IsSplice
<1> QED  BY <1>5, <1>10, <1>13

\* r is s with x inserted.
IsInsert(r, s, at, x) ==
  /\ Ahead(s, at) \in 0 .. Len(s) /\ Len(r) = Len(s) + 1
  /\ \A i \in 1 .. Ahead(s, at) : r[i] = s[i]
  /\ r[Ahead(s, at) + 1] = x
  /\ \A i \in Ahead(s, at) + 2 .. Len(s) + 1 : r[i] = s[i - 1]

\* An id that is inserted: what comes after it moves up by one.
LEMMA InsertIs ==
  ASSUME NEW S, NEW s \in Seq(S), NEW x \in S, NEW op \in Inserts
  PROVE  OnList(s, op, <<x>>) \in Seq(S) /\ IsInsert(OnList(s, op, <<x>>), s, op.at, x)
<1>1. op.method = "insert" /\ op.at \in Nat  BY DEF Inserts
<1>2. PICK at \in Nat : at = op.at  BY <1>1
<1>3. PICK n \in Nat : n = Len(s)  OBVIOUS
<1>4. PICK a \in 0 .. n : a = Ahead(s, at) /\ a = (IF at <= n THEN at ELSE n)
  BY <1>2, <1>3 DEF Ahead
<1>5. /\ Behind(s, at, 0) = n - a
      /\ a < n => a = at
  BY <1>2, <1>3, <1>4 DEF Behind
<1>6. PICK xs \in Seq(S) : xs = <<x>> /\ Len(xs) = 1 /\ xs[1] = x
  <2>1. <<x>> \in Seq(S) /\ Len(<<x>>) = 1 /\ <<x>>[1] = x  OBVIOUS
  <2> QED  BY <2>1
<1> DEFINE r == Splice(s, at, 0, xs)
<1>7. /\ r \in Seq(S) /\ Len(r) = a + 1 + (n - a)
      /\ \A i \in 1 .. a : r[i] = s[i]
      /\ \A i \in 1 .. 1 : r[a + i] = xs[i]
      /\ \A i \in 1 .. n - a : r[a + 1 + i] = s[at + 0 + i]
  <2>1. 0 \in Nat  OBVIOUS
  <2>2. r \in Seq(S) /\ IsSplice(r, s, at, 0, xs)  BY <1>2, <1>6, <2>1, SpliceIs
  <2> HIDE DEF r
  <2> QED  BY <1>4, <1>5, <1>6, <2>2 DEF IsSplice
<1> HIDE DEF r
<1>8. ASSUME NEW i \in a + 2 .. n + 1 PROVE r[i] = s[i - 1]
  <2>1. i \in Int /\ a + 2 <= i /\ i <= n + 1 /\ a \in Int  BY <1>3, <1>4
  <2>2. a = at /\ i - a - 1 \in 1 .. n - a  BY <1>3, <1>4, <1>5, <2>1
  <2>3. a + 1 + (i - a - 1) = i /\ at + 0 + (i - a - 1) = i - 1  BY <2>1, <2>2
  <2>4. r[a + 1 + (i - a - 1)] = s[at + 0 + (i - a - 1)]  BY <1>7, <2>2
  <2> QED  BY <2>3, <2>4
<1>9. r[a + 1] = x
  <2>1. 1 \in 1 .. 1  OBVIOUS
  <2>2. r[a + 1] = xs[1]  BY <1>7, <2>1
  <2>3. xs[1] = x  BY <1>6
  <2> QED  BY <2>2, <2>3
<1>10. Len(r) = n + 1
  <2>1. a \in Int /\ n \in Int  BY <1>3, <1>4
  <2>2. a + 1 + (n - a) = n + 1  BY <2>1
  <2> QED  BY <1>7, <2>2
<1>11. OnList(s, op, <<x>>) = r  BY <1>1, <1>2, <1>6 DEF OnList, r
<1>12. IsInsert(r, s, at, x)  BY <1>3, <1>4, <1>7, <1>8, <1>9, <1>10 DEF IsInsert
<1> QED  BY <1>2, <1>7, <1>11, <1>12

\* How many stay when n are taken out from at on of a list of length l, and where the
\* i-th of those was.
Left(at, n, l) ==
  (IF at <= l THEN at ELSE l) + (IF at + n <= l THEN l - at - n ELSE 0)
Skip(at, n, i) == IF i <= at THEN i ELSE i + n

\* What is left of a list is in it, and each of it comes from one place.
LEMMA SkipIs ==
  ASSUME NEW at \in Nat, NEW n \in Nat, NEW l \in Nat
  PROVE  /\ Left(at, n, l) \in 0 .. l
         /\ \A i \in 1 .. Left(at, n, l) :
              Skip(at, n, i) \in 1 .. l /\ (Skip(at, n, i) <= at \/ Skip(at, n, i) > at + n)
         /\ \A i, j \in 1 .. Left(at, n, l) : Skip(at, n, i) = Skip(at, n, j) => i = j
         /\ \A i \in 1 .. l - Left(at, n, l) : at + i \in 1 .. l /\ i <= n
BY DEF Left, Skip

IsRest(r, s, at, n) ==
  /\ Len(r) = Left(at, n, Len(s))
  /\ \A i \in 1 .. Left(at, n, Len(s)) : r[i] = s[Skip(at, n, i)]

\* splice without new members gives such a list.
LEMMA RemoveIs ==
  ASSUME NEW S, NEW s \in Seq(S), NEW at \in Nat, NEW n \in Nat
  PROVE  Splice(s, at, n, << >>) \in Seq(S) /\ IsRest(Splice(s, at, n, << >>), s, at, n)
<1>1. PICK xs \in Seq(S) : xs = << >> /\ Len(xs) = 0
  <2>1. << >> \in Seq(S) /\ Len(<< >>) = 0  OBVIOUS
  <2> QED  BY <2>1
<1>2. PICK l \in Nat : l = Len(s)  OBVIOUS
<1> DEFINE r == Splice(s, at, n, xs)
<1>3. r \in Seq(S) /\ IsSplice(r, s, at, n, xs)
  <2>1. xs \in Seq(S)  BY <1>1
  <2> QED  BY <2>1, SpliceIs
<1> HIDE DEF r
<1>4. PICK a \in Nat : a = Ahead(s, at) /\ a = (IF at <= l THEN at ELSE l)
  BY <1>2 DEF Ahead
<1>5. PICK b \in Nat : b = Behind(s, at, n) /\ b = (IF at + n <= l THEN l - at - n ELSE 0)
  <2>1. (IF at + n <= l THEN l - at - n ELSE 0) \in Nat  BY <1>2
  <2> QED  BY <1>2, <2>1 DEF Behind
<1>6. /\ Len(r) = a + 0 + b
      /\ \A i \in 1 .. a : r[i] = s[i]
      /\ \A i \in 1 .. b : r[a + 0 + i] = s[at + n + i]
  BY <1>1, <1>3, <1>4, <1>5 DEF IsSplice
<1>7. Len(r) = Left(at, n, l) /\ Left(at, n, l) = a + b
  <2>1. Left(at, n, l) = a + b  BY <1>4, <1>5 DEF Left
  <2>2. a + 0 + b = a + b  BY <1>4, <1>5
  <2> QED  BY <1>6, <2>1, <2>2
<1>8. ASSUME NEW i \in 1 .. a + b PROVE r[i] = s[Skip(at, n, i)]
  <2>1. a \in Int /\ b \in Int /\ i \in Int /\ 1 <= i /\ i <= a + b  BY <1>4, <1>5
  <2>2. CASE i <= a
    <3>1. i \in 1 .. a /\ i <= at  BY <1>2, <1>4, <2>1, <2>2
    <3> QED  BY <1>6, <3>1 DEF Skip
  <2>3. CASE ~ (i <= a)
    <3>1. b # 0 /\ a = at /\ i - a \in 1 .. b
      <4>1. b # 0 /\ i - a \in 1 .. b  BY <2>1, <2>3
      <4>2. at + n <= l  BY <1>5, <4>1
      <4>3. at <= l  BY <1>2, <4>2
      <4> QED  BY <1>4, <4>1, <4>3
    <3>2. r[a + 0 + (i - a)] = s[at + n + (i - a)]  BY <1>6, <3>1
    <3>3. a + 0 + (i - a) = i /\ at + n + (i - a) = i + n  BY <2>1, <3>1
    <3> QED  BY <2>3, <3>1, <3>2, <3>3 DEF Skip
  <2> QED  BY <2>2, <2>3
<1>9. IsRest(r, s, at, n)  BY <1>2, <1>7, <1>8 DEF IsRest
<1> QED  BY <1>1, <1>3, <1>9 DEF r

\* How many are left by remove and move, and where the i-th of them was.
TakeLen(op, l) == IF op.method = "remove" THEN Left(op.at, op.n, l) ELSE l
TakeFrom(op, l, i) ==
  LET rest == Left(op.at, op.n, l)
      to == IF op.to <= rest THEN op.to ELSE rest
  IN IF op.method = "remove" THEN Skip(op.at, op.n, i)
     ELSE IF i <= to THEN Skip(op.at, op.n, i)
     ELSE IF i <= to + (l - rest) THEN op.at + (i - to)
     ELSE Skip(op.at, op.n, i - (l - rest))

\* They are members of the list, each once.
Distinct(op, l) ==
  /\ \A i \in 1 .. TakeLen(op, l) : TakeFrom(op, l, i) \in 1 .. l
  /\ \A i, j \in 1 .. TakeLen(op, l) : TakeFrom(op, l, i) = TakeFrom(op, l, j) => i = j

\* remove and move take each member from a place of its own.
LEMMA TakeFromIs ==
  ASSUME NEW op \in Takes, NEW l \in Nat
  PROVE  TakeLen(op, l) \in 0 .. l /\ Distinct(op, l)
<1>1. op.at \in Nat /\ op.n \in Nat  BY DEF Takes
<1>2. PICK at \in Nat : at = op.at  BY <1>1
<1>3. PICK n \in Nat : n = op.n  BY <1>1
<1>4. PICK rest \in 0 .. l : rest = Left(at, n, l)  BY <1>2, <1>3, SkipIs
<1>5. /\ \A i \in 1 .. rest :
           Skip(at, n, i) \in 1 .. l /\ (Skip(at, n, i) <= at \/ Skip(at, n, i) > at + n)
      /\ \A i, j \in 1 .. rest : Skip(at, n, i) = Skip(at, n, j) => i = j
      /\ \A i \in 1 .. l - rest : at + i \in 1 .. l /\ i <= n
  <2>1. at \in Nat /\ n \in Nat  BY <1>2, <1>3
  <2>2. /\ \A i \in 1 .. Left(at, n, l) :
             Skip(at, n, i) \in 1 .. l /\ (Skip(at, n, i) <= at \/ Skip(at, n, i) > at + n)
        /\ \A i, j \in 1 .. Left(at, n, l) : Skip(at, n, i) = Skip(at, n, j) => i = j
        /\ \A i \in 1 .. l - Left(at, n, l) : at + i \in 1 .. l /\ i <= n
    BY <2>1, SkipIs
  <2> QED  BY <1>4, <2>2
<1>6. CASE op.method = "remove"
  BY <1>2, <1>3, <1>4, <1>5, <1>6 DEF TakeLen, TakeFrom, Distinct
<1>7. CASE op.method = "move"
  <2>1. op.to \in Nat  BY <1>7 DEF Takes
  <2>2. PICK to \in 0 .. rest : to = (IF op.to <= rest THEN op.to ELSE rest)
    BY <1>4, <2>1
  <2>3. PICK k \in Nat : k = l - rest  BY <1>4
  <2> DEFINE From(i) == IF i <= to THEN Skip(at, n, i)
                        ELSE IF i <= to + k THEN at + (i - to)
                        ELSE Skip(at, n, i - k)
  <2>4. TakeLen(op, l) = l /\ \A i \in 1 .. l : TakeFrom(op, l, i) = From(i)
    BY <1>2, <1>3, <1>4, <1>7, <2>2, <2>3 DEF TakeLen, TakeFrom
  <2>5. /\ \A i \in 1 .. l : i <= to => i \in 1 .. rest
        /\ \A i \in 1 .. l : i > to /\ i <= to + k => i - to \in 1 .. k
        /\ \A i \in 1 .. l : i > to + k => i - k \in 1 .. rest /\ i - k > to
        /\ l \in Int /\ rest \in Int /\ to \in Int /\ k \in Int
    BY <1>4, <2>2, <2>3
  <2>6. \A i \in 1 .. k : at + i \in 1 .. l /\ i <= n  BY <1>5, <2>3
  <2>7. ASSUME NEW i \in 1 .. l PROVE From(i) \in 1 .. l
    BY <1>5, <2>5, <2>6
  <2>8. ASSUME NEW i \in 1 .. l, NEW j \in 1 .. l, From(i) = From(j) PROVE i = j
    <3>1. \A x \in 1 .. rest : \A y \in 1 .. k : Skip(at, n, x) # at + y
      BY <1>2, <1>3, <1>5, <2>6
    <3>2. CASE i > to /\ i <= to + k
      <4>1. From(i) = at + (i - to) /\ i - to \in 1 .. k  BY <2>5, <3>2
      <4>2. CASE j > to /\ j <= to + k
        <5>1. From(j) = at + (j - to)  BY <2>5, <4>2
        <5> QED  BY <1>2, <2>5, <2>8, <4>1, <5>1
      <4>3. CASE j <= to  BY <2>5, <2>8, <3>1, <4>1, <4>3
      <4>4. CASE j > to + k
        <5>1. From(j) = Skip(at, n, j - k) /\ j - k \in 1 .. rest
          <6>1. ~ (j <= to) /\ ~ (j <= to + k)  BY <2>3, <2>5, <4>4
          <6> QED  BY <2>5, <4>4, <6>1
        <5> QED  BY <2>8, <3>1, <4>1, <5>1
      <4> QED  BY <2>5, <4>2, <4>3, <4>4
    <3>3. CASE i <= to
      <4>1. From(i) = Skip(at, n, i) /\ i \in 1 .. rest  BY <2>5, <3>3
      <4>2. CASE j > to /\ j <= to + k
        <5>1. From(j) = at + (j - to) /\ j - to \in 1 .. k  BY <2>5, <4>2
        <5> QED  BY <2>8, <3>1, <4>1, <5>1
      <4>3. CASE j <= to
        <5>1. From(j) = Skip(at, n, j) /\ j \in 1 .. rest  BY <2>5, <4>3
        <5> QED  BY <1>5, <2>8, <4>1, <5>1
      <4>4. CASE j > to + k
        <5>1. From(j) = Skip(at, n, j - k) /\ j - k \in 1 .. rest /\ j - k > to
          <6>1. ~ (j <= to) /\ ~ (j <= to + k)  BY <2>3, <2>5, <4>4
          <6> QED  BY <2>5, <4>4, <6>1
        <5>2. i = j - k  BY <1>5, <2>8, <4>1, <5>1
        <5> QED  BY <2>5, <3>3, <5>1, <5>2
      <4> QED  BY <2>5, <4>2, <4>3, <4>4
    <3>4. CASE i > to + k
      <4>1. From(i) = Skip(at, n, i - k) /\ i - k \in 1 .. rest /\ i - k > to
        <5>1. ~ (i <= to) /\ ~ (i <= to + k)  BY <2>3, <2>5, <3>4
        <5> QED  BY <2>5, <3>4, <5>1
      <4>2. CASE j > to /\ j <= to + k
        <5>1. From(j) = at + (j - to) /\ j - to \in 1 .. k  BY <2>5, <4>2
        <5> QED  BY <2>8, <3>1, <4>1, <5>1
      <4>3. CASE j <= to
        <5>1. From(j) = Skip(at, n, j) /\ j \in 1 .. rest  BY <2>5, <4>3
        <5>2. j = i - k  BY <1>5, <2>8, <4>1, <5>1
        <5> QED  BY <2>5, <4>1, <4>3, <5>2
      <4>4. CASE j > to + k
        <5>1. From(j) = Skip(at, n, j - k) /\ j - k \in 1 .. rest
          <6>1. ~ (j <= to) /\ ~ (j <= to + k)  BY <2>3, <2>5, <4>4
          <6> QED  BY <2>5, <4>4, <6>1
        <5>2. i - k = j - k  BY <1>5, <2>8, <4>1, <5>1
        <5> QED  BY <2>5, <5>2
      <4> QED  BY <2>5, <4>2, <4>3, <4>4
    <3> QED  BY <2>5, <3>2, <3>3, <3>4
  <2>9. l \in 0 .. l  OBVIOUS
  <2> HIDE DEF From
  <2> QED  BY <2>4, <2>7, <2>8, <2>9 DEF Distinct
<1> QED  BY <1>6, <1>7 DEF Takes

\* What remove and move make of a list.
LEMMA TakeIs ==
  ASSUME NEW S, NEW s \in Seq(S), NEW op \in Takes
  PROVE  /\ OnList(s, op, << >>) \in Seq(S)
         /\ Len(OnList(s, op, << >>)) = TakeLen(op, Len(s))
         /\ \A i \in 1 .. TakeLen(op, Len(s)) :
              OnList(s, op, << >>)[i] = s[TakeFrom(op, Len(s), i)]
<1>1. op.at \in Nat /\ op.n \in Nat  BY DEF Takes
<1>2. PICK at \in Nat : at = op.at  BY <1>1
<1>3. PICK n \in Nat : n = op.n  BY <1>1
<1>4. PICK l \in Nat : l = Len(s)  OBVIOUS
<1> DEFINE rem == Splice(s, at, n, << >>)
<1>5. /\ rem \in Seq(S) /\ Len(rem) = Left(at, n, l)
      /\ \A i \in 1 .. Left(at, n, l) : rem[i] = s[Skip(at, n, i)]
  <2>1. at \in Nat /\ n \in Nat  BY <1>2, <1>3
  <2>2. rem \in Seq(S) /\ IsRest(rem, s, at, n)  BY <2>1, RemoveIs
  <2> HIDE DEF rem
  <2> QED  BY <1>4, <2>2 DEF IsRest
<1>6. PICK rest \in 0 .. l : rest = Left(at, n, l)  BY <1>2, <1>3, <1>4, SkipIs
<1> HIDE DEF rem
<1>7. CASE op.method = "remove"
  <2>1. OnList(s, op, << >>) = rem  BY <1>2, <1>3, <1>7 DEF OnList, rem
  <2>2. /\ TakeLen(op, l) = Left(at, n, l)
        /\ \A i \in 1 .. Left(at, n, l) : TakeFrom(op, l, i) = Skip(at, n, i)
    BY <1>2, <1>3, <1>7 DEF TakeLen, TakeFrom
  <2> QED  BY <1>4, <1>5, <2>1, <2>2
<1>8. CASE op.method = "move"
  <2>1. PICK to \in Nat : to = op.to  BY <1>8 DEF Takes
  <2> DEFINE sub == SubSeq(s, at + 1, Min({at + n, Len(s)}))
             r == Splice(rem, to, 0, sub)
  <2>2. OnList(s, op, << >>) = r  BY <1>2, <1>3, <1>8, <2>1 DEF OnList, rem
  <2>3. PICK k \in Nat : k = l - rest  BY <1>4, <1>6
  <2>4. /\ sub \in Seq(S) /\ Len(sub) = k
        /\ \A i \in 1 .. k : sub[i] = s[at + i]
    <3>1. PICK end \in Nat : end = (IF at + n <= l THEN at + n ELSE l)
      BY <1>2, <1>3, <1>4
    <3>2. Min({at + n, Len(s)}) = end
      <4>1. at + n \in Nat /\ Len(s) \in Nat  BY <1>2, <1>3
      <4> QED  BY <1>4, <3>1, <4>1, MinOfTwo
    <3>3. k = IF at <= end THEN end - at ELSE 0
      <4>1. rest = (IF at <= l THEN at ELSE l) + (IF at + n <= l THEN l - at - n ELSE 0)
        BY <1>6 DEF Left
      <4>2. CASE at + n <= l
        <5>1. at \in Int /\ n \in Int /\ n >= 0 /\ l \in Int  BY <1>2, <1>3, <1>4
        <5>2. at <= l /\ rest = at + (l - at - n)  BY <4>1, <4>2, <5>1
        <5>3. end = at + n  BY <3>1, <4>2
        <5>4. k = n  BY <2>3, <5>1, <5>2
        <5> QED  BY <5>1, <5>3, <5>4
      <4>3. CASE ~ (at + n <= l)  BY <1>2, <1>3, <1>4, <1>6, <2>3, <3>1, <4>1, <4>3
      <4> QED  BY <4>2, <4>3
    <3>4. end <= l  BY <1>2, <1>3, <1>4, <3>1
    <3>5. sub = SubSeq(s, at + 1, end)  BY <3>2
    <3>6. \A i \in at + 1 .. end : s[i] \in S  BY <1>2, <1>4, <3>1, <3>4
    <3>7. PICK from \in Int : from = at + 1  BY <1>2
    <3>8. end \in Int /\ at \in Int /\ k \in Int  BY <1>2, <2>3, <3>1
    <3> HIDE DEF sub
    <3>9. /\ sub \in Seq(S) /\ Len(sub) = (IF from <= end THEN end - from + 1 ELSE 0)
          /\ \A i \in 1 .. end - from + 1 : sub[i] = s[from + i - 1]
      <4>1. \A i \in from .. end : s[i] \in S  BY <3>6, <3>7
      <4>2. /\ SubSeq(s, from, end) \in Seq(S)
            /\ Len(SubSeq(s, from, end)) = (IF from <= end THEN end - from + 1 ELSE 0)
            /\ \A i \in 1 .. end - from + 1 : SubSeq(s, from, end)[i] = s[from + i - 1]
        BY <3>7, <3>8, <4>1, SubSeqProperties
      <4> QED  BY <3>5, <3>7, <4>2
    <3>10. Len(sub) = k  BY <3>3, <3>7, <3>8, <3>9
    <3>11. ASSUME NEW i \in 1 .. k PROVE sub[i] = s[at + i]
      <4>1. i \in 1 .. end - from + 1 /\ from + i - 1 = at + i
        BY <3>3, <3>7, <3>8
      <4> QED  BY <3>9, <4>1
    <3> QED  BY <3>9, <3>10, <3>11
  <2> HIDE DEF sub
  <2>5. r \in Seq(S) /\ IsSplice(r, rem, to, 0, sub)
    <3>1. 0 \in Nat /\ to \in Nat /\ rem \in Seq(S) /\ sub \in Seq(S)
      BY <1>5, <2>1, <2>4
    <3> QED  BY <3>1, SpliceIs
  <2> HIDE DEF r
  <2>6. PICK a \in 0 .. rest : a = (IF to <= rest THEN to ELSE rest) /\ a = Ahead(rem, to)
    BY <1>5, <1>6, <2>1 DEF Ahead
  <2>7. /\ Behind(rem, to, 0) = rest - a
        /\ a < rest => a = to
    BY <1>5, <1>6, <2>1, <2>6 DEF Behind
  <2>8. /\ Len(r) = a + k + (rest - a)
        /\ \A i \in 1 .. a : r[i] = rem[i]
        /\ \A i \in 1 .. k : r[a + i] = sub[i]
        /\ \A i \in 1 .. rest - a : r[a + k + i] = rem[to + 0 + i]
    BY <2>4, <2>5, <2>6, <2>7 DEF IsSplice
  <2>9. /\ a \in Int /\ k \in Int /\ rest \in Int /\ l \in Int /\ at \in Int /\ to \in Int
        /\ a >= 0 /\ k >= 0 /\ a <= rest /\ rest + k = l
    BY <1>2, <1>4, <1>6, <2>1, <2>3, <2>6
  <2> DEFINE From(i) == IF i <= a THEN Skip(at, n, i)
                        ELSE IF i <= a + k THEN at + (i - a)
                        ELSE Skip(at, n, i - k)
  <2>10. TakeLen(op, l) = l /\ \A i \in 1 .. l : TakeFrom(op, l, i) = From(i)
    BY <1>2, <1>3, <1>6, <1>8, <2>1, <2>3, <2>6 DEF TakeLen, TakeFrom
  <2>11. ASSUME NEW i \in 1 .. l PROVE r[i] = s[From(i)]
    <3>1. i \in Int /\ 1 <= i /\ i <= l  BY <2>9
    <3>2. CASE i <= a
      <4>1. i \in 1 .. a /\ i \in 1 .. rest  BY <2>9, <3>1, <3>2
      <4>2. r[i] = rem[i] /\ rem[i] = s[Skip(at, n, i)]  BY <1>5, <1>6, <2>8, <4>1
      <4> QED  BY <3>2, <4>2
    <3>3. CASE i > a /\ i <= a + k
      <4>1. i - a \in 1 .. k /\ a + (i - a) = i /\ ~ (i <= a)  BY <2>9, <3>1, <3>3
      <4>2. r[a + (i - a)] = sub[i - a] /\ sub[i - a] = s[at + (i - a)]
        BY <2>4, <2>8, <4>1
      <4> QED  BY <3>3, <4>1, <4>2
    <3>4. CASE i > a + k
      <4>1. /\ i - k - a \in 1 .. rest - a /\ a + k + (i - k - a) = i
            /\ ~ (i <= a) /\ ~ (i <= a + k) /\ i - k \in 1 .. rest /\ a < rest
        BY <2>9, <3>1, <3>4
      <4>2. to + 0 + (i - k - a) = i - k  BY <2>7, <2>9, <3>1, <4>1
      <4>3. r[a + k + (i - k - a)] = rem[to + 0 + (i - k - a)]  BY <2>8, <4>1
      <4>4. rem[i - k] = s[Skip(at, n, i - k)]  BY <1>5, <1>6, <4>1
      <4> QED  BY <4>1, <4>2, <4>3, <4>4
    <3> QED  BY <2>9, <3>1, <3>2, <3>3, <3>4
  <2>12. Len(r) = l
    <3>1. a + k + (rest - a) = l  BY <2>9
    <3> QED  BY <2>8, <3>1
  <2> HIDE DEF From
  <2> QED  BY <1>4, <2>2, <2>5, <2>10, <2>11, <2>12
<1> QED  BY <1>7, <1>8 DEF Takes

-----------------------------------------------------------------------------
(* Transactions *)

\* One pointer of a list is set.
Put(s, at, id) == IF at = Len(s) THEN Append(s, id) ELSE [s EXCEPT ![at + 1] = id]

\* The pointer lists, documents and key after a transaction.
KeysAfter(keys, t) ==
  IF t.path = "list" THEN [keys EXCEPT ![t.key] = OnList(@, t.op, t.ids)]
  ELSE IF t.path = "member" THEN [keys EXCEPT ![t.key] = Put(@, t.at, t.id)]
  ELSE keys
DocsAfter(docs, t) == IF t.path = "doc" THEN [docs EXCEPT ![t.id] = t.content] ELSE docs
SelAfter(sel, t) == IF t.path = "key" THEN t.id ELSE sel

\* The kinds of transactions.
LEMMA TxnKinds ==
  ASSUME NEW t \in Txns
  PROVE  \/ t.path = "doc" /\ t.id \in Ids /\ t.content \in Value
         \/ /\ t.path = "list" /\ t.key \in Keys /\ t.op \in Inserts
            /\ \E id \in Ids : t.ids = <<id>>
         \/ t.path = "list" /\ t.key \in Keys /\ t.op \in Takes /\ t.ids = << >>
         \/ t.path = "member" /\ t.key \in Keys /\ t.at \in Nat /\ t.id \in Pointer
         \/ t.path = "key" /\ t.id \in Pointer
BY DEF Txns

\* A member set in a list, at its end or in it.
LEMMA PutIs ==
  ASSUME NEW s \in Seq(Pointer), NEW at \in Nat, NEW id \in Pointer
  PROVE  /\ Put(s, at, id) \in Seq(Pointer)
         /\ at = Len(s) =>
              /\ Len(Put(s, at, id)) = Len(s) + 1 /\ Put(s, at, id)[at + 1] = id
              /\ \A i \in 1 .. Len(s) : Put(s, at, id)[i] = s[i]
         /\ at # Len(s) =>
              /\ Len(Put(s, at, id)) = Len(s)
              /\ at < Len(s) => Put(s, at, id)[at + 1] = id
              /\ \A i \in 1 .. Len(s) : i # at + 1 => Put(s, at, id)[i] = s[i]
<1>1. CASE at = Len(s)  BY <1>1 DEF Put
<1>2. CASE at # Len(s)
  <2>1. PICK n \in Nat : n = Len(s) /\ DOMAIN s = 1 .. n  OBVIOUS
  <2>2. Put(s, at, id) = [s EXCEPT ![at + 1] = id]  BY <1>2 DEF Put
  <2>3. Put(s, at, id) \in Seq(Pointer) /\ Len(Put(s, at, id)) = n
    <3>1. s \in [1 .. n -> Pointer]  BY <2>1
    <3>2. Put(s, at, id) \in [1 .. n -> Pointer]  BY <2>2, <3>1
    <3> QED  BY <2>1, <3>2
  <2>4. at < n => at + 1 \in DOMAIN s  BY <2>1
  <2>5. \A i \in DOMAIN s : Put(s, at, id)[i] = IF i = at + 1 THEN id ELSE s[i]  BY <2>2
  <2> QED  BY <1>2, <2>1, <2>3, <2>4, <2>5
<1> QED  BY <1>1, <1>2

\* The pointer lists after a transaction are pointer lists.
LEMMA KeysType ==
  ASSUME NEW keys \in [Keys -> Seq(Pointer)], NEW t \in Txns
  PROVE  KeysAfter(keys, t) \in [Keys -> Seq(Pointer)]
<1>1. CASE t.path = "list"
  <2>1. t.key \in Keys  BY <1>1, TxnKinds
  <2>2. OnList(keys[t.key], t.op, t.ids) \in Seq(Pointer)
    <3>1. CASE t.op \in Inserts /\ \E id \in Ids : t.ids = <<id>>
      <4>1. PICK id \in Pointer : t.ids = <<id>>  BY <3>1 DEF Pointer
      <4>2. keys[t.key] \in Seq(Pointer)  BY <2>1
      <4> QED  BY <3>1, <4>1, <4>2, InsertIs
    <3>2. CASE t.op \in Takes /\ t.ids = << >>
      <4>1. keys[t.key] \in Seq(Pointer)  BY <2>1
      <4> QED  BY <3>2, <4>1, TakeIs
    <3> QED  BY <1>1, <3>1, <3>2, TxnKinds
  <2> QED  BY <1>1, <2>1, <2>2 DEF KeysAfter
<1>2. CASE t.path = "member"
  <2>1. t.key \in Keys /\ t.at \in Nat /\ t.id \in Pointer  BY <1>2, TxnKinds
  <2>2. Put(keys[t.key], t.at, t.id) \in Seq(Pointer)  BY <2>1, PutIs
  <2> QED  BY <1>2, <2>1, <2>2 DEF KeysAfter
<1>3. CASE t.path \notin {"list", "member"}  BY <1>3 DEF KeysAfter
<1> QED  BY <1>1, <1>2, <1>3

\* What a transaction stores.
LEMMA StoredIs ==
  ASSUME NEW m, ModelOK(m), NEW t \in Txns
  PROVE  /\ Stored(m, t).docs = DocsAfter(m.docs, t)
         /\ Stored(m, t).keys = KeysAfter(m.keys, t)
         /\ Stored(m, t).sel = SelAfter(m.sel, t)
         /\ Stored(m, t).ref = m.ref /\ Stored(m, t).listeners = m.listeners
         /\ Stored(m, t).list = m.list /\ Stored(m, t).shown = m.shown
         /\ DOMAIN Stored(m, t) = {"docs", "keys", "sel", "ref", "listeners", "list", "shown"}
<1>1. DOMAIN m = {"docs", "keys", "sel", "ref", "listeners", "list", "shown"}
  BY DEF ModelOK
<1>2. CASE t.path = "doc"
  <2>1. Stored(m, t) = [m EXCEPT !.docs[t.id] = t.content]  BY <1>2 DEF Stored
  <2> QED  BY <1>1, <1>2, <2>1 DEF DocsAfter, KeysAfter, SelAfter
<1>3. CASE t.path = "list"
  <2>1. Stored(m, t) = [m EXCEPT !.keys[t.key] = OnList(m.keys[t.key], t.op, t.ids)]
    BY <1>3 DEF Stored
  <2> QED  BY <1>1, <1>3, <2>1 DEF DocsAfter, KeysAfter, SelAfter
<1>4. CASE t.path = "member"
  <2>1. Stored(m, t) = [m EXCEPT !.keys[t.key] = Put(m.keys[t.key], t.at, t.id)]
    BY <1>4 DEF Stored, Put
  <2> QED  BY <1>1, <1>4, <2>1 DEF DocsAfter, KeysAfter, SelAfter
<1>5. CASE t.path = "key"
  <2>1. Stored(m, t) = [m EXCEPT !.sel = t.id]  BY <1>5 DEF Stored
  <2> QED  BY <1>1, <1>5, <2>1 DEF DocsAfter, KeysAfter, SelAfter
<1> QED  BY <1>2, <1>3, <1>4, <1>5, TxnKinds

\* The listeners one after another, as the fold in Exec takes them.
HeardBody(n, t, list, S, f) ==
  [s \in SUBSET S |->
     IF s = {} THEN list
     ELSE Heard(n, t, CHOOSE l \in s : TRUE, f[s \ {CHOOSE l \in s : TRUE}])]
HeardFold(n, t, list, S) == (CHOOSE f : f = HeardBody(n, t, list, S, f))[S]

\* The fold over the refLists that hear of an event, for none and for one.
LEMMA HeardFoldIs ==
  ASSUME NEW n, NEW t, NEW list, NEW r
  PROVE  /\ HeardFold(n, t, list, {}) = list
         /\ HeardFold(n, t, list, {r}) = Heard(n, t, r, list)
<1> DEFINE fold(S) == CHOOSE f : f = HeardBody(n, t, list, S, f)
<1>1. ASSUME NEW S, \E f : f = HeardBody(n, t, list, S, f)
      PROVE  fold(S) = HeardBody(n, t, list, S, fold(S))
  BY <1>1
<1>2. HeardFold(n, t, list, {}) = list
  <2> DEFINE f == [s \in SUBSET {} |-> list]
  <2>1. f = HeardBody(n, t, list, {}, f)  BY DEF HeardBody
  <2> HIDE DEF f
  <2>2. fold({}) = HeardBody(n, t, list, {}, fold({}))  BY <1>1, <2>1
  <2> HIDE DEF fold
  <2>3. fold({})[{}] = list  BY <2>2 DEF HeardBody
  <2> QED  BY <2>3 DEF HeardFold, fold
<1>3. HeardFold(n, t, list, {r}) = Heard(n, t, r, list)
  <2> DEFINE f == [s \in SUBSET {r} |-> IF s = {} THEN list ELSE Heard(n, t, r, list)]
             some(s) == CHOOSE l \in s : TRUE
  <2>1. \A s \in SUBSET {r} : s # {} => s = {r} /\ some(s) = r /\ s \ {some(s)} = {}
    OBVIOUS
  <2>2. f = HeardBody(n, t, list, {r}, f)
    <3>1. {} \in SUBSET {r} /\ f[{}] = list  OBVIOUS
    <3>2. \A s \in SUBSET {r} : s # {} =>
            Heard(n, t, some(s), f[s \ {some(s)}]) = Heard(n, t, r, list)
      <4> HIDE DEF f, some
      <4> QED  BY <2>1, <3>1
    <3>3. f = [s \in SUBSET {r} |-> IF s = {} THEN list
                                    ELSE Heard(n, t, some(s), f[s \ {some(s)}])]
      <4>1. \A s \in SUBSET {r} : f[s] = IF s = {} THEN list ELSE Heard(n, t, r, list)
        OBVIOUS
      <4>2. f = [s \in SUBSET {r} |-> f[s]]  OBVIOUS
      <4> HIDE DEF f, some
      <4> QED  BY <3>2, <4>1, <4>2
    <3> HIDE DEF f
    <3> QED  BY <3>3 DEF HeardBody
  <2> HIDE DEF f
  <2>3. fold({r}) = HeardBody(n, t, list, {r}, fold({r}))  BY <1>1, <2>2
  <2> HIDE DEF fold
  <2>4. fold({r}) = [s \in SUBSET {r} |-> IF s = {} THEN list
                                          ELSE Heard(n, t, some(s), fold({r})[s \ {some(s)}])]
    BY <2>3 DEF HeardBody
  <2>5. {} \in SUBSET {r} /\ {r} \in SUBSET {r} /\ {r} # {}  OBVIOUS
  <2>6. fold({r})[{}] = list  BY <2>4, <2>5
  <2>7. fold({r})[{r}] = Heard(n, t, some({r}), fold({r})[{r} \ {some({r})}])
    <3> HIDE DEF some
    <3> QED  BY <2>4, <2>5
  <2>8. some({r}) = r /\ {r} \ {some({r})} = {}  BY <2>1, <2>5
  <2> HIDE DEF some
  <2>9. fold({r})[{r}] = Heard(n, t, r, list)  BY <2>6, <2>7, <2>8
  <2> QED  BY <2>9 DEF HeardFold, fold
<1> QED  BY <1>2, <1>3

\* What becomes of a model when a transaction is applied and emitted.
LEMMA ExecIs ==
  ASSUME NEW m, ModelOK(m), NEW t \in Txns, NEW n, n = Stored(m, t)
  PROVE  /\ Exec(m, t).docs = DocsAfter(m.docs, t)
         /\ Exec(m, t).keys = KeysAfter(m.keys, t)
         /\ Exec(m, t).sel = SelAfter(m.sel, t)
         /\ Exec(m, t).ref = m.ref
         /\ Exec(m, t).listeners = m.listeners \ Dead(n, t)
         /\ Exec(m, t).shown = HeardKey(n, t, m.shown)
         /\ Exec(m, t).list = IF Matches(m.ref, t) THEN Heard(n, t, m.ref, m.list) ELSE m.list
         /\ Exec(m, t) = [x \in {"docs", "keys", "sel", "ref", "listeners", "list", "shown"} |->
                            Exec(m, t)[x]]
<1>1. /\ n.docs = DocsAfter(m.docs, t) /\ n.keys = KeysAfter(m.keys, t)
      /\ n.sel = SelAfter(m.sel, t) /\ n.ref = m.ref /\ n.listeners = m.listeners
      /\ n.list = m.list /\ n.shown = m.shown
      /\ DOMAIN n = {"docs", "keys", "sel", "ref", "listeners", "list", "shown"}
  BY StoredIs
<1> DEFINE list == HeardFold(n, t, n.list, Firing(n, t))
<1>2. Exec(m, t) = [n EXCEPT !.list = list, !.shown = HeardKey(n, t, n.shown),
                             !.listeners = n.listeners \ Dead(n, t)]
  BY DEF Exec, FoldSet, MapThenFoldSet, HeardFold, HeardBody
<1>3. list = IF Matches(m.ref, t) THEN Heard(n, t, m.ref, m.list) ELSE m.list
  <2>1. m.ref \in m.listeners  BY DEF ModelOK
  <2>2. Firing(n, t) = IF Matches(m.ref, t) THEN {m.ref} ELSE {}  BY <1>1, <2>1 DEF Firing
  <2>3. CASE Matches(m.ref, t)
    <3>1. list = HeardFold(n, t, m.list, {m.ref})  BY <1>1, <2>2, <2>3
    <3> HIDE DEF list
    <3> QED  BY <2>3, <3>1, HeardFoldIs
  <2>4. CASE ~ Matches(m.ref, t)
    <3>1. list = HeardFold(n, t, m.list, {})  BY <1>1, <2>2, <2>4
    <3> HIDE DEF list
    <3> QED  BY <2>4, <3>1, HeardFoldIs
  <2> QED  BY <2>3, <2>4
<1> HIDE DEF list
<1>4. /\ Exec(m, t).docs = n.docs /\ Exec(m, t).keys = n.keys /\ Exec(m, t).sel = n.sel
      /\ Exec(m, t).ref = n.ref /\ Exec(m, t).listeners = n.listeners \ Dead(n, t)
      /\ Exec(m, t).shown = HeardKey(n, t, n.shown) /\ Exec(m, t).list = list
      /\ DOMAIN Exec(m, t) = DOMAIN n
      /\ Exec(m, t) = [x \in DOMAIN Exec(m, t) |-> Exec(m, t)[x]]
  BY <1>1, <1>2
<1> QED  BY <1>1, <1>3, <1>4

\* What a view hears of a transaction on the pointer list.
LEMMA HeardInsert ==
  ASSUME NEW n, NEW t, t.path = "list", NEW id \in Ids, t.ids = <<id>>, NEW l, NEW list
  PROVE  Heard(n, t, l, list) = OnList(list, t.op, <<n.docs[id]>>)
<1>1. [k \in DOMAIN t.ids |-> n.docs[t.ids[k]]] = <<n.docs[id]>>  OBVIOUS
<1> QED  BY <1>1 DEF Heard

\* A list hears of remove and move as they are.
LEMMA HeardTake ==
  ASSUME NEW n, NEW t, t.path = "list", t.ids = << >>, NEW l, NEW list
  PROVE  Heard(n, t, l, list) = OnList(list, t.op, << >>)
<1>1. [k \in DOMAIN t.ids |-> n.docs[t.ids[k]]] = << >>  OBVIOUS
<1> QED  BY <1>1 DEF Heard

\* A list of a view is one after any event.
LEMMA HeardType ==
  ASSUME NEW n, n.docs \in [Ids -> Value], NEW t \in Txns, t.path \in {"doc", "list"},
         NEW l, NEW list \in Seq(Value)
  PROVE  Heard(n, t, l, list) \in Seq(Value)
<1>1. CASE t.path = "list" /\ t.op \in Inserts /\ \E id \in Ids : t.ids = <<id>>
  <2>1. PICK id \in Ids : t.ids = <<id>>  BY <1>1
  <2>2. n.docs[id] \in Value  BY <2>1
  <2>3. OnList(list, t.op, <<n.docs[id]>>) \in Seq(Value)  BY <1>1, <2>2, InsertIs
  <2>4. Heard(n, t, l, list) = OnList(list, t.op, <<n.docs[id]>>)  BY <1>1, <2>1, HeardInsert
  <2> QED  BY <2>3, <2>4
<1>2. CASE t.path = "list" /\ t.op \in Takes /\ t.ids = << >>
  <2>1. OnList(list, t.op, << >>) \in Seq(Value)  BY <1>2, TakeIs
  <2> QED  BY <1>2, <2>1, HeardTake
<1>3. CASE t.path = "doc"
  <2>1. t.content \in Value  BY <1>3, TxnKinds
  <2>2. PICK k \in Nat : k = Len(list) /\ DOMAIN list = 1 .. k  OBVIOUS
  <2> DEFINE at == {j \in DOMAIN n.keys[l.key] : n.keys[l.key][j] = t.id}
  <2>3. Heard(n, t, l, list) \in
          {list, Append(list, t.content), [list EXCEPT ![Min(at)] = t.content]}
    BY <1>3 DEF Heard
  <2>4. Append(list, t.content) \in Seq(Value)  BY <2>1
  <2>5. [list EXCEPT ![Min(at)] = t.content] \in Seq(Value)
    <3> HIDE DEF at
    <3>1. list \in [1 .. k -> Value]  BY <2>2
    <3>2. [list EXCEPT ![Min(at)] = t.content] \in [1 .. k -> Value]  BY <2>1, <3>1
    <3> QED  BY <2>2, <3>2
  <2> QED  BY <2>3, <2>4, <2>5
<1> QED  BY <1>1, <1>2, <1>3, TxnKinds

\* The parts of the shape.
LEMMA ModelParts ==
  ASSUME NEW m
  PROVE  ModelOK(m) <=>
           /\ m = [x \in {"docs", "keys", "sel", "ref", "listeners", "list", "shown"} |-> m[x]]
           /\ m.docs \in [Ids -> Value] /\ m.keys \in [Keys -> Seq(Pointer)] /\ m.sel \in Pointer
           /\ m.ref \in GetterSet /\ m.listeners \subseteq GetterSet
           /\ m.list \in Seq(Value) /\ m.shown \in Value
           /\ m.ref \in m.listeners /\ \A l \in m.listeners : l.n <= m.ref.n
BY DEF ModelOK

\* A transaction leaves a model in shape.
LEMMA ExecType ==
  ASSUME NEW m, ModelOK(m), NEW t \in Txns
  PROVE  ModelOK(Exec(m, t))
<1>1. /\ m.docs \in [Ids -> Value] /\ m.keys \in [Keys -> Seq(Pointer)] /\ m.sel \in Pointer
      /\ m.ref \in GetterSet /\ m.listeners \subseteq GetterSet
      /\ m.list \in Seq(Value) /\ m.shown \in Value
      /\ m.ref \in m.listeners /\ \A l \in m.listeners : l.n <= m.ref.n
  BY ModelParts
<1> DEFINE n == Stored(m, t)  e == Exec(m, t)
<1>2. n.docs = DocsAfter(m.docs, t) /\ n.sel = SelAfter(m.sel, t) /\ n.ref = m.ref
  BY StoredIs
<1>3. /\ e.docs = DocsAfter(m.docs, t) /\ e.keys = KeysAfter(m.keys, t)
      /\ e.sel = SelAfter(m.sel, t) /\ e.ref = m.ref
      /\ e.listeners = m.listeners \ Dead(n, t)
      /\ e.shown = HeardKey(n, t, m.shown)
      /\ e.list = IF Matches(m.ref, t) THEN Heard(n, t, m.ref, m.list) ELSE m.list
      /\ e = [x \in {"docs", "keys", "sel", "ref", "listeners", "list", "shown"} |-> e[x]]
  BY ExecIs
<1> HIDE DEF n, e
<1>4. e.docs \in [Ids -> Value]
  <2>1. CASE t.path = "doc"
    <3>1. t.id \in Ids /\ t.content \in Value  BY <2>1, TxnKinds
    <3> QED  BY <1>1, <1>3, <2>1, <3>1 DEF DocsAfter
  <2>2. CASE t.path # "doc"  BY <1>1, <1>3, <2>2 DEF DocsAfter
  <2> QED  BY <2>1, <2>2
<1>5. e.keys \in [Keys -> Seq(Pointer)]  BY <1>1, <1>3, KeysType
<1>6. e.sel \in Pointer
  <2>1. t.path = "key" => t.id \in Pointer  BY TxnKinds
  <2> QED  BY <1>1, <1>3, <2>1 DEF SelAfter
<1>7. e.ref \in e.listeners /\ e.listeners \subseteq m.listeners  BY <1>1, <1>2, <1>3 DEF Dead
<1>8. e.list \in Seq(Value)
  <2>1. CASE Matches(m.ref, t)
    <3>1. t.path \in {"doc", "list"} /\ n.docs \in [Ids -> Value]
      BY <1>2, <1>3, <1>4, <2>1 DEF Matches
    <3> QED  BY <1>1, <1>3, <2>1, <3>1, HeardType
  <2>2. CASE ~ Matches(m.ref, t)  BY <1>1, <1>3, <2>2
  <2> QED  BY <2>1, <2>2
<1>9. e.shown \in Value
  <2>1. CASE t.path = "key"
    <3>1. t.id \in Pointer /\ n.docs = m.docs  BY <1>2, <2>1, TxnKinds DEF DocsAfter
    <3> QED  BY <1>1, <1>3, <2>1, <3>1 DEF HeardKey, Doc, Pointer, Value
  <2>2. CASE t.path # "key"
    <3>1. t.path = "doc" => t.content \in Value  BY TxnKinds
    <3> QED  BY <1>1, <1>3, <2>2, <3>1 DEF HeardKey
  <2> QED  BY <2>1, <2>2
<1>10. ModelOK(e)  BY <1>1, <1>3, <1>4, <1>5, <1>6, <1>7, <1>8, <1>9, ModelParts
<1> QED  BY <1>10 DEF e

\* FollowsKey, of one model.
ShowsKey(m) == m.shown = Doc(m, m.sel)

\* What the ref with a key shows is the document that the key names, after any
\* transaction too.
LEMMA ExecShowsKey ==
  ASSUME NEW m, ModelOK(m), ShowsKey(m), NEW t \in Txns
  PROVE  ShowsKey(Exec(m, t))
<1>1. m.docs \in [Ids -> Value] /\ m.sel \in Pointer  BY ModelParts
<1> DEFINE n == Stored(m, t)  e == Exec(m, t)
<1>2. n.docs = DocsAfter(m.docs, t) /\ n.sel = SelAfter(m.sel, t)  BY StoredIs
<1>3. /\ e.docs = DocsAfter(m.docs, t) /\ e.sel = SelAfter(m.sel, t)
      /\ e.shown = HeardKey(n, t, m.shown)
  BY ExecIs
<1> HIDE DEF n, e
<1>4. m.shown = IF m.sel = Nothing THEN Nothing ELSE m.docs[m.sel]  BY DEF ShowsKey, Doc
<1>5. e.shown = IF e.sel = Nothing THEN Nothing ELSE e.docs[e.sel]
  <2>1. CASE t.path = "key"
    <3>1. e.docs = m.docs /\ n.docs = m.docs /\ e.sel = t.id
      BY <1>2, <1>3, <2>1 DEF DocsAfter, SelAfter
    <3>2. e.shown = IF t.id = Nothing THEN Nothing ELSE n.docs[t.id]
      BY <1>3, <2>1 DEF HeardKey, Doc
    <3> QED  BY <3>1, <3>2
  <2>2. CASE t.path = "doc"
    <3>1. t.id \in Ids /\ t.id # Nothing  BY <2>2, TxnKinds, RefsAssumption
    <3>2. /\ e.docs = [m.docs EXCEPT ![t.id] = t.content]
          /\ e.sel = m.sel /\ n.sel = m.sel
      BY <1>2, <1>3, <2>2 DEF DocsAfter, SelAfter
    <3>3. e.shown = IF t.id = m.sel THEN t.content ELSE m.shown
      BY <1>3, <2>2, <3>2 DEF HeardKey
    <3> QED  BY <1>1, <1>4, <3>1, <3>2, <3>3 DEF Pointer
  <2>3. CASE t.path \notin {"key", "doc"}
    <3>1. e.docs = m.docs /\ e.sel = m.sel  BY <1>3, <2>3 DEF DocsAfter, SelAfter
    <3>2. e.shown = m.shown  BY <1>3, <2>3 DEF HeardKey
    <3> QED  BY <1>4, <3>1, <3>2
  <2> QED  BY <2>1, <2>2, <2>3
<1>6. ShowsKey(e)  BY <1>5 DEF ShowsKey, Doc
<1> QED  BY <1>6 DEF e

-----------------------------------------------------------------------------
(* One call *)

\* The order in which the transactions of a call are applied.
LEMMA MaxOfTwo ==
  /\ Max({1}) = 1 /\ Max({2}) = 2 /\ Max({1, 2}) = 2
<1> DEFINE P(S, x) == x \in S /\ \A y \in S : x >= y
<1>1. \A S : Max(S) = CHOOSE x : P(S, x)  BY DEF Max
<1>2. /\ P({1}, 1) /\ P({2}, 2) /\ P({1, 2}, 2)
      /\ \A x : P({1}, x) => x = 1
      /\ \A x : P({2}, x) => x = 2
      /\ \A x : P({1, 2}, x) => x = 2
  OBVIOUS
<1> HIDE DEF P
<1>3. (CHOOSE x : P({1}, x)) = 1  BY <1>2
<1>4. (CHOOSE x : P({2}, x)) = 2  BY <1>2
<1>5. (CHOOSE x : P({1, 2}, x)) = 2  BY <1>2
<1> QED  BY <1>1, <1>3, <1>4, <1>5

\* The transactions of a call one after another, as the fold in Do takes them.
DoneBody(m, ts, D, f) ==
  [s \in SUBSET D |-> IF s = {} THEN m ELSE Exec(f[s \ {Max(s)}], ts[Max(s)])]
Done(m, ts, D) == (CHOOSE f : f = DoneBody(m, ts, D, f))[D]

\* The fold over the transactions of a call, for one and for two.
LEMMA DoneIs ==
  ASSUME NEW m, NEW ts
  PROVE  /\ Done(m, ts, {1}) = Exec(m, ts[1])
         /\ Done(m, ts, {1, 2}) = Exec(Exec(m, ts[1]), ts[2])
<1> DEFINE fold(D) == CHOOSE f : f = DoneBody(m, ts, D, f)
<1>1. ASSUME NEW D, \E f : f = DoneBody(m, ts, D, f)
      PROVE  fold(D) = DoneBody(m, ts, D, fold(D))
  BY <1>1
<1> DEFINE e1 == Exec(m, ts[1])  e2 == Exec(m, ts[2])  e12 == Exec(e1, ts[2])
           val(s) == IF s = {} THEN m ELSE IF s = {1} THEN e1 ELSE IF s = {2} THEN e2 ELSE e12
           step(s) == IF s = {} THEN m ELSE Exec(val(s \ {Max(s)}), ts[Max(s)])
<1>2. step({}) = val({})  OBVIOUS
<1>3. step({1}) = val({1})
  <2>1. {1} # {} /\ {1} \ {1} = {} /\ Max({1}) = 1  BY MaxOfTwo
  <2>2. step({1}) = Exec(val({1} \ {1}), ts[1])  BY <2>1
  <2>3. val({1} \ {1}) = m /\ val({1}) = e1  BY <2>1
  <2> HIDE DEF step, val
  <2> QED  BY <2>2, <2>3
<1>4. step({2}) = val({2})
  <2>1. {2} # {} /\ {2} # {1} /\ {2} \ {2} = {} /\ Max({2}) = 2  BY MaxOfTwo
  <2>2. step({2}) = Exec(val({2} \ {2}), ts[2])  BY <2>1
  <2>3. val({2} \ {2}) = m /\ val({2}) = e2  BY <2>1
  <2> HIDE DEF step, val
  <2> QED  BY <2>2, <2>3
<1>5. step({1, 2}) = val({1, 2})
  <2>1. /\ {1, 2} # {} /\ {1, 2} # {1} /\ {1, 2} # {2} /\ {1, 2} \ {2} = {1} /\ {1} # {}
        /\ Max({1, 2}) = 2
    BY MaxOfTwo
  <2>2. step({1, 2}) = Exec(val({1, 2} \ {2}), ts[2])  BY <2>1
  <2>3. val({1, 2} \ {2}) = e1 /\ val({1, 2}) = e12  BY <2>1
  <2> HIDE DEF step, val
  <2> QED  BY <2>2, <2>3
<1>6. ASSUME NEW D, D \in {{1}, {1, 2}}
      PROVE  fold(D) = [s \in SUBSET D |-> IF s = {} THEN m
                                           ELSE Exec(fold(D)[s \ {Max(s)}], ts[Max(s)])]
  <2> DEFINE f == [s \in SUBSET D |-> val(s)]
  <2>1. \A s \in SUBSET D : s \in {{}, {1}, {2}, {1, 2}}  BY <1>6
  <2>2. \A s \in SUBSET D : step(s) = val(s)
    <3> HIDE DEF step, val
    <3> QED  BY <1>2, <1>3, <1>4, <1>5, <2>1
  <2>3. \A s \in SUBSET D :
          val(s) = IF s = {} THEN m ELSE Exec(f[s \ {Max(s)}], ts[Max(s)])
    <3>1. \A s \in SUBSET D : s \ {Max(s)} \in SUBSET D  OBVIOUS
    <3>2. \A s \in SUBSET D : f[s \ {Max(s)}] = val(s \ {Max(s)})
      <4> HIDE DEF val
      <4> QED  BY <3>1
    <3> HIDE DEF f, val
    <3> QED  BY <2>2, <3>2 DEF step
  <2>4. f = DoneBody(m, ts, D, f)
    <3> DEFINE body(s) == IF s = {} THEN m ELSE Exec(f[s \ {Max(s)}], ts[Max(s)])
    <3>1. \A s \in SUBSET D : val(s) = body(s)  BY <2>3
    <3>2. f = [s \in SUBSET D |-> body(s)]
      <4> HIDE DEF val, body
      <4> QED  BY <3>1
    <3> QED  BY <3>2 DEF DoneBody
  <2> HIDE DEF f
  <2>5. fold(D) = DoneBody(m, ts, D, fold(D))  BY <1>1, <2>4
  <2> HIDE DEF fold
  <2> QED  BY <2>5 DEF DoneBody
<1> HIDE DEF fold
<1>7. ASSUME NEW D, D \in {{1}, {1, 2}} PROVE fold(D)[{1}] = e1
  <2>1. {} \in SUBSET D /\ {1} \in SUBSET D /\ {1} # {} /\ {1} \ {1} = {}  BY <1>7
  <2>2. PICK g : g = fold(D)  OBVIOUS
  <2>3. g = [s \in SUBSET D |-> IF s = {} THEN m ELSE Exec(g[s \ {Max(s)}], ts[Max(s)])]
    BY <1>6, <1>7, <2>2
  <2>4. g[{}] = m  BY <2>1, <2>3
  <2>5. g[{1}] = Exec(g[{1} \ {Max({1})}], ts[Max({1})])  BY <2>1, <2>3
  <2>6. g[{1}] = e1  BY <2>1, <2>4, <2>5, MaxOfTwo
  <2> QED  BY <2>2, <2>6
<1>8. fold({1, 2})[{1, 2}] = e12
  <2>1. {1, 2} \in {{1}, {1, 2}}  OBVIOUS
  <2>2. {1, 2} \in SUBSET {1, 2} /\ {1, 2} # {} /\ {1, 2} \ {2} = {1}  OBVIOUS
  <2>3. fold({1, 2})[{1, 2}] = Exec(fold({1, 2})[{1, 2} \ {Max({1, 2})}], ts[Max({1, 2})])
    BY <1>6, <2>1, <2>2
  <2>4. fold({1, 2})[{1}] = e1  BY <1>7, <2>1
  <2> QED  BY <2>2, <2>3, <2>4, MaxOfTwo
<1>9. fold({1})[{1}] = e1  BY <1>7
<1> QED  BY <1>8, <1>9 DEF Done, fold

\* A call of one transaction applies it ...
LEMMA CallOneIs ==
  ASSUME NEW m, NEW t
  PROVE  FoldLeft(Exec, m, <<t>>) = Exec(m, t)
<1>1. DOMAIN <<t>> = {1} /\ <<t>>[1] = t  OBVIOUS
<1>2. FoldLeft(Exec, m, <<t>>) = Done(m, <<t>>, DOMAIN <<t>>)
  BY DEF FoldLeft, MapThenFoldSet, Done, DoneBody
<1>3. Done(m, <<t>>, {1}) = Exec(m, t)  BY <1>1, DoneIs
<1> QED  BY <1>1, <1>2, <1>3

DoneTwo(m, t, u) == FoldLeft(Exec, m, <<t, u>>)

\* ... and a call of two the first, then the second.
LEMMA CallTwoIs ==
  ASSUME NEW m, NEW t, NEW u
  PROVE  DoneTwo(m, t, u) = Exec(Exec(m, t), u)
<1>1. DOMAIN <<t, u>> = {1, 2} /\ <<t, u>>[1] = t /\ <<t, u>>[2] = u  OBVIOUS
<1>2. FoldLeft(Exec, m, <<t, u>>) = Done(m, <<t, u>>, DOMAIN <<t, u>>)
  BY DEF FoldLeft, MapThenFoldSet, Done, DoneBody
<1>3. Done(m, <<t, u>>, {1, 2}) = Exec(Exec(m, t), u)  BY <1>1, DoneIs
<1> QED  BY <1>1, <1>2, <1>3 DEF DoneTwo

-----------------------------------------------------------------------------
(* What holds of the memory of a model between any two transactions *)

Memory == [docs : [Ids -> Value], keys : [Keys -> Seq(Pointer)]]
Mem(m) == [docs |-> m.docs, keys |-> m.keys]
After(mem, t) == [docs |-> DocsAfter(mem.docs, t), keys |-> KeysAfter(mem.keys, t)]

\* No id twice in a list, no list too long, no id without its document but the loose ones.
Once(s) == \A i, j \in 1 .. Len(s) : s[i] = s[j] /\ s[i] # Nothing => i = j
Backed(docs, s, lo) ==
  \A i \in 1 .. Len(s) : s[i] \in Ids /\ docs[s[i]] = Nothing => s[i] \in lo
KeptList(docs, s, lo) == Len(s) <= MaxLen /\ Once(s) /\ Backed(docs, s, lo)
Kept(mem, lo) == \A key \in Keys : KeptList(mem.docs, mem.keys[key], lo)

\* A memory after a transaction is a memory.
LEMMA AfterType ==
  ASSUME NEW mem \in Memory, NEW t \in Txns
  PROVE  After(mem, t) \in Memory
<1>1. mem.docs \in [Ids -> Value] /\ mem.keys \in [Keys -> Seq(Pointer)]  BY DEF Memory
<1>2. KeysAfter(mem.keys, t) \in [Keys -> Seq(Pointer)]  BY <1>1, KeysType
<1>3. DocsAfter(mem.docs, t) \in [Ids -> Value]
  <2>1. CASE t.path = "doc"
    <3>1. t.id \in Ids /\ t.content \in Value  BY <2>1, TxnKinds
    <3> QED  BY <1>1, <2>1, <3>1 DEF DocsAfter
  <2>2. CASE t.path # "doc"  BY <1>1, <2>2 DEF DocsAfter
  <2> QED  BY <2>1, <2>2
<1> QED  BY <1>2, <1>3 DEF After, Memory

\* What a transaction does to the memory of a model.
LEMMA MemIs ==
  ASSUME NEW m, ModelOK(m), NEW t \in Txns
  PROVE  Mem(m) \in Memory /\ Mem(Exec(m, t)) = After(Mem(m), t)
<1>1. m.docs \in [Ids -> Value] /\ m.keys \in [Keys -> Seq(Pointer)]  BY ModelParts
<1>2. Exec(m, t).docs = DocsAfter(m.docs, t) /\ Exec(m, t).keys = KeysAfter(m.keys, t)
  BY ExecIs
<1> QED  BY <1>1, <1>2 DEF Mem, After, Memory

\* A list may lack more documents if more are loose.
LEMMA KeptGrows ==
  ASSUME NEW mem, NEW lo, NEW more, lo \subseteq more, Kept(mem, lo)
  PROVE  Kept(mem, more)
BY DEF Kept, KeptList, Backed

\* The lists stay as they should be: by a document that is set, or removed as loose,
LEMMA KeptDoc ==
  ASSUME NEW mem \in Memory, NEW lo, NEW t \in Txns, t.path = "doc", Kept(mem, lo),
         t.content = Nothing => t.id \in lo
  PROVE  Kept(After(mem, t), lo)
<1>1. mem.docs \in [Ids -> Value] /\ mem.keys \in [Keys -> Seq(Pointer)]  BY DEF Memory
<1>2. t.id \in Ids  BY TxnKinds
<1> DEFINE docs == [mem.docs EXCEPT ![t.id] = t.content]
<1>3. After(mem, t).docs = docs /\ After(mem, t).keys = mem.keys
  BY DEF After, DocsAfter, KeysAfter
<1>4. \A id \in Ids : docs[id] = IF id = t.id THEN t.content ELSE mem.docs[id]  BY <1>1, <1>2
<1> HIDE DEF docs
<1>5. ASSUME NEW key \in Keys PROVE KeptList(docs, mem.keys[key], lo)
  <2>1. KeptList(mem.docs, mem.keys[key], lo)  BY DEF Kept
  <2> QED  BY <1>4, <2>1 DEF KeptList, Backed
<1> QED  BY <1>3, <1>5 DEF Kept

\* by a key that is set,
LEMMA KeptKey ==
  ASSUME NEW mem \in Memory, NEW lo, NEW t \in Txns, t.path = "key", Kept(mem, lo)
  PROVE  Kept(After(mem, t), lo)
<1>1. After(mem, t).docs = mem.docs /\ After(mem, t).keys = mem.keys
  BY DEF After, DocsAfter, KeysAfter
<1> QED  BY <1>1 DEF Kept

\* by a list that is put in the place of another,
LEMMA KeptChange ==
  ASSUME NEW mem \in Memory, NEW lo, NEW t \in Txns, t.path \in {"list", "member"}, Kept(mem, lo),
         NEW s, KeysAfter(mem.keys, t) = [mem.keys EXCEPT ![t.key] = s],
         KeptList(mem.docs, s, lo)
  PROVE  Kept(After(mem, t), lo)
<1>1. mem.keys \in [Keys -> Seq(Pointer)]  BY DEF Memory
<1>2. After(mem, t).docs = mem.docs /\ After(mem, t).keys = [mem.keys EXCEPT ![t.key] = s]
  BY DEF After, DocsAfter
<1>3. ASSUME NEW key \in Keys PROVE KeptList(mem.docs, After(mem, t).keys[key], lo)
  <2>1. KeptList(mem.docs, mem.keys[key], lo)  BY DEF Kept
  <2>2. After(mem, t).keys[key] \in {s, mem.keys[key]}  BY <1>1, <1>2
  <2> QED  BY <2>1, <2>2
<1> QED  BY <1>2, <1>3 DEF Kept

\* by members that are removed or moved,
LEMMA KeptTake ==
  ASSUME NEW mem \in Memory, NEW lo, NEW t \in Txns, t.path = "list", t.op \in Takes,
         t.ids = << >>, Kept(mem, lo)
  PROVE  Kept(After(mem, t), lo)
<1>1. t.key \in Keys  BY TxnKinds
<1>2. PICK s \in Seq(Pointer) : s = mem.keys[t.key]  BY <1>1 DEF Memory
<1>3. PICK n \in Nat : n = Len(s)  BY <1>2
<1>4. KeptList(mem.docs, s, lo)  BY <1>1, <1>2 DEF Kept
<1> DEFINE r == OnList(s, t.op, << >>)  from(i) == TakeFrom(t.op, n, i)
<1>5. /\ r \in Seq(Pointer) /\ Len(r) = TakeLen(t.op, n)
      /\ \A i \in 1 .. TakeLen(t.op, n) : r[i] = s[from(i)]
  BY <1>2, <1>3, TakeIs
<1>6. PICK k \in 0 .. n : k = TakeLen(t.op, n)  BY <1>3, TakeFromIs
<1>7. /\ \A i \in 1 .. k : from(i) \in 1 .. n
      /\ \A i, j \in 1 .. k : from(i) = from(j) => i = j
  <2>1. PICK op \in Takes : op = t.op  OBVIOUS
  <2>2. n \in Nat  BY <1>3
  <2>3. Distinct(op, n)  BY <2>1, <2>2, TakeFromIs
  <2> QED  BY <1>6, <2>1, <2>3 DEF Distinct
<1> HIDE DEF r, from
<1>8. Len(r) = k /\ \A i \in 1 .. k : r[i] = s[from(i)]  BY <1>5, <1>6
<1>9. KeptList(mem.docs, r, lo)
  <2>1. Len(r) <= MaxLen  BY <1>3, <1>4, <1>6, <1>8, RefsAssumption DEF KeptList
  <2>2. ASSUME NEW i \in 1 .. k, NEW j \in 1 .. k, r[i] = r[j], r[i] # Nothing PROVE i = j
    <3>1. s[from(i)] = s[from(j)] /\ s[from(i)] # Nothing  BY <1>8, <2>2
    <3>2. from(i) = from(j)  BY <1>3, <1>4, <1>7, <3>1 DEF KeptList, Once
    <3> QED  BY <1>7, <3>2
  <2>3. ASSUME NEW i \in 1 .. k, r[i] \in Ids, mem.docs[r[i]] = Nothing PROVE r[i] \in lo
    BY <1>3, <1>4, <1>7, <1>8, <2>3 DEF KeptList, Backed
  <2> QED  BY <1>8, <2>1, <2>2, <2>3 DEF KeptList, Once, Backed
<1>10. KeysAfter(mem.keys, t) = [mem.keys EXCEPT ![t.key] = r]  BY <1>2 DEF KeysAfter, r
<1> QED  BY <1>9, <1>10, KeptChange

\* by a pointer inserted that is not in the list,
LEMMA KeptInsert ==
  ASSUME NEW mem \in Memory, NEW lo, NEW t \in Txns, t.path = "list", t.op \in Inserts,
         NEW id \in Ids, t.ids = <<id>>, Kept(mem, lo), Len(mem.keys[t.key]) < MaxLen,
         \A i \in 1 .. Len(mem.keys[t.key]) : mem.keys[t.key][i] # id,
         mem.docs[id] = Nothing => id \in lo
  PROVE  Kept(After(mem, t), lo)
<1>1. t.key \in Keys  BY TxnKinds
<1>2. PICK s \in Seq(Pointer) : s = mem.keys[t.key]  BY <1>1 DEF Memory
<1>3. PICK n \in Nat : n = Len(s)  BY <1>2
<1>4. KeptList(mem.docs, s, lo)  BY <1>1, <1>2 DEF Kept
<1> DEFINE r == OnList(s, t.op, <<id>>)
<1>5. PICK op \in Inserts : op = t.op  OBVIOUS
<1>6. PICK a \in 0 .. n : /\ Len(r) = n + 1
                          /\ \A i \in 1 .. a : r[i] = s[i]
                          /\ r[a + 1] = id
                          /\ \A i \in a + 2 .. n + 1 : r[i] = s[i - 1]
  <2>1. id \in Pointer /\ s \in Seq(Pointer)  BY <1>2 DEF Pointer
  <2>2. IsInsert(OnList(s, op, <<id>>), s, op.at, id)  BY <1>5, <2>1, InsertIs
  <2>3. IsInsert(r, s, op.at, id)  BY <1>5, <2>2
  <2> HIDE DEF r
  <2> QED  BY <1>3, <2>3 DEF IsInsert
<1> HIDE DEF r
<1> DEFINE from(i) == IF i <= a THEN i ELSE i - 1
<1>7. \A i \in 1 .. n + 1 : i # a + 1 => from(i) \in 1 .. n /\ r[i] = s[from(i)]
  <2>1. \A i \in 1 .. n + 1 : i # a + 1 => i \in 1 .. a \/ i \in a + 2 .. n + 1
    BY <1>3, <1>6
  <2> QED  BY <1>3, <1>6, <2>1
<1>8. \A i, j \in 1 .. n + 1 : i # a + 1 /\ j # a + 1 /\ from(i) = from(j) => i = j
  BY <1>3, <1>6
<1> HIDE DEF from
<1>9. \A i \in 1 .. n + 1 : i # a + 1 => r[i] # id
  BY <1>2, <1>3, <1>7
<1>10. KeptList(mem.docs, r, lo)
  <2>1. Len(r) <= MaxLen  BY <1>2, <1>3, <1>6, RefsAssumption
  <2>2. ASSUME NEW i \in 1 .. n + 1, NEW j \in 1 .. n + 1, r[i] = r[j], r[i] # Nothing
        PROVE  i = j
    <3>1. CASE i = a + 1 \/ j = a + 1  BY <1>6, <1>9, <2>2, <3>1
    <3>2. CASE i # a + 1 /\ j # a + 1
      <4>1. s[from(i)] = s[from(j)] /\ s[from(i)] # Nothing  BY <1>7, <2>2, <3>2
      <4>2. from(i) = from(j)  BY <1>3, <1>4, <1>7, <3>2, <4>1 DEF KeptList, Once
      <4> QED  BY <1>8, <3>2, <4>2
    <3> QED  BY <3>1, <3>2
  <2>3. ASSUME NEW i \in 1 .. n + 1, r[i] \in Ids, mem.docs[r[i]] = Nothing PROVE r[i] \in lo
    <3>1. CASE i = a + 1  BY <1>6, <2>3, <3>1
    <3>2. CASE i # a + 1
      BY <1>3, <1>4, <1>7, <2>3, <3>2 DEF KeptList, Backed
    <3> QED  BY <3>1, <3>2
  <2> QED  BY <1>6, <2>1, <2>2, <2>3 DEF KeptList, Once, Backed
<1>11. KeysAfter(mem.keys, t) = [mem.keys EXCEPT ![t.key] = r]  BY <1>2 DEF KeysAfter, r
<1> QED  BY <1>10, <1>11, KeptChange

\* by a member that is set to a pointer not yet in the list.
LEMMA KeptMember ==
  ASSUME NEW mem \in Memory, NEW lo, NEW t \in Txns, t.path = "member", Kept(mem, lo),
         t.at <= Len(mem.keys[t.key]), t.at < MaxLen,
         t.id # Nothing =>
           /\ t.id \in lo
           /\ \A i \in 1 .. Len(mem.keys[t.key]) : mem.keys[t.key][i] = t.id => i = t.at + 1
  PROVE  Kept(After(mem, t), lo)
<1>1. t.key \in Keys /\ t.at \in Nat /\ t.id \in Pointer  BY TxnKinds
<1>2. PICK s \in Seq(Pointer) : s = mem.keys[t.key]  BY <1>1 DEF Memory
<1>3. PICK n \in Nat : n = Len(s)  BY <1>2
<1>4. PICK at \in Nat : at = t.at  BY <1>1
<1>5. KeptList(mem.docs, s, lo)  BY <1>1, <1>2 DEF Kept
<1> DEFINE r == Put(s, t.at, t.id)
<1>6. PICK k \in Nat : /\ k = Len(r) /\ k <= MaxLen /\ at + 1 <= k
                       /\ \A i \in 1 .. k : r[i] = IF i = at + 1 THEN t.id ELSE s[i]
                       /\ \A i \in 1 .. k : i # at + 1 => i \in 1 .. n
  <2>1. /\ r \in Seq(Pointer)
        /\ t.at = Len(s) =>
             /\ Len(r) = Len(s) + 1 /\ r[t.at + 1] = t.id
             /\ \A i \in 1 .. Len(s) : r[i] = s[i]
        /\ t.at # Len(s) =>
             /\ Len(r) = Len(s)
             /\ t.at < Len(s) => r[t.at + 1] = t.id
             /\ \A i \in 1 .. Len(s) : i # t.at + 1 => r[i] = s[i]
    BY <1>1, <1>2, PutIs
  <2> HIDE DEF r
  <2>2. n <= MaxLen /\ MaxLen \in Nat /\ at <= n /\ at < MaxLen
    BY <1>2, <1>3, <1>4, <1>5, RefsAssumption DEF KeptList
  <2>3. CASE at = n
    <3>1. /\ Len(r) = n + 1 /\ r[at + 1] = t.id
          /\ \A i \in 1 .. n : r[i] = s[i]
      BY <1>3, <1>4, <2>1, <2>3
    <3>2. \A i \in 1 .. n + 1 : i # at + 1 => i \in 1 .. n  BY <1>3, <2>3
    <3> QED  BY <1>3, <2>2, <2>3, <3>1, <3>2
  <2>4. CASE at # n
    <3>1. /\ Len(r) = n /\ r[at + 1] = t.id
          /\ \A i \in 1 .. n : i # at + 1 => r[i] = s[i]
      BY <1>3, <1>4, <2>1, <2>2, <2>4
    <3> QED  BY <1>3, <1>4, <2>2, <2>4, <3>1
  <2> QED  BY <2>3, <2>4
<1> HIDE DEF r
<1>7. t.id # Nothing => t.id \in lo /\ \A i \in 1 .. n : s[i] = t.id => i = at + 1
  BY <1>2, <1>3, <1>4
<1>8. KeptList(mem.docs, r, lo)
  <2>1. ASSUME NEW i \in 1 .. k, NEW j \in 1 .. k, r[i] = r[j], r[i] # Nothing
        PROVE  i = j
    BY <1>3, <1>5, <1>6, <1>7, <2>1 DEF KeptList, Once
  <2>2. ASSUME NEW i \in 1 .. k, r[i] \in Ids, mem.docs[r[i]] = Nothing PROVE r[i] \in lo
    BY <1>3, <1>5, <1>6, <1>7, <2>2, RefsAssumption DEF KeptList, Backed
  <2> QED  BY <1>6, <2>1, <2>2 DEF KeptList, Once, Backed
<1>9. KeysAfter(mem.keys, t) = [mem.keys EXCEPT ![t.key] = r]  BY <1>2 DEF KeysAfter, r
<1> QED  BY <1>8, <1>9, KeptChange

-----------------------------------------------------------------------------
(* What a view has *)

\* Follows, of one model.
ShowsList(docs, ks, list) ==
  /\ Len(list) = Len(ks)
  /\ \A k \in 1 .. Len(ks) : ks[k] # Nothing => list[k] = docs[ks[k]]
Shows(m) == ShowsList(m.docs, m.keys[m.ref.key], m.list)

\* The same but for one document, which may have been given to the list as its last.
ShowsBut(id, docs, ks, list) ==
  /\ Len(list) = Len(ks) \/ (Len(list) + 1 = Len(ks) /\ ks[Len(ks)] = id)
  /\ \A k \in 1 .. Len(ks) : ks[k] # Nothing /\ ks[k] # id => list[k] = docs[ks[k]]

\* What a view makes of a document.
HeardDoc(ks, id, content, list) ==
  LET at == {k \in DOMAIN ks : ks[k] = id}
  IN IF at = {} THEN list
     ELSE IF Min(at) = Len(list) + 1 THEN Append(list, content)
     ELSE [list EXCEPT ![Min(at)] = content]

\* A view that shows all but one document shows it too, once it has heard of it.
LEMMA HeardDocIs ==
  ASSUME NEW docs \in [Ids -> Value], NEW ks \in Seq(Pointer), NEW list \in Seq(Value),
         NEW id \in Ids, NEW c \in Value, Once(ks), ShowsBut(id, docs, ks, list)
  PROVE  ShowsList([docs EXCEPT ![id] = c], ks, HeardDoc(ks, id, c, list))
<1>1. PICK n \in Nat : n = Len(ks) /\ DOMAIN ks = 1 .. n  OBVIOUS
<1>2. PICK l \in Nat : l = Len(list) /\ DOMAIN list = 1 .. l  OBVIOUS
<1>3. /\ l = n \/ (l + 1 = n /\ ks[n] = id)
      /\ \A k \in 1 .. n : ks[k] # Nothing /\ ks[k] # id => list[k] = docs[ks[k]]
  BY <1>1, <1>2 DEF ShowsBut
<1>4. \A k \in 1 .. n : ks[k] \in Pointer  BY <1>1
<1> DEFINE new == [docs EXCEPT ![id] = c]
           at == {k \in 1 .. n : ks[k] = id}
           r == HeardDoc(ks, id, c, list)
<1>5. \A x \in Ids : new[x] = IF x = id THEN c ELSE docs[x]  OBVIOUS
<1>6. r = IF at = {} THEN list
          ELSE IF Min(at) = l + 1 THEN Append(list, c) ELSE [list EXCEPT ![Min(at)] = c]
  BY <1>1, <1>2 DEF HeardDoc
<1>7. \A j \in at : at = {j} /\ Min(at) = j
  <2> SUFFICES ASSUME NEW j \in at PROVE at = {j} /\ Min(at) = j  OBVIOUS
  <2>1. id # Nothing  BY RefsAssumption
  <2>2. at = {j}  BY <1>1, <2>1 DEF Once
  <2>3. PICK i \in Nat : i = j  OBVIOUS
  <2>4. Min({i, i}) = i  BY MinOfTwo
  <2>5. {i, i} = {j}  BY <2>3
  <2> QED  BY <2>2, <2>3, <2>4, <2>5
<1>8. Len(r) = n /\ \A k \in 1 .. n : r[k] = IF k \in at THEN c ELSE list[k]
  <2>1. CASE at = {}
    <3>1. r = list /\ l = n  BY <1>1, <1>3, <1>6, <2>1
    <3> QED  BY <1>2, <2>1, <3>1
  <2>2. CASE at # {}
    <3>1. PICK j \in 1 .. n : ks[j] = id /\ at = {j} /\ Min(at) = j  BY <1>7, <2>2
    <3>2. CASE j = l + 1
      <4>1. n = l + 1  BY <1>1, <1>2, <1>3, <3>1, <3>2
      <4>2. r = Append(list, c)  BY <1>6, <2>2, <3>1, <3>2
      <4> HIDE DEF r, at
      <4>3. Len(r) = l + 1 /\ r[l + 1] = c /\ \A k \in 1 .. l : r[k] = list[k]
        BY <1>2, <4>2
      <4> QED  BY <1>2, <3>1, <3>2, <4>1, <4>3
    <3>3. CASE j # l + 1
      <4>1. l = n
        <5>1. l + 1 = n /\ ks[n] = id => n \in at  BY <1>1
        <5> QED  BY <1>1, <1>3, <3>1, <3>3, <5>1
      <4>2. r = [list EXCEPT ![j] = c]  BY <1>6, <2>2, <3>1, <3>3
      <4> HIDE DEF r, at
      <4>3. DOMAIN r = 1 .. n /\ \A k \in 1 .. n : r[k] = IF k = j THEN c ELSE list[k]
        BY <1>2, <3>1, <4>1, <4>2
      <4>4. r \in Seq(Value)
        <5>1. list \in [1 .. n -> Value]  BY <1>2, <4>1
        <5>2. r \in [1 .. n -> Value]  BY <4>2, <5>1
        <5> QED  BY <1>1, <5>2
      <4>5. Len(r) = n  BY <1>1, <4>3, <4>4
      <4> QED  BY <3>1, <4>3, <4>5
    <3> QED  BY <3>2, <3>3
  <2> QED  BY <2>1, <2>2
<1> HIDE DEF r, new
<1>9. ASSUME NEW k \in 1 .. n, ks[k] # Nothing PROVE r[k] = new[ks[k]]
  <2>1. ks[k] \in Ids  BY <1>4, <1>9 DEF Pointer
  <2> QED  BY <1>3, <1>5, <1>8, <1>9, <2>1
<1> QED  BY <1>1, <1>8, <1>9 DEF ShowsList, r, new

\* A view that hears of an insert shows the list with it.
LEMMA ShowsInsert ==
  ASSUME NEW docs \in [Ids -> Value], NEW ks \in Seq(Pointer), NEW list \in Seq(Value),
         NEW id \in Ids, NEW op \in Inserts, ShowsList(docs, ks, list)
  PROVE  ShowsList(docs, OnList(ks, op, <<id>>), OnList(list, op, <<docs[id]>>))
<1>1. PICK n \in Nat : n = Len(ks)  OBVIOUS
<1>2. Len(list) = n /\ \A k \in 1 .. n : ks[k] # Nothing => list[k] = docs[ks[k]]
  BY <1>1 DEF ShowsList
<1>3. PICK at \in Nat : at = op.at  BY DEF Inserts
<1>4. PICK a \in 0 .. n : a = Ahead(ks, at) /\ a = Ahead(list, at)
  BY <1>1, <1>2, <1>3 DEF Ahead
<1> DEFINE rk == OnList(ks, op, <<id>>)  rl == OnList(list, op, <<docs[id]>>)
<1>5. IsInsert(rk, ks, at, id)
  <2>1. id \in Pointer  BY DEF Pointer
  <2> QED  BY <1>3, <2>1, InsertIs
<1>6. IsInsert(rl, list, at, docs[id])
  <2>1. docs[id] \in Value  OBVIOUS
  <2> QED  BY <1>3, <2>1, InsertIs
<1> HIDE DEF rk, rl
<1>7. /\ Len(rk) = n + 1 /\ rk[a + 1] = id
      /\ \A i \in 1 .. a : rk[i] = ks[i]
      /\ \A i \in a + 2 .. n + 1 : rk[i] = ks[i - 1]
  BY <1>1, <1>4, <1>5 DEF IsInsert
<1>8. /\ Len(rl) = n + 1 /\ rl[a + 1] = docs[id]
      /\ \A i \in 1 .. a : rl[i] = list[i]
      /\ \A i \in a + 2 .. n + 1 : rl[i] = list[i - 1]
  BY <1>2, <1>4, <1>6 DEF IsInsert
<1>9. ASSUME NEW i \in 1 .. n + 1, rk[i] # Nothing PROVE rl[i] = docs[rk[i]]
  <2>1. CASE i = a + 1  BY <1>7, <1>8, <2>1
  <2>2. CASE i <= a
    <3>1. i \in 1 .. a /\ i \in 1 .. n  BY <1>1, <1>4, <2>2
    <3> QED  BY <1>2, <1>7, <1>8, <1>9, <3>1
  <2>3. CASE i > a + 1
    <3>1. i \in a + 2 .. n + 1 /\ i - 1 \in 1 .. n  BY <1>1, <1>4, <2>3
    <3> QED  BY <1>2, <1>7, <1>8, <1>9, <3>1
  <2> QED  BY <1>4, <2>1, <2>2, <2>3
<1>10. ShowsList(docs, rk, rl)  BY <1>7, <1>8, <1>9 DEF ShowsList
<1> QED  BY <1>10 DEF rk, rl

\* A view that hears of a remove or move shows the list after it.
LEMMA ShowsTake ==
  ASSUME NEW docs \in [Ids -> Value], NEW ks \in Seq(Pointer), NEW list \in Seq(Value),
         NEW op \in Takes, ShowsList(docs, ks, list)
  PROVE  ShowsList(docs, OnList(ks, op, << >>), OnList(list, op, << >>))
<1>1. PICK n \in Nat : n = Len(ks)  OBVIOUS
<1>2. Len(list) = n /\ \A k \in 1 .. n : ks[k] # Nothing => list[k] = docs[ks[k]]
  BY <1>1 DEF ShowsList
<1> DEFINE rk == OnList(ks, op, << >>)  rl == OnList(list, op, << >>)
<1>3. PICK k \in 0 .. n : k = TakeLen(op, n)  BY <1>1, TakeFromIs
<1>4. \A i \in 1 .. k : TakeFrom(op, n, i) \in 1 .. n
  <2>1. Distinct(op, n)  BY <1>1, TakeFromIs
  <2> QED  BY <1>3, <2>1 DEF Distinct
<1>5. /\ Len(rk) = TakeLen(op, n)
      /\ \A i \in 1 .. TakeLen(op, n) : rk[i] = ks[TakeFrom(op, n, i)]
  BY <1>1, TakeIs
<1>6. /\ Len(rl) = TakeLen(op, n)
      /\ \A i \in 1 .. TakeLen(op, n) : rl[i] = list[TakeFrom(op, n, i)]
  BY <1>2, TakeIs
<1> HIDE DEF rk, rl
<1>7. ShowsList(docs, rk, rl)  BY <1>2, <1>3, <1>4, <1>5, <1>6 DEF ShowsList
<1> QED  BY <1>7 DEF rk, rl

\* A document that changes.
LEMMA ShowsDoc ==
  ASSUME NEW m, ModelOK(m), NEW t \in Txns, t.path = "doc", Once(m.keys[m.ref.key]),
         ShowsBut(t.id, m.docs, m.keys[m.ref.key], m.list)
  PROVE  Shows(Exec(m, t))
<1>1. /\ m.docs \in [Ids -> Value] /\ m.keys \in [Keys -> Seq(Pointer)]
      /\ m.ref \in GetterSet /\ m.list \in Seq(Value)
  BY ModelParts
<1>2. t.id \in Ids /\ t.content \in Value  BY TxnKinds
<1>3. PICK ks \in Seq(Pointer) : ks = m.keys[m.ref.key]  BY <1>1 DEF GetterSet
<1> DEFINE n == Stored(m, t)  e == Exec(m, t)
<1>4. n.keys = m.keys  BY StoredIs DEF KeysAfter
<1>5. /\ e.docs = DocsAfter(m.docs, t) /\ e.keys = KeysAfter(m.keys, t) /\ e.ref = m.ref
      /\ e.list = IF Matches(m.ref, t) THEN Heard(n, t, m.ref, m.list) ELSE m.list
  BY ExecIs
<1> HIDE DEF n, e
<1>6. e.docs = [m.docs EXCEPT ![t.id] = t.content] /\ e.keys = m.keys
  BY <1>5 DEF DocsAfter, KeysAfter
<1>7. e.list = HeardDoc(ks, t.id, t.content, m.list)
  <2>1. e.list = Heard(n, t, m.ref, m.list)  BY <1>5 DEF Matches
  <2> QED  BY <1>3, <1>4, <2>1 DEF Heard, HeardDoc
<1>8. ShowsList([m.docs EXCEPT ![t.id] = t.content], ks, HeardDoc(ks, t.id, t.content, m.list))
  BY <1>1, <1>2, <1>3, HeardDocIs
<1>9. Shows(e)  BY <1>3, <1>5, <1>6, <1>7, <1>8 DEF Shows
<1> QED  BY <1>9 DEF e

\* The view follows any transaction but that on a member of the list.
LEMMA ShowsExec ==
  ASSUME NEW m, ModelOK(m), NEW t \in Txns, t.path # "member", Once(m.keys[m.ref.key]), Shows(m)
  PROVE  Shows(Exec(m, t))
<1>1. /\ m.docs \in [Ids -> Value] /\ m.keys \in [Keys -> Seq(Pointer)]
      /\ m.ref \in GetterSet /\ m.list \in Seq(Value)
  BY ModelParts
<1>2. PICK ks \in Seq(Pointer) : ks = m.keys[m.ref.key]  BY <1>1 DEF GetterSet
<1>3. ShowsList(m.docs, ks, m.list)  BY <1>2 DEF Shows
<1>4. CASE t.path = "doc"
  <2>1. ShowsBut(t.id, m.docs, ks, m.list)  BY <1>3 DEF ShowsList, ShowsBut
  <2> QED  BY <1>2, <1>4, <2>1, ShowsDoc
<1> DEFINE n == Stored(m, t)  e == Exec(m, t)
<1>5. n.docs = DocsAfter(m.docs, t)  BY StoredIs
<1>6. /\ e.docs = DocsAfter(m.docs, t) /\ e.keys = KeysAfter(m.keys, t) /\ e.ref = m.ref
      /\ e.list = IF Matches(m.ref, t) THEN Heard(n, t, m.ref, m.list) ELSE m.list
  BY ExecIs
<1> HIDE DEF n, e
<1>7. CASE t.path = "key" \/ (t.path = "list" /\ t.key # m.ref.key)
  <2>1. e.list = m.list /\ e.docs = m.docs  BY <1>6, <1>7 DEF Matches, DocsAfter
  <2>2. e.keys[m.ref.key] = ks  BY <1>1, <1>2, <1>6, <1>7 DEF KeysAfter
  <2>3. Shows(e)  BY <1>3, <1>6, <2>1, <2>2 DEF Shows
  <2> QED  BY <2>3 DEF e
<1>8. CASE t.path = "list" /\ t.key = m.ref.key
  <2>1. m.ref.key \in Keys  BY <1>1 DEF GetterSet
  <2>2. e.docs = m.docs /\ n.docs = m.docs  BY <1>5, <1>6, <1>8 DEF DocsAfter
  <2>3. e.keys[m.ref.key] = OnList(ks, t.op, t.ids)
    BY <1>1, <1>2, <1>6, <1>8, <2>1 DEF KeysAfter
  <2>4. e.list = Heard(n, t, m.ref, m.list)  BY <1>6, <1>8 DEF Matches
  <2>5. CASE t.op \in Inserts /\ \E id \in Ids : t.ids = <<id>>
    <3>1. PICK id \in Ids : t.ids = <<id>>  BY <2>5
    <3>2. PICK op \in Inserts : op = t.op  BY <2>5
    <3>3. e.list = OnList(m.list, op, <<m.docs[id]>>)
      <4>1. Heard(n, t, m.ref, m.list) = OnList(m.list, t.op, <<n.docs[id]>>)
        BY <1>8, <3>1, HeardInsert
      <4> QED  BY <2>2, <2>4, <3>2, <4>1
    <3>4. ShowsList(m.docs, OnList(ks, op, <<id>>), OnList(m.list, op, <<m.docs[id]>>))
      BY <1>1, <1>3, ShowsInsert
    <3>5. Shows(e)  BY <1>6, <2>2, <2>3, <3>1, <3>2, <3>3, <3>4 DEF Shows
    <3> QED  BY <3>5 DEF e
  <2>6. CASE t.op \in Takes /\ t.ids = << >>
    <3>1. PICK op \in Takes : op = t.op  BY <2>6
    <3>2. e.list = OnList(m.list, op, << >>)
      BY <1>8, <2>4, <2>6, <3>1, HeardTake
    <3>3. ShowsList(m.docs, OnList(ks, op, << >>), OnList(m.list, op, << >>))
      BY <1>1, <1>3, ShowsTake
    <3>4. Shows(e)  BY <1>6, <2>2, <2>3, <2>6, <3>1, <3>2, <3>3 DEF Shows
    <3> QED  BY <3>4 DEF e
  <2> QED  BY <1>8, <2>5, <2>6, TxnKinds
<1> QED  BY <1>4, <1>7, <1>8, TxnKinds

\* The two transactions of set and del of a member.
IsPair(keys, t, u) ==
  /\ t.path = "member" /\ u.path = "doc" /\ t.at <= Len(keys[t.key])
  /\ t.id \in {u.id, Nothing} /\ (t.at = Len(keys[t.key]) => t.id = u.id)

\* After the first of them the view lacks that document at most.
LEMMA ShowsPair ==
  ASSUME NEW m, ModelOK(m), NEW t \in Txns, NEW u \in Txns, IsPair(m.keys, t, u),
         Once(m.keys[m.ref.key]), Once(Exec(m, t).keys[m.ref.key]), Shows(m)
  PROVE  Shows(Exec(Exec(m, t), u))
<1>1. /\ m.docs \in [Ids -> Value] /\ m.keys \in [Keys -> Seq(Pointer)]
      /\ m.ref \in GetterSet /\ m.list \in Seq(Value)
  BY ModelParts
<1>2. t.path = "member" /\ u.path = "doc"  BY DEF IsPair
<1>3. t.key \in Keys /\ t.at \in Nat /\ t.id \in Pointer /\ u.id \in Ids  BY <1>2, TxnKinds
<1>4. PICK ks \in Seq(Pointer) : ks = m.keys[m.ref.key]  BY <1>1 DEF GetterSet
<1>5. ShowsList(m.docs, ks, m.list)  BY <1>4 DEF Shows
<1>6. PICK k \in Nat : k = Len(ks)  BY <1>4
<1>7. Len(m.list) = k /\ \A i \in 1 .. k : ks[i] # Nothing => m.list[i] = m.docs[ks[i]]
  BY <1>5, <1>6 DEF ShowsList
<1> DEFINE n == Stored(m, t)  e == Exec(m, t)
<1>8. /\ e.docs = DocsAfter(m.docs, t) /\ e.keys = KeysAfter(m.keys, t) /\ e.ref = m.ref
      /\ e.list = IF Matches(m.ref, t) THEN Heard(n, t, m.ref, m.list) ELSE m.list
  BY ExecIs
<1>9. ModelOK(e)  BY ExecType
<1> HIDE DEF n, e
<1>10. /\ e.docs = m.docs /\ e.list = m.list
       /\ e.keys = [m.keys EXCEPT ![t.key] = Put(m.keys[t.key], t.at, t.id)]
  BY <1>2, <1>8 DEF DocsAfter, KeysAfter, Matches
<1>11. ShowsBut(u.id, m.docs, e.keys[m.ref.key], m.list)
  <2>1. CASE t.key # m.ref.key
    <3>1. e.keys[m.ref.key] = ks  BY <1>1, <1>4, <1>10, <2>1
    <3> QED  BY <1>6, <1>7, <3>1 DEF ShowsBut
  <2>2. CASE t.key = m.ref.key
    <3>1. PICK at \in Nat : at = t.at  BY <1>3
    <3>2. PICK p \in Seq(Pointer) : p = Put(ks, at, t.id)  BY <1>3, <1>4, <3>1, PutIs
    <3>3. e.keys[m.ref.key] = p  BY <1>1, <1>3, <1>4, <1>10, <2>2, <3>1, <3>2
    <3>4. /\ at = k =>
               /\ Len(p) = k + 1 /\ p[at + 1] = t.id
               /\ \A i \in 1 .. k : p[i] = ks[i]
          /\ at # k =>
               /\ Len(p) = k
               /\ at < k => p[at + 1] = t.id
               /\ \A i \in 1 .. k : i # at + 1 => p[i] = ks[i]
      <4>1. /\ Put(ks, at, t.id) \in Seq(Pointer)
            /\ at = Len(ks) =>
                 /\ Len(Put(ks, at, t.id)) = Len(ks) + 1 /\ Put(ks, at, t.id)[at + 1] = t.id
                 /\ \A i \in 1 .. Len(ks) : Put(ks, at, t.id)[i] = ks[i]
            /\ at # Len(ks) =>
                 /\ Len(Put(ks, at, t.id)) = Len(ks)
                 /\ at < Len(ks) => Put(ks, at, t.id)[at + 1] = t.id
                 /\ \A i \in 1 .. Len(ks) : i # at + 1 => Put(ks, at, t.id)[i] = ks[i]
        BY <1>3, PutIs
      <4> QED  BY <1>6, <3>2, <4>1
    <3>5. /\ at <= k /\ t.id \in {u.id, Nothing}
          /\ at = k => t.id = u.id
      BY <1>4, <1>6, <2>2, <3>1 DEF IsPair
    <3>6. CASE at = k
      <4>1. \A i \in 1 .. k + 1 : i = k + 1 \/ i \in 1 .. k  BY <1>6
      <4>2. \A i \in 1 .. k + 1 : p[i] # Nothing /\ p[i] # u.id => m.list[i] = m.docs[p[i]]
        BY <1>7, <3>4, <3>5, <3>6, <4>1
      <4>3. Len(p) = k + 1 /\ p[k + 1] = u.id  BY <3>4, <3>5, <3>6
      <4> QED  BY <1>7, <3>3, <4>2, <4>3 DEF ShowsBut
    <3>7. CASE at # k
      <4>1. at < k  BY <1>6, <3>1, <3>5, <3>7
      <4>2. Len(p) = k /\ p[at + 1] = t.id /\ \A i \in 1 .. k : i # at + 1 => p[i] = ks[i]
        BY <3>4, <3>7, <4>1
      <4>3. \A i \in 1 .. k : p[i] # Nothing /\ p[i] # u.id => m.list[i] = m.docs[p[i]]
        BY <1>7, <3>5, <4>2
      <4> QED  BY <1>7, <3>3, <4>2, <4>3 DEF ShowsBut
    <3> QED  BY <3>6, <3>7
  <2> QED  BY <2>1, <2>2
<1>12. Shows(Exec(e, u))
  <2>1. Once(e.keys[e.ref.key])  BY <1>8 DEF e
  <2>2. ShowsBut(u.id, e.docs, e.keys[e.ref.key], e.list)  BY <1>8, <1>10, <1>11
  <2> QED  BY <1>2, <1>9, <2>1, <2>2, ShowsDoc
<1> QED  BY <1>12 DEF e

-----------------------------------------------------------------------------
(* The memories that the reader will go through *)

Messages == [txn : Txns, first : BOOLEAN]
Message(t, first) == [txn |-> t, first |-> first]

\* From that of the reader to that of the author, one transaction of the wire at a time.
Linked(h, r, w, a) ==
  /\ h \in Seq(Memory) /\ Len(h) = Len(w) + 1 /\ h[1] = r /\ h[Len(w) + 1] = a
  /\ \A k \in 1 .. Len(w) : h[k + 1] = After(h[k], w[k].txn)

\* A member is set or deleted with the first transaction of two.
Paired(h, w) ==
  /\ \A k \in 1 .. Len(w) : w[k].first \/ w[k].txn.path \in {"doc", "list"}
  /\ \A k \in 1 .. Len(w) : w[k].txn.path = "member" =>
       k < Len(w) /\ ~ w[k + 1].first /\ IsPair(h[k].keys, w[k].txn, w[k + 1].txn)

AllKept(h, lo) == \A k \in 1 .. Len(h) : Kept(h[k], lo)

\* A transaction sent adds one memory that the reader will have.
LEMMA LinkedMore ==
  ASSUME NEW h, NEW r, NEW w \in Seq(Messages), NEW a \in Memory, Linked(h, r, w, a),
         NEW x \in Messages
  PROVE  Linked(Append(h, After(a, x.txn)), r, Append(w, x), After(a, x.txn))
<1>1. PICK n \in Nat : n = Len(w)  OBVIOUS
<1>2. /\ h \in Seq(Memory) /\ Len(h) = n + 1 /\ h[1] = r /\ h[n + 1] = a
      /\ \A k \in 1 .. n : h[k + 1] = After(h[k], w[k].txn)
  BY <1>1 DEF Linked
<1>3. PICK z \in Memory : z = After(a, x.txn)
  <2>1. x.txn \in Txns  BY DEF Messages
  <2> QED  BY <2>1, AfterType
<1> DEFINE g == Append(h, z)  v == Append(w, x)
<1>4. g \in Seq(Memory) /\ Len(g) = n + 2 /\ g[n + 2] = z /\ \A k \in 1 .. n + 1 : g[k] = h[k]
  BY <1>1, <1>2
<1>5. v \in Seq(Messages) /\ Len(v) = n + 1 /\ v[n + 1] = x /\ \A k \in 1 .. n : v[k] = w[k]
  BY <1>1
<1> HIDE DEF g, v
<1>6. ASSUME NEW k \in 1 .. n + 1 PROVE g[k + 1] = After(g[k], v[k].txn)
  <2>1. CASE k = n + 1
    <3>1. k + 1 = n + 2 /\ k \in 1 .. n + 1  BY <1>1, <2>1
    <3> QED  BY <1>2, <1>3, <1>4, <1>5, <2>1, <3>1
  <2>2. CASE k # n + 1
    <3>1. k \in 1 .. n /\ k + 1 \in 1 .. n + 1  BY <1>1, <2>2
    <3> QED  BY <1>2, <1>4, <1>5, <3>1
  <2> QED  BY <2>1, <2>2
<1>7. 1 \in 1 .. n + 1 /\ n + 1 + 1 = n + 2  BY <1>1
<1>8. Linked(g, r, v, z)  BY <1>2, <1>4, <1>5, <1>6, <1>7 DEF Linked
<1> QED  BY <1>3, <1>8 DEF g, v

\* The memories that the reader will have are as they should be, with one more.
LEMMA KeptMore ==
  ASSUME NEW h \in Seq(Memory), NEW lo, NEW more, AllKept(h, lo), lo \subseteq more,
         NEW z \in Memory, Kept(z, more)
  PROVE  AllKept(Append(h, z), more)
<1>1. PICK n \in Nat : n = Len(h)  OBVIOUS
<1> DEFINE g == Append(h, z)
<1>2. Len(g) = n + 1 /\ g[n + 1] = z /\ \A k \in 1 .. n : g[k] = h[k]  BY <1>1
<1> HIDE DEF g
<1>3. ASSUME NEW k \in 1 .. n + 1 PROVE Kept(g[k], more)
  <2>1. CASE k = n + 1  BY <1>2, <2>1
  <2>2. CASE k # n + 1
    <3>1. k \in 1 .. n  BY <1>1, <2>2
    <3>2. Kept(h[k], lo)  BY <1>1, <3>1 DEF AllKept
    <3> QED  BY <1>2, <3>1, <3>2, KeptGrows
  <2> QED  BY <2>1, <2>2
<1>4. AllKept(g, more)  BY <1>2, <1>3 DEF AllKept
<1> QED  BY <1>4 DEF g

\* A call of one transaction adds no pair,
LEMMA PairedMore ==
  ASSUME NEW h \in Seq(Memory), NEW w \in Seq(Messages), Len(h) = Len(w) + 1, Paired(h, w),
         NEW x \in Messages, x.txn.path # "member", x.first \/ x.txn.path \in {"doc", "list"},
         NEW z \in Memory
  PROVE  Paired(Append(h, z), Append(w, x))
<1>1. PICK n \in Nat : n = Len(w)  OBVIOUS
<1> DEFINE g == Append(h, z)  v == Append(w, x)
<1>2. \A k \in 1 .. n + 1 : g[k] = h[k]  BY <1>1
<1>3. v \in Seq(Messages) /\ Len(v) = n + 1 /\ v[n + 1] = x /\ \A k \in 1 .. n : v[k] = w[k]
  BY <1>1
<1> HIDE DEF g, v
<1>4. /\ \A k \in 1 .. n : w[k].first \/ w[k].txn.path \in {"doc", "list"}
      /\ \A k \in 1 .. n : w[k].txn.path = "member" =>
           k < n /\ ~ w[k + 1].first /\ IsPair(h[k].keys, w[k].txn, w[k + 1].txn)
  BY <1>1 DEF Paired
<1>5. \A k \in 1 .. n + 1 : k = n + 1 \/ k \in 1 .. n  BY <1>1
<1>6. \A k \in 1 .. n + 1 : v[k].first \/ v[k].txn.path \in {"doc", "list"}
  BY <1>3, <1>4, <1>5
<1>7. ASSUME NEW k \in 1 .. n + 1, v[k].txn.path = "member"
      PROVE  k < n + 1 /\ ~ v[k + 1].first /\ IsPair(g[k].keys, v[k].txn, v[k + 1].txn)
  <2>1. k \in 1 .. n  BY <1>3, <1>5, <1>7
  <2>2. w[k].txn.path = "member" /\ k < n  BY <1>3, <1>4, <1>7, <2>1
  <2>3. k + 1 \in 1 .. n /\ k \in 1 .. n + 1 /\ k < n + 1  BY <1>1, <2>1, <2>2
  <2> QED  BY <1>2, <1>3, <1>4, <2>1, <2>2, <2>3
<1>8. Paired(g, v)  BY <1>3, <1>6, <1>7 DEF Paired
<1> QED  BY <1>8 DEF g, v

\* one of two adds one.
LEMMA PairedTwo ==
  ASSUME NEW h \in Seq(Memory), NEW w \in Seq(Messages), Len(h) = Len(w) + 1, Paired(h, w),
         NEW x \in Messages, NEW y \in Messages, x.first, ~ y.first,
         IsPair(h[Len(h)].keys, x.txn, y.txn), NEW z \in Memory, NEW zz \in Memory
  PROVE  Paired(Append(Append(h, z), zz), Append(Append(w, x), y))
<1>1. PICK n \in Nat : n = Len(w)  OBVIOUS
<1> DEFINE g == Append(Append(h, z), zz)  v == Append(Append(w, x), y)
<1>2. \A k \in 1 .. n + 1 : g[k] = h[k]  BY <1>1
<1>3. /\ v \in Seq(Messages) /\ Len(v) = n + 2 /\ v[n + 1] = x /\ v[n + 2] = y
      /\ \A k \in 1 .. n : v[k] = w[k]
  BY <1>1
<1> HIDE DEF g, v
<1>4. /\ \A k \in 1 .. n : w[k].first \/ w[k].txn.path \in {"doc", "list"}
      /\ \A k \in 1 .. n : w[k].txn.path = "member" =>
           k < n /\ ~ w[k + 1].first /\ IsPair(h[k].keys, w[k].txn, w[k + 1].txn)
  BY <1>1 DEF Paired
<1>5. \A k \in 1 .. n + 2 : k = n + 2 \/ k = n + 1 \/ k \in 1 .. n  BY <1>1
<1>6. y.txn.path = "doc" /\ IsPair(h[n + 1].keys, x.txn, y.txn)  BY <1>1 DEF IsPair
<1>7. \A k \in 1 .. n + 2 : v[k].first \/ v[k].txn.path \in {"doc", "list"}
  BY <1>3, <1>4, <1>5, <1>6
<1>8. ASSUME NEW k \in 1 .. n + 2, v[k].txn.path = "member"
      PROVE  k < n + 2 /\ ~ v[k + 1].first /\ IsPair(g[k].keys, v[k].txn, v[k + 1].txn)
  <2>1. CASE k = n + 2  BY <1>3, <1>6, <1>8, <2>1
  <2>2. CASE k = n + 1
    <3>1. k + 1 = n + 2 /\ k < n + 2 /\ k \in 1 .. n + 1  BY <1>1, <2>2
    <3> QED  BY <1>2, <1>3, <1>6, <2>2, <3>1
  <2>3. CASE k \in 1 .. n
    <3>1. w[k].txn.path = "member" /\ k < n  BY <1>3, <1>4, <1>8, <2>3
    <3>2. k + 1 \in 1 .. n /\ k \in 1 .. n + 1 /\ k < n + 2  BY <1>1, <2>3, <3>1
    <3> QED  BY <1>2, <1>3, <1>4, <2>3, <3>1, <3>2
  <2> QED  BY <1>5, <2>1, <2>2, <2>3
<1>9. Paired(g, v)  BY <1>3, <1>7, <1>8 DEF Paired
<1> QED  BY <1>9 DEF g, v

\* The reader takes the first.
LEMMA LinkedLess ==
  ASSUME NEW h, NEW r, NEW w \in Seq(Messages), w # << >>, NEW a, Linked(h, r, w, a), NEW lo
  PROVE  /\ Linked(Tail(h), After(r, Head(w).txn), Tail(w), a)
         /\ AllKept(h, lo) => AllKept(Tail(h), lo)
         /\ Paired(h, w) => Paired(Tail(h), Tail(w))
<1>1. PICK n \in Nat : n + 1 = Len(w)
  <2>1. Len(w) - 1 \in Nat  OBVIOUS
  <2> QED  BY <2>1
<1>2. /\ h \in Seq(Memory) /\ Len(h) = n + 2 /\ h[1] = r /\ h[n + 2] = a
      /\ \A k \in 1 .. n + 1 : h[k + 1] = After(h[k], w[k].txn)
  BY <1>1 DEF Linked
<1> DEFINE g == Tail(h)  v == Tail(w)
<1>3. g \in Seq(Memory) /\ Len(g) = n + 1 /\ \A k \in 1 .. n + 1 : g[k] = h[k + 1]
  BY <1>1, <1>2
<1>4. v \in Seq(Messages) /\ Len(v) = n /\ \A k \in 1 .. n : v[k] = w[k + 1]
  BY <1>1
<1>5. Head(w) = w[1]  OBVIOUS
<1> HIDE DEF g, v
<1>6. \A k \in 1 .. n : k + 1 \in 1 .. n + 1 /\ k \in 1 .. n + 1  BY <1>1
<1>7. 1 \in 1 .. n + 1 /\ n + 1 \in 1 .. n + 1 /\ n + 1 + 1 = n + 2  BY <1>1
<1>8. Linked(g, After(r, Head(w).txn), v, a)
  <2>1. g[1] = After(r, Head(w).txn)  BY <1>2, <1>3, <1>5, <1>7
  <2>2. g[n + 1] = a  BY <1>2, <1>3, <1>7
  <2>3. \A k \in 1 .. n : g[k + 1] = After(g[k], v[k].txn)  BY <1>2, <1>3, <1>4, <1>6
  <2> QED  BY <1>3, <1>4, <2>1, <2>2, <2>3 DEF Linked
<1>9. ASSUME AllKept(h, lo) PROVE AllKept(g, lo)
  <2>1. \A k \in 1 .. n + 1 : k + 1 \in 1 .. n + 2  BY <1>1
  <2> QED  BY <1>2, <1>3, <1>9, <2>1 DEF AllKept
<1>10. ASSUME Paired(h, w) PROVE Paired(g, v)
  <2>1. /\ \A k \in 1 .. n + 1 : w[k].first \/ w[k].txn.path \in {"doc", "list"}
        /\ \A k \in 1 .. n + 1 : w[k].txn.path = "member" =>
             k < n + 1 /\ ~ w[k + 1].first /\ IsPair(h[k].keys, w[k].txn, w[k + 1].txn)
    BY <1>1, <1>10 DEF Paired
  <2>2. \A k \in 1 .. n : v[k].first \/ v[k].txn.path \in {"doc", "list"}
    BY <1>4, <1>6, <2>1
  <2>3. ASSUME NEW k \in 1 .. n, v[k].txn.path = "member"
        PROVE  k < n /\ ~ v[k + 1].first /\ IsPair(g[k].keys, v[k].txn, v[k + 1].txn)
    <3>1. w[k + 1].txn.path = "member" /\ k + 1 < n + 1  BY <1>4, <1>6, <2>1, <2>3
    <3>2. k < n /\ k + 1 \in 1 .. n  BY <1>1, <3>1
    <3> QED  BY <1>3, <1>4, <1>6, <2>1, <3>1, <3>2
  <2> QED  BY <1>4, <2>2, <2>3 DEF Paired
<1> QED  BY <1>8, <1>9, <1>10 DEF g, v

-----------------------------------------------------------------------------
(* The invariant *)

History(h) ==
  /\ Linked(h, Mem(model[Reader]), wire, Mem(model[Author]))
  /\ Paired(h, wire) /\ AllKept(h, loose)

\* Both models show what their references stand for; the reader, between two
\* transactions, after the second.  The memories that the reader will go through have
\* each id once and with its document.
RefsInv ==
  /\ model = [who \in Models |-> model[who]]
  /\ \A who \in Models : ModelOK(model[who]) /\ ShowsKey(model[who])
  /\ wire \in Seq(Messages) /\ ops \in 0 .. MaxOps /\ loose \subseteq Ids
  /\ \E h : History(h)
  /\ Shows(model[Author])
  /\ Between => Shows(Exec(model[Reader], Head(wire).txn))
  /\ ~ Between => Shows(model[Reader])

\* The messages of one call.
Sent(ts) == [k \in DOMAIN ts |-> [txn |-> ts[k], first |-> k = 1]]

\* What the author sends for a call of one transaction,
LEMMA SentOne ==
  ASSUME NEW w \in Seq(Messages), NEW t \in Txns
  PROVE  \E x \in Messages : x.txn = t /\ x.first /\ w \o Sent(<<t>>) = Append(w, x)
<1> DEFINE ts == <<t>>  x == [txn |-> t, first |-> 1 = 1]
<1>1. DOMAIN ts = 1 .. 1 /\ ts[1] = t  OBVIOUS
<1>2. x \in Messages /\ x.txn = t /\ x.first  BY DEF Messages
<1>3. Sent(ts) = <<x>>
  <2>1. Sent(ts) = [k \in 1 .. 1 |-> x]
    <3>1. \A k \in 1 .. 1 : k = 1  OBVIOUS
    <3>2. \A k \in 1 .. 1 : [txn |-> ts[k], first |-> k = 1] = x  BY <1>1, <3>1
    <3> HIDE DEF ts, x
    <3> QED  BY <1>1, <3>2 DEF Sent
  <2> HIDE DEF x
  <2> QED  BY <2>1
<1> HIDE DEF ts, x
<1>4. w \o <<x>> = Append(w, x)  BY <1>2
<1> QED  BY <1>2, <1>3, <1>4 DEF ts

\* and for a call of two.
LEMMA SentTwo ==
  ASSUME NEW w \in Seq(Messages), NEW t \in Txns, NEW u \in Txns
  PROVE  \E x, y \in Messages :
           /\ x.txn = t /\ x.first /\ y.txn = u /\ ~ y.first
           /\ w \o Sent(<<t, u>>) = Append(Append(w, x), y)
<1> DEFINE ts == <<t, u>>  x == [txn |-> t, first |-> 1 = 1]  y == [txn |-> u, first |-> 2 = 1]
<1>1. DOMAIN ts = 1 .. 2 /\ ts[1] = t /\ ts[2] = u  OBVIOUS
<1>2. /\ x \in Messages /\ x.txn = t /\ x.first
      /\ y \in Messages /\ y.txn = u /\ ~ y.first
  <2>1. (1 = 1) \in BOOLEAN /\ (2 = 1) \in BOOLEAN /\ ~ (2 = 1)  OBVIOUS
  <2>2. x \in Messages /\ y \in Messages  BY <2>1 DEF Messages
  <2>3. y.txn = u /\ (y.first <=> 2 = 1)  OBVIOUS
  <2> QED  BY <2>1, <2>2, <2>3
<1>3. Sent(ts) = <<x, y>>
  <2>1. Sent(ts) = [k \in 1 .. 2 |-> IF k = 1 THEN x ELSE y]
    <3>1. \A k \in 1 .. 2 : k = 1 \/ k = 2  OBVIOUS
    <3>2. \A k \in 1 .. 2 : [txn |-> ts[k], first |-> k = 1] = IF k = 1 THEN x ELSE y
      BY <1>1, <3>1
    <3> HIDE DEF ts, x, y
    <3> QED  BY <1>1, <3>2 DEF Sent
  <2> HIDE DEF x, y
  <2> QED  BY <2>1
<1> HIDE DEF ts, x, y
<1>4. w \o <<x, y>> = Append(Append(w, x), y)  BY <1>2
<1> QED  BY <1>2, <1>3, <1>4 DEF ts

\* What is sent is behind what was sent before.
LEMMA HeadOfMore ==
  ASSUME NEW w \in Seq(Messages), NEW x \in Messages
  PROVE  /\ Append(w, x) \in Seq(Messages) /\ Append(w, x) # << >>
         /\ Head(Append(w, x)) = IF w = << >> THEN x ELSE Head(w)
BY HeadTailAppend, AppendProperties

\* The list that a model shows has each pointer once.
LEMMA KeptOnce ==
  ASSUME NEW m, ModelOK(m), NEW lo, Kept(Mem(m), lo)
  PROVE  Once(m.keys[m.ref.key])
<1>1. m.ref.key \in Keys  BY ModelParts DEF GetterSet
<1> QED  BY <1>1 DEF Kept, KeptList, Mem

\* The lists of the author and of the reader are as they should be.
LEMMA BothKept ==
  ASSUME RefsInv
  PROVE  Kept(Mem(model[Author]), loose) /\ Kept(Mem(model[Reader]), loose)
<1>1. PICK h : History(h)  BY DEF RefsInv
<1>2. PICK n \in Nat : n = Len(wire)  BY DEF RefsInv
<1>3. /\ Len(h) = n + 1 /\ h[1] = Mem(model[Reader]) /\ h[n + 1] = Mem(model[Author])
      /\ \A k \in 1 .. Len(h) : Kept(h[k], loose)
  BY <1>1, <1>2 DEF History, Linked, AllKept
<1>4. 1 \in 1 .. n + 1 /\ n + 1 \in 1 .. n + 1  BY <1>2
<1> QED  BY <1>3, <1>4

\* What a step of the author must do.
LEMMA AuthorStep ==
  ASSUME RefsInv, NEW m, model' = [model EXCEPT ![Author] = m],
         ModelOK(m), ShowsKey(m), Shows(m),
         wire' \in Seq(Messages), wire' # << >>,
         wire # << >> => Head(wire') = Head(wire), wire = << >> => Head(wire').first,
         ops' \in 0 .. MaxOps, loose' \subseteq Ids,
         NEW h, Linked(h, Mem(model[Reader]), wire', Mem(m)), Paired(h, wire'), AllKept(h, loose')
  PROVE  RefsInv'
<1>1. Author \in Models /\ Reader \in Models /\ Author # Reader  BY RefsAssumption DEF Models
<1>2. /\ model' = [who \in Models |-> model'[who]] /\ model'[Author] = m
      /\ \A who \in Models : who # Author => model'[who] = model[who]
  BY <1>1 DEF RefsInv
<1>3. /\ \A who \in Models : ModelOK(model'[who]) /\ ShowsKey(model'[who])
  BY <1>2 DEF RefsInv
<1>4. model'[Reader] = model[Reader]  BY <1>1, <1>2
<1>5. History(h)'  BY <1>2, <1>4 DEF History
<1>6. Shows(model'[Author])  BY <1>2
<1>7. /\ (wire' # << >> /\ ~ Head(wire').first) => Shows(Exec(model'[Reader], Head(wire').txn))
      /\ ~ (wire' # << >> /\ ~ Head(wire').first) => Shows(model'[Reader])
  <2>1. CASE wire = << >>  BY <1>4, <2>1 DEF RefsInv, Between
  <2>2. CASE wire # << >>  BY <1>4, <2>2 DEF RefsInv, Between
  <2> QED  BY <2>1, <2>2
<1> QED  BY <1>2, <1>3, <1>5, <1>6, <1>7 DEF RefsInv, Between

\* A call that makes one transaction.
LEMMA CallOne ==
  ASSUME RefsInv, NEW t \in Txns, t.path # "member", Do(<<t>>),
         loose \subseteq loose', loose' \subseteq Ids, Kept(After(Mem(Me), t), loose')
  PROVE  RefsInv'
<1> DEFINE e == Exec(Me, t)
<1>1. ModelOK(Me) /\ ShowsKey(Me) /\ Shows(Me)  BY DEF RefsInv, Models, Me
<1>2. Mem(Me) \in Memory /\ Mem(e) = After(Mem(Me), t)  BY <1>1, MemIs
<1>3. Once(Me.keys[Me.ref.key])  BY <1>1, BothKept, KeptOnce DEF Me
<1>4. ModelOK(e) /\ ShowsKey(e) /\ Shows(e)  BY <1>1, <1>3, ExecType, ExecShowsKey, ShowsExec
<1>5. model' = [model EXCEPT ![Author] = e]  BY CallOneIs DEF Do, Me
<1>6. wire \in Seq(Messages)  BY DEF RefsInv
<1>7. PICK x \in Messages : x.txn = t /\ x.first /\ wire' = Append(wire, x)
  BY <1>6, SentOne DEF Do, Sent
<1>8. /\ wire' \in Seq(Messages) /\ wire' # << >>
      /\ Head(wire') = IF wire = << >> THEN x ELSE Head(wire)
  BY <1>6, <1>7, HeadOfMore
<1>9. ops' \in 0 .. MaxOps  BY RefsAssumption DEF Do, RefsInv
<1>10. PICK h : History(h)  BY DEF RefsInv
<1>11. Linked(h, Mem(model[Reader]), wire, Mem(Me)) /\ Paired(h, wire) /\ AllKept(h, loose)
  BY <1>10 DEF History, Me
<1>12. h \in Seq(Memory) /\ Len(h) = Len(wire) + 1  BY <1>11 DEF Linked
<1> HIDE DEF e
<1> DEFINE g == Append(h, Mem(e))
<1>13. Linked(g, Mem(model[Reader]), wire', Mem(e))  BY <1>2, <1>6, <1>7, <1>11, LinkedMore
<1>14. Mem(e) \in Memory  BY <1>2, AfterType
<1>15. Paired(g, wire')  BY <1>6, <1>7, <1>11, <1>12, <1>14, PairedMore
<1>16. AllKept(g, loose')  BY <1>2, <1>11, <1>12, <1>14, KeptMore
<1> HIDE DEF g
<1> QED  BY <1>4, <1>5, <1>7, <1>8, <1>9, <1>13, <1>15, <1>16, AuthorStep

\* A call that makes two.
LEMMA CallTwo ==
  ASSUME RefsInv, NEW t \in Txns, NEW u \in Txns, Do(<<t, u>>),
         IsPair(Me.keys, t, u) \/ (t.path # "member" /\ u.path \in {"doc", "list"}),
         loose \subseteq loose', loose' \subseteq Ids, Kept(After(Mem(Me), t), loose'),
         Kept(After(After(Mem(Me), t), u), loose')
  PROVE  RefsInv'
<1> DEFINE e == Exec(Me, t)  f == Exec(e, u)
<1>1. ModelOK(Me) /\ ShowsKey(Me) /\ Shows(Me)  BY DEF RefsInv, Models, Me
<1>2. Mem(Me) \in Memory /\ Mem(e) = After(Mem(Me), t)  BY <1>1, MemIs
<1>3. Once(Me.keys[Me.ref.key])  BY <1>1, BothKept, KeptOnce DEF Me
<1>4. ModelOK(e) /\ ShowsKey(e)  BY <1>1, ExecType, ExecShowsKey
<1>5. Once(e.keys[e.ref.key])
  <2> HIDE DEF e
  <2> QED  BY <1>2, <1>4, KeptOnce
<1>6. Mem(e) \in Memory /\ Mem(f) = After(Mem(e), u) /\ ModelOK(f) /\ ShowsKey(f)
  <2> HIDE DEF e
  <2> QED  BY <1>4, MemIs, ExecType, ExecShowsKey
<1>7. Shows(f)
  <2>1. CASE IsPair(Me.keys, t, u)
    <3>1. e.ref = Me.ref  BY <1>1, ExecIs
    <3>2. Once(Exec(Me, t).keys[Me.ref.key])  BY <1>5, <3>1
    <3> QED  BY <1>1, <1>3, <2>1, <3>2, ShowsPair
  <2>2. CASE t.path # "member" /\ u.path \in {"doc", "list"}
    <3>1. Shows(e)  BY <1>1, <1>3, <2>2, ShowsExec
    <3> HIDE DEF e
    <3>2. Once(e.keys[e.ref.key]) /\ u.path # "member"  BY <1>5, <2>2
    <3> QED  BY <1>4, <3>1, <3>2, ShowsExec
  <2> QED  BY <2>1, <2>2
<1>8. model' = [model EXCEPT ![Author] = f]
  <2>1. model' = [model EXCEPT ![Author] = DoneTwo(Me, t, u)]  BY DEF Do, Me, DoneTwo
  <2>2. DoneTwo(Me, t, u) = Exec(Exec(Me, t), u)  BY CallTwoIs
  <2> QED  BY <2>1, <2>2
<1>9. wire \in Seq(Messages)  BY DEF RefsInv
<1>10. PICK x \in Messages, y \in Messages :
         /\ x.txn = t /\ x.first /\ y.txn = u /\ ~ y.first
         /\ wire' = Append(Append(wire, x), y)
  <2>1. wire' = wire \o Sent(<<t, u>>)  BY DEF Do, Sent
  <2>2. \E x, y \in Messages :
          /\ x.txn = t /\ x.first /\ y.txn = u /\ ~ y.first
          /\ wire \o Sent(<<t, u>>) = Append(Append(wire, x), y)
    BY <1>9, SentTwo
  <2> QED  BY <2>1, <2>2
<1> DEFINE v == Append(wire, x)
<1>11. v \in Seq(Messages) /\ v # << >> /\ Head(v) = IF wire = << >> THEN x ELSE Head(wire)
  BY <1>9, <1>10, HeadOfMore
<1> HIDE DEF v
<1>12. wire' = Append(v, y)  BY <1>10 DEF v
<1>13. /\ wire' \in Seq(Messages) /\ wire' # << >>
       /\ Head(wire') = IF wire = << >> THEN x ELSE Head(wire)
  BY <1>10, <1>11, <1>12, HeadOfMore
<1>14. ops' \in 0 .. MaxOps  BY RefsAssumption DEF Do, RefsInv
<1>15. PICK h : History(h)  BY DEF RefsInv
<1>16. Linked(h, Mem(model[Reader]), wire, Mem(Me)) /\ Paired(h, wire) /\ AllKept(h, loose)
  BY <1>15 DEF History, Me
<1>17. h \in Seq(Memory) /\ Len(h) = Len(wire) + 1 /\ h[Len(h)] = Mem(Me)  BY <1>16 DEF Linked
<1> HIDE DEF e, f
<1> DEFINE g == Append(h, Mem(e))  k == Append(g, Mem(f))
<1>18. Linked(g, Mem(model[Reader]), v, Mem(e))
  BY <1>2, <1>9, <1>10, <1>16, LinkedMore DEF v
<1>19. g \in Seq(Memory) /\ Len(g) = Len(v) + 1  BY <1>18 DEF Linked
<1>20. Mem(f) \in Memory  BY <1>6, AfterType
<1>21. Linked(k, Mem(model[Reader]), wire', Mem(f))
  <2> HIDE DEF g
  <2> QED  BY <1>6, <1>10, <1>11, <1>12, <1>18, LinkedMore
<1>22. AllKept(g, loose')  BY <1>2, <1>6, <1>16, <1>17, KeptMore
<1>23. AllKept(k, loose')
  <2>1. Kept(Mem(f), loose') /\ loose' \subseteq loose'  BY <1>2, <1>6
  <2> HIDE DEF g
  <2> QED  BY <1>19, <1>20, <1>22, <2>1, KeptMore
<1>24. Paired(k, wire')
  <2>1. CASE IsPair(Me.keys, t, u)
    <3>1. IsPair(h[Len(h)].keys, x.txn, y.txn)  BY <1>10, <1>17, <2>1 DEF Mem
    <3> QED  BY <1>6, <1>9, <1>10, <1>16, <1>17, <1>20, <3>1, PairedTwo
  <2>2. CASE t.path # "member" /\ u.path \in {"doc", "list"}
    <3>1. Paired(g, v)
      BY <1>6, <1>9, <1>10, <1>16, <1>17, <2>2, PairedMore DEF v
    <3>2. y.txn.path # "member" /\ y.txn.path \in {"doc", "list"}  BY <1>10, <2>2
    <3> HIDE DEF g
    <3> QED  BY <1>10, <1>11, <1>12, <1>19, <1>20, <3>1, <3>2, PairedMore
  <2> QED  BY <2>1, <2>2
<1> HIDE DEF k
<1> QED  BY <1>6, <1>7, <1>8, <1>10, <1>13, <1>14, <1>21, <1>23, <1>24, AuthorStep

-----------------------------------------------------------------------------
(* The actions *)

\* What the author does makes transactions.
LEMMA MadeDoc ==
  ASSUME NEW id \in Ids, NEW c \in Value
  PROVE  SetDoc(id, c) \in Txns
BY DEF SetDoc, Txns

\* What the author makes of a call are transactions: a member that is set,
LEMMA MadeMember ==
  ASSUME NEW key \in Keys, NEW at \in Nat, NEW p \in Pointer
  PROVE  SetMember(key, at, p) \in Txns
BY DEF SetMember, Txns

\* an insert,
LEMMA MadeInsert ==
  ASSUME NEW key \in Keys, NEW at \in Nat, NEW id \in Ids
  PROVE  MutateKey(key, [method |-> "insert", at |-> at], <<id>>) \in Txns
<1>1. [method |-> "insert", at |-> at] \in Inserts  BY DEF Inserts
<1>2. <<id>> \in {<<i>> : i \in Ids}  OBVIOUS
<1> QED  BY <1>1, <1>2 DEF MutateKey, Txns

\* a remove or move.
LEMMA MadeTake ==
  ASSUME NEW key \in Keys, NEW op \in Takes
  PROVE  MutateKey(key, op, << >>) \in Txns
BY DEF MutateKey, Txns

\* The author's memory.
LEMMA MyMemory ==
  ASSUME RefsInv
  PROVE  /\ ModelOK(Me) /\ Mem(Me) \in Memory /\ Kept(Mem(Me), loose)
         /\ Mem(Me).docs = Me.docs /\ Mem(Me).keys = Me.keys
         /\ Me.docs \in [Ids -> Value] /\ Me.keys \in [Keys -> Seq(Pointer)] /\ Me.ref.key \in Keys
<1>1. ModelOK(Me)  BY DEF RefsInv, Models, Me
<1>2. Me.docs \in [Ids -> Value] /\ Me.keys \in [Keys -> Seq(Pointer)] /\ Me.ref.key \in Keys
  BY <1>1, ModelParts DEF GetterSet
<1> QED  BY <1>1, <1>2, BothKept DEF Me, Mem, Memory

\* Two calls in a row.
LEMMA CatOne ==
  ASSUME NEW S, NEW x \in S, NEW y \in S
  PROVE  <<x>> \o <<y>> = <<x, y>>
<1>1. <<x>> \in Seq(S)  OBVIOUS
<1>2. Append(<<x>>, y) = <<x>> \o <<y>>  BY <1>1, AppendIsConcat
<1> DEFINE r == Append(<<x>>, y)  p == <<x, y>>
<1>3. r \in Seq(S) /\ Len(r) = 2 /\ r[1] = x /\ r[2] = y  BY <1>1
<1>4. p \in Seq(S) /\ Len(p) = 2 /\ p[1] = x /\ p[2] = y  OBVIOUS
<1> HIDE DEF r, p
<1>5. \A i \in 1 .. 2 : i = 1 \/ i = 2  OBVIOUS
<1>6. r = p  BY <1>3, <1>4, <1>5, SeqEqual
<1> QED  BY <1>2, <1>6 DEF r, p

\* Each call keeps the invariant: insert, push and unshift,
LEMMA InsertStep ==
  ASSUME RefsInv, NEW key \in Keys, NEW at \in 0 .. Len(List(key)), NEW id \in Ids,
         NEW c \in Value, Insert(key, at, id, c)
  PROVE  RefsInv'
<1> DEFINE t == SetDoc(id, c)
           u == MutateKey(key, [method |-> "insert", at |-> at], <<id>>)
<1>1. PICK s \in Seq(Pointer) : s = Me.keys[key] /\ s = List(key)  BY MyMemory DEF List
<1>2. at \in Nat  BY <1>1
<1>3. t \in Txns /\ u \in Txns  BY <1>2, MadeDoc, MadeInsert
<1>4. /\ t.path = "doc" /\ t.id = id /\ t.content = c
      /\ u.path = "list" /\ u.key = key /\ u.ids = <<id>> /\ u.op \in Inserts
  BY <1>2 DEF SetDoc, MutateKey, Inserts
<1>5. Len(s) < MaxLen /\ \A i \in 1 .. Len(s) : s[i] # id
  <2>1. Len(s) < MaxLen /\ id \notin Members(key)  BY <1>1 DEF Insert
  <2> QED  BY <1>1, <2>1 DEF Members
<1>6. /\ Do(InsertTxns(key, at, id, c))
      /\ loose' = IF c = Nothing /\ Me.docs[id] = Nothing THEN loose \cup {id} ELSE loose
  BY DEF Insert
<1>7. loose \subseteq loose' /\ loose' \subseteq Ids  BY <1>6 DEF RefsInv
<1>8. Kept(Mem(Me), loose')  BY <1>7, MyMemory, KeptGrows
<1> HIDE DEF t, u
<1>9. CASE c = Nothing
  <2>1. InsertTxns(key, at, id, c) = <<u>>
    <3>1. InsertTxns(key, at, id, c) = << >> \o <<u>>  BY <1>9 DEF InsertTxns, u
    <3> QED  BY <3>1
  <2>2. Do(<<u>>)  BY <1>6, <2>1
  <2>3. Me.docs[id] = Nothing => id \in loose'  BY <1>6, <1>9
  <2>4. Kept(After(Mem(Me), u), loose')
    BY <1>1, <1>3, <1>4, <1>5, <1>8, <2>3, MyMemory, KeptInsert
  <2> QED  BY <1>3, <1>4, <1>7, <2>2, <2>4, CallOne
<1>10. CASE c # Nothing
  <2>1. InsertTxns(key, at, id, c) = <<t, u>>
    <3>1. InsertTxns(key, at, id, c) = <<t>> \o <<u>>  BY <1>10 DEF InsertTxns, t, u
    <3>2. <<t>> \o <<u>> = <<t, u>>  BY <1>3, CatOne
    <3> QED  BY <3>1, <3>2
  <2>2. Do(<<t, u>>)  BY <1>6, <2>1
  <2> DEFINE next == After(Mem(Me), t)
  <2>3. next \in Memory /\ Kept(next, loose')
    BY <1>3, <1>4, <1>8, <1>10, MyMemory, AfterType, KeptDoc
  <2>4. next.keys = Me.keys /\ next.docs[id] # Nothing
    BY <1>4, <1>10, MyMemory DEF After, KeysAfter, DocsAfter
  <2>5. Kept(After(next, u), loose')
    <3> HIDE DEF next
    <3> QED  BY <1>1, <1>3, <1>4, <1>5, <2>3, <2>4, KeptInsert
  <2>6. t.path # "member" /\ u.path \in {"doc", "list"}  BY <1>4
  <2> QED  BY <1>3, <1>7, <2>2, <2>3, <2>5, <2>6, CallTwo
<1> QED  BY <1>9, <1>10

\* remove and move
LEMMA TakeStep ==
  ASSUME RefsInv, NEW t \in Txns, t.path = "list", t.op \in Takes, t.ids = << >>,
         Do(<<t>>), loose' = loose
  PROVE  RefsInv'
<1>1. Kept(After(Mem(Me), t), loose')  BY MyMemory, KeptTake
<1>2. loose \subseteq loose' /\ loose' \subseteq Ids  BY DEF RefsInv
<1> QED  BY <1>1, <1>2, CallOne

\* remove, pop and shift,
LEMMA TakeOutStep ==
  ASSUME RefsInv, NEW key \in Keys, NEW at \in Nat, NEW n \in Nat, TakeOut(key, at, n)
  PROVE  RefsInv'
<1>1. PICK op \in Takes : op = [method |-> "remove", at |-> at, n |-> n]
  BY DEF Takes
<1> DEFINE t == MutateKey(key, op, << >>)
<1>2. t \in Txns /\ t.path = "list" /\ t.op \in Takes /\ t.ids = << >>
  BY MadeTake DEF MutateKey
<1>3. Do(<<t>>) /\ loose' = loose  BY <1>1 DEF TakeOut
<1> QED  BY <1>2, <1>3, TakeStep

\* move,
LEMMA MoveStep ==
  ASSUME RefsInv, NEW key \in Keys, NEW at \in Nat, NEW to \in Nat, NEW n \in Nat,
         Move(key, at, to, n)
  PROVE  RefsInv'
<1>1. PICK op \in Takes : op = [method |-> "move", at |-> at, to |-> to, n |-> n]
  BY DEF Takes
<1> DEFINE t == MutateKey(key, op, << >>)
<1>2. t \in Txns /\ t.path = "list" /\ t.op \in Takes /\ t.ids = << >>
  BY MadeTake DEF MutateKey
<1>3. Do(<<t>>) /\ loose' = loose  BY <1>1 DEF Move
<1> QED  BY <1>2, <1>3, TakeStep

\* a member set through the reference,
LEMMA SetAtStep ==
  ASSUME RefsInv, NEW at \in Nat, at <= Len(List(Me.ref.key)), NEW id \in Ids,
         NEW c \in Contents, SetAt(at, id, c)
  PROVE  RefsInv'
<1>1. PICK key \in Keys : key = Me.ref.key  BY MyMemory
<1> DEFINE t == SetMember(key, at, id)  u == SetDoc(id, c)
<1>2. PICK s \in Seq(Pointer) : s = Me.keys[key] /\ s = List(key)  BY MyMemory DEF List
<1>3. id \in Pointer /\ c \in Value  BY DEF Pointer, Value
<1>4. t \in Txns /\ u \in Txns  BY <1>3, MadeDoc, MadeMember
<1>5. /\ t.path = "member" /\ t.key = key /\ t.at = at /\ t.id = id
      /\ u.path = "doc" /\ u.id = id /\ u.content = c
  BY DEF SetMember, SetDoc
<1>6. /\ at < MaxLen /\ at <= Len(s)
      /\ IF at < Len(s) /\ s[at + 1] # Nothing THEN id = s[at + 1] ELSE id \notin Members(key)
      /\ Do(<<t, u>>) /\ loose' = loose \cup {id}
  BY <1>1, <1>2 DEF SetAt
<1>7. loose \subseteq loose' /\ loose' \subseteq Ids /\ id \in loose'  BY <1>6 DEF RefsInv
<1>8. Kept(Mem(Me), loose')  BY <1>7, MyMemory, KeptGrows
<1> HIDE DEF t, u
<1>9. \A i \in 1 .. Len(s) : s[i] = id => i = at + 1
  <2>1. CASE at < Len(s) /\ s[at + 1] # Nothing
    <3>1. Once(s)  BY <1>2, <1>8, MyMemory DEF Kept, KeptList
    <3>2. PICK n \in Nat : n = Len(s)  BY <1>2
    <3>3. at + 1 \in 1 .. n  BY <2>1, <3>2
    <3>4. s[at + 1] = id /\ id # Nothing  BY <1>6, <2>1, RefsAssumption
    <3> QED  BY <3>1, <3>2, <3>3, <3>4 DEF Once
  <2>2. CASE ~ (at < Len(s) /\ s[at + 1] # Nothing)
    <3>1. id \notin Members(key)  BY <1>6, <2>2
    <3> QED  BY <1>2, <3>1 DEF Members
  <2> QED  BY <2>1, <2>2
<1> DEFINE next == After(Mem(Me), t)
<1>10. next \in Memory /\ Kept(next, loose')
  BY <1>2, <1>4, <1>5, <1>6, <1>7, <1>8, <1>9, MyMemory, AfterType, KeptMember
<1>11. Kept(After(next, u), loose')
  <2> HIDE DEF next
  <2> QED  BY <1>4, <1>5, <1>7, <1>10, KeptDoc
<1>12. IsPair(Me.keys, t, u)  BY <1>2, <1>5, <1>6 DEF IsPair
<1> QED  BY <1>4, <1>6, <1>7, <1>10, <1>11, <1>12, CallTwo

\* a member deleted through it,
LEMMA DelAtStep ==
  ASSUME RefsInv, NEW at \in Nat, at < Len(List(Me.ref.key)), DelAt(at)
  PROVE  RefsInv'
<1>1. PICK key \in Keys : key = Me.ref.key  BY MyMemory
<1>2. PICK s \in Seq(Pointer) : s = Me.keys[key] /\ s = List(key)  BY MyMemory DEF List
<1>3. PICK id : /\ id = s[at + 1] /\ Doc(Me, id) # Nothing
                /\ Do(<<SetMember(key, at, Nothing), SetDoc(id, Nothing)>>)
                /\ loose' = loose \cup {id}
  BY <1>1, <1>2 DEF DelAt
<1>4. id \in Ids
  <2>1. PICK n \in Nat : n = Len(s)  BY <1>2
  <2>2. at + 1 \in 1 .. n  BY <1>1, <1>2, <2>1
  <2>3. id \in Pointer  BY <1>2, <1>3, <2>1, <2>2
  <2> QED  BY <1>3, <2>3 DEF Doc, Pointer
<1> DEFINE t == SetMember(key, at, Nothing)  u == SetDoc(id, Nothing)
<1>5. t \in Txns /\ u \in Txns
  <2>1. Nothing \in Pointer /\ Nothing \in Value  BY DEF Pointer, Value
  <2> QED  BY <1>4, <2>1, MadeDoc, MadeMember
<1>6. /\ t.path = "member" /\ t.key = key /\ t.at = at /\ t.id = Nothing
      /\ u.path = "doc" /\ u.id = id
  BY DEF SetMember, SetDoc
<1>7. loose \subseteq loose' /\ loose' \subseteq Ids /\ id \in loose'  BY <1>3, <1>4 DEF RefsInv
<1>8. Kept(Mem(Me), loose')  BY <1>7, MyMemory, KeptGrows
<1>9. Do(<<t, u>>)  BY <1>3
<1> HIDE DEF t, u
<1>10. at <= Len(s) /\ at # Len(s) /\ at < MaxLen
  <2>1. Len(s) <= MaxLen  BY <1>2, <1>8, MyMemory DEF Kept, KeptList
  <2> QED  BY <1>1, <1>2, <2>1, RefsAssumption
<1> DEFINE next == After(Mem(Me), t)
<1>11. next \in Memory /\ Kept(next, loose')
  BY <1>2, <1>5, <1>6, <1>8, <1>10, MyMemory, AfterType, KeptMember
<1>12. Kept(After(next, u), loose')
  <2> HIDE DEF next
  <2> QED  BY <1>5, <1>6, <1>7, <1>11, KeptDoc
<1>13. IsPair(Me.keys, t, u)  BY <1>2, <1>6, <1>10 DEF IsPair
<1> QED  BY <1>5, <1>7, <1>9, <1>11, <1>12, <1>13, CallTwo

\* a document set or deleted,
LEMMA PutDocStep ==
  ASSUME RefsInv, NEW id \in Ids, NEW c \in Value, PutDoc(id, c)
  PROVE  RefsInv'
<1> DEFINE t == SetDoc(id, c)
<1>1. t \in Txns  BY MadeDoc
<1>2. t.path = "doc" /\ t.id = id /\ t.content = c  BY DEF SetDoc
<1>3. Do(<<t>>) /\ loose' = IF c = Nothing THEN loose \cup {id} ELSE loose  BY DEF PutDoc
<1>4. loose \subseteq loose' /\ loose' \subseteq Ids  BY <1>3 DEF RefsInv
<1>5. Kept(Mem(Me), loose')  BY <1>4, MyMemory, KeptGrows
<1> HIDE DEF t
<1>6. Kept(After(Mem(Me), t), loose')  BY <1>1, <1>2, <1>3, <1>5, MyMemory, KeptDoc
<1> QED  BY <1>1, <1>2, <1>3, <1>4, <1>6, CallOne

\* another key.
LEMMA SelectStep ==
  ASSUME RefsInv, NEW id \in Pointer, Select(id)
  PROVE  RefsInv'
<1> DEFINE t == SetKey(id)
<1>1. t \in Txns  BY DEF SetKey, Txns
<1>2. t.path = "key"  BY DEF SetKey
<1>3. Do(<<t>>) /\ loose' = loose  BY DEF Select
<1>4. loose \subseteq loose' /\ loose' \subseteq Ids  BY <1>3 DEF RefsInv
<1> HIDE DEF t
<1>5. Kept(After(Mem(Me), t), loose')  BY <1>1, <1>2, <1>3, MyMemory, KeptKey
<1> QED  BY <1>1, <1>2, <1>3, <1>4, <1>5, CallOne

\* The reader takes a transaction.
LEMMA DeliverStep ==
  ASSUME RefsInv, Deliver
  PROVE  RefsInv'
<1> DEFINE r == model[Reader]  t == Head(wire).txn  e == Exec(r, t)
<1>1. Author \in Models /\ Reader \in Models /\ Author # Reader  BY RefsAssumption DEF Models
<1>2. ModelOK(r) /\ ShowsKey(r)  BY <1>1 DEF RefsInv
<1>3. /\ wire \in Seq(Messages) /\ wire # << >> /\ wire' = Tail(wire)
      /\ model' = [model EXCEPT ![Reader] = e] /\ ops' = ops /\ loose' = loose
  BY DEF Deliver, RefsInv
<1>4. Head(wire) \in Messages /\ Head(wire) = wire[1] /\ t \in Txns
  <2>1. Head(wire) \in Messages /\ Head(wire) = wire[1]  BY <1>3
  <2> QED  BY <2>1 DEF Messages
<1>5. PICK h : History(h)  BY DEF RefsInv
<1>6. Linked(h, Mem(r), wire, Mem(model[Author])) /\ Paired(h, wire) /\ AllKept(h, loose)
  BY <1>5 DEF History
<1> DEFINE g == Tail(h)
<1>7. Mem(e) = After(Mem(r), t)  BY <1>2, <1>4, MemIs
<1>8. Linked(g, Mem(e), wire', Mem(model[Author])) /\ Paired(g, wire') /\ AllKept(g, loose)
  <2> HIDE DEF e, g
  <2> QED  BY <1>3, <1>6, <1>7, LinkedLess DEF g
<1>9. ModelOK(e) /\ ShowsKey(e)  BY <1>2, <1>4, ExecType, ExecShowsKey
<1> HIDE DEF e, g
<1>10. /\ model' = [who \in Models |-> model'[who]]
       /\ model'[Reader] = e /\ model'[Author] = model[Author]
       /\ \A who \in Models : who # Reader => model'[who] = model[who]
  BY <1>1, <1>3 DEF RefsInv
<1>11. \A who \in Models : ModelOK(model'[who]) /\ ShowsKey(model'[who])
  BY <1>9, <1>10 DEF RefsInv
<1>12. wire' \in Seq(Messages)  BY <1>3
<1>13. History(g)'  BY <1>3, <1>8, <1>10 DEF History
<1>14. Once(r.keys[r.ref.key])  BY <1>2, BothKept, KeptOnce
<1>15. Once(e.keys[e.ref.key])
  <2>1. PICK n \in Nat : n = Len(wire')  BY <1>12
  <2>2. Len(g) = n + 1 /\ g[1] = Mem(e)  BY <1>8, <2>1 DEF Linked
  <2>3. 1 \in 1 .. n + 1  BY <2>1
  <2>4. Kept(Mem(e), loose)  BY <1>8, <2>2, <2>3 DEF AllKept
  <2> QED  BY <1>9, <2>4, KeptOnce
<1>16. wire' # << >> =>
         /\ Head(wire') \in Messages /\ Head(wire').txn \in Txns
         /\ Head(wire').first \/ Head(wire').txn.path \in {"doc", "list"}
  <2> SUFFICES ASSUME wire' # << >> PROVE
         /\ Head(wire') \in Messages /\ Head(wire').txn \in Txns
         /\ Head(wire').first \/ Head(wire').txn.path \in {"doc", "list"}
    OBVIOUS
  <2>1. Head(wire') = wire'[1] /\ Head(wire') \in Messages /\ 1 \in 1 .. Len(wire')  BY <1>12
  <2> QED  BY <1>8, <2>1 DEF Paired, Messages
<1>17. CASE Shows(e)
  <2>1. (wire' # << >> /\ ~ Head(wire').first) => Shows(Exec(e, Head(wire').txn))
    <3>1. "member" \notin {"doc", "list"}  OBVIOUS
    <3> QED  BY <1>9, <1>15, <1>16, <1>17, <3>1, ShowsExec
  <2> QED  BY <1>3, <1>10, <1>11, <1>12, <1>13, <1>17, <2>1 DEF RefsInv, Between
<1>18. CASE ~ Between /\ t.path = "member"
  <2>1. Shows(r)  BY <1>18 DEF RefsInv
  <2>2. PICK n \in Nat : n = Len(wire) /\ n # 0  BY <1>3
  <2>3. 1 \in 1 .. n  BY <2>2
  <2>4. 1 < n /\ ~ wire[1 + 1].first /\ IsPair(h[1].keys, t, wire[1 + 1].txn)
    BY <1>4, <1>6, <1>18, <2>2, <2>3 DEF Paired
  <2>5. h[1] = Mem(r)  BY <1>6 DEF Linked
  <2>6. wire' # << >> /\ Head(wire') = wire[2] /\ wire[2] \in Messages
    <3>1. Len(wire') = n - 1 /\ \A i \in 1 .. n - 1 : wire'[i] = wire[i + 1]  BY <1>3, <2>2
    <3>2. 1 \in 1 .. n - 1 /\ n - 1 # 0 /\ 2 \in 1 .. n  BY <2>2, <2>4
    <3>3. wire' # << >>  BY <3>1, <3>2
    <3>4. Head(wire') = wire'[1]  BY <1>12, <3>3
    <3>5. wire'[1] = wire[1 + 1]  BY <3>1, <3>2
    <3>6. wire[2] \in Messages  BY <1>3, <2>2, <3>2
    <3> QED  BY <3>3, <3>4, <3>5, <3>6
  <2> DEFINE u == wire[2].txn
  <2>7. u \in Txns  BY <2>6 DEF Messages
  <2>8. IsPair(r.keys, t, u) /\ ~ wire[2].first  BY <2>4, <2>5 DEF Mem
  <2>9. Once(Exec(r, t).keys[r.ref.key])
    <3>1. e.ref = r.ref  BY <1>2, <1>4, ExecIs DEF e
    <3> QED  BY <1>15, <3>1 DEF e
  <2>10. Shows(Exec(e, u))
    <3>1. t \in Txns /\ ModelOK(r)  BY <1>2, <1>4
    <3> HIDE DEF r, t, u
    <3> QED  BY <1>14, <2>1, <2>7, <2>8, <2>9, <3>1, ShowsPair DEF e
  <2> QED  BY <1>3, <1>10, <1>11, <1>12, <1>13, <2>6, <2>8, <2>10 DEF RefsInv, Between
<1>19. Shows(e) \/ (~ Between /\ t.path = "member")
  <2>1. CASE Between  BY <2>1 DEF RefsInv, e
  <2>2. CASE ~ Between /\ t.path # "member"
    <3>1. Shows(r)  BY <2>2 DEF RefsInv
    <3> QED  BY <1>2, <1>4, <1>14, <2>2, <3>1, ShowsExec DEF e
  <2> QED  BY <2>1, <2>2
<1> QED  BY <1>17, <1>18, <1>19

\* A refList is set again.
LEMMA RefListStep ==
  ASSUME RefsInv, NEW who \in Models, NEW key \in Keys, RefList(who, key)
  PROVE  RefsInv'
<1> DEFINE m == model[who]  g == Getter(m.ref.n + 1, key)
           new == [m EXCEPT !.ref = g, !.listeners = m.listeners \cup {g}, !.list = View(m, key)]
<1>1. Author \in Models /\ Reader \in Models /\ Author # Reader  BY RefsAssumption DEF Models
<1>2. ModelOK(m) /\ ShowsKey(m)  BY DEF RefsInv
<1>3. /\ m = [x \in {"docs", "keys", "sel", "ref", "listeners", "list", "shown"} |-> m[x]]
      /\ m.docs \in [Ids -> Value] /\ m.keys \in [Keys -> Seq(Pointer)] /\ m.sel \in Pointer
      /\ m.ref \in GetterSet /\ m.listeners \subseteq GetterSet
      /\ m.list \in Seq(Value) /\ m.shown \in Value
      /\ m.ref \in m.listeners /\ \A l \in m.listeners : l.n <= m.ref.n
  BY <1>2, ModelParts
<1>4. /\ model' = [x \in Models |-> model'[x]] /\ model'[who] = new
      /\ \A x \in Models : x # who => model'[x] = model[x]
      /\ wire' = wire /\ ops' = ops /\ loose' = loose
  <2>1. PICK list : list = View(m, key)  OBVIOUS
  <2>2. /\ model' = [model EXCEPT ![who].ref = g, ![who].listeners = @ \cup {g}, ![who].list = list]
        /\ wire' = wire /\ ops' = ops /\ loose' = loose
    BY <2>1 DEF RefList
  <2>3. model = [x \in Models |-> model[x]]  BY DEF RefsInv
  <2> HIDE DEF g
  <2>4. /\ model' = [x \in Models |-> model'[x]]
        /\ \A x \in Models : x # who => model'[x] = model[x]
    BY <2>2, <2>3
  <2> DEFINE fields == {"docs", "keys", "sel", "ref", "listeners", "list", "shown"}
  <2>5. /\ model'[who] = [x \in fields |-> model'[who][x]]
        /\ model'[who].ref = g /\ model'[who].listeners = m.listeners \cup {g}
        /\ model'[who].list = list
        /\ model'[who].docs = m.docs /\ model'[who].keys = m.keys /\ model'[who].sel = m.sel
        /\ model'[who].shown = m.shown
    <3>1. model'[who] = [m EXCEPT !.ref = g, !.listeners = m.listeners \cup {g}, !.list = list]
      BY <2>2, <2>3
    <3> HIDE DEF m
    <3> QED  BY <1>3, <3>1
  <2>6. /\ new = [x \in fields |-> new[x]]
        /\ new.ref = g /\ new.listeners = m.listeners \cup {g} /\ new.list = list
        /\ new.docs = m.docs /\ new.keys = m.keys /\ new.sel = m.sel /\ new.shown = m.shown
    BY <1>3, <2>1
  <2>7. \A x \in fields : model'[who][x] = new[x]
    <3> HIDE DEF new, m
    <3> QED  BY <2>5, <2>6
  <2>8. model'[who] = new
    <3> HIDE DEF new, m, fields
    <3> QED  BY <2>5, <2>6, <2>7
  <2> QED  BY <2>2, <2>4, <2>8
<1>5. /\ new.docs = m.docs /\ new.keys = m.keys /\ new.sel = m.sel /\ new.shown = m.shown
      /\ new.ref = g /\ new.listeners = m.listeners \cup {g} /\ new.list = View(m, key)
      /\ new = [x \in {"docs", "keys", "sel", "ref", "listeners", "list", "shown"} |-> new[x]]
  <2> HIDE DEF g, m
  <2> QED  BY <1>3
<1> HIDE DEF new
<1>6. g \in GetterSet /\ g.key = key /\ g.n = m.ref.n + 1 /\ m.ref.n \in Nat
  BY <1>3 DEF Getter, GetterSet
<1> HIDE DEF g
<1>7. PICK ks \in Seq(Pointer) : ks = m.keys[key]  BY <1>3
<1>8. PICK n \in Nat : n = Len(ks) /\ DOMAIN ks = 1 .. n  BY <1>7
<1>9. /\ View(m, key) \in Seq(Value) /\ Len(View(m, key)) = n
      /\ \A k \in 1 .. n : View(m, key)[k] = Doc(m, ks[k])
  <2>1. View(m, key) = [k \in 1 .. n |-> Doc(m, ks[k])]  BY <1>7, <1>8 DEF View
  <2>2. \A k \in 1 .. n : Doc(m, ks[k]) \in Value
    BY <1>3, <1>7, <1>8 DEF Doc, Pointer, Value
  <2>3. View(m, key) \in [1 .. n -> Value]  BY <2>1, <2>2
  <2> QED  BY <1>8, <2>1, <2>3
<1>10. ModelOK(new)
  <2>1. new.ref \in new.listeners /\ \A l \in new.listeners : l.n <= new.ref.n
    <3>1. \A l \in m.listeners : l.n \in Nat /\ l.n <= m.ref.n  BY <1>3 DEF GetterSet
    <3> QED  BY <1>5, <1>6, <3>1
  <2> QED  BY <1>3, <1>5, <1>6, <1>9, <2>1, ModelParts
<1>11. ShowsKey(new)  BY <1>2, <1>5 DEF ShowsKey, Doc
<1>12. Shows(new)  BY <1>5, <1>6, <1>7, <1>8, <1>9 DEF Shows, ShowsList, Doc
<1>14. \A x \in Models : ModelOK(model'[x]) /\ ShowsKey(model'[x])
  BY <1>10, <1>11, <1>4 DEF RefsInv
<1>15. Mem(model'[Author]) = Mem(model[Author]) /\ Mem(model'[Reader]) = Mem(model[Reader])
  BY <1>1, <1>5, <1>4 DEF Mem
<1>16. PICK h : History(h)  BY DEF RefsInv
<1>17. History(h)'  BY <1>4, <1>15, <1>16 DEF History
<1>18. Shows(model'[Author])  BY <1>1, <1>12, <1>4 DEF RefsInv
<1>19. /\ Between => Shows(Exec(model'[Reader], Head(wire).txn))
       /\ ~ Between => Shows(model'[Reader])
  <2>1. CASE who # Reader  BY <1>1, <1>4, <2>1 DEF RefsInv
  <2>2. CASE who = Reader
    <3>1. Between => Head(wire).txn \in Txns /\ Head(wire).txn.path # "member"
      <4> SUFFICES ASSUME Between
                   PROVE  Head(wire).txn \in Txns /\ Head(wire).txn.path # "member"
        OBVIOUS
      <4>1. wire \in Seq(Messages) /\ wire # << >> /\ ~ Head(wire).first  BY DEF RefsInv, Between
      <4>2. Head(wire) = wire[1] /\ Head(wire) \in Messages /\ 1 \in 1 .. Len(wire)  BY <4>1
      <4>3. wire[1].first \/ wire[1].txn.path \in {"doc", "list"}
        BY <1>16, <4>2 DEF History, Paired
      <4>4. "member" \notin {"doc", "list"}  OBVIOUS
      <4> QED  BY <4>1, <4>2, <4>3, <4>4 DEF Messages
    <3>2. Once(new.keys[new.ref.key])
      <4>1. Kept(Mem(new), loose)  BY <1>4, <1>15, <2>2, BothKept
      <4> QED  BY <1>10, <4>1, KeptOnce
    <3> QED  BY <1>10, <1>12, <1>4, <2>2, <3>1, <3>2, ShowsExec
  <2> QED  BY <2>1, <2>2
<1> QED  BY <1>4, <1>14, <1>17, <1>18, <1>19 DEF RefsInv, Between

-----------------------------------------------------------------------------
(* The specification *)

\* The invariant holds at the start ...
LEMMA InitRefs ==
  ASSUME Init
  PROVE  RefsInv
<1>1. PICK key \in Keys :
        model = [m \in Models |->
          [docs |-> [id \in Ids |-> Nothing], keys |-> [k \in Keys |-> << >>], sel |-> Nothing,
           ref |-> Getter(1, key), listeners |-> {Getter(1, key)},
           list |-> << >>, shown |-> Nothing]]
  BY DEF Init
<1>2. wire = << >> /\ ops = 0 /\ loose = {}  BY DEF Init
<1> DEFINE docs == [id \in Ids |-> Nothing]  keys == [k \in Keys |-> << >>]
           m == [docs |-> docs, keys |-> keys, sel |-> Nothing,
                 ref |-> Getter(1, key), listeners |-> {Getter(1, key)},
                 list |-> << >>, shown |-> Nothing]
<1>3. \A who \in Models : model[who] = m  BY <1>1
<1>4. /\ docs \in [Ids -> Value] /\ keys \in [Keys -> Seq(Pointer)]
      /\ Nothing \in Pointer /\ Nothing \in Value
  BY DEF Pointer, Value
<1>5. Getter(1, key) \in GetterSet  BY DEF Getter, GetterSet
<1>6. ModelOK(m)
  <2>1. Getter(1, key).n <= Getter(1, key).n  BY <1>5 DEF GetterSet
  <2> HIDE DEF docs, keys
  <2>2. << >> \in Seq(Value)  OBVIOUS
  <2> QED  BY <1>4, <1>5, <2>1, <2>2 DEF ModelOK
<1>7. ShowsKey(m) /\ m.list = << >> /\ m.docs = docs /\ m.keys = keys /\ m.ref.key = key
  BY DEF ShowsKey, Doc, Getter
<1> HIDE DEF m
<1>8. Shows(m)  BY <1>7 DEF Shows, ShowsList
<1>9. Author \in Models /\ Reader \in Models  BY DEF Models
<1>10. Mem(m) \in Memory  BY <1>4, <1>7 DEF Mem, Memory
<1>11. Kept(Mem(m), loose)
  <2>1. 0 <= MaxLen  BY RefsAssumption
  <2>2. Mem(m).docs = docs /\ \A k \in Keys : Mem(m).keys[k] = << >>  BY <1>7 DEF Mem
  <2> HIDE DEF docs, keys
  <2> QED  BY <2>1, <2>2 DEF Kept, KeptList, Once, Backed
<1> DEFINE h == <<Mem(m)>>
<1>12. h \in Seq(Memory) /\ Len(h) = 1 /\ h[1] = Mem(m)  BY <1>10
<1> HIDE DEF h
<1>13. History(h)
  <2>1. Mem(model[Reader]) = Mem(m) /\ Mem(model[Author]) = Mem(m)  BY <1>3, <1>9
  <2>2. Len(wire) = 0  BY <1>2
  <2>3. Linked(h, Mem(m), wire, Mem(m))  BY <1>12, <2>2 DEF Linked
  <2>4. Paired(h, wire)  BY <2>2 DEF Paired
  <2>5. AllKept(h, loose)  BY <1>11, <1>12 DEF AllKept
  <2> QED  BY <2>1, <2>3, <2>4, <2>5 DEF History
<1>14. model = [who \in Models |-> model[who]]  BY <1>1
<1>15. wire \in Seq(Messages) /\ ops \in 0 .. MaxOps /\ loose \subseteq Ids
  BY <1>2, RefsAssumption
<1>16. ~ Between  BY <1>2 DEF Between
<1> QED  BY <1>3, <1>6, <1>7, <1>8, <1>9, <1>13, <1>14, <1>15, <1>16 DEF RefsInv

\* ... and every step keeps it ...
LEMMA NextRefs ==
  ASSUME RefsInv, [Next]_vars
  PROVE  RefsInv'
<1>1. ASSUME NEW key \in Keys, NEW at \in 0 .. Len(List(key)), NEW id \in Ids,
             NEW c \in Contents \cup {Nothing}, Insert(key, at, id, c)
      PROVE  RefsInv'
  BY <1>1, InsertStep DEF Value
<1>2. \A key \in Keys : Len(List(key)) \in Nat
  <2>1. \A key \in Keys : Me.keys[key] \in Seq(Pointer)  BY MyMemory
  <2> QED  BY <2>1 DEF List
<1>3. ASSUME NEW key \in Keys, NEW at \in 0 .. Len(List(key)) - 1, NEW n \in 1 .. MaxHowMany,
             TakeOut(key, at, n)
      PROVE  RefsInv'
  <2>1. at \in Nat /\ n \in Nat  BY <1>2, RefsAssumption
  <2> QED  BY <1>3, <2>1, TakeOutStep
<1>4. ASSUME NEW key \in Keys, NEW at \in 0 .. Len(List(key)) - 1, NEW n \in 1 .. MaxHowMany,
             NEW to \in 0 .. Len(List(key)) - 1, Move(key, at, to, n)
      PROVE  RefsInv'
  <2>1. at \in Nat /\ n \in Nat /\ to \in Nat  BY <1>2, RefsAssumption
  <2> QED  BY <1>4, <2>1, MoveStep
<1>5. Len(List(Me.ref.key)) \in Nat  BY <1>2, MyMemory
<1>6. ASSUME NEW at \in 0 .. Len(List(Me.ref.key)), NEW id \in Ids, NEW c \in Contents,
             SetAt(at, id, c)
      PROVE  RefsInv'
  <2>1. at \in Nat /\ at <= Len(List(Me.ref.key))  BY <1>5
  <2> QED  BY <1>6, <2>1, SetAtStep
<1>7. ASSUME NEW at \in 0 .. Len(List(Me.ref.key)) - 1, DelAt(at)
      PROVE  RefsInv'
  <2>1. at \in Nat /\ at < Len(List(Me.ref.key))  BY <1>5
  <2> QED  BY <1>7, <2>1, DelAtStep
<1>8. ASSUME NEW id \in Ids, NEW c \in Contents \cup {Nothing}, PutDoc(id, c)
      PROVE  RefsInv'
  BY <1>8, PutDocStep DEF Value
<1>9. ASSUME NEW id \in Ids \cup {Nothing}, Select(id)
      PROVE  RefsInv'
  BY <1>9, SelectStep DEF Pointer
<1>10. CASE Deliver  BY <1>10, DeliverStep
<1>11. ASSUME NEW who \in Models, NEW key \in Keys, RefList(who, key)
       PROVE  RefsInv'
  BY <1>11, RefListStep
<1>12. CASE UNCHANGED vars
  <2>1. model' = model /\ wire' = wire /\ ops' = ops /\ loose' = loose  BY <1>12 DEF vars
  <2>2. ASSUME NEW h, History(h) PROVE History(h)'  BY <2>1, <2>2 DEF History
  <2> QED  BY <2>1, <2>2 DEF RefsInv, Between
<1>13. CASE Next
  BY <1>1, <1>3, <1>4, <1>6, <1>7, <1>8, <1>9, <1>10, <1>11, <1>13 DEF Next
<1> QED  BY <1>12, <1>13

\* ... so it holds in every state that is reached.
LEMMA Invariant == Spec => []RefsInv
<1>1. Init => RefsInv  BY InitRefs
<1>2. RefsInv /\ [Next]_vars => RefsInv'  BY NextRefs
<1> QED  BY <1>1, <1>2, PTL DEF Spec

\* Whatever is written through the references or behind them, and whenever a refList is
\* set again: lists, documents and views keep their types, no list outgrows its bound,
\* and a getter has a listener as long as it is there.
THEOREM RefsTypeCorrect == Spec => []TypeOK
<1>1. ASSUME RefsInv PROVE TypeOK
  <2>1. ASSUME NEW who \in Models
        PROVE  LET m == model[who] IN
               /\ m.docs \in [Ids -> Contents \cup {Nothing}]
               /\ \A key \in Keys : /\ Len(m.keys[key]) <= MaxLen
                                    /\ ToSet(m.keys[key]) \subseteq Ids \cup {Nothing}
               /\ m.sel \in Ids \cup {Nothing} /\ m.ref \in m.listeners
               /\ \A l \in m.listeners : l.n <= m.ref.n
               /\ ToSet(m.list) \cup {m.shown} \subseteq Contents \cup {Nothing}
    <3> DEFINE m == model[who]
    <3>1. ModelOK(m) /\ Kept(Mem(m), loose)
      BY <1>1, <2>1, BothKept DEF RefsInv, Models
    <3>2. /\ m.docs \in [Ids -> Value] /\ m.keys \in [Keys -> Seq(Pointer)] /\ m.sel \in Pointer
          /\ m.list \in Seq(Value) /\ m.shown \in Value
          /\ m.ref \in m.listeners /\ \A l \in m.listeners : l.n <= m.ref.n
      BY <3>1, ModelParts
    <3>3. ASSUME NEW key \in Keys
          PROVE  Len(m.keys[key]) <= MaxLen /\ ToSet(m.keys[key]) \subseteq Ids \cup {Nothing}
      <4>1. Len(m.keys[key]) <= MaxLen  BY <3>1 DEF Kept, KeptList, Mem
      <4>2. m.keys[key] \in Seq(Pointer)  BY <3>2
      <4> QED  BY <4>1, <4>2 DEF ToSet, Pointer
    <3>4. ToSet(m.list) \subseteq Value  BY <3>2 DEF ToSet
    <3> HIDE DEF m
    <3>5. /\ m.docs \in [Ids -> Contents \cup {Nothing}] /\ m.sel \in Ids \cup {Nothing}
          /\ ToSet(m.list) \cup {m.shown} \subseteq Contents \cup {Nothing}
      BY <3>2, <3>4 DEF Value, Pointer
    <3> QED  BY <3>2, <3>3, <3>5 DEF m
  <2>2. ASSUME NEW k \in DOMAIN wire
        PROVE  wire[k].txn.path \in {"doc", "list", "member", "key"}
    <3>1. wire[k] \in Messages  BY <1>1, <2>2 DEF RefsInv
    <3>2. wire[k].txn \in Txns  BY <3>1 DEF Messages
    <3> QED  BY <3>2, TxnKinds
  <2> QED  BY <1>1, <2>1, <2>2 DEF TypeOK, RefsInv
<1> QED  BY <1>1, Invariant, PTL

\* Both models: whoever follows the events at the path of the refList has what it
\* shows, but for deleted members, and for the reader between two transactions.
THEOREM ViewsFollow == Spec => []Follows
<1>1. ASSUME RefsInv PROVE Follows
  <2> SUFFICES ASSUME NEW who \in Models, who = Reader => ~ Between
               PROVE  LET m == model[who] ks == m.keys[m.ref.key]
                      IN /\ Len(m.list) = Len(ks)
                         /\ \A k \in DOMAIN ks : ks[k] # Nothing => m.list[k] = m.docs[ks[k]]
    BY DEF Follows
  <2>1. Shows(model[who])
    <3>1. who = Author \/ who = Reader  BY DEF Models
    <3> QED  BY <1>1, <3>1 DEF RefsInv
  <2>2. ModelOK(model[who])  BY <1>1 DEF RefsInv
  <2>3. PICK ks \in Seq(Pointer) : ks = model[who].keys[model[who].ref.key]
    BY <2>2, ModelParts DEF GetterSet
  <2> QED  BY <2>1, <2>3 DEF Shows, ShowsList
<1> QED  BY <1>1, Invariant, PTL

\* What the ref with a key shows is the document that its key names, in both models.
THEOREM KeyFollowed == Spec => []FollowsKey
<1>1. RefsInv => FollowsKey  BY DEF RefsInv, ShowsKey, FollowsKey
<1> QED  BY <1>1, Invariant, PTL

\* A model that gets the transactions one by one never has an id in a list without its
\* document, unless the author had.
THEOREM NoneDangles == Spec => []NeverDangling
<1>1. ASSUME RefsInv PROVE NeverDangling
  <2> SUFFICES ASSUME NEW key \in Keys, NEW id \in ToSet(model[Reader].keys[key]) \cap Ids,
                      model[Reader].docs[id] = Nothing
               PROVE  id \in loose
    BY DEF NeverDangling
  <2>1. Kept(Mem(model[Reader]), loose)  BY <1>1, BothKept
  <2>2. PICK s \in Seq(Pointer) : s = model[Reader].keys[key]
    <3>1. ModelOK(model[Reader])  BY <1>1 DEF RefsInv, Models
    <3> QED  BY <3>1, ModelParts
  <2>3. Backed(model[Reader].docs, s, loose)  BY <2>1, <2>2 DEF Kept, KeptList, Mem
  <2>4. PICK i \in 1 .. Len(s) : s[i] = id  BY <2>2 DEF ToSet
  <2> QED  BY <2>3, <2>4 DEF Backed
<1> QED  BY <1>1, Invariant, PTL
=============================================================================
