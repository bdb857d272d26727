-------------------------- MODULE MovableTreeProofs --------------------------
(***************************************************************************)
(* Proofs about MovableTree.  First single steps, for trees of any shape:  *)
(* whatever ops are replayed or applied, in whatever order, the index      *)
(* stays a forest whose counts of children are exact, and local ops leave  *)
(* every parent's list its children in order.  Then what the ops of one    *)
(* edit come to.  Last the invariant of the specification: an index is     *)
(* what a replay of the ops its document knows gives, whether a build,     *)
(* local ops or both made it, and an edit of several ops follows a plan    *)
(* that puts its node where it was asked to.                               *)
(***************************************************************************)
EXTENDS MovableTree, FracIndexProofs

-----------------------------------------------------------------------------
(* Finite sets in order.                                                   *)

(* R orders the members of S strictly.                                     *)
Orders(R, S) ==
  /\ \A a \in S : <<a, a>> \notin R
  /\ \A a \in S, b \in S : a = b \/ <<a, b>> \in R \/ <<b, a>> \in R
  /\ \A a \in S, b \in S, c \in S : <<a, b>> \in R /\ <<b, c>> \in R => <<a, c>> \in R

(* s lists the members of S by R.                                          *)
InOrder(s, S, R) ==
  /\ s \in [1 .. Cardinality(S) -> S]
  /\ \A j \in 1 .. Cardinality(S) : \A k \in 1 .. j - 1 : <<s[k], s[j]>> \in R

(* A finite set that is not empty has a member after all others.           *)
LEMMA GreatestExists ==
  ASSUME NEW S, IsFiniteSet(S), S # {}, NEW R, Orders(R, S)
  PROVE  \E m \in S : \A x \in S \ {m} : <<x, m>> \in R
<1> DEFINE Has(T) == \E m \in T : \A x \in T \ {m} : <<x, m>> \in R
           N == {n \in Nat : \A T \in SUBSET S : Cardinality(T) = n + 1 => Has(T)}
<1>1. 0 \in N
  <2>1. ASSUME NEW T \in SUBSET S, Cardinality(T) = 1
        PROVE  Has(T)
    <3>1. IsFiniteSet(T)
      BY FS_Subset
    <3>2. PICK x : T = {x}
      BY <2>1, <3>1, FS_Singleton
    <3> QED BY <3>2
  <2> HIDE DEF Has
  <2> QED BY <2>1
<1>2. ASSUME NEW n \in N
      PROVE  n + 1 \in N
  <2>1. n \in Nat /\ n + 1 \in Nat /\ \A T \in SUBSET S : Cardinality(T) = n + 1 => Has(T)
    OBVIOUS
  <2>2. ASSUME NEW T \in SUBSET S, Cardinality(T) = n + 2
        PROVE  Has(T)
    <3>1. IsFiniteSet(T) /\ T # {}
      BY <2>1, <2>2, FS_Subset, FS_EmptySet
    <3>2. PICK x \in T : TRUE
      BY <3>1
    <3>3. Cardinality(T \ {x}) = n + 1 /\ T \ {x} \in SUBSET S
      <4>1. Cardinality(T \ {x}) = Cardinality(T) - 1
        BY <3>1, FS_RemoveElement
      <4>2. n \in Nat
        BY <2>1
      <4> HIDE DEF N
      <4> QED BY <2>2, <4>1, <4>2
    <3>4. PICK m \in T \ {x} : \A y \in (T \ {x}) \ {m} : <<y, m>> \in R
      <4>1. Has(T \ {x})
        <5> HIDE DEF Has
        <5> QED BY <2>1, <3>3
      <4> QED BY <4>1
    <3>5. CASE <<x, m>> \in R
      BY <3>4, <3>5
    <3>6. CASE <<x, m>> \notin R
      <4>1. <<m, x>> \in R
        BY <3>2, <3>4, <3>6 DEF Orders
      <4>2. \A y \in T \ {x} : <<y, x>> \in R
        BY <3>2, <3>4, <4>1 DEF Orders
      <4> QED BY <3>2, <4>2
    <3> QED BY <3>5, <3>6
  <2> HIDE DEF Has
  <2>3. \A T \in SUBSET S : Cardinality(T) = n + 1 + 1 => Has(T)
    BY <2>1, <2>2
  <2> QED BY <2>1, <2>3
<1>3. N = Nat
  <2> HIDE DEF N
  <2>1. N \in SUBSET Nat
    BY DEF N
  <2> QED BY <1>1, <1>2, <2>1, NatSetInduction
<1>4. Cardinality(S) \in Nat \ {0}
  BY FS_CardinalityType, FS_EmptySet
<1>5. Cardinality(S) - 1 \in N /\ Cardinality(S) - 1 + 1 = Cardinality(S)
  BY <1>3, <1>4
<1>6. Has(S)
  <2> HIDE DEF Has
  <2> QED BY <1>5
<1> QED BY <1>6

(* A finite set can be listed in order ...                                 *)
LEMMA InOrderExists ==
  ASSUME NEW S, IsFiniteSet(S), NEW R, Orders(R, S)
  PROVE  \E s : InOrder(s, S, R)
<1> DEFINE N == {n \in Nat : \A T \in SUBSET S : Cardinality(T) = n => \E s : InOrder(s, T, R)}
<1>1. 0 \in N
  <2>1. ASSUME NEW T \in SUBSET S, Cardinality(T) = 0
        PROVE  \E s : InOrder(s, T, R)
    <3>1. InOrder([k \in 1 .. 0 |-> 0], T, R)
      BY <2>1 DEF InOrder
    <3> QED BY <3>1
  <2> QED BY <2>1
<1>2. ASSUME NEW n \in N
      PROVE  n + 1 \in N
  <2>1. /\ n \in Nat /\ n + 1 \in Nat
        /\ \A T \in SUBSET S : Cardinality(T) = n => \E s : InOrder(s, T, R)
    OBVIOUS
  <2>2. ASSUME NEW T \in SUBSET S, Cardinality(T) = n + 1
        PROVE  \E s : InOrder(s, T, R)
    <3>1. IsFiniteSet(T) /\ T # {}
      BY <2>1, <2>2, FS_Subset, FS_EmptySet
    <3>2. Orders(R, T)
      BY DEF Orders
    <3>3. PICK m \in T : \A x \in T \ {m} : <<x, m>> \in R
      BY <3>1, <3>2, GreatestExists
    <3>4. Cardinality(T \ {m}) = n /\ T \ {m} \in SUBSET S
      <4>1. Cardinality(T \ {m}) = Cardinality(T) - 1
        BY <3>1, FS_RemoveElement
      <4>2. n \in Nat
        BY <2>1
      <4> HIDE DEF N
      <4> QED BY <2>2, <4>1, <4>2
    <3>5. PICK s : InOrder(s, T \ {m}, R)
      BY <2>1, <3>4
    <3>6. /\ s \in [1 .. n -> T \ {m}]
          /\ \A j \in 1 .. n : \A k \in 1 .. j - 1 : <<s[k], s[j]>> \in R
      BY <3>4, <3>5 DEF InOrder
    <3> DEFINE t == [k \in 1 .. n + 1 |-> IF k = n + 1 THEN m ELSE s[k]]
    <3>7. t \in [1 .. n + 1 -> T]
      BY <2>1, <3>3, <3>6
    <3>8. ASSUME NEW j \in 1 .. n + 1, NEW k \in 1 .. j - 1
          PROVE  <<t[k], t[j]>> \in R
      <4>1. k \in 1 .. n /\ k \in 1 .. n + 1 /\ t[k] = s[k] /\ s[k] \in T \ {m}
        BY <2>1, <3>6
      <4>2. CASE j = n + 1
        BY <3>3, <4>1, <4>2
      <4>3. CASE j # n + 1
        <5>1. j \in 1 .. n /\ t[j] = s[j]
          BY <2>1, <4>3
        <5> QED BY <3>6, <4>1, <5>1
      <4> QED BY <4>2, <4>3
    <3> HIDE DEF t
    <3>9. InOrder(t, T, R)
      BY <2>2, <3>7, <3>8 DEF InOrder
    <3> QED BY <3>9
  <2> QED BY <2>1, <2>2
<1>3. N = Nat
  <2> HIDE DEF N
  <2>1. N \in SUBSET Nat
    BY DEF N
  <2> QED BY <1>1, <1>2, <2>1, NatSetInduction
<1>4. Cardinality(S) \in N
  <2> HIDE DEF N
  <2> QED BY <1>3, FS_CardinalityType
<1> QED BY <1>4

(* ... with every member ...                                               *)
LEMMA InOrderOnto ==
  ASSUME NEW S, IsFiniteSet(S), NEW R, Orders(R, S), NEW s, InOrder(s, S, R), NEW x \in S
  PROVE  \E k \in 1 .. Cardinality(S) : s[k] = x
<1> DEFINE n == Cardinality(S)
<1> SUFFICES ASSUME \A k \in 1 .. n : s[k] # x
             PROVE  FALSE
  OBVIOUS
<1>1. n \in Nat /\ IsFiniteSet(S \ {x}) /\ Cardinality(S \ {x}) = n - 1
  BY FS_CardinalityType, FS_RemoveElement
<1>2. IsFiniteSet(1 .. n) /\ Cardinality(1 .. n) = n
  <2>1. 1 \in Int /\ n \in Int
    BY <1>1
  <2>2. IsFiniteSet(1 .. n) /\ Cardinality(1 .. n) = IF 1 > n THEN 0 ELSE n - 1 + 1
    BY <2>1, FS_Interval
  <2> QED BY <1>1, <2>2
<1>3. s \in [1 .. n -> S \ {x}]
  BY DEF InOrder
<1>4. n - 1 < n
  BY <1>1
<1> HIDE DEF n
<1>5. PICK j \in 1 .. n, k \in 1 .. n : j # k /\ s[j] = s[k]
  BY <1>1, <1>2, <1>3, <1>4, FS_PigeonHole
<1>6. j \in 1 .. k - 1 \/ k \in 1 .. j - 1
  BY <1>1, <1>5
<1>7. s[j] \in S /\ <<s[j], s[j]>> \in R
  BY <1>3, <1>5, <1>6 DEF InOrder, n
<1> QED BY <1>7 DEF Orders

(* ... and in no other way.                                                *)
LEMMA InOrderUnique ==
  ASSUME NEW S, IsFiniteSet(S), NEW R, Orders(R, S),
         NEW s, InOrder(s, S, R), NEW t, InOrder(t, S, R)
  PROVE  s = t
<1> DEFINE n == Cardinality(S)
           D == {k \in 1 .. n : s[k] # t[k]}
<1>1. n \in Nat /\ s \in [1 .. n -> S] /\ t \in [1 .. n -> S]
  BY FS_CardinalityType DEF InOrder
<1> SUFFICES ASSUME D # {} PROVE FALSE
  BY <1>1
<1>2. D \in SUBSET Nat
  BY <1>1
<1> DEFINE k == Least(D)
<1>3. k \in D /\ \A m \in D : k <= m
  <2> HIDE DEF D
  <2> QED BY <1>2, LeastProperties
<1> HIDE DEF k
<1>4. k \in 1 .. n /\ s[k] # t[k] /\ s[k] \in S /\ t[k] \in S
  BY <1>1, <1>3
<1>5. \A j \in 1 .. k - 1 : s[j] = t[j]
  <2>1. ASSUME NEW j \in 1 .. k - 1, s[j] # t[j]
        PROVE  FALSE
    <3>1. j \in 1 .. n /\ ~(k <= j)
      BY <1>1, <1>4
    <3> QED BY <1>3, <2>1, <3>1
  <2> QED BY <2>1
<1>6. PICK i \in 1 .. n : t[i] = s[k]
  BY <1>4, InOrderOnto
<1>7. PICK j \in 1 .. n : s[j] = t[k]
  BY <1>4, InOrderOnto
<1>8. k \in 1 .. i - 1
  <2>1. i # k
    BY <1>4, <1>6
  <2>2. ASSUME i < k PROVE FALSE
    <3>1. i \in 1 .. k - 1 /\ s[i] = s[k]
      BY <1>4, <1>5, <1>6, <2>2
    <3>2. <<s[i], s[k]>> \in R
      BY <1>4, <3>1 DEF InOrder
    <3> QED BY <1>4, <3>1, <3>2 DEF Orders
  <2> QED BY <1>4, <2>1, <2>2
<1>9. k \in 1 .. j - 1
  <2>1. j # k
    BY <1>4, <1>7
  <2>2. ASSUME j < k PROVE FALSE
    <3>1. j \in 1 .. k - 1 /\ t[j] = t[k]
      BY <1>4, <1>5, <1>7, <2>2
    <3>2. <<t[j], t[k]>> \in R
      BY <1>4, <3>1 DEF InOrder
    <3> QED BY <1>4, <3>1, <3>2 DEF Orders
  <2> QED BY <1>4, <2>1, <2>2
<1>10. <<t[k], s[k]>> \in R /\ <<s[k], t[k]>> \in R
  BY <1>6, <1>7, <1>8, <1>9 DEF InOrder
<1> QED BY <1>4, <1>10 DEF Orders

(* A list in order that holds every member is the set in order.            *)
LEMMA ListIsInOrder ==
  ASSUME NEW S, IsFiniteSet(S), NEW R, Orders(R, S), NEW s \in Seq(S),
         \A j \in 1 .. Len(s) : \A k \in 1 .. j - 1 : <<s[k], s[j]>> \in R,
         \A x \in S : \E k \in 1 .. Len(s) : s[k] = x
  PROVE  InOrder(s, S, R)
<1> DEFINE n == Len(s)
<1>1. n \in Nat /\ s \in [1 .. n -> S]
  OBVIOUS
<1>2. IsFiniteSet(1 .. n) /\ Cardinality(1 .. n) = n
  <2>1. 1 \in Int /\ n \in Int
    BY <1>1
  <2>2. IsFiniteSet(1 .. n) /\ Cardinality(1 .. n) = IF 1 > n THEN 0 ELSE n - 1 + 1
    BY <2>1, FS_Interval
  <2> QED BY <1>1, <2>2
<1>3. ASSUME NEW j \in 1 .. n, NEW k \in 1 .. n, s[j] = s[k]
      PROVE  j = k
  <2>1. s[j] \in S /\ <<s[j], s[j]>> \notin R
    BY <1>1 DEF Orders
  <2>2. j \in 1 .. k - 1 \/ k \in 1 .. j - 1 \/ j = k
    BY <1>1
  <2> QED BY <1>3, <2>1, <2>2
<1>4. s \in Surjection(1 .. n, S) /\ s \in Injection(1 .. n, S)
  BY <1>1, <1>3 DEF Surjection, Injection, IsInjective
<1>5. Cardinality(S) = n
  <2> DEFINE I == 1 .. n
  <2>1. IsFiniteSet(I) /\ s \in Surjection(I, S) /\ s \in Injection(I, S) /\ Cardinality(I) = n
    BY <1>2, <1>4
  <2> HIDE DEF I, n
  <2>2. Cardinality(S) = Cardinality(I)
    BY <2>1, FS_Surjection
  <2> QED BY <2>1, <2>2
<1> QED BY <1>1, <1>5 DEF InOrder

-----------------------------------------------------------------------------
(* Two byte strings are ordered or one.                                    *)
LEMMA LessTotal ==
  ASSUME NEW a \in Seq(Int), NEW b \in Seq(Int)
  PROVE  a = b \/ Less(a, b) \/ Less(b, a)
<1> DEFINE D == {i \in Nat \ {0} : \/ i <= Len(a) /\ i <= Len(b) /\ a[i] # b[i]
                                   \/ i <= Len(a) /\ i > Len(b)
                                   \/ i > Len(a) /\ i <= Len(b)}
<1>1. CASE D = {}
  <2>1. Len(a) = Len(b)
    <3>1. Len(a) \in Nat /\ Len(b) \in Nat
      OBVIOUS
    <3>2. ~(Len(a) < Len(b))
      <4>1. Len(b) \notin D
        BY <1>1
      <4> QED BY <3>1, <4>1
    <3>3. ~(Len(b) < Len(a))
      <4>1. Len(a) \notin D
        BY <1>1
      <4> QED BY <3>1, <4>1
    <3> QED BY <3>1, <3>2, <3>3
  <2>2. \A i \in 1 .. Len(a) : a[i] = b[i]
    BY <1>1, <2>1
  <2> QED BY <2>1, <2>2, SeqEqual
<1>2. CASE D # {}
  <2> DEFINE i == Least(D)
  <2>1. i \in D /\ \A m \in D : i <= m
    <3>1. D \in SUBSET Nat
      OBVIOUS
    <3> HIDE DEF D
    <3> QED BY <1>2, <3>1, LeastProperties
  <2> HIDE DEF i
  <2>2. /\ i \in Nat \ {0}
        /\ \/ i <= Len(a) /\ i <= Len(b) /\ a[i] # b[i]
           \/ i <= Len(a) /\ i > Len(b)
           \/ i > Len(a) /\ i <= Len(b)
    BY <2>1
  <2>3. ASSUME NEW j \in 1 .. i - 1
        PROVE  j <= Len(a) /\ j <= Len(b) /\ a[j] = b[j]
    <3>1. j \notin D /\ j \in Nat \ {0}
      BY <2>1, <2>2
    <3>2. j <= Len(a) \/ j <= Len(b)
      BY <2>2
    <3> QED BY <3>1, <3>2
  <2> HIDE DEF D
  <2>4. CASE i <= Len(a) /\ i <= Len(b) /\ a[i] # b[i]
    <3>1. a[i] \in Int /\ b[i] \in Int /\ i \in 1 .. Len(a) /\ i \in 1 .. Len(b)
      BY <2>2, <2>4
    <3>2. CASE a[i] < b[i]
      BY <2>3, <3>1, <3>2 DEF Less
    <3>3. CASE b[i] < a[i]
      BY <2>3, <3>1, <3>3 DEF Less
    <3> QED BY <2>4, <3>1, <3>2, <3>3
  <2>5. CASE i <= Len(a) /\ i > Len(b)
    <3>1. i \in 1 .. Len(a)
      BY <2>2, <2>5
    <3>2. ~(i <= Len(b))
      BY <2>2, <2>5
    <3>3. Less(b, a)
      BY <2>3, <3>1, <3>2 DEF Less
    <3> QED BY <3>3
  <2>6. CASE i > Len(a) /\ i <= Len(b)
    <3>1. i \in 1 .. Len(b)
      BY <2>2, <2>6
    <3>2. ~(i <= Len(a))
      BY <2>2, <2>6
    <3>3. Less(a, b)
      BY <2>3, <3>1, <3>2 DEF Less
    <3> QED BY <3>3
  <2> QED BY <2>2, <2>4, <2>5, <2>6
<1> QED BY <1>1, <1>2

-----------------------------------------------------------------------------
(* A sequence less one element.                                            *)
LEMMA RemoveAtIs ==
  ASSUME NEW U, NEW s \in Seq(U), NEW i \in 1 .. Len(s)
  PROVE  /\ RemoveAt(s, i) \in Seq(U) /\ Len(RemoveAt(s, i)) = Len(s) - 1
         /\ \A j \in 1 .. Len(s) - 1 : RemoveAt(s, i)[j] = IF j < i THEN s[j] ELSE s[j + 1]
<1> DEFINE a == SubSeq(s, 1, i - 1)
           b == SubSeq(s, i + 1, Len(s))
           t == a \o b
<1>1. Len(s) \in Nat /\ i \in 1 .. Len(s)
  OBVIOUS
<1>2. a \in Seq(U) /\ Len(a) = i - 1 /\ \A j \in 1 .. i - 1 : a[j] = s[j]
  BY <1>1
<1>3. b \in Seq(U) /\ Len(b) = Len(s) - i /\ \A j \in 1 .. Len(s) - i : b[j] = s[i + j]
  BY <1>1
<1>4. RemoveAt(s, i) = t
  BY DEF RemoveAt
<1> HIDE DEF a, b
<1>5. /\ t \in Seq(U) /\ Len(t) = Len(a) + Len(b)
      /\ \A j \in 1 .. Len(a) + Len(b) : t[j] = IF j <= Len(a) THEN a[j] ELSE b[j - Len(a)]
  <2>1. a \in Seq(U) /\ b \in Seq(U)
    BY <1>2, <1>3
  <2> QED BY <2>1, ConcatProperties, Zenon
<1> HIDE DEF t
<1>6. Len(t) = Len(s) - 1
  BY <1>1, <1>2, <1>3, <1>5
<1>7. ASSUME NEW j \in 1 .. Len(s) - 1
      PROVE  t[j] = IF j < i THEN s[j] ELSE s[j + 1]
  <2>1. t[j] = IF j <= i - 1 THEN a[j] ELSE b[j - (i - 1)]
    BY <1>1, <1>2, <1>3, <1>5
  <2>2. CASE j < i
    BY <1>1, <1>2, <2>1, <2>2
  <2>3. CASE ~(j < i)
    <3>1. j - (i - 1) \in 1 .. Len(s) - i /\ i + (j - (i - 1)) = j + 1
      BY <1>1, <2>3
    <3> QED BY <1>1, <1>3, <2>1, <2>3, <3>1
  <2> QED BY <2>2, <2>3
<1> QED BY <1>4, <1>5, <1>6, <1>7

(* A sequence with one element more.                                       *)
LEMMA InsertAtIs ==
  ASSUME NEW U, NEW s \in Seq(U), NEW i \in 1 .. Len(s) + 1, NEW e \in U
  PROVE  /\ InsertAt(s, i, e) \in Seq(U) /\ Len(InsertAt(s, i, e)) = Len(s) + 1
         /\ \A j \in 1 .. Len(s) + 1 : InsertAt(s, i, e)[j] =
              IF j < i THEN s[j] ELSE IF j = i THEN e ELSE s[j - 1]
<1> DEFINE a == SubSeq(s, 1, i - 1)
           b == SubSeq(s, i, Len(s))
           ae == a \o <<e>>
           t == ae \o b
<1>1. Len(s) \in Nat /\ i \in 1 .. Len(s) + 1
  OBVIOUS
<1>2. a \in Seq(U) /\ Len(a) = i - 1 /\ \A j \in 1 .. i - 1 : a[j] = s[j]
  BY <1>1
<1>3. b \in Seq(U) /\ Len(b) = Len(s) - i + 1 /\ \A j \in 1 .. Len(s) - i + 1 : b[j] = s[i + j - 1]
  BY <1>1
<1>4. InsertAt(s, i, e) = t
  BY DEF InsertAt
<1> HIDE DEF a, b
<1>5. ae \in Seq(U) /\ Len(ae) = i /\ ae[i] = e /\ \A j \in 1 .. i - 1 : ae[j] = s[j]
  BY <1>1, <1>2
<1> HIDE DEF ae
<1>6. /\ t \in Seq(U) /\ Len(t) = Len(ae) + Len(b)
      /\ \A j \in 1 .. Len(ae) + Len(b) : t[j] = IF j <= Len(ae) THEN ae[j] ELSE b[j - Len(ae)]
  <2>1. ae \in Seq(U) /\ b \in Seq(U)
    BY <1>3, <1>5
  <2> QED BY <2>1, ConcatProperties, Zenon
<1> HIDE DEF t
<1>7. Len(t) = Len(s) + 1
  BY <1>1, <1>3, <1>5, <1>6
<1>8. ASSUME NEW j \in 1 .. Len(s) + 1
      PROVE  t[j] = IF j < i THEN s[j] ELSE IF j = i THEN e ELSE s[j - 1]
  <2>1. t[j] = IF j <= i THEN ae[j] ELSE b[j - i]
    BY <1>1, <1>3, <1>5, <1>6
  <2>2. CASE j <= i
    BY <1>1, <1>5, <2>1, <2>2
  <2>3. CASE ~(j <= i)
    <3>1. j - i \in 1 .. Len(s) - i + 1 /\ i + (j - i) - 1 = j - 1
      BY <1>1, <2>3
    <3>2. b[j - i] = s[i + (j - i) - 1]
      BY <1>3, <3>1
    <3>3. t[j] = s[j - 1]
      BY <2>1, <2>3, <3>1, <3>2
    <3> QED BY <1>1, <2>3, <3>3
  <2> QED BY <2>2, <2>3
<1> QED BY <1>4, <1>6, <1>7, <1>8

(* A set of numbers that with each one holds those before it.              *)
LEMMA PrefixIsInterval ==
  ASSUME NEW n \in Nat, NEW T \in SUBSET (1 .. n), \A j \in T : \A k \in 1 .. j - 1 : k \in T
  PROVE  T = 1 .. Cardinality(T) /\ Cardinality(T) \in 0 .. n
<1> DEFINE D == {k \in 1 .. n + 1 : k \notin T}
           m == Least(D)
<1>1. m \in D /\ \A k \in D : m <= k
  <2>1. n + 1 \in D /\ D \in SUBSET Nat
    OBVIOUS
  <2> HIDE DEF D
  <2> QED BY <2>1, LeastProperties
<1> HIDE DEF m
<1>2. m \in 1 .. n + 1 /\ m \notin T
  BY <1>1
<1>3. ASSUME NEW k \in T
      PROVE  k \in 1 .. m - 1
  <2>1. k # m /\ ~(m < k)
    BY <1>2
  <2> QED BY <1>2, <2>1
<1>4. ASSUME NEW k \in 1 .. m - 1
      PROVE  k \in T
  <2>1. k \in 1 .. n + 1 /\ ~(m <= k)
    BY <1>2
  <2> QED BY <1>1, <2>1
<1>5. T = 1 .. m - 1
  BY <1>3, <1>4
<1>6. Cardinality(1 .. m - 1) = m - 1
  <2>1. 1 \in Int /\ m - 1 \in Int
    BY <1>2
  <2>2. Cardinality(1 .. m - 1) = IF 1 > m - 1 THEN 0 ELSE m - 1 - 1 + 1
    BY <2>1, FS_Interval
  <2> QED BY <1>2, <2>2
<1> QED BY <1>2, <1>5, <1>6

-----------------------------------------------------------------------------
(* The order of ops and of places.                                         *)

(* Ops are ordered by lamport and peer ...                                 *)
LEMMA EarlierOrders ==
  ASSUME NEW i \in Nat \X Nat, NEW j \in Nat \X Nat, NEW k \in Nat \X Nat
  PROVE  /\ ~Earlier(i, i)
         /\ i = j \/ Earlier(i, j) \/ Earlier(j, i)
         /\ Earlier(i, j) /\ Earlier(j, k) => Earlier(i, k)
<1>1. /\ i[1] \in Nat /\ i[2] \in Nat /\ i = <<i[1], i[2]>>
      /\ j[1] \in Nat /\ j[2] \in Nat /\ j = <<j[1], j[2]>>
      /\ k[1] \in Nat /\ k[2] \in Nat
  OBVIOUS
<1>2. i[1] = j[1] /\ i[2] = j[2] => i = j
  BY <1>1
<1> QED BY <1>1, <1>2 DEF Earlier

(* ... and so are the places they give, where no op gives two.             *)
Places == [parent : Parents, fi : Index \cup {Absent}, op : Nat \X Nat]

(* Before orders places whose ops differ.                                  *)
LEMMA BeforeOrders ==
  ASSUME NEW a \in Places, NEW b \in Places, NEW c \in Places
  PROVE  /\ ~Before(a, a)
         /\ a.op = b.op \/ Before(a, b) \/ Before(b, a)
         /\ Before(a, b) /\ Before(b, c) => Before(a, c)
<1>1. /\ a.fi \in Seq(Int) /\ b.fi \in Seq(Int) /\ c.fi \in Seq(Int)
      /\ a.op \in Nat \X Nat /\ b.op \in Nat \X Nat /\ c.op \in Nat \X Nat
  BY IndexType, EmptySeq DEF Places, Absent
<1>2. ~Less(a.fi, a.fi) /\ ~Earlier(a.op, a.op)
  BY <1>1, LessIrreflexive, EarlierOrders
<1>3. a.fi = b.fi \/ Less(a.fi, b.fi) \/ Less(b.fi, a.fi)
  BY <1>1, LessTotal
<1>4. a.op = b.op \/ Earlier(a.op, b.op) \/ Earlier(b.op, a.op)
  BY <1>1, EarlierOrders
<1>5. Less(a.fi, b.fi) /\ Less(b.fi, c.fi) => Less(a.fi, c.fi)
  BY <1>1, LessTransitive
<1>6. Earlier(a.op, b.op) /\ Earlier(b.op, c.op) => Earlier(a.op, c.op)
  BY <1>1, EarlierOrders
<1> QED BY <1>2, <1>3, <1>4, <1>5, <1>6 DEF Before

-----------------------------------------------------------------------------
(* Lists of children.                                                      *)

(* The places of nodes: each given by an op of its own.                    *)
Placed(nodes) ==
  /\ IsFiniteSet(DOMAIN nodes) /\ DOMAIN nodes \subseteq NodeIds
  /\ \A n \in DOMAIN nodes :
       /\ nodes[n] \in Places
       /\ nodes[n].parent # Deleted => nodes[n].fi \in Index
  /\ \A m \in DOMAIN nodes, n \in DOMAIN nodes : nodes[m].op = nodes[n].op => m = n

(* kids are the nodes of S, by index and then by op.                       *)
ChildList(nodes, S, kids) ==
  /\ kids \in Seq(S)
  /\ \A j \in 1 .. Len(kids) : \A k \in 1 .. j - 1 : Before(nodes[kids[k]], nodes[kids[j]])
  /\ \A n \in S : \E k \in 1 .. Len(kids) : kids[k] = n

(* The list of each parent is that of its children; deleted nodes are in   *)
(* none.                                                                   *)
Listed(nodes, children) ==
  /\ children = [p \in Parents |-> children[p]]
  /\ \A p \in Parents : IF p = Deleted THEN children[p] = <<>>
                        ELSE ChildList(nodes, Siblings(nodes, p), children[p])

(* Before as a set of pairs.                                               *)
PairsBefore(nodes, S) == {e \in S \X S : Before(nodes[e[1]], nodes[e[2]])}

(* ... and so the nodes that have them.                                    *)
LEMMA PairsBeforeOrders ==
  ASSUME NEW nodes, Placed(nodes), NEW S \in SUBSET DOMAIN nodes
  PROVE  Orders(PairsBefore(nodes, S), S) /\ IsFiniteSet(S)
<1>1. \A n \in S : nodes[n] \in Places
  BY DEF Placed
<1>2. \A a \in S, b \in S : <<a, b>> \in PairsBefore(nodes, S) <=> Before(nodes[a], nodes[b])
  BY DEF PairsBefore
<1>3. \A a \in S : <<a, a>> \notin PairsBefore(nodes, S)
  BY <1>1, <1>2, BeforeOrders
<1>4. ASSUME NEW a \in S, NEW b \in S
      PROVE  a = b \/ <<a, b>> \in PairsBefore(nodes, S) \/ <<b, a>> \in PairsBefore(nodes, S)
  <2>1. nodes[a].op = nodes[b].op => a = b
    BY DEF Placed
  <2> QED BY <1>1, <1>2, <2>1, BeforeOrders
<1>5. ASSUME NEW a \in S, NEW b \in S, NEW c \in S,
             <<a, b>> \in PairsBefore(nodes, S), <<b, c>> \in PairsBefore(nodes, S)
      PROVE  <<a, c>> \in PairsBefore(nodes, S)
  BY <1>1, <1>2, <1>5, BeforeOrders
<1>6. IsFiniteSet(S)
  BY FS_Subset DEF Placed
<1> QED BY <1>3, <1>4, <1>5, <1>6 DEF Orders

(* Each node is in the list once.                                          *)
LEMMA ChildOnce ==
  ASSUME NEW nodes, Placed(nodes), NEW S \in SUBSET DOMAIN nodes, NEW kids, ChildList(nodes, S, kids),
         NEW j \in 1 .. Len(kids), NEW k \in 1 .. Len(kids), kids[j] = kids[k]
  PROVE  j = k
<1>1. kids[j] \in S /\ nodes[kids[j]] \in Places
  BY DEF ChildList, Placed
<1>2. ~Before(nodes[kids[j]], nodes[kids[j]])
  BY <1>1, BeforeOrders
<1>3. j \in 1 .. k - 1 \/ k \in 1 .. j - 1 \/ j = k
  BY DEF ChildList
<1> QED BY <1>2, <1>3 DEF ChildList

(* A child list is the set of its nodes in order.                          *)
LEMMA ChildListInOrder ==
  ASSUME NEW nodes, Placed(nodes), NEW S \in SUBSET DOMAIN nodes, NEW kids
  PROVE  ChildList(nodes, S, kids) <=> InOrder(kids, S, PairsBefore(nodes, S))
<1> DEFINE R == PairsBefore(nodes, S)
<1>1. Orders(R, S) /\ IsFiniteSet(S) /\ Cardinality(S) \in Nat
  BY PairsBeforeOrders, FS_CardinalityType
<1>2. \A a \in S, b \in S : <<a, b>> \in R <=> Before(nodes[a], nodes[b])
  BY DEF PairsBefore
<1> HIDE DEF R
<1>3. ASSUME ChildList(nodes, S, kids)
      PROVE  InOrder(kids, S, R)
  <2>1. \A j \in 1 .. Len(kids) : \A k \in 1 .. j - 1 : <<kids[k], kids[j]>> \in R
    <3>1. \A j \in 1 .. Len(kids) : kids[j] \in S /\ \A k \in 1 .. j - 1 : kids[k] \in S
      BY <1>3 DEF ChildList
    <3> QED BY <1>2, <1>3, <3>1 DEF ChildList
  <2>2. kids \in Seq(S) /\ \A n \in S : \E k \in 1 .. Len(kids) : kids[k] = n
    BY <1>3 DEF ChildList
  <2> QED BY <1>1, <2>1, <2>2, ListIsInOrder
<1>4. ASSUME InOrder(kids, S, R)
      PROVE  ChildList(nodes, S, kids)
  <2>1. kids \in [1 .. Cardinality(S) -> S]
    BY <1>4 DEF InOrder
  <2>2. kids \in Seq(S) /\ Len(kids) = Cardinality(S)
    BY <1>1, <2>1
  <2>3. \A n \in S : \E k \in 1 .. Len(kids) : kids[k] = n
    BY <1>1, <1>4, <2>2, InOrderOnto
  <2>4. ASSUME NEW j \in 1 .. Len(kids), NEW k \in 1 .. j - 1
        PROVE  Before(nodes[kids[k]], nodes[kids[j]])
    <3>1. k \in 1 .. Len(kids) /\ kids[k] \in S /\ kids[j] \in S
      BY <2>2
    <3>2. <<kids[k], kids[j]>> \in R
      BY <1>4, <2>2 DEF InOrder
    <3> QED BY <1>2, <3>1, <3>2
  <2> QED BY <2>2, <2>3, <2>4 DEF ChildList
<1> QED BY <1>3, <1>4 DEF R

(* What a build sorts is the list of children ...                          *)
LEMMA SortedIsListed ==
  ASSUME NEW nodes, Placed(nodes)
  PROVE  Listed(nodes, SortedChildren(nodes))
<1>1. ASSUME NEW p \in Parents, p # Deleted
      PROVE  ChildList(nodes, Siblings(nodes, p), SortedChildren(nodes)[p])
  <2> DEFINE S == Siblings(nodes, p)
  <2>1. S \in SUBSET DOMAIN nodes
    BY DEF Siblings
  <2> HIDE DEF S
  <2>2. PICK s : InOrder(s, S, PairsBefore(nodes, S))
    BY <2>1, PairsBeforeOrders, InOrderExists
  <2>3. /\ s \in [1 .. Cardinality(S) -> S]
        /\ \A j \in DOMAIN s : \A k \in 1 .. j - 1 : Before(nodes[s[k]], nodes[s[j]])
    BY <2>2 DEF InOrder, PairsBefore
  <2>4. SortedChildren(nodes)[p] = Sorted(S, LAMBDA a, b : Before(nodes[a], nodes[b]))
    BY <1>1 DEF SortedChildren, S
  <2> DEFINE t == SortedChildren(nodes)[p]
  <2>5. /\ t \in [1 .. Cardinality(S) -> S]
        /\ \A j \in DOMAIN t : \A k \in 1 .. j - 1 : Before(nodes[t[k]], nodes[t[j]])
    BY <2>3, <2>4 DEF Sorted
  <2> HIDE DEF t
  <2>6. Cardinality(S) \in Nat
    BY <2>1, PairsBeforeOrders, FS_CardinalityType
  <2>7. \A j \in 1 .. Cardinality(S) : \A k \in 1 .. j - 1 : <<t[k], t[j]>> \in PairsBefore(nodes, S)
    <3>1. ASSUME NEW j \in 1 .. Cardinality(S), NEW k \in 1 .. j - 1
          PROVE  <<t[k], t[j]>> \in PairsBefore(nodes, S)
      <4>1. k \in 1 .. Cardinality(S) /\ t[k] \in S /\ t[j] \in S
        BY <2>5, <2>6
      <4> QED BY <2>5, <4>1 DEF PairsBefore
    <3> QED BY <3>1
  <2>8. InOrder(t, S, PairsBefore(nodes, S))
    BY <2>5, <2>7 DEF InOrder
  <2> QED BY <2>1, <2>8, ChildListInOrder DEF S, t
<1>2. SortedChildren(nodes)[Deleted] = <<>> /\ Deleted \in Parents
  BY DEF SortedChildren, Parents
<1>3. SortedChildren(nodes) = [p \in Parents |-> SortedChildren(nodes)[p]]
  BY DEF SortedChildren
<1> QED BY <1>1, <1>2, <1>3 DEF Listed

(* ... and there is only one.                                              *)
LEMMA ListedIsSorted ==
  ASSUME NEW nodes, Placed(nodes), NEW children, Listed(nodes, children)
  PROVE  children = SortedChildren(nodes)
<1>1. ASSUME NEW p \in Parents
      PROVE  children[p] = SortedChildren(nodes)[p]
  <2>1. CASE p = Deleted
    BY <2>1, SortedIsListed DEF Listed
  <2>2. CASE p # Deleted
    <3> DEFINE S == Siblings(nodes, p)
    <3>1. S \in SUBSET DOMAIN nodes
      BY DEF Siblings
    <3>2. ChildList(nodes, S, children[p]) /\ ChildList(nodes, S, SortedChildren(nodes)[p])
      BY <2>2, SortedIsListed DEF Listed
    <3> HIDE DEF S
    <3>3. /\ InOrder(children[p], S, PairsBefore(nodes, S))
          /\ InOrder(SortedChildren(nodes)[p], S, PairsBefore(nodes, S))
      BY <3>1, <3>2, ChildListInOrder
    <3> QED BY <3>1, <3>3, PairsBeforeOrders, InOrderUnique
  <2> QED BY <2>1, <2>2
<1>2. /\ children = [p \in Parents |-> children[p]]
      /\ SortedChildren(nodes) = [p \in Parents |-> SortedChildren(nodes)[p]]
  BY SortedIsListed DEF Listed
<1> QED BY <1>1, <1>2

-----------------------------------------------------------------------------
(* The upkeep of a list.                                                   *)

(* The children before a place are the first of the list.                  *)
LEMMA SlotIsPrefix ==
  ASSUME NEW nodes, Placed(nodes), NEW S \in SUBSET DOMAIN nodes, NEW kids, ChildList(nodes, S, kids),
         NEW place \in Places
  PROVE  /\ Slot(nodes, kids, place) \in 0 .. Len(kids)
         /\ \A k \in 1 .. Len(kids) : Before(nodes[kids[k]], place) <=> k <= Slot(nodes, kids, place)
<1> DEFINE n == Len(kids)
           T == {k \in 1 .. n : Before(nodes[kids[k]], place)}
<1>1. kids \in Seq(S) /\ n \in Nat /\ DOMAIN kids = 1 .. n
  BY DEF ChildList
<1>2. Slot(nodes, kids, place) = Cardinality(T)
  BY <1>1 DEF Slot
<1>3. ASSUME NEW j \in T, NEW k \in 1 .. j - 1
      PROVE  k \in T
  <2>1. j \in 1 .. n /\ k \in 1 .. n
    BY <1>1
  <2>2. nodes[kids[k]] \in Places /\ nodes[kids[j]] \in Places
    BY <1>1, <2>1 DEF Placed
  <2>3. Before(nodes[kids[k]], nodes[kids[j]]) /\ Before(nodes[kids[j]], place)
    BY <2>1 DEF ChildList
  <2>4. Before(nodes[kids[k]], place)
    BY <2>2, <2>3, BeforeOrders
  <2> QED BY <2>1, <2>4
<1>4. T \in SUBSET (1 .. n)
  OBVIOUS
<1>5. \A k \in 1 .. n : Before(nodes[kids[k]], place) <=> k \in T
  OBVIOUS
<1> HIDE DEF T, n
<1>6. T = 1 .. Cardinality(T) /\ Cardinality(T) \in 0 .. n
  BY <1>1, <1>3, <1>4, PrefixIsInterval
<1>7. \A k \in 1 .. n : k \in T <=> k <= Cardinality(T)
  BY <1>1, <1>6
<1> QED BY <1>2, <1>5, <1>6, <1>7 DEF n

(* A node in the list is found where it is.                                *)
LEMMA SlotOfChild ==
  ASSUME NEW nodes, Placed(nodes), NEW S \in SUBSET DOMAIN nodes, NEW kids, ChildList(nodes, S, kids),
         NEW i \in 1 .. Len(kids)
  PROVE  Slot(nodes, kids, nodes[kids[i]]) = i - 1
<1> DEFINE m == Slot(nodes, kids, nodes[kids[i]])
<1>1. kids[i] \in S /\ nodes[kids[i]] \in Places /\ Len(kids) \in Nat
  BY DEF ChildList, Placed
<1>2. /\ m \in 0 .. Len(kids)
      /\ \A k \in 1 .. Len(kids) : Before(nodes[kids[k]], nodes[kids[i]]) <=> k <= m
  BY <1>1, SlotIsPrefix
<1>3. ~(i <= m)
  BY <1>1, <1>2, BeforeOrders
<1>4. i > 1 => i - 1 <= m
  <2>1. ASSUME i > 1 PROVE i - 1 <= m
    <3>1. i - 1 \in 1 .. i - 1 /\ i - 1 \in 1 .. Len(kids)
      BY <1>1, <2>1
    <3>2. Before(nodes[kids[i - 1]], nodes[kids[i]])
      BY <3>1 DEF ChildList
    <3> QED BY <1>2, <3>1, <3>2
  <2> QED BY <2>1
<1> HIDE DEF m
<1>5. m = i - 1
  BY <1>1, <1>2, <1>3, <1>4
<1> QED BY <1>5 DEF m

(* A node is taken out ...                                                 *)
LEMMA ChildLeaves ==
  ASSUME NEW nodes, Placed(nodes), NEW S \in SUBSET DOMAIN nodes, NEW kids, ChildList(nodes, S, kids),
         NEW i \in 1 .. Len(kids)
  PROVE  ChildList(nodes, S \ {kids[i]}, RemoveAt(kids, i))
<1> DEFINE new == RemoveAt(kids, i)
           n == Len(kids)
<1>1. kids \in Seq(S) /\ n \in Nat
  BY DEF ChildList
<1>2. /\ new \in Seq(S) /\ Len(new) = n - 1
      /\ \A j \in 1 .. n - 1 : new[j] = IF j < i THEN kids[j] ELSE kids[j + 1]
  BY <1>1, RemoveAtIs
<1> HIDE DEF new
<1>3. ASSUME NEW j \in 1 .. n - 1
      PROVE  new[j] \in S \ {kids[i]}
  <2>1. new[j] = kids[IF j < i THEN j ELSE j + 1]
    BY <1>2
  <2>2. (IF j < i THEN j ELSE j + 1) \in 1 .. n /\ (IF j < i THEN j ELSE j + 1) # i
    BY <1>1
  <2> QED BY <1>2, <2>1, <2>2, ChildOnce
<1>4. new \in Seq(S \ {kids[i]})
  BY <1>1, <1>2, <1>3
<1>5. ASSUME NEW j \in 1 .. n - 1, NEW k \in 1 .. j - 1
      PROVE  Before(nodes[new[k]], nodes[new[j]])
  <2>1. k \in 1 .. n - 1
    BY <1>1
  <2>2. new[j] = kids[IF j < i THEN j ELSE j + 1] /\ new[k] = kids[IF k < i THEN k ELSE k + 1]
    BY <1>2, <2>1
  <2>3. /\ (IF j < i THEN j ELSE j + 1) \in 1 .. n
        /\ (IF k < i THEN k ELSE k + 1) \in 1 .. (IF j < i THEN j ELSE j + 1) - 1
    BY <1>1, <2>1
  <2> QED BY <2>2, <2>3 DEF ChildList
<1>6. ASSUME NEW x \in S \ {kids[i]}
      PROVE  \E k \in 1 .. n - 1 : new[k] = x
  <2>1. PICK j \in 1 .. n : kids[j] = x
    BY DEF ChildList
  <2>2. j # i
    BY <2>1
  <2>3. CASE j < i
    <3>1. j \in 1 .. n - 1 /\ new[j] = x
      BY <1>1, <1>2, <2>1, <2>3
    <3> QED BY <3>1
  <2>4. CASE j > i
    <3>1. j - 1 \in 1 .. n - 1 /\ new[j - 1] = kids[j - 1 + 1] /\ j - 1 + 1 = j
      BY <1>1, <1>2, <2>4
    <3> QED BY <2>1, <3>1
  <2> QED BY <1>1, <2>2, <2>3, <2>4
<1> QED BY <1>2, <1>4, <1>5, <1>6 DEF ChildList, new

(* ... and put in.                                                         *)
LEMMA ChildJoins ==
  ASSUME NEW nodes, Placed(nodes), NEW S \in SUBSET DOMAIN nodes, NEW kids, ChildList(nodes, S, kids),
         NEW node \in DOMAIN nodes, node \notin S
  PROVE  ChildList(nodes, S \cup {node}, InsertAt(kids, Slot(nodes, kids, nodes[node]) + 1, node))
<1> DEFINE i == Slot(nodes, kids, nodes[node]) + 1
           new == InsertAt(kids, i, node)
           n == Len(kids)
           at(j) == IF j < i THEN j ELSE j - 1
<1>1. kids \in Seq(S) /\ n \in Nat /\ nodes[node] \in Places /\ \A k \in 1 .. n : kids[k] \in S
  BY DEF ChildList, Placed
<1>2. i \in 1 .. n + 1 /\ \A k \in 1 .. n : Before(nodes[kids[k]], nodes[node]) <=> k < i
  <2> DEFINE m == Slot(nodes, kids, nodes[node])
  <2>1. m \in 0 .. n /\ \A k \in 1 .. n : Before(nodes[kids[k]], nodes[node]) <=> k <= m
    BY <1>1, SlotIsPrefix
  <2> HIDE DEF m
  <2>2. m + 1 \in 1 .. n + 1 /\ \A k \in 1 .. n : k <= m <=> k < m + 1
    BY <1>1, <2>1
  <2> QED BY <2>1, <2>2 DEF m
<1> HIDE DEF i
<1>3. /\ new \in Seq(S \cup {node}) /\ Len(new) = n + 1
      /\ \A j \in 1 .. n + 1 : new[j] = IF j < i THEN kids[j] ELSE IF j = i THEN node ELSE kids[j - 1]
  <2>1. kids \in Seq(S \cup {node}) /\ node \in S \cup {node}
    BY <1>1
  <2> QED BY <1>2, <2>1, InsertAtIs
<1> HIDE DEF new
<1>4. \A k \in 1 .. n : k >= i => Before(nodes[node], nodes[kids[k]])
  <2>1. ASSUME NEW k \in 1 .. n, k >= i
        PROVE  Before(nodes[node], nodes[kids[k]])
    <3>1. kids[k] \in S /\ kids[k] # node /\ ~Before(nodes[kids[k]], nodes[node])
      BY <1>1, <1>2, <2>1
    <3>2. nodes[kids[k]] \in Places /\ nodes[kids[k]].op # nodes[node].op
      BY <3>1 DEF Placed
    <3> QED BY <1>1, <3>1, <3>2, BeforeOrders
  <2> QED BY <2>1
<1>5. ASSUME NEW j \in 1 .. n + 1, NEW k \in 1 .. j - 1
      PROVE  Before(nodes[new[k]], nodes[new[j]])
  <2>1. k \in 1 .. n + 1 /\ k < j
    BY <1>1
  <2>2. CASE j = i
    <3>1. new[j] = node /\ new[k] = kids[k] /\ k \in 1 .. n /\ k < i
      BY <1>1, <1>2, <1>3, <2>1, <2>2
    <3> QED BY <1>2, <3>1
  <2>3. CASE k = i
    <3>1. new[k] = node /\ new[j] = kids[j - 1] /\ j - 1 \in 1 .. n /\ j - 1 >= i
      BY <1>1, <1>2, <1>3, <2>1, <2>3
    <3> QED BY <1>4, <3>1
  <2>4. CASE j # i /\ k # i
    <3>1. new[j] = kids[at(j)] /\ new[k] = kids[at(k)]
      BY <1>3, <2>1, <2>4
    <3>2. at(j) \in 1 .. n /\ at(k) \in 1 .. at(j) - 1
      BY <1>1, <1>2, <2>1, <2>4
    <3> QED BY <3>1, <3>2 DEF ChildList
  <2> QED BY <2>2, <2>3, <2>4
<1>6. ASSUME NEW x \in S \cup {node}
      PROVE  \E k \in 1 .. n + 1 : new[k] = x
  <2>1. CASE x = node
    BY <1>2, <1>3, <2>1
  <2>2. CASE x \in S
    <3>1. PICK j \in 1 .. n : kids[j] = x
      BY <2>2 DEF ChildList
    <3>2. CASE j < i
      <4>1. j \in 1 .. n + 1 /\ new[j] = x
        BY <1>1, <1>3, <3>1, <3>2
      <4> QED BY <4>1
    <3>3. CASE j >= i
      <4>1. j + 1 \in 1 .. n + 1 /\ ~(j + 1 < i) /\ j + 1 # i /\ j + 1 - 1 = j
        BY <1>1, <1>2, <3>3
      <4> QED BY <1>3, <3>1, <4>1
    <3> QED BY <1>1, <1>2, <3>2, <3>3
  <2> QED BY <2>1, <2>2
<1>7. new \in Seq(S \cup {node}) /\ Len(new) = n + 1
  BY <1>3
<1> QED BY <1>5, <1>6, <1>7 DEF ChildList, new, i

-----------------------------------------------------------------------------
(* Forests.                                                                *)

(* An index as far as its nodes and counts go.                             *)
IndexOK(ix) ==
  /\ ix \in [built : {ix.built}, nodes : {ix.nodes}, count : {ix.count},
             children : {ix.children}]
  /\ IsFiniteSet(DOMAIN ix.nodes)
  /\ DOMAIN ix.nodes \subseteq NodeIds
  /\ \A n \in DOMAIN ix.nodes : ix.nodes[n].parent \in Parents
  /\ ix.count \in [Parents -> Int]
  /\ Forest(ix.nodes)
  /\ Counted(ix)

TreeOp(op) == op.node \in NodeIds /\ op.parent \in Parents

(* TreeRoot and deletedTreeRoot are no nodes.                              *)
LEMMA RootsAreNoNodes == Root \notin NodeIds /\ Deleted \notin NodeIds
BY DEF Root, Deleted, NodeIds

(* A node without children is above no other node: the childCount          *)
(* shortcut of the search for ancestors never skips one that is.           *)
LEMMA ShortcutSound ==
  ASSUME NEW ix, IndexOK(ix), NEW op, TreeOp(op), op.parent \notin {Root, Deleted},
         op.parent # op.node, ~(ix.count[op.node] > 0)
  PROVE  ~IsAncestor(ix.nodes, op.node, op.parent)
<1> DEFINE nodes == ix.nodes
           S == DOMAIN nodes \ {op.node}
<1>1. op.node \in Parents /\ IsFiniteSet(Siblings(nodes, op.node))
  BY FS_Subset DEF IndexOK, Siblings, TreeOp, Parents
<1>2. Siblings(nodes, op.node) = {}
  <2>1. Cardinality(Siblings(nodes, op.node)) \in Nat
    BY <1>1, FS_CardinalityType
  <2>2. ix.count[op.node] = Cardinality(Siblings(nodes, op.node))
    BY <1>1 DEF IndexOK, Counted
  <2>3. Cardinality(Siblings(nodes, op.node)) = 0
    BY <2>1, <2>2
  <2> QED BY <1>1, <2>3, FS_EmptySet
<1>3. UpClosed(nodes, S)
  BY <1>2 DEF UpClosed, Siblings
<1>4. CASE op.parent \notin DOMAIN nodes
  BY <1>4 DEF IsAncestor
<1>5. CASE op.parent \in DOMAIN nodes
  <2>1. S \in SUBSET DOMAIN nodes /\ op.parent \in S
    BY <1>5
  <2>2. \A n \in S : op.node # n /\ op.node # nodes[n].parent
    BY <1>2 DEF Siblings
  <2> QED BY <1>3, <2>1, <2>2 DEF IsAncestor
<1> QED BY <1>4, <1>5

(* A move that closes no cycle keeps a forest a forest: within the nodes   *)
(* above the new parent nothing has changed.                               *)
LEMMA MoveKeepsForest ==
  ASSUME NEW nodes, Forest(nodes), NEW n \in NodeIds, NEW place,
         DOMAIN nodes \subseteq NodeIds,
         \/ place.parent \notin NodeIds
         \/ ~IsAncestor(nodes, n, place.parent)
  PROVE  Forest(WithPlace(nodes, n, place))
<1> DEFINE new == WithPlace(nodes, n, place)
           p == place.parent
<1>1. /\ DOMAIN new = DOMAIN nodes \cup {n}
      /\ new[n] = place
      /\ \A m \in DOMAIN nodes \ {n} : new[m] = nodes[m]
  BY DEF WithPlace
<1> SUFFICES ASSUME NEW S \in (SUBSET DOMAIN new) \ {{}},
                    \A m \in S : new[m].parent \in S
             PROVE  FALSE
  BY DEF Forest
<1>2. n \in S
  <2>1. SUFFICES ASSUME n \notin S PROVE FALSE
    OBVIOUS
  <2>2. S \in (SUBSET DOMAIN nodes) \ {{}} /\ \A m \in S : nodes[m].parent \in S
    BY <1>1, <2>1
  <2> QED BY <2>2 DEF Forest
<1>3. p \in S /\ p \in DOMAIN new
  BY <1>1, <1>2
<1>4. ~IsAncestor(nodes, n, p) /\ p # n /\ p \in DOMAIN nodes
  <2>1. p \in NodeIds
    BY <1>1, <1>3
  <2>2. ~IsAncestor(nodes, n, p)
    BY <2>1
  <2> QED BY <1>1, <1>3, <2>2 DEF IsAncestor
<1>5. PICK A \in SUBSET DOMAIN nodes :
        p \in A /\ UpClosed(nodes, A) /\ \A m \in A : n # m /\ n # nodes[m].parent
  BY <1>4 DEF IsAncestor
<1>6. S \cap A \in (SUBSET DOMAIN nodes) \ {{}}
  BY <1>3, <1>5
<1>7. ASSUME NEW m \in S \cap A
      PROVE  nodes[m].parent \in S \cap A
  <2>1. new[m] = nodes[m] /\ nodes[m].parent # n
    BY <1>1, <1>5
  <2>2. nodes[m].parent \in S /\ nodes[m].parent \in DOMAIN nodes
    BY <1>1, <2>1
  <2> QED BY <1>5, <2>2 DEF UpClosed
<1> QED BY <1>6, <1>7 DEF Forest
(* The children of a parent once a node has moved.                         *)
LEMMA SiblingsAfterMove ==
  ASSUME NEW nodes, NEW n, NEW place, NEW p
  PROVE  Siblings(WithPlace(nodes, n, place), p) =
           IF p = place.parent THEN Siblings(nodes, p) \cup {n} ELSE Siblings(nodes, p) \ {n}
BY DEF Siblings, WithPlace

(* A move recounts exactly the old and the new parent of its node.         *)
LEMMA MoveKeepsCounts ==
  ASSUME NEW ix, IndexOK(ix), NEW op, TreeOp(op), NEW place, place.parent = op.parent
  PROVE  /\ Recount(ix, op) \in [Parents -> Int]
         /\ \A p \in Parents :
              Recount(ix, op)[p] = Cardinality(Siblings(WithPlace(ix.nodes, op.node, place), p))
<1> DEFINE n == op.node
           S(p) == Siblings(ix.nodes, p)
           T(p) == Siblings(WithPlace(ix.nodes, n, place), p)
<1>1. ix.count \in [Parents -> Int] /\ op.parent \in Parents
  BY DEF IndexOK, TreeOp
<1>2. \A m \in DOMAIN ix.nodes : ix.nodes[m].parent \in Parents
  BY DEF IndexOK
<1>3. Recount(ix, op) \in [Parents -> Int]
  BY <1>1, <1>2 DEF Recount
<1>4. ASSUME NEW p \in Parents
      PROVE  Recount(ix, op)[p] = Cardinality(T(p))
  <2>1. T(p) = IF p = op.parent THEN S(p) \cup {n} ELSE S(p) \ {n}
    BY SiblingsAfterMove
  <2>2. IsFiniteSet(S(p))
    BY FS_Subset DEF IndexOK, Siblings
  <2>3. ix.count[p] = Cardinality(S(p)) /\ Cardinality(S(p)) \in Nat
    BY <2>2, FS_CardinalityType DEF IndexOK, Counted
  <2>4. n \in S(p) <=> n \in DOMAIN ix.nodes /\ ix.nodes[n].parent = p
    BY DEF Siblings
  <2>5. Cardinality(T(p)) = IF p = op.parent
                            THEN IF n \in S(p) THEN ix.count[p] ELSE ix.count[p] + 1
                            ELSE IF n \in S(p) THEN ix.count[p] - 1 ELSE ix.count[p]
    <3>1. Cardinality(S(p) \cup {n}) = IF n \in S(p) THEN Cardinality(S(p)) ELSE Cardinality(S(p)) + 1
      BY <2>2, FS_AddElement
    <3>2. Cardinality(S(p) \ {n}) = IF n \in S(p) THEN Cardinality(S(p)) - 1 ELSE Cardinality(S(p))
      BY <2>2, FS_RemoveElement
    <3> QED BY <2>1, <2>3, <3>1, <3>2
  <2> HIDE DEF S, T
  <2>6. Recount(ix, op)[p] = IF p = op.parent
                             THEN IF n \in S(p) THEN ix.count[p] ELSE ix.count[p] + 1
                             ELSE IF n \in S(p) THEN ix.count[p] - 1 ELSE ix.count[p]
    <3>1. CASE n \in DOMAIN ix.nodes
      BY <1>1, <1>2, <2>4, <3>1 DEF Recount
    <3>2. CASE n \notin DOMAIN ix.nodes
      BY <1>1, <2>4, <3>2 DEF Recount
    <3> QED BY <3>1, <3>2
  <2> QED BY <2>5, <2>6
<1> QED BY <1>3, <1>4

(* Whatever op is replayed on an index, the index stays a forest with      *)
(* exact counts: skipping the moves ClosesCycle finds, with its childCount *)
(* shortcut, is enough at every moment of a build (docState.tree) ...      *)
THEOREM ReplayKeepsForest ==
  ASSUME NEW ix, IndexOK(ix), NEW op, TreeOp(op), NEW i
  PROVE  IndexOK(Replaced(ix, i, op))
<1> DEFINE place == PlaceOf(i, op)
           nodes == WithPlace(ix.nodes, op.node, place)
           new == [ix EXCEPT !.nodes = nodes, !.count = Recount(ix, op)]
<1>1. CASE ClosesCycle(ix, op)
  BY <1>1 DEF Replaced
<1>2. CASE ~ClosesCycle(ix, op)
  <2>1. place.parent = op.parent
    BY DEF PlaceOf
  <2>2. Replaced(ix, i, op) = new
    BY <1>2 DEF Replaced
  <2>3. op.parent \notin NodeIds \/ ~IsAncestor(ix.nodes, op.node, op.parent)
    BY <1>2, RootsAreNoNodes, ShortcutSound DEF ClosesCycle
  <2>4. Forest(nodes)
    BY <2>1, <2>3, MoveKeepsForest DEF IndexOK, TreeOp
  <2>5. /\ Recount(ix, op) \in [Parents -> Int]
        /\ \A p \in Parents : Recount(ix, op)[p] = Cardinality(Siblings(nodes, p))
    BY <2>1, MoveKeepsCounts
  <2>6. /\ DOMAIN nodes = DOMAIN ix.nodes \cup {op.node}
        /\ \A n \in DOMAIN nodes : nodes[n].parent \in Parents
    BY <2>1 DEF WithPlace, IndexOK, TreeOp
  <2>7. IsFiniteSet(DOMAIN nodes) /\ DOMAIN nodes \subseteq NodeIds
    BY <2>6, FS_AddElement DEF IndexOK, TreeOp
  <2> HIDE DEF nodes
  <2>8. /\ new \in [built : {new.built}, nodes : {new.nodes}, count : {new.count},
                    children : {new.children}]
        /\ new.nodes = nodes /\ new.count = Recount(ix, op)
    BY DEF IndexOK
  <2> QED BY <2>2, <2>4, <2>5, <2>6, <2>7, <2>8 DEF IndexOK, Counted
<1> QED BY <1>1, <1>2

(* ... and after every local op, which moves nodes the same way            *)
(* (treeIndex.applyLocal).                                                 *)
THEOREM EditKeepsForest ==
  ASSUME NEW ix, IndexOK(ix), NEW op, TreeOp(op), NEW i
  PROVE  IndexOK(Applied(ix, i, op))
<1> DEFINE r == Replaced(ix, i, op)
           kids == Linked(r.nodes, Unlinked(ix, op.node), op.node, PlaceOf(i, op))
<1>1. IndexOK(r)
  BY ReplayKeepsForest
<1>2. CASE ClosesCycle(ix, op)
  BY <1>2 DEF Applied
<1>3. CASE ~ClosesCycle(ix, op)
  <2>1. Applied(ix, i, op) = [r EXCEPT !.children = kids]
    BY <1>3 DEF Applied
  <2> HIDE DEF r, kids
  <2> QED BY <1>1, <2>1 DEF IndexOK, Counted
<1> QED BY <1>2, <1>3

(* The empty index a build starts from is such a forest.                   *)
LEMMA EmptyIsForest == IndexOK(EmptyIndex)
<1>1. IsFiniteSet({}) /\ Cardinality({}) = 0
  BY FS_EmptySet
<1> QED BY <1>1 DEF IndexOK, EmptyIndex, Forest, Counted, Siblings

-----------------------------------------------------------------------------
(* An op as peers make them: a place among siblings has an index.          *)
OpOK(op) ==
  /\ TreeOp(op)
  /\ IF op.parent = Deleted THEN op.fi = Absent ELSE op.fi \in Index

(* The place an op gives, by its (lamport, peer).                          *)
LEMMA PlaceOfIs ==
  ASSUME NEW i \in Nat \X Nat, NEW op, OpOK(op)
  PROVE  /\ PlaceOf(i, op) \in Places /\ PlaceOf(i, op).op = i
         /\ PlaceOf(i, op).parent = op.parent /\ PlaceOf(i, op).fi = op.fi
         /\ PlaceOf(i, op).parent # Deleted => PlaceOf(i, op).fi \in Index
BY DEF PlaceOf, Places, OpOK, TreeOp

(* A node placed by an op of its own leaves each place its own op.         *)
LEMMA MoveKeepsPlaced ==
  ASSUME NEW nodes, Placed(nodes), NEW n \in NodeIds, NEW place \in Places,
         place.parent # Deleted => place.fi \in Index,
         \A m \in DOMAIN nodes : nodes[m].op # place.op
  PROVE  Placed(WithPlace(nodes, n, place))
<1> DEFINE new == WithPlace(nodes, n, place)
<1>1. /\ DOMAIN new = DOMAIN nodes \cup {n} /\ new[n] = place
      /\ \A m \in DOMAIN nodes \ {n} : new[m] = nodes[m]
  BY DEF WithPlace
<1>2. IsFiniteSet(DOMAIN new) /\ DOMAIN new \subseteq NodeIds
  BY <1>1, FS_AddElement DEF Placed
<1> HIDE DEF new
<1> QED BY <1>1, <1>2 DEF Placed, new

(* A list without the node that moves stays as it is.                      *)
LEMMA MoveKeepsChildList ==
  ASSUME NEW nodes, NEW S \in SUBSET DOMAIN nodes, NEW kids, ChildList(nodes, S, kids),
         NEW n, n \notin S, NEW place
  PROVE  ChildList(WithPlace(nodes, n, place), S, kids)
<1>1. \A m \in S : WithPlace(nodes, n, place)[m] = nodes[m]
  BY DEF WithPlace
<1>2. kids \in Seq(S) /\ \A j \in 1 .. Len(kids) : kids[j] \in S
  BY DEF ChildList
<1>3. \A j \in 1 .. Len(kids) : \A k \in 1 .. j - 1 : kids[k] \in S
  BY <1>2
<1> QED BY <1>1, <1>2, <1>3 DEF ChildList

(* The lists once a node is out of them (treeIndex.unlink).                *)
LEMMA UnlinkedIs ==
  ASSUME NEW ix, Placed(ix.nodes), Listed(ix.nodes, ix.children), NEW node
  PROVE  /\ Unlinked(ix, node) = [p \in Parents |-> Unlinked(ix, node)[p]]
         /\ \A p \in Parents :
              IF p = Deleted THEN Unlinked(ix, node)[p] = <<>>
              ELSE ChildList(ix.nodes, Siblings(ix.nodes, p) \ {node}, Unlinked(ix, node)[p])
<1> DEFINE nodes == ix.nodes
           U == Unlinked(ix, node)
           q == nodes[node].parent
           kids == ix.children[q]
           i == Slot(nodes, kids, nodes[node]) + 1
<1>1. /\ ix.children = [p \in Parents |-> ix.children[p]]
      /\ \A p \in Parents : IF p = Deleted THEN ix.children[p] = <<>>
                            ELSE ChildList(nodes, Siblings(nodes, p), ix.children[p])
  BY DEF Listed
<1>2. CASE node \notin DOMAIN nodes \/ q = Deleted
  <2>1. U = ix.children
    BY <1>2 DEF Unlinked
  <2>2. \A p \in Parents : p # Deleted => Siblings(nodes, p) \ {node} = Siblings(nodes, p)
    BY <1>2 DEF Siblings
  <2> HIDE DEF U
  <2>3. \A p \in Parents : IF p = Deleted THEN U[p] = <<>>
                           ELSE ChildList(nodes, Siblings(nodes, p) \ {node}, U[p])
    BY <1>1, <2>1, <2>2
  <2> QED BY <1>1, <2>1, <2>3 DEF U
<1>3. CASE node \in DOMAIN nodes /\ q # Deleted
  <2>1. q \in Parents /\ node \in Siblings(nodes, q)
    BY <1>3 DEF Placed, Places, Siblings
  <2>2. ChildList(nodes, Siblings(nodes, q), kids) /\ Siblings(nodes, q) \in SUBSET DOMAIN nodes
    BY <1>1, <1>3, <2>1 DEF Siblings
  <2>3. PICK k \in 1 .. Len(kids) : kids[k] = node
    BY <2>1, <2>2 DEF ChildList
  <2>4. i = k
    <3>1. Slot(nodes, kids, nodes[kids[k]]) = k - 1
      BY <2>2, SlotOfChild
    <3>2. k - 1 + 1 = k
      OBVIOUS
    <3> QED BY <2>3, <3>1, <3>2
  <2>5. DOMAIN kids = 1 .. Len(kids)
    <3>1. kids \in Seq(Siblings(nodes, q))
      BY <2>2 DEF ChildList
    <3> HIDE DEF kids
    <3> QED BY <3>1
  <2>6. U = [ix.children EXCEPT ![q] = RemoveAt(kids, k)]
    <3>1. i \in DOMAIN kids /\ kids[i] = node
      BY <2>3, <2>4, <2>5
    <3>2. U = [ix.children EXCEPT ![q] = RemoveAt(kids, i)]
      BY <1>3, <3>1 DEF Unlinked
    <3> HIDE DEF U, kids, i
    <3> QED BY <2>4, <3>2
  <2>7. ChildList(nodes, Siblings(nodes, q) \ {node}, RemoveAt(kids, k))
    BY <2>2, <2>3, ChildLeaves
  <2> HIDE DEF U, kids, i
  <2>8. U = [p \in Parents |-> U[p]] /\ U[q] = RemoveAt(kids, k)
        /\ \A p \in Parents \ {q} : U[p] = ix.children[p]
    BY <1>1, <2>1, <2>6
  <2>9. \A p \in Parents \ {q} : Siblings(nodes, p) \ {node} = Siblings(nodes, p)
    BY DEF Siblings
  <2>10. ASSUME NEW p \in Parents
         PROVE  IF p = Deleted THEN U[p] = <<>>
                ELSE ChildList(nodes, Siblings(nodes, p) \ {node}, U[p])
    <3>1. CASE p = q
      BY <1>3, <2>7, <2>8, <3>1
    <3>2. CASE p # q
      BY <1>1, <2>8, <2>9, <3>2
    <3> QED BY <3>1, <3>2
  <2> QED BY <2>8, <2>10 DEF U
<1> QED BY <1>2, <1>3

(* A local op leaves every parent's list that of its children, and places  *)
(* the nodes as a replay does (treeIndex.applyLocal).                      *)
THEOREM EditKeepsLists ==
  ASSUME NEW ix, IndexOK(ix), Placed(ix.nodes), Listed(ix.nodes, ix.children),
         NEW op, OpOK(op), NEW i \in Nat \X Nat, \A m \in DOMAIN ix.nodes : ix.nodes[m].op # i
  PROVE  /\ Applied(ix, i, op).nodes = Replaced(ix, i, op).nodes
         /\ Applied(ix, i, op).count = Replaced(ix, i, op).count
         /\ Applied(ix, i, op).built = ix.built
         /\ Listed(Applied(ix, i, op).nodes, Applied(ix, i, op).children)
<1> DEFINE node == op.node
           place == PlaceOf(i, op)
           q == op.parent
           new == WithPlace(ix.nodes, node, place)
           U == Unlinked(ix, node)
           r == Replaced(ix, i, op)
           L == Linked(r.nodes, U, node, place)
<1>1. CASE ClosesCycle(ix, op)
  BY <1>1 DEF Applied, Replaced
<1>2. CASE ~ClosesCycle(ix, op)
  <2>1. r.nodes = new /\ r.built = ix.built /\ r = [r EXCEPT !.nodes = r.nodes]
        /\ DOMAIN r = {"built", "nodes", "count", "children"}
    BY <1>2 DEF Replaced, IndexOK
  <2>2. Applied(ix, i, op) = [r EXCEPT !.children = L]
    BY <1>2 DEF Applied
  <2>3. /\ Applied(ix, i, op).nodes = r.nodes /\ Applied(ix, i, op).count = r.count
        /\ Applied(ix, i, op).built = ix.built /\ Applied(ix, i, op).children = L
    <3> HIDE DEF r, L
    <3> QED BY <2>1, <2>2
  <2>4. node \in NodeIds /\ q \in Parents /\ place \in Places /\ place.parent = q /\ place.op = i
        /\ (place.parent # Deleted => place.fi \in Index)
    BY PlaceOfIs DEF OpOK, TreeOp
  <2>5. Placed(new)
    <3> HIDE DEF place
    <3> QED BY <2>4, MoveKeepsPlaced
  <2>6. new[node] = place /\ node \in DOMAIN new
    BY DEF WithPlace
  <2>7. /\ U = [p \in Parents |-> U[p]]
        /\ \A p \in Parents : IF p = Deleted THEN U[p] = <<>>
                              ELSE ChildList(ix.nodes, Siblings(ix.nodes, p) \ {node}, U[p])
    BY UnlinkedIs
  <2> HIDE DEF U, place
  <2>8. ASSUME NEW p \in Parents, p # Deleted
        PROVE  ChildList(new, Siblings(ix.nodes, p) \ {node}, U[p])
    <3> DEFINE S == Siblings(ix.nodes, p) \ {node}
    <3>1. S \in SUBSET DOMAIN ix.nodes /\ node \notin S
      BY DEF Siblings
    <3>2. ChildList(ix.nodes, S, U[p])
      BY <2>7, <2>8
    <3> HIDE DEF S
    <3>3. ChildList(WithPlace(ix.nodes, node, place), S, U[p])
      BY <3>1, <3>2, MoveKeepsChildList
    <3> QED BY <3>3 DEF S
  <2>9. ASSUME NEW p
        PROVE  Siblings(new, p) = IF p = q THEN (Siblings(ix.nodes, p) \ {node}) \cup {node}
                                  ELSE Siblings(ix.nodes, p) \ {node}
    <3>1. Siblings(new, p) = IF p = place.parent THEN Siblings(ix.nodes, p) \cup {node}
                             ELSE Siblings(ix.nodes, p) \ {node}
      BY DEF Siblings, WithPlace
    <3> HIDE DEF new
    <3>2. Siblings(ix.nodes, q) \cup {node} = (Siblings(ix.nodes, q) \ {node}) \cup {node}
      OBVIOUS
    <3> QED BY <2>4, <3>1, <3>2
  <2> HIDE DEF new
  <2>10. Listed(new, L)
    <3>1. CASE q = Deleted
      <4>1. L = U
        BY <2>4, <3>1 DEF Linked
      <4>2. \A p \in Parents : p # Deleted => Siblings(new, p) = Siblings(ix.nodes, p) \ {node}
        BY <2>9, <3>1
      <4>3. \A p \in Parents : IF p = Deleted THEN U[p] = <<>>
                               ELSE ChildList(new, Siblings(new, p), U[p])
        BY <2>7, <2>8, <4>2
      <4> QED BY <2>7, <4>1, <4>3 DEF Listed
    <3>2. CASE q # Deleted
      <4> DEFINE S == Siblings(ix.nodes, q) \ {node}
                 kids == InsertAt(U[q], Slot(new, U[q], place) + 1, node)
      <4>1. L = [U EXCEPT ![q] = kids]
        <5>1. r.nodes = new /\ place.parent = q /\ q # Deleted
          BY <2>1, <2>4, <3>2
        <5> HIDE DEF r
        <5> QED BY <5>1 DEF Linked
      <4>2. S \in SUBSET DOMAIN new /\ node \notin S
        BY DEF Siblings, new, WithPlace
      <4>3. ChildList(new, S, U[q])
        BY <2>4, <2>8, <3>2
      <4>4. Siblings(new, q) = S \cup {node}
        BY <2>9
      <4> HIDE DEF S
      <4>5. ChildList(new, S \cup {node}, kids)
        BY <2>5, <2>6, <4>2, <4>3, ChildJoins
      <4> HIDE DEF kids
      <4>6. /\ L = [p \in Parents |-> L[p]] /\ L[q] = kids
            /\ \A p \in Parents \ {q} : L[p] = U[p]
        <5> HIDE DEF L
        <5> QED BY <2>4, <2>7, <4>1
      <4>7. ASSUME NEW p \in Parents
            PROVE  IF p = Deleted THEN L[p] = <<>> ELSE ChildList(new, Siblings(new, p), L[p])
        <5> HIDE DEF L
        <5>1. CASE p = q
          BY <3>2, <4>4, <4>5, <4>6, <5>1
        <5>2. CASE p # q
          <6>1. L[p] = U[p] /\ Siblings(new, p) = Siblings(ix.nodes, p) \ {node}
            BY <2>9, <4>6, <5>2
          <6>2. p = Deleted => U[p] = <<>>
            BY <2>7
          <6>3. p # Deleted => ChildList(new, Siblings(new, p), U[p])
            BY <2>8, <6>1
          <6> QED BY <6>1, <6>2, <6>3
        <5> QED BY <5>1, <5>2
      <4> HIDE DEF L
      <4> QED BY <4>6, <4>7 DEF Listed
    <3> QED BY <3>1, <3>2
  <2> HIDE DEF L, r
  <2> QED BY <2>1, <2>3, <2>10 DEF r
<1> QED BY <1>1, <1>2

-----------------------------------------------------------------------------
(* What an edit of several ops comes to.                                   *)

(* A node is taken out of a list it is in once.                            *)
LEMMA RemoveFirstIs ==
  ASSUME NEW nodes, Placed(nodes), NEW S \in SUBSET DOMAIN nodes, NEW kids, ChildList(nodes, S, kids),
         NEW node
  PROVE  /\ ChildList(nodes, S \ {node}, RemoveFirst(kids, node))
         /\ node \notin S => RemoveFirst(kids, node) = kids
         /\ \A i \in 1 .. Len(kids) : kids[i] = node => RemoveFirst(kids, node) = RemoveAt(kids, i)
<1>1. CASE node \in S
  <2>1. PICK i \in 1 .. Len(kids) : kids[i] = node
    BY <1>1 DEF ChildList
  <2>2. \A j \in 1 .. Len(kids) : kids[j] = node => j = i
    BY <2>1, ChildOnce
  <2> DEFINE I == {j \in 1 .. Len(kids) : kids[j] = node}
  <2>3. I = {i}
    BY <2>1, <2>2
  <2>4. SelectInSeq(kids, LAMBDA v : v = node) = IF I # {} THEN Min(I) ELSE 0
    BY DEF SelectInSeq
  <2> HIDE DEF I
  <2>5. Len(kids) \in Nat
    BY DEF ChildList
  <2>6. Min(I) = i
    <3>1. \A x \in I : x = i /\ i <= i
      BY <2>3, <2>5
    <3>2. i \in I /\ \A y \in I : i <= y
      BY <2>3, <3>1
    <3> QED BY <3>1, <3>2 DEF Min
  <2>7. SelectInSeq(kids, LAMBDA v : v = node) = i
    BY <2>3, <2>4, <2>6
  <2>8. RemoveFirst(kids, node) = RemoveAt(kids, i)
    BY <2>1, <2>7 DEF RemoveFirst
  <2>9. ChildList(nodes, S \ {node}, RemoveAt(kids, i))
    BY <2>1, ChildLeaves
  <2> QED BY <1>1, <2>2, <2>8, <2>9
<1>2. CASE node \notin S
  <2>1. ~\E i \in 1 .. Len(kids) : kids[i] = node
    BY <1>2 DEF ChildList
  <2>2. RemoveFirst(kids, node) = kids
    BY <2>1 DEF RemoveFirst
  <2>3. S \ {node} = S
    BY <1>2
  <2> QED BY <1>2, <2>1, <2>2, <2>3
<1> QED BY <1>1, <1>2

(* A node under p is not above p.                                          *)
LEMMA ParentNotBelow ==
  ASSUME NEW nodes, Forest(nodes), NEW n \in DOMAIN nodes
  PROVE  ~IsAncestor(nodes, n, nodes[n].parent)
<1> DEFINE D == {m \in DOMAIN nodes : IsAncestor(nodes, n, m)}
<1>1. ASSUME NEW m \in D, nodes[m].parent \notin D
      PROVE  m = n
  <2> SUFFICES ASSUME m # n PROVE FALSE
    OBVIOUS
  <2> DEFINE p == nodes[m].parent
  <2>1. \A S \in SUBSET DOMAIN nodes :
          m \in S /\ UpClosed(nodes, S) => \E k \in S : n \in {k, nodes[k].parent}
    BY DEF IsAncestor
  <2>2. CASE p \notin DOMAIN nodes
    <3>1. {m} \in SUBSET DOMAIN nodes /\ UpClosed(nodes, {m})
      BY <2>2 DEF UpClosed
    <3>2. PICK k \in {m} : n \in {k, nodes[k].parent}
      BY <2>1, <3>1
    <3> QED BY <2>2, <3>2
  <2>3. CASE p \in DOMAIN nodes
    <3>1. ~IsAncestor(nodes, n, p)
      BY <1>1, <2>3
    <3>2. PICK S \in SUBSET DOMAIN nodes :
                 p \in S /\ UpClosed(nodes, S) /\ \A k \in S : n \notin {k, nodes[k].parent}
      BY <2>3, <3>1 DEF IsAncestor
    <3>3. S \cup {m} \in SUBSET DOMAIN nodes /\ UpClosed(nodes, S \cup {m})
      BY <3>2 DEF UpClosed
    <3>4. PICK k \in S \cup {m} : n \in {k, nodes[k].parent}
      BY <2>1, <3>3
    <3>5. p # n
      BY <3>1 DEF IsAncestor
    <3> QED BY <3>2, <3>4, <3>5
  <2> QED BY <2>2, <2>3
<1> SUFFICES ASSUME IsAncestor(nodes, n, nodes[n].parent) PROVE FALSE
  OBVIOUS
<1>2. n \in D
  BY DEF IsAncestor
<1>3. PICK x \in D : nodes[x].parent \notin D
  <2>1. D \in (SUBSET DOMAIN nodes) \ {{}}
    BY <1>2
  <2> HIDE DEF D
  <2> QED BY <2>1 DEF Forest
<1>4. nodes[n].parent \notin D
  BY <1>1, <1>3
<1>5. nodes[n].parent \in DOMAIN nodes
  <2>1. nodes[n].parent = n \/ nodes[n].parent \in DOMAIN nodes
    BY DEF IsAncestor
  <2> QED BY <2>1
<1> QED BY <1>4, <1>5

(* Two lists of the same children are one.                                 *)
LEMMA ChildListUnique ==
  ASSUME NEW nodes, Placed(nodes), NEW S \in SUBSET DOMAIN nodes,
         NEW a, ChildList(nodes, S, a), NEW b, ChildList(nodes, S, b)
  PROVE  a = b
<1>1. IsFiniteSet(S) /\ Orders(PairsBefore(nodes, S), S)
  BY FS_Subset, PairsBeforeOrders DEF Placed
<1>2. InOrder(a, S, PairsBefore(nodes, S)) /\ InOrder(b, S, PairsBefore(nodes, S))
  BY ChildListInOrder
<1> QED BY <1>1, <1>2, InOrderUnique

(* Indexes spread between two rise over any distance.                      *)
LEMMA SpreadRises ==
  ASSUME NEW fis \in Seq(Index), \A k \in 1 .. Len(fis) - 1 : Less(fis[k], fis[k + 1]),
         NEW j \in 1 .. Len(fis), NEW n \in 1 .. Len(fis), j < n
  PROVE  Less(fis[j], fis[n])
<1> DEFINE N == {d \in Nat : j + d + 1 <= Len(fis) => Less(fis[j], fis[j + d + 1])}
<1>1. \A k \in 1 .. Len(fis) : fis[k] \in Seq(Int)
  BY IndexType
<1>2. 0 \in N
  OBVIOUS
<1>3. ASSUME NEW d \in N
      PROVE  d + 1 \in N
  <2> SUFFICES ASSUME j + (d + 1) + 1 <= Len(fis)
               PROVE  Less(fis[j], fis[j + (d + 1) + 1])
    OBVIOUS
  <2> DEFINE k == j + d + 1
  <2>1. k \in 1 .. Len(fis) - 1 /\ k \in 1 .. Len(fis) /\ k + 1 \in 1 .. Len(fis)
        /\ k + 1 = j + (d + 1) + 1 /\ Less(fis[j], fis[k])
    OBVIOUS
  <2> HIDE DEF k
  <2>2. Less(fis[k], fis[k + 1])
    BY <2>1
  <2>3. fis[j] \in Seq(Int) /\ fis[k] \in Seq(Int) /\ fis[k + 1] \in Seq(Int)
    BY <1>1, <2>1
  <2>4. Less(fis[j], fis[k + 1])
    BY <2>1, <2>2, <2>3, LessTransitive
  <2> QED BY <2>1, <2>4
<1>4. N = Nat
  <2>1. N \in SUBSET Nat
    OBVIOUS
  <2> HIDE DEF N
  <2> QED BY <1>2, <1>3, <2>1, NatSetInduction
<1>5. n - j - 1 \in N
  <2> HIDE DEF N
  <2> QED BY <1>4
<1>6. j + (n - j - 1) + 1 = n
  OBVIOUS
<1> QED BY <1>5, <1>6

-----------------------------------------------------------------------------
(* The plan of an edit: the nodes as they were, the node, where it goes,   *)
(* and the indexes of it and of those that move with it.                   *)

(* The node that op k of a plan is about.                                  *)
Goes(pl, k) == IF k = 1 THEN pl.node ELSE pl.others[pl.at + k - 1]

Stay(pl) == Siblings(pl.nodes, pl.parent) \ {pl.node}

Plan(pl) ==
  /\ Placed(pl.nodes) /\ pl.node \in NodeIds /\ pl.parent \in Parents
  /\ Len(pl.fis) \in Nat \ {0}
  /\ IF pl.parent = Deleted THEN Len(pl.fis) = 1
     ELSE LET n == pl.at + Len(pl.fis)
          IN  /\ ChildList(pl.nodes, Stay(pl), pl.others)
              /\ pl.at \in Nat /\ n - 1 <= Len(pl.others)
              /\ Spread(pl.fis,
                        IF pl.at > 0 THEN pl.nodes[pl.others[pl.at]].fi ELSE Absent,
                        IF n <= Len(pl.others) THEN pl.nodes[pl.others[n]].fi ELSE Absent,
                        Len(pl.fis))

(* The nodes after the first m ops of a plan.                              *)
Moved(pl, nodes, m) ==
  /\ DOMAIN nodes = DOMAIN pl.nodes \cup {Goes(pl, k) : k \in 1 .. m}
  /\ \A k \in 1 .. m : nodes[Goes(pl, k)].parent = pl.parent /\ nodes[Goes(pl, k)].fi = pl.fis[k]
  /\ \A n \in DOMAIN pl.nodes : (\A k \in 1 .. m : n # Goes(pl, k)) => nodes[n] = pl.nodes[n]

(* No node goes twice, and those that go with the first one are siblings.  *)
LEMMA GoesOnce ==
  ASSUME NEW pl, Plan(pl), NEW k \in 1 .. Len(pl.fis)
  PROVE  /\ \A j \in 1 .. Len(pl.fis) : Goes(pl, j) = Goes(pl, k) => j = k
         /\ k # 1 => Goes(pl, k) \in Stay(pl) /\ pl.parent # Deleted
<1>1. CASE pl.parent = Deleted
  <2>1. Len(pl.fis) = 1
    BY <1>1 DEF Plan
  <2>2. \A j \in 1 .. Len(pl.fis) : j = 1
    BY <2>1
  <2> QED BY <2>2
<1>2. CASE pl.parent # Deleted
  <2> DEFINE s == pl.others
  <2>1. /\ ChildList(pl.nodes, Stay(pl), s) /\ Placed(pl.nodes) /\ Len(pl.fis) \in Nat
        /\ pl.at \in Nat /\ pl.at + Len(pl.fis) - 1 <= Len(s) /\ Len(s) \in Nat
    <3>1. ChildList(pl.nodes, Stay(pl), s)
      BY <1>2 DEF Plan
    <3>2. s \in Seq(Stay(pl))
      BY <3>1 DEF ChildList
    <3>3. Len(s) \in Nat
      <4> HIDE DEF s
      <4> QED BY <3>2
    <3>4. /\ Placed(pl.nodes) /\ Len(pl.fis) \in Nat
          /\ pl.at \in Nat /\ pl.at + Len(pl.fis) - 1 <= Len(s)
      BY <1>2 DEF Plan
    <3> QED BY <3>1, <3>3, <3>4
  <2>2. Stay(pl) \in SUBSET DOMAIN pl.nodes /\ pl.node \notin Stay(pl)
    BY DEF Stay, Siblings
  <2>3. ASSUME NEW j \in 1 .. Len(pl.fis), j # 1
        PROVE  pl.at + j - 1 \in 1 .. Len(s) /\ Goes(pl, j) = s[pl.at + j - 1] /\ Goes(pl, j) \in Stay(pl)
    <3>1. pl.at + j - 1 \in 1 .. Len(s)
      <4> DEFINE L == Len(pl.fis)
                 n == Len(s)
                 at == pl.at
      <4>1. L \in Nat /\ n \in Nat /\ at \in Nat /\ at + L - 1 <= n /\ j \in 1 .. L
        BY <2>1
      <4> HIDE DEF L, n, at
      <4>2. at + j - 1 \in 1 .. n
        BY <2>3, <4>1
      <4> QED BY <4>2 DEF at, n
    <3>2. Goes(pl, j) = s[pl.at + j - 1]
      BY <2>3 DEF Goes
    <3> QED BY <2>1, <3>1, <3>2 DEF ChildList
  <2>4. Goes(pl, 1) = pl.node
    BY DEF Goes
  <2>5. ASSUME NEW j \in 1 .. Len(pl.fis), Goes(pl, j) = Goes(pl, k)
        PROVE  j = k
    <3>1. CASE j = 1 \/ k = 1
      BY <2>2, <2>3, <2>4, <2>5, <3>1
    <3>2. CASE j # 1 /\ k # 1
      <4>1. pl.at + j - 1 = pl.at + k - 1
        <5> DEFINE a == pl.at + j - 1
                   b == pl.at + k - 1
        <5>1. a \in 1 .. Len(s) /\ b \in 1 .. Len(s) /\ s[a] = s[b]
          BY <2>3, <2>5, <3>2
        <5> HIDE DEF a, b, s
        <5>2. a = b
          BY <2>1, <2>2, <5>1, ChildOnce, SMTT(30)
        <5> QED BY <5>2 DEF a, b
      <4> QED BY <2>1, <4>1
    <3> QED BY <3>1, <3>2
  <2> QED BY <1>2, <2>3, <2>5
<1> QED BY <1>1, <1>2

(* The next op of a plan.                                                  *)
LEMMA MovedNext ==
  ASSUME NEW pl, Plan(pl), NEW nodes, NEW m \in Nat, m < Len(pl.fis), Moved(pl, nodes, m),
         NEW place, place.parent = pl.parent, place.fi = pl.fis[m + 1]
  PROVE  Moved(pl, WithPlace(nodes, Goes(pl, m + 1), place), m + 1)
<1> DEFINE n == Goes(pl, m + 1)
           new == WithPlace(nodes, n, place)
<1>1. /\ DOMAIN new = DOMAIN nodes \cup {n} /\ new[n] = place
      /\ \A x \in DOMAIN nodes \ {n} : new[x] = nodes[x]
  BY DEF WithPlace
<1>2. m + 1 \in 1 .. Len(pl.fis) /\ 1 .. m + 1 = (1 .. m) \cup {m + 1}
      /\ \A k \in 1 .. m : k \in 1 .. Len(pl.fis) /\ k # m + 1
  BY DEF Plan
<1>3. \A k \in 1 .. m : Goes(pl, k) # n
  BY <1>2, GoesOnce
<1> HIDE DEF new
<1>4. DOMAIN new = DOMAIN pl.nodes \cup {Goes(pl, k) : k \in 1 .. m + 1}
  BY <1>1, <1>2 DEF Moved
<1>5. ASSUME NEW k \in 1 .. m + 1
      PROVE  new[Goes(pl, k)].parent = pl.parent /\ new[Goes(pl, k)].fi = pl.fis[k]
  <2>1. CASE k = m + 1
    BY <1>1, <2>1
  <2>2. CASE k # m + 1
    <3>1. k \in 1 .. m
      BY <1>2, <2>2
    <3>2. Goes(pl, k) \in DOMAIN nodes \ {n}
      BY <1>3, <3>1 DEF Moved
    <3> QED BY <1>1, <3>1, <3>2 DEF Moved
  <2> QED BY <2>1, <2>2
<1>6. ASSUME NEW x \in DOMAIN pl.nodes, \A k \in 1 .. m + 1 : x # Goes(pl, k)
      PROVE  new[x] = pl.nodes[x]
  <2>1. x # n /\ \A k \in 1 .. m : x # Goes(pl, k)
    BY <1>2, <1>6
  <2>2. x \in DOMAIN nodes /\ nodes[x] = pl.nodes[x]
    BY <2>1 DEF Moved
  <2> QED BY <1>1, <2>1, <2>2
<1> QED BY <1>4, <1>5, <1>6 DEF Moved, new

(* A list of children is that of their indexes, which do not fall.         *)
LEMMA ChildIndexes ==
  ASSUME NEW nodes, Placed(nodes), NEW S \in SUBSET DOMAIN nodes, NEW kids, ChildList(nodes, S, kids),
         \A n \in S : nodes[n].parent # Deleted,
         NEW j \in 1 .. Len(kids), NEW k \in 1 .. Len(kids), j <= k
  PROVE  /\ nodes[kids[j]].fi \in Index /\ nodes[kids[k]].fi \in Index
         /\ nodes[kids[j]].fi = nodes[kids[k]].fi \/ Less(nodes[kids[j]].fi, nodes[kids[k]].fi)
<1>1. kids[j] \in S /\ kids[k] \in S
  BY SMTT(30) DEF ChildList
<1>2. nodes[kids[j]].fi \in Index /\ nodes[kids[k]].fi \in Index
  BY <1>1 DEF Placed
<1>3. j # k => j \in 1 .. k - 1
  BY DEF ChildList
<1>4. j # k => Before(nodes[kids[j]], nodes[kids[k]])
  BY <1>3 DEF ChildList
<1> QED BY <1>2, <1>4 DEF Before

(* Once the plan is done, the children of the new parent are the others    *)
(* with the node in its place.                                             *)
LEMMA MovedSiblings ==
  ASSUME NEW pl, Plan(pl), pl.parent # Deleted, NEW nodes, Moved(pl, nodes, Len(pl.fis))
  PROVE  Siblings(nodes, pl.parent) = Stay(pl) \cup {pl.node}
<1> DEFINE L == Len(pl.fis)
<1>1. L \in Nat /\ 1 \in 1 .. L /\ Goes(pl, 1) = pl.node
  BY DEF Plan, Goes
<1>2. \A k \in 1 .. L : k # 1 => Goes(pl, k) \in Stay(pl)
  BY GoesOnce
<1> HIDE DEF L
<1>3. Moved(pl, nodes, L)
  BY DEF L
<1>4. ASSUME NEW n \in Siblings(nodes, pl.parent)
      PROVE  n \in Stay(pl) \cup {pl.node}
  <2>1. CASE \E k \in 1 .. L : n = Goes(pl, k)
    BY <1>1, <1>2, <2>1
  <2>2. CASE \A k \in 1 .. L : n # Goes(pl, k)
    <3>1. n \in DOMAIN pl.nodes /\ nodes[n] = pl.nodes[n] /\ n # pl.node
      BY <1>1, <1>3, <2>2 DEF Moved, Siblings
    <3> QED BY <3>1 DEF Stay, Siblings
  <2> QED BY <2>1, <2>2
<1>5. ASSUME NEW n \in Stay(pl) \cup {pl.node}
      PROVE  n \in Siblings(nodes, pl.parent)
  <2>1. CASE \E k \in 1 .. L : n = Goes(pl, k)
    BY <1>3, <2>1 DEF Moved, Siblings
  <2>2. CASE \A k \in 1 .. L : n # Goes(pl, k)
    <3>1. n \in Stay(pl)
      BY <1>1, <2>2
    <3>2. n \in DOMAIN pl.nodes /\ pl.nodes[n].parent = pl.parent
      BY <3>1 DEF Stay, Siblings
    <3> QED BY <1>3, <2>2, <3>2 DEF Moved, Siblings
  <2> QED BY <2>1, <2>2
<1> QED BY <1>4, <1>5

(* ... listed in that order.                                               *)
LEMMA Landed ==
  ASSUME NEW pl, Plan(pl), pl.parent # Deleted, NEW nodes, Moved(pl, nodes, Len(pl.fis))
  PROVE  ChildList(nodes, Siblings(nodes, pl.parent), InsertAt(pl.others, pl.at + 1, pl.node))
<1> DEFINE L == Len(pl.fis)
           s == pl.others
           n == Len(s)
           at == pl.at
           S == Stay(pl)
           old(j) == pl.nodes[s[j]].fi
           ins == InsertAt(s, at + 1, pl.node)
           fi(j) == nodes[ins[j]].fi
<1>1. ChildList(pl.nodes, S, s) /\ Placed(pl.nodes) /\ S \in SUBSET DOMAIN pl.nodes
      /\ pl.node \notin S /\ \A x \in S : pl.nodes[x].parent # Deleted
  BY DEF Plan, Stay, Siblings
<1>2. s \in Seq(S) /\ n \in Nat /\ \A j \in 1 .. n : s[j] \in S
  <2> HIDE DEF S
  <2>1. s \in Seq(S)
    BY <1>1 DEF ChildList
  <2> HIDE DEF s
  <2> QED BY <2>1 DEF n
<1>3. L \in Nat \ {0} /\ at \in Nat /\ at + L - 1 <= n
  BY DEF Plan
<1>4. Spread(pl.fis, IF at > 0 THEN old(at) ELSE Absent,
             IF at + L <= n THEN old(at + L) ELSE Absent, L)
  BY DEF Plan
<1>5. Moved(pl, nodes, L) /\ Siblings(nodes, pl.parent) = S \cup {pl.node}
  BY MovedSiblings
<1>6. \A k \in 1 .. L : IF k = 1 THEN Goes(pl, k) = pl.node ELSE Goes(pl, k) = s[at + k - 1]
  BY DEF Goes
<1>7. \A j \in 1 .. n : \A k \in 1 .. n : s[j] = s[k] => j = k
  <2> HIDE DEF S, s, n
  <2> QED BY <1>1, ChildOnce DEF n
<1> HIDE DEF S, s, n, at, L, ins
<1>8. /\ ins \in Seq(S \cup {pl.node}) /\ Len(ins) = n + 1
      /\ \A j \in 1 .. n + 1 : ins[j] = IF j < at + 1 THEN s[j] ELSE IF j = at + 1 THEN pl.node ELSE s[j - 1]
  <2>1. s \in Seq(S \cup {pl.node}) /\ pl.node \in S \cup {pl.node}
    BY <1>2
  <2>2. at + 1 \in 1 .. Len(s) + 1
    BY <1>2, <1>3 DEF n
  <2>3. /\ ins \in Seq(S \cup {pl.node}) /\ Len(ins) = Len(s) + 1
        /\ \A j \in 1 .. Len(s) + 1 :
             ins[j] = IF j < at + 1 THEN s[j] ELSE IF j = at + 1 THEN pl.node ELSE s[j - 1]
    <3> DEFINE U == S \cup {pl.node}
               e == pl.node
               i == at + 1
    <3>1. s \in Seq(U) /\ e \in U /\ i \in 1 .. Len(s) + 1 /\ ins = InsertAt(s, i, e)
      BY <2>1, <2>2 DEF ins
    <3> HIDE DEF U, e, i
    <3>2. /\ InsertAt(s, i, e) \in Seq(U) /\ Len(InsertAt(s, i, e)) = Len(s) + 1
          /\ \A j \in 1 .. Len(s) + 1 : InsertAt(s, i, e)[j] =
               IF j < i THEN s[j] ELSE IF j = i THEN e ELSE s[j - 1]
      BY <3>1, InsertAtIs, SMTT(30)
    <3> QED BY <3>1, <3>2 DEF U, e, i
  <2> QED BY <2>3 DEF n
(* Those before the node and past the last that moves stay where they are. *)
<1>9. ASSUME NEW j \in 1 .. at
      PROVE  ins[j] = s[j] /\ nodes[ins[j]] = pl.nodes[s[j]] /\ j \in 1 .. n
  <2>1. j \in 1 .. n + 1 /\ j \in 1 .. n
    BY <1>2, <1>3
  <2>2. ins[j] = s[j] /\ s[j] \in S
    <3>1. j < at + 1
      BY <1>3
    <3> QED BY <1>2, <1>8, <2>1, <3>1
  <2>3. \A k \in 1 .. L : s[j] # Goes(pl, k)
    <3>1. ASSUME NEW k \in 1 .. L, k # 1 PROVE s[j] # s[at + k - 1]
      <4>1. at + k - 1 \in 1 .. n /\ at + k - 1 # j
        BY <1>2, <1>3, <3>1
      <4> QED BY <1>7, <2>1, <4>1
    <3> QED BY <1>1, <1>6, <2>2, <3>1
  <2> QED BY <1>1, <1>5, <2>1, <2>2, <2>3 DEF Moved
<1>10. ASSUME NEW j \in at + L .. n
       PROVE  ins[j + 1] = s[j] /\ nodes[ins[j + 1]] = pl.nodes[s[j]] /\ j \in 1 .. n
  <2>1. j + 1 \in 1 .. n + 1 /\ j \in 1 .. n /\ ~(j + 1 < at + 1) /\ j + 1 # at + 1 /\ j + 1 - 1 = j
    BY <1>2, <1>3
  <2>2. ins[j + 1] = s[j] /\ s[j] \in S
    BY <1>2, <1>8, <2>1
  <2>3. \A k \in 1 .. L : s[j] # Goes(pl, k)
    <3>1. ASSUME NEW k \in 1 .. L, k # 1 PROVE s[j] # s[at + k - 1]
      <4>1. at + k - 1 \in 1 .. n /\ at + k - 1 # j
        BY <1>2, <1>3, <3>1
      <4> QED BY <1>7, <2>1, <4>1
    <3> QED BY <1>1, <1>6, <2>2, <3>1
  <2> QED BY <1>1, <1>5, <2>1, <2>2, <2>3 DEF Moved
<1>11. ASSUME NEW k \in 1 .. L
       PROVE  ins[at + k] = Goes(pl, k) /\ fi(at + k) = pl.fis[k]
  <2>1. at + k \in 1 .. n + 1 /\ ~(at + k < at + 1) /\ (k = 1 <=> at + k = at + 1)
    BY <1>2, <1>3
  <2>2. ins[at + k] = Goes(pl, k)
    <3>1. CASE k = 1
      BY <1>3, <1>6, <1>8, <2>1, <3>1
    <3>2. CASE k # 1
      <4>1. ins[at + k] = s[at + k - 1]
        <5> DEFINE j == at + k
        <5>1. j \in 1 .. n + 1 /\ ~(j < at + 1) /\ j # at + 1
          BY <2>1, <3>2
        <5> HIDE DEF j
        <5>2. ins[j] = s[j - 1]
          BY <1>8, <5>1
        <5>3. j - 1 = at + k - 1
          BY <1>3 DEF j
        <5> QED BY <5>2, <5>3 DEF j
      <4> QED BY <1>6, <3>2, <4>1
    <3> QED BY <3>1, <3>2
  <2> QED BY <1>5, <2>2 DEF Moved
(* The order of those that stay, and that of the indexes of the others.    *)
<1>12. \A j \in 1 .. n : \A k \in 1 .. n : j <= k =>
         /\ old(j) \in Index /\ old(k) \in Index
         /\ old(j) = old(k) \/ Less(old(j), old(k))
  BY <1>1, ChildIndexes DEF n
<1>13. /\ pl.fis \in Seq(Index) /\ Len(pl.fis) = L
       /\ \A k \in 1 .. L - 1 : Less(pl.fis[k], pl.fis[k + 1])
       /\ at > 0 => Less(old(at), pl.fis[1])
       /\ at + L <= n => Less(pl.fis[L], old(at + L))
  <2>1. \A j \in 1 .. n : old(j) # Absent
    BY <1>12, AbsentIsNoIndex
  <2>2. at > 0 => at \in 1 .. n
    BY <1>2, <1>3
  <2>3. at + L <= n => at + L \in 1 .. n
    BY <1>2, <1>3
  <2> DEFINE lower == IF at > 0 THEN old(at) ELSE Absent
             upper == IF at + L <= n THEN old(at + L) ELSE Absent
  <2>4. /\ at > 0 => lower = old(at) /\ lower # Absent
        /\ at + L <= n => upper = old(at + L) /\ upper # Absent
    BY <2>1, <2>2, <2>3
  <2>5. Spread(pl.fis, lower, upper, L) /\ L > 0
    BY <1>3, <1>4
  <2> HIDE DEF lower, upper, old
  <2> QED BY <2>4, <2>5 DEF Spread
<1>14. \A j \in 1 .. L : pl.fis[j] \in Index /\ pl.fis[j] \in Seq(Int)
  BY <1>13, IndexType
<1>15. \A j \in 1 .. L : \A k \in 1 .. L : j < k => Less(pl.fis[j], pl.fis[k])
  BY <1>13, SpreadRises
<1>16. ASSUME NEW j \in 1 .. n + 1, NEW k \in 1 .. j - 1
       PROVE  Before(nodes[ins[k]], nodes[ins[j]])
  <2>1. CASE j \in 1 .. at
    <3>1. k \in 1 .. at /\ j \in 1 .. Len(s) /\ k \in 1 .. j - 1
      BY <1>2, <1>3, <2>1 DEF n
    <3>2. Before(pl.nodes[s[k]], pl.nodes[s[j]])
      BY <1>1, <3>1 DEF ChildList
    <3> QED BY <1>9, <2>1, <3>1, <3>2
  <2>2. CASE k \in at + L + 1 .. n + 1
    <3> DEFINE a == k - 1
               b == j - 1
    <3>1. /\ a \in at + L .. n /\ b \in at + L .. n /\ b \in 1 .. Len(s) /\ a \in 1 .. b - 1
          /\ a + 1 = k /\ b + 1 = j
      BY <1>2, <1>3, <2>2 DEF n
    <3> HIDE DEF a, b
    <3>2. Before(pl.nodes[s[a]], pl.nodes[s[b]])
      BY <1>1, <3>1 DEF ChildList
    <3> QED BY <1>10, <3>1, <3>2
  <2>3. CASE /\ j \in at + 1 .. n + 1 /\ k \in 1 .. at + L
    <3>1. ASSUME k <= at
          PROVE  fi(k) \in Seq(Int) /\ Less(fi(k), pl.fis[1])
      <4>1. k \in 1 .. at /\ k \in 1 .. n /\ at \in 1 .. n /\ k <= at /\ at > 0 /\ 1 \in 1 .. L
        BY <1>2, <1>3, <3>1
      <4>2. fi(k) = old(k)
        BY <1>9, <4>1
      <4>3. old(k) \in Index /\ old(at) \in Index /\ (old(k) = old(at) \/ Less(old(k), old(at)))
        BY <1>12, <4>1
      <4>4. Less(old(at), pl.fis[1]) /\ pl.fis[1] \in Seq(Int)
        BY <1>13, <1>14, <4>1
      <4> HIDE DEF old, fi
      <4>5. old(k) \in Seq(Int) /\ old(at) \in Seq(Int)
        BY <4>3, IndexType
      <4> QED BY <4>2, <4>3, <4>4, <4>5, LessTransitive
    <3>2. ASSUME j > at + L
          PROVE  fi(j) \in Seq(Int) /\ Less(pl.fis[L], fi(j))
      <4> DEFINE b == j - 1
      <4>1. /\ b \in at + L .. n /\ b \in 1 .. n /\ at + L \in 1 .. n /\ at + L <= b /\ b + 1 = j
            /\ L \in 1 .. L
        BY <1>2, <1>3, <3>2
      <4> HIDE DEF b
      <4>2. fi(j) = old(b)
        BY <1>10, <4>1
      <4>3. old(b) \in Index /\ old(at + L) \in Index /\ (old(at + L) = old(b) \/ Less(old(at + L), old(b)))
        BY <1>12, <4>1
      <4>4. Less(pl.fis[L], old(at + L)) /\ pl.fis[L] \in Seq(Int)
        <5>1. at + L <= n
          BY <1>2, <1>3, <4>1
        <5> QED BY <1>13, <1>14, <4>1, <5>1
      <4> HIDE DEF old, fi
      <4>5. old(b) \in Seq(Int) /\ old(at + L) \in Seq(Int)
        BY <4>3, IndexType
      <4> QED BY <4>2, <4>3, <4>4, <4>5, LessTransitive
    <3>3. ASSUME k > at
          PROVE  k - at \in 1 .. L /\ fi(k) = pl.fis[k - at]
      <4> DEFINE x == k - at
      <4>1. x \in 1 .. L /\ at + x = k
        BY <1>2, <1>3, <2>3, <3>3
      <4> HIDE DEF x
      <4>2. fi(k) = pl.fis[x]
        BY <1>11, <4>1
      <4> QED BY <4>1, <4>2 DEF x
    <3>4. ASSUME ~(j > at + L)
          PROVE  j - at \in 1 .. L /\ fi(j) = pl.fis[j - at]
      <4> DEFINE x == j - at
      <4>1. x \in 1 .. L /\ at + x = j
        BY <1>2, <1>3, <2>3, <3>4
      <4> HIDE DEF x
      <4>2. fi(j) = pl.fis[x]
        BY <1>11, <4>1
      <4> QED BY <4>1, <4>2 DEF x
    <3> DEFINE lo == IF k <= at THEN 1 ELSE k - at
               hi == IF j > at + L THEN L ELSE j - at
    <3>5. lo \in 1 .. L /\ hi \in 1 .. L
      BY <1>3, <3>3, <3>4
    <3>6. CASE k <= at /\ ~(j > at + L)
      <4>1. fi(k) \in Seq(Int) /\ Less(fi(k), pl.fis[1]) /\ fi(j) = pl.fis[j - at] /\ j - at \in 1 .. L
        BY <3>1, <3>4, <3>6
      <4>2. 1 \in 1 .. L /\ (j - at = 1 \/ 1 < j - at)
        BY <1>3, <4>1
      <4>3. pl.fis[1] = pl.fis[j - at] \/ Less(pl.fis[1], pl.fis[j - at])
        BY <1>15, <4>1, <4>2
      <4>4. pl.fis[1] \in Seq(Int) /\ pl.fis[j - at] \in Seq(Int)
        BY <1>14, <4>1, <4>2
      <4> HIDE DEF fi
      <4>5. Less(fi(k), fi(j))
        BY <4>1, <4>3, <4>4, LessTransitive
      <4> QED BY <4>5 DEF Before, fi
    <3>7. CASE k <= at /\ j > at + L
      <4>1. fi(k) \in Seq(Int) /\ Less(fi(k), pl.fis[1]) /\ fi(j) \in Seq(Int) /\ Less(pl.fis[L], fi(j))
        BY <3>1, <3>2, <3>7
      <4>2. 1 \in 1 .. L /\ L \in 1 .. L /\ (L = 1 \/ 1 < L)
        BY <1>3
      <4>3. pl.fis[1] = pl.fis[L] \/ Less(pl.fis[1], pl.fis[L])
        BY <1>15, <4>2
      <4>4. pl.fis[1] \in Seq(Int) /\ pl.fis[L] \in Seq(Int)
        BY <1>14, <4>2
      <4> HIDE DEF fi
      <4>5. Less(fi(k), pl.fis[L])
        BY <4>1, <4>3, <4>4, LessTransitive
      <4>6. Less(fi(k), fi(j))
        BY <4>1, <4>4, <4>5, LessTransitive
      <4> QED BY <4>6 DEF Before, fi
    <3>8. CASE k > at /\ ~(j > at + L)
      <4>1. /\ k - at \in 1 .. L /\ j - at \in 1 .. L /\ k - at < j - at
            /\ fi(k) = pl.fis[k - at] /\ fi(j) = pl.fis[j - at]
        BY <1>3, <3>3, <3>4, <3>8
      <4>2. Less(pl.fis[k - at], pl.fis[j - at])
        BY <1>15, <4>1
      <4> QED BY <4>1, <4>2 DEF Before
    <3>9. CASE k > at /\ j > at + L
      <4>1. k - at \in 1 .. L /\ fi(k) = pl.fis[k - at] /\ fi(j) \in Seq(Int) /\ Less(pl.fis[L], fi(j))
        BY <3>2, <3>3, <3>9
      <4>2. L \in 1 .. L /\ (k - at = L \/ k - at < L)
        BY <1>3, <4>1
      <4>3. pl.fis[k - at] = pl.fis[L] \/ Less(pl.fis[k - at], pl.fis[L])
        BY <1>15, <4>1, <4>2
      <4>4. pl.fis[k - at] \in Seq(Int) /\ pl.fis[L] \in Seq(Int)
        BY <1>14, <4>1, <4>2
      <4> HIDE DEF fi
      <4>5. Less(fi(k), fi(j))
        BY <4>1, <4>3, <4>4, LessTransitive
      <4> QED BY <4>5 DEF Before, fi
    <3> QED BY <1>3, <3>6, <3>7, <3>8, <3>9
  <2> QED BY <1>2, <1>3, <2>1, <2>2, <2>3
<1>17. ASSUME NEW x \in S \cup {pl.node}
       PROVE  \E j \in 1 .. n + 1 : ins[j] = x
  <2>1. CASE x = pl.node
    <3>1. at + 1 \in 1 .. n + 1 /\ ins[at + 1] = pl.node
      BY <1>2, <1>3, <1>8
    <3> QED BY <2>1, <3>1
  <2>2. CASE x \in S
    <3>1. PICK j \in 1 .. n : s[j] = x
      BY <1>1, <2>2 DEF ChildList, n
    <3>2. CASE j < at + 1
      <4>1. j \in 1 .. n + 1 /\ ins[j] = s[j]
        BY <1>2, <1>8, <3>2
      <4> QED BY <3>1, <4>1
    <3>3. CASE ~(j < at + 1)
      <4>1. j + 1 \in 1 .. n + 1 /\ ~(j + 1 < at + 1) /\ j + 1 # at + 1 /\ j + 1 - 1 = j
        BY <1>2, <1>3, <3>3
      <4>2. ins[j + 1] = s[j]
        BY <1>8, <4>1
      <4> QED BY <3>1, <4>1, <4>2
    <3> QED BY <3>2, <3>3
  <2> QED BY <2>1, <2>2
<1> QED BY <1>5, <1>8, <1>16, <1>17 DEF ChildList, ins, s, at

(* What is put in comes out.                                               *)
LEMMA RemoveInserted ==
  ASSUME NEW U, NEW s \in Seq(U), NEW i \in 1 .. Len(s) + 1, NEW e \in U
  PROVE  RemoveAt(InsertAt(s, i, e), i) = s
<1> DEFINE t == InsertAt(s, i, e)
           r == RemoveAt(t, i)
<1>1. /\ t \in Seq(U) /\ Len(t) = Len(s) + 1 /\ Len(s) \in Nat
      /\ \A j \in 1 .. Len(s) + 1 : t[j] = IF j < i THEN s[j] ELSE IF j = i THEN e ELSE s[j - 1]
  <2>1. Len(s) \in Nat
    OBVIOUS
  <2> QED BY <2>1, InsertAtIs, SMTT(60)
<1> HIDE DEF t
<1>2. i \in 1 .. Len(t)
  BY <1>1
<1>3. /\ r \in Seq(U) /\ Len(r) = Len(t) - 1
      /\ \A j \in 1 .. Len(t) - 1 : r[j] = IF j < i THEN t[j] ELSE t[j + 1]
  BY <1>1, <1>2, RemoveAtIs
<1> HIDE DEF r
<1>4. Len(r) = Len(s)
  BY <1>1, <1>3
<1>5. ASSUME NEW j \in 1 .. Len(s)
      PROVE  r[j] = s[j]
  <2>1. j \in 1 .. Len(s) + 1 /\ j + 1 \in 1 .. Len(s) + 1 /\ j \in 1 .. Len(t) - 1 /\ j + 1 - 1 = j
    BY <1>1
  <2>2. CASE j < i
    BY <1>1, <1>3, <2>1, <2>2
  <2>3. CASE ~(j < i)
    <3>1. ~(j + 1 < i) /\ j + 1 # i
      BY <2>3
    <3>2. t[j + 1] = s[j]
      BY <1>1, <2>1, <3>1
    <3> QED BY <1>3, <2>1, <2>3, <3>2
  <2> QED BY <2>2, <2>3
<1>6. r = s
  BY <1>3, <1>4, <1>5
<1> QED BY <1>6 DEF r, t

(* Under every other parent a plan leaves the children there were, the     *)
(* node taken out.                                                         *)
LEMMA LeftBehind ==
  ASSUME NEW pl, Plan(pl), NEW nodes, Moved(pl, nodes, Len(pl.fis)), NEW p, p # pl.parent,
         NEW kids, ChildList(pl.nodes, Siblings(pl.nodes, p), kids)
  PROVE  /\ Siblings(nodes, p) = Siblings(pl.nodes, p) \ {pl.node}
         /\ ChildList(nodes, Siblings(nodes, p), RemoveFirst(kids, pl.node))
<1> DEFINE L == Len(pl.fis)
           T == Siblings(pl.nodes, p) \ {pl.node}
           rest == RemoveFirst(kids, pl.node)
<1>1. L \in Nat /\ 1 \in 1 .. L /\ Goes(pl, 1) = pl.node
  BY DEF Plan, Goes
<1>2. \A k \in 1 .. L : k # 1 => Goes(pl, k) \in Stay(pl)
  BY GoesOnce
<1> HIDE DEF L
<1>3. Moved(pl, nodes, L)
  BY DEF L
<1>4. ASSUME NEW n \in T
      PROVE  n \in DOMAIN nodes /\ nodes[n] = pl.nodes[n]
  <2>1. n \in DOMAIN pl.nodes /\ pl.nodes[n].parent # pl.parent /\ n # pl.node
    BY DEF Siblings
  <2>2. \A k \in 1 .. L : n # Goes(pl, k)
    BY <1>1, <1>2, <2>1 DEF Stay, Siblings
  <2> QED BY <1>3, <2>1, <2>2 DEF Moved
<1>5. ASSUME NEW n \in Siblings(nodes, p)
      PROVE  n \in T
  <2>1. \A k \in 1 .. L : n # Goes(pl, k)
    BY <1>3 DEF Moved, Siblings
  <2>2. n \in DOMAIN pl.nodes /\ nodes[n] = pl.nodes[n]
    BY <1>3, <2>1 DEF Moved, Siblings
  <2> QED BY <1>1, <2>1, <2>2 DEF Siblings
<1>6. Siblings(nodes, p) = T
  BY <1>4, <1>5 DEF Siblings
<1>7. ChildList(pl.nodes, T, rest)
  <2>1. Placed(pl.nodes) /\ Siblings(pl.nodes, p) \in SUBSET DOMAIN pl.nodes
    BY DEF Plan, Siblings
  <2> QED BY <2>1, RemoveFirstIs
<1> HIDE DEF T, rest
<1>8. ChildList(nodes, T, rest)
  <2>1. rest \in Seq(T) /\ Len(rest) \in Nat /\ \A j \in 1 .. Len(rest) : rest[j] \in T
    BY <1>7 DEF ChildList
  <2>2. ASSUME NEW j \in 1 .. Len(rest), NEW k \in 1 .. j - 1
        PROVE  Before(nodes[rest[k]], nodes[rest[j]])
    <3>1. k \in 1 .. Len(rest)
      BY <2>1
    <3>2. nodes[rest[k]] = pl.nodes[rest[k]] /\ nodes[rest[j]] = pl.nodes[rest[j]]
      BY <1>4, <2>1, <3>1
    <3> QED BY <1>7, <3>2 DEF ChildList
  <2> QED BY <1>7, <2>1, <2>2 DEF ChildList
<1> QED BY <1>6, <1>8 DEF T, rest

-----------------------------------------------------------------------------
(* Replays.                                                                *)

(* Replay, of ops that are given.                                          *)
ReplayOf(o, ids) ==
  LET order == Sorted(ids, Earlier)
      after[k \in 0 .. Cardinality(ids)] ==
        IF k = 0 THEN EmptyIndex
        ELSE Replaced(after[k - 1], order[k], o[order[k]])
  IN  after[Cardinality(ids)]

(* after is the indexes a replay of the first n ops of order goes through. *)
IsReplay(after, o, order, n) ==
  after = [k \in 0 .. n |-> IF k = 0 THEN EmptyIndex
                            ELSE Replaced(after[k - 1], order[k], o[order[k]])]

(* The recursion of a replay defines a function ...                        *)
LEMMA ReplayDefined ==
  ASSUME NEW o, NEW order, NEW n \in Nat
  PROVE  \E after : IsReplay(after, o, order, n)
<1> DEFINE N == {m \in Nat : \E after : IsReplay(after, o, order, m)}
<1>1. 0 \in N
  <2> DEFINE g == [k \in 0 .. 0 |-> EmptyIndex]
  <2>1. g = [k \in 0 .. 0 |-> IF k = 0 THEN EmptyIndex
                              ELSE Replaced(g[k - 1], order[k], o[order[k]])]
    OBVIOUS
  <2>2. IsReplay(g, o, order, 0)
    BY <2>1 DEF IsReplay
  <2> QED BY <2>2
<1>2. ASSUME NEW m \in N
      PROVE  m + 1 \in N
  <2>1. m \in Nat /\ m + 1 \in Nat
    OBVIOUS
  <2>2. PICK g : IsReplay(g, o, order, m)
    OBVIOUS
  <2> DEFINE h == [k \in 0 .. m + 1 |-> IF k = m + 1 THEN Replaced(g[m], order[m + 1], o[order[m + 1]])
                                        ELSE g[k]]
             step(f, k) == IF k = 0 THEN EmptyIndex ELSE Replaced(f[k - 1], order[k], o[order[k]])
  <2>3. ASSUME NEW k \in 0 .. m + 1
        PROVE  h[k] = step(h, k)
    <3>1. CASE k = m + 1
      <4>1. h[k] = Replaced(g[m], order[k], o[order[k]]) /\ k # 0 /\ k - 1 = m /\ h[m] = g[m]
        BY <2>1, <3>1
      <4> HIDE DEF h
      <4> QED BY <4>1
    <3>2. CASE k # m + 1
      <4>1. k \in 0 .. m /\ h[k] = g[k] /\ (k # 0 => k - 1 \in 0 .. m /\ h[k - 1] = g[k - 1])
        BY <2>1, <3>2
      <4>2. g[k] = IF k = 0 THEN EmptyIndex ELSE Replaced(g[k - 1], order[k], o[order[k]])
        BY <2>2, <4>1 DEF IsReplay
      <4> HIDE DEF h
      <4> QED BY <4>1, <4>2
    <3> QED BY <3>1, <3>2
  <2>4. h = [k \in 0 .. m + 1 |-> h[k]]
    OBVIOUS
  <2> HIDE DEF h
  <2>5. h = [k \in 0 .. m + 1 |-> step(h, k)]
    <3> HIDE DEF step
    <3> QED BY <2>3, <2>4
  <2>6. IsReplay(h, o, order, m + 1)
    BY <2>5 DEF IsReplay
  <2> QED BY <2>1, <2>6
<1>3. N = Nat
  <2> HIDE DEF N
  <2>1. N \in SUBSET Nat
    BY DEF N
  <2> QED BY <1>1, <1>2, <2>1, NatSetInduction
<1> QED BY <1>3

(* Each step of a replay takes the next op.                                *)
LEMMA ReplayTakesOp ==
  ASSUME NEW o, NEW order, NEW n \in Nat, NEW f, IsReplay(f, o, order, n)
  PROVE  \A k \in 1 .. n : f[k] = Replaced(f[k - 1], order[k], o[order[k]])
<1> SUFFICES ASSUME NEW k \in 1 .. n
             PROVE  f[k] = Replaced(f[k - 1], order[k], o[order[k]])
  OBVIOUS
<1>1. k \in 0 .. n /\ k # 0
  OBVIOUS
<1> QED BY <1>1 DEF IsReplay

(* Two replays take the same first ops.                                    *)
SameOps(o, order, o2, order2, n) ==
  \A k \in 1 .. n : order[k] = order2[k] /\ o[order[k]] = o2[order[k]]

(* A replay has one result only.                                           *)
LEMMA ReplayUnique ==
  ASSUME NEW o, NEW order, NEW n \in Nat, NEW f, IsReplay(f, o, order, n),
         NEW o2, NEW order2, NEW n2 \in Nat, NEW g, IsReplay(g, o2, order2, n2),
         n <= n2, SameOps(o, order, o2, order2, n)
  PROVE  \A k \in 0 .. n : f[k] = g[k]
<1> DEFINE N == {k \in Nat : k <= n => f[k] = g[k]}
<1>1. 0 \in N
  BY DEF IsReplay
<1>2. ASSUME NEW k \in N
      PROVE  k + 1 \in N
  <2>1. k \in Nat /\ k + 1 \in Nat /\ k + 1 # 0 /\ k + 1 - 1 = k
    OBVIOUS
  <2>2. ASSUME k + 1 <= n
        PROVE  f[k + 1] = g[k + 1]
    <3>1. k + 1 \in 0 .. n /\ k + 1 \in 0 .. n2 /\ k + 1 \in 1 .. n
      BY <2>1, <2>2
    <3>5. f[k] = g[k]
      BY <2>1, <2>2
    <3>2. f[k + 1] = Replaced(f[k + 1 - 1], order[k + 1], o[order[k + 1]])
      BY <2>1, <3>1 DEF IsReplay
    <3>3. g[k + 1] = Replaced(g[k + 1 - 1], order2[k + 1], o2[order2[k + 1]])
      BY <2>1, <3>1 DEF IsReplay
    <3>4. order[k + 1] = order2[k + 1] /\ o[order[k + 1]] = o2[order[k + 1]]
      BY <3>1 DEF SameOps
    <3> HIDE DEF N
    <3> QED BY <2>1, <3>5, <3>2, <3>3, <3>4
  <2> QED BY <2>1, <2>2
<1>3. N = Nat
  <2> HIDE DEF N
  <2>1. N \in SUBSET Nat
    BY DEF N
  <2> QED BY <1>1, <1>2, <2>1, NatSetInduction
<1> QED BY <1>3

(* Earlier as a set of pairs.                                              *)
PairsEarlier(S) == {e \in S \X S : Earlier(e[1], e[2])}

(* (lamport, peer) orders a set of ops.                                    *)
LEMMA PairsEarlierOrders ==
  ASSUME NEW S \in SUBSET (Nat \X Nat)
  PROVE  Orders(PairsEarlier(S), S)
<1>1. \A a \in S, b \in S : <<a, b>> \in PairsEarlier(S) <=> Earlier(a, b)
  BY DEF PairsEarlier
<1>2. \A a \in S : a \in Nat \X Nat
  OBVIOUS
<1> QED BY <1>1, <1>2, EarlierOrders DEF Orders

(* The ops of a replay in their order.                                     *)
LEMMA SortedIsInOrder ==
  ASSUME NEW ids \in SUBSET (Nat \X Nat), IsFiniteSet(ids)
  PROVE  InOrder(Sorted(ids, Earlier), ids, PairsEarlier(ids)) /\ Cardinality(ids) \in Nat
<1>1. PICK s : InOrder(s, ids, PairsEarlier(ids))
  BY PairsEarlierOrders, InOrderExists
<1>2. Cardinality(ids) \in Nat
  BY FS_CardinalityType
<1>3. /\ s \in [1 .. Cardinality(ids) -> ids]
      /\ \A j \in DOMAIN s : \A k \in 1 .. j - 1 : Earlier(s[k], s[j])
  BY <1>1 DEF InOrder, PairsEarlier
<1> DEFINE t == Sorted(ids, Earlier)
<1>4. /\ t \in [1 .. Cardinality(ids) -> ids]
      /\ \A j \in 1 .. Cardinality(ids) : \A k \in 1 .. j - 1 : Earlier(t[k], t[j])
  BY <1>3 DEF Sorted
<1> HIDE DEF t
<1>5. ASSUME NEW j \in 1 .. Cardinality(ids), NEW k \in 1 .. j - 1
      PROVE  <<t[k], t[j]>> \in PairsEarlier(ids)
  <2>1. k \in 1 .. Cardinality(ids)
    BY <1>2
  <2>2. t[k] \in ids /\ t[j] \in ids
    BY <1>4, <2>1
  <2> QED BY <1>4, <2>2 DEF PairsEarlier
<1>6. InOrder(t, ids, PairsEarlier(ids))
  BY <1>4, <1>5 DEF InOrder
<1> QED BY <1>2, <1>6 DEF t

(* What a replay gives is the last of its indexes.                         *)
LEMMA ReplayIs ==
  ASSUME NEW o, NEW ids, NEW n \in Nat, n = Cardinality(ids)
  PROVE  \E after : IsReplay(after, o, Sorted(ids, Earlier), n) /\ ReplayOf(o, ids) = after[n]
<1> DEFINE g == CHOOSE after : IsReplay(after, o, Sorted(ids, Earlier), n)
<1>1. IsReplay(g, o, Sorted(ids, Earlier), n)
  BY ReplayDefined
<1>2. ReplayOf(o, ids) = g[n]
  BY DEF ReplayOf, IsReplay
<1> QED BY <1>1, <1>2

(* Ops that are not replayed do not count.                                 *)
LEMMA ReplayAgrees ==
  ASSUME NEW o, NEW o2, NEW ids \in SUBSET (Nat \X Nat), IsFiniteSet(ids), \A i \in ids : o[i] = o2[i]
  PROVE  ReplayOf(o, ids) = ReplayOf(o2, ids)
<1> DEFINE n == Cardinality(ids)
           order == Sorted(ids, Earlier)
<1>1. n \in Nat /\ order \in [1 .. n -> ids]
  BY SortedIsInOrder DEF InOrder
<1> HIDE DEF n, order
<1>2. PICK f : IsReplay(f, o, order, n) /\ ReplayOf(o, ids) = f[n]
  BY <1>1, ReplayIs DEF n, order
<1>3. PICK g : IsReplay(g, o2, order, n) /\ ReplayOf(o2, ids) = g[n]
  BY <1>1, ReplayIs DEF n, order
<1>4. SameOps(o, order, o2, order, n)
  BY <1>1 DEF SameOps
<1>5. \A k \in 0 .. n : f[k] = g[k]
  <2>1. n \in Nat /\ n <= n
    BY <1>1
  <2> QED BY <1>2, <1>3, <1>4, <2>1, ReplayUnique
<1> QED BY <1>1, <1>2, <1>3, <1>5

(* Nothing replayed gives the empty index.                                 *)
LEMMA ReplayEmpty == ASSUME NEW o PROVE ReplayOf(o, {}) = EmptyIndex
<1>1. 0 = Cardinality({})
  BY FS_EmptySet
<1>2. PICK f : IsReplay(f, o, Sorted({}, Earlier), 0) /\ ReplayOf(o, {}) = f[0]
  BY <1>1, ReplayIs
<1> QED BY <1>2 DEF IsReplay

(* An op after all others is replayed last.                                *)
LEMMA ReplayLast ==
  ASSUME NEW o, NEW ids \in SUBSET (Nat \X Nat), IsFiniteSet(ids),
         NEW i \in Nat \X Nat, \A j \in ids : Earlier(j, i)
  PROVE  ReplayOf(o, ids \cup {i}) = Replaced(ReplayOf(o, ids), i, o[i])
<1> DEFINE n == Cardinality(ids)
           all == ids \cup {i}
           order == Sorted(ids, Earlier)
           order2 == Sorted(all, Earlier)
           ext == [k \in 1 .. n + 1 |-> IF k = n + 1 THEN i ELSE order[k]]
<1>1. i \notin ids
  BY EarlierOrders
<1>2. all \in SUBSET (Nat \X Nat) /\ IsFiniteSet(all) /\ Cardinality(all) = n + 1 /\ n \in Nat
  BY <1>1, FS_AddElement, FS_CardinalityType
<1>3. InOrder(order, ids, PairsEarlier(ids)) /\ InOrder(order2, all, PairsEarlier(all))
  BY <1>2, SortedIsInOrder
<1>4. /\ order \in [1 .. n -> ids]
      /\ \A j \in 1 .. n : \A k \in 1 .. j - 1 : <<order[k], order[j]>> \in PairsEarlier(ids)
  BY <1>3 DEF InOrder
<1> HIDE DEF order, order2, n
<1>5. ext \in [1 .. n + 1 -> all] /\ ext[n + 1] = i /\ \A k \in 1 .. n : ext[k] = order[k]
  BY <1>2, <1>4
<1> HIDE DEF ext
<1>6. ASSUME NEW j \in 1 .. n + 1, NEW k \in 1 .. j - 1
      PROVE  <<ext[k], ext[j]>> \in PairsEarlier(all)
  <2>1. k \in 1 .. n /\ ext[k] = order[k] /\ order[k] \in ids
    BY <1>2, <1>4, <1>5
  <2>2. CASE j = n + 1
    <3>1. ext[j] = i /\ Earlier(order[k], i)
      BY <1>5, <2>1, <2>2
    <3> QED BY <2>1, <3>1 DEF PairsEarlier
  <2>3. CASE j # n + 1
    <3>1. j \in 1 .. n /\ ext[j] = order[j]
      BY <1>2, <1>5, <2>3
    <3>2. <<order[k], order[j]>> \in PairsEarlier(ids)
      BY <1>4, <3>1
    <3> QED BY <2>1, <3>1, <3>2 DEF PairsEarlier
  <2> QED BY <2>2, <2>3
<1>7. InOrder(ext, all, PairsEarlier(all))
  BY <1>2, <1>5, <1>6 DEF InOrder
<1> HIDE DEF all
<1>8. ext = order2
  BY <1>2, <1>3, <1>7, PairsEarlierOrders, InOrderUnique
<1>9. PICK f : IsReplay(f, o, order, n) /\ ReplayOf(o, ids) = f[n]
  BY <1>2, ReplayIs DEF n, order
<1>10. PICK g : IsReplay(g, o, order2, n + 1) /\ ReplayOf(o, all) = g[n + 1]
  BY <1>2, ReplayIs DEF order2
<1>11. \A k \in 0 .. n : f[k] = g[k]
  <2>1. SameOps(o, order, o, order2, n)
    BY <1>5, <1>8 DEF SameOps
  <2>2. n <= n + 1 /\ n + 1 \in Nat /\ n \in Nat
    BY <1>2
  <2>3. IsReplay(f, o, order, n) /\ IsReplay(g, o, order2, n + 1)
    BY <1>9, <1>10
  <2> QED BY <2>1, <2>2, <2>3, ReplayUnique
<1> DEFINE m == n + 1
<1>12. m \in 1 .. m /\ m \in Nat /\ m - 1 = n /\ n \in 0 .. n /\ order2[m] = i
  BY <1>2, <1>5, <1>8
<1>13. IsReplay(g, o, order2, m) /\ ReplayOf(o, all) = g[m]
  BY <1>10
<1> HIDE DEF m
<1>14. ReplayOf(o, all) = Replaced(g[n], i, o[i])
  <2>1. \A k \in 1 .. m : g[k] = Replaced(g[k - 1], order2[k], o[order2[k]])
    BY <1>12, <1>13, ReplayTakesOp
  <2> QED BY <1>12, <1>13, <2>1
<1>15. g[n] = ReplayOf(o, ids)
  BY <1>9, <1>11, <1>12
<1> QED BY <1>14, <1>15 DEF all

-----------------------------------------------------------------------------
(* An index and the ops it is made from.                                   *)

(* The nodes and counts of an index, without lists.                        *)
OnlyNodes(ix) == [EmptyIndex EXCEPT !.nodes = ix.nodes, !.count = ix.count]

(* The nodes and counts of ix are what replaying ids gives.                *)
Replays(o, ids, ix) == ReplayOf(o, ids) = OnlyNodes(ix)

(* Every place is that of an op replayed, which moved that node there.     *)
PlacesFrom(o, ids, nodes) ==
  \A n \in DOMAIN nodes :
    LET i == nodes[n].op
    IN  i \in ids /\ o[i].node = n /\ o[i].parent = nodes[n].parent

(* A node put at the top or deleted is where that op put it, or a later    *)
(* one.                                                                    *)
TopMovesHold(o, ids, nodes) ==
  \A i \in ids : o[i].parent \in {Root, Deleted} =>
    /\ o[i].node \in DOMAIN nodes
    /\ nodes[o[i].node].op = i \/ Earlier(i, nodes[o[i].node].op)

DocOK(o, ids, ix) ==
  /\ IndexOK(ix)
  /\ Placed(ix.nodes)
  /\ Replays(o, ids, ix)
  /\ PlacesFrom(o, ids, ix.nodes)
  /\ TopMovesHold(o, ids, ix.nodes)

(* What an op does to an index is up to what the op says ...               *)
LEMMA ReplacedUses ==
  ASSUME NEW ix, NEW i, NEW op, NEW op2,
         op.node = op2.node, op.parent = op2.parent, op.fi = op2.fi
  PROVE  /\ Replaced(ix, i, op) = Replaced(ix, i, op2)
         /\ Applied(ix, i, op) = Applied(ix, i, op2)
<1>1. PlaceOf(i, op) = PlaceOf(i, op2)
  BY DEF PlaceOf
<1>2. ClosesCycle(ix, op) <=> ClosesCycle(ix, op2)
  BY DEF ClosesCycle
<1>3. Recount(ix, op) = Recount(ix, op2)
  BY DEF Recount
<1>4. Replaced(ix, i, op) = Replaced(ix, i, op2)
  BY <1>1, <1>2, <1>3 DEF Replaced
<1>5. Applied(ix, i, op) = Applied(ix, i, op2)
  BY <1>1, <1>2, <1>4 DEF Applied
<1> QED BY <1>4, <1>5

(* ... and to the nodes and the counts.                                    *)
LEMMA ReplacedOnlyNodes ==
  ASSUME NEW ix, IndexOK(ix), NEW i, NEW op
  PROVE  Replaced(OnlyNodes(ix), i, op) = OnlyNodes(Replaced(ix, i, op))
<1> DEFINE e == OnlyNodes(ix)
<1>1. e.nodes = ix.nodes /\ e.count = ix.count
  BY DEF EmptyIndex, OnlyNodes
<1>2. ClosesCycle(e, op) <=> ClosesCycle(ix, op)
  <2> HIDE DEF e
  <2> QED BY <1>1 DEF ClosesCycle
<1>3. Recount(e, op) = Recount(ix, op)
  <2> HIDE DEF e
  <2> QED BY <1>1 DEF Recount
<1>4. CASE ClosesCycle(ix, op)
  BY <1>2, <1>4 DEF Replaced
<1>5. CASE ~ClosesCycle(ix, op)
  <2> DEFINE w == WithPlace(ix.nodes, op.node, PlaceOf(i, op))
             c == Recount(ix, op)
  <2>1. Replaced(ix, i, op) = [ix EXCEPT !.nodes = w, !.count = c]
    BY <1>5 DEF Replaced
  <2>2. Replaced(e, i, op) = [e EXCEPT !.nodes = w, !.count = c]
    <3> HIDE DEF e
    <3> QED BY <1>1, <1>2, <1>3, <1>5 DEF Replaced
  <2> HIDE DEF w, c
  <2>3. Replaced(ix, i, op).nodes = w /\ Replaced(ix, i, op).count = c
    BY <2>1 DEF IndexOK
  <2> QED BY <2>2, <2>3 DEF EmptyIndex, OnlyNodes
<1> QED BY <1>4, <1>5

(* An op after all others is replayed or applied.                          *)
LEMMA OpReplayed ==
  ASSUME NEW o, NEW ids \in SUBSET (Nat \X Nat), IsFiniteSet(ids), NEW ix, DocOK(o, ids, ix),
         NEW i \in Nat \X Nat, OpOK(o[i]), \A j \in ids : Earlier(j, i)
  PROVE  DocOK(o, ids \cup {i}, Replaced(ix, i, o[i]))
<1> DEFINE op == o[i]
           r == Replaced(ix, i, op)
           place == PlaceOf(i, op)
           new == WithPlace(ix.nodes, op.node, place)
<1>1. i \notin ids /\ \A n \in DOMAIN ix.nodes : ix.nodes[n].op # i
  BY EarlierOrders DEF DocOK, PlacesFrom
<1>2. IndexOK(r)
  BY ReplayKeepsForest DEF DocOK, OpOK
<1>3. Replays(o, ids \cup {i}, r)
  <2>1. ReplayOf(o, ids \cup {i}) = Replaced(ReplayOf(o, ids), i, op)
    BY ReplayLast
  <2>2. IndexOK(ix) /\ ReplayOf(o, ids) = OnlyNodes(ix)
    BY DEF DocOK, Replays
  <2> HIDE DEF op, r
  <2>3. Replaced(OnlyNodes(ix), i, op) = OnlyNodes(r)
    BY <2>2, ReplacedOnlyNodes DEF r
  <2> QED BY <2>1, <2>2, <2>3 DEF Replays
<1>4. CASE ClosesCycle(ix, op)
  <2>1. r = ix /\ op.parent \notin {Root, Deleted}
    BY <1>4 DEF Replaced, ClosesCycle
  <2>2. Placed(r.nodes) /\ PlacesFrom(o, ids \cup {i}, r.nodes) /\ TopMovesHold(o, ids \cup {i}, r.nodes)
    BY <2>1 DEF DocOK, PlacesFrom, TopMovesHold
  <2> QED BY <1>2, <1>3, <2>2 DEF DocOK
<1>5. CASE ~ClosesCycle(ix, op)
  <2>1. r.nodes = new
    BY <1>5 DEF Replaced, DocOK, IndexOK
  <2>2. /\ op.node \in NodeIds /\ place \in Places /\ place.op = i /\ place.parent = op.parent
        /\ (place.parent # Deleted => place.fi \in Index)
    BY PlaceOfIs DEF OpOK, TreeOp
  <2>3. /\ DOMAIN new = DOMAIN ix.nodes \cup {op.node} /\ new[op.node] = place
        /\ \A m \in DOMAIN ix.nodes \ {op.node} : new[m] = ix.nodes[m]
    BY DEF WithPlace
  <2> HIDE DEF place
  <2>4. Placed(new)
    BY <1>1, <2>2, MoveKeepsPlaced DEF DocOK
  <2> HIDE DEF new
  <2>5. PlacesFrom(o, ids \cup {i}, new)
    BY <2>2, <2>3 DEF PlacesFrom, DocOK
  <2>6. TopMovesHold(o, ids \cup {i}, new)
    <3> SUFFICES ASSUME NEW j \in ids \cup {i}, o[j].parent \in {Root, Deleted}
                 PROVE  /\ o[j].node \in DOMAIN new
                        /\ new[o[j].node].op = j \/ Earlier(j, new[o[j].node].op)
      BY DEF TopMovesHold
    <3>1. CASE o[j].node = op.node
      BY <2>2, <2>3, <3>1
    <3>2. CASE o[j].node # op.node
      <4>1. j \in ids
        BY <3>2
      <4> QED BY <2>3, <3>2, <4>1 DEF DocOK, TopMovesHold
    <3> QED BY <3>1, <3>2
  <2> QED BY <1>2, <1>3, <2>1, <2>4, <2>5, <2>6 DEF DocOK
<1> QED BY <1>4, <1>5

(* The same from ops that are the same, for nodes and counts that are.     *)
LEMMA DocSame ==
  ASSUME NEW o, NEW o2, NEW ids \in SUBSET (Nat \X Nat), IsFiniteSet(ids), \A i \in ids : o[i] = o2[i],
         NEW ix, DocOK(o, ids, ix), NEW ix2, IndexOK(ix2), ix2.nodes = ix.nodes, ix2.count = ix.count
  PROVE  DocOK(o2, ids, ix2)
<1>1. ReplayOf(o, ids) = ReplayOf(o2, ids)
  BY ReplayAgrees
<1>2. Replays(o2, ids, ix2)
  BY <1>1 DEF Replays, OnlyNodes, DocOK
<1>3. PlacesFrom(o2, ids, ix2.nodes) /\ TopMovesHold(o2, ids, ix2.nodes)
  BY DEF DocOK, PlacesFrom, TopMovesHold
<1> QED BY <1>2, <1>3 DEF DocOK

(* The index of no ops.                                                    *)
LEMMA DocEmpty == ASSUME NEW o PROVE DocOK(o, {}, EmptyIndex)
<1>1. Replays(o, {}, EmptyIndex)
  BY ReplayEmpty DEF Replays, OnlyNodes, EmptyIndex
<1>2. Placed(EmptyIndex.nodes)
  BY FS_EmptySet DEF Placed, EmptyIndex
<1>3. PlacesFrom(o, {}, EmptyIndex.nodes) /\ TopMovesHold(o, {}, EmptyIndex.nodes)
  BY DEF PlacesFrom, TopMovesHold, EmptyIndex
<1> QED BY <1>1, <1>2, <1>3, EmptyIsForest DEF DocOK

-----------------------------------------------------------------------------
(* The invariant.                                                          *)

OpsInv ==
  /\ IsFiniteSet(DOMAIN ops) /\ DOMAIN ops \subseteq Nat \X Docs
  /\ \A i \in DOMAIN ops :
       OpOK(ops[i]) /\ ops[i].past \subseteq DOMAIN ops /\ \A j \in ops[i].past : Earlier(j, i)

KnownInv ==
  /\ known \in [Docs -> SUBSET DOMAIN ops]
  /\ \A i \in DOMAIN ops : i \in known[i[2]]

(* The ops a document's index is made from so far.                         *)
Done(d) ==
  IF index[d].built THEN known[d]
  ELSE IF job.kind = "build" /\ job.doc = d THEN known[d] \ job.todo
  ELSE {}

IndexInv ==
  /\ index = [d \in Docs |-> index[d]]
  /\ \A d \in Docs :
       /\ index[d].built \in BOOLEAN
       /\ DocOK(ops, Done(d), index[d])
       /\ index[d].built => Listed(index[d].nodes, index[d].children)

EditOps == {op \in [node : NodeIds, parent : Parents, fi : Index \cup {Absent}] : OpOK(op)}

JobInv ==
  \/ job = NoJob
  \/ /\ job = [kind |-> "build", doc |-> job.doc, todo |-> job.todo]
     /\ job.doc \in Docs /\ ~index[job.doc].built
     /\ job.todo \subseteq known[job.doc]
     /\ \A i \in known[job.doc] \ job.todo, j \in job.todo : Earlier(i, j)
  \/ /\ job = [kind |-> "edit", doc |-> job.doc, todo |-> job.todo, node |-> job.node,
               parent |-> job.parent, at |-> job.at, before |-> job.before]
     /\ job.doc \in Docs /\ index[job.doc].built
     /\ job.todo \in Seq(EditOps)

Inv == OpsInv /\ KnownInv /\ IndexInv /\ JobInv

(* Ops are named by pairs of numbers.                                      *)
LEMMA OpIds ==
  ASSUME OpsInv
  PROVE  DOMAIN ops \subseteq Nat \X Nat
BY DocsAssumption DEF OpsInv

(* A document knows a finite set of ops, its own all of them.              *)
LEMMA KnownType ==
  ASSUME OpsInv, KnownInv, NEW d \in Docs
  PROVE  /\ known[d] \in SUBSET (Nat \X Nat) /\ IsFiniteSet(known[d]) /\ known[d] \subseteq DOMAIN ops
         /\ \A i \in DOMAIN ops : i[2] = d => i \in known[d]
         /\ Done(d) \subseteq known[d] /\ IsFiniteSet(Done(d))
<1>1. known[d] \subseteq DOMAIN ops /\ IsFiniteSet(DOMAIN ops) /\ Done(d) \subseteq known[d]
  BY DEF KnownInv, OpsInv, Done
<1>2. IsFiniteSet(known[d])
  BY <1>1, FS_Subset
<1>3. IsFiniteSet(Done(d))
  BY <1>1, <1>2, FS_Subset
<1> QED BY <1>1, <1>2, <1>3, OpIds DEF KnownInv

(* The next lamport is past those of all ops known.                        *)
LEMMA NextLamportAbove ==
  ASSUME OpsInv, KnownInv, NEW d \in Docs
  PROVE  /\ NextLamport(d) \in Nat
         /\ \A j \in known[d] : j[1] < NextLamport(d)
         /\ \A j \in known[d] : Earlier(j, <<NextLamport(d), d>>)
         /\ <<NextLamport(d), d>> \in Nat \X Docs /\ <<NextLamport(d), d>> \in Nat \X Nat
         /\ <<NextLamport(d), d>> \notin DOMAIN ops
<1> DEFINE n == NextLamport(d)
<1>1. known[d] \in SUBSET (Nat \X Nat) /\ IsFiniteSet(known[d])
      /\ \A i \in DOMAIN ops : i[2] = d => i \in known[d]
  BY KnownType
<1>2. n \in Nat /\ \A j \in known[d] : j[1] < n
  <2>1. CASE known[d] = {}
    BY <2>1 DEF NextLamport
  <2>2. CASE known[d] # {}
    <3>1. PICK m \in known[d] : \A j \in known[d] \ {m} : <<j, m>> \in PairsEarlier(known[d])
      BY <1>1, <2>2, PairsEarlierOrders, GreatestExists
    <3>2. m[1] \in Nat /\ \A j \in known[d] : j[1] \in Nat /\ j[1] <= m[1]
      <4>1. \A j \in known[d] : j[1] \in Nat
        BY <1>1
      <4>2. ASSUME NEW j \in known[d] PROVE j[1] <= m[1]
        <5>1. CASE j = m
          BY <4>1, <5>1
        <5>2. CASE j # m
          <6>1. Earlier(j, m)
            BY <3>1, <5>2 DEF PairsEarlier
          <6> QED BY <4>1, <6>1 DEF Earlier
        <5> QED BY <5>1, <5>2
      <4> QED BY <4>1, <4>2
    <3> DEFINE L == {i[1] : i \in known[d]}
               c == CHOOSE x \in L : \A i \in known[d] : i[1] <= x
    <3>3. m[1] \in L /\ L \subseteq Nat
      <4>1. m[1] \in L
        OBVIOUS
      <4>2. L \subseteq Nat
        BY <3>2
      <4> QED BY <4>1, <4>2
    <3>4. n = c + 1
      BY <2>2 DEF NextLamport
    <3> HIDE DEF L
    <3>5. c \in L /\ \A i \in known[d] : i[1] <= c
      BY <3>2, <3>3
    <3> HIDE DEF c
    <3> QED BY <3>2, <3>3, <3>4, <3>5
  <2> QED BY <2>1, <2>2
<1> HIDE DEF n
<1>3. \A j \in known[d] : Earlier(j, <<n, d>>)
  BY <1>2 DEF Earlier
<1>4. <<n, d>> \in Nat \X Docs /\ <<n, d>> \in Nat \X Nat
  BY <1>2, DocsAssumption
<1>5. <<n, d>> \notin DOMAIN ops
  <2>1. ASSUME <<n, d>> \in DOMAIN ops PROVE FALSE
    <3>1. <<n, d>> \in known[d]
      BY <1>1, <2>1
    <3> QED BY <1>2, <3>1
  <2> QED BY <2>1
<1> QED BY <1>2, <1>3, <1>4, <1>5 DEF n

-----------------------------------------------------------------------------
(* The ops of an edit.                                                     *)

(* The children a node is put among are listed.                            *)
LEMMA OthersIs ==
  ASSUME NEW d, NEW parent \in Parents, parent # Deleted, NEW node,
         Placed(index[d].nodes), Listed(index[d].nodes, index[d].children)
  PROVE  ChildList(index[d].nodes, Siblings(index[d].nodes, parent) \ {node}, Others(d, node, parent))
<1> DEFINE nodes == index[d].nodes
           S == Siblings(nodes, parent)
           kids == index[d].children[parent]
<1>1. S \in SUBSET DOMAIN nodes /\ ChildList(nodes, S, kids)
  BY DEF Listed, Siblings
<1>2. Others(d, node, parent) = RemoveFirst(kids, node)
  BY DEF Others
<1> HIDE DEF S, kids
<1>3. ChildList(nodes, S \ {node}, RemoveFirst(kids, node))
  BY <1>1, RemoveFirstIs
<1> QED BY <1>2, <1>3 DEF S

(* Their indexes are in order.                                             *)
LEMMA IndexesOrdered ==
  ASSUME NEW d, NEW S, NEW kids, Placed(index[d].nodes), ChildList(index[d].nodes, S, kids),
         S \subseteq DOMAIN index[d].nodes, \A n \in S : index[d].nodes[n].parent # Deleted
  PROVE  Ordered(Indexes(d, kids)) /\ Len(Indexes(d, kids)) = Len(kids)
         /\ \A k \in 1 .. Len(kids) : Indexes(d, kids)[k] = index[d].nodes[kids[k]].fi
<1> DEFINE nodes == index[d].nodes
           fis == Indexes(d, kids)
<1>1. kids \in Seq(S) /\ Len(kids) \in Nat /\ DOMAIN kids = 1 .. Len(kids)
      /\ \A k \in 1 .. Len(kids) : kids[k] \in S
  BY DEF ChildList
<1>2. fis = [k \in 1 .. Len(kids) |-> nodes[kids[k]].fi]
  BY <1>1 DEF Indexes
<1>3. \A k \in 1 .. Len(kids) : nodes[kids[k]].fi \in Index
  BY <1>1 DEF Placed
<1> HIDE DEF fis
<1>4. fis \in Seq(Index) /\ Len(fis) = Len(kids)
  BY <1>1, <1>2, <1>3
<1>5. ASSUME NEW k \in 1 .. Len(kids) - 1
      PROVE  fis[k] = fis[k + 1] \/ Less(fis[k], fis[k + 1])
  <2>1. k \in 1 .. Len(kids) /\ k + 1 \in 1 .. Len(kids) /\ k \in 1 .. k + 1 - 1
    BY <1>1
  <2>2. Before(nodes[kids[k]], nodes[kids[k + 1]])
    BY <2>1 DEF ChildList
  <2> QED BY <1>2, <2>1, <2>2 DEF Before
<1> QED BY <1>2, <1>4, <1>5 DEF Ordered, fis

(* An edit that begins is to make ops as they should be.                   *)
LEMMA EditBeginIs ==
  ASSUME OpsInv, KnownInv, IndexInv, NEW d \in Docs, index[d].built, NEW node \in NodeIds,
         NEW parent \in Parents, parent # Deleted, NEW at \in Nat, EditBegin(d, node, parent, at)
  PROVE  /\ \E others, fis :
              /\ others = Others(d, node, parent) /\ at <= Len(others)
              /\ others \in Seq(NodeIds)
              /\ fis \in Positions(Indexes(d, others), at)
              /\ fis \in Seq(Index) /\ fis # <<>> /\ at + Len(fis) - 1 <= Len(others)
              /\ job' = [kind |-> "edit", doc |-> d, todo |->
                           [k \in 1 .. Len(fis) |->
                              [node |-> IF k = 1 THEN node ELSE others[at + k - 1],
                               parent |-> parent, fi |-> fis[k]]],
                         node |-> node, parent |-> parent, at |-> at, before |-> index[d].children]
              /\ job'.todo \in Seq(EditOps)
         /\ UNCHANGED <<ops, known, index>>
<1> DEFINE others == Others(d, node, parent)
           S == Siblings(index[d].nodes, parent) \ {node}
<1>1. Placed(index[d].nodes) /\ Listed(index[d].nodes, index[d].children)
  BY DEF IndexInv, DocOK
<1>2. ChildList(index[d].nodes, S, others)
  BY <1>1, OthersIs
<1>3. S \subseteq DOMAIN index[d].nodes /\ S \subseteq NodeIds
      /\ \A n \in S : index[d].nodes[n].parent # Deleted
  BY <1>1 DEF Siblings, Placed
<1> HIDE DEF S
<1>4. others \in Seq(S) /\ Len(others) \in Nat /\ \A k \in 1 .. Len(others) : others[k] \in NodeIds
  BY <1>2, <1>3 DEF ChildList
<1>5. others \in Seq(NodeIds)
  BY <1>4
<1>6. Ordered(Indexes(d, others)) /\ Len(Indexes(d, others)) = Len(others)
  BY <1>1, <1>2, <1>3, IndexesOrdered
<1>7. at <= Len(others)
      /\ \E fis \in Positions(Indexes(d, others), at) :
           job' = [kind |-> "edit", doc |-> d, todo |->
                     [k \in DOMAIN fis |->
                        [node |-> IF k = 1 THEN node ELSE others[at + k - 1],
                         parent |-> parent, fi |-> fis[k]]],
                   node |-> node, parent |-> parent, at |-> at, before |-> index[d].children]
  BY DEF EditBegin
<1>8. at \in 0 .. Len(Indexes(d, others))
  BY <1>4, <1>6, <1>7
<1>9. PICK fis \in Positions(Indexes(d, others), at) :
           job' = [kind |-> "edit", doc |-> d, todo |->
                     [k \in DOMAIN fis |->
                        [node |-> IF k = 1 THEN node ELSE others[at + k - 1],
                         parent |-> parent, fi |-> fis[k]]],
                   node |-> node, parent |-> parent, at |-> at, before |-> index[d].children]
  BY <1>7
<1> HIDE DEF others
<1>10. fis # <<>> /\ at + Len(fis) - 1 <= Len(others) /\ fis \in Seq(Index)
  BY <1>6, <1>8, PositionsSpread DEF Spread
<1>11. DOMAIN fis = 1 .. Len(fis) /\ Len(fis) \in Nat
  BY <1>10
<1> DEFINE todo == [k \in 1 .. Len(fis) |->
                      [node |-> IF k = 1 THEN node ELSE others[at + k - 1],
                       parent |-> parent, fi |-> fis[k]]]
<1>12. ASSUME NEW k \in 1 .. Len(fis)
       PROVE  todo[k] \in EditOps
  <2>1. (IF k = 1 THEN node ELSE others[at + k - 1]) \in NodeIds
    <3>1. k # 1 => at + k - 1 \in 1 .. Len(others)
      BY <1>4, <1>10, <1>11
    <3> QED BY <1>4, <3>1
  <2>2. fis[k] \in Index
    BY <1>10
  <2> QED BY <2>1, <2>2 DEF EditOps, OpOK, TreeOp
<1>13. todo \in Seq(EditOps) /\ job'.todo = todo
  <2>1. job'.todo = todo
    BY <1>9, <1>11
  <2> HIDE DEF todo
  <2>2. todo = [k \in 1 .. Len(fis) |-> todo[k]]
    BY DEF todo
  <2> QED BY <1>11, <1>12, <2>1, <2>2
<1> QED BY <1>5, <1>7, <1>9, <1>10, <1>11, <1>13 DEF EditBegin, others

(* The first of a set of ops.                                              *)
LEMMA LowestIs ==
  ASSUME NEW S \in SUBSET (Nat \X Nat), IsFiniteSet(S), S # {}
  PROVE  Lowest(S) \in S /\ \A j \in S \ {Lowest(S)} : Earlier(Lowest(S), j)
<1> DEFINE R == {e \in S \X S : Earlier(e[2], e[1])}
<1>1. \A a \in S, b \in S : <<a, b>> \in R <=> Earlier(b, a)
  OBVIOUS
<1>2. \A a \in S : a \in Nat \X Nat
  OBVIOUS
<1> HIDE DEF R
<1>3. Orders(R, S)
  BY <1>1, <1>2, EarlierOrders DEF Orders
<1>4. PICK i \in S : \A j \in S \ {i} : <<j, i>> \in R
  BY <1>3, GreatestExists
<1>5. \A j \in S \ {i} : Earlier(i, j)
  BY <1>1, <1>4
<1> QED BY <1>4, <1>5 DEF Lowest

-----------------------------------------------------------------------------
(* Each action keeps the invariant.                                        *)

(* No document has any op.                                                 *)
LEMMA InitInv == Init => Inv
<1> SUFFICES ASSUME Init PROVE Inv
  OBVIOUS
<1>1. OpsInv /\ KnownInv
  BY FS_EmptySet DEF Init, OpsInv, KnownInv
<1>2. ASSUME NEW d \in Docs
      PROVE  index[d] = EmptyIndex /\ Done(d) = {} /\ index[d].built = FALSE
  BY DEF Init, Done, NoJob, EmptyIndex
<1>3. IndexInv
  BY <1>2, DocEmpty DEF Init, IndexInv
<1>4. JobInv
  BY DEF Init, JobInv
<1> QED BY <1>1, <1>3, <1>4 DEF Inv

(* A build has every op it knows left to replay, on the empty index.       *)
LEMMA BuildBeginInv ==
  ASSUME Inv, NEW d \in Docs, BuildBegin(d)
  PROVE  Inv'
<1>1. /\ job = NoJob /\ ~index[d].built
      /\ job' = [kind |-> "build", doc |-> d, todo |-> known[d]]
      /\ UNCHANGED <<ops, known, index>>
  BY DEF BuildBegin
<1>2. OpsInv' /\ KnownInv'
  BY <1>1 DEF Inv, OpsInv, KnownInv
<1>3. \A e \in Docs : Done(e)' = Done(e)
  BY <1>1 DEF Done, NoJob
<1>4. IndexInv'
  BY <1>1, <1>3 DEF Inv, IndexInv
<1>5. JobInv'
  BY <1>1 DEF JobInv
<1> QED BY <1>2, <1>4, <1>5 DEF Inv

(* It replays the first of those left.                                     *)
LEMMA BuildStepInv ==
  ASSUME Inv, BuildStep
  PROVE  Inv'
<1>0. PICK d \in Docs : d = job.doc
  BY DEF BuildStep, Inv, JobInv, NoJob
<1> DEFINE i == Lowest(job.todo)
           ix == index[d]
<1>1. /\ job.kind = "build" /\ job.todo # {}
      /\ index' = [index EXCEPT ![d] = Replaced(ix, i, ops[i])]
      /\ job' = [job EXCEPT !.todo = job.todo \ {i}]
      /\ UNCHANGED <<ops, known>>
  BY <1>0 DEF BuildStep
<1>2. /\ job = [kind |-> "build", doc |-> d, todo |-> job.todo]
      /\ d \in Docs /\ ~ix.built /\ job.todo \subseteq known[d]
      /\ \A a \in known[d] \ job.todo, b \in job.todo : Earlier(a, b)
  BY <1>0, <1>1 DEF Inv, JobInv, NoJob
<1>3. /\ known[d] \in SUBSET (Nat \X Nat) /\ IsFiniteSet(known[d]) /\ known[d] \subseteq DOMAIN ops
      /\ IsFiniteSet(Done(d)) /\ Done(d) \subseteq known[d]
  BY <1>2, KnownType DEF Inv
<1>4. i \in job.todo /\ \A j \in job.todo \ {i} : Earlier(i, j)
  <2>1. IsFiniteSet(job.todo) /\ job.todo \in SUBSET (Nat \X Nat)
    BY <1>2, <1>3, FS_Subset
  <2> QED BY <1>1, <2>1, LowestIs
<1> HIDE DEF i
<1>5. Done(d) = known[d] \ job.todo
  BY <1>1, <1>2 DEF Done
<1>6. DocOK(ops, Done(d) \cup {i}, Replaced(ix, i, ops[i]))
  <2>1. DocOK(ops, Done(d), ix)
    BY <1>2 DEF Inv, IndexInv
  <2>2. i \in Nat \X Nat /\ OpOK(ops[i])
    BY <1>2, <1>3, <1>4 DEF Inv, OpsInv
  <2>3. \A j \in Done(d) : Earlier(j, i)
    BY <1>2, <1>4, <1>5
  <2>4. Done(d) \in SUBSET (Nat \X Nat)
    BY <1>3
  <2> QED BY <1>3, <2>1, <2>2, <2>3, <2>4, OpReplayed
<1>7. Replaced(ix, i, ops[i]).built = ix.built
  BY <1>2 DEF Replaced, Inv, IndexInv, DocOK, IndexOK
<1>8. job' = [kind |-> "build", doc |-> d, todo |-> job.todo \ {i}]
  BY <1>1, <1>2
<1>9. index' = [e \in Docs |-> index'[e]] /\ index'[d] = Replaced(ix, i, ops[i])
      /\ \A e \in Docs \ {d} : index'[e] = index[e]
  BY <1>1, <1>2 DEF Inv, IndexInv
<1>10. OpsInv' /\ KnownInv'
  BY <1>1 DEF Inv, OpsInv, KnownInv
<1>11. Done(d)' = Done(d) \cup {i}
  <2>1. known[d] \ (job.todo \ {i}) = (known[d] \ job.todo) \cup {i}
    BY <1>2, <1>4
  <2>2. ~index'[d].built /\ job'.kind = "build" /\ job'.doc = d /\ job'.todo = job.todo \ {i}
    BY <1>2, <1>7, <1>8, <1>9
  <2>3. Done(d)' = known[d] \ (job.todo \ {i})
    BY <1>1, <2>2 DEF Done
  <2> QED BY <1>5, <2>1, <2>3
<1>12. ASSUME NEW e \in Docs, e # d
       PROVE  Done(e)' = Done(e)
  BY <1>1, <1>2, <1>8, <1>9, <1>12 DEF Done
<1>13. ASSUME NEW e \in Docs
       PROVE  /\ index'[e].built \in BOOLEAN
              /\ DocOK(ops', Done(e)', index'[e])
              /\ index'[e].built => Listed(index'[e].nodes, index'[e].children)
  <2>1. CASE e = d
    <3>1. ix.built \in BOOLEAN
      BY <1>2 DEF Inv, IndexInv
    <3>2. DocOK(ops', Done(d)', index'[d])
      BY <1>1, <1>6, <1>9, <1>11
    <3> QED BY <1>2, <1>7, <1>9, <2>1, <3>1, <3>2
  <2>2. CASE e # d
    BY <1>1, <1>9, <1>12, <2>2 DEF Inv, IndexInv
  <2> QED BY <2>1, <2>2
<1>14. IndexInv'
  BY <1>9, <1>13 DEF IndexInv
<1>15. JobInv'
  <2>1. job'.todo = job.todo \ {i} /\ job'.doc = d /\ job'.kind = "build"
    BY <1>8
  <2>2. ~index'[d].built /\ job'.todo \subseteq known'[d]
    BY <1>1, <1>2, <1>7, <1>9, <2>1
  <2>3. ASSUME NEW a \in known'[d] \ job'.todo, NEW b \in job'.todo
        PROVE  Earlier(a, b)
    <3>1. a \in known[d] /\ b \in job.todo /\ b # i
      BY <1>1, <2>1
    <3>2. CASE a = i
      BY <1>4, <3>1, <3>2
    <3>3. CASE a # i
      BY <1>2, <2>1, <3>1, <3>3
    <3> QED BY <3>2, <3>3
  <2> QED BY <1>2, <1>8, <2>1, <2>2, <2>3 DEF JobInv
<1> QED BY <1>10, <1>14, <1>15 DEF Inv

(* With none left it sorts the children of every node.                     *)
LEMMA BuildEndInv ==
  ASSUME Inv, BuildEnd
  PROVE  Inv'
<1>0. PICK d \in Docs : d = job.doc
  BY DEF BuildEnd, Inv, JobInv, NoJob
<1> DEFINE ix == index[d]
           new == [ix EXCEPT !.built = TRUE, !.children = SortedChildren(ix.nodes)]
<1>1. /\ job.kind = "build" /\ job.todo = {} /\ job' = NoJob /\ UNCHANGED <<ops, known>>
      /\ index' = [index EXCEPT ![d].built = TRUE, ![d].children = SortedChildren(ix.nodes)]
  BY <1>0 DEF BuildEnd
<1>2. d \in Docs /\ ~ix.built
  BY <1>0, <1>1 DEF Inv, JobInv, NoJob
<1>3. index = [e \in Docs |-> index[e]] /\ DocOK(ops, Done(d), ix) /\ IndexOK(ix) /\ Placed(ix.nodes)
  BY <1>2 DEF Inv, IndexInv, DocOK
<1>4. index'[d] = new /\ index' = [e \in Docs |-> index'[e]]
      /\ \A e \in Docs \ {d} : index'[e] = index[e]
  BY <1>1, <1>2, <1>3
<1>5. /\ new.built = TRUE /\ new.nodes = ix.nodes /\ new.count = ix.count
      /\ new.children = SortedChildren(ix.nodes)
      /\ new \in [built : {new.built}, nodes : {new.nodes}, count : {new.count},
                  children : {new.children}]
  BY <1>3 DEF IndexOK
<1> HIDE DEF new
<1>6. IndexOK(new)
  BY <1>3, <1>5 DEF IndexOK, Counted
<1>7. Done(d) = known[d] /\ Done(d)' = known[d]
  BY <1>0, <1>1, <1>2, <1>4, <1>5 DEF Done
<1>8. DocOK(ops, Done(d), new)
  <2>1. Done(d) \in SUBSET (Nat \X Nat) /\ IsFiniteSet(Done(d))
    BY <1>2, KnownType DEF Inv
  <2> QED BY <1>3, <1>5, <1>6, <2>1, DocSame
<1>9. Listed(new.nodes, new.children)
  BY <1>3, <1>5, SortedIsListed
<1>10. OpsInv' /\ KnownInv' /\ JobInv'
  BY <1>1 DEF Inv, OpsInv, KnownInv, JobInv
<1>11. ASSUME NEW e \in Docs
       PROVE  /\ index'[e].built \in BOOLEAN
              /\ DocOK(ops', Done(e)', index'[e])
              /\ index'[e].built => Listed(index'[e].nodes, index'[e].children)
  <2>1. CASE e = d
    <3>1. index'[e] = index'[d] /\ Done(e)' = Done(d)' /\ Done(d)' = Done(d)
      BY <1>7, <2>1
    <3>2. DocOK(ops', Done(e)', index'[e])
      BY <1>1, <1>4, <1>8, <3>1
    <3>3. index'[e].built \in BOOLEAN /\ Listed(index'[e].nodes, index'[e].children)
      BY <1>4, <1>5, <1>9, <3>1
    <3> QED BY <3>2, <3>3
  <2>2. CASE e # d
    <3>1. Done(e)' = Done(e)
      BY <1>0, <1>1, <1>4, <2>2 DEF Done, NoJob
    <3> QED BY <1>1, <1>4, <2>2, <3>1 DEF Inv, IndexInv
  <2> QED BY <2>1, <2>2
<1>12. IndexInv'
  BY <1>4, <1>11 DEF IndexInv
<1> QED BY <1>10, <1>12 DEF Inv

(* An import drops the index.                                              *)
LEMMA ImportInv ==
  ASSUME Inv, NEW d \in Docs, NEW i \in DOMAIN ops, Import(d, i)
  PROVE  Inv'
<1>1. /\ job = NoJob /\ UNCHANGED <<ops, job>>
      /\ known' = [known EXCEPT ![d] = known[d] \cup ops[i].past \cup {i}]
      /\ index' = [index EXCEPT ![d] = EmptyIndex]
  BY DEF Import
<1>2. OpsInv' /\ JobInv'
  BY <1>1 DEF Inv, OpsInv, JobInv
<1>3. KnownInv'
  <2>1. ops[i].past \subseteq DOMAIN ops
    BY DEF Inv, OpsInv
  <2>2. known \in [Docs -> SUBSET DOMAIN ops] /\ DOMAIN ops \subseteq Nat \X Docs
    BY DEF Inv, KnownInv, OpsInv
  <2>3. known' \in [Docs -> SUBSET DOMAIN ops']
    BY <1>1, <2>1, <2>2
  <2>4. \A j \in DOMAIN ops : j[2] \in Docs /\ known[j[2]] \subseteq known'[j[2]]
    BY <1>1, <2>2
  <2> QED BY <1>1, <2>3, <2>4 DEF Inv, KnownInv
<1>4. index' = [e \in Docs |-> index'[e]] /\ index'[d] = EmptyIndex
      /\ \A e \in Docs \ {d} : index'[e] = index[e] /\ known'[e] = known[e]
  BY <1>1 DEF Inv, IndexInv, KnownInv
<1>5. Done(d)' = {}
  BY <1>1, <1>4 DEF Done, NoJob, EmptyIndex
<1>6. ASSUME NEW e \in Docs
      PROVE  /\ index'[e].built \in BOOLEAN
             /\ DocOK(ops', Done(e)', index'[e])
             /\ index'[e].built => Listed(index'[e].nodes, index'[e].children)
  <2>1. CASE e = d
    <3>1. EmptyIndex.built = FALSE
      BY DEF EmptyIndex
    <3> QED BY <1>4, <1>5, <2>1, <3>1, DocEmpty
  <2>2. CASE e # d
    <3>1. Done(e)' = Done(e)
      BY <1>1, <1>4, <2>2 DEF Done
    <3> QED BY <1>1, <1>4, <2>2, <3>1 DEF Inv, IndexInv
  <2> QED BY <2>1, <2>2
<1>7. IndexInv'
  BY <1>4, <1>6 DEF IndexInv
<1> QED BY <1>2, <1>3, <1>7 DEF Inv

(* An edit that begins changes nothing yet.                                *)
LEMMA EditBegins ==
  ASSUME Inv, job = NoJob, NEW d \in Docs, index[d].built, UNCHANGED <<ops, known, index>>,
         NEW todo \in Seq(EditOps), NEW node, NEW parent, NEW at, NEW before,
         job' = [kind |-> "edit", doc |-> d, todo |-> todo, node |-> node, parent |-> parent,
                 at |-> at, before |-> before]
  PROVE  Inv'
<1>1. OpsInv' /\ KnownInv'
  BY DEF Inv, OpsInv, KnownInv
<1>2. \A e \in Docs : Done(e)' = Done(e)
  BY DEF Done, NoJob
<1>3. IndexInv'
  BY <1>2 DEF Inv, IndexInv
<1>4. JobInv'
  BY DEF JobInv
<1> QED BY <1>1, <1>3, <1>4 DEF Inv

(* A create of a node, named by the next counter of its document ...       *)
LEMMA CreateAtInv ==
  ASSUME Inv, NEW d \in Docs, NEW parent \in NodeIds \cup {Root}, NEW at \in Nat,
         CreateAt(d, parent, at)
  PROVE  Inv'
<1> DEFINE node == <<d, Made(d)>>
<1>1. job = NoJob /\ index[d].built /\ Made(d) < MaxOps[d] /\ EditBegin(d, node, parent, at)
  BY DEF CreateAt
<1>2. parent \in Parents /\ parent # Deleted
  BY RootsAreNoNodes DEF Parents, Root, Deleted
<1>3. Made(d) \in Nat
  BY FS_Subset, FS_CardinalityType DEF Made, Inv, OpsInv
<1>4. node \in NodeIds
  BY <1>1, <1>3, DocsAssumption DEF NodeIds
<1> HIDE DEF node
<1>5. PICK fis : /\ job' = [kind |-> "edit", doc |-> d, todo |-> job'.todo,
                         node |-> node, parent |-> parent, at |-> at, before |-> index[d].children]
              /\ job'.todo \in Seq(EditOps)
              /\ UNCHANGED <<ops, known, index>>
  BY <1>1, <1>2, <1>4, EditBeginIs DEF Inv
<1> QED BY <1>1, <1>5, EditBegins

(* ... a move ...                                                          *)
LEMMA MoveInv ==
  ASSUME Inv, NEW d \in Docs, NEW node \in NodeIds, NEW parent \in NodeIds \cup {Root},
         NEW at \in Nat, Move(d, node, parent, at)
  PROVE  Inv'
<1>1. job = NoJob /\ index[d].built /\ EditBegin(d, node, parent, at)
  BY DEF Move
<1>2. parent \in Parents /\ parent # Deleted
  BY RootsAreNoNodes DEF Parents, Root, Deleted
<1>5. PICK fis : /\ job' = [kind |-> "edit", doc |-> d, todo |-> job'.todo,
                         node |-> node, parent |-> parent, at |-> at, before |-> index[d].children]
              /\ job'.todo \in Seq(EditOps)
              /\ UNCHANGED <<ops, known, index>>
  BY <1>1, <1>2, EditBeginIs DEF Inv
<1> QED BY <1>1, <1>5, EditBegins

(* ... and a delete begin edits.                                           *)
LEMMA DeleteInv ==
  ASSUME Inv, NEW d \in Docs, NEW node \in NodeIds, Delete(d, node)
  PROVE  Inv'
<1> DEFINE op == [node |-> node, parent |-> Deleted, fi |-> Absent]
<1>1. /\ job = NoJob /\ index[d].built /\ UNCHANGED <<ops, known, index>>
      /\ job' = [kind |-> "edit", doc |-> d, todo |-> <<op>>,
                 node |-> node, parent |-> Deleted, at |-> 0, before |-> index[d].children]
  BY DEF Delete
<1>2. Deleted \in Parents
  BY DEF Parents
<1>3. op \in EditOps
  BY <1>2 DEF EditOps, OpOK, TreeOp
<1> HIDE DEF op
<1>4. <<op>> \in Seq(EditOps)
  BY <1>3
<1> QED BY <1>1, <1>4, EditBegins

(* An edit makes an op after all ops known, and applies it as a replay     *)
(* would.                                                                  *)
LEMMA EditStepInv ==
  ASSUME Inv, EditStep
  PROVE  Inv'
<1>0. PICK d \in Docs : d = job.doc
  BY DEF EditStep, Inv, JobInv, NoJob
<1> DEFINE i == <<NextLamport(d), d>>
           op == Head(job.todo)
           ix == index[d]
<1>1. /\ job.kind = "edit" /\ job.todo # <<>>
      /\ ops' = [j \in DOMAIN ops \cup {i} |->
                   IF j = i THEN [node |-> op.node, parent |-> op.parent, fi |-> op.fi,
                                  past |-> known[d]]
                   ELSE ops[j]]
      /\ known' = [known EXCEPT ![d] = known[d] \cup {i}]
      /\ index' = [index EXCEPT ![d] = Applied(ix, i, op)]
      /\ job' = [job EXCEPT !.todo = Tail(job.todo)]
  BY <1>0 DEF EditStep
<1>2. /\ job = [kind |-> "edit", doc |-> d, todo |-> job.todo, node |-> job.node,
                parent |-> job.parent, at |-> job.at, before |-> job.before]
      /\ ix.built /\ job.todo \in Seq(EditOps)
  BY <1>0, <1>1 DEF Inv, JobInv, NoJob
<1>3. op \in EditOps /\ Tail(job.todo) \in Seq(EditOps)
  BY <1>1, <1>2
<1>4. OpOK(op) /\ op = [node |-> op.node, parent |-> op.parent, fi |-> op.fi]
  BY <1>3 DEF EditOps
<1>5. /\ known[d] \in SUBSET (Nat \X Nat) /\ IsFiniteSet(known[d]) /\ known[d] \subseteq DOMAIN ops
      /\ known = [e \in Docs |-> known[e]] /\ Done(d) = known[d]
  <2>1. Done(d) = known[d]
    BY <1>2 DEF Done
  <2> QED BY <2>1, KnownType DEF Inv, KnownInv
<1>6. /\ \A j \in known[d] : Earlier(j, i)
      /\ i \in Nat \X Docs /\ i \in Nat \X Nat /\ i \notin DOMAIN ops /\ i[2] = d
  <2>1. <<NextLamport(d), d>>[2] = d
    OBVIOUS
  <2> QED BY <2>1, NextLamportAbove DEF Inv
<1> HIDE DEF i, op
<1> DEFINE made == [node |-> op.node, parent |-> op.parent, fi |-> op.fi, past |-> known[d]]
<1>7. /\ DOMAIN ops' = DOMAIN ops \cup {i} /\ ops'[i] = made
      /\ \A j \in DOMAIN ops : ops'[j] = ops[j]
  BY <1>1, <1>6
<1>8. /\ made.node = op.node /\ made.parent = op.parent /\ made.fi = op.fi /\ made.past = known[d]
      /\ OpOK(made)
  BY <1>4 DEF OpOK, TreeOp
<1> HIDE DEF made
<1>9. OpsInv'
  <2>1. IsFiniteSet(DOMAIN ops') /\ DOMAIN ops' \subseteq Nat \X Docs
    BY <1>6, <1>7, FS_AddElement DEF Inv, OpsInv
  <2>2. ASSUME NEW j \in DOMAIN ops'
        PROVE  OpOK(ops'[j]) /\ ops'[j].past \subseteq DOMAIN ops' /\ \A k \in ops'[j].past : Earlier(k, j)
    <3>1. CASE j = i
      BY <1>5, <1>6, <1>7, <1>8, <3>1
    <3>2. CASE j # i
      BY <1>7, <3>2 DEF Inv, OpsInv
    <3> QED BY <3>1, <3>2
  <2> QED BY <2>1, <2>2 DEF OpsInv
<1>10. /\ known' = [e \in Docs |-> known'[e]] /\ known'[d] = known[d] \cup {i}
       /\ \A e \in Docs \ {d} : known'[e] = known[e]
  BY <1>1, <1>5
<1>11. KnownInv'
  <2>1. known' \in [Docs -> SUBSET DOMAIN ops']
    <3>1. \A e \in Docs : known'[e] \in SUBSET DOMAIN ops'
      BY <1>5, <1>7, <1>10 DEF Inv, KnownInv
    <3> QED BY <1>10, <3>1
  <2>2. \A j \in DOMAIN ops : j[2] \in Docs /\ j \in known[j[2]]
    BY DEF Inv, OpsInv, KnownInv
  <2>3. \A j \in DOMAIN ops' : j \in known'[j[2]]
    BY <1>6, <1>7, <1>10, <2>2
  <2> QED BY <2>1, <2>3 DEF KnownInv
<1>12. /\ index' = [e \in Docs |-> index'[e]] /\ index'[d] = Applied(ix, i, op)
       /\ \A e \in Docs \ {d} : index'[e] = index[e]
  BY <1>1 DEF Inv, IndexInv
<1>13. /\ DocOK(ops, known[d], ix) /\ Listed(ix.nodes, ix.children) /\ ix.built = TRUE
  <2>1. ix.built \in BOOLEAN /\ DocOK(ops, Done(d), ix)
    BY DEF Inv, IndexInv
  <2> QED BY <1>2, <1>5, <2>1 DEF Inv, IndexInv
<1>14. /\ IndexOK(ix) /\ Placed(ix.nodes)
       /\ \A m \in DOMAIN ix.nodes : ix.nodes[m].op # i
  BY <1>5, <1>6, <1>13 DEF DocOK, PlacesFrom
<1> DEFINE a == Applied(ix, i, op)
           r == Replaced(ix, i, op)
<1>15. a.nodes = r.nodes /\ a.count = r.count /\ a.built = TRUE /\ Listed(a.nodes, a.children)
  BY <1>4, <1>6, <1>13, <1>14, EditKeepsLists
<1>16. r = Replaced(ix, i, ops'[i])
  BY <1>7, <1>8, ReplacedUses
<1>17. IndexOK(a)
  BY <1>4, <1>14, EditKeepsForest DEF OpOK
<1>18. DocOK(ops', known[d] \cup {i}, a)
  <2>1. \A j \in known[d] : ops[j] = ops'[j]
    BY <1>5, <1>7
  <2>2. DocOK(ops', known[d], ix)
    BY <1>5, <1>13, <1>14, <2>1, DocSame
  <2>3. DocOK(ops', known[d] \cup {i}, r)
    <3>1. OpOK(ops'[i])
      BY <1>7, <1>8
    <3>2. DocOK(ops', known[d] \cup {i}, Replaced(ix, i, ops'[i]))
      <4> HIDE DEF r, a
      <4> QED BY <1>5, <1>6, <2>2, <3>1, OpReplayed
    <3> QED BY <1>16, <3>2
  <2> HIDE DEF a, r
  <2>4. known[d] \cup {i} \in SUBSET (Nat \X Nat) /\ IsFiniteSet(known[d] \cup {i})
    BY <1>5, <1>6, FS_AddElement
  <2> QED BY <1>15, <1>17, <2>3, <2>4, DocSame
<1> HIDE DEF a, r
<1>19. ASSUME NEW e \in Docs
       PROVE  /\ index'[e].built \in BOOLEAN
              /\ DocOK(ops', Done(e)', index'[e])
              /\ index'[e].built => Listed(index'[e].nodes, index'[e].children)
  <2>1. CASE e = d
    <3>1. Done(d)' = known[d] \cup {i}
      BY <1>10, <1>12, <1>15 DEF Done, a
    <3> QED BY <1>12, <1>15, <1>18, <2>1, <3>1 DEF a
  <2>2. CASE e # d
    <3>1. job'.kind = "edit" /\ job.kind = "edit"
      BY <1>1, <1>2
    <3>2. Done(e)' = Done(e)
      BY <1>10, <1>12, <2>2, <3>1 DEF Done
    <3>3. Done(e) \in SUBSET (Nat \X Nat) /\ IsFiniteSet(Done(e)) /\ Done(e) \subseteq DOMAIN ops
      BY KnownType DEF Inv
    <3>4. DocOK(ops, Done(e), index[e])
      BY DEF Inv, IndexInv
    <3>5. IndexOK(index[e]) /\ \A j \in Done(e) : ops[j] = ops'[j]
      BY <1>7, <3>3, <3>4 DEF DocOK
    <3>6. DocOK(ops', Done(e), index[e])
      BY <3>3, <3>4, <3>5, DocSame
    <3> QED BY <1>12, <2>2, <3>2, <3>6 DEF Inv, IndexInv
  <2> QED BY <2>1, <2>2
<1>20. IndexInv'
  BY <1>12, <1>19 DEF IndexInv
<1>21. JobInv'
  <2>1. index'[d].built
    BY <1>12, <1>15 DEF a
  <2>2. job' = [kind |-> "edit", doc |-> d, todo |-> Tail(job.todo), node |-> job.node,
                parent |-> job.parent, at |-> job.at, before |-> job.before]
    <3>1. PICK t, n, p, at, b : job = [kind |-> "edit", doc |-> d, todo |-> t, node |-> n,
                                       parent |-> p, at |-> at, before |-> b]
      BY <1>2
    <3> DEFINE rest == Tail(job.todo)
    <3>2. job' = [job EXCEPT !.todo = rest]
      BY <1>1
    <3> HIDE DEF rest
    <3>3. job' = [kind |-> "edit", doc |-> d, todo |-> rest, node |-> n,
                  parent |-> p, at |-> at, before |-> b]
      BY <3>1, <3>2
    <3>4. job.node = n /\ job.parent = p /\ job.at = at /\ job.before = b
      BY <3>1
    <3> QED BY <3>3, <3>4 DEF rest
  <2> QED BY <1>3, <2>1, <2>2 DEF JobInv
<1> QED BY <1>9, <1>11, <1>20, <1>21 DEF Inv

(* An edit that ends leaves all as it is.                                  *)
LEMMA EditEndInv ==
  ASSUME Inv, EditEnd
  PROVE  Inv'
<1>1. job.kind = "edit" /\ job' = NoJob /\ UNCHANGED <<ops, known, index>>
  BY DEF EditEnd
<1>2. OpsInv' /\ KnownInv' /\ JobInv'
  BY <1>1 DEF Inv, OpsInv, KnownInv, JobInv
<1>3. \A e \in Docs : Done(e)' = Done(e)
  BY <1>1 DEF Done, NoJob
<1>4. IndexInv'
  BY <1>1, <1>3 DEF Inv, IndexInv
<1> QED BY <1>2, <1>4 DEF Inv

(* So does a step that changes no variable.                                *)
LEMMA StutterInv == Inv /\ UNCHANGED vars => Inv'
<1> SUFFICES ASSUME Inv, UNCHANGED vars PROVE Inv'
  OBVIOUS
<1>1. UNCHANGED <<ops, known, index, job>>
  BY DEF vars
<1>2. \A e \in Docs : Done(e)' = Done(e)
  BY <1>1 DEF Done
<1> QED BY <1>1, <1>2 DEF Inv, OpsInv, KnownInv, IndexInv, JobInv

-----------------------------------------------------------------------------
(* The invariant holds in every state.                                     *)
THEOREM InvHolds == Spec => []Inv
<1>1. Init => Inv
  BY InitInv
<1>2. Inv /\ [Next]_vars => Inv'
  <2> SUFFICES ASSUME Inv, [Next]_vars PROVE Inv'
    OBVIOUS
  <2>1. CASE UNCHANGED vars
    BY <2>1, StutterInv
  <2>2. CASE BuildStep \/ BuildEnd \/ EditStep \/ EditEnd
    BY <2>2, BuildStepInv, BuildEndInv, EditStepInv, EditEndInv
  <2>3. CASE \E d \in Docs : BuildBegin(d)
    BY <2>3, BuildBeginInv
  <2>4. \A at \in 0 .. Cardinality(NodeIds) : at \in Nat
    OBVIOUS
  <2>5. CASE \E d \in Docs, parent \in NodeIds \cup {Root}, at \in 0 .. Cardinality(NodeIds) :
               CreateAt(d, parent, at)
    BY <2>4, <2>5, CreateAtInv
  <2>6. CASE \E d \in Docs, parent \in NodeIds \cup {Root}, at \in 0 .. Cardinality(NodeIds),
               node \in NodeIds : Move(d, node, parent, at)
    BY <2>4, <2>6, MoveInv
  <2>7. CASE \E d \in Docs, node \in NodeIds : Delete(d, node)
    BY <2>7, DeleteInv
  <2>8. CASE \E d \in Docs : \E i \in DOMAIN ops : Import(d, i)
    BY <2>8, ImportInv
  <2> QED BY <2>1, <2>2, <2>3, <2>5, <2>6, <2>7, <2>8 DEF Next
<1> QED BY <1>1, <1>2, PTL DEF Spec

(* Acyclic: every replay leaves the nodes a forest.                        *)
THEOREM AlwaysAcyclic == Spec => []Acyclic
<1>1. Inv => Acyclic
  BY DEF Inv, IndexInv, DocOK, IndexOK, Acyclic
<1> QED BY <1>1, InvHolds, PTL

(* A node put at the top or deleted is never under a parent that an op    *)
(* seen by the author of that move gave it (sortedOps).                    *)
THEOREM SeenMovesAlwaysLose == Spec => []SeenMovesLose
<1>1. Inv => SeenMovesLose
  <2> SUFFICES ASSUME Inv, NEW d \in Docs, index[d].built, NEW i \in known[d],
                      ops[i].parent \in {Root, Deleted}
               PROVE  index[d].nodes[ops[i].node].op \notin ops[i].past
    BY DEF SeenMovesLose
  <2>1. Done(d) = known[d]
    BY DEF Done
  <2>2. DocOK(ops, Done(d), index[d])
    BY DEF Inv, IndexInv
  <2> DEFINE j == index[d].nodes[ops[i].node].op
  <2>3. j = i \/ Earlier(i, j)
    BY <2>1, <2>2 DEF DocOK, TopMovesHold
  <2>4. j \in known[d]
    BY <2>1, <2>2 DEF DocOK, TopMovesHold, PlacesFrom
  <2>5. i \in Nat \X Nat /\ j \in Nat \X Nat /\ i \in DOMAIN ops
    BY <2>4, KnownType DEF Inv
  <2>6. j \in ops[i].past => Earlier(j, i)
    BY <2>5 DEF Inv, OpsInv
  <2> QED BY <2>3, <2>5, <2>6, EarlierOrders
<1> QED BY <1>1, InvHolds, PTL

(* An index that local ops keep current is the one that a build of the     *)
(* document's ops gives, lists of children included, and the counts of     *)
(* children are exact at every moment (treeIndex.applyLocal, unlink, link  *)
(* and childCount against docState.tree).                                  *)
THEOREM IndexAlwaysReplay == Spec => []IndexIsReplay
<1>1. Inv => IndexIsReplay
  <2> SUFFICES ASSUME Inv PROVE IndexIsReplay
    OBVIOUS
  <2>1. \A d \in Docs : Counted(index[d])
    BY DEF Inv, IndexInv, DocOK, IndexOK
  <2>2. ASSUME NEW d \in Docs, index[d].built
        PROVE  index[d] = Rebuilt(known[d])
    <3> DEFINE ix == index[d]
               last == Replay(known[d])
    <3>1. /\ DocOK(ops, known[d], ix) /\ Listed(ix.nodes, ix.children) /\ ix.built = TRUE
      BY <2>2 DEF Inv, IndexInv, Done
    <3>2. last = ReplayOf(ops, known[d])
      BY DEF Replay, ReplayOf
    <3>3. last = OnlyNodes(ix)
      BY <3>1, <3>2 DEF DocOK, Replays
    <3> HIDE DEF last
    <3>4. last = [built |-> FALSE, nodes |-> ix.nodes, count |-> ix.count,
                  children |-> [p \in Parents |-> <<>>]]
      BY <3>3 DEF OnlyNodes, EmptyIndex
    <3>5. ix.children = SortedChildren(ix.nodes)
      BY <3>1, ListedIsSorted DEF DocOK
    <3>6. ix = [built |-> ix.built, nodes |-> ix.nodes, count |-> ix.count, children |-> ix.children]
      BY <3>1 DEF DocOK, IndexOK
    <3>7. Rebuilt(known[d]) = [last EXCEPT !.built = TRUE, !.children = SortedChildren(last.nodes)]
      BY DEF Rebuilt, last
    <3> QED BY <3>1, <3>4, <3>5, <3>6, <3>7
  <2> QED BY <2>1, <2>2 DEF IndexIsReplay
<1> QED BY <1>1, InvHolds, PTL

-----------------------------------------------------------------------------
(* A document names no node twice.                                         *)

MadeIn(o, d) == Cardinality({i \in DOMAIN o : i[2] = d})

Named(o, n) == n[2] < MadeIn(o, n[1])

OpsNamed ==
  \A i \in DOMAIN ops :
    Named(ops, ops[i].node) /\ (ops[i].parent \in NodeIds => Named(ops, ops[i].parent))

TodoNamed ==
  job.kind = "edit" =>
    \A k \in DOMAIN job.todo :
      /\ Named(ops, job.todo[k].node) \/ job.todo[k].node = <<job.doc, Made(job.doc)>>
      /\ job.todo[k].parent \in NodeIds => Named(ops, job.todo[k].parent)

NamesInv == OpsNamed /\ TodoNamed

(* The nodes of an index, and their parents, have been named.              *)
LEMMA IndexNamed ==
  ASSUME Inv, OpsNamed, NEW d \in Docs, NEW n \in DOMAIN index[d].nodes
  PROVE  /\ Named(ops, n)
         /\ index[d].nodes[n].parent \in NodeIds => Named(ops, index[d].nodes[n].parent)
<1>1. Done(d) \subseteq DOMAIN ops /\ DocOK(ops, Done(d), index[d])
  BY KnownType DEF Inv, IndexInv
<1> QED BY <1>1 DEF DocOK, PlacesFrom, OpsNamed

(* An op adds one to the number its document has made.                     *)
LEMMA MadeNext ==
  ASSUME Inv, NEW d \in Docs, NEW i, i \notin DOMAIN ops, i[2] = d,
         DOMAIN ops' = DOMAIN ops \cup {i}
  PROVE  /\ Made(d) \in Nat /\ Made(d)' = Made(d) + 1
         /\ \A e : e # d => Made(e)' = Made(e)
         /\ \A n \in NodeIds : Named(ops, n) \/ n = <<d, Made(d)>> => Named(ops', n)
<1> DEFINE S(e) == {j \in DOMAIN ops : j[2] = e}
           T(e) == {j \in DOMAIN ops \cup {i} : j[2] = e}
<1>1. \A e : Made(e) = Cardinality(S(e)) /\ Made(e)' = Cardinality(T(e))
  BY DEF Made
<1>2. T(d) = S(d) \cup {i} /\ i \notin S(d)
  OBVIOUS
<1>3. \A e : e # d => T(e) = S(e)
  OBVIOUS
<1>4. \A e : IsFiniteSet(S(e))
  BY FS_Subset DEF Inv, OpsInv
<1> HIDE DEF S, T
<1>5. \A e : Made(e) \in Nat
  BY <1>1, <1>4, FS_CardinalityType
<1>6. Made(d)' = Made(d) + 1
  BY <1>1, <1>2, <1>4, FS_AddElement
<1>7. \A e : e # d => Made(e)' = Made(e)
  BY <1>1, <1>3
<1>8. ASSUME NEW n \in NodeIds, Named(ops, n) \/ n = <<d, Made(d)>>
      PROVE  Named(ops', n)
  <2>0. \A e : Made(e) = MadeIn(ops, e) /\ Made(e)' = MadeIn(ops', e)
    BY DEF Made, MadeIn
  <2>1. n[2] \in Nat
    BY DocsAssumption DEF NodeIds
  <2>2. CASE n[1] = d
    <3>1. n[2] < Made(d) \/ n[2] = Made(d)
      BY <1>8, <2>0, <2>2 DEF Named
    <3>2. n[2] < Made(d) + 1
      BY <1>5, <2>1, <3>1
    <3> QED BY <1>6, <2>0, <2>2, <3>2 DEF Named
  <2>3. CASE n[1] # d
    <3>1. Named(ops, n)
      BY <1>8, <2>3
    <3> QED BY <1>7, <2>0, <2>3, <3>1 DEF Named
  <2> QED BY <2>2, <2>3
<1> QED BY <1>5, <1>6, <1>7, <1>8

-----------------------------------------------------------------------------
(* An edit under way has done the first m ops of its plan.                 *)
EditAt(pl, m) ==
  /\ pl.node = job.node /\ pl.parent = job.parent /\ pl.at = job.at
  /\ Listed(pl.nodes, job.before) /\ Plan(pl)
  /\ pl.parent # Deleted => pl.others = RemoveFirst(job.before[pl.parent], pl.node)
  /\ m \in 0 .. Len(pl.fis)
  /\ job.todo = [k \in 1 .. Len(pl.fis) - m |->
                   [node |-> Goes(pl, m + k), parent |-> pl.parent, fi |-> pl.fis[m + k]]]
  /\ Moved(pl, index[job.doc].nodes, m)
  /\ m = 0 => ~ClosesCycle(index[job.doc], [node |-> pl.node, parent |-> pl.parent])

EditInv == job.kind = "edit" => \E pl, m : EditAt(pl, m)

(* An edit that begins has its plan before it.                             *)
LEMMA EditBeginLands ==
  ASSUME Inv, NamesInv, NEW d \in Docs, index[d].built, NEW node \in NodeIds,
         NEW parent \in DOMAIN index[d].nodes \cup {Root}, NEW at \in Nat,
         EditBegin(d, node, parent, at), Named(ops, node) \/ node = <<d, Made(d)>>,
         ~ClosesCycle(index[d], [node |-> node, parent |-> parent])
  PROVE  NamesInv' /\ EditInv'
<1> DEFINE S == Siblings(index[d].nodes, parent) \ {node}
           kids == index[d].children[parent]
<1>1. /\ Placed(index[d].nodes) /\ Listed(index[d].nodes, index[d].children)
      /\ DOMAIN index[d].nodes \subseteq NodeIds
  BY DEF Inv, IndexInv, DocOK, IndexOK
<1>2. parent \in Parents /\ parent # Deleted /\ (parent \in NodeIds => Named(ops, parent))
  <2>1. parent \in Parents /\ parent # Deleted
    <3>1. parent \in NodeIds \cup {Root}
      BY <1>1
    <3>2. Root # Deleted
      BY DEF Root, Deleted
    <3> QED BY <3>1, <3>2, RootsAreNoNodes DEF Parents
  <2>2. ASSUME parent \in NodeIds PROVE Named(ops, parent)
    BY <2>2, IndexNamed, RootsAreNoNodes DEF NamesInv
  <2> QED BY <2>1, <2>2
<1>3. PICK others, fis :
        /\ others = Others(d, node, parent) /\ at <= Len(others)
        /\ fis \in Positions(Indexes(d, others), at)
        /\ fis \in Seq(Index) /\ fis # <<>> /\ at + Len(fis) - 1 <= Len(others)
        /\ job' = [kind |-> "edit", doc |-> d, todo |->
                     [k \in 1 .. Len(fis) |->
                        [node |-> IF k = 1 THEN node ELSE others[at + k - 1],
                         parent |-> parent, fi |-> fis[k]]],
                   node |-> node, parent |-> parent, at |-> at, before |-> index[d].children]
        /\ UNCHANGED <<ops, known, index>>
  BY <1>2, EditBeginIs DEF Inv
<1>4. ChildList(index[d].nodes, S, others)
  BY <1>1, <1>2, <1>3, OthersIs
<1>5. /\ S \subseteq DOMAIN index[d].nodes /\ S \subseteq NodeIds
      /\ \A n \in S : index[d].nodes[n].parent # Deleted /\ Named(ops, n)
  <2>1. S \subseteq DOMAIN index[d].nodes /\ \A n \in S : index[d].nodes[n].parent = parent
    BY DEF Siblings
  <2> QED BY <1>1, <1>2, <2>1, IndexNamed DEF NamesInv
<1> HIDE DEF S
<1>6. others \in Seq(S) /\ Len(others) \in Nat /\ \A k \in 1 .. Len(others) : others[k] \in S
  BY <1>4 DEF ChildList
<1>7. /\ Ordered(Indexes(d, others)) /\ Len(Indexes(d, others)) = Len(others)
      /\ \A k \in 1 .. Len(others) : Indexes(d, others)[k] = index[d].nodes[others[k]].fi
  <2>1. /\ Placed(index[d].nodes) /\ ChildList(index[d].nodes, S, others)
        /\ S \subseteq DOMAIN index[d].nodes
    BY <1>1, <1>4, <1>5
  <2>2. \A n \in S : index[d].nodes[n].parent # Deleted
    BY <1>5
  <2>3. Ordered(Indexes(d, others)) /\ Len(Indexes(d, others)) = Len(others)
    BY <2>1, <2>2, IndexesOrdered
  <2>4. ASSUME NEW k \in 1 .. Len(others)
        PROVE  Indexes(d, others)[k] = index[d].nodes[others[k]].fi
    BY <1>6 DEF Indexes
  <2> QED BY <2>3, <2>4
<1> DEFINE L == Len(fis)
<1>8. L \in Nat \ {0} /\ DOMAIN fis = 1 .. L
  BY <1>3
<1>9. \A k \in 1 .. L : k # 1 => at + k - 1 \in 1 .. Len(others)
  BY <1>3, <1>6, <1>8
<1>10. Spread(fis, IF at > 0 THEN index[d].nodes[others[at]].fi ELSE Absent,
              IF at + L <= Len(others) THEN index[d].nodes[others[at + L]].fi ELSE Absent, L)
  <2> DEFINE ixs == Indexes(d, others)
             left == IF at > 0 THEN ixs[at] ELSE Absent
             right == IF at + L <= Len(ixs) THEN ixs[at + L] ELSE Absent
  <2>1. at \in 0 .. Len(ixs)
    BY <1>3, <1>6, <1>7
  <2> HIDE DEF ixs
  <2>2. Spread(fis, left, right, L)
    <3> DEFINE m == at + L - 1
    <3>1. fis \in Positions(ixs, at) /\ Ordered(ixs)
      BY <1>3, <1>7 DEF ixs
    <3>2. Spread(fis, left, IF m < Len(ixs) THEN ixs[m + 1] ELSE Absent, L)
      BY <2>1, <3>1, PositionsSpread
    <3>3. m + 1 = at + L /\ (m < Len(ixs) <=> at + L <= Len(ixs))
      BY <1>8, <2>1
    <3> HIDE DEF m, L
    <3> QED BY <3>2, <3>3
  <2>3. at > 0 => ixs[at] = index[d].nodes[others[at]].fi
    BY <1>3, <1>6, <1>7 DEF ixs
  <2>4. at + L <= Len(others) => ixs[at + L] = index[d].nodes[others[at + L]].fi
    BY <1>3, <1>6, <1>7, <1>8 DEF ixs
  <2>5. Len(ixs) = Len(others)
    BY <1>7 DEF ixs
  <2> HIDE DEF L
  <2> QED BY <2>2, <2>3, <2>4, <2>5
<1>11. PICK pl : pl = [nodes |-> index[d].nodes, node |-> node, parent |-> parent, at |-> at,
                       others |-> others, fis |-> fis]
  OBVIOUS
<1>12. /\ pl.nodes = index[d].nodes /\ pl.node = node /\ pl.parent = parent /\ pl.at = at
       /\ pl.others = others /\ pl.fis = fis
  BY <1>11
<1>13. Plan(pl)
  <2>1. Stay(pl) = S
    BY <1>12 DEF Stay, S
  <2>2. at + L - 1 <= Len(others)
    BY <1>3
  <2> QED BY <1>1, <1>2, <1>4, <1>8, <1>10, <1>12, <2>1, <2>2 DEF Plan
<1>14. Moved(pl, index[d].nodes, 0)
  <2>1. \A k \in 1 .. 0 : FALSE
    OBVIOUS
  <2>2. {Goes(pl, k) : k \in 1 .. 0} = {}
    BY <2>1
  <2> QED BY <1>12, <2>1, <2>2 DEF Moved
<1> DEFINE todo == [k \in 1 .. L |-> [node |-> IF k = 1 THEN node ELSE others[at + k - 1],
                                      parent |-> parent, fi |-> fis[k]]]
<1>15. /\ job'.kind = "edit" /\ job'.doc = d /\ job'.todo = todo /\ job'.node = node
       /\ job'.parent = parent /\ job'.at = at /\ job'.before = index[d].children
  BY <1>3
<1>16. EditAt(pl, 0)'
  <2>1. todo = [k \in 1 .. L - 0 |->
                  [node |-> Goes(pl, 0 + k), parent |-> pl.parent, fi |-> pl.fis[0 + k]]]
    <3>1. L - 0 = L /\ \A k \in 1 .. L : 0 + k = k
      BY <1>8
    <3>2. \A k \in 1 .. L : Goes(pl, k) = IF k = 1 THEN node ELSE others[at + k - 1]
      BY <1>12 DEF Goes
    <3> HIDE DEF L
    <3> QED BY <1>12, <3>1, <3>2
  <2>2. 0 \in 0 .. L
    BY <1>8
  <2>3. others = RemoveFirst(kids, node)
    BY <1>3 DEF Others
  <2>4. index' = index
    BY <1>3
  <2> HIDE DEF todo
  <2> QED BY <1>1, <1>12, <1>13, <1>14, <1>15, <2>1, <2>2, <2>3, <2>4 DEF EditAt
<1>17. EditInv'
  BY <1>16 DEF EditInv
<1>18. \A n : Named(ops', n) <=> Named(ops, n)
  BY <1>3 DEF Named, MadeIn
<1>19. TodoNamed'
  <2>1. DOMAIN todo = 1 .. L
    OBVIOUS
  <2>2. Made(d)' = Made(d)
    BY <1>3 DEF Made
  <2>3. ASSUME NEW k \in 1 .. L
        PROVE  /\ Named(ops, todo[k].node) \/ todo[k].node = <<d, Made(d)>>
               /\ todo[k].parent = parent
    <3>1. k # 1 => Named(ops, others[at + k - 1])
      BY <1>5, <1>6, <1>9
    <3> QED BY <3>1
  <2> HIDE DEF todo
  <2> QED BY <1>2, <1>15, <1>18, <2>1, <2>2, <2>3 DEF TodoNamed
<1>20. OpsNamed'
  BY <1>3, <1>18 DEF NamesInv, OpsNamed
<1> QED BY <1>17, <1>19, <1>20 DEF NamesInv

(* A node that is created is no node's parent yet.                         *)
LEMMA CreateAtLands ==
  ASSUME Inv, NamesInv, NEW d \in Docs, NEW parent \in NodeIds \cup {Root}, NEW at \in Nat,
         CreateAt(d, parent, at)
  PROVE  NamesInv' /\ EditInv'
<1> DEFINE ix == index[d]
<1>1. PICK node : node = <<d, Made(d)>>
  OBVIOUS
<1>2. index[d].built /\ Made(d) < MaxOps[d] /\ EditBegin(d, node, parent, at)
      /\ parent \in DOMAIN ix.nodes \cup {Root}
  BY <1>1 DEF CreateAt
<1>3. Made(d) \in Nat
  BY FS_Subset, FS_CardinalityType DEF Made, Inv, OpsInv
<1>4. node \in NodeIds
  BY <1>1, <1>2, <1>3, DocsAssumption DEF NodeIds
<1>5. ~Named(ops, node)
  BY <1>1, <1>3 DEF Named, MadeIn, Made
<1>6. node \notin DOMAIN ix.nodes /\ Siblings(ix.nodes, node) = {}
  BY <1>4, <1>5, IndexNamed DEF NamesInv, Siblings
<1>7. ix.count[node] = 0
  <2>1. ix.count[node] = Cardinality(Siblings(ix.nodes, node))
    BY <1>4 DEF Inv, IndexInv, DocOK, IndexOK, Counted, Parents
  <2> QED BY <1>6, <2>1, FS_EmptySet
<1>8. ~ClosesCycle(ix, [node |-> node, parent |-> parent])
  <2>1. parent = Root \/ parent # node
    BY <1>2, <1>6
  <2> QED BY <1>7, <2>1 DEF ClosesCycle
<1> QED BY <1>1, <1>2, <1>4, <1>8, EditBeginLands

(* A node that moves was named before.                                     *)
LEMMA MoveLands ==
  ASSUME Inv, NamesInv, NEW d \in Docs, NEW node \in NodeIds, NEW parent \in NodeIds \cup {Root},
         NEW at \in Nat, Move(d, node, parent, at)
  PROVE  NamesInv' /\ EditInv'
<1>1. /\ index[d].built /\ EditBegin(d, node, parent, at) /\ node \in DOMAIN index[d].nodes
      /\ parent \in DOMAIN index[d].nodes \cup {Root}
      /\ ~ClosesCycle(index[d], [node |-> node, parent |-> parent])
  BY DEF Move
<1>2. Named(ops, node)
  BY <1>1, IndexNamed DEF NamesInv
<1> QED BY <1>1, <1>2, EditBeginLands

(* A delete is a plan of one op.                                           *)
LEMMA DeleteLands ==
  ASSUME Inv, NamesInv, NEW d \in Docs, NEW node \in NodeIds, Delete(d, node)
  PROVE  NamesInv' /\ EditInv'
<1> DEFINE op == [node |-> node, parent |-> Deleted, fi |-> Absent]
<1>1. /\ index[d].built /\ UNCHANGED <<ops, known, index>> /\ node \in DOMAIN index[d].nodes
      /\ job' = [kind |-> "edit", doc |-> d, todo |-> <<op>>,
                 node |-> node, parent |-> Deleted, at |-> 0, before |-> index[d].children]
  BY DEF Delete
<1>2. Placed(index[d].nodes) /\ Listed(index[d].nodes, index[d].children)
  BY <1>1 DEF Inv, IndexInv, DocOK
<1>3. PICK pl : pl = [nodes |-> index[d].nodes, node |-> node, parent |-> Deleted, at |-> 0,
                      others |-> <<>>, fis |-> <<Absent>>]
  OBVIOUS
<1>4. /\ pl.nodes = index[d].nodes /\ pl.node = node /\ pl.parent = Deleted /\ pl.at = 0
      /\ pl.fis = <<Absent>> /\ Len(pl.fis) = 1
  BY <1>3
<1>5. Plan(pl)
  BY <1>2, <1>4 DEF Plan, Parents
<1>6. Moved(pl, index[d].nodes, 0)
  <2>1. \A k \in 1 .. 0 : FALSE
    OBVIOUS
  <2>2. {Goes(pl, k) : k \in 1 .. 0} = {}
    BY <2>1
  <2> QED BY <1>4, <2>1, <2>2 DEF Moved
<1>7. ~ClosesCycle(index[d], [node |-> pl.node, parent |-> pl.parent])
  BY <1>4 DEF ClosesCycle
<1>8. /\ job'.kind = "edit" /\ job'.doc = d /\ job'.todo = <<op>> /\ job'.node = node
      /\ job'.parent = Deleted /\ job'.at = 0 /\ job'.before = index[d].children
  BY <1>1
<1>9. <<op>> = [k \in 1 .. Len(pl.fis) - 0 |->
                  [node |-> Goes(pl, 0 + k), parent |-> pl.parent, fi |-> pl.fis[0 + k]]]
  <2>1. Goes(pl, 1) = node /\ pl.fis[1] = Absent
    BY <1>4 DEF Goes
  <2>2. Len(pl.fis) - 0 = 1 /\ \A k \in 1 .. 1 : k = 1 /\ 0 + k = 1
    BY <1>4
  <2>3. <<op>> = [k \in 1 .. 1 |-> op]
    OBVIOUS
  <2> HIDE DEF op
  <2>4. op = [node |-> Goes(pl, 1), parent |-> pl.parent, fi |-> pl.fis[1]]
    BY <1>4, <2>1 DEF op
  <2> QED BY <2>2, <2>3, <2>4
<1>10. EditAt(pl, 0)'
  <2>1. 0 \in 0 .. Len(pl.fis)
    BY <1>4
  <2>2. index' = index
    BY <1>1
  <2> HIDE DEF op
  <2> QED BY <1>2, <1>4, <1>5, <1>6, <1>7, <1>8, <1>9, <2>1, <2>2 DEF EditAt
<1>11. \A n : Named(ops', n) <=> Named(ops, n)
  BY <1>1 DEF Named, MadeIn
<1>12. TodoNamed'
  <2>1. Named(ops, node)
    BY <1>1, IndexNamed DEF NamesInv
  <2>2. \A k \in DOMAIN <<op>> : <<op>>[k].node = node /\ <<op>>[k].parent = Deleted
    OBVIOUS
  <2> HIDE DEF op
  <2> QED BY <1>8, <1>11, <2>1, <2>2, RootsAreNoNodes DEF TodoNamed
<1>13. OpsNamed'
  BY <1>1, <1>11 DEF NamesInv, OpsNamed
<1> QED BY <1>10, <1>12, <1>13 DEF NamesInv, EditInv

-----------------------------------------------------------------------------
(* The next op of a plan closes no cycle: the node itself was looked at    *)
(* when the edit began, the others stay under the parent they have.        *)
LEMMA PlanClosesNoCycle ==
  ASSUME NEW ix, IndexOK(ix), NEW pl, NEW m \in 0 .. Len(pl.fis) - 1, Plan(pl), Moved(pl, ix.nodes, m),
         m = 0 => ~ClosesCycle(ix, [node |-> pl.node, parent |-> pl.parent]),
         NEW op, op.node = Goes(pl, m + 1), op.parent = pl.parent
  PROVE  ~ClosesCycle(ix, op)
<1>1. Len(pl.fis) \in Nat /\ m + 1 \in 1 .. Len(pl.fis) /\ m \in Nat
  BY DEF Plan
<1>2. CASE m = 0
  <2>1. op.node = pl.node
    BY <1>2 DEF Goes
  <2> QED BY <1>2, <2>1 DEF ClosesCycle
<1>3. CASE m # 0
  <2> DEFINE n == Goes(pl, m + 1)
  <2>1. m + 1 # 1 /\ \A k \in 1 .. m : k \in 1 .. Len(pl.fis) /\ k # m + 1
    BY <1>1, <1>3
  <2>2. n \in Stay(pl) /\ \A k \in 1 .. m : n # Goes(pl, k)
    BY <1>1, <2>1, GoesOnce
  <2>3. n \in DOMAIN ix.nodes /\ ix.nodes[n].parent = pl.parent
    BY <2>2 DEF Stay, Siblings, Moved
  <2>4. ~IsAncestor(ix.nodes, n, pl.parent)
    BY <2>3, ParentNotBelow DEF IndexOK
  <2> QED BY <2>4 DEF ClosesCycle
<1> QED BY <1>2, <1>3

(* The next op of an edit is the next op of its plan.                      *)
LEMMA EditStepLands ==
  ASSUME Inv, NamesInv, EditInv, EditStep
  PROVE  NamesInv' /\ EditInv'
<1>0. PICK d \in Docs : d = job.doc
  BY DEF EditStep, Inv, JobInv, NoJob
<1>1. PICK i, op :
        /\ i = <<NextLamport(d), d>> /\ op = Head(job.todo)
        /\ job.kind = "edit" /\ job.todo # <<>>
        /\ ops' = [j \in DOMAIN ops \cup {i} |->
                     IF j = i THEN [node |-> op.node, parent |-> op.parent, fi |-> op.fi,
                                    past |-> known[d]]
                     ELSE ops[j]]
        /\ index' = [index EXCEPT ![d] = Applied(index[d], i, op)]
        /\ job' = [job EXCEPT !.todo = Tail(job.todo)]
  BY <1>0 DEF EditStep
<1>2. PICK pl, m : EditAt(pl, m)
  BY <1>1 DEF EditInv
<1> DEFINE L == Len(pl.fis)
           rest == Tail(job.todo)
<1>3. /\ Plan(pl) /\ L \in Nat \ {0} /\ m \in 0 .. L
      /\ job.todo = [k \in 1 .. L - m |->
                       [node |-> Goes(pl, m + k), parent |-> pl.parent, fi |-> pl.fis[m + k]]]
      /\ Moved(pl, index[d].nodes, m)
      /\ m = 0 => ~ClosesCycle(index[d], [node |-> pl.node, parent |-> pl.parent])
  BY <1>0, <1>2 DEF EditAt, Plan
<1>4. job.todo \in Seq(EditOps) /\ index[d].built
  BY <1>0, <1>1 DEF Inv, JobInv, NoJob
<1>5. m \in 0 .. L - 1
  <2>1. CASE m = L
    <3>1. 1 .. L - m = {}
      BY <1>3, <2>1
    <3>2. DOMAIN job.todo = 1 .. L - m
      BY <1>3
    <3>3. 1 \in DOMAIN job.todo
      BY <1>1, <1>4
    <3> QED BY <3>1, <3>2, <3>3
  <2> HIDE DEF L
  <2> QED BY <1>3, <2>1
<1>6. op = [node |-> Goes(pl, m + 1), parent |-> pl.parent, fi |-> pl.fis[m + 1]]
  <2>1. op = job.todo[1]
    BY <1>1, <1>4
  <2>2. 1 \in 1 .. L - m
    BY <1>3, <1>5
  <2> HIDE DEF L
  <2> QED BY <1>3, <2>1, <2>2
<1>7. op \in EditOps /\ rest \in Seq(EditOps) /\ Len(rest) = Len(job.todo) - 1
      /\ Len(job.todo) \in Nat
      /\ \A k \in 1 .. Len(job.todo) - 1 : rest[k] = job.todo[k + 1] /\ k + 1 \in 1 .. Len(job.todo)
  BY <1>1, <1>4
<1>8. /\ job'.kind = "edit" /\ job'.doc = d /\ job'.todo = rest /\ job'.node = job.node
      /\ job'.parent = job.parent /\ job'.at = job.at /\ job'.before = job.before
  <2>1. job = [kind |-> "edit", doc |-> d, todo |-> job.todo, node |-> job.node,
               parent |-> job.parent, at |-> job.at, before |-> job.before]
    BY <1>0, <1>1 DEF Inv, JobInv, NoJob
  <2>2. PICK t, n, p, at, b : job = [kind |-> "edit", doc |-> d, todo |-> t, node |-> n,
                                     parent |-> p, at |-> at, before |-> b]
    BY <2>1
  <2>3. job' = [job EXCEPT !.todo = rest]
    BY <1>1
  <2> HIDE DEF rest
  <2>4. job' = [kind |-> "edit", doc |-> d, todo |-> rest, node |-> n,
                parent |-> p, at |-> at, before |-> b]
    BY <2>2, <2>3
  <2> QED BY <2>2, <2>4
<1>9. i \notin DOMAIN ops /\ i[2] = d /\ DOMAIN ops' = DOMAIN ops \cup {i}
  <2>1. <<NextLamport(d), d>>[2] = d
    OBVIOUS
  <2> QED BY <1>1, <2>1, NextLamportAbove DEF Inv
<1>10. IndexOK(index[d])
  BY DEF Inv, IndexInv, DocOK
<1>11. ~ClosesCycle(index[d], op)
  <2>1. op.node = Goes(pl, m + 1) /\ op.parent = pl.parent
    BY <1>6
  <2> QED BY <1>3, <1>5, <1>10, <2>1, PlanClosesNoCycle
<1>12. index'[d].nodes = WithPlace(index[d].nodes, op.node, PlaceOf(i, op))
  <2>1. index'[d] = Applied(index[d], i, op)
    BY <1>1 DEF Inv, IndexInv
  <2>2. /\ index[d] = [built |-> index[d].built, nodes |-> index[d].nodes,
                       count |-> index[d].count, children |-> index[d].children]
    BY <1>10 DEF IndexOK
  <2> DEFINE nodes == WithPlace(index[d].nodes, op.node, PlaceOf(i, op))
             count == Recount(index[d], op)
             r == Replaced(index[d], i, op)
             kids == Linked(r.nodes, Unlinked(index[d], op.node), op.node, PlaceOf(i, op))
  <2>3. r = [index[d] EXCEPT !.nodes = nodes, !.count = count]
    BY <1>11 DEF Replaced
  <2>4. Applied(index[d], i, op) = [r EXCEPT !.children = kids]
    BY <1>11 DEF Applied
  <2> HIDE DEF nodes, count, r, kids
  <2>5. r = [built |-> index[d].built, nodes |-> nodes, count |-> count, children |-> index[d].children]
    BY <2>2, <2>3
  <2>6. [r EXCEPT !.children = kids].nodes = nodes
    BY <2>5
  <2> QED BY <2>1, <2>4, <2>6 DEF nodes
<1>13. Moved(pl, index'[d].nodes, m + 1)
  <2>1. PlaceOf(i, op).parent = pl.parent /\ PlaceOf(i, op).fi = pl.fis[m + 1] /\ op.node = Goes(pl, m + 1)
    BY <1>6 DEF PlaceOf
  <2>2. m \in Nat /\ m < Len(pl.fis)
    BY <1>3, <1>5
  <2> QED BY <1>3, <1>12, <2>1, <2>2, MovedNext
<1>14. rest = [k \in 1 .. L - (m + 1) |->
                 [node |-> Goes(pl, m + 1 + k), parent |-> pl.parent, fi |-> pl.fis[m + 1 + k]]]
  <2>1. L - m \in Nat /\ L - (m + 1) = L - m - 1
    BY <1>3, <1>5
  <2>2. Len(job.todo) = L - m
    <3> HIDE DEF L
    <3> QED BY <1>3, <1>7, <2>1
  <2>3. DOMAIN rest = 1 .. L - (m + 1) /\ rest = [k \in DOMAIN rest |-> rest[k]]
    BY <1>7, <2>1, <2>2
  <2>4. ASSUME NEW k \in 1 .. L - (m + 1)
        PROVE  rest[k] = [node |-> Goes(pl, m + 1 + k), parent |-> pl.parent, fi |-> pl.fis[m + 1 + k]]
    <3>1. k + 1 \in 1 .. L - m /\ m + (k + 1) = m + 1 + k /\ k \in 1 .. Len(job.todo) - 1
      <4> DEFINE a == L - m
      <4>1. a \in Nat /\ k \in 1 .. a - 1 /\ Len(job.todo) = a /\ m \in Int
        BY <1>3, <2>1, <2>2
      <4> HIDE DEF a, L
      <4>2. k + 1 \in 1 .. a /\ m + (k + 1) = m + 1 + k
        BY <4>1
      <4> QED BY <4>1, <4>2 DEF a
    <3> HIDE DEF L, rest
    <3>2. rest[k] = job.todo[k + 1]
      BY <1>7, <3>1
    <3> QED BY <1>3, <3>1, <3>2
  <2> HIDE DEF rest
  <2> QED BY <2>3, <2>4
<1> HIDE DEF rest
<1>15. EditAt(pl, m + 1)'
  <2>1. m + 1 \in 0 .. L /\ m + 1 # 0
    BY <1>3, <1>5
  <2> QED BY <1>2, <1>8, <1>13, <1>14, <2>1 DEF EditAt
<1>16. EditInv'
  BY <1>15 DEF EditInv
<1>17. /\ \A n \in NodeIds : Named(ops, n) \/ n = <<d, Made(d)>> => Named(ops', n)
  BY <1>9, MadeNext
<1>18. ASSUME NEW k \in DOMAIN job.todo
       PROVE  /\ Named(ops', job.todo[k].node)
              /\ job.todo[k].parent \in NodeIds => Named(ops', job.todo[k].parent)
  <2>1. job.todo[k].node \in NodeIds
    BY <1>4 DEF EditOps
  <2>2. /\ Named(ops, job.todo[k].node) \/ job.todo[k].node = <<d, Made(d)>>
        /\ job.todo[k].parent \in NodeIds => Named(ops, job.todo[k].parent)
    BY <1>0, <1>1 DEF NamesInv, TodoNamed
  <2> QED BY <1>17, <2>1, <2>2
<1>19. OpsNamed'
  <2>1. op.node \in NodeIds /\ Named(ops', op.node) /\ (op.parent \in NodeIds => Named(ops', op.parent))
    <3>1. 1 \in DOMAIN job.todo /\ op = job.todo[1]
      BY <1>1, <1>4
    <3> QED BY <1>7, <1>18, <3>1 DEF EditOps
  <2>2. ASSUME NEW j \in DOMAIN ops'
        PROVE  Named(ops', ops'[j].node) /\ (ops'[j].parent \in NodeIds => Named(ops', ops'[j].parent))
    <3>1. CASE j = i
      <4>1. ops'[j].node = op.node /\ ops'[j].parent = op.parent
        BY <1>1, <3>1
      <4> QED BY <2>1, <4>1
    <3>2. CASE j # i
      <4>1. j \in DOMAIN ops /\ ops'[j] = ops[j]
        BY <1>1, <1>9, <3>2
      <4>2. ops[j].node \in NodeIds
        BY <4>1 DEF Inv, OpsInv, OpOK, TreeOp
      <4> QED BY <1>17, <4>1, <4>2 DEF NamesInv, OpsNamed
    <3> QED BY <3>1, <3>2
  <2> QED BY <2>2 DEF OpsNamed
<1>20. TodoNamed'
  <2>1. ASSUME NEW k \in DOMAIN rest
        PROVE  Named(ops', rest[k].node) /\ (rest[k].parent \in NodeIds => Named(ops', rest[k].parent))
    <3>1. k \in 1 .. Len(job.todo) - 1
      BY <1>7
    <3>2. rest[k] = job.todo[k + 1] /\ k + 1 \in DOMAIN job.todo
      BY <1>4, <1>7, <3>1
    <3> QED BY <1>18, <3>2
  <2> QED BY <1>8, <2>1 DEF TodoNamed
<1> QED BY <1>16, <1>19, <1>20 DEF NamesInv

(* A step that makes no op and leaves no edit under way.                   *)
LEMMA NoEditLands ==
  ASSUME NamesInv, ops' = ops, job'.kind # "edit"
  PROVE  NamesInv' /\ EditInv'
<1>1. \A n : Named(ops', n) <=> Named(ops, n)
  BY DEF Named, MadeIn
<1> QED BY <1>1 DEF NamesInv, OpsNamed, TodoNamed, EditInv

(* An edit whose plan is done has put its node where it was asked to.      *)
LEMMA PlanDone ==
  ASSUME Inv, EditInv
  PROVE  LandsWhereAsked
<1> SUFFICES ASSUME job.kind = "edit", job.todo = <<>>
             PROVE  LET now == index[job.doc].children
                        without(s) == RemoveFirst(s, job.node)
                    IN  /\ job.parent # Deleted =>
                             /\ job.at < Len(now[job.parent])
                             /\ now[job.parent][job.at + 1] = job.node
                        /\ \A p \in Parents : without(now[p]) = without(job.before[p])
                        /\ \A p \in Parents \ {job.parent} : now[p] = without(now[p])
  BY DEF LandsWhereAsked
<1>1. PICK pl, m : EditAt(pl, m)
  BY DEF EditInv
<1> DEFINE nodes == index[job.doc].nodes
           now == index[job.doc].children
           L == Len(pl.fis)
           without(s) == RemoveFirst(s, job.node)
<1>2. /\ Placed(nodes) /\ Listed(nodes, now)
  <2>1. job.doc \in Docs /\ index[job.doc].built
    BY DEF Inv, JobInv, NoJob
  <2> QED BY <2>1 DEF Inv, IndexInv, DocOK
<1>3. /\ Plan(pl) /\ L \in Nat \ {0} /\ m \in 0 .. L /\ Listed(pl.nodes, job.before)
      /\ pl.node = job.node /\ pl.parent = job.parent /\ pl.at = job.at
      /\ pl.parent # Deleted => pl.others = RemoveFirst(job.before[pl.parent], pl.node)
  BY <1>1 DEF EditAt, Plan
<1>4. m = L
  <2>1. DOMAIN job.todo = 1 .. L - m
    BY <1>1 DEF EditAt
  <2>2. ~(1 \in 1 .. L - m)
    BY <2>1
  <2> HIDE DEF L
  <2>3. L \in Nat /\ m \in 0 .. L
    BY <1>3
  <2> QED BY <2>2, <2>3
<1>5. Moved(pl, nodes, L)
  BY <1>1, <1>4 DEF EditAt
<1> HIDE DEF nodes, now
<1>6. /\ \A p \in Parents : p # Deleted => ChildList(nodes, Siblings(nodes, p), now[p])
      /\ \A p \in Parents : p # Deleted => ChildList(pl.nodes, Siblings(pl.nodes, p), job.before[p])
      /\ Deleted \in Parents => now[Deleted] = <<>> /\ job.before[Deleted] = <<>>
  BY <1>2, <1>3 DEF Listed
<1>7. ASSUME pl.parent # Deleted
      PROVE  /\ pl.at < Len(now[pl.parent]) /\ now[pl.parent][pl.at + 1] = pl.node
             /\ without(now[pl.parent]) = without(job.before[pl.parent])
  <2> DEFINE s == pl.others
             i == pl.at + 1
             T == Siblings(nodes, pl.parent)
             e == pl.node
             kids == InsertAt(s, i, e)
             all == Stay(pl) \cup {e}
  <2>1. T \in SUBSET DOMAIN nodes /\ pl.parent \in Parents
    BY <1>3 DEF Siblings, Plan
  <2>2. ChildList(nodes, T, kids) /\ ChildList(nodes, T, now[pl.parent])
    BY <1>3, <1>5, <1>6, <1>7, <2>1, Landed
  <2>3. kids = now[pl.parent]
    <3> HIDE DEF T, kids
    <3> QED BY <1>2, <2>1, <2>2, ChildListUnique
  <2>4. /\ s \in Seq(Stay(pl)) /\ pl.at \in Nat /\ pl.at + L - 1 <= Len(s)
    BY <1>3, <1>7 DEF Plan, ChildList
  <2> HIDE DEF s
  <2>5. s \in Seq(all) /\ e \in all /\ i \in 1 .. Len(s) + 1 /\ Len(s) \in Nat
    <3> HIDE DEF L
    <3> QED BY <1>3, <2>4
  <2> HIDE DEF i, e, all
  <2>6. Len(kids) = Len(s) + 1 /\ kids[i] = e /\ i \in 1 .. Len(kids)
    <3>1. /\ Len(InsertAt(s, i, e)) = Len(s) + 1
          /\ \A j \in 1 .. Len(s) + 1 : InsertAt(s, i, e)[j] =
               IF j < i THEN s[j] ELSE IF j = i THEN e ELSE s[j - 1]
      BY <2>5, InsertAtIs
    <3>2. i \in 1 .. Len(s) + 1 /\ ~(i < i)
      BY <2>5
    <3> QED BY <3>1, <3>2
  <2>7. RemoveAt(kids, i) = s
    BY <2>5, RemoveInserted
  <2>8. RemoveFirst(kids, e) = RemoveAt(kids, i)
    <3> HIDE DEF T, kids
    <3> QED BY <1>2, <2>1, <2>2, <2>6, RemoveFirstIs, ZenonT(60)
  <2>9. without(now[pl.parent]) = without(job.before[pl.parent])
    BY <1>3, <1>7, <2>3, <2>7, <2>8 DEF s, e
  <2>10. pl.at < Len(kids)
    <3> HIDE DEF kids
    <3> QED BY <2>4, <2>6 DEF i
  <2> QED BY <2>3, <2>6, <2>9, <2>10 DEF i, e
<1>8. ASSUME NEW p \in Parents \ {pl.parent}
      PROVE  now[p] = without(now[p]) /\ now[p] = without(job.before[p])
  <2>1. CASE p = Deleted
    <3>1. ~\E i \in 1 .. Len(<<>>) : <<>>[i] = job.node
      OBVIOUS
    <3>2. RemoveFirst(<<>>, job.node) = <<>>
      BY <3>1 DEF RemoveFirst
    <3> QED BY <1>6, <2>1, <3>2
  <2>2. CASE p # Deleted
    <3> DEFINE T == Siblings(nodes, p)
               old == job.before[p]
               rest == RemoveFirst(old, pl.node)
    <3>1. T \in SUBSET DOMAIN nodes
      BY DEF Siblings
    <3>2. ChildList(nodes, T, now[p]) /\ ChildList(pl.nodes, Siblings(pl.nodes, p), old)
      BY <1>6, <2>2
    <3> HIDE DEF old
    <3>3. T = Siblings(pl.nodes, p) \ {pl.node} /\ ChildList(nodes, T, rest)
      BY <1>3, <1>5, <3>2, LeftBehind
    <3>4. pl.node \notin T
      BY <3>3
    <3> HIDE DEF T, rest
    <3>5. now[p] = rest
      BY <1>2, <3>1, <3>2, <3>3, ChildListUnique
    <3>6. RemoveFirst(now[p], pl.node) = now[p]
      <4> DEFINE e == pl.node
                 kids == now[p]
      <4>1. e \notin T /\ ChildList(nodes, T, kids)
        BY <3>2, <3>4
      <4> HIDE DEF e, kids
      <4>2. RemoveFirst(kids, e) = kids
        BY <1>2, <3>1, <4>1, RemoveFirstIs, ZenonT(60)
      <4> QED BY <4>2 DEF e, kids
    <3> QED BY <1>3, <3>5, <3>6 DEF rest, old
  <2> QED BY <2>1, <2>2
<1>9. \A p \in Parents : without(now[p]) = without(job.before[p])
  <2>1. pl.parent = Deleted => now[pl.parent] = job.before[pl.parent]
    BY <1>3, <1>6 DEF Plan
  <2> HIDE DEF without
  <2> QED BY <1>7, <1>8, <2>1
<1> HIDE DEF without
<1> QED BY <1>3, <1>7, <1>8, <1>9 DEF now, without

(* A node that is created or moved lands where it was asked to, the others *)
(* stay in their order under the parents they had, and a node deleted is   *)
(* listed nowhere, although an edit may be many ops: the siblings that     *)
(* share an index with the one before are moved too (Tree.CreateAt, Move,  *)
(* Delete and treeIndex.positions, applyLocal).                            *)
THEOREM AlwaysLands == Spec => []LandsWhereAsked
<1>1. Init => NamesInv /\ EditInv
  <2> SUFFICES ASSUME Init PROVE NamesInv /\ EditInv
    OBVIOUS
  <2>1. DOMAIN ops = {} /\ job.kind # "edit"
    BY DEF Init, NoJob
  <2> QED BY <2>1 DEF NamesInv, OpsNamed, TodoNamed, EditInv
<1>2. Inv /\ NamesInv /\ EditInv /\ [Next]_vars => NamesInv' /\ EditInv'
  <2> SUFFICES ASSUME Inv, NamesInv, EditInv, [Next]_vars PROVE NamesInv' /\ EditInv'
    OBVIOUS
  <2>1. CASE UNCHANGED vars
    <3>1. UNCHANGED <<ops, known, index, job>>
      BY <2>1 DEF vars
    <3>2. NamesInv'
      BY <3>1 DEF NamesInv, OpsNamed, TodoNamed, Made
    <3>3. \A pl, m : EditAt(pl, m) => EditAt(pl, m)'
      BY <3>1 DEF EditAt
    <3>4. EditInv'
      BY <3>1, <3>3 DEF EditInv
    <3> QED BY <3>2, <3>4
  <2>2. CASE BuildStep
    <3>1. ops' = ops /\ job.kind = "build" /\ job' = [job EXCEPT !.todo = @ \ {Lowest(@)}]
      BY <2>2 DEF BuildStep
    <3>2. job = [kind |-> "build", doc |-> job.doc, todo |-> job.todo]
      BY <3>1 DEF Inv, JobInv, NoJob
    <3>3. job'.kind # "edit"
      BY <3>1, <3>2
    <3> QED BY <3>1, <3>3, NoEditLands
  <2>3. CASE BuildEnd \/ EditEnd
    BY <2>3, NoEditLands DEF BuildEnd, EditEnd, NoJob
  <2>4. CASE EditStep
    BY <2>4, EditStepLands
  <2>5. CASE \E d \in Docs : BuildBegin(d)
    BY <2>5, NoEditLands DEF BuildBegin
  <2>6. \A at \in 0 .. Cardinality(NodeIds) : at \in Nat
    OBVIOUS
  <2>7. CASE \E d \in Docs, parent \in NodeIds \cup {Root}, at \in 0 .. Cardinality(NodeIds) :
               CreateAt(d, parent, at)
    BY <2>6, <2>7, CreateAtLands
  <2>8. CASE \E d \in Docs, parent \in NodeIds \cup {Root}, at \in 0 .. Cardinality(NodeIds),
               node \in NodeIds : Move(d, node, parent, at)
    BY <2>6, <2>8, MoveLands
  <2>9. CASE \E d \in Docs, node \in NodeIds : Delete(d, node)
    BY <2>9, DeleteLands
  <2>10. CASE \E d \in Docs : \E i \in DOMAIN ops : Import(d, i)
    BY <2>10, NoEditLands DEF Import, NoJob
  <2> QED BY <2>1, <2>2, <2>3, <2>4, <2>5, <2>7, <2>8, <2>9, <2>10 DEF Next
<1>3. Inv /\ NamesInv /\ EditInv => LandsWhereAsked
  BY PlanDone
<1> QED BY <1>1, <1>2, <1>3, InvHolds, PTL DEF Spec


-----------------------------------------------------------------------------
(* What a document shows.                                                  *)

(* f is e, F[e], F[F[e]] and so on, n times.                               *)
Repeats(f, S, e, F, n) ==
  /\ f \in [0 .. n -> S]
  /\ f[0] = e
  /\ \A k \in 0 .. n : k # 0 => f[k] = F[f[k - 1]]

(* There is such a sequence.                                               *)
LEMMA RepeatDefined ==
  ASSUME NEW S, NEW e \in S, NEW F \in [S -> S], NEW n \in Nat
  PROVE  \E f : Repeats(f, S, e, F, n)
<1> DEFINE Is(f, m) == Repeats(f, S, e, F, m)
           N == {m \in Nat : \E f : Is(f, m)}
<1>1. 0 \in N
  <2>1. Is([k \in 0 .. 0 |-> e], 0)
    BY DEF Repeats
  <2> HIDE DEF Is
  <2> QED BY <2>1
<1>2. ASSUME NEW m \in N
      PROVE  m + 1 \in N
  <2>1. m \in Nat /\ m + 1 \in Nat
    OBVIOUS
  <2>2. PICK f : Is(f, m)
    OBVIOUS
  <2> DEFINE g == [k \in 0 .. m + 1 |-> IF k = m + 1 THEN F[f[m]] ELSE f[k]]
  <2>3. f[m] \in S /\ \A k \in 0 .. m : g[k] = f[k]
    BY <2>1, <2>2 DEF Repeats
  <2>4. g \in [0 .. m + 1 -> S] /\ g[m + 1] = F[f[m]]
    BY <2>1, <2>2, <2>3 DEF Repeats
  <2> HIDE DEF g
  <2>5. g[0] = e
    BY <2>1, <2>2, <2>3 DEF Repeats
  <2>6. ASSUME NEW k \in 0 .. m + 1, k # 0
        PROVE  g[k] = F[g[k - 1]]
    <3>1. k - 1 \in 0 .. m /\ g[k - 1] = f[k - 1]
      BY <2>1, <2>3, <2>6
    <3>2. CASE k = m + 1
      BY <2>1, <2>4, <3>1, <3>2
    <3>3. CASE k # m + 1
      <4>1. k \in 0 .. m
        BY <2>1, <3>3
      <4> QED BY <2>2, <2>3, <2>6, <3>1, <4>1 DEF Repeats
    <3> QED BY <3>2, <3>3
  <2>7. Is(g, m + 1)
    BY <2>4, <2>5, <2>6 DEF Repeats
  <2> HIDE DEF Is
  <2> QED BY <2>1, <2>7
<1>3. N = Nat
  <2> HIDE DEF N
  <2>1. N \in SUBSET Nat
    BY DEF N
  <2> QED BY <1>1, <1>2, <2>1, NatSetInduction
<1> QED BY <1>3

(* There are finitely many nodes to name, and more parents than nodes.     *)
LEMMA ParentsFinite ==
  /\ IsFiniteSet(NodeIds) /\ IsFiniteSet(Parents)
  /\ Cardinality(NodeIds) \in Nat /\ Cardinality(Parents) \in Nat
  /\ Cardinality(NodeIds) < Cardinality(Parents)
<1> DEFINE Of(d) == {d} \X (0 .. MaxOps[d] - 1)
           All == {Of(d) : d \in Docs}
<1>1. ASSUME NEW d \in Docs
      PROVE  IsFiniteSet(Of(d))
  <2>1. 0 \in Int /\ MaxOps[d] - 1 \in Int
    BY DocsAssumption
  <2>2. IsFiniteSet(0 .. MaxOps[d] - 1)
    BY <2>1, FS_Interval
  <2>3. IsFiniteSet({d})
    BY FS_Singleton
  <2> QED BY <2>2, <2>3, FS_Product
<1> HIDE DEF Of
<1>2. IsFiniteSet(All)
  <2> DEFINE f == [d \in Docs |-> Of(d)]
  <2>1. f \in Surjection(Docs, All)
    BY DEF Surjection
  <2> HIDE DEF f, All
  <2> QED BY <2>1, DocsAssumption, FS_Surjection
<1>3. \A T \in All : IsFiniteSet(T)
  BY <1>1
<1>4. IsFiniteSet(UNION All)
  <2> HIDE DEF All
  <2> QED BY <1>2, <1>3, FS_UNION
<1>5. IsFiniteSet(NodeIds)
  BY <1>4 DEF NodeIds, Of
<1>6. /\ IsFiniteSet(NodeIds \cup {Root})
      /\ Cardinality(NodeIds \cup {Root}) = Cardinality(NodeIds) + 1
  BY <1>5, RootsAreNoNodes, FS_AddElement
<1>7. Deleted \notin NodeIds \cup {Root}
  BY RootsAreNoNodes DEF Root, Deleted
<1>8. /\ IsFiniteSet(Parents)
      /\ Cardinality(Parents) = Cardinality(NodeIds \cup {Root}) + 1
  <2>1. Parents = (NodeIds \cup {Root}) \cup {Deleted}
    BY DEF Parents
  <2> QED BY <1>6, <1>7, <2>1, FS_AddElement
<1>9. Cardinality(NodeIds) \in Nat
  BY <1>5, FS_CardinalityType
<1> QED BY <1>5, <1>6, <1>8, <1>9

(* The walk of wouldCycle: n steps up from a parent, never past a node.    *)
Walks(at, nodes, op, n) ==
  at = [k \in 0 .. n |->
          IF k = 0 THEN op.parent
          ELSE LET m == at[k - 1]
               IN  IF m \in DOMAIN nodes \ {op.node} THEN nodes[m].parent ELSE m]

(* There is such a walk ...                                                *)
LEMMA WalkIs ==
  ASSUME NEW nodes, NEW op, op.parent \in Parents,
         \A m \in DOMAIN nodes : nodes[m].parent \in Parents, NEW n \in Nat
  PROVE  \E at \in [0 .. n -> Parents] : Walks(at, nodes, op, n)
<1> DEFINE F == [m \in Parents |->
                   IF m \in DOMAIN nodes \ {op.node} THEN nodes[m].parent ELSE m]
<1>1. F \in [Parents -> Parents]
  OBVIOUS
<1>2. PICK f : Repeats(f, Parents, op.parent, F, n)
  <2> HIDE DEF F
  <2> QED BY <1>1, RepeatDefined
<1> DEFINE W(k) == IF k = 0 THEN op.parent
                   ELSE LET m == f[k - 1]
                        IN  IF m \in DOMAIN nodes \ {op.node} THEN nodes[m].parent ELSE m
<1>3. ASSUME NEW k \in 0 .. n
      PROVE  f[k] = W(k)
  <2>1. CASE k = 0
    BY <1>2, <2>1 DEF Repeats
  <2>2. CASE k # 0
    <3>1. k - 1 \in 0 .. n /\ f[k - 1] \in Parents
      BY <1>2, <2>2 DEF Repeats
    <3> QED BY <1>2, <2>2, <3>1 DEF Repeats
  <2> QED BY <2>1, <2>2
<1>4. f = [k \in 0 .. n |-> W(k)]
  <2> HIDE DEF W
  <2> QED BY <1>2, <1>3 DEF Repeats
<1> QED BY <1>2, <1>4 DEF Repeats, Walks, W

(* ... each step of it goes up from where it is ...                        *)
LEMMA WalkSteps ==
  ASSUME NEW nodes, NEW op, NEW n \in Nat, NEW at, Walks(at, nodes, op, n), NEW k \in 0 .. n, k # n
  PROVE  at[k + 1] = IF at[k] \in DOMAIN nodes \ {op.node} THEN nodes[at[k]].parent ELSE at[k]
<1>1. k + 1 \in 0 .. n /\ k + 1 # 0 /\ k + 1 - 1 = k
  OBVIOUS
<1> QED BY <1>1 DEF Walks

(* ... and it stays where it can go no further.                            *)
LEMMA WalkStays ==
  ASSUME NEW nodes, NEW op, NEW n \in Nat, NEW at, Walks(at, nodes, op, n),
         NEW j \in 0 .. n, at[j] \notin DOMAIN nodes \ {op.node}
  PROVE  at[n] = at[j]
<1> DEFINE N == {m \in Nat : j + m <= n => at[j + m] = at[j]}
<1>1. 0 \in N
  OBVIOUS
<1>2. ASSUME NEW m \in N
      PROVE  m + 1 \in N
  <2>1. m \in Nat /\ m + 1 \in Nat /\ j + (m + 1) = j + m + 1
    OBVIOUS
  <2>2. ASSUME j + (m + 1) <= n
        PROVE  at[j + (m + 1)] = at[j]
    <3>1. j + m \in 0 .. n /\ j + m # n /\ j + m <= n
      BY <2>1, <2>2
    <3>2. at[j + m] = at[j]
      BY <3>1
    <3> DEFINE k == j + m
    <3>3. k \in 0 .. n /\ k # n
      BY <3>1
    <3> HIDE DEF N, k
    <3>4. at[k + 1] = IF at[k] \in DOMAIN nodes \ {op.node} THEN nodes[at[k]].parent ELSE at[k]
      BY <3>3, WalkSteps
    <3> QED BY <2>1, <3>2, <3>4 DEF k
  <2> QED BY <2>1, <2>2
<1>3. N = Nat
  <2> HIDE DEF N
  <2>1. N \in SUBSET Nat
    BY DEF N
  <2> QED BY <1>1, <1>2, <2>1, NatSetInduction
<1> DEFINE m == n - j
<1>4. m \in Nat /\ j + m <= n /\ j + m = n
  OBVIOUS
<1>5. m \in N
  <2> HIDE DEF N, m
  <2> QED BY <1>3, <1>4
<1>6. at[j + m] = at[j]
  <2> HIDE DEF m
  <2> QED BY <1>4, <1>5
<1> QED BY <1>4, <1>6

(* In a forest a walk of as many steps as there are nodes comes to an end: *)
(* it meets the node it looks for or leaves the nodes.                     *)
LEMMA WalkEnds ==
  ASSUME NEW nodes, Forest(nodes), IsFiniteSet(DOMAIN nodes), NEW op, NEW n \in Nat,
         Cardinality(DOMAIN nodes) <= n, NEW at, Walks(at, nodes, op, n)
  PROVE  at[n] \notin DOMAIN nodes \ {op.node}
<1> SUFFICES ASSUME at[n] \in DOMAIN nodes \ {op.node} PROVE FALSE
  OBVIOUS
<1>1. ASSUME NEW j \in 0 .. n
      PROVE  at[j] \in DOMAIN nodes \ {op.node}
  BY WalkStays
<1> DEFINE I == 0 .. n
           D == DOMAIN nodes
<1>2. IsFiniteSet(I) /\ Cardinality(I) = n + 1
  <2>1. 0 \in Int /\ n \in Int
    OBVIOUS
  <2>2. IsFiniteSet(0 .. n) /\ Cardinality(0 .. n) = IF 0 > n THEN 0 ELSE n - 0 + 1
    BY <2>1, FS_Interval
  <2> QED BY <2>2
<1>3. DOMAIN at = I
  BY DEF Walks
<1>4. at = [j \in I |-> at[j]]
  BY DEF Walks
<1>5. at \in [I -> D]
  BY <1>1, <1>4
<1>6. Cardinality(D) < Cardinality(I)
  <2>1. Cardinality(D) \in Nat
    BY FS_CardinalityType
  <2> HIDE DEF I, D
  <2> QED BY <1>2, <2>1 DEF D
<1>7. PICK x \in I, y \in I : x # y /\ at[x] = at[y]
  <2>1. IsFiniteSet(D)
    OBVIOUS
  <2> HIDE DEF I, D
  <2> QED BY <1>2, <1>5, <1>6, <2>1, FS_PigeonHole
<1>8. PICK a \in 0 .. n, b \in 0 .. n : a < b /\ at[a] = at[b]
  <2>1. CASE x < y
    BY <1>7, <2>1
  <2>2. CASE y < x
    BY <1>7, <2>2
  <2> QED BY <1>7, <2>1, <2>2
<1> DEFINE S == {at[k] : k \in a .. b - 1}
<1>9. a \in a .. b - 1 /\ \A k \in a .. b - 1 : k \in 0 .. n /\ k # n /\ (k + 1 \in a .. b - 1 \/ k + 1 = b)
  BY <1>8
<1>10. S \in SUBSET DOMAIN nodes /\ S # {} /\ at[a] \in S
  BY <1>1, <1>9
<1>11. ASSUME NEW k \in a .. b - 1
       PROVE  nodes[at[k]].parent \in S
  <2>1. nodes[at[k]].parent = at[k + 1]
    BY <1>1, <1>9, WalkSteps
  <2>2. CASE k + 1 \in a .. b - 1
    BY <2>1, <2>2
  <2>3. CASE k + 1 = b
    BY <1>8, <1>10, <2>1, <2>3
  <2> QED BY <1>9, <2>2, <2>3
<1>12. \A m \in S : nodes[m].parent \in S
  BY <1>11
<1> HIDE DEF S
<1> QED BY <1>10, <1>12 DEF Forest

(* A walk that begins at a node which node is above meets node, and no     *)
(* other does.                                                             *)
LEMMA WalkFinds ==
  ASSUME NEW nodes, Forest(nodes), IsFiniteSet(DOMAIN nodes), NEW op, op.parent # op.node,
         NEW n \in Nat, Cardinality(DOMAIN nodes) <= n, NEW at, Walks(at, nodes, op, n)
  PROVE  at[n] = op.node <=> IsAncestor(nodes, op.node, op.parent)
<1>1. 0 \in 0 .. n /\ n \in 0 .. n /\ at[0] = op.parent
  BY DEF Walks
<1>2. ASSUME at[n] = op.node, op.parent \notin DOMAIN nodes
      PROVE  FALSE
  BY <1>1, <1>2, WalkStays
<1>3. ASSUME at[n] = op.node, op.parent \in DOMAIN nodes,
             NEW S \in SUBSET DOMAIN nodes, op.parent \in S, UpClosed(nodes, S)
      PROVE  \E m \in S : op.node \in {m, nodes[m].parent}
  <2> SUFFICES ASSUME \A m \in S : op.node # m /\ op.node # nodes[m].parent
               PROVE  FALSE
    OBVIOUS
  <2> DEFINE Off(x) == x # op.node /\ (x \in S \/ x \notin DOMAIN nodes)
             N == {k \in Nat : k <= n => Off(at[k])}
  <2>1. 0 \in N
    BY <1>1, <1>3
  <2>2. ASSUME NEW k \in N
        PROVE  k + 1 \in N
    <3>1. k \in Nat /\ k + 1 \in Nat
      OBVIOUS
    <3>2. ASSUME k + 1 <= n
          PROVE  Off(at[k + 1])
      <4>1. k \in 0 .. n /\ k # n
        BY <3>1, <3>2
      <4>2. Off(at[k])
        BY <4>1
      <4> HIDE DEF N
      <4>3. at[k + 1] = IF at[k] \in DOMAIN nodes \ {op.node} THEN nodes[at[k]].parent ELSE at[k]
        BY <4>1, WalkSteps
      <4>4. CASE at[k] \in S
        <5>1. at[k + 1] = nodes[at[k]].parent /\ at[k + 1] # op.node
          BY <4>3, <4>4
        <5> QED BY <1>3, <4>4, <5>1 DEF UpClosed
      <4>5. CASE at[k] \notin S
        BY <4>2, <4>3, <4>5
      <4> QED BY <4>4, <4>5
    <3> QED BY <3>1, <3>2
  <2>3. N = Nat
    <3> HIDE DEF N
    <3>1. N \in SUBSET Nat
      BY DEF N
    <3> QED BY <2>1, <2>2, <3>1, NatSetInduction
  <2> QED BY <1>3, <2>3
<1>4. ASSUME IsAncestor(nodes, op.node, op.parent), at[n] # op.node
      PROVE  FALSE
  <2>1. at[n] \notin DOMAIN nodes
    BY <1>4, WalkEnds
  <2>2. ASSUME NEW k \in 0 .. n
        PROVE  at[k] # op.node
    BY <1>4, <2>2, WalkStays
  <2>3. ASSUME NEW k \in 0 .. n, at[k] \in DOMAIN nodes
        PROVE  k + 1 \in 0 .. n /\ at[k + 1] = nodes[at[k]].parent
    <3>1. k # n
      BY <2>1, <2>3
    <3>2. at[k + 1] = IF at[k] \in DOMAIN nodes \ {op.node} THEN nodes[at[k]].parent ELSE at[k]
      BY <3>1, WalkSteps
    <3> QED BY <2>2, <2>3, <3>1, <3>2
  <2> DEFINE S == {at[k] : k \in 0 .. n} \cap DOMAIN nodes
  <2>4. op.parent \in DOMAIN nodes /\ op.parent # op.node
    BY <1>4 DEF IsAncestor
  <2>5. S \in SUBSET DOMAIN nodes /\ op.parent \in S
    BY <1>1, <2>4
  <2>6. ASSUME NEW m \in S
        PROVE  \E k \in 0 .. n : at[k] = m /\ k + 1 \in 0 .. n /\ at[k + 1] = nodes[m].parent
    BY <2>3
  <2>7. UpClosed(nodes, S)
    BY <2>6 DEF UpClosed
  <2>8. PICK m \in S : op.node \in {m, nodes[m].parent}
    <3> HIDE DEF S
    <3> QED BY <1>4, <2>4, <2>5, <2>7 DEF IsAncestor
  <2> QED BY <2>2, <2>6, <2>8
<1>5. at[n] = op.node => IsAncestor(nodes, op.node, op.parent)
  BY <1>2, <1>3 DEF IsAncestor
<1> QED BY <1>4, <1>5

(* The merge's test for cycles finds what the index's test finds.          *)
LEMMA CycleTestsAgree ==
  ASSUME NEW ix, IndexOK(ix), NEW op, TreeOp(op)
  PROVE  WouldCycle(ix.nodes, op) <=> ClosesCycle(ix, op)
<1> DEFINE nodes == ix.nodes
           n == Cardinality(Parents)
           at == CHOOSE f : Walks(f, nodes, op, n)
<1>1. n \in Nat /\ Cardinality(DOMAIN nodes) <= n
  <2>1. /\ IsFiniteSet(NodeIds) /\ DOMAIN nodes \subseteq NodeIds
        /\ Cardinality(NodeIds) \in Nat /\ n \in Nat /\ Cardinality(NodeIds) < n
    BY ParentsFinite DEF IndexOK
  <2>2. Cardinality(DOMAIN nodes) <= Cardinality(NodeIds) /\ IsFiniteSet(DOMAIN nodes)
    BY <2>1, FS_Subset
  <2>3. Cardinality(DOMAIN nodes) \in Nat
    BY <2>2, FS_CardinalityType
  <2> QED BY <2>1, <2>2, <2>3
<1>2. op.parent \in Parents /\ \A m \in DOMAIN nodes : nodes[m].parent \in Parents
  BY DEF IndexOK, TreeOp
<1>3. Walks(at, nodes, op, n)
  <2> HIDE DEF n, nodes
  <2>1. \E f \in [0 .. n -> Parents] : Walks(f, nodes, op, n)
    BY <1>1, <1>2, WalkIs
  <2> QED BY <2>1
<1>4. WouldCycle(nodes, op) <=>
        /\ op.parent \notin {Root, Deleted}
        /\ op.parent = op.node \/ \E m \in DOMAIN nodes : nodes[m].parent = op.node
        /\ at[n] = op.node
  BY DEF WouldCycle, Walks
<1> HIDE DEF at
<1>5. CASE op.parent = op.node
  <2>1. 0 \in 0 .. n /\ at[0] = op.node
    BY <1>1, <1>3, <1>5 DEF Walks
  <2>2. at[n] = op.node
    <3> HIDE DEF n, nodes
    <3>1. at[0] \notin DOMAIN nodes \ {op.node}
      BY <2>1
    <3>2. at[n] = at[0]
      BY <1>1, <1>3, <2>1, <3>1, WalkStays
    <3> QED BY <2>1, <3>2
  <2> QED BY <1>4, <1>5, <2>2 DEF ClosesCycle, IsAncestor
<1>6. CASE op.parent # op.node
  <2>1. at[n] = op.node <=> IsAncestor(nodes, op.node, op.parent)
    <3>1. Forest(nodes) /\ IsFiniteSet(DOMAIN nodes)
      BY DEF IndexOK
    <3> HIDE DEF n, nodes
    <3> QED BY <1>1, <1>3, <1>6, <3>1, WalkFinds
  <2>2. (\E m \in DOMAIN nodes : nodes[m].parent = op.node) <=> ix.count[op.node] > 0
    <3> DEFINE S == Siblings(nodes, op.node)
    <3>1. IsFiniteSet(S)
      BY FS_Subset DEF IndexOK, Siblings
    <3>2. op.node \in Parents /\ ix.count[op.node] = Cardinality(S)
      BY DEF IndexOK, Counted, TreeOp, Parents
    <3>3. S # {} <=> \E m \in DOMAIN nodes : nodes[m].parent = op.node
      BY DEF Siblings
    <3> HIDE DEF S
    <3>4. Cardinality(S) \in Nat /\ (Cardinality(S) = 0 <=> S = {})
      BY <3>1, FS_CardinalityType, FS_EmptySet
    <3> QED BY <3>2, <3>3, <3>4
  <2> QED BY <1>4, <1>6, <2>1, <2>2 DEF ClosesCycle
<1> QED BY <1>5, <1>6

(* Every index of a replay is a forest.                                    *)
LEMMA ReplaysAreForests ==
  ASSUME NEW o, NEW order, NEW n \in Nat, \A k \in 1 .. n : TreeOp(o[order[k]]),
         NEW f, IsReplay(f, o, order, n)
  PROVE  \A k \in 0 .. n : IndexOK(f[k])
<1> DEFINE N == {k \in Nat : k <= n => IndexOK(f[k])}
<1>1. 0 \in N
  <2>1. f[0] = EmptyIndex
    BY DEF IsReplay
  <2> QED BY <2>1, EmptyIsForest
<1>2. ASSUME NEW k \in N
      PROVE  k + 1 \in N
  <2>1. k \in Nat /\ k + 1 \in Nat /\ k + 1 - 1 = k
    OBVIOUS
  <2>2. ASSUME k + 1 <= n
        PROVE  IndexOK(f[k + 1])
    <3>1. k + 1 \in 1 .. n /\ IndexOK(f[k])
      BY <2>1, <2>2
    <3> HIDE DEF N
    <3>2. \A j \in 1 .. n : f[j] = Replaced(f[j - 1], order[j], o[order[j]])
      BY ReplayTakesOp
    <3>3. f[k + 1] = Replaced(f[k], order[k + 1], o[order[k + 1]])
      BY <2>1, <3>1, <3>2
    <3>4. TreeOp(o[order[k + 1]])
      BY <3>1
    <3> QED BY <3>1, <3>3, <3>4, ReplayKeepsForest
  <2> QED BY <2>1, <2>2
<1>3. N = Nat
  <2> HIDE DEF N
  <2>1. N \in SUBSET Nat
    BY DEF N
  <2> QED BY <1>1, <1>2, <2>1, NatSetInduction
<1> QED BY <1>3

(* The nodes that buildTree goes through.                                  *)
CurrentStep(before, i) ==
  IF WouldCycle(before, ops[i]) THEN before
  ELSE WithPlace(before, ops[i].node, PlaceOf(i, ops[i]))

IsCurrent(c, order, n) ==
  c = [k \in 0 .. n |-> IF k = 0 THEN [m \in {} |-> 0] ELSE CurrentStep(c[k - 1], order[k])]

(* They are those of the replay.                                           *)
LEMMA ReplayIsCurrent ==
  ASSUME NEW order, NEW n \in Nat, \A k \in 1 .. n : TreeOp(ops[order[k]]),
         NEW f, IsReplay(f, ops, order, n)
  PROVE  IsCurrent([k \in 0 .. n |-> f[k].nodes], order, n)
<1> DEFINE h == [k \in 0 .. n |-> f[k].nodes]
           step(k) == IF k = 0 THEN [m \in {} |-> 0] ELSE CurrentStep(h[k - 1], order[k])
<1>1. ASSUME NEW k \in 0 .. n
      PROVE  h[k] = step(k)
  <2>1. CASE k = 0
    <3>1. f[0] = EmptyIndex /\ h[k] = f[0].nodes
      BY <2>1 DEF IsReplay
    <3> HIDE DEF h
    <3> QED BY <2>1, <3>1 DEF EmptyIndex
  <2>2. CASE k # 0
    <3>1. k \in 1 .. n /\ k - 1 \in 0 .. n /\ h[k] = f[k].nodes /\ h[k - 1] = f[k - 1].nodes
      BY <2>2
    <3> HIDE DEF h
    <3> DEFINE ix == f[k - 1]
               i == order[k]
    <3>2. f[k] = Replaced(ix, i, ops[i])
      <4>1. \A j \in 1 .. n : f[j] = Replaced(f[j - 1], order[j], ops[order[j]])
        BY ReplayTakesOp
      <4> QED BY <3>1, <4>1
    <3>3. IndexOK(ix)
      BY <3>1, ReplaysAreForests
    <3>4. TreeOp(ops[i])
      BY <3>1
    <3>5. h[k - 1] = ix.nodes
      BY <3>1
    <3> HIDE DEF ix, i
    <3>6. WouldCycle(ix.nodes, ops[i]) <=> ClosesCycle(ix, ops[i])
      BY <3>3, <3>4, CycleTestsAgree
    <3>7. Replaced(ix, i, ops[i]).nodes = CurrentStep(ix.nodes, i)
      <4>1. CASE ClosesCycle(ix, ops[i])
        BY <3>6, <4>1 DEF Replaced, CurrentStep
      <4>2. CASE ~ClosesCycle(ix, ops[i])
        BY <3>3, <3>6, <4>2 DEF Replaced, CurrentStep, IndexOK
      <4> QED BY <4>1, <4>2
    <3>8. h[k] = CurrentStep(h[k - 1], i)
      BY <3>1, <3>2, <3>5, <3>7
    <3> QED BY <2>2, <3>8 DEF i
  <2> QED BY <2>1, <2>2
<1>2. h = [k \in 0 .. n |-> h[k]]
  OBVIOUS
<1> HIDE DEF h
<1>3. h = [k \in 0 .. n |-> step(k)]
  <2> HIDE DEF step
  <2> QED BY <1>1, <1>2
<1>4. IsCurrent(h, order, n)
  BY <1>3 DEF IsCurrent
<1> QED BY <1>4 DEF h

(* Such nodes are determined.                                              *)
LEMMA CurrentUnique ==
  ASSUME NEW order, NEW n \in Nat, NEW c, IsCurrent(c, order, n), NEW h, IsCurrent(h, order, n)
  PROVE  c[n] = h[n]
<1> DEFINE N == {k \in Nat : k <= n => c[k] = h[k]}
<1>1. 0 \in N
  BY DEF IsCurrent
<1>2. ASSUME NEW k \in N
      PROVE  k + 1 \in N
  <2>1. k \in Nat /\ k + 1 \in Nat /\ k + 1 - 1 = k /\ k + 1 # 0
    OBVIOUS
  <2>2. ASSUME k + 1 <= n
        PROVE  c[k + 1] = h[k + 1]
    <3>1. k + 1 \in 0 .. n /\ c[k] = h[k]
      BY <2>1, <2>2
    <3> HIDE DEF N
    <3>2. c[k + 1] = CurrentStep(c[k + 1 - 1], order[k + 1])
      BY <2>1, <3>1 DEF IsCurrent
    <3>3. h[k + 1] = CurrentStep(h[k + 1 - 1], order[k + 1])
      BY <2>1, <3>1 DEF IsCurrent
    <3> QED BY <2>1, <3>1, <3>2, <3>3
  <2> QED BY <2>1, <2>2
<1>3. N = Nat
  <2> HIDE DEF N
  <2>1. N \in SUBSET Nat
    BY DEF N
  <2> QED BY <1>1, <1>2, <2>1, NatSetInduction
<1> QED BY <1>3

(* buildTree's nodes are those of a replay on an index.                    *)
LEMMA CurrentIsReplay ==
  ASSUME NEW ids \in SUBSET (Nat \X Nat), IsFiniteSet(ids), \A i \in ids : TreeOp(ops[i])
  PROVE  Current(ids) = ReplayOf(ops, ids).nodes
<1> DEFINE n == Cardinality(ids)
           order == Sorted(ids, Earlier)
           c == CHOOSE c : IsCurrent(c, order, n)
<1>1. n \in Nat /\ order \in [1 .. n -> ids]
  BY SortedIsInOrder DEF InOrder
<1>2. Current(ids) = c[n]
  BY DEF Current, IsCurrent, CurrentStep
<1>3. PICK f : IsReplay(f, ops, order, n) /\ ReplayOf(ops, ids) = f[n]
  <2>1. n = Cardinality(ids)
    OBVIOUS
  <2> HIDE DEF n
  <2> QED BY <1>1, <2>1, ReplayIs
<1>4. \A k \in 1 .. n : TreeOp(ops[order[k]])
  BY <1>1
<1> DEFINE h == [k \in 0 .. n |-> f[k].nodes]
<1>5. IsCurrent(h, order, n)
  <2> HIDE DEF n, order
  <2> QED BY <1>1, <1>3, <1>4, ReplayIsCurrent
<1>6. IsCurrent(c, order, n)
  <2> HIDE DEF h, n, order
  <2> QED BY <1>5
<1>7. c[n] = h[n]
  <2> HIDE DEF c, h, n, order
  <2> QED BY <1>1, <1>5, <1>6, CurrentUnique
<1>8. h[n] = f[n].nodes
  <2> HIDE DEF n
  <2> QED BY <1>1
<1> QED BY <1>2, <1>3, <1>7, <1>8

(* The children of a parent in order, whether a build or a merge sorts     *)
(* them.                                                                   *)
ChildrenOf(nodes, p) == Sorted(Siblings(nodes, p), LAMBDA a, b : Before(nodes[a], nodes[b]))

(* Children are shown under the members of B, which are nodes or the root. *)
ShowsOnly(ids, B) ==
  /\ B \subseteq NodeIds \cup {Root}
  /\ Shown(ids) = [p \in B |-> ChildrenOf(Current(ids), p)]

(* Nobody shows the children of deletedTreeRoot.                           *)
LEMMA ShownParents ==
  ASSUME NEW ids, DOMAIN Current(ids) \subseteq NodeIds
  PROVE  \E B : ShowsOnly(ids, B)
<1> DEFINE nodes == Current(ids)
           S == SUBSET (NodeIds \cup {Root})
           e == {Root}
           F == [A \in S |-> A \cup {n \in DOMAIN nodes : nodes[n].parent \in A}]
           m == Cardinality(Parents)
           Step(f, k) == IF k = 0 THEN {Root}
                         ELSE LET above == f[k - 1]
                              IN  above \cup {n \in DOMAIN nodes : nodes[n].parent \in above}
           IsBelow(f) == f = [k \in 0 .. m |-> Step(f, k)]
           below == CHOOSE f : IsBelow(f)
<1>1. m \in Nat
  BY ParentsFinite
<1>2. e \in S /\ F \in [S -> S]
  OBVIOUS
<1>3. PICK g : Repeats(g, S, e, F, m)
  <2> HIDE DEF S, e, F, m
  <2> QED BY <1>1, <1>2, RepeatDefined
<1>4. IsBelow(g)
  <2>1. ASSUME NEW k \in 0 .. m
        PROVE  g[k] = Step(g, k)
    <3>1. CASE k = 0
      BY <1>3, <3>1 DEF Repeats
    <3>2. CASE k # 0
      <4>1. k - 1 \in 0 .. m
        BY <1>1, <3>2
      <4>2. g[k - 1] \in S /\ g[k] = F[g[k - 1]]
        <5> HIDE DEF S, e, F, m
        <5> QED BY <1>3, <3>2, <4>1 DEF Repeats
      <4> HIDE DEF m
      <4> QED BY <3>2, <4>2
    <3> QED BY <3>1, <3>2
  <2>2. g = [k \in 0 .. m |-> g[k]]
    <3> HIDE DEF S, e, F, m
    <3> QED BY <1>3 DEF Repeats
  <2> HIDE DEF Step, m
  <2> QED BY <2>1, <2>2
<1>5. IsBelow(below)
  <2> HIDE DEF IsBelow
  <2> QED BY <1>4
<1>6. Shown(ids) = [p \in below[m] |-> ChildrenOf(nodes, p)]
  BY DEF Shown, ShownBefore, ChildrenOf, Before
<1> HIDE DEF below
<1> DEFINE N == {k \in Nat : k <= m => below[k] \in S}
<1>7. 0 \in N
  <2>1. 0 \in 0 .. m
    BY <1>1
  <2> QED BY <1>5, <2>1
<1>8. ASSUME NEW k \in N
      PROVE  k + 1 \in N
  <2>1. k \in Nat /\ k + 1 \in Nat /\ k + 1 - 1 = k /\ k + 1 # 0
    OBVIOUS
  <2>2. ASSUME k + 1 <= m
        PROVE  below[k + 1] \in S
    <3>1. k + 1 \in 0 .. m /\ below[k] \in S
      BY <1>1, <2>1, <2>2
    <3>2. below[k + 1] = Step(below, k + 1)
      <4> HIDE DEF Step, N, m
      <4> QED BY <1>5, <3>1
    <3>3. below[k + 1] = below[k] \cup {n \in DOMAIN nodes : nodes[n].parent \in below[k]}
      BY <2>1, <3>2
    <3> QED BY <3>1, <3>3
  <2> QED BY <2>1, <2>2
<1>9. N = Nat
  <2> HIDE DEF N
  <2>1. N \in SUBSET Nat
    BY DEF N
  <2> QED BY <1>7, <1>8, <2>1, NatSetInduction
<1>10. below[m] \in S
  <2> HIDE DEF S, m
  <2> QED BY <1>1, <1>9
<1> QED BY <1>6, <1>10 DEF ShowsOnly

(* ShownIsIndexed: what the merge shows is what the index lists, for every *)
(* node shown, children in the same order.                                 *)
THEOREM ShownAlwaysIndexed == Spec => []ShownIsIndexed
<1>1. Inv => ShownIsIndexed
  <2> SUFFICES ASSUME Inv, NEW d \in Docs, index[d].built, NEW p \in DOMAIN Shown(known[d])
               PROVE  index[d].children[p] = Shown(known[d])[p]
    BY DEF ShownIsIndexed
  <2> DEFINE ix == index[d]
             nodes == ix.nodes
  <2>1. Done(d) = known[d]
    BY DEF Done
  <2>2. DocOK(ops, known[d], ix) /\ Listed(nodes, ix.children)
    BY <2>1 DEF Inv, IndexInv
  <2>3. known[d] \in SUBSET (Nat \X Nat) /\ IsFiniteSet(known[d]) /\ known[d] \subseteq DOMAIN ops
    BY KnownType DEF Inv
  <2>4. \A i \in known[d] : TreeOp(ops[i])
    BY <2>3 DEF Inv, OpsInv, OpOK
  <2>5. Current(known[d]) = nodes
    <3>1. Current(known[d]) = ReplayOf(ops, known[d]).nodes
      BY <2>3, <2>4, CurrentIsReplay
    <3>2. ReplayOf(ops, known[d]) = OnlyNodes(ix)
      BY <2>2 DEF DocOK, Replays
    <3> QED BY <3>1, <3>2 DEF OnlyNodes, EmptyIndex
  <2>6. DOMAIN nodes \subseteq NodeIds
    BY <2>2 DEF DocOK, IndexOK
  <2>7. PICK B : ShowsOnly(known[d], B)
    <3> HIDE DEF nodes
    <3> QED BY <2>5, <2>6, ShownParents
  <2>8. p \in B /\ p \in Parents /\ p # Deleted
    BY <2>7, RootsAreNoNodes DEF ShowsOnly, Parents, Root, Deleted
  <2>9. ix.children = SortedChildren(nodes)
    BY <2>2, ListedIsSorted DEF DocOK
  <2>10. SortedChildren(nodes)[p] = ChildrenOf(nodes, p)
    BY <2>8 DEF SortedChildren, ChildrenOf
  <2> QED BY <2>5, <2>7, <2>8, <2>9, <2>10 DEF ShowsOnly
<1> QED BY <1>1, InvHolds, PTL
=============================================================================
