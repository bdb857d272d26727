---------------------------- MODULE SiblingsProofs ----------------------------
(***************************************************************************)
(* A list of siblings stays in order and has room everywhere, however long *)
(* it is edited and however long its indexes get.                          *)
(***************************************************************************)
EXTENDS Siblings, FracIndexProofs

(* Each index in a list is the one before it or comes after that.          *)
LEMMA LaterIsNotBelow ==
  ASSUME NEW fis, Ordered(fis), NEW k \in 1 .. Len(fis) - 2
  PROVE  fis[k] = fis[k + 2] \/ Less(fis[k], fis[k + 2])
<1>1. /\ fis[k] \in Seq(Int) /\ fis[k + 1] \in Seq(Int) /\ fis[k + 2] \in Seq(Int)
      /\ fis[k] = fis[k + 1] \/ Less(fis[k], fis[k + 1])
      /\ fis[k + 1] = fis[k + 2] \/ Less(fis[k + 1], fis[k + 2])
  <2>1. Len(fis) \in Nat /\ k \in 1 .. Len(fis) /\ k + 1 \in 1 .. Len(fis) /\ k + 2 \in 1 .. Len(fis)
    BY DEF Ordered
  <2>2. \A j \in 1 .. Len(fis) : fis[j] \in Seq(Int)
    BY <2>1, IndexType DEF Ordered
  <2>3. k + 1 \in 1 .. Len(fis) - 1 /\ k \in 1 .. Len(fis) - 1 /\ k + 1 + 1 = k + 2
    BY <2>1
  <2> QED BY <2>1, <2>2, <2>3 DEF Ordered
<1> QED BY <1>1, LessTransitive

(* A sibling leaves.                                                       *)
LEMMA LeaveKeepsOrder ==
  ASSUME NEW fis, Ordered(fis), NEW k \in DOMAIN fis
  PROVE  Ordered(SubSeq(fis, 1, k - 1) \o SubSeq(fis, k + 1, Len(fis)))
<1> DEFINE a == SubSeq(fis, 1, k - 1)
           b == SubSeq(fis, k + 1, Len(fis))
           new == a \o b
<1>1. fis \in Seq(Index) /\ Len(fis) \in Nat /\ k \in 1 .. Len(fis)
  BY DEF Ordered
<1>2. a \in Seq(Index) /\ Len(a) = k - 1 /\ \A j \in 1 .. k - 1 : a[j] = fis[j]
  BY <1>1
<1>3. b \in Seq(Index) /\ Len(b) = Len(fis) - k /\ \A j \in 1 .. Len(fis) - k : b[j] = fis[k + j]
  BY <1>1
<1> HIDE DEF a, b
<1>4. /\ new \in Seq(Index) /\ Len(new) = Len(fis) - 1
      /\ \A j \in 1 .. Len(fis) - 1 : new[j] = IF j < k THEN fis[j] ELSE fis[j + 1]
  <2>1. /\ new \in Seq(Index) /\ Len(new) = Len(a) + Len(b)
        /\ \A j \in 1 .. Len(a) + Len(b) : new[j] = IF j <= Len(a) THEN a[j] ELSE b[j - Len(a)]
    <3>1. a \in Seq(Index) /\ b \in Seq(Index)
      BY <1>2, <1>3
    <3> QED BY <3>1, ConcatProperties, Zenon
  <2> HIDE DEF new
  <2>2. Len(new) = Len(fis) - 1
    BY <1>1, <1>2, <1>3, <2>1
  <2>3. ASSUME NEW j \in 1 .. Len(fis) - 1
        PROVE  new[j] = IF j < k THEN fis[j] ELSE fis[j + 1]
    <3>1. new[j] = IF j <= k - 1 THEN a[j] ELSE b[j - (k - 1)]
      <4>1. j \in 1 .. Len(a) + Len(b) /\ Len(a) = k - 1
        BY <1>1, <1>2, <1>3
      <4> QED BY <2>1, <4>1
    <3>2. CASE j < k
      BY <1>1, <1>2, <3>1, <3>2
    <3>3. CASE ~(j < k)
      <4>1. j - (k - 1) \in 1 .. Len(fis) - k /\ k + (j - (k - 1)) = j + 1
        BY <1>1, <3>3
      <4> QED BY <1>1, <1>3, <3>1, <3>3, <4>1
    <3> QED BY <3>2, <3>3
  <2> QED BY <2>1, <2>2, <2>3
<1> HIDE DEF new
<1>5. ASSUME NEW j \in 1 .. Len(new) - 1
      PROVE  new[j] = new[j + 1] \/ Less(new[j], new[j + 1])
  <2>1. j \in 1 .. Len(fis) - 2 /\ j \in 1 .. Len(fis) - 1 /\ j + 1 \in 1 .. Len(fis) - 1 /\ j + 1 + 1 = j + 2
    BY <1>1, <1>4
  <2>2. CASE j + 1 < k
    BY <1>4, <2>1, <2>2 DEF Ordered
  <2>3. CASE j + 1 = k
    <3>1. new[j] = fis[j] /\ new[j + 1] = fis[j + 2]
      BY <1>4, <2>1, <2>3
    <3> QED BY <2>1, <3>1, LaterIsNotBelow
  <2>4. CASE j + 1 > k
    <3>1. new[j] = fis[j + 1] /\ new[j + 1] = fis[j + 1 + 1]
      BY <1>4, <2>1, <2>4
    <3> QED BY <2>1, <3>1 DEF Ordered
  <2> QED BY <1>1, <2>1, <2>2, <2>3, <2>4
<1> QED BY <1>4, <1>5 DEF Ordered, new, a, b

(* A sibling arrives that shares the index of another.                     *)
LEMMA TwinKeepsOrder ==
  ASSUME NEW fis, Ordered(fis), NEW k \in DOMAIN fis
  PROVE  Ordered(SubSeq(fis, 1, k) \o SubSeq(fis, k, Len(fis)))
<1> DEFINE a == SubSeq(fis, 1, k)
           b == SubSeq(fis, k, Len(fis))
           new == a \o b
<1>1. fis \in Seq(Index) /\ Len(fis) \in Nat /\ k \in 1 .. Len(fis)
  BY DEF Ordered
<1>2. a \in Seq(Index) /\ Len(a) = k /\ \A j \in 1 .. k : a[j] = fis[j]
  BY <1>1
<1>3. /\ b \in Seq(Index) /\ Len(b) = Len(fis) - k + 1
      /\ \A j \in 1 .. Len(fis) - k + 1 : b[j] = fis[k + j - 1]
  BY <1>1
<1> HIDE DEF a, b
<1>4. /\ new \in Seq(Index) /\ Len(new) = Len(fis) + 1
      /\ \A j \in 1 .. Len(fis) + 1 : new[j] = IF j <= k THEN fis[j] ELSE fis[j - 1]
  <2>1. /\ new \in Seq(Index) /\ Len(new) = Len(a) + Len(b)
        /\ \A j \in 1 .. Len(a) + Len(b) : new[j] = IF j <= Len(a) THEN a[j] ELSE b[j - Len(a)]
    <3>1. a \in Seq(Index) /\ b \in Seq(Index)
      BY <1>2, <1>3
    <3> QED BY <3>1, ConcatProperties, Zenon
  <2> HIDE DEF new
  <2>2. Len(new) = Len(fis) + 1
    BY <1>1, <1>2, <1>3, <2>1
  <2>3. ASSUME NEW j \in 1 .. Len(fis) + 1
        PROVE  new[j] = IF j <= k THEN fis[j] ELSE fis[j - 1]
    <3>1. new[j] = IF j <= k THEN a[j] ELSE b[j - k]
      BY <1>1, <1>2, <1>3, <2>1, SMTT(30)
    <3>2. CASE j <= k
      BY <1>1, <1>2, <3>1, <3>2
    <3>3. CASE ~(j <= k)
      <4>1. j - k \in 1 .. Len(fis) - k + 1 /\ k + (j - k) - 1 = j - 1
        BY <1>1, <3>3
      <4> QED BY <1>1, <1>3, <3>1, <3>3, <4>1
    <3> QED BY <3>2, <3>3
  <2> QED BY <2>1, <2>2, <2>3
<1> HIDE DEF new
<1>5. ASSUME NEW j \in 1 .. Len(new) - 1
      PROVE  new[j] = new[j + 1] \/ Less(new[j], new[j + 1])
  <2>1. j \in 1 .. Len(fis) + 1 /\ j + 1 \in 1 .. Len(fis) + 1 /\ j \in 1 .. Len(fis)
    BY <1>1, <1>4
  <2>2. CASE j < k
    BY <1>4, <2>1, <2>2, <1>1 DEF Ordered
  <2>3. CASE j = k
    BY <1>4, <2>1, <2>3
  <2>4. CASE j > k
    <3>1. new[j] = fis[j - 1] /\ new[j + 1] = fis[j] /\ j - 1 \in 1 .. Len(fis) - 1 /\ j - 1 + 1 = j
      BY <1>1, <1>4, <2>1, <2>4
    <3> QED BY <3>1 DEF Ordered
  <2> QED BY <1>1, <2>1, <2>2, <2>3, <2>4
<1> QED BY <1>4, <1>5 DEF Ordered, new, a, b

(* A node is put somewhere, and the siblings it shares an index with move. *)
LEMMA PutKeepsOrder ==
  ASSUME NEW fis, Ordered(fis), NEW at \in 0 .. Len(fis), NEW new \in Positions(fis, at)
  PROVE  Ordered(SubSeq(fis, 1, at) \o new \o SubSeq(fis, at + Len(new), Len(fis)))
<1> DEFINE a == SubSeq(fis, 1, at)
           n == Len(new)
           c == SubSeq(fis, at + n, Len(fis))
           ab == a \o new
           s == ab \o c
           left == IF at > 0 THEN fis[at] ELSE Absent
           next == IF at + n - 1 < Len(fis) THEN fis[at + n - 1 + 1] ELSE Absent
<1>1. fis \in Seq(Index) /\ Len(fis) \in Nat /\ \A j \in 1 .. Len(fis) : fis[j] # Absent
  BY AbsentIsNoIndex DEF Ordered
<1>2. /\ new # <<>> /\ at + n - 1 <= Len(fis)
      /\ Spread(new, left, next, n)
  BY PositionsSpread
<1>3. new \in Seq(Index) /\ n \in Nat \ {0}
  BY <1>2 DEF Spread
<1>4. a \in Seq(Index) /\ Len(a) = at /\ \A j \in 1 .. at : a[j] = fis[j]
  BY <1>1
<1>5. /\ c \in Seq(Index) /\ Len(c) = Len(fis) - (at + n - 1)
      /\ \A j \in 1 .. Len(fis) - (at + n - 1) : c[j] = fis[at + n - 1 + j]
  <2> DEFINE f == at + n
  <2>1. f \in 1 .. Len(fis) + 1 /\ at + n - 1 = f - 1
    BY <1>1, <1>2, <1>3
  <2> HIDE DEF f
  <2>2. /\ SubSeq(fis, f, Len(fis)) \in Seq(Index) /\ Len(SubSeq(fis, f, Len(fis))) = Len(fis) - (f - 1)
        /\ \A j \in 1 .. Len(fis) - (f - 1) : SubSeq(fis, f, Len(fis))[j] = fis[f - 1 + j]
    BY <1>1, <2>1
  <2> QED BY <2>1, <2>2 DEF f
<1> HIDE DEF a, c
<1>6. /\ ab \in Seq(Index) /\ Len(ab) = at + n
      /\ \A j \in 1 .. at + n : ab[j] = IF j <= at THEN fis[j] ELSE new[j - at]
  <2>1. a \in Seq(Index) /\ new \in Seq(Index)
    BY <1>3, <1>4
  <2>2. /\ ab \in Seq(Index) /\ Len(ab) = Len(a) + Len(new)
        /\ \A j \in 1 .. Len(a) + Len(new) : ab[j] = IF j <= Len(a) THEN a[j] ELSE new[j - Len(a)]
    BY <2>1, ConcatProperties, Zenon
  <2> HIDE DEF ab
  <2>3. Len(a) = at /\ Len(new) = n /\ \A j \in 1 .. at : a[j] = fis[j]
    BY <1>3, <1>4
  <2>4. ASSUME NEW j \in 1 .. at + n
        PROVE  ab[j] = IF j <= at THEN fis[j] ELSE new[j - at]
    BY <1>1, <1>3, <2>2, <2>3
  <2> QED BY <2>2, <2>3, <2>4
<1> HIDE DEF ab
<1>7. /\ s \in Seq(Index) /\ Len(s) = Len(fis) + 1
      /\ \A j \in 1 .. Len(fis) + 1 :
           s[j] = IF j <= at + n THEN ab[j] ELSE fis[j - 1]
  <2>1. /\ s \in Seq(Index) /\ Len(s) = Len(ab) + Len(c)
        /\ \A j \in 1 .. Len(ab) + Len(c) : s[j] = IF j <= Len(ab) THEN ab[j] ELSE c[j - Len(ab)]
    <3>1. ab \in Seq(Index) /\ c \in Seq(Index)
      BY <1>5, <1>6
    <3> QED BY <3>1, ConcatProperties, Zenon
  <2> HIDE DEF s
  <2>2. Len(s) = Len(fis) + 1
    BY <1>1, <1>2, <1>3, <1>5, <1>6, <2>1, SMTT(30)
  <2>3. ASSUME NEW j \in 1 .. Len(fis) + 1
        PROVE  s[j] = IF j <= at + n THEN ab[j] ELSE fis[j - 1]
    <3>1. s[j] = IF j <= at + n THEN ab[j] ELSE c[j - (at + n)]
      BY <1>1, <1>2, <1>3, <1>5, <1>6, <2>1, SMTT(30)
    <3>2. CASE j <= at + n
      BY <3>1, <3>2
    <3>3. CASE ~(j <= at + n)
      <4>1. /\ j - (at + n) \in 1 .. Len(fis) - (at + n - 1)
            /\ at + n - 1 + (j - (at + n)) = j - 1
        BY <1>1, <1>3, <3>3
      <4> QED BY <1>5, <3>1, <3>3, <4>1
    <3> QED BY <3>2, <3>3
  <2> QED BY <2>1, <2>2, <2>3
<1> HIDE DEF s
<1>8. ASSUME NEW j \in 1 .. Len(s) - 1
      PROVE  s[j] = s[j + 1] \/ Less(s[j], s[j + 1])
  <2>1. j \in 1 .. Len(fis) + 1 /\ j + 1 \in 1 .. Len(fis) + 1 /\ j \in 1 .. Len(fis)
    BY <1>1, <1>7
  <2>2. CASE j < at
    <3>1. s[j] = fis[j] /\ s[j + 1] = fis[j + 1] /\ j \in 1 .. Len(fis) - 1
      BY <1>3, <1>6, <1>7, <2>1, <2>2, SMTT(30)
    <3> QED BY <3>1 DEF Ordered
  <2>3. CASE j = at
    <3>1. s[j] = left /\ s[j + 1] = new[1] /\ left # Absent
      BY <1>1, <1>3, <1>6, <1>7, <2>1, <2>3, SMTT(30)
    <3> QED BY <1>2, <1>3, <3>1 DEF Spread
  <2>4. CASE at < j /\ j < at + n
    <3>1. s[j] = new[j - at] /\ s[j + 1] = new[j - at + 1] /\ j - at \in 1 .. n - 1
      BY <1>3, <1>6, <1>7, <2>1, <2>4, SMTT(30)
    <3> QED BY <1>2, <3>1 DEF Spread
  <2>5. CASE j = at + n
    <3>1. s[j] = new[n] /\ s[j + 1] = next /\ next # Absent
      BY <1>1, <1>2, <1>3, <1>6, <1>7, <2>1, <2>5, SMTT(30)
    <3> QED BY <1>2, <1>3, <3>1 DEF Spread
  <2>6. CASE j > at + n
    <3>1. s[j] = fis[j - 1] /\ s[j + 1] = fis[j] /\ j - 1 \in 1 .. Len(fis) - 1 /\ j - 1 + 1 = j
      BY <1>1, <1>3, <1>7, <2>1, <2>6
    <3> QED BY <3>1 DEF Ordered
  <2> QED BY <1>1, <1>3, <2>1, <2>2, <2>3, <2>4, <2>5, <2>6
<1> QED BY <1>7, <1>8 DEF Ordered, s, ab, a, c

-----------------------------------------------------------------------------
(* The siblings are in order after every edit: no insert, move or delete   *)
(* at a place ever finds the indexes around it in the wrong order.         *)
THEOREM LineIsOrdered == Spec => []Ordered(line)
<1>1. Init => Ordered(line)
  BY EmptySeq DEF Init, Ordered
<1>2. Ordered(line) /\ [Next]_line => Ordered(line)'
  <2> SUFFICES ASSUME Ordered(line), [Next]_line
               PROVE  Ordered(line)'
    OBVIOUS
  <2>1. ASSUME NEW at \in 0 .. Len(line), Put(at)
        PROVE  Ordered(line')
    <3>1. PICK fis \in Positions(line, at) :
            line' = SubSeq(line, 1, at) \o fis \o SubSeq(line, at + Len(fis), Len(line))
      BY <2>1 DEF Put
    <3> QED BY <3>1, PutKeepsOrder
  <2>2. ASSUME NEW k \in DOMAIN line, Twin(k)
        PROVE  Ordered(line')
    BY <2>2, TwinKeepsOrder DEF Twin
  <2>3. ASSUME NEW k \in DOMAIN line, Leave(k)
        PROVE  Ordered(line')
    BY <2>3, LeaveKeepsOrder DEF Leave
  <2>4. CASE UNCHANGED line
    BY <2>4 DEF Ordered
  <2> QED BY <2>1, <2>2, <2>3, <2>4 DEF Next, Ordered
<1> QED BY <1>1, <1>2, PTL DEF Spec

(* There is room for a node wherever it is put, and what it and the        *)
(* siblings that move with it get lies in order between the sibling before *)
(* and the first that stays (treeIndex.positions returns no error).        *)
THEOREM SpreadEverywhere == Spec => []EvenlySpread
<1>1. Ordered(line) => EvenlySpread
  <2> SUFFICES ASSUME Ordered(line), NEW at \in 0 .. Len(line)
               PROVE  /\ Positions(line, at) # {}
                      /\ \A fis \in Positions(line, at) :
                           LET after == SubSeq(line, at + Len(fis), Len(line))
                           IN  /\ at > 0 => Less(line[at], fis[1])
                               /\ \A k \in 1 .. Len(fis) - 1 : Less(fis[k], fis[k + 1])
                               /\ after # <<>> => Less(fis[Len(fis)], after[1])
                               /\ \A k \in DOMAIN fis : fis[k][Len(fis[k])] = Terminator
    BY DEF EvenlySpread
  <2>1. Positions(line, at) # {}
    BY PositionsSpread
  <2>2. ASSUME NEW fis \in Positions(line, at)
        PROVE  LET after == SubSeq(line, at + Len(fis), Len(line))
               IN  /\ at > 0 => Less(line[at], fis[1])
                   /\ \A k \in 1 .. Len(fis) - 1 : Less(fis[k], fis[k + 1])
                   /\ after # <<>> => Less(fis[Len(fis)], after[1])
                   /\ \A k \in DOMAIN fis : fis[k][Len(fis[k])] = Terminator
    <3> DEFINE n == Len(fis)
               after == SubSeq(line, at + n, Len(line))
               left == IF at > 0 THEN line[at] ELSE Absent
               next == IF at + n - 1 < Len(line) THEN line[at + n - 1 + 1] ELSE Absent
    <3>1. line \in Seq(Index) /\ Len(line) \in Nat /\ \A j \in 1 .. Len(line) : line[j] # Absent
      BY AbsentIsNoIndex DEF Ordered
    <3>2. fis # <<>> /\ at + n - 1 <= Len(line) /\ Spread(fis, left, next, n)
      BY PositionsSpread
    <3>3. fis \in Seq(Index) /\ n \in Nat \ {0}
      BY <3>2 DEF Spread
    <3>4. \A k \in 1 .. n - 1 : Less(fis[k], fis[k + 1])
      BY <3>2 DEF Spread
    <3>5. at > 0 => Less(line[at], fis[1])
      BY <3>1, <3>2, <3>3 DEF Spread
    <3>6. after # <<>> => next # Absent /\ after[1] = next
      BY <3>1, <3>2, <3>3
    <3>7. after # <<>> => Less(fis[n], after[1])
      BY <3>2, <3>3, <3>6 DEF Spread
    <3>8. \A k \in DOMAIN fis : fis[k][Len(fis[k])] = Terminator
      BY <3>3 DEF Index
    <3> QED BY <3>4, <3>5, <3>7, <3>8
  <2> QED BY <2>1, <2>2
<1> QED BY <1>1, LineIsOrdered, PTL
=============================================================================
