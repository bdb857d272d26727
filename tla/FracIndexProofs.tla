--------------------------- MODULE FracIndexProofs ---------------------------
(***************************************************************************)
(* What the operators of FracIndex return, for byte strings of any length  *)
(* and any alphabet: proofs about them.                                    *)
(***************************************************************************)
EXTENDS FracIndex, FiniteSetTheorems, SequenceTheorems, WellFoundedInduction, TLAPS

(* The indexes peers make: byte strings that end in the terminator.        *)
Index == {b \in Seq(Byte) : b # <<>> /\ b[Len(b)] = Terminator}

-----------------------------------------------------------------------------
(* Numbers.                                                                *)

(* A set of numbers has a least one.                                       *)
LEMMA LeastProperties ==
  ASSUME NEW S \in SUBSET Nat, S # {}
  PROVE  Least(S) \in S /\ \A m \in S : Least(S) <= m
<1>1. IsWellFoundedOn(OpToRel(<, Nat), Nat)
  BY NatLessThanWellFounded
<1>2. PICK n \in S : \A m \in S : <<m, n>> \notin OpToRel(<, Nat)
  BY <1>1, WFMin
<1>3. \A m \in S : n <= m
  <2> SUFFICES ASSUME NEW m \in S, m < n PROVE FALSE
    OBVIOUS
  <2>1. <<m, n>> \in OpToRel(<, Nat)
    BY DEF OpToRel
  <2> QED BY <1>2, <2>1
<1> QED BY <1>3 DEF Least

(* Induction, over a set of numbers: with a set in the place of a          *)
(* predicate the provers can apply it to any definition.                   *)
LEMMA NatSetInduction ==
  ASSUME NEW S \in SUBSET Nat, 0 \in S, \A n \in S : n + 1 \in S
  PROVE  S = Nat
<1> SUFFICES ASSUME Nat \ S # {} PROVE FALSE
  OBVIOUS
<1> DEFINE n == Least(Nat \ S)
<1>1. n \in Nat \ S /\ \A m \in Nat \ S : n <= m
  BY LeastProperties
<1> HIDE DEF n
<1>2. n - 1 \in S
  BY <1>1
<1> QED BY <1>1, <1>2

-----------------------------------------------------------------------------
(* The order of byte strings.                                              *)

(* Byte strings are ordered as words are: transitively ...                 *)
LEMMA LessTransitive ==
  ASSUME NEW a \in Seq(Int), NEW b \in Seq(Int), NEW c \in Seq(Int), Less(a, b), Less(b, c)
  PROVE  Less(a, c)
<1>1. PICK i \in 1 .. Len(b) :
        /\ \A j \in 1 .. i - 1 : j <= Len(a) /\ a[j] = b[j]
        /\ i <= Len(a) => a[i] < b[i]
  BY DEF Less
<1>2. PICK k \in 1 .. Len(c) :
        /\ \A j \in 1 .. k - 1 : j <= Len(b) /\ b[j] = c[j]
        /\ k <= Len(b) => b[k] < c[k]
  BY DEF Less
<1>3. CASE i < k
  <2>1. i \in 1 .. Len(c) /\ i \in 1 .. k - 1 /\ \A j \in 1 .. i - 1 : j \in 1 .. k - 1
    BY <1>3
  <2>2. /\ \A j \in 1 .. i - 1 : j <= Len(a) /\ a[j] = c[j]
        /\ i <= Len(a) => a[i] < c[i]
    BY <1>1, <1>2, <2>1
  <2> QED BY <2>1, <2>2 DEF Less
<1>4. CASE k <= i
  <2>1. /\ \A j \in 1 .. k - 1 : j <= Len(a) /\ a[j] = c[j]
        /\ k <= Len(a) => a[k] < c[k]
    <3>1. \A j \in 1 .. k - 1 : j \in 1 .. i - 1
      BY <1>4
    <3>2. \A j \in 1 .. k - 1 : j <= Len(a) /\ a[j] = c[j]
      BY <1>1, <1>2, <3>1
    <3>3. ASSUME k <= Len(a) PROVE a[k] < c[k]
      <4>1. b[k] < c[k] /\ a[k] \in Int /\ b[k] \in Int /\ c[k] \in Int
        <5>1. k \in 1 .. Len(a) /\ k \in 1 .. Len(b) /\ k \in 1 .. Len(c) /\ k <= Len(b)
          BY <1>4, <3>3
        <5> QED BY <1>2, <5>1, SMTT(30)
      <4>2. a[k] <= b[k]
        <5>1. CASE k = i
          BY <1>1, <3>3, <5>1, SMTT(30)
        <5>2. CASE k # i
          <6>1. k \in 1 .. i - 1
            BY <1>4, <5>2
          <6>2. a[k] = b[k]
            BY <1>1, <6>1
          <6> QED BY <4>1, <6>2
        <5> QED BY <5>1, <5>2
      <4> QED BY <4>1, <4>2
    <3> QED BY <3>2, <3>3
  <2> QED BY <2>1 DEF Less
<1> QED BY <1>3, <1>4

(* ... and none comes before itself.                                       *)
LEMMA LessIrreflexive == ASSUME NEW a \in Seq(Int) PROVE ~Less(a, a)
BY DEF Less

(* What two strings are ordered by does not change behind one prefix.      *)
LEMMA LessBehindPrefix ==
  ASSUME NEW p \in Seq(Int), NEW a \in Seq(Int), NEW b \in Seq(Int), Less(a, b)
  PROVE  Less(p \o a, p \o b)
<1>1. PICK i \in 1 .. Len(b) :
        /\ \A j \in 1 .. i - 1 : j <= Len(a) /\ a[j] = b[j]
        /\ i <= Len(a) => a[i] < b[i]
  BY DEF Less
<1> DEFINE m == Len(p)
           pa == p \o a
           pb == p \o b
<1>2. /\ m \in Nat /\ Len(pa) = m + Len(a) /\ Len(pb) = m + Len(b)
      /\ \A j \in 1 .. m : pa[j] = p[j] /\ pb[j] = p[j]
      /\ \A j \in 1 .. Len(a) : pa[m + j] = a[j]
      /\ \A j \in 1 .. Len(b) : pb[m + j] = b[j]
  OBVIOUS
<1> HIDE DEF pa, pb, m
<1>3. PICK k \in 1 .. Len(pb) : k = m + i
  BY <1>1, <1>2
<1>4. ASSUME NEW j \in 1 .. k - 1
      PROVE  j <= Len(pa) /\ pa[j] = pb[j]
  <2>1. CASE j <= m
    BY <1>2, <2>1
  <2>2. CASE j > m
    <3>1. PICK l \in 1 .. i - 1 : j = m + l
      BY <1>2, <1>3, <2>2
    <3>2. l <= Len(a) /\ a[l] = b[l] /\ l \in 1 .. Len(a) /\ l \in 1 .. Len(b)
      BY <1>1, <3>1
    <3> QED BY <1>2, <3>1, <3>2
  <2> QED BY <1>2, <2>1, <2>2
<1>5. ASSUME k <= Len(pa)
      PROVE  pa[k] < pb[k]
  <2>1. i \in 1 .. Len(a)
    BY <1>1, <1>2, <1>3, <1>5
  <2> QED BY <1>1, <1>2, <1>3, <2>1
<1>6. Less(pa, pb)
  BY <1>4, <1>5 DEF Less
<1> QED BY <1>6 DEF pa, pb

-----------------------------------------------------------------------------
(* One new index.                                                          *)

(* The terminator is a byte with others below and above it.                *)
LEMMA Bytes == Byte \subseteq Int /\ Terminator \in Byte /\ 0 < Terminator /\ Terminator < MaxByte
BY BytesAssumption DEF Byte

(* What an index is, as a sequence.                                        *)
LEMMA IndexType ==
  ASSUME NEW b \in Index
  PROVE  /\ b \in Seq(Byte) /\ b \in Seq(Int)
         /\ Len(b) \in Nat \ {0} /\ DOMAIN b = 1 .. Len(b)
         /\ \A i \in 1 .. Len(b) : b[i] \in Byte
<1>1. b \in Seq(Byte) /\ b # <<>>
  BY DEF Index
<1>2. Len(b) \in Nat \ {0} /\ DOMAIN b = 1 .. Len(b) /\ \A i \in 1 .. Len(b) : b[i] \in Byte
  BY <1>1
<1>3. b = [i \in 1 .. Len(b) |-> b[i]]
  BY <1>1
<1>4. b \in Seq(Int)
  BY <1>2, <1>3, Bytes
<1> QED BY <1>1, <1>2, <1>4

(* The first byte of an index that is not c, where c is no terminator.     *)
LEMMA FirstOther ==
  ASSUME NEW b \in Index, NEW c, c # Terminator
  PROVE  \E i \in DOMAIN b : b[i] # c /\ \A j \in 1 .. i - 1 : b[j] = c
<1> DEFINE S == {i \in DOMAIN b : b[i] # c}
<1>1. Len(b) \in S
  BY DEF Index
<1>2. S \in SUBSET Nat
  BY DEF Index
<1>3. Least(S) \in S /\ \A m \in S : Least(S) <= m
  <2> HIDE DEF S
  <2> QED BY <1>1, <1>2, LeastProperties
<1>4. PICK i \in S : \A m \in S : i <= m
  BY <1>3
<1>5. \A j \in 1 .. i - 1 : j \in DOMAIN b /\ j \notin S
  BY <1>2, <1>4 DEF Index
<1> QED BY <1>4, <1>5

(* What shows that a string is below another.                              *)
LEMMA LessAt ==
  ASSUME NEW a, NEW b, NEW i \in 1 .. Len(b),
         \A j \in 1 .. i - 1 : j <= Len(a) /\ a[j] = b[j], i <= Len(a) => a[i] < b[i]
  PROVE  Less(a, b)
BY DEF Less

(* There are bytes above an index, and with a terminator they still are.   *)
LEMMA AfterIsAbove ==
  ASSUME NEW b \in Index
  PROVE  /\ FiAfter(b) # {}
         /\ \A s \in FiAfter(b) : s \in Seq(Byte) /\ Less(b, Append(s, Terminator))
<1>1. b \in Seq(Byte) /\ b \in Seq(Int) /\ DOMAIN b = 1 .. Len(b)
  BY IndexType
<1>2. \A i \in DOMAIN b : b[i] \in Byte /\ b[i] <= MaxByte /\ b[i] \in Int
  BY IndexType, BytesAssumption DEF Byte
<1>3. FiAfter(b) # {}
  <2>1. PICK i \in DOMAIN b : b[i] # MaxByte /\ \A j \in 1 .. i - 1 : b[j] = MaxByte
    BY FirstOther, Bytes
  <2>2. b[i] < MaxByte
    BY <1>2, <2>1, BytesAssumption
  <2> QED BY <2>1, <2>2 DEF FiAfter
<1>4. ASSUME NEW s \in FiAfter(b)
      PROVE  s \in Seq(Byte) /\ Less(b, Append(s, Terminator))
  <2>1. PICK i \in DOMAIN b :
          /\ b[i] < MaxByte
          /\ \A j \in 1 .. i - 1 : b[j] = MaxByte
          /\ s = IF b[i] < Terminator THEN SubSeq(b, 1, i - 1)
                 ELSE [SubSeq(b, 1, i) EXCEPT ![i] = @ + 1]
    BY <1>4 DEF FiAfter
  <2>2. i \in 1 .. Len(b)
    BY <1>1, <2>1
  <2>3. CASE b[i] < Terminator
    <3>0. s = SubSeq(b, 1, i - 1)
      BY <2>1, <2>3
    <3>1. s \in Seq(Byte) /\ Len(s) = i - 1 /\ \A j \in 1 .. i - 1 : s[j] = b[j]
      BY <1>1, <2>2, <3>0
    <3> DEFINE t == Append(s, Terminator)
    <3>2. Len(t) = i /\ t[i] = Terminator /\ \A j \in 1 .. i - 1 : t[j] = b[j]
      BY <3>1, <2>2
    <3> HIDE DEF t
    <3>3. Less(b, t)
      BY <1>1, <2>2, <2>3, <3>2 DEF Less
    <3> QED BY <3>1, <3>3 DEF t
  <2>4. CASE ~(b[i] < Terminator)
    <3> DEFINE h == SubSeq(b, 1, i)
    <3>0. s = [h EXCEPT ![i] = h[i] + 1]
      BY <2>1, <2>4
    <3>1. h \in Seq(Byte) /\ Len(h) = i /\ \A j \in 1 .. i : h[j] = b[j]
      BY <1>1, <2>2
    <3> HIDE DEF h
    <3>2. s = [h EXCEPT ![i] = b[i] + 1]
      <4>1. h[i] = b[i]
        BY <3>1, <2>2
      <4> QED BY <3>0, <4>1
    <3>3. b[i] + 1 \in Byte
      BY <1>2, <2>1, BytesAssumption DEF Byte
    <3>4. s \in Seq(Byte) /\ Len(s) = i /\ s[i] = b[i] + 1 /\ \A j \in 1 .. i - 1 : s[j] = b[j]
      BY <2>2, <3>1, <3>2, <3>3
    <3> DEFINE t == Append(s, Terminator)
    <3>5. Len(t) = i + 1 /\ t[i] = b[i] + 1 /\ \A j \in 1 .. i - 1 : t[j] = b[j]
      BY <3>4, <2>2
    <3> HIDE DEF t
    <3>6. Less(b, t)
      <4>1. i \in 1 .. Len(t) /\ b[i] < t[i] /\ \A j \in 1 .. i - 1 : j <= Len(b) /\ b[j] = t[j]
        BY <1>1, <1>2, <2>2, <3>5
      <4> QED BY <4>1, LessAt
    <3> QED BY <3>4, <3>6 DEF t
  <2> QED BY <2>3, <2>4
<1> QED BY <1>3, <1>4

(* There are bytes below an index, and with a terminator they still are.   *)
LEMMA BeforeIsBelow ==
  ASSUME NEW b \in Index
  PROVE  /\ FiBefore(b) # {}
         /\ \A s \in FiBefore(b) : s \in Seq(Byte) /\ Less(Append(s, Terminator), b)
<1>1. b \in Seq(Byte) /\ b \in Seq(Int) /\ DOMAIN b = 1 .. Len(b)
  BY IndexType
<1>2. \A i \in DOMAIN b : b[i] \in Byte /\ b[i] >= 0 /\ b[i] \in Int
  BY IndexType, BytesAssumption DEF Byte
<1>3. FiBefore(b) # {}
  <2>1. PICK i \in DOMAIN b : b[i] # 0 /\ \A j \in 1 .. i - 1 : b[j] = 0
    BY FirstOther, Bytes
  <2>2. b[i] > 0
    BY <1>2, <2>1
  <2> QED BY <2>1, <2>2 DEF FiBefore
<1>4. ASSUME NEW s \in FiBefore(b)
      PROVE  s \in Seq(Byte) /\ Less(Append(s, Terminator), b)
  <2>1. PICK i \in DOMAIN b :
          /\ b[i] > 0
          /\ \A j \in 1 .. i - 1 : b[j] = 0
          /\ s = IF b[i] > Terminator THEN SubSeq(b, 1, i - 1)
                 ELSE [SubSeq(b, 1, i) EXCEPT ![i] = @ - 1]
    BY <1>4 DEF FiBefore
  <2>2. i \in 1 .. Len(b)
    BY <1>1, <2>1
  <2>3. CASE b[i] > Terminator
    <3>0. s = SubSeq(b, 1, i - 1)
      BY <2>1, <2>3
    <3>1. s \in Seq(Byte) /\ Len(s) = i - 1 /\ \A j \in 1 .. i - 1 : s[j] = b[j]
      BY <1>1, <2>2, <3>0
    <3> DEFINE t == Append(s, Terminator)
    <3>2. Len(t) = i /\ t[i] = Terminator /\ \A j \in 1 .. i - 1 : t[j] = b[j]
      BY <3>1, <2>2
    <3> HIDE DEF t
    <3>3. Less(t, b)
      BY <1>1, <2>2, <2>3, <3>2 DEF Less
    <3> QED BY <3>1, <3>3 DEF t
  <2>4. CASE ~(b[i] > Terminator)
    <3> DEFINE h == SubSeq(b, 1, i)
    <3>0. s = [h EXCEPT ![i] = h[i] - 1]
      BY <2>1, <2>4
    <3>1. h \in Seq(Byte) /\ Len(h) = i /\ \A j \in 1 .. i : h[j] = b[j]
      BY <1>1, <2>2
    <3> HIDE DEF h
    <3>2. s = [h EXCEPT ![i] = b[i] - 1]
      <4>1. h[i] = b[i]
        BY <3>1, <2>2
      <4> QED BY <3>0, <4>1
    <3>3. b[i] - 1 \in Byte
      BY <1>2, <2>1, BytesAssumption DEF Byte
    <3>4. s \in Seq(Byte) /\ Len(s) = i /\ s[i] = b[i] - 1 /\ \A j \in 1 .. i - 1 : s[j] = b[j]
      BY <2>2, <3>1, <3>2, <3>3
    <3> DEFINE t == Append(s, Terminator)
    <3>5. Len(t) = i + 1 /\ t[i] = b[i] - 1 /\ \A j \in 1 .. i - 1 : t[j] = b[j]
      BY <3>4, <2>2
    <3> HIDE DEF t
    <3>6. Less(t, b)
      <4>1. i \in 1 .. Len(b) /\ t[i] < b[i] /\ \A j \in 1 .. i - 1 : j <= Len(t) /\ t[j] = b[j]
        BY <1>1, <1>2, <2>2, <3>5
      <4> QED BY <4>1, LessAt
    <3> QED BY <3>4, <3>6 DEF t
  <2> QED BY <2>3, <2>4
<1> QED BY <1>3, <1>4

(* The rest of an index is an index.                                       *)
LEMMA DropIsIndex ==
  ASSUME NEW b \in Index, NEW i \in Nat, i < Len(b)
  PROVE  /\ Drop(b, i) \in Index /\ SubSeq(b, 1, i) \in Seq(Byte) /\ Len(SubSeq(b, 1, i)) = i
         /\ \A j \in 1 .. i : SubSeq(b, 1, i)[j] = b[j]
         /\ b = SubSeq(b, 1, i) \o Drop(b, i)
<1> DEFINE p == SubSeq(b, 1, i)
           d == SubSeq(b, i + 1, Len(b))
<1>1. b \in Seq(Byte) /\ Len(b) \in Nat \ {0} /\ b[Len(b)] = Terminator
  BY IndexType DEF Index
<1>2. p \in Seq(Byte) /\ Len(p) = i /\ \A j \in 1 .. i : p[j] = b[j]
  BY <1>1, SubSeqProperties
<1>3. d \in Seq(Byte) /\ Len(d) = Len(b) - i /\ d[Len(b) - i] = b[Len(b)]
  <2>1. \A j \in i + 1 .. Len(b) : b[j] \in Byte
    BY <1>1
  <2>2. /\ d \in Seq(Byte)
        /\ Len(d) = IF i + 1 <= Len(b) THEN Len(b) - (i + 1) + 1 ELSE 0
        /\ \A j \in 1 .. Len(b) - (i + 1) + 1 : d[j] = b[i + 1 + j - 1]
    BY <1>1, <2>1, SubSeqProperties
  <2>3. Len(b) - i \in 1 .. Len(b) - (i + 1) + 1 /\ i + 1 + (Len(b) - i) - 1 = Len(b)
    BY <1>1
  <2> HIDE DEF d
  <2>4. d[Len(b) - i] = b[i + 1 + (Len(b) - i) - 1]
    BY <2>2, <2>3
  <2> QED BY <1>1, <2>2, <2>3, <2>4
<1>4. d \in Index
  <2> HIDE DEF d
  <2>1. d # <<>> /\ d[Len(d)] = Terminator
    BY <1>1, <1>3
  <2> QED BY <1>3, <2>1 DEF Index
<1>5. b = p \o d
  <2>1. i \in 0 .. Len(b) /\ 1 \in 1 .. Len(b) + 1 /\ Len(b) \in i .. Len(b)
    BY <1>1
  <2>2. p \o d = SubSeq(b, 1, Len(b))
    <3>1. i \in 1 - 1 .. Len(b)
      BY <2>1
    <3> QED BY <1>1, <2>1, <3>1, ConcatAdjacentSubSeq
  <2> QED BY <1>1, <2>2, SubSeqFull
<1> QED BY <1>2, <1>4, <1>5 DEF Drop

(* Bytes joined to the start of an index keep that start.                  *)
LEMMA JoinKeepsStart ==
  ASSUME NEW p \in Seq(Byte), NEW a \in Seq(Byte)
  PROVE  /\ p \o a \in Seq(Byte)
         /\ Append(p \o a, Terminator) = p \o Append(a, Terminator)
         /\ Len(Append(p \o a, Terminator)) = Len(p) + Len(a) + 1
         /\ \A j \in 1 .. Len(p) : Append(p \o a, Terminator)[j] = p[j]
BY Bytes

(* Byte strings are sequences of numbers.                                  *)
LEMMA SeqOfBytes == ASSUME NEW a \in Seq(Byte) PROVE a \in Seq(Int)
BY Bytes, SeqMonotonic

(* What lies above the rest of an index lies above it behind its start ... *)
LEMMA AfterBehindStart ==
  ASSUME NEW b \in Index, NEW i \in Nat, i < Len(b)
  PROVE  LET new == FiJoin(SubSeq(b, 1, i), FiAfter(Drop(b, i)))
         IN  /\ new # {}
             /\ \A s \in new :
                  LET t == Append(s, Terminator)
                  IN  s \in Seq(Byte) /\ Less(b, t) /\ i < Len(t) /\ \A j \in 1 .. i : t[j] = b[j]
<1> DEFINE p == SubSeq(b, 1, i)
           d == Drop(b, i)
<1>1. d \in Index /\ p \in Seq(Byte) /\ Len(p) = i /\ b = p \o d /\ \A j \in 1 .. i : p[j] = b[j]
  BY DropIsIndex
<1> HIDE DEF p, d
<1>2. FiAfter(d) # {} /\ \A a \in FiAfter(d) : a \in Seq(Byte) /\ Less(d, Append(a, Terminator))
  BY <1>1, AfterIsAbove
<1>3. ASSUME NEW s \in FiJoin(p, FiAfter(d))
      PROVE  LET t == Append(s, Terminator)
             IN  s \in Seq(Byte) /\ Less(b, t) /\ i < Len(t) /\ \A j \in 1 .. i : t[j] = b[j]
  <2>1. PICK a \in FiAfter(d) : s = p \o a
    BY DEF FiJoin
  <2>2. a \in Seq(Byte) /\ Less(d, Append(a, Terminator)) /\ Append(a, Terminator) \in Seq(Byte)
    BY <1>2, Bytes
  <2>3. Less(p \o d, p \o Append(a, Terminator))
    BY <1>1, <2>2, LessBehindPrefix, IndexType, SeqOfBytes
  <2>4. /\ s \in Seq(Byte) /\ Append(s, Terminator) = p \o Append(a, Terminator)
        /\ Len(Append(s, Terminator)) = i + Len(a) + 1
        /\ \A j \in 1 .. i : Append(s, Terminator)[j] = p[j]
    BY <1>1, <2>1, <2>2, JoinKeepsStart
  <2>5. i < Len(Append(s, Terminator))
    BY <2>2, <2>4
  <2> QED BY <1>1, <2>3, <2>4, <2>5
<1>4. FiJoin(p, FiAfter(d)) # {}
  BY <1>2 DEF FiJoin
<1> QED BY <1>3, <1>4 DEF p, d

(* ... and below likewise.                                                 *)
LEMMA BeforeBehindStart ==
  ASSUME NEW b \in Index, NEW i \in Nat, i < Len(b)
  PROVE  LET new == FiJoin(SubSeq(b, 1, i), FiBefore(Drop(b, i)))
         IN  /\ new # {}
             /\ \A s \in new :
                  LET t == Append(s, Terminator)
                  IN  s \in Seq(Byte) /\ Less(t, b) /\ i < Len(t) /\ \A j \in 1 .. i : t[j] = b[j]
<1> DEFINE p == SubSeq(b, 1, i)
           d == Drop(b, i)
<1>1. d \in Index /\ p \in Seq(Byte) /\ Len(p) = i /\ b = p \o d /\ \A j \in 1 .. i : p[j] = b[j]
  BY DropIsIndex
<1> HIDE DEF p, d
<1>2. FiBefore(d) # {} /\ \A a \in FiBefore(d) : a \in Seq(Byte) /\ Less(Append(a, Terminator), d)
  BY <1>1, BeforeIsBelow
<1>3. ASSUME NEW s \in FiJoin(p, FiBefore(d))
      PROVE  LET t == Append(s, Terminator)
             IN  s \in Seq(Byte) /\ Less(t, b) /\ i < Len(t) /\ \A j \in 1 .. i : t[j] = b[j]
  <2>1. PICK a \in FiBefore(d) : s = p \o a
    BY DEF FiJoin
  <2>2. a \in Seq(Byte) /\ Less(Append(a, Terminator), d) /\ Append(a, Terminator) \in Seq(Byte)
    BY <1>2, Bytes
  <2>3. Less(p \o Append(a, Terminator), p \o d)
    BY <1>1, <2>2, LessBehindPrefix, IndexType, SeqOfBytes
  <2>4. /\ s \in Seq(Byte) /\ Append(s, Terminator) = p \o Append(a, Terminator)
        /\ Len(Append(s, Terminator)) = i + Len(a) + 1
        /\ \A j \in 1 .. i : Append(s, Terminator)[j] = p[j]
    BY <1>1, <2>1, <2>2, JoinKeepsStart
  <2>5. i < Len(Append(s, Terminator))
    BY <2>2, <2>4
  <2> QED BY <1>1, <2>3, <2>4, <2>5
<1>4. FiJoin(p, FiBefore(d)) # {}
  BY <1>2 DEF FiJoin
<1> QED BY <1>3, <1>4 DEF p, d

(* Between two indexes in order there are bytes, and with a terminator     *)
(* they still lie between them.                                            *)
LEMMA BetweenIsBetween ==
  ASSUME NEW l \in Index, NEW r \in Index, Less(l, r)
  PROVE  /\ FiBetween(l, r) # {}
         /\ \A s \in FiBetween(l, r) :
              s \in Seq(Byte) /\ Less(l, Append(s, Terminator)) /\ Less(Append(s, Terminator), r)
<1> DEFINE n == (IF Len(l) < Len(r) THEN Len(l) ELSE Len(r)) - 1
           differ == {j \in 1 .. n : l[j] # r[j]}
<1>1. /\ l \in Seq(Byte) /\ Len(l) \in Nat \ {0} /\ l[Len(l)] = Terminator /\ l # <<>>
      /\ r \in Seq(Byte) /\ Len(r) \in Nat \ {0} /\ r[Len(r)] = Terminator /\ r # <<>>
      /\ \A j \in 1 .. Len(l) : l[j] \in Byte /\ l[j] \in Int
      /\ \A j \in 1 .. Len(r) : r[j] \in Byte /\ r[j] \in Int
  BY IndexType, Bytes DEF Index
<1>2. n \in Nat /\ n < Len(l) /\ n < Len(r) /\ (n + 1 = Len(l) \/ n + 1 = Len(r))
  BY <1>1
<1>3. PICK w \in 1 .. Len(r) :
        /\ \A j \in 1 .. w - 1 : j <= Len(l) /\ l[j] = r[j]
        /\ w <= Len(l) => l[w] < r[w]
  BY DEF Less
<1>4. CASE differ # {}
  <2>1. Least(differ) \in differ /\ \A j \in differ : Least(differ) <= j
    <3>1. differ \in SUBSET Nat
      OBVIOUS
    <3> HIDE DEF differ
    <3> QED BY <1>4, <3>1, LeastProperties
  <2>2. PICK i \in differ : i = Least(differ)
    BY <2>1
  <2>3. i \in 1 .. n /\ l[i] # r[i] /\ i < Len(l) /\ i < Len(r)
    BY <1>2
  <2>4. \A j \in 1 .. i - 1 : l[j] = r[j]
    <3> SUFFICES ASSUME NEW j \in 1 .. i - 1, l[j] # r[j] PROVE FALSE
      OBVIOUS
    <3>1. j \in 1 .. n /\ j < i
      BY <1>2, <2>3
    <3>2. j \in differ
      BY <3>1
    <3> HIDE DEF differ
    <3>3. i <= j
      BY <2>1, <2>2, <3>2
    <3> QED BY <2>3, <3>1, <3>3
  <2>5. w = i
    <3>1. ~(w < i)
      <4> SUFFICES ASSUME w < i PROVE FALSE
        OBVIOUS
      <4>1. w \in 1 .. i - 1 /\ w <= Len(l) /\ w \in 1 .. Len(l)
        BY <1>1, <2>3
      <4> QED BY <1>1, <1>3, <2>4, <4>1
    <3>2. ~(i < w)
      BY <1>3, <2>3
    <3> QED BY <2>3, <3>1, <3>2
  <2>6. l[i] < r[i] /\ l[i] \in Byte /\ r[i] \in Byte /\ l[i] \in Int /\ r[i] \in Int
    BY <1>1, <1>3, <2>3, <2>5
  <2>7. CASE r[i] - l[i] > 1
    <3> DEFINE h == SubSeq(l, 1, i)
               v == l[i] + (r[i] - l[i]) \div 2
               s == [h EXCEPT ![i] = v]
               t == Append(s, Terminator)
    <3>1. FiBetween(l, r) = {[h EXCEPT ![i] = h[i] + (r[i] - l[i]) \div 2]}
      BY <1>1, <1>4, <2>2, <2>7 DEF FiBetween
    <3>2. h \in Seq(Byte) /\ Len(h) = i /\ \A j \in 1 .. i : h[j] = l[j]
      BY <1>1, <2>3
    <3>3. h[i] = l[i]
      BY <2>3, <3>2
    <3>4. FiBetween(l, r) = {s}
      BY <3>1, <3>3
    <3>5. l[i] < v /\ v < r[i] /\ v \in Byte
      <4>1. PICK x \in Int, y \in Int : x = l[i] /\ y = r[i]
        BY <2>6
      <4>2. MaxByte \in Nat /\ x \in 0 .. MaxByte /\ y \in 0 .. MaxByte
        BY <2>6, <4>1, BytesAssumption DEF Byte
      <4>3. y - x > 1
        BY <2>7, <4>1
      <4>4. x < x + (y - x) \div 2 /\ x + (y - x) \div 2 < y
        BY ONLY <4>3, SMTT(30)
      <4>5. v = x + (y - x) \div 2
        BY <4>1
      <4> HIDE DEF v
      <4>6. l[i] < v /\ v < r[i] /\ v \in Int
        BY <4>1, <4>4, <4>5
      <4> QED BY <4>1, <4>2, <4>6 DEF Byte
    <3> HIDE DEF h, v
    <3>6. s \in Seq(Byte) /\ Len(s) = i /\ s[i] = v /\ \A j \in 1 .. i - 1 : s[j] = l[j]
      BY <2>3, <3>2, <3>5
    <3> HIDE DEF s
    <3>7. Len(t) = i + 1 /\ t[i] = v /\ \A j \in 1 .. i - 1 : t[j] = l[j]
      BY <2>3, <3>6
    <3> HIDE DEF t
    <3>8. Less(l, t)
      <4>1. i \in 1 .. Len(t) /\ l[i] < t[i] /\ \A j \in 1 .. i - 1 : j <= Len(l) /\ l[j] = t[j]
        BY <1>1, <2>3, <3>5, <3>7
      <4> QED BY <4>1, LessAt
    <3>9. Less(t, r)
      <4>1. i \in 1 .. Len(r) /\ t[i] < r[i] /\ \A j \in 1 .. i - 1 : j <= Len(t) /\ t[j] = r[j]
        BY <1>1, <2>3, <2>4, <3>5, <3>7
      <4> QED BY <4>1, LessAt
    <3> QED BY <3>4, <3>6, <3>8, <3>9 DEF t
  <2>8. CASE ~(r[i] - l[i] > 1)
    <3>1. r[i] - l[i] = 1
      BY <2>6, <2>8
    <3>2. FiBetween(l, r) = FiJoin(SubSeq(l, 1, i), FiAfter(Drop(l, i)))
      BY <1>1, <1>4, <2>2, <3>1 DEF FiBetween
    <3>3. /\ FiBetween(l, r) # {}
          /\ \A s \in FiBetween(l, r) :
               LET t == Append(s, Terminator)
               IN  s \in Seq(Byte) /\ Less(l, t) /\ i < Len(t) /\ \A j \in 1 .. i : t[j] = l[j]
      BY <2>3, <3>2, AfterBehindStart
    <3>4. ASSUME NEW s \in FiBetween(l, r)
          PROVE  Less(Append(s, Terminator), r)
      <4> DEFINE t == Append(s, Terminator)
      <4>1. i < Len(t) /\ \A j \in 1 .. i : t[j] = l[j]
        BY <3>3
      <4> HIDE DEF t
      <4>2. t[i] < r[i] /\ \A j \in 1 .. i - 1 : j <= Len(t) /\ t[j] = r[j]
        BY <2>3, <2>4, <2>6, <4>1
      <4>3. Less(t, r)
        BY <2>3, <4>2 DEF Less
      <4> QED BY <4>3 DEF t
    <3> QED BY <3>3, <3>4
  <2> QED BY <2>7, <2>8
<1>5. CASE differ = {}
  <2>1. \A j \in 1 .. n : l[j] = r[j]
    BY <1>5
  <2>2. w > n
    <3> SUFFICES ASSUME w \in 1 .. n PROVE FALSE
      BY <1>2, <1>3
    <3>1. w <= Len(l) /\ l[w] = r[w] /\ l[w] \in Int
      BY <1>1, <1>2, <2>1
    <3> QED BY <1>3, <3>1
  <2>3. CASE Len(l) < Len(r)
    <3>1. n + 1 = Len(l) /\ l[n + 1] = Terminator /\ n + 1 < Len(r) /\ r[n + 1] \in Int
      BY <1>1, <2>3
    <3>2. r[n + 1] >= Terminator
      <4>1. CASE w = n + 1
        BY <1>3, <3>1, <4>1, Bytes
      <4>2. CASE w > n + 1
        <5>1. n + 1 \in 1 .. w - 1
          BY <1>2, <4>2
        <5> QED BY <1>3, <3>1, <5>1
      <4> QED BY <1>2, <2>2, <4>1, <4>2
    <3>3. FiBetween(l, r) = FiJoin(SubSeq(r, 1, n + 1), FiBefore(Drop(r, n + 1)))
      BY <1>1, <1>5, <2>3, <3>2 DEF FiBetween
    <3>4. n + 1 \in Nat
      BY <1>2
    <3>5. /\ FiBetween(l, r) # {}
          /\ \A s \in FiBetween(l, r) :
               LET t == Append(s, Terminator)
               IN  s \in Seq(Byte) /\ Less(t, r) /\ n + 1 < Len(t) /\ \A j \in 1 .. n + 1 : t[j] = r[j]
      BY <3>1, <3>3, <3>4, BeforeBehindStart
    <3>6. ASSUME NEW s \in FiBetween(l, r)
          PROVE  Less(l, Append(s, Terminator))
      <4> DEFINE t == Append(s, Terminator)
      <4>1. n + 1 < Len(t) /\ \A j \in 1 .. n + 1 : t[j] = r[j]
        BY <3>5
      <4>2. t \in Seq(Byte) /\ Len(t) \in Nat
        BY <3>5, Bytes
      <4> HIDE DEF t
      <4>3. ASSUME r[n + 1] > Terminator
            PROVE  Less(l, t)
        <5>1. PICK m \in 1 .. Len(t) : m = n + 1
          BY <1>2, <4>1, <4>2
        <5>2. l[m] < t[m] /\ \A j \in 1 .. m - 1 : j <= Len(l) /\ l[j] = t[j]
          BY <1>2, <2>1, <3>1, <4>1, <4>3, <5>1
        <5> QED BY <5>2 DEF Less
      <4>4. ASSUME r[n + 1] = Terminator
            PROVE  Less(l, t)
        <5>1. PICK m \in 1 .. Len(t) : m = n + 2
          BY <1>2, <4>1, <4>2
        <5>2. ~(m <= Len(l)) /\ \A j \in 1 .. m - 1 : j <= Len(l) /\ l[j] = t[j]
          BY <1>2, <2>1, <3>1, <4>1, <4>4, <5>1
        <5> QED BY <5>2 DEF Less
      <4>5. r[n + 1] > Terminator \/ r[n + 1] = Terminator
        BY <3>1, <3>2, Bytes
      <4>6. Less(l, t)
        BY <4>3, <4>4, <4>5
      <4> QED BY <4>6 DEF t
    <3> QED BY <3>5, <3>6
  <2>4. CASE Len(l) > Len(r)
    <3>1. n + 1 = Len(r) /\ r[n + 1] = Terminator /\ n + 1 < Len(l) /\ l[n + 1] \in Int
      BY <1>1, <2>4
    <3>2. w = n + 1 /\ l[n + 1] < Terminator
      BY <1>2, <1>3, <2>2, <3>1
    <3>3. FiBetween(l, r) = FiJoin(SubSeq(l, 1, n + 1), FiAfter(Drop(l, n + 1)))
      <4>1. ~(Len(l) < Len(r))
        BY <1>1, <2>4
      <4> QED BY <1>1, <1>5, <2>4, <3>2, <4>1 DEF FiBetween
    <3>4. n + 1 \in Nat
      BY <1>2
    <3>5. /\ FiBetween(l, r) # {}
          /\ \A s \in FiBetween(l, r) :
               LET t == Append(s, Terminator)
               IN  s \in Seq(Byte) /\ Less(l, t) /\ n + 1 < Len(t) /\ \A j \in 1 .. n + 1 : t[j] = l[j]
      BY <3>1, <3>3, <3>4, AfterBehindStart
    <3>6. ASSUME NEW s \in FiBetween(l, r)
          PROVE  Less(Append(s, Terminator), r)
      <4> DEFINE t == Append(s, Terminator)
      <4>1. n + 1 < Len(t) /\ \A j \in 1 .. n + 1 : t[j] = l[j]
        BY <3>5
      <4> HIDE DEF t
      <4>2. /\ n + 1 \in 1 .. Len(r) /\ t[n + 1] < r[n + 1]
            /\ \A j \in 1 .. n + 1 - 1 : j <= Len(t) /\ t[j] = r[j]
        BY <1>2, <2>1, <3>1, <3>2, <4>1
      <4>3. Less(t, r)
        BY <4>2 DEF Less
      <4> QED BY <4>3 DEF t
    <3> QED BY <3>5, <3>6
  <2>5. Len(l) # Len(r)
    <3> SUFFICES ASSUME Len(l) = Len(r) PROVE FALSE
      OBVIOUS
    <3>1. w = Len(l) /\ w = Len(r)
      BY <1>1, <1>2, <1>3, <2>2
    <3> QED BY <1>1, <1>3, <3>1
  <2> QED BY <1>1, <2>3, <2>4, <2>5
<1> QED BY <1>4, <1>5

(* The gap between two indexes in order, either of which may be absent.    *)
Gap(lower, upper) ==
  /\ lower \in Index \cup {Absent}
  /\ upper \in Index \cup {Absent}
  /\ lower # Absent /\ upper # Absent => Less(lower, upper)

In(x, lower, upper) ==
  /\ x \in Index
  /\ lower # Absent => Less(lower, x)
  /\ upper # Absent => Less(x, upper)

(* No index is the absent one.                                             *)
LEMMA AbsentIsNoIndex == Absent \notin Index
BY DEF Index, Absent

(* There is a new index in every gap (fiNew).                              *)
LEMMA NewIsInGap ==
  ASSUME NEW lower, NEW upper, Gap(lower, upper)
  PROVE  FiNew(lower, upper) # {} /\ \A x \in FiNew(lower, upper) : In(x, lower, upper)
<1> DEFINE some == IF upper = Absent THEN FiAfter(lower)
                   ELSE IF lower = Absent THEN FiBefore(upper)
                   ELSE FiBetween(lower, upper)
<1>1. ASSUME NEW s \in Seq(Byte)
      PROVE  Append(s, Terminator) \in Index
  <2>1. Append(s, Terminator) \in Seq(Byte) /\ Len(Append(s, Terminator)) = Len(s) + 1
          /\ Append(s, Terminator)[Len(s) + 1] = Terminator /\ Append(s, Terminator) # <<>>
    BY Bytes, AppendProperties
  <2> QED BY <2>1 DEF Index
<1>2. CASE lower = Absent /\ upper = Absent
  <2>1. FiNew(lower, upper) = {Append(<<>>, Terminator)}
    BY <1>2 DEF FiNew
  <2>2. Append(<<>>, Terminator) \in Index
    BY <1>1, EmptySeq
  <2> QED BY <1>2, <2>1, <2>2 DEF In
<1>3. CASE ~(lower = Absent /\ upper = Absent)
  <2>1. FiNew(lower, upper) = {Append(s, Terminator) : s \in some}
    BY <1>3 DEF FiNew
  <2>2. /\ some # {}
        /\ \A s \in some : /\ s \in Seq(Byte)
                           /\ lower # Absent => Less(lower, Append(s, Terminator))
                           /\ upper # Absent => Less(Append(s, Terminator), upper)
    <3>1. CASE upper = Absent
      BY <1>3, <3>1, AfterIsAbove DEF Gap
    <3>2. CASE upper # Absent /\ lower = Absent
      BY <3>2, BeforeIsBelow DEF Gap
    <3>3. CASE upper # Absent /\ lower # Absent
      BY <3>3, BetweenIsBetween DEF Gap
    <3> QED BY <3>1, <3>2, <3>3
  <2> HIDE DEF some
  <2> QED BY <1>1, <2>1, <2>2 DEF In
<1> QED BY <1>2, <1>3

-----------------------------------------------------------------------------
(* Several new indexes.                                                    *)

HalvesStep(gen, m, lo, up) ==
  IF m = 0 THEN {<<>>}
  ELSE UNION {{l \o <<mid>> \o r : l \in gen[m \div 2][lo][mid],
                                   r \in gen[m - m \div 2 - 1][mid][up]}
                : mid \in FiNew(lo, up)}

IsHalves(gen, n) ==
  gen = [m \in 0 .. n |-> [lo \in Seq(Byte) |-> [up \in Seq(Byte) |-> HalvesStep(gen, m, lo, up)]]]

(* One level of the recursion looks at the levels below it only.           *)
LEMMA HalvesStepUses ==
  ASSUME NEW m \in Nat, NEW g, NEW h, \A k \in Nat : k < m => g[k] = h[k], NEW lo, NEW up
  PROVE  HalvesStep(g, m, lo, up) = HalvesStep(h, m, lo, up)
<1>1. CASE m = 0
  BY <1>1 DEF HalvesStep
<1>2. CASE m # 0
  <2>1. m \div 2 \in Nat /\ m \div 2 < m /\ m - m \div 2 - 1 \in Nat /\ m - m \div 2 - 1 < m
    BY <1>2
  <2>2. g[m \div 2] = h[m \div 2] /\ g[m - m \div 2 - 1] = h[m - m \div 2 - 1]
    BY <2>1
  <2> QED BY <2>2 DEF HalvesStep
<1> QED BY <1>1, <1>2

(* The recursion of fiEvenly defines a function.                           *)
LEMMA HalvesDefined ==
  ASSUME NEW n \in Nat
  PROVE  \E g : IsHalves(g, n)
<1> DEFINE S == {k \in Nat : \E g : IsHalves(g, k)}
<1>1. 0 \in S
  <2> DEFINE g == [m \in 0 .. 0 |-> [lo \in Seq(Byte) |-> [up \in Seq(Byte) |-> {<<>>}]]]
  <2>1. \A m \in 0 .. 0 : \A lo, up : HalvesStep(g, m, lo, up) = {<<>>}
    BY DEF HalvesStep
  <2>2. IsHalves(g, 0)
    <3> HIDE DEF g
    <3>1. g = [m \in 0 .. 0 |-> [lo \in Seq(Byte) |-> [up \in Seq(Byte) |-> {<<>>}]]]
      BY DEF g
    <3> QED BY <2>1, <3>1, Zenon DEF IsHalves
  <2> QED BY <2>2
<1>2. ASSUME NEW k \in S
      PROVE  k + 1 \in S
  <2>1. PICK g : IsHalves(g, k)
    OBVIOUS
  <2> DEFINE row(f, m) == [lo \in Seq(Byte) |-> [up \in Seq(Byte) |-> HalvesStep(f, m, lo, up)]]
             h == [m \in 0 .. k + 1 |-> IF m = k + 1 THEN row(g, m) ELSE g[m]]
  <2>2. g = [m \in 0 .. k |-> row(g, m)]
    BY <2>1 DEF IsHalves
  <2>3. \A m \in 0 .. k + 1 : h[m] = row(g, m)
    <3> HIDE DEF row
    <3> QED BY <2>2
  <2>4. \A m \in Nat : m < k + 1 => h[m] = g[m]
    <3> HIDE DEF row
    <3> QED BY <2>2
  <2>5. ASSUME NEW m \in 0 .. k + 1
        PROVE  row(h, m) = row(g, m)
    <3> HIDE DEF h
    <3>1. \A i \in Nat : i < m => h[i] = g[i]
      BY <2>4
    <3>2. \A lo, up : HalvesStep(h, m, lo, up) = HalvesStep(g, m, lo, up)
      BY <3>1, HalvesStepUses
    <3> QED BY <3>2, Zenon
  <2>6. h = [m \in 0 .. k + 1 |-> h[m]]
    OBVIOUS
  <2> HIDE DEF h
  <2>7. IsHalves(h, k + 1)
    <3>1. \A m \in 0 .. k + 1 : h[m] = row(h, m)
      BY <2>3, <2>5, Zenon
    <3> HIDE DEF row
    <3>2. h = [m \in 0 .. k + 1 |-> row(h, m)]
      BY <2>6, <3>1, Zenon
    <3> QED BY <3>2, Zenon DEF IsHalves, row
  <2> QED BY <2>7
<1>3. S = Nat
  <2> HIDE DEF S
  <2>1. S \in SUBSET Nat
    BY DEF S
  <2> QED BY <1>1, <1>2, <2>1, NatSetInduction
<1> QED BY <1>3

(* What fiEvenly returns is the value of such a function.                  *)
LEMMA HalvesRecursion ==
  ASSUME NEW n \in Nat, NEW lower, NEW upper
  PROVE  \E g : IsHalves(g, n) /\ Halves(lower, upper, n) = g[n][lower][upper]
<1> DEFINE h == CHOOSE g : IsHalves(g, n)
<1>1. IsHalves(h, n)
  BY HalvesDefined
<1>2. Halves(lower, upper, n) = h[n][lower][upper]
  BY DEF Halves, IsHalves, HalvesStep
<1> QED BY <1>1, <1>2

(* m indexes in order within a gap.                                        *)
Spread(fis, lower, upper, m) ==
  /\ fis \in Seq(Index) /\ Len(fis) = m
  /\ \A k \in 1 .. m - 1 : Less(fis[k], fis[k + 1])
  /\ m > 0 => /\ lower # Absent => Less(lower, fis[1])
              /\ upper # Absent => Less(fis[m], upper)

(* The two halves and the index between them are spread over the gap.      *)
LEMMA SpreadJoins ==
  ASSUME NEW lower, NEW upper, NEW mid, In(mid, lower, upper),
         NEW a \in Nat, NEW b \in Nat,
         NEW l, Spread(l, lower, mid, a), NEW r, Spread(r, mid, upper, b)
  PROVE  Spread(l \o <<mid>> \o r, lower, upper, a + b + 1)
<1> DEFINE j == l \o <<mid>>
           f == j \o r
<1>1. /\ l \in Seq(Index) /\ Len(l) = a /\ r \in Seq(Index) /\ Len(r) = b
      /\ mid \in Index /\ mid # Absent /\ <<mid>> \in Seq(Index) /\ Len(<<mid>>) = 1
  BY AbsentIsNoIndex DEF Spread, In
<1>2. j \in Seq(Index) /\ Len(j) = a + 1 /\ (\A k \in 1 .. a : j[k] = l[k]) /\ j[a + 1] = mid
  BY <1>1
<1> HIDE DEF j
<1>3. /\ f \in Seq(Index) /\ Len(f) = a + b + 1
      /\ \A k \in 1 .. a + b + 1 : f[k] = IF k <= a + 1 THEN j[k] ELSE r[k - (a + 1)]
  <2>1. /\ f \in Seq(Index) /\ Len(f) = Len(j) + Len(r)
        /\ \A k \in 1 .. Len(j) + Len(r) : f[k] = IF k <= Len(j) THEN j[k] ELSE r[k - Len(j)]
    <3>1. j \in Seq(Index) /\ r \in Seq(Index)
      BY <1>1, <1>2
    <3> QED BY <3>1, ConcatProperties, Zenon
  <2> HIDE DEF f
  <2>2. Len(j) + Len(r) = a + b + 1 /\ Len(j) = a + 1
    BY <1>1, <1>2
  <2>3. ASSUME NEW k \in 1 .. a + b + 1
        PROVE  f[k] = IF k <= a + 1 THEN j[k] ELSE r[k - (a + 1)]
    <3>1. k \in 1 .. Len(j) + Len(r)
      BY <2>2
    <3>2. f[k] = IF k <= Len(j) THEN j[k] ELSE r[k - Len(j)]
      BY <2>1, <3>1
    <3> QED BY <2>2, <3>2, Zenon
  <2>4. f \in Seq(Index) /\ Len(f) = a + b + 1
    BY <2>1, <2>2
  <2> QED BY <2>3, <2>4
<1> HIDE DEF f
<1>4. (\A k \in 1 .. a : f[k] = l[k]) /\ f[a + 1] = mid
  BY <1>2, <1>3
<1>5. ASSUME NEW k \in 1 .. b
      PROVE  f[a + 1 + k] = r[k]
  <2>1. a + 1 + k \in 1 .. a + b + 1 /\ ~(a + 1 + k <= a + 1) /\ a + 1 + k - (a + 1) = k
    OBVIOUS
  <2> QED BY <1>3, <2>1
<1>6. ASSUME NEW k \in 1 .. a + b
      PROVE  Less(f[k], f[k + 1])
  <2>1. CASE k < a
    <3>1. k \in 1 .. a - 1 /\ k \in 1 .. a /\ k + 1 \in 1 .. a
      BY <2>1
    <3> QED BY <1>4, <3>1 DEF Spread
  <2>2. CASE k = a
    <3>1. f[k] = l[a] /\ f[k + 1] = mid /\ a > 0
      BY <1>4, <2>2
    <3> QED BY <1>1, <3>1 DEF Spread
  <2>3. CASE k = a + 1
    <3>1. b > 0 /\ 1 \in 1 .. b
      BY <2>3
    <3>2. f[k] = mid /\ f[k + 1] = r[1]
      BY <1>4, <1>5, <2>3, <3>1
    <3> QED BY <1>1, <3>1, <3>2 DEF Spread
  <2>4. CASE k > a + 1
    <3>1. PICK i \in 1 .. b - 1 : k = a + 1 + i
      BY <2>4
    <3>2. i \in 1 .. b /\ i + 1 \in 1 .. b /\ k + 1 = a + 1 + (i + 1)
      BY <3>1
    <3>3. f[k] = r[i] /\ f[k + 1] = r[i + 1]
      BY <1>5, <3>1, <3>2
    <3> QED BY <3>3 DEF Spread
  <2> QED BY <2>1, <2>2, <2>3, <2>4
<1>7. lower # Absent => Less(lower, f[1])
  <2>1. CASE a = 0
    BY <1>4, <2>1 DEF In
  <2>2. CASE a > 0
    <3>1. f[1] = l[1]
      BY <1>4, <2>2
    <3> QED BY <2>2, <3>1 DEF Spread
  <2> QED BY <2>1, <2>2
<1>8. upper # Absent => Less(f[a + b + 1], upper)
  <2>1. CASE b = 0
    BY <1>4, <2>1 DEF In
  <2>2. CASE b > 0
    <3>1. f[a + 1 + b] = r[b] /\ a + 1 + b = a + b + 1
      BY <1>5, <2>2
    <3> QED BY <2>2, <3>1 DEF Spread
  <2> QED BY <2>1, <2>2
<1>9. \A k \in 1 .. a + b + 1 - 1 : Less(f[k], f[k + 1])
  BY <1>6
<1>10. Spread(f, lower, upper, a + b + 1)
  BY <1>3, <1>7, <1>8, <1>9 DEF Spread
<1> QED BY <1>10 DEF f, j

(* Whatever the gap, there are n new indexes for it, in order (fiEvenly).  *)
LEMMA HalvesSpread ==
  ASSUME NEW n \in Nat, NEW lower, NEW upper, Gap(lower, upper)
  PROVE  /\ Halves(lower, upper, n) # {}
         /\ \A fis \in Halves(lower, upper, n) : Spread(fis, lower, upper, n)
<1>1. PICK g : IsHalves(g, n) /\ Halves(lower, upper, n) = g[n][lower][upper]
  BY HalvesRecursion
<1>2. \A lo, up : Gap(lo, up) => lo \in Seq(Byte) /\ up \in Seq(Byte)
  BY EmptySeq DEF Gap, Index, Absent
<1>3. ASSUME NEW m \in 0 .. n, NEW lo \in Seq(Byte), NEW up \in Seq(Byte)
      PROVE  g[m][lo][up] = HalvesStep(g, m, lo, up)
  <2> DEFINE row(k) == [x \in Seq(Byte) |-> [y \in Seq(Byte) |-> HalvesStep(g, k, x, y)]]
  <2>1. g = [k \in 0 .. n |-> row(k)]
    BY <1>1 DEF IsHalves
  <2>2. g[m] = row(m)
    <3> HIDE DEF row
    <3> QED BY <2>1
  <2>3. row(m)[lo] = [y \in Seq(Byte) |-> HalvesStep(g, m, lo, y)]
    OBVIOUS
  <2>4. row(m)[lo][up] = HalvesStep(g, m, lo, up)
    BY <2>3
  <2> QED BY <2>2, <2>4
<1> DEFINE Right(j) == \A lo, up : Gap(lo, up) =>
                          /\ g[j][lo][up] # {}
                          /\ \A fis \in g[j][lo][up] : Spread(fis, lo, up, j)
           S == {k \in Nat : \A j \in 0 .. k : j <= n => Right(j)}
<1>4. ASSUME NEW m \in 0 .. n, \A j \in Nat : j < m => Right(j)
      PROVE  Right(m)
  <2> SUFFICES ASSUME NEW lo, NEW up, Gap(lo, up)
               PROVE  /\ g[m][lo][up] # {}
                      /\ \A fis \in g[m][lo][up] : Spread(fis, lo, up, m)
    OBVIOUS
  <2>1. g[m][lo][up] = HalvesStep(g, m, lo, up)
    BY <1>2, <1>3
  <2>2. CASE m = 0
    <3>1. g[m][lo][up] = {<<>>}
      BY <2>1, <2>2 DEF HalvesStep
    <3>2. Spread(<<>>, lo, up, 0)
      BY EmptySeq DEF Spread
    <3> QED BY <2>2, <3>1, <3>2
  <2>3. CASE m # 0
    <3> DEFINE a == m \div 2
               b == m - m \div 2 - 1
    <3>1. a \in Nat /\ a < m /\ b \in Nat /\ b < m /\ a + b + 1 = m
      BY <2>3
    <3>2. Right(a) /\ Right(b)
      BY <1>4, <3>1
    <3> DEFINE T(mid) == {l \o <<mid>> \o r : l \in g[a][lo][mid], r \in g[b][mid][up]}
    <3>3. g[m][lo][up] = UNION {T(mid) : mid \in FiNew(lo, up)}
      BY <2>1, <2>3 DEF HalvesStep
    <3> HIDE DEF a, b
    <3>4. FiNew(lo, up) # {} /\ \A mid \in FiNew(lo, up) : In(mid, lo, up)
      BY NewIsInGap
    <3>5. ASSUME NEW mid \in FiNew(lo, up)
          PROVE  Gap(lo, mid) /\ Gap(mid, up)
      BY <3>4 DEF Gap, In
    <3>6. g[m][lo][up] # {}
      <4>1. PICK mid \in FiNew(lo, up) : TRUE
        BY <3>4
      <4>2. PICK l \in g[a][lo][mid], r \in g[b][mid][up] : TRUE
        BY <3>2, <3>5
      <4>3. l \o <<mid>> \o r \in T(mid)
        OBVIOUS
      <4> HIDE DEF T
      <4>4. l \o <<mid>> \o r \in g[m][lo][up]
        BY <3>3, <4>3
      <4> QED BY <4>4
    <3>7. ASSUME NEW fis \in g[m][lo][up]
          PROVE  Spread(fis, lo, up, m)
      <4>1. PICK mid \in FiNew(lo, up) : fis \in T(mid)
        <5> HIDE DEF T
        <5> QED BY <3>3
      <4>2. PICK l \in g[a][lo][mid], r \in g[b][mid][up] : fis = l \o <<mid>> \o r
        <5> HIDE DEF Spread
        <5> QED BY <4>1, SMTT(30)
      <4>3. Spread(l, lo, mid, a) /\ Spread(r, mid, up, b)
        <5>1. Gap(lo, mid) /\ Gap(mid, up)
          BY <3>5, SMTT(30)
        <5>2. l \in g[a][lo][mid] /\ r \in g[b][mid][up]
          BY <4>2
        <5> QED BY <3>2, <5>1, <5>2, SMTT(30)
      <4>4. Spread(l \o <<mid>> \o r, lo, up, a + b + 1)
        BY <3>1, <3>4, <4>3, SpreadJoins
      <4> QED BY <3>1, <4>2, <4>4
    <3> QED BY <3>6, <3>7
  <2> QED BY <2>2, <2>3
<1> HIDE DEF Right
<1>5. 0 \in S
  BY <1>4
<1>6. ASSUME NEW k \in S
      PROVE  k + 1 \in S
  <2>1. \A j \in 0 .. k : j <= n => Right(j)
    OBVIOUS
  <2>2. k + 1 <= n => Right(k + 1)
    BY <1>4, <2>1
  <2> QED BY <2>1, <2>2
<1>7. S = Nat
  <2>1. S \in SUBSET Nat
    OBVIOUS
  <2> HIDE DEF S
  <2> QED BY <1>5, <1>6, <2>1, NatSetInduction
<1>8. Right(n)
  BY <1>7
<1> QED BY <1>1, <1>8 DEF Right

-----------------------------------------------------------------------------
(* Placing a node.                                                         *)

(* The indexes of siblings in order, where some may share one.             *)
Ordered(fis) ==
  /\ fis \in Seq(Index)
  /\ \A k \in 1 .. Len(fis) - 1 : fis[k] = fis[k + 1] \/ Less(fis[k], fis[k + 1])

(* How far the siblings after at share the index of the one before.        *)
LEMMA SharedRun ==
  ASSUME NEW fis \in Seq(Index), NEW at \in 0 .. Len(fis), NEW left
  PROVE  \E m \in at .. Len(fis) :
           /\ \A j \in at + 1 .. m : fis[j] = left
           /\ m < Len(fis) => fis[m + 1] # left
<1> SUFFICES ASSUME \A m \in at .. Len(fis) :
                      (\A j \in at + 1 .. m : fis[j] = left) => m < Len(fis) /\ fis[m + 1] = left
             PROVE  FALSE
  OBVIOUS
<1> DEFINE S == {n \in Nat : at + n <= Len(fis) /\ \A j \in at + 1 .. at + n : fis[j] = left}
<1>1. 0 \in S
  OBVIOUS
<1>2. ASSUME NEW n \in S
      PROVE  n + 1 \in S
  <2>1. at + n \in at .. Len(fis) /\ \A j \in at + 1 .. at + n : fis[j] = left
    OBVIOUS
  <2>2. at + n < Len(fis) /\ fis[at + n + 1] = left
    BY <2>1
  <2>3. \A j \in at + 1 .. at + (n + 1) : j \in at + 1 .. at + n \/ j = at + n + 1
    OBVIOUS
  <2> QED BY <2>1, <2>2, <2>3
<1>3. S = Nat
  <2>1. S \in SUBSET Nat
    OBVIOUS
  <2> HIDE DEF S
  <2> QED BY <1>1, <1>2, <2>1, NatSetInduction
<1>4. Len(fis) + 1 \in S
  <2> HIDE DEF S
  <2> QED BY <1>3
<1> QED BY <1>4

(* The new indexes for a node and the siblings that move with it: they lie *)
(* in order between the sibling before and the first that stays, and those *)
(* that move are the ones that share the index of the one before           *)
(* (treeIndex.positions).                                                  *)
THEOREM PositionsSpread ==
  ASSUME NEW fis, Ordered(fis), NEW at \in 0 .. Len(fis)
  PROVE  LET left == IF at > 0 THEN fis[at] ELSE Absent
             next(k) == IF k < Len(fis) THEN fis[k + 1] ELSE Absent
         IN  /\ Positions(fis, at) # {}
             /\ \A new \in Positions(fis, at) :
                  /\ new # <<>> /\ at + Len(new) - 1 <= Len(fis)
                  /\ Spread(new, left, next(at + Len(new) - 1), Len(new))
                  /\ \A j \in at + 1 .. at + Len(new) - 1 : fis[j] = left
<1> DEFINE left == IF at > 0 THEN fis[at] ELSE Absent
           same == {k \in at + 1 .. Len(fis) :
                      left # Absent /\ \A j \in at + 1 .. k : fis[j] = left}
           at2(x) == IF x < Len(fis) THEN fis[x + 1] ELSE Absent
<1>1. /\ fis \in Seq(Index) /\ Len(fis) \in Nat
      /\ \A k \in 1 .. Len(fis) : fis[k] \in Index /\ fis[k] # Absent /\ fis[k] \in Seq(Int)
      /\ \A k \in 1 .. Len(fis) - 1 : fis[k] = fis[k + 1] \/ Less(fis[k], fis[k + 1])
  BY AbsentIsNoIndex, IndexType DEF Ordered
<1>2. left \in Index \cup {Absent} /\ (left # Absent => at > 0 /\ left = fis[at])
  BY <1>1
<1>3. PICK m \in at .. Len(fis) :
        /\ \A j \in at + 1 .. m : fis[j] = left
        /\ m < Len(fis) => fis[m + 1] # left
  <2> HIDE DEF left
  <2> QED BY <1>1, SharedRun
<1>4. left = Absent => m = at
  BY <1>1, <1>3
<1>5. same = at + 1 .. m
  <2>1. ASSUME NEW k \in at + 1 .. m
        PROVE  k \in same
    BY <1>3, <1>4
  <2>2. ASSUME NEW k \in same, k > m
        PROVE  FALSE
    BY <1>3, <2>2
  <2> QED BY <2>1, <2>2
<1>6. Cardinality(same) = m - at
  <2>1. at + 1 \in Int /\ m \in Int
    BY <1>1
  <2>2. Cardinality(at + 1 .. m) = IF at + 1 > m THEN 0 ELSE m - (at + 1) + 1
    BY <2>1, FS_Interval
  <2> HIDE DEF same
  <2> QED BY <1>3, <1>5, <2>2
<1>7. Gap(left, at2(m))
  <2>1. at2(m) \in Index \cup {Absent}
    BY <1>1
  <2>2. ASSUME left # Absent, at2(m) # Absent
        PROVE  Less(left, at2(m))
    <3>1. m < Len(fis) /\ at2(m) = fis[m + 1] /\ fis[m + 1] # left
      BY <1>3, <2>2
    <3>2. m > 0 /\ fis[m] = left
      BY <1>2, <1>3, <2>2
    <3>3. m \in 1 .. Len(fis) - 1
      BY <1>1, <3>1, <3>2
    <3> QED BY <1>1, <3>1, <3>2, <3>3
  <2> QED BY <1>2, <2>1, <2>2 DEF Gap
<1> HIDE DEF left, same, at2
<1> DEFINE Fine(new) == /\ new # <<>> /\ at + Len(new) - 1 <= Len(fis)
                        /\ Spread(new, left, at2(at + Len(new) - 1), Len(new))
                        /\ \A j \in at + 1 .. at + Len(new) - 1 : fis[j] = left
<1>8. CASE m = at
  <2>1. same = {}
    BY <1>5, <1>8
  <2>2. Positions(fis, at) = {<<f>> : f \in FiNew(left, at2(at))}
    BY <2>1 DEF Positions, same, left, at2
  <2>3. FiNew(left, at2(at)) # {} /\ \A x \in FiNew(left, at2(at)) : In(x, left, at2(at))
    BY <1>7, <1>8, NewIsInGap
  <2>4. ASSUME NEW f \in FiNew(left, at2(at))
        PROVE  Fine(<<f>>)
    <3>1. <<f>> \in Seq(Index) /\ Len(<<f>>) = 1 /\ <<f>>[1] = f /\ at + 1 - 1 = at
      BY <2>3 DEF In
    <3>2. Spread(<<f>>, left, at2(at), 1)
      BY <2>3, <3>1 DEF Spread, In
    <3> QED BY <1>1, <3>1, <3>2
  <2> HIDE DEF Fine
  <2>5. Positions(fis, at) # {} /\ \A new \in Positions(fis, at) : Fine(new)
    BY <2>2, <2>3, <2>4
  <2> QED BY <2>5 DEF Fine, left, at2
<1>9. CASE m > at
  <2>1. same # {} /\ left # Absent
    BY <1>4, <1>5, <1>9
  <2>2. Positions(fis, at) = FiEvenly(left, at2(at + Cardinality(same)), Cardinality(same) + 1)
    BY <2>1 DEF Positions, same, left, at2
  <2>3. at + Cardinality(same) = m /\ Cardinality(same) + 1 = m - at + 1 /\ m - at + 1 \in Nat
    BY <1>6, <1>9
  <2>4. Positions(fis, at) = Halves(left, at2(m), m - at + 1)
    BY <1>7, <2>2, <2>3 DEF FiEvenly, Gap
  <2>5. /\ Positions(fis, at) # {}
        /\ \A new \in Positions(fis, at) : Spread(new, left, at2(m), m - at + 1)
    BY <1>7, <2>3, <2>4, HalvesSpread
  <2>6. ASSUME NEW new \in Positions(fis, at)
        PROVE  Fine(new)
    <3>1. Spread(new, left, at2(m), m - at + 1) /\ Len(new) = m - at + 1 /\ new \in Seq(Index)
      BY <2>5 DEF Spread
    <3>2. at + Len(new) - 1 = m /\ new # <<>>
      BY <1>9, <3>1
    <3> QED BY <1>3, <3>1, <3>2
  <2> QED BY <2>5, <2>6 DEF left, at2
<1> QED BY <1>3, <1>8, <1>9
=============================================================================
