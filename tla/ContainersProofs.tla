--------------------------- MODULE ContainersProofs ---------------------------
(***************************************************************************)
(* Proofs about Containers, for documents, scenes and runs of any size:    *)
(* the cached winners of a map are those its ops give, and of the roots of *)
(* one name one shows that hides nothing.                                  *)
(***************************************************************************)
EXTENDS Containers, TLAPS, FiniteSetTheorems, WellFoundedInduction, SequenceTheorems

-----------------------------------------------------------------------------
(* Numbers.                                                                *)

(* A set of numbers has a least one.                                       *)
LEMMA LeastProperties ==
  ASSUME NEW S \in SUBSET Nat, S # {}
  PROVE  Least(S) \in S /\ \A m \in S : Least(S) <= m
<1>1. IsWellFoundedOn(OpToRel(<, Nat), Nat)
  BY NatLessThanWellFounded
<1>2. PICK n \in S : \A m \in S : <<m, n>> \notin OpToRel(<, Nat)
  BY <1>1, WFMin
<1>3. \A m \in S : n <= m
  <2> SUFFICES ASSUME NEW m \in S, m < n PROVE FALSE
    OBVIOUS
  <2>1. <<m, n>> \in OpToRel(<, Nat)
    BY DEF OpToRel
  <2> QED BY <1>2, <2>1
<1> QED BY <1>3 DEF Least

(* Induction, over a set of numbers.                                       *)
LEMMA NatSetInduction ==
  ASSUME NEW S \in SUBSET Nat, 0 \in S, \A n \in S : n + 1 \in S
  PROVE  S = Nat
<1> SUFFICES ASSUME Nat \ S # {} PROVE FALSE
  OBVIOUS
<1> DEFINE n == Least(Nat \ S)
<1>1. n \in Nat \ S /\ \A m \in Nat \ S : n <= m
  BY LeastProperties
<1> HIDE DEF n
<1>2. n - 1 \in S
  BY <1>1
<1> QED BY <1>1, <1>2

-----------------------------------------------------------------------------
(* The order of ops that are given: o has them by id.                      *)

(* Before, of the ops in o.                                                *)
Sooner(o, i, j) ==
  o[i].lam < o[j].lam \/ (o[i].lam = o[j].lam /\ i[1] < j[1])

(* The lamports of an author rise.                                         *)
OpsOrdered(o) ==
  /\ DOMAIN o \subseteq Docs \X Nat
  /\ IsFiniteSet(DOMAIN o)
  /\ \A i \in DOMAIN o : o[i].lam \in Nat
  /\ \A i, j \in DOMAIN o : i[1] = j[1] /\ i[2] < j[2] => o[i].lam < o[j].lam

(* LastOf, of the ops in o.                                                *)
Latest(o, S) == CHOOSE i \in S : \A j \in S \ {i} : Sooner(o, j, i)

(* Lamports and authors put the ops in a total order.                      *)
LEMMA SoonerOrders ==
  ASSUME NEW o, OpsOrdered(o)
  PROVE  /\ \A a \in DOMAIN o, b \in DOMAIN o : a = b \/ Sooner(o, a, b) \/ Sooner(o, b, a)
         /\ \A a \in DOMAIN o, b \in DOMAIN o : ~(Sooner(o, a, b) /\ Sooner(o, b, a))
         /\ \A a \in DOMAIN o, b \in DOMAIN o, c \in DOMAIN o :
              Sooner(o, a, b) /\ Sooner(o, b, c) => Sooner(o, a, c)
<1>1. ASSUME NEW i \in DOMAIN o
      PROVE  i[1] \in Nat /\ i[2] \in Nat /\ i = <<i[1], i[2]>> /\ o[i].lam \in Nat
  <2>1. i \in Nat \X Nat /\ o[i].lam \in Nat
    BY ScenesAssumption DEF OpsOrdered
  <2> QED BY <2>1
<1>2. ASSUME NEW a \in DOMAIN o, NEW b \in DOMAIN o
      PROVE  a = b \/ Sooner(o, a, b) \/ Sooner(o, b, a)
  <2>1. CASE a[1] = b[1] /\ a[2] # b[2]
    <3>1. a[2] < b[2] \/ b[2] < a[2]
      BY <1>1, <2>1
    <3> QED BY <2>1, <3>1 DEF OpsOrdered, Sooner
  <2>2. CASE a[1] = b[1] /\ a[2] = b[2]
    BY <1>1, <2>2
  <2>3. CASE a[1] # b[1]
    BY <1>1, <2>3 DEF Sooner
  <2> QED BY <2>1, <2>2, <2>3
<1>3. ASSUME NEW a \in DOMAIN o, NEW b \in DOMAIN o, Sooner(o, a, b), Sooner(o, b, a)
      PROVE  FALSE
  BY <1>1, <1>3 DEF Sooner
<1>4. ASSUME NEW a \in DOMAIN o, NEW b \in DOMAIN o, NEW c \in DOMAIN o,
             Sooner(o, a, b), Sooner(o, b, c)
      PROVE  Sooner(o, a, c)
  BY <1>1, <1>4 DEF Sooner
<1> QED BY <1>2, <1>3, <1>4

(* Some op comes last.                                                     *)
LEMMA LatestExists ==
  ASSUME NEW o, OpsOrdered(o), NEW S \in SUBSET DOMAIN o, S # {}
  PROVE  \E m \in S : \A x \in S \ {m} : Sooner(o, x, m)
<1> DEFINE Has1(T) == \E m \in T : \A x \in T \ {m} : Sooner(o, x, m)
           N == {n \in Nat : \A T \in SUBSET S : Cardinality(T) = n + 1 => Has1(T)}
<1>0. IsFiniteSet(S)
  BY FS_Subset DEF OpsOrdered
<1>1. 0 \in N
  <2>1. ASSUME NEW T \in SUBSET S, Cardinality(T) = 1
        PROVE  Has1(T)
    <3>1. IsFiniteSet(T)
      BY <1>0, FS_Subset
    <3>2. PICK x : T = {x}
      BY <2>1, <3>1, FS_Singleton
    <3> QED BY <3>2
  <2> HIDE DEF Has1
  <2> QED BY <2>1
<1>2. ASSUME NEW n \in N
      PROVE  n + 1 \in N
  <2>1. n \in Nat /\ n + 1 \in Nat /\ \A T \in SUBSET S : Cardinality(T) = n + 1 => Has1(T)
    OBVIOUS
  <2>2. ASSUME NEW T \in SUBSET S, Cardinality(T) = n + 2
        PROVE  Has1(T)
    <3>1. IsFiniteSet(T) /\ T # {}
      BY <1>0, <2>1, <2>2, FS_Subset, FS_EmptySet
    <3>2. PICK x \in T : TRUE
      BY <3>1
    <3>3. Cardinality(T \ {x}) = n + 1 /\ T \ {x} \in SUBSET S
      <4>1. Cardinality(T \ {x}) = Cardinality(T) - 1
        BY <3>1, FS_RemoveElement
      <4>2. n \in Nat
        BY <2>1
      <4> HIDE DEF N
      <4> QED BY <2>2, <4>1, <4>2
    <3>4. PICK m \in T \ {x} : \A y \in (T \ {x}) \ {m} : Sooner(o, y, m)
      <4>1. Has1(T \ {x})
        <5> HIDE DEF Has1
        <5> QED BY <2>1, <3>3
      <4> QED BY <4>1
    <3>5. CASE Sooner(o, x, m)
      BY <3>4, <3>5
    <3>6. CASE ~Sooner(o, x, m)
      <4>1. x \in DOMAIN o /\ m \in DOMAIN o /\ x # m
        BY <3>4
      <4>2. Sooner(o, m, x)
        BY <3>6, <4>1, SoonerOrders
      <4>3. \A y \in T \ {x} : y \in DOMAIN o /\ (y = m \/ Sooner(o, y, m))
        BY <3>4
      <4>4. \A y \in T \ {x} : Sooner(o, y, x)
        BY <4>1, <4>2, <4>3, SoonerOrders
      <4> QED BY <3>2, <4>4
    <3> QED BY <3>5, <3>6
  <2> HIDE DEF Has1
  <2>3. \A T \in SUBSET S : Cardinality(T) = (n + 1) + 1 => Has1(T)
    BY <2>1, <2>2
  <2> QED BY <2>1, <2>3
<1>3. N = Nat
  <2> HIDE DEF N
  <2>1. N \in SUBSET Nat
    BY DEF N
  <2> QED BY <1>1, <1>2, <2>1, NatSetInduction
<1>4. Cardinality(S) \in Nat /\ Cardinality(S) # 0
  BY <1>0, FS_CardinalityType, FS_EmptySet
<1>5. Cardinality(S) - 1 \in N /\ Cardinality(S) = (Cardinality(S) - 1) + 1
  <2> HIDE DEF N
  <2> QED BY <1>3, <1>4
<1>6. Has1(S)
  <2> HIDE DEF Has1
  <2> QED BY <1>5
<1> QED BY <1>6

(* Only one op comes last.                                                 *)
LEMMA LatestIs ==
  ASSUME NEW o, OpsOrdered(o), NEW S \in SUBSET DOMAIN o, NEW m \in S,
         \A x \in S \ {m} : Sooner(o, x, m)
  PROVE  Latest(o, S) = m
<1>1. \A k \in S : (\A x \in S \ {k} : Sooner(o, x, k)) => k = m
  BY SoonerOrders
<1> QED BY <1>1 DEF Latest

(* The latest op of a set is later than all others of it.                  *)
LEMMA LatestProperties ==
  ASSUME NEW o, OpsOrdered(o), NEW S \in SUBSET DOMAIN o, S # {}
  PROVE  Latest(o, S) \in S /\ \A x \in S \ {Latest(o, S)} : Sooner(o, x, Latest(o, S))
BY LatestExists DEF Latest

(* An op stays the last where the lamports stay.                           *)
LEMMA LatestSame ==
  ASSUME NEW o, OpsOrdered(o), NEW q, OpsOrdered(q),
         NEW S \in SUBSET DOMAIN o, S \subseteq DOMAIN q, S # {},
         \A i \in S : q[i].lam = o[i].lam
  PROVE  Latest(q, S) = Latest(o, S)
<1> DEFINE m == Latest(o, S)
<1>1. m \in S /\ \A x \in S \ {m} : Sooner(o, x, m)
  BY LatestProperties
<1> HIDE DEF m
<1>2. \A x \in S \ {m} : Sooner(q, x, m)
  BY <1>1 DEF Sooner
<1>3. Latest(q, S) = m
  BY <1>1, <1>2, LatestIs
<1> QED BY <1>3 DEF m

-----------------------------------------------------------------------------
(* The winners of a map, by ops that are given and of which those of K are *)
(* known.                                                                  *)

Inside(o, K, c) == {i \in K : o[i].cont = c}
InsideKeyed(o, K, c, key) == {i \in Inside(o, K, c) : o[i].key = key}
KeysIn(o, K, c) == {o[i].key : i \in Inside(o, K, c)}

(* LastOps, of the ops in o.                                               *)
Winning(o, K, c) == [key \in KeysIn(o, K, c) |-> Latest(o, InsideKeyed(o, K, c, key))]

(* What a document reads off the ops it knows.                             *)
LEMMA LastOpsIsWinning ==
  ASSUME NEW d, NEW c
  PROVE  LastOps(d, c) = Winning(ops, known[d], c) /\ LastOps(d, c)' = Winning(ops', known'[d], c)
BY DEF LastOps, LastOf, Keyed, OpsOf, Before, Winning, KeysIn, InsideKeyed, Inside, Latest, Sooner

(* Ops of other containers do not touch the winners.                       *)
LEMMA WinningStays ==
  ASSUME NEW o, OpsOrdered(o), NEW q, OpsOrdered(q), NEW c,
         NEW K \in SUBSET DOMAIN o, NEW L \in SUBSET DOMAIN q, K \subseteq L,
         \A i \in K : q[i] = o[i],
         \A i \in L \ K : q[i].cont # c
  PROVE  Winning(q, L, c) = Winning(o, K, c)
<1>1. Inside(q, L, c) = Inside(o, K, c)
  BY DEF Inside
<1>2. KeysIn(q, L, c) = KeysIn(o, K, c)
  BY <1>1 DEF KeysIn, Inside
<1>3. ASSUME NEW key \in KeysIn(o, K, c)
      PROVE  Latest(q, InsideKeyed(q, L, c, key)) = Latest(o, InsideKeyed(o, K, c, key))
  <2> DEFINE S == InsideKeyed(o, K, c, key)
  <2>1. InsideKeyed(q, L, c, key) = S
    BY <1>1 DEF InsideKeyed, Inside
  <2>2. S \subseteq K /\ S # {}
    BY DEF KeysIn, InsideKeyed, Inside
  <2> HIDE DEF S
  <2>3. S \in SUBSET DOMAIN o /\ S \subseteq DOMAIN q /\ \A i \in S : q[i].lam = o[i].lam
    BY <2>2
  <2>4. Latest(q, S) = Latest(o, S)
    BY <2>2, <2>3, LatestSame
  <2> QED BY <2>1, <2>4 DEF S
<1> QED BY <1>2, <1>3 DEF Winning

(* A later op of a map becomes the winner of its key.                      *)
LEMMA WinningGrows ==
  ASSUME NEW o, OpsOrdered(o), NEW q, OpsOrdered(q), NEW c,
         NEW K \in SUBSET DOMAIN o, NEW L \in SUBSET DOMAIN q, K \subseteq L,
         \A i \in K : q[i] = o[i],
         NEW n \in L \ K, q[n].cont = c, \A i \in K : o[i].lam < q[n].lam,
         \A i \in L \ K : i = n \/ q[i].cont # c
  PROVE  Winning(q, L, c) = Noted(Winning(o, K, c), q[n], n)
<1>1. Inside(q, L, c) = Inside(o, K, c) \cup {n}
  BY DEF Inside
<1>2. KeysIn(q, L, c) = KeysIn(o, K, c) \cup {q[n].key}
  BY <1>1 DEF KeysIn, Inside
<1>3. Latest(q, InsideKeyed(q, L, c, q[n].key)) = n
  <2> DEFINE S == InsideKeyed(q, L, c, q[n].key)
  <2>1. n \in S /\ S \ {n} \subseteq K /\ S \in SUBSET DOMAIN q
    BY <1>1 DEF InsideKeyed, Inside
  <2> HIDE DEF S
  <2>2. \A x \in S \ {n} : Sooner(q, x, n)
    BY <2>1 DEF Sooner
  <2>3. Latest(q, S) = n
    BY <2>1, <2>2, LatestIs
  <2> QED BY <2>3 DEF S
<1>4. ASSUME NEW key \in KeysIn(o, K, c), key # q[n].key
      PROVE  Latest(q, InsideKeyed(q, L, c, key)) = Latest(o, InsideKeyed(o, K, c, key))
  <2> DEFINE S == InsideKeyed(o, K, c, key)
  <2>1. InsideKeyed(q, L, c, key) = S
    BY <1>1, <1>4 DEF InsideKeyed, Inside
  <2>2. S \subseteq K /\ S # {}
    BY DEF KeysIn, InsideKeyed, Inside
  <2> HIDE DEF S
  <2>3. S \in SUBSET DOMAIN o /\ S \subseteq DOMAIN q /\ \A i \in S : q[i].lam = o[i].lam
    BY <2>2
  <2>4. Latest(q, S) = Latest(o, S)
    BY <2>2, <2>3, LatestSame
  <2> QED BY <2>1, <2>4 DEF S
<1>5. ASSUME NEW key \in KeysIn(o, K, c) \cup {q[n].key}
      PROVE  Latest(q, InsideKeyed(q, L, c, key))
               = IF key = q[n].key THEN n ELSE Winning(o, K, c)[key]
  BY <1>3, <1>4 DEF Winning
<1>6. DOMAIN Winning(o, K, c) = KeysIn(o, K, c)
  BY DEF Winning
<1>7. Winning(q, L, c) = [key \in KeysIn(o, K, c) \cup {q[n].key} |->
                            IF key = q[n].key THEN n ELSE Winning(o, K, c)[key]]
  BY <1>2, <1>5 DEF Winning
<1> QED BY <1>6, <1>7 DEF Noted

-----------------------------------------------------------------------------
(* The invariant.                                                          *)

(* Ops have ids in a row by author, and what an author knew was there.     *)
OpsOK ==
  /\ OpsOrdered(ops)
  /\ \A d \in Docs : \E n \in Nat : {i \in DOMAIN ops : i[1] = d} = {d} \X (0 .. n - 1)
  /\ \A i \in DOMAIN ops : ops[i].past \subseteq DOMAIN ops

(* A document knows its own ops.                                           *)
KnownOK ==
  /\ known \in [Docs -> SUBSET DOMAIN ops]
  /\ \A i \in DOMAIN ops : i \in known[i[1]]

(* Winners are kept of maps.                                               *)
WinnersOK ==
  /\ winners = [d \in Docs |-> winners[d]]
  /\ \A d \in Docs : \A c \in DOMAIN winners[d] : c.kind = "Map"

OrderOK ==
  /\ order = [d \in Docs |-> order[d]]
  /\ \A d \in Docs : \E R : order[d] \in Seq(R)

Inv ==
  /\ scene \in Scenes
  /\ OpsOK
  /\ KnownOK
  /\ WinnersOK
  /\ OrderOK
  /\ WinnersAreLast

-----------------------------------------------------------------------------
(* The ids and lamports of new ops.                                        *)

(* The ids of an author's ops are in a row from 0.                         *)
LEMMA MadeCounts ==
  ASSUME Inv, NEW d \in Docs
  PROVE  Made(d) \in Nat /\ {i \in DOMAIN ops : i[1] = d} = {d} \X (0 .. Made(d) - 1)
<1>1. PICK n \in Nat : {i \in DOMAIN ops : i[1] = d} = {d} \X (0 .. n - 1)
  BY DEF Inv, OpsOK
<1>2. IsFiniteSet(0 .. n - 1) /\ Cardinality(0 .. n - 1) = n
  BY FS_Interval
<1>3. IsFiniteSet({d}) /\ Cardinality({d}) = 1
  BY FS_Singleton
<1>4. Cardinality({d} \X (0 .. n - 1)) = 1 * n
  BY <1>2, <1>3, FS_Product
<1>5. Made(d) = Cardinality({d} \X (0 .. n - 1))
  BY <1>1 DEF Made
<1>6. Made(d) = n
  BY <1>2, <1>3, <1>4, <1>5
<1> QED BY <1>1, <1>6

(* A new op's lamport is past all its author knows.                        *)
LEMMA NextLamportAbove ==
  ASSUME Inv, NEW d \in Docs
  PROVE  NextLamport(d) \in Nat /\ \A i \in known[d] : ops[i].lam < NextLamport(d)
<1>1. known[d] \in SUBSET DOMAIN ops /\ OpsOrdered(ops)
  BY DEF Inv, KnownOK, OpsOK
<1>2. CASE known[d] = {}
  BY <1>2 DEF NextLamport
<1>3. CASE known[d] # {}
  <2> DEFINE m == Latest(ops, known[d])
  <2>1. m \in known[d] /\ \A x \in known[d] \ {m} : Sooner(ops, x, m)
    BY <1>1, <1>3, LatestProperties
  <2>2. NextLamport(d) = ops[m].lam + 1
    BY <1>3 DEF NextLamport, LastOf, Before, Latest, Sooner
  <2> HIDE DEF m
  <2>3. \A i \in known[d] : ops[i].lam \in Nat
    BY <1>1 DEF OpsOrdered
  <2> QED BY <2>1, <2>2, <2>3 DEF Sooner
<1> QED BY <1>2, <1>3

-----------------------------------------------------------------------------
(* A call's ops.                                                           *)

(* What a call on container c makes: an op of c, and with a counter placed *)
(* one of the counter.                                                     *)
MadeOK(c, made) ==
  /\ DOMAIN made = 1 .. Len(made) /\ Len(made) \in {1, 2}
  /\ \A k \in DOMAIN made : "cont" \in DOMAIN made[k] /\ {"lam", "past"} \cap DOMAIN made[k] = {}
  /\ made[1].cont = c
  /\ c.kind = "Map" => "key" \in DOMAIN made[1]
  /\ Len(made) = 2 => made[2].cont.kind # "Map"

(* The ops o before a call, q after it: those of made are in q by the ids  *)
(* of document d from n on.                                                *)
Adds(o, q, d, n, made) ==
  LET new == {<<d, n + k - 1>> : k \in DOMAIN made}
  IN  /\ DOMAIN q = DOMAIN o \cup new
      /\ new \cap DOMAIN o = {}
      /\ \A i \in DOMAIN o : q[i] = o[i]
      /\ \A k \in DOMAIN made :
           /\ q[<<d, n + k - 1>>].cont = made[k].cont
           /\ "key" \in DOMAIN made[k] => q[<<d, n + k - 1>>].key = made[k].key

(* An op keeps its fields when it is stamped.                              *)
LEMMA StampedFields ==
  ASSUME NEW op, NEW lam, NEW past, {"lam", "past"} \cap DOMAIN op = {}
  PROVE  /\ Stamped(op, lam, past).lam = lam
         /\ Stamped(op, lam, past).past = past
         /\ "cont" \in DOMAIN op => Stamped(op, lam, past).cont = op.cont
         /\ "key" \in DOMAIN op => Stamped(op, lam, past).key = op.key
BY DEF Stamped

(* The new ops follow all that the document knew.                          *)
LEMMA AppliedAdds ==
  ASSUME Inv, NEW d \in Docs, NEW c, NEW made, MadeOK(c, made), NEW S, Applied(d, c, made, S)
  PROVE  /\ Adds(ops, ops', d, Made(d), made)
         /\ OpsOrdered(ops')
         /\ \A i \in known[d] : ops[i].lam < ops'[<<d, Made(d)>>].lam
         /\ \A i \in DOMAIN ops' : ops'[i].past \subseteq DOMAIN ops'
         /\ known' = [known EXCEPT ![d] = @ \cup {<<d, Made(d) + k - 1>> : k \in DOMAIN made}]
<1> DEFINE n == Made(d)
           L == NextLamport(d)
           id(k) == <<d, n + k - 1>>
           new == {id(k) : k \in DOMAIN made}
           full(k) == Stamped(made[k], L + k - 1, known[d] \cup {id(j) : j \in 1 .. k - 1})
<1>1. n \in Nat /\ {i \in DOMAIN ops : i[1] = d} = {d} \X (0 .. n - 1)
  BY MadeCounts
<1>2. L \in Nat /\ \A i \in known[d] : ops[i].lam < L
  BY NextLamportAbove
<1>3. /\ ops' = [i \in DOMAIN ops \cup new |-> IF i \in new THEN full(i[2] - n + 1) ELSE ops[i]]
      /\ known' = [known EXCEPT ![d] = @ \cup new]
  BY DEF Applied
<1> HIDE DEF n, L
<1>4. DOMAIN made \in SUBSET {1, 2} /\ 1 \in DOMAIN made
  BY DEF MadeOK
<1>5. ASSUME NEW k \in DOMAIN made
      PROVE  /\ id(k) \notin DOMAIN ops
             /\ ops'[id(k)] = full(k)
             /\ ops'[id(k)].lam = L + k - 1
             /\ ops'[id(k)].past = known[d] \cup {id(j) : j \in 1 .. k - 1}
             /\ ops'[id(k)].cont = made[k].cont
             /\ "key" \in DOMAIN made[k] => ops'[id(k)].key = made[k].key
  <2>1. id(k) \notin DOMAIN ops
    BY <1>1, <1>4
  <2>2. id(k) \in new /\ id(k)[2] - n + 1 = k
    BY <1>1, <1>4
  <2>3. ops'[id(k)] = full(k)
    <3> HIDE DEF full, new
    <3> QED BY <1>3, <2>2
  <2>4. "cont" \in DOMAIN made[k] /\ {"lam", "past"} \cap DOMAIN made[k] = {}
    BY DEF MadeOK
  <2> QED BY <2>1, <2>3, <2>4, StampedFields
<1>6. DOMAIN ops' = DOMAIN ops \cup new
  BY <1>3
<1>7. \A i \in DOMAIN ops : i \notin new /\ ops'[i] = ops[i]
  <2> HIDE DEF full
  <2> QED BY <1>3, <1>5
<1> HIDE DEF full
<1>8. Adds(ops, ops', d, n, made)
  BY <1>5, <1>6, <1>7 DEF Adds
<1>9. OpsOrdered(ops')
  <2>1. DOMAIN ops' \subseteq Docs \X Nat
    BY <1>1, <1>4, <1>6 DEF Inv, OpsOK, OpsOrdered
  <2>2. IsFiniteSet(DOMAIN ops')
    <3>1. new \subseteq {id(1)} \cup {id(2)}
      BY <1>4
    <3>2. IsFiniteSet({id(1)} \cup {id(2)})
      BY FS_Singleton, FS_Union
    <3>3. IsFiniteSet(new)
      <4> HIDE DEF new
      <4> QED BY <3>1, <3>2, FS_Subset
    <3> HIDE DEF new
    <3> QED BY <1>6, <3>3, FS_Union DEF Inv, OpsOK, OpsOrdered
  <2>3. ASSUME NEW i \in DOMAIN ops' PROVE ops'[i].lam \in Nat
    <3>1. CASE i \in DOMAIN ops
      BY <1>7, <3>1 DEF Inv, OpsOK, OpsOrdered
    <3>2. CASE i \in new
      <4>1. PICK k \in DOMAIN made : i = id(k)
        BY <3>2
      <4>2. ops'[i].lam = L + k - 1 /\ k \in {1, 2}
        BY <1>4, <1>5, <4>1
      <4> QED BY <1>2, <4>2
    <3> QED BY <1>6, <3>1, <3>2
  <2>4. ASSUME NEW i \in DOMAIN ops', NEW j \in DOMAIN ops', i[1] = j[1], i[2] < j[2]
        PROVE  ops'[i].lam < ops'[j].lam
    <3>1. CASE i \in DOMAIN ops /\ j \in DOMAIN ops
      BY <1>7, <2>4, <3>1 DEF Inv, OpsOK, OpsOrdered
    <3>2. CASE i \in DOMAIN ops /\ j \in new
      <4>1. PICK k \in DOMAIN made : j = id(k)
        BY <3>2
      <4>2. ops'[j].lam = L + k - 1 /\ k \in {1, 2} /\ i[1] = d
        BY <1>4, <1>5, <2>4, <4>1
      <4>3. i \in known[d]
        BY <3>2, <4>2 DEF Inv, KnownOK
      <4>4. ops[i].lam < L /\ ops'[i].lam = ops[i].lam /\ ops[i].lam \in Nat
        BY <1>2, <1>7, <3>2, <4>3 DEF Inv, OpsOK, OpsOrdered
      <4> QED BY <1>2, <4>2, <4>4
    <3>3. CASE i \in new /\ j \in DOMAIN ops
      <4>1. PICK k \in DOMAIN made : i = id(k)
        BY <3>3
      <4>2. j[1] = d /\ n <= i[2] /\ i[2] \in Nat
        BY <1>1, <1>4, <2>4, <4>1
      <4>3. j \in {d} \X (0 .. n - 1)
        BY <1>1, <3>3, <4>2
      <4> QED BY <1>1, <2>4, <4>2, <4>3
    <3>4. CASE i \in new /\ j \in new
      <4>1. PICK k \in DOMAIN made : i = id(k)
        BY <3>4
      <4>2. PICK m \in DOMAIN made : j = id(m)
        BY <3>4
      <4>3. ops'[i].lam = L + k - 1 /\ ops'[j].lam = L + m - 1 /\ k \in {1, 2} /\ m \in {1, 2}
        BY <1>4, <1>5, <4>1, <4>2
      <4>4. k < m
        BY <1>1, <2>4, <4>1, <4>2, <4>3
      <4> QED BY <1>2, <4>3, <4>4
    <3> QED BY <1>6, <3>1, <3>2, <3>3, <3>4
  <2> HIDE DEF new
  <2> QED BY <2>1, <2>2, <2>3, <2>4 DEF OpsOrdered
<1>10. \A i \in known[d] : ops[i].lam < ops'[<<d, n>>].lam
  <2>1. id(1) = <<d, n>> /\ ops'[id(1)].lam = L
    <3>1. n + 1 - 1 = n /\ L + 1 - 1 = L
      BY <1>1, <1>2
    <3>2. ops'[id(1)].lam = L + 1 - 1
      BY <1>4, <1>5
    <3> QED BY <3>1, <3>2
  <2> QED BY <1>2, <2>1
<1>11. ASSUME NEW i \in DOMAIN ops' PROVE ops'[i].past \subseteq DOMAIN ops'
  <2>1. CASE i \in DOMAIN ops
    BY <1>6, <1>7, <2>1 DEF Inv, OpsOK
  <2>2. CASE i \in new
    <3>1. PICK k \in DOMAIN made : i = id(k)
      BY <2>2
    <3>2. ops'[i].past = known[d] \cup {id(j) : j \in 1 .. k - 1} /\ k \in {1, 2}
      BY <1>4, <1>5, <3>1
    <3>3. {id(j) : j \in 1 .. k - 1} \subseteq new
      BY <1>4, <3>2
    <3>4. known[d] \subseteq DOMAIN ops
      BY DEF Inv, KnownOK
    <3> QED BY <1>6, <3>2, <3>3, <3>4
  <2> QED BY <1>6, <2>1, <2>2
<1> QED BY <1>3, <1>8, <1>9, <1>10, <1>11 DEF n

(* The winners that are kept after maps were asked for.                    *)
LEMMA BuiltIsLast ==
  ASSUME Inv, NEW d \in Docs, NEW S, \A m \in S : m.kind = "Map"
  PROVE  /\ DOMAIN Built(d, S) = DOMAIN winners[d] \cup S
         /\ \A m \in DOMAIN Built(d, S) : m.kind = "Map" /\ Built(d, S)[m] = LastOps(d, m)
BY DEF Built, Inv, WinnersOK, WinnersAreLast

(* Only maps are asked for winners.                                        *)
LEMMA AskedAreMaps ==
  ASSUME NEW d, NEW c
  PROVE  \A m \in AskedOn(d, c) : m.kind = "Map"
BY DEF AskedOn

(* A call that only asks changes no winner.                                *)
LEMMA AskingKeeps ==
  ASSUME Inv, NEW d \in Docs, NEW S, \A m \in S : m.kind = "Map",
         winners' = [winners EXCEPT ![d] = Built(d, S)],
         UNCHANGED <<scene, ops, known, order>>
  PROVE  Inv'
<1>1. /\ DOMAIN Built(d, S) = DOMAIN winners[d] \cup S
      /\ \A m \in DOMAIN Built(d, S) : m.kind = "Map" /\ Built(d, S)[m] = LastOps(d, m)
  BY BuiltIsLast
<1>2. winners = [e \in Docs |-> winners[e]]
  BY DEF Inv, WinnersOK
<1>3. winners'[d] = Built(d, S) /\ \A e \in Docs \ {d} : winners'[e] = winners[e]
  BY <1>2
<1>4. winners' = [e \in Docs |-> winners'[e]]
  BY <1>2
<1>5. WinnersOK'
  BY <1>1, <1>3, <1>4 DEF Inv, WinnersOK
<1>6. \A e, c : LastOps(e, c)' = LastOps(e, c)
  BY LastOpsIsWinning
<1>7. ASSUME NEW e \in Docs, NEW c \in DOMAIN winners'[e]
      PROVE  winners'[e][c] = LastOps(e, c)'
  BY <1>1, <1>3, <1>6 DEF Inv, WinnersAreLast
<1>8. WinnersAreLast'
  BY <1>7 DEF WinnersAreLast
<1>9. OpsOK' /\ KnownOK' /\ OrderOK' /\ scene' \in Scenes
  BY DEF Inv, OpsOK, KnownOK, OrderOK
<1> QED BY <1>5, <1>8, <1>9 DEF Inv

(* A call's ops change the winners of the map it edits as a new read would *)
(* find them, and no others.                                               *)
LEMMA ApplyingKeeps ==
  ASSUME Inv, NEW d \in Docs, NEW c, NEW made, MadeOK(c, made),
         NEW S, \A m \in S : m.kind = "Map", Applied(d, c, made, S)
  PROVE  Inv'
<1> DEFINE n == Made(d)
           new == {<<d, n + k - 1>> : k \in DOMAIN made}
           built == Built(d, S \cup AskedOn(d, c))
<1>1. /\ Adds(ops, ops', d, n, made)
      /\ OpsOrdered(ops')
      /\ \A i \in known[d] : ops[i].lam < ops'[<<d, n>>].lam
      /\ \A i \in DOMAIN ops' : ops'[i].past \subseteq DOMAIN ops'
      /\ known' = [known EXCEPT ![d] = @ \cup new]
  BY AppliedAdds
<1>2. n \in Nat /\ {i \in DOMAIN ops : i[1] = d} = {d} \X (0 .. n - 1)
  BY MadeCounts
<1>3. /\ DOMAIN built = DOMAIN winners[d] \cup (S \cup AskedOn(d, c))
      /\ \A m \in DOMAIN built : m.kind = "Map" /\ built[m] = LastOps(d, m)
  <2>1. \A m \in S \cup AskedOn(d, c) : m.kind = "Map"
    BY AskedAreMaps
  <2> HIDE DEF built
  <2> QED BY <2>1, BuiltIsLast DEF built
<1>4. /\ winners' = [winners EXCEPT ![d] =
             [m \in DOMAIN built |-> IF m = c THEN Noted(built[m], made[1], <<d, n + 1 - 1>>) ELSE built[m]]]
      /\ UNCHANGED <<scene, order, taken>>
  BY DEF Applied
<1> HIDE DEF n, built
<1>5. DOMAIN made = 1 .. Len(made) /\ DOMAIN made \in {{1}, {1, 2}} /\ 1 \in DOMAIN made
  BY DEF MadeOK
<1>6. /\ DOMAIN ops' = DOMAIN ops \cup new /\ new \cap DOMAIN ops = {}
      /\ \A i \in DOMAIN ops : ops'[i] = ops[i]
  BY <1>1 DEF Adds
<1>7. <<d, n>> \in new /\ <<d, n + 1 - 1>> = <<d, n>>
  BY <1>2, <1>5
<1>8. known \in [Docs -> SUBSET DOMAIN ops] /\ OpsOrdered(ops)
  BY DEF Inv, KnownOK, OpsOK
<1>9. known'[d] = known[d] \cup new /\ \A e \in Docs \ {d} : known'[e] = known[e]
  <2> HIDE DEF new
  <2> QED BY <1>1, <1>8
<1>10. OpsOK'
  <2>1. ASSUME NEW e \in Docs
        PROVE  \E m \in Nat : {i \in DOMAIN ops' : i[1] = e} = {e} \X (0 .. m - 1)
    <3>1. CASE e = d
      <4>1. {i \in DOMAIN ops' : i[1] = d} = ({d} \X (0 .. n - 1)) \cup new
        BY <1>2, <1>6
      <4>2. CASE DOMAIN made = {1}
        <5>1. new = {<<d, n>>}
          BY <1>2, <4>2
        <5>2. ({d} \X (0 .. n - 1)) \cup {<<d, n>>} = {d} \X (0 .. (n + 1) - 1)
          BY <1>2
        <5>3. {i \in DOMAIN ops' : i[1] = d} = {d} \X (0 .. (n + 1) - 1)
          BY <4>1, <5>1, <5>2
        <5>4. n + 1 \in Nat
          BY <1>2
        <5> QED BY <3>1, <5>3, <5>4
      <4>3. CASE DOMAIN made = {1, 2}
        <5>1. new = {<<d, n>>, <<d, n + 1>>}
          BY <1>2, <4>3
        <5>2. ({d} \X (0 .. n - 1)) \cup {<<d, n>>, <<d, n + 1>>} = {d} \X (0 .. (n + 2) - 1)
          BY <1>2
        <5>3. {i \in DOMAIN ops' : i[1] = d} = {d} \X (0 .. (n + 2) - 1)
          BY <4>1, <5>1, <5>2
        <5>4. n + 2 \in Nat
          BY <1>2
        <5> QED BY <3>1, <5>3, <5>4
      <4> QED BY <1>5, <4>2, <4>3
    <3>2. CASE e # d
      <4>1. {i \in DOMAIN ops' : i[1] = e} = {i \in DOMAIN ops : i[1] = e}
        BY <1>6, <3>2
      <4> QED BY <4>1 DEF Inv, OpsOK
    <3> QED BY <3>1, <3>2
  <2> QED BY <1>1, <2>1 DEF OpsOK
<1>11. KnownOK'
  <2>1. known' \in [Docs -> SUBSET DOMAIN ops']
    <3> HIDE DEF new
    <3> QED BY <1>1, <1>6, <1>8
  <2>2. ASSUME NEW i \in DOMAIN ops' PROVE i \in known'[i[1]]
    <3>1. CASE i \in DOMAIN ops
      <4>1. i \in known[i[1]] /\ i[1] \in Docs
        BY <1>8, <3>1 DEF Inv, KnownOK, OpsOrdered
      <4> QED BY <1>9, <4>1
    <3>2. CASE i \in new
      <4>1. i[1] = d
        BY <3>2
      <4> QED BY <1>9, <3>2, <4>1
    <3> QED BY <1>6, <3>1, <3>2
  <2> QED BY <2>1, <2>2 DEF KnownOK
<1>12. winners = [e \in Docs |-> winners[e]]
  BY DEF Inv, WinnersOK
<1>13. /\ DOMAIN winners'[d] = DOMAIN built
       /\ \A m \in DOMAIN built :
            winners'[d][m] = IF m = c THEN Noted(built[m], made[1], <<d, n>>) ELSE built[m]
       /\ \A e \in Docs \ {d} : winners'[e] = winners[e]
       /\ winners' = [e \in Docs |-> winners'[e]]
  BY <1>4, <1>7, <1>12
<1>14. WinnersOK'
  BY <1>3, <1>13 DEF Inv, WinnersOK
<1>15. ASSUME NEW e \in Docs, NEW m, e # d
       PROVE  LastOps(e, m)' = LastOps(e, m)
  <2>1. /\ known[e] \in SUBSET DOMAIN ops /\ known[e] \in SUBSET DOMAIN ops'
        /\ \A i \in known[e] : ops'[i] = ops[i]
        /\ known'[e] = known[e]
    BY <1>6, <1>8, <1>9, <1>15
  <2>2. Winning(ops', known[e], m) = Winning(ops, known[e], m)
    BY <1>1, <1>8, <2>1, WinningStays
  <2> QED BY <2>1, <2>2, LastOpsIsWinning
<1>16. /\ known[d] \in SUBSET DOMAIN ops /\ known'[d] \in SUBSET DOMAIN ops' /\ known[d] \subseteq known'[d]
       /\ \A i \in known[d] : ops'[i] = ops[i]
       /\ known'[d] \ known[d] = new
  BY <1>6, <1>8, <1>9
<1>17. ASSUME NEW m, m.kind = "Map", NEW i \in new
       PROVE  ops'[i].cont = m <=> m = c /\ i = <<d, n>>
  <2>1. PICK k \in DOMAIN made : i = <<d, n + k - 1>>
    OBVIOUS
  <2>2. ops'[i].cont = made[k].cont
    BY <1>1, <2>1 DEF Adds
  <2>3. CASE k = 1
    BY <1>2, <2>1, <2>2, <2>3 DEF MadeOK
  <2>4. CASE k = 2
    <3>1. Len(made) = 2 /\ i # <<d, n>>
      BY <1>2, <1>5, <2>1, <2>4 DEF MadeOK
    <3> QED BY <1>17, <2>2, <2>4, <3>1 DEF MadeOK
  <2> QED BY <1>5, <2>3, <2>4
<1>18. ASSUME NEW m \in DOMAIN built
       PROVE  winners'[d][m] = LastOps(d, m)'
  <2>1. m.kind = "Map" /\ built[m] = LastOps(d, m) /\ built[m] = Winning(ops, known[d], m)
    BY <1>3, LastOpsIsWinning
  <2> HIDE DEF new
  <2>2. CASE m # c
    <3>1. \A i \in known'[d] \ known[d] : ops'[i].cont # m
      BY <1>16, <1>17, <2>1, <2>2
    <3>2. Winning(ops', known'[d], m) = Winning(ops, known[d], m)
      BY <1>1, <1>8, <1>16, <3>1, WinningStays
    <3> QED BY <1>13, <2>1, <2>2, <3>2, LastOpsIsWinning
  <2>3. CASE m = c
    <3> DEFINE i == <<d, n>>
    <3>1. /\ i \in known'[d] \ known[d] /\ ops'[i].cont = m
          /\ \A j \in known'[d] \ known[d] : j = i \/ ops'[j].cont # m
      BY <1>7, <1>16, <1>17, <2>1, <2>3
    <3>2. \A j \in known[d] : ops[j].lam < ops'[i].lam
      BY <1>1
    <3>3. ops'[i].key = made[1].key
      <4>1. "key" \in DOMAIN made[1]
        BY <2>1, <2>3 DEF MadeOK
      <4>2. ops'[<<d, n + 1 - 1>>].key = made[1].key
        BY <1>1, <1>5, <4>1 DEF Adds
      <4> QED BY <1>7, <4>2
    <3> HIDE DEF i
    <3>4. Winning(ops', known'[d], m) = Noted(Winning(ops, known[d], m), ops'[i], i)
      BY <1>1, <1>8, <1>16, <3>1, <3>2, WinningGrows
    <3>5. Noted(built[m], made[1], i) = Noted(built[m], ops'[i], i)
      BY <3>3 DEF Noted
    <3>6. Noted(built[m], made[1], i) = Winning(ops', known'[d], m)
      BY <2>1, <3>4, <3>5
    <3> QED BY <1>13, <2>3, <3>6, LastOpsIsWinning DEF i
  <2> QED BY <2>2, <2>3
<1>19. WinnersAreLast'
  <2>1. ASSUME NEW e \in Docs, NEW m \in DOMAIN winners'[e]
        PROVE  winners'[e][m] = LastOps(e, m)'
    <3>1. CASE e = d
      BY <1>13, <1>18, <3>1
    <3>2. CASE e # d
      BY <1>13, <1>15, <3>2 DEF Inv, WinnersAreLast
    <3> QED BY <3>1, <3>2
  <2> QED BY <2>1 DEF WinnersAreLast
<1>20. OrderOK' /\ scene' \in Scenes
  BY <1>4 DEF Inv, OrderOK
<1> QED BY <1>10, <1>11, <1>14, <1>19, <1>20 DEF Inv

-----------------------------------------------------------------------------
(* Every step keeps the invariant.                                         *)

(* A listing of a finite set, and any one that SetToSeqs has.              *)
LEMMA Listings ==
  ASSUME NEW S, IsFiniteSet(S)
  PROVE  SetToSeq(S) \in Seq(S) /\ \A s \in SetToSeqs(S) : s \in Seq(S)
<1> DEFINE n == Cardinality(S)
<1>1. n \in Nat /\ ExistsBijection(1 .. n, S)
  BY FS_CardinalityType
<1>2. PICK f \in [1 .. n -> S] : IsInjective(f)
  BY <1>1 DEF ExistsBijection, Bijection, Injection, IsInjective
<1>3. SetToSeq(S) \in [1 .. n -> S]
  BY <1>2 DEF SetToSeq
<1>4. \A s \in SetToSeqs(S) : s \in [1 .. n -> S]
  BY DEF SetToSeqs
<1> HIDE DEF n
<1> QED BY <1>1, <1>3, <1>4

(* It holds of the first state ...                                         *)
LEMMA InitInv == Init => Inv
<1> SUFFICES ASSUME Init PROVE Inv
  OBVIOUS
<1>1. DOMAIN ops = {} /\ known = [d \in Docs |-> {}] /\ winners = [d \in Docs |-> [c \in {} |-> 0]]
  BY DEF Init
<1>2. OpsOK
  <2>1. \A d \in Docs : {i \in DOMAIN ops : i[1] = d} = {d} \X (0 .. 0 - 1)
    BY <1>1
  <2>2. OpsOrdered(ops)
    BY <1>1, FS_EmptySet DEF OpsOrdered
  <2> QED BY <1>1, <2>1, <2>2 DEF OpsOK
<1>3. KnownOK
  BY <1>1 DEF KnownOK
<1>4. WinnersOK /\ WinnersAreLast
  BY <1>1 DEF WinnersOK, WinnersAreLast
<1>5. OrderOK
  <2>1. scene \in Scenes /\ order = [d \in Docs |-> IF scene.taken THEN SetToSeq(scene.roots) ELSE <<>>]
    BY DEF Init
  <2>2. SetToSeq(scene.roots) \in Seq(scene.roots) /\ <<>> \in Seq(scene.roots)
    BY <2>1, ScenesAssumption, Listings
  <2> QED BY <2>1, <2>2 DEF OrderOK
<1> QED BY <1>2, <1>3, <1>4, <1>5 DEF Inv, Init

(* ... a handle to a root keeps it ...                                     *)
LEMMA TakeRootKeeps ==
  ASSUME Inv, NEW d \in Docs, NEW c, TakeRoot(d, c)
  PROVE  Inv'
<1>1. /\ order' = [order EXCEPT ![d] = IF c \in ToSet(@) THEN @ ELSE Append(@, c)]
      /\ UNCHANGED <<scene, ops, known, winners>>
  BY DEF TakeRoot
<1>2. PICK R : order[d] \in Seq(R)
  BY DEF Inv, OrderOK
<1>3. order[d] \in Seq(R \cup {c}) /\ Append(order[d], c) \in Seq(R \cup {c})
  BY <1>2
<1>4. order = [e \in Docs |-> order[e]]
  BY DEF Inv, OrderOK
<1>5. order' = [e \in Docs |-> order'[e]] /\ order'[d] \in {order[d], Append(order[d], c)}
      /\ \A e \in Docs \ {d} : order'[e] = order[e]
  BY <1>1, <1>4
<1>6. OrderOK'
  BY <1>3, <1>5 DEF Inv, OrderOK
<1>7. \A e, m : LastOps(e, m)' = LastOps(e, m)
  BY <1>1, LastOpsIsWinning
<1>8. OpsOK' /\ KnownOK' /\ WinnersOK' /\ WinnersAreLast' /\ scene' \in Scenes
  BY <1>1, <1>7 DEF Inv, OpsOK, KnownOK, WinnersOK, WinnersAreLast
<1> QED BY <1>6, <1>8 DEF Inv

(* An import forgets the winners of the document, and no other's change.   *)
LEMMA ImportKeeps ==
  ASSUME Inv, NEW d \in Docs, NEW i, Import(d, i)
  PROVE  Inv'
<1> DEFINE new == {ops[j].cont : j \in (ops[i].past \cup {i}) \ known[d]}
           roots == {c \in new : IsTop(c)} \ ToSet(order[d])
<1>1. /\ i \in DOMAIN ops
      /\ known' = [known EXCEPT ![d] = @ \cup ops[i].past \cup {i}]
      /\ winners' = [winners EXCEPT ![d] = [c \in {} |-> 0]]
      /\ UNCHANGED <<scene, ops, taken>>
      /\ \E s \in SetToSeqs(roots) : order' = [order EXCEPT ![d] = @ \o s]
  BY DEF Import
<1>2. ops[i].past \subseteq DOMAIN ops /\ IsFiniteSet(DOMAIN ops)
  BY <1>1 DEF Inv, OpsOK, OpsOrdered
<1>3. known \in [Docs -> SUBSET DOMAIN ops]
  BY DEF Inv, KnownOK
<1>4. /\ known'[d] = known[d] \cup ops[i].past \cup {i}
      /\ \A e \in Docs \ {d} : known'[e] = known[e]
      /\ known' \in [Docs -> SUBSET DOMAIN ops]
  BY <1>1, <1>2, <1>3
<1>5. KnownOK'
  BY <1>1, <1>4 DEF Inv, KnownOK, OpsOK, OpsOrdered
<1>6. winners = [e \in Docs |-> winners[e]]
  BY DEF Inv, WinnersOK
<1>7. /\ DOMAIN winners'[d] = {} /\ \A e \in Docs \ {d} : winners'[e] = winners[e]
      /\ winners' = [e \in Docs |-> winners'[e]]
  BY <1>1, <1>6
<1>8. WinnersOK'
  BY <1>7 DEF Inv, WinnersOK
<1>9. ASSUME NEW e \in Docs \ {d}, NEW m
      PROVE  LastOps(e, m)' = LastOps(e, m)
  BY <1>1, <1>4, LastOpsIsWinning
<1>10. WinnersAreLast'
  BY <1>7, <1>9 DEF Inv, WinnersAreLast
<1>11. OrderOK'
  <2>1. IsFiniteSet(roots)
    <3>1. IsFiniteSet((ops[i].past \cup {i}) \ known[d])
      BY <1>1, <1>2, FS_Subset
    <3>2. IsFiniteSet(new)
      <4> DEFINE S == (ops[i].past \cup {i}) \ known[d]
                 f == [j \in S |-> ops[j].cont]
      <4>1. f \in Surjection(S, new)
        BY DEF Surjection
      <4> HIDE DEF f, new
      <4> QED BY <3>1, <4>1, FS_Surjection
    <3> HIDE DEF new
    <3> QED BY <3>2, FS_Subset
  <2> HIDE DEF new, roots
  <2>2. PICK s \in SetToSeqs(roots) : order' = [order EXCEPT ![d] = @ \o s]
    BY <1>1
  <2>3. PICK R : order[d] \in Seq(R)
    BY DEF Inv, OrderOK
  <2>4. order[d] \o s \in Seq(R \cup roots)
    <3>1. s \in Seq(roots)
      BY <2>1, Listings
    <3>2. s \in Seq(R \cup roots) /\ order[d] \in Seq(R \cup roots)
      BY <2>3, <3>1
    <3> QED BY <3>2
  <2>5. order = [e \in Docs |-> order[e]]
    BY DEF Inv, OrderOK
  <2>6. /\ order' = [e \in Docs |-> order'[e]] /\ order'[d] = order[d] \o s
        /\ \A e \in Docs \ {d} : order'[e] = order[e]
    BY <2>2, <2>5
  <2> QED BY <2>4, <2>6 DEF Inv, OrderOK
<1>12. OpsOK' /\ scene' \in Scenes
  BY <1>1 DEF Inv, OpsOK
<1> QED BY <1>5, <1>8, <1>10, <1>11, <1>12 DEF Inv

(* A call's op, alone or with the zero of a new counter.                   *)
LEMMA OneMade ==
  ASSUME NEW c, NEW op, "cont" \in DOMAIN op, op.cont = c, {"lam", "past"} \cap DOMAIN op = {},
         c.kind = "Map" => "key" \in DOMAIN op
  PROVE  MadeOK(c, <<op>>) /\ \A d, kind : MadeOK(c, <<op>> \o Attached(d, kind))
<1>1. MadeOK(c, <<op>>)
  BY DEF MadeOK
<1>2. ASSUME NEW d, NEW kind
      PROVE  MadeOK(c, <<op>> \o Attached(d, kind))
  <2>1. CASE kind # "Counter"
    BY <1>1, <2>1 DEF Attached
  <2>2. CASE kind = "Counter"
    <3> DEFINE zero == [cont |-> ChildKey(<<d, Made(d)>>, kind), act |-> "inc", by |-> 0]
    <3>1. zero.cont.kind = "Counter" /\ "cont" \in DOMAIN zero /\ {"lam", "past"} \cap DOMAIN zero = {}
      BY <2>2 DEF ChildKey
    <3>4. Attached(d, kind) = <<zero>>
      BY <2>2 DEF Attached
    <3> HIDE DEF zero
    <3> DEFINE both == <<op>> \o <<zero>>
    <3>2. <<op>> \in Seq({op, zero}) /\ <<zero>> \in Seq({op, zero})
      OBVIOUS
    <3>5. both \in Seq({op, zero}) /\ Len(both) = 2 /\ both[1] = op /\ both[2] = zero
      BY <3>2
    <3> HIDE DEF both
    <3>6. DOMAIN both = 1 .. 2
      BY <3>5
    <3>3. MadeOK(c, both)
      BY <3>1, <3>5, <3>6 DEF MadeOK
    <3> QED BY <3>3, <3>4 DEF both
  <2> QED BY <2>1, <2>2
<1> QED BY <1>1, <1>2

(* An edit of one op, or of one that places a container of that kind.      *)
LEMMA EditingKeeps ==
  ASSUME Inv, NEW d \in Docs, NEW c, NEW S, \A m \in S : m.kind = "Map",
         NEW op, "cont" \in DOMAIN op, op.cont = c, {"lam", "past"} \cap DOMAIN op = {},
         c.kind = "Map" => "key" \in DOMAIN op,
         \/ Applied(d, c, <<op>>, S)
         \/ \E e, kind : Applied(d, c, <<op>> \o Attached(e, kind), S)
  PROVE  Inv'
<1>1. MadeOK(c, <<op>>) /\ \A e, kind : MadeOK(c, <<op>> \o Attached(e, kind))
  BY OneMade
<1>2. CASE Applied(d, c, <<op>>, S)
  BY <1>1, <1>2, ApplyingKeeps
<1>3. CASE \E e, kind : Applied(d, c, <<op>> \o Attached(e, kind), S)
  <2>1. PICK e, kind : Applied(d, c, <<op>> \o Attached(e, kind), S)
    BY <1>3
  <2> DEFINE made == <<op>> \o Attached(e, kind)
  <2>2. MadeOK(c, made) /\ Applied(d, c, made, S)
    BY <1>1, <2>1
  <2> HIDE DEF made
  <2> QED BY <2>2, ApplyingKeeps
<1> QED BY <1>2, <1>3

(* ... an edit of a map keeps it ...                                       *)
LEMMA EditMapKeeps ==
  ASSUME Inv, NEW d \in Docs, NEW c, c.kind = "Map", EditMap(d, c)
  PROVE  Inv'
<1>1. PICK key \in scene.keys :
        \/ \E v \in Values : SetMap(d, c, key, v)
        \/ DeleteKey(d, c, key)
        \/ \E kind \in scene.kinds : SetContainer(d, c, key, kind)
        \/ \E kind \in scene.ensured : EnsureMergeable(d, c, key, kind)
  BY DEF EditMap
<1>2. CASE \E v \in Values : SetMap(d, c, key, v)
  <2>1. PICK v \in Values : SetMap(d, c, key, v)
    BY <1>2
  <2> DEFINE op == [cont |-> c, act |-> "set", key |-> key, val |-> v]
  <2>2. Applied(d, c, <<op>>, {c})
    BY <2>1 DEF SetMap
  <2>3. "cont" \in DOMAIN op /\ op.cont = c /\ {"lam", "past"} \cap DOMAIN op = {} /\ "key" \in DOMAIN op
    OBVIOUS
  <2> HIDE DEF op
  <2> QED BY <2>2, <2>3, EditingKeeps
<1>3. CASE DeleteKey(d, c, key)
  <2> DEFINE op == [cont |-> c, act |-> "del", key |-> key]
  <2>2. Applied(d, c, <<op>>, {c})
    BY <1>3 DEF DeleteKey
  <2>3. "cont" \in DOMAIN op /\ op.cont = c /\ {"lam", "past"} \cap DOMAIN op = {} /\ "key" \in DOMAIN op
    OBVIOUS
  <2> HIDE DEF op
  <2> QED BY <2>2, <2>3, EditingKeeps
<1>4. CASE \E kind \in scene.kinds : SetContainer(d, c, key, kind)
  <2>1. PICK kind \in scene.kinds : SetContainer(d, c, key, kind)
    BY <1>4
  <2> DEFINE op == [cont |-> c, act |-> "set", key |-> key, val |-> OfKind(kind)]
             S == IF kind = "Counter" THEN {c} ELSE {}
  <2>2. Applied(d, c, <<op>> \o Attached(d, kind), S)
    BY <2>1 DEF SetContainer
  <2>3. "cont" \in DOMAIN op /\ op.cont = c /\ {"lam", "past"} \cap DOMAIN op = {} /\ "key" \in DOMAIN op
    OBVIOUS
  <2>4. \A m \in S : m.kind = "Map"
    OBVIOUS
  <2> HIDE DEF op, S
  <2> QED BY <2>2, <2>3, <2>4, EditingKeeps
<1>5. CASE \E kind \in scene.ensured : EnsureMergeable(d, c, key, kind)
  <2>1. PICK kind \in scene.ensured : EnsureMergeable(d, c, key, kind)
    BY <1>5
  <2> DEFINE op == [cont |-> c, act |-> "set", key |-> key, val |-> Marker(c, key, kind)]
  <2>2. \/ winners' = [winners EXCEPT ![d] = Built(d, {c})] /\ UNCHANGED <<scene, ops, known, order, taken>>
        \/ Applied(d, c, <<op>>, {c})
    BY <2>1 DEF EnsureMergeable
  <2>3. "cont" \in DOMAIN op /\ op.cont = c /\ {"lam", "past"} \cap DOMAIN op = {} /\ "key" \in DOMAIN op
    OBVIOUS
  <2>4. \A m \in {c} : m.kind = "Map"
    OBVIOUS
  <2> HIDE DEF op
  <2>5. CASE Applied(d, c, <<op>>, {c})
    BY <2>3, <2>4, <2>5, EditingKeeps
  <2>6. CASE winners' = [winners EXCEPT ![d] = Built(d, {c})] /\ UNCHANGED <<scene, ops, known, order, taken>>
    BY <2>4, <2>6, AskingKeeps
  <2> QED BY <2>2, <2>5, <2>6
<1> QED BY <1>1, <1>2, <1>3, <1>4, <1>5

(* Edits of the other kinds read no winners.                               *)
LEMMA EditOthersKeeps ==
  ASSUME Inv, NEW d \in Docs, NEW c, c.kind # "Map", Edit(d, c)
  PROVE  Inv'
<1> DEFINE Fits(op) == "cont" \in DOMAIN op /\ op.cont = c /\ {"lam", "past"} \cap DOMAIN op = {}
           Makes(op) == \/ Applied(d, c, <<op>>, {})
                        \/ \E e, kind : Applied(d, c, <<op>> \o Attached(e, kind), {})
<1>1. ASSUME NEW op, Fits(op), Makes(op) PROVE Inv'
  <2>1. \A m \in {} : m.kind = "Map"
    OBVIOUS
  <2> QED BY <1>1, <2>1, EditingKeeps
<1>2. \E op : Fits(op) /\ Makes(op)
  <2>1. ASSUME NEW v, InsertItem(d, c, v) PROVE \E op : Fits(op) /\ Makes(op)
    <3> DEFINE op == [cont |-> c, act |-> "ins", val |-> v]
    <3>1. Applied(d, c, <<op>> \o (IF v.is = "cont" THEN Attached(d, v.kind) ELSE <<>>), {})
      BY <2>1 DEF InsertItem
    <3>2. Fits(op)
      OBVIOUS
    <3>3. <<op>> \o <<>> = <<op>>
      OBVIOUS
    <3> HIDE DEF op
    <3>4. Makes(op)
      BY <3>1, <3>3
    <3> HIDE DEF Fits, Makes
    <3> QED BY <3>2, <3>4
  <2>2. ASSUME NEW i, DeleteItem(d, c, i) PROVE \E op : Fits(op) /\ Makes(op)
    <3> DEFINE op == [cont |-> c, act |-> "rem", item |-> i]
    <3>1. Fits(op) /\ Makes(op)
      BY <2>2 DEF DeleteItem
    <3> HIDE DEF op, Fits, Makes
    <3> QED BY <3>1
  <2>3. ASSUME NEW v, InsertElem(d, c, v) PROVE \E op : Fits(op) /\ Makes(op)
    <3> DEFINE op == [cont |-> c, act |-> "ins", elem |-> <<d, NextLamport(d)>>, val |-> v]
    <3>1. Applied(d, c, <<op>> \o (IF v.is = "cont" THEN Attached(d, v.kind) ELSE <<>>), {})
      BY <2>3 DEF InsertElem
    <3>2. Fits(op)
      OBVIOUS
    <3>3. <<op>> \o <<>> = <<op>>
      OBVIOUS
    <3> HIDE DEF op
    <3>4. Makes(op)
      BY <3>1, <3>3
    <3> HIDE DEF Fits, Makes
    <3> QED BY <3>2, <3>4
  <2>4. ASSUME NEW e, NEW v, SetElem(d, c, e, v) PROVE \E op : Fits(op) /\ Makes(op)
    <3> DEFINE op == [cont |-> c, act |-> "set", elem |-> e, val |-> v]
    <3>1. Applied(d, c, <<op>> \o (IF v.is = "cont" THEN Attached(d, v.kind) ELSE <<>>), {})
      BY <2>4 DEF SetElem
    <3>2. Fits(op)
      OBVIOUS
    <3>3. <<op>> \o <<>> = <<op>>
      OBVIOUS
    <3> HIDE DEF op
    <3>4. Makes(op)
      BY <3>1, <3>3
    <3> HIDE DEF Fits, Makes
    <3> QED BY <3>2, <3>4
  <2>5. ASSUME NEW e, MoveElem(d, c, e) PROVE \E op : Fits(op) /\ Makes(op)
    <3> DEFINE op == [cont |-> c, act |-> "move", elem |-> e, item |-> PositionOf(d, c, e)]
    <3>1. Fits(op) /\ Makes(op)
      BY <2>5 DEF MoveElem
    <3> HIDE DEF op, Fits, Makes
    <3> QED BY <3>1
  <2>6. ASSUME NEW e, DeleteElem(d, c, e) PROVE \E op : Fits(op) /\ Makes(op)
    <3> DEFINE op == [cont |-> c, act |-> "rem", item |-> PositionOf(d, c, e)]
    <3>1. Fits(op) /\ Makes(op)
      BY <2>6 DEF DeleteElem
    <3> HIDE DEF op, Fits, Makes
    <3> QED BY <3>1
  <2>7. ASSUME NEW p, CreateNode(d, c, p) PROVE \E op : Fits(op) /\ Makes(op)
    <3> DEFINE op == [cont |-> c, act |-> "node", node |-> <<d, Made(d)>>, parent |-> p]
    <3>1. Fits(op) /\ Makes(op)
      BY <2>7 DEF CreateNode
    <3> HIDE DEF op, Fits, Makes
    <3> QED BY <3>1
  <2>8. ASSUME NEW n, DeleteNode(d, c, n) PROVE \E op : Fits(op) /\ Makes(op)
    <3> DEFINE op == [cont |-> c, act |-> "node", node |-> n, parent |-> DeletedRoot]
    <3>1. Fits(op) /\ Makes(op)
      BY <2>8 DEF DeleteNode
    <3> HIDE DEF op, Fits, Makes
    <3> QED BY <3>1
  <2>9. ASSUME Increment(d, c) PROVE \E op : Fits(op) /\ Makes(op)
    <3> DEFINE op == [cont |-> c, act |-> "inc", by |-> 1]
    <3>1. Fits(op) /\ Makes(op)
      BY <2>9 DEF Increment
    <3> HIDE DEF op, Fits, Makes
    <3> QED BY <3>1
  <2> HIDE DEF Fits, Makes
  <2> QED BY <2>1, <2>2, <2>3, <2>4, <2>5, <2>6, <2>7, <2>8, <2>9 DEF Edit, EditMovableList, EditTree
<1> HIDE DEF Fits, Makes
<1> QED BY <1>1, <1>2

(* ... and so does every step.                                             *)
LEMMA NextKeeps == Inv /\ [Next]_vars => Inv'
<1> SUFFICES ASSUME Inv, [Next]_vars PROVE Inv'
  OBVIOUS
<1>1. ASSUME NEW d \in Docs, NEW c, TakeRoot(d, c) PROVE Inv'
  BY <1>1, TakeRootKeeps
<1>2. ASSUME NEW d \in Docs, NEW S, \A m \in S : m.kind = "Map", OnlyAsks(d, S) PROVE Inv'
  BY <1>2, AskingKeeps DEF OnlyAsks
<1>3. ASSUME NEW d \in Docs, NEW c, AskDeleted(d, c) PROVE Inv'
  <2>1. \A m \in AskedOn(d, c) : m.kind = "Map"
    BY AskedAreMaps
  <2> QED BY <1>2, <1>3, <2>1 DEF AskDeleted
<1>4. ASSUME NEW d \in Docs, NEW c, AskMap(d, c) PROVE Inv'
  <2>1. OnlyAsks(d, {c}) /\ \A m \in {c} : m.kind = "Map"
    BY <1>4 DEF AskMap
  <2> QED BY <1>2, <2>1
<1>5. ASSUME NEW d \in Docs, NEW c, Edit(d, c) PROVE Inv'
  <2>1. CASE c.kind = "Map"
    <3>1. EditMap(d, c)
      BY <1>5, <2>1 DEF Edit
    <3> QED BY <2>1, <3>1, EditMapKeeps
  <2>2. CASE c.kind # "Map"
    BY <1>5, <2>2, EditOthersKeeps
  <2> QED BY <2>1, <2>2
<1>6. ASSUME NEW d \in Docs, NEW i, Import(d, i) PROVE Inv'
  BY <1>6, ImportKeeps
<1>7. CASE UNCHANGED vars
  <2>1. \A e, m : LastOps(e, m)' = LastOps(e, m)
    BY <1>7, LastOpsIsWinning DEF vars
  <2> QED BY <1>7, <2>1 DEF vars, Inv, OpsOK, KnownOK, WinnersOK, OrderOK, WinnersAreLast
<1>8. CASE Next
  BY <1>1, <1>3, <1>4, <1>5, <1>6, <1>8 DEF Next
<1> QED BY <1>7, <1>8

-----------------------------------------------------------------------------
(* The roots that show.                                                    *)

(* f is the roots picked as the roots that became known are gone through.  *)
IsPicking(f, d, n) ==
  f = [k \in 0 .. n |-> IF k = 0 THEN {} ELSE WithRoot(d, f[k - 1], order[d][k])]

(* Going through any number of roots picks some.                           *)
LEMMA PickingDefined ==
  ASSUME NEW d, NEW n \in Nat
  PROVE  \E f : IsPicking(f, d, n)
<1> DEFINE N == {m \in Nat : \E f : IsPicking(f, d, m)}
<1>1. 0 \in N
  <2> DEFINE g == [k \in 0 .. 0 |-> {}]
  <2>1. g = [k \in 0 .. 0 |-> IF k = 0 THEN {} ELSE WithRoot(d, g[k - 1], order[d][k])]
    OBVIOUS
  <2>2. IsPicking(g, d, 0)
    BY <2>1 DEF IsPicking
  <2> QED BY <2>2
<1>2. ASSUME NEW m \in N
      PROVE  m + 1 \in N
  <2>1. m \in Nat /\ m + 1 \in Nat
    OBVIOUS
  <2>2. PICK g : IsPicking(g, d, m)
    OBVIOUS
  <2> DEFINE h == [k \in 0 .. m + 1 |-> IF k = m + 1 THEN WithRoot(d, g[m], order[d][m + 1]) ELSE g[k]]
             step(f, k) == IF k = 0 THEN {} ELSE WithRoot(d, f[k - 1], order[d][k])
  <2>3. ASSUME NEW k \in 0 .. m + 1
        PROVE  h[k] = step(h, k)
    <3>1. CASE k = m + 1
      <4>1. h[k] = WithRoot(d, g[m], order[d][k]) /\ k # 0 /\ k - 1 = m /\ h[m] = g[m]
        BY <2>1, <3>1
      <4> HIDE DEF h
      <4> QED BY <4>1
    <3>2. CASE k # m + 1
      <4>1. k \in 0 .. m /\ h[k] = g[k] /\ (k # 0 => k - 1 \in 0 .. m /\ h[k - 1] = g[k - 1])
        BY <2>1, <3>2
      <4>2. g[k] = IF k = 0 THEN {} ELSE WithRoot(d, g[k - 1], order[d][k])
        BY <2>2, <4>1 DEF IsPicking
      <4> HIDE DEF h
      <4> QED BY <4>1, <4>2
    <3> QED BY <3>1, <3>2
  <2>4. h = [k \in 0 .. m + 1 |-> h[k]]
    OBVIOUS
  <2> HIDE DEF h
  <2>5. h = [k \in 0 .. m + 1 |-> step(h, k)]
    <3> HIDE DEF step
    <3> QED BY <2>3, <2>4
  <2>6. IsPicking(h, d, m + 1)
    BY <2>5 DEF IsPicking
  <2> QED BY <2>1, <2>6
<1>3. N = Nat
  <2> HIDE DEF N
  <2>1. N \in SUBSET Nat
    BY DEF N
  <2> QED BY <1>1, <1>2, <2>1, NatSetInduction
<1> QED BY <1>3

(* Of roots gone through, those of a name have one root among those picked,*)
(* and it is empty only if they are.                                       *)
Picks(d, P, k) ==
  /\ \A v, w \in P : v.name = w.name => v = w
  /\ \A j \in 1 .. k : order[d][j] \in Candidates(d) =>
       \E v \in P : /\ v.name = order[d][j].name
                    /\ EmptyRoot(d, v) => EmptyRoot(d, order[d][j])

(* The next root takes the place of the one of its name, or does not.      *)
LEMMA PickNext ==
  ASSUME NEW d, NEW P, NEW k \in Nat, Picks(d, P, k)
  PROVE  Picks(d, WithRoot(d, P, order[d][k + 1]), k + 1)
<1> DEFINE c == order[d][k + 1]
           Q == WithRoot(d, P, c)
<1>1. \A j \in 1 .. k + 1 : j \in 1 .. k \/ order[d][j] = c
  OBVIOUS
<1> HIDE DEF c
<1>2. CASE c \notin Candidates(d)
  <2>1. Q = P
    BY <1>2 DEF WithRoot
  <2> QED BY <1>1, <1>2, <2>1 DEF Picks, c
<1>3. CASE c \in Candidates(d) /\ ~\E old \in P : old.name = c.name
  <2>1. Q = P \cup {c}
    BY <1>3 DEF WithRoot
  <2> HIDE DEF Q
  <2>2. Picks(d, Q, k + 1)
    BY <1>1, <1>3, <2>1 DEF Picks
  <2> QED BY <2>2 DEF Q, c
<1>4. CASE c \in Candidates(d) /\ \E old \in P : old.name = c.name
  <2>1. PICK old \in P : old.name = c.name
    BY <1>4
  <2>2. \A v \in P : v.name = c.name <=> v = old
    BY <2>1 DEF Picks
  <2>3. Q = {IF v.name = c.name /\ TakesName(d, v, c) THEN c ELSE v : v \in P}
    BY <1>4 DEF WithRoot
  <2>4. CASE TakesName(d, old, c)
    <3>1. Q = (P \ {old}) \cup {c}
      BY <2>2, <2>3, <2>4
    <3> HIDE DEF Q
    <3>2. \A v, w \in Q : v.name = w.name => v = w
      BY <2>1, <2>2, <3>1 DEF Picks
    <3>3. EmptyRoot(d, c) => EmptyRoot(d, old)
      BY <2>4 DEF TakesName
    <3>4. ASSUME NEW j \in 1 .. k + 1, order[d][j] \in Candidates(d)
          PROVE  \E v \in Q : /\ v.name = order[d][j].name
                              /\ EmptyRoot(d, v) => EmptyRoot(d, order[d][j])
      <4>1. CASE order[d][j] = c
        BY <3>1, <4>1
      <4>2. CASE j \in 1 .. k
        <5>1. PICK v \in P : /\ v.name = order[d][j].name
                             /\ EmptyRoot(d, v) => EmptyRoot(d, order[d][j])
          BY <3>4, <4>2 DEF Picks
        <5>2. CASE v = old
          BY <2>1, <3>1, <3>3, <5>1, <5>2
        <5>3. CASE v # old
          BY <3>1, <5>1, <5>3
        <5> QED BY <5>2, <5>3
      <4> QED BY <1>1, <4>1, <4>2
    <3>5. Picks(d, Q, k + 1)
      BY <3>2, <3>4 DEF Picks
    <3> QED BY <3>5 DEF Q, c
  <2>5. CASE ~TakesName(d, old, c)
    <3>1. Q = P
      BY <2>2, <2>3, <2>5
    <3> HIDE DEF Q
    <3>2. ~EmptyRoot(d, old)
      BY <2>5 DEF TakesName
    <3>3. Picks(d, Q, k + 1)
      BY <1>1, <2>1, <3>1, <3>2 DEF Picks
    <3> QED BY <3>3 DEF Q, c
  <2> QED BY <2>4, <2>5
<1> QED BY <1>2, <1>3, <1>4

(* visibleRoots shows what going through all roots picks.                  *)
LEMMA RootsPicked ==
  ASSUME Inv, NEW d \in Docs
  PROVE  Picks(d, VisibleRoots(d), Len(order[d]))
<1> DEFINE n == Len(order[d])
           f == CHOOSE g : IsPicking(g, d, n)
<1>1. n \in Nat
  BY DEF Inv, OrderOK
<1>2. VisibleRoots(d) = f[n]
  BY DEF VisibleRoots, IsPicking
<1> HIDE DEF n
<1>3. IsPicking(f, d, n)
  BY <1>1, PickingDefined
<1> HIDE DEF f
<1>4. f[0] = {} /\ \A k \in 1 .. n : f[k] = WithRoot(d, f[k - 1], order[d][k])
  <2>1. ASSUME NEW k \in 0 .. n
        PROVE  f[k] = IF k = 0 THEN {} ELSE WithRoot(d, f[k - 1], order[d][k])
    BY <1>3 DEF IsPicking
  <2>2. 0 \in 0 .. n /\ \A k \in 1 .. n : k \in 0 .. n /\ k # 0
    BY <1>1
  <2> QED BY <2>1, <2>2
<1> DEFINE N == {k \in Nat : k <= n => Picks(d, f[k], k)}
<1>5. 0 \in N
  BY <1>4 DEF Picks
<1>6. ASSUME NEW k \in N
      PROVE  k + 1 \in N
  <2>1. k \in Nat /\ k + 1 \in Nat
    OBVIOUS
  <2>2. ASSUME k + 1 <= n
        PROVE  Picks(d, f[k + 1], k + 1)
    <3>1. Picks(d, f[k], k)
      BY <1>1, <2>1, <2>2
    <3>2. k + 1 \in 1 .. n /\ (k + 1) - 1 = k
      BY <1>1, <2>1, <2>2
    <3>3. f[k + 1] = WithRoot(d, f[k], order[d][k + 1])
      BY <1>4, <3>2
    <3> QED BY <2>1, <3>1, <3>3, PickNext
  <2> QED BY <2>1, <2>2
<1>7. N = Nat
  <2> HIDE DEF N
  <2>1. N \in SUBSET Nat
    BY DEF N
  <2> QED BY <1>5, <1>6, <2>1, NatSetInduction
<1>8. Picks(d, f[n], n)
  BY <1>1, <1>7
<1> QED BY <1>2, <1>8 DEF n

(* Of the candidates of a name one shows.                                  *)
LEMMA RootsShow == Inv => NothingHidden
<1> SUFFICES ASSUME Inv, NEW d \in Docs, NEW c \in Candidates(d)
             PROVE  \E v \in VisibleRoots(d) :
                      /\ v.name = c.name
                      /\ \A w \in VisibleRoots(d) : w.name = c.name => w = v
                      /\ EmptyRoot(d, v) => EmptyRoot(d, c)
  BY DEF NothingHidden
<1>1. order[d] = order[d] /\ DOMAIN order[d] = 1 .. Len(order[d])
  BY DEF Inv, OrderOK
<1>2. PICK j \in 1 .. Len(order[d]) : c = order[d][j]
  BY <1>1 DEF Candidates, ToSet
<1>3. Picks(d, VisibleRoots(d), Len(order[d]))
  BY RootsPicked
<1> QED BY <1>2, <1>3 DEF Picks

-----------------------------------------------------------------------------
(* The theorems.                                                           *)

(* The invariant, of any documents, scenes and runs: ids and lamports of   *)
(* ops follow what their authors knew, and the winners kept are the last   *)
(* ops (Document.apply, docState.applyLocal, import).                      *)
THEOREM InvHolds == Spec => []Inv
BY InitInv, NextKeeps, PTL DEF Spec

(* The winners of a map that were cached when it was first read are those  *)
(* that its ops give, after any local ops and imports (docState.mapEntry,  *)
(* docState.applyLocal).                                                   *)
THEOREM WinnersStayLast == Spec => []WinnersAreLast
<1>1. Inv => WinnersAreLast
  BY DEF Inv
<1> QED BY <1>1, InvHolds, PTL

(* For each name that a root with state has one root shows, and an empty   *)
(* one only if all of that name are (Document.visibleRoots).               *)
THEOREM NothingEverHidden == Spec => []NothingHidden
BY RootsShow, InvHolds, PTL

=============================================================================
