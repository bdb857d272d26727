------------------------------ MODULE FracIndex ------------------------------
(***************************************************************************)
(* The fractional indexes that order the siblings of a tree node           *)
(* (loro/tree.go fiBefore to fiEvenly): strings of bytes, each ending in   *)
(* the terminator, with room for another one between any two.              *)
(*                                                                         *)
(* Where the code returns an index and true, an operator here is the set   *)
(* of that index; where it returns false, the empty set.                   *)
(***************************************************************************)
EXTENDS Integers, Sequences, FiniteSets

CONSTANTS
  MaxByte,      \* the highest byte, 255 in the code
  Terminator    \* fiTerminator, 128 in the code

ASSUME BytesAssumption ==
  /\ MaxByte \in Nat
  /\ Terminator \in 1 .. MaxByte - 1

Byte == 0 .. MaxByte

(* No index: what lies before the first sibling and after the last one.    *)
Absent == <<>>

Least(S) == CHOOSE n \in S : \A m \in S : n <= m

(* Indexes are ordered as byte strings.                                    *)
Less(a, b) ==
  \E i \in 1 .. Len(b) :
    /\ \A j \in 1 .. i - 1 : j <= Len(a) /\ a[j] = b[j]
    /\ i <= Len(a) => a[i] < b[i]

(* Some bytes below b, less its last terminator.                           *)
FiBefore(b) ==
  {IF b[i] > Terminator THEN SubSeq(b, 1, i - 1)
                        ELSE [SubSeq(b, 1, i) EXCEPT ![i] = @ - 1]
     : i \in {k \in DOMAIN b : b[k] > 0 /\ \A j \in 1 .. k - 1 : b[j] = 0}}

(* Some bytes above b.                                                     *)
FiAfter(b) ==
  {IF b[i] < Terminator THEN SubSeq(b, 1, i - 1)
                        ELSE [SubSeq(b, 1, i) EXCEPT ![i] = @ + 1]
     : i \in {k \in DOMAIN b : b[k] < MaxByte /\ \A j \in 1 .. k - 1 : b[j] = MaxByte}}

FiJoin(prefix, suffixes) == {prefix \o s : s \in suffixes}

Drop(b, i) == SubSeq(b, i + 1, Len(b))

(* Some bytes between left and right.                                      *)
FiBetween(left, right) ==
  IF left = <<>> \/ right = <<>> THEN {} ELSE
  LET shorter == (IF Len(left) < Len(right) THEN Len(left) ELSE Len(right)) - 1
      differ == {i \in 1 .. shorter : left[i] # right[i]}
      i == Least(differ)
  IN  IF differ # {} THEN
        IF right[i] - left[i] > 1
        THEN {[SubSeq(left, 1, i) EXCEPT ![i] = @ + (right[i] - left[i]) \div 2]}
        ELSE IF right[i] - left[i] = 1
        THEN FiJoin(SubSeq(left, 1, i), FiAfter(Drop(left, i)))
        ELSE {}
      ELSE IF Len(left) < Len(right) /\ right[shorter + 1] >= Terminator
      THEN FiJoin(SubSeq(right, 1, shorter + 1), FiBefore(Drop(right, shorter + 1)))
      ELSE IF Len(left) > Len(right) /\ left[shorter + 1] < Terminator
      THEN FiJoin(SubSeq(left, 1, shorter + 1), FiAfter(Drop(left, shorter + 1)))
      ELSE {}

(* A new index between two others, either of which may be absent.          *)
FiNew(lower, upper) ==
  IF lower = Absent /\ upper = Absent THEN {<<Terminator>>}
  ELSE {Append(b, Terminator) : b \in IF upper = Absent THEN FiAfter(lower)
                                      ELSE IF lower = Absent THEN FiBefore(upper)
                                      ELSE FiBetween(lower, upper)}

(* n indexes between two others: the middle one first, then each half the  *)
(* same way.                                                              *)
Halves(lower, upper, n) ==
  LET gen[m \in 0 .. n] ==
        [lo \in Seq(Byte) |-> [up \in Seq(Byte) |->
           IF m = 0 THEN {<<>>}
           ELSE UNION {{l \o <<mid>> \o r : l \in gen[m \div 2][lo][mid],
                                            r \in gen[m - m \div 2 - 1][mid][up]}
                         : mid \in FiNew(lo, up)}]]
  IN  gen[n][lower][upper]

(* That is refused when the two are not in order.                          *)
FiEvenly(lower, upper, n) ==
  IF lower # Absent /\ upper # Absent /\ ~Less(lower, upper) THEN {}
  ELSE Halves(lower, upper, n)

(* Variant: the siblings spread out may run past the next one              *)
(* (EvenlySpread).                                                         *)
PositionsPastNext(fis, at) ==
  LET left == IF at > 0 THEN fis[at] ELSE Absent
      right == IF at < Len(fis) THEN fis[at + 1] ELSE Absent
      same == {k \in at + 1 .. Len(fis) :
                 left # Absent /\ \A j \in at + 1 .. k : fis[j] = left}
  IN  IF same = {}
      THEN {<<f>> : f \in FiNew(left, right)}
      ELSE FiEvenly(left, Absent, Cardinality(same) + 1)

(* The new indexes for a node put at place at among siblings with indexes  *)
(* fis: its own and, when its neighbours share one, those of the siblings  *)
(* after it that share it too.                                             *)
Positions(fis, at) ==
  LET left == IF at > 0 THEN fis[at] ELSE Absent
      right == IF at < Len(fis) THEN fis[at + 1] ELSE Absent
      same == {k \in at + 1 .. Len(fis) :
                 left # Absent /\ \A j \in at + 1 .. k : fis[j] = left}
      end == at + Cardinality(same)
      next == IF end < Len(fis) THEN fis[end + 1] ELSE Absent
  IN  IF same = {}
      THEN {<<f>> : f \in FiNew(left, right)}
      ELSE FiEvenly(left, next, Cardinality(same) + 1)
=============================================================================
