------------------------------ MODULE MCOpLog ------------------------------
(***************************************************************************)
(* Instances of OpLog for TLC.                                             *)
(***************************************************************************)
EXTENDS OpLog, TLC

CONSTANTS d1, d2, d3, p1, p2, p3, m0, m1

TwoDocs == {d1, d2}
TwoPeers == {p1, p2}
PeersOfTwo == d1 :> p1 @@ d2 :> p2

ThreeDocs == {d1, d2, d3}
ThreePeers == {p1, p2, p3}
PeersOfThree == d1 :> p1 @@ d2 :> p2 @@ d3 :> p3
BudgetOfThree == p1 :> 2 @@ p2 :> 1 @@ p3 :> 0

(* Two documents edit under one peer id.                                   *)
SharedPeers == d1 :> p1 @@ d2 :> p1
SharedBudget == p1 :> 2 @@ p2 :> 0

(* Five blobs of another implementation, which edits under the documents'  *)
(* peer id p1 and under p2: two ops of p1 that wait for p2's first, with a *)
(* lamport of their own; that op; the same op with p2's second, which      *)
(* waits for one of p1 and claims a lamport past the highest; p2's third,  *)
(* which may get in when counters of p2 are missing and whose position its *)
(* author could not see; and a snapshot whose frontiers are not its heads, *)
(* with three ops of p1 in one change: a document that has two of them     *)
(* cuts it and then takes p2's second op before what is left.              *)
CONSTANT w
WithOther == TwoDocs \cup {w}
By(p, start, end, deps, lam) ==
  [peer |-> p, start |-> start, end |-> end, deps |-> deps, lam |-> lam,
   ts |-> 0, msg |-> m0, by |-> w]
Updates(changes) == [changes |-> changes, snapshot |-> FALSE, fr |-> {}]
Snapshot(changes, fr) == [changes |-> changes, snapshot |-> TRUE, fr |-> fr]
ForeignBlobs ==
  {Updates({By(p1, 0, 2, {<<p2, 0>>}, 3)}),
   Updates({By(p2, 0, 1, {}, 0)}),
   Updates({By(p2, 0, 1, {}, 0), By(p2, 1, 2, {<<p1, 0>>}, 7)}),
   Updates({By(p2, 2, 3, {<<p1, 0>>}, 1)}),
   Snapshot({By(p2, 0, 1, {}, 0), By(p1, 0, 3, {<<p2, 0>>}, 1), By(p2, 1, 2, {<<p1, 0>>}, 2)},
            {<<p2, 0>>})}
ForeignBad == {<<p2, 2>>}

(* Two ops of p2, and a snapshot in which a change of three has them, with *)
(* another of p2 after it at a lower lamport than its last op has          *)
(* (SnapshotsInOrder fails of it).                                         *)
ResortedBlobs ==
  {Updates({By(p2, 0, 2, {}, 0)}),
   Snapshot({By(p2, 0, 3, {}, 0), By(p2, 3, 4, {}, 1)}, {<<p2, 3>>})}

(* Commits at different times and with different messages.                 *)
BudgetOfClock == p1 :> 2 @@ p2 :> 1
=============================================================================
