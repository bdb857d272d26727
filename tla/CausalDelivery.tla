--------------------------- MODULE CausalDelivery ---------------------------
(***************************************************************************)
(* What documents that exchange their histories promise, without logs,     *)
(* imports or pending changes: operations reach a document in any order    *)
(* and any number of times, and what it shows is always the largest part   *)
(* of what reached it that lacks no dependency.                            *)
(***************************************************************************)
EXTENDS Integers, FiniteSets

CONSTANTS Docs, PeerOf, MaxRun

VARIABLES
  deps,   \* the operations made so far, each with the ones it depends on
  got,    \* the operations that reached a document
  shown   \* the operations a document shows

vars == <<deps, got, shown>>

(* The largest subset of S that holds every dependency of its members.     *)
ClosedPart(S) == UNION {T \in SUBSET S : \A i \in T : deps[i] \subseteq T}

Heads(S) == {i \in S : \A j \in S : i \notin deps[j]}

Init ==
  /\ deps = [i \in {} |-> {}]
  /\ got = [d \in Docs |-> {}]
  /\ shown = [d \in Docs |-> {}]

(* Document d makes n operations in a row on top of all it shows.          *)
Make(d, n) ==
  LET p == PeerOf[d]
      first == Cardinality({i \in DOMAIN deps : i[1] = p})
      new == {p} \X (first .. first + n - 1)
  IN  /\ deps' = [i \in DOMAIN deps \cup new |->
                    IF i \in DOMAIN deps THEN deps[i]
                    ELSE IF i[2] = first THEN Heads(shown[d])
                    ELSE {<<p, i[2] - 1>>}]
      /\ got' = [got EXCEPT ![d] = @ \cup new]
      /\ shown' = [shown EXCEPT ![d] = @ \cup new]

(* Some operations reach document d.                                       *)
Deliver(d, ops) ==
  /\ got' = [got EXCEPT ![d] = @ \cup ops]
  /\ shown' = [shown EXCEPT ![d] = ClosedPart(got[d] \cup ops)]
  /\ UNCHANGED deps

Next ==
  \E d \in Docs :
    \/ \E n \in 1 .. MaxRun : Make(d, n)
    \/ \E ops \in SUBSET DOMAIN deps : Deliver(d, ops)

Spec == Init /\ [][Next]_vars
=============================================================================
