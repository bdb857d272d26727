-------------------------- MODULE OpLogRefinement --------------------------
(***************************************************************************)
(* Documents that edit under peer ids of their own and exchange updates    *)
(* and snapshots implement causal delivery.  The abstract state is a       *)
(* function of the settled logs: what was made is the union of their       *)
(* stores, what reached a document is its store and its pending changes,   *)
(* what it shows its store.  A commit is a Make and the end of an import a *)
(* Deliver; all else an import does is a stutter.                          *)
(*                                                                         *)
(* Two facts carry the argument.  A part of a history that lacks no        *)
(* dependency has, with an operation, the one before it on its peer, so    *)
(* the heads of a history are its frontiers and a change filed under the   *)
(* operation before it cannot be shown without it.  And once an import is  *)
(* over every pending change waits for an operation that is not there, so  *)
(* no larger part of what arrived could be shown.                          *)
(*                                                                         *)
(* The first of them also shows that such documents never refuse each      *)
(* other's exports (the last part).                                        *)
(***************************************************************************)
EXTENDS OpLogAgreement

-----------------------------------------------------------------------------
(* The lines of a peer's operations.                                       *)

ClosedIn(l, T) == \A i \in T : l.store[i].deps \subseteq T

(* The op before i is one that an op of T no later than i depends on.      *)
InLine(l, T, i) ==
  i[2] > 0 => \E j \in T : /\ <<i[1], i[2] - 1>> \in l.store[j].deps
                           /\ l.store[j].lam <= l.store[i].lam

(* A part of the log that lacks no dependency and has an op of peer p has  *)
(* the one before it, though an op's deps need not name its predecessor.   *)
Lined(l, p) ==
  \A T \in SUBSET DOMAIN l.store : ClosedIn(l, T) => \A i \in T : i[1] = p => InLine(l, T, i)

AllLined(l) ==
  \A T \in SUBSET DOMAIN l.store : ClosedIn(l, T) => \A i \in T : InLine(l, T, i)

LinedWorld(S) == \A d \in Docs : Lined(S[d], PeerOf[d])

(* What its author's log says of an operation holds of its copies.         *)
LEMMA CopiesLined ==
  ASSUME OwnPeers, NEW S, World(S), LinedWorld(S), NEW l, LogOK(l), Copies(S, l)
  PROVE  AllLined(l)
<1> SUFFICES ASSUME NEW T \in SUBSET DOMAIN l.store, ClosedIn(l, T), NEW i \in T
             PROVE  InLine(l, T, i)
  BY DEF AllLined
<1>1. PICK d \in Docs : PeerOf[d] = i[1] /\ i \in DOMAIN S[d].store /\ S[d].store[i] = l.store[i]
  BY DEF Copies, Original
<1> DEFINE m == S[d]
           U == T \cap DOMAIN m.store
<1>2. LogOK(m) /\ Copies(S, m) /\ Lined(m, i[1])
  BY <1>1 DEF World, TrueLog, LinedWorld
<1>3. \A k \in U : m.store[k] = l.store[k]
  BY <1>2, OneOriginal DEF Copies
<1>4. ClosedIn(m, U)
  <2> SUFFICES ASSUME NEW k \in U, NEW j \in m.store[k].deps PROVE j \in U
    BY DEF ClosedIn
  <2>1. j \in DOMAIN m.store
    BY <1>2 DEF LogOK
  <2>2. j \in T
    BY <1>3 DEF ClosedIn
  <2> QED BY <2>1, <2>2
<1>5. U \in SUBSET DOMAIN m.store /\ i \in U /\ U \subseteq T
  BY <1>1
<1> HIDE DEF U, m
<1>6. InLine(m, U, i)
  BY <1>2, <1>4, <1>5 DEF Lined
<1> QED BY <1>3, <1>5, <1>6 DEF InLine

(* An op that is not among the heads is one that another depends on.       *)
LEMMA NotAHead ==
  ASSUME NEW l, LogOK(l), AllLined(l), NEW i \in DOMAIN l.store, i \notin l.fr
  PROVE  \E j \in DOMAIN l.store : i \in l.store[j].deps /\ l.store[i].lam < l.store[j].lam
<1>1. \/ \E j \in DOMAIN l.store : i \in l.store[j].deps
      \/ <<i[1], i[2] + 1>> \in DOMAIN l.store
  BY DEF LogOK, Maximal
<1>2. i \in ID /\ i = <<i[1], i[2]>> /\ i[2] \in Nat
  BY DEF LogOK, LogType, ID
<1>3. CASE <<i[1], i[2] + 1>> \in DOMAIN l.store
  <2> DEFINE n == <<i[1], i[2] + 1>>
             T == DOMAIN l.store
  <2>1. ClosedIn(l, T)
    BY DEF ClosedIn, LogOK
  <2>2. n[1] = i[1] /\ n[2] = i[2] + 1 /\ n[2] > 0 /\ n[2] - 1 = i[2]
    BY <1>2
  <2>3. InLine(l, T, n)
    BY <1>3, <2>1 DEF AllLined
  <2> HIDE DEF n
  <2>4. PICK j \in T : <<n[1], n[2] - 1>> \in l.store[j].deps
    BY <2>2, <2>3 DEF InLine
  <2>5. i \in l.store[j].deps
    BY <1>2, <2>2, <2>4
  <2> QED BY <2>5 DEF LogOK
<1> QED BY <1>1, <1>3 DEF LogOK

(* Every op is at or below a head by lamport ...                           *)
LEMMA BelowHeads ==
  ASSUME NEW l, LogOK(l), AllLined(l), NEW i \in DOMAIN l.store
  PROVE  \E h \in l.fr : l.store[i].lam <= l.store[h].lam
<1> DEFINE U == {k \in DOMAIN l.store : l.store[i].lam <= l.store[k].lam}
<1>1. \A k \in DOMAIN l.store : l.store[k].lam \in Nat
  BY DEF LogOK, LogType, Atom
<1>2. U \in SUBSET DOMAIN l.store /\ U # {}
  BY <1>1
<1>3. PICK h \in U : \A k \in U : l.store[k].lam <= l.store[h].lam
  <2> HIDE DEF U
  <2> QED BY <1>2, Latest
<1>4. h \in l.fr
  <2> SUFFICES ASSUME h \notin l.fr PROVE FALSE
    OBVIOUS
  <2>1. PICK j \in DOMAIN l.store : l.store[h].lam < l.store[j].lam
    BY NotAHead
  <2>2. j \in U
    BY <1>1, <2>1
  <2> QED BY <1>1, <1>3, <2>1, <2>2
<1> QED BY <1>4

(* ... and by dependencies, so a part that lacks no dependency and has the *)
(* heads is the whole log.                                                 *)
LEMMA FromHeads ==
  ASSUME NEW l, LogOK(l), AllLined(l), NEW T \in SUBSET DOMAIN l.store, ClosedIn(l, T),
         l.fr \subseteq T
  PROVE  T = DOMAIN l.store
<1> DEFINE U == DOMAIN l.store \ T
<1> SUFFICES ASSUME U # {} PROVE FALSE
  OBVIOUS
<1>1. \A k \in DOMAIN l.store : l.store[k].lam \in Nat
  BY DEF LogOK, LogType, Atom
<1>2. PICK h \in U : \A k \in U : l.store[k].lam <= l.store[h].lam
  <2>1. U \in SUBSET DOMAIN l.store
    OBVIOUS
  <2> HIDE DEF U
  <2> QED BY <2>1, Latest
<1>3. PICK j \in DOMAIN l.store : h \in l.store[j].deps /\ l.store[h].lam < l.store[j].lam
  BY NotAHead
<1>4. j \in T
  BY <1>1, <1>2, <1>3
<1> QED BY <1>3, <1>4 DEF ClosedIn

(* A local commit, which depends on the heads, keeps its peer's line: a    *)
(* part that has the new op has all there was when it was made.            *)
LEMMA CommitLined ==
  ASSUME NEW l, LogOK(l), AllLined(l), NEW c, Fits(l, c), c.deps = l.fr
  PROVE  Lined(InsertLocal(l, c), c.peer)
<1> DEFINE m == InsertLocal(l, c)
           prev == <<c.peer, c.start - 1>>
<1>1. LogOK(m) /\ Kept(l, m) /\ DOMAIN m.store = DOMAIN l.store \cup IdsOf(c)
  BY InsertLocalOK DEF Gains
<1>2. \A i \in IdsOf(c) : m.store[i].deps = DepsAt(c, i[2])
  BY LocalDeps
<1>3. /\ c \in Change /\ c.peer \in Peers /\ c.start \in Nat /\ c.end \in Nat
      /\ c.start = l.vv[c.peer] /\ l.vv \in [Peers -> Nat] /\ DOMAIN l.store = Below(l.vv)
  BY DEF Fits, Change, LogOK, LogType
<1>4. \A k \in DOMAIN m.store : m.store[k].lam \in Nat
  BY <1>1 DEF LogOK, LogType, Atom
<1> HIDE DEF m
<1> SUFFICES ASSUME NEW T \in SUBSET DOMAIN m.store, ClosedIn(m, T), NEW i \in T,
                    i[1] = c.peer, i[2] > 0
             PROVE  \E j \in T : /\ <<i[1], i[2] - 1>> \in m.store[j].deps
                                 /\ m.store[j].lam <= m.store[i].lam
  BY DEF Lined, InLine, m
<1> DEFINE U == T \cap DOMAIN l.store
<1>5. U \in SUBSET DOMAIN l.store /\ ClosedIn(l, U) /\ \A k \in U : l.store[k] = m.store[k]
  BY <1>1 DEF ClosedIn, Kept, LogOK
<1>6. CASE i \in DOMAIN l.store
  <2>1. InLine(l, U, i)
    BY <1>5, <1>6 DEF AllLined
  <2> QED BY <1>5, <1>6, <2>1 DEF InLine
<1>7. CASE i \in IdsOf(c) /\ i[2] # c.start
  <2>1. m.store[i].deps = {<<c.peer, i[2] - 1>>}
    BY <1>2, <1>7 DEF DepsAt
  <2>2. m.store[i].lam <= m.store[i].lam
    BY <1>4
  <2> QED BY <2>1, <2>2
<1>8. CASE i \in IdsOf(c) /\ i[2] = c.start
  <2>1. m.store[i].deps = l.fr
    BY <1>2, <1>8 DEF DepsAt
  <2>2. l.fr \subseteq U
    BY <2>1, HeadIsLast DEF ClosedIn
  <2>3. U = DOMAIN l.store
    <3> HIDE DEF U
    <3> QED BY <1>5, <2>2, FromHeads
  <2>4. prev \in DOMAIN l.store
    <3>1. prev \in ID /\ prev[1] = c.peer /\ prev[2] < l.vv[prev[1]]
      BY <1>3, <1>8 DEF ID
    <3> HIDE DEF prev
    <3> QED BY <1>3, <3>1, BelowMember
  <2>5. <<i[1], i[2] - 1>> = prev
    BY <1>8
  <2>6. CASE prev \in l.fr
    <3>1. m.store[i].lam <= m.store[i].lam
      BY <1>4
    <3> QED BY <2>1, <2>5, <2>6, <3>1
  <2>7. CASE prev \notin l.fr
    <3>1. PICK j \in DOMAIN l.store : prev \in l.store[j].deps
      <4> HIDE DEF prev
      <4> QED BY <2>4, <2>7, NotAHead
    <3>2. PICK h \in l.fr : l.store[j].lam <= l.store[h].lam
      BY BelowHeads
    <3>3. j \in T /\ h \in T /\ m.store[j] = l.store[j] /\ m.store[h] = l.store[h]
      BY <1>5, <2>2, <2>3
    <3>4. m.store[h].lam < m.store[i].lam
      BY <1>1, <2>1 DEF LogOK
    <3>5. m.store[j].lam <= m.store[i].lam
      BY <1>4, <3>2, <3>3, <3>4
    <3> QED BY <2>5, <3>1, <3>3, <3>5
  <2> QED BY <2>6, <2>7
<1> QED BY <1>1, <1>6, <1>7, <1>8

-----------------------------------------------------------------------------
(* What every document made, whichever log it is read from.                *)

Dep ==
  [i \in Made |-> Settled(CHOOSE d \in Docs : i \in DOMAIN Settled(d).store).store[i].deps]

Lam(i) == Settled(CHOOSE d \in Docs : i \in DOMAIN Settled(d).store).store[i].lam

(* The ops that reached a log: applied or waiting.                         *)
Reached(l) == DOMAIN l.store \cup UNION {IdsOf(e.ch) : e \in l.pending}

(* Dep and Lam are what the original says, and lamports grow along Dep.    *)
LEMMA DepOfOriginal ==
  ASSUME OwnPeers, World(AllSettled), NEW i, NEW a, Original(AllSettled, i, a)
  PROVE  /\ i \in Made /\ Dep[i] = a.deps /\ Lam(i) = a.lam /\ a.lam \in Nat
         /\ \A j \in a.deps : j \in Made /\ Lam(j) < a.lam
<1>1. \A d \in Docs : AllSettled[d] = Settled(d)
  BY DEF AllSettled
<1>2. ASSUME NEW k \in Made
      PROVE  Original(AllSettled, k, Settled(CHOOSE d \in Docs : k \in DOMAIN Settled(d).store).store[k])
  <2> DEFINE d == CHOOSE d \in Docs : k \in DOMAIN Settled(d).store
  <2>1. \E e \in Docs : k \in DOMAIN Settled(e).store
    BY DEF Made
  <2>2. d \in Docs /\ k \in DOMAIN Settled(d).store
    BY <2>1
  <2> HIDE DEF d
  <2>3. Original(AllSettled, k, Settled(d).store[k])
    BY <1>1, <2>2 DEF World, TrueLog, Copies
  <2> QED BY <2>3 DEF d
<1>3. PICK e \in Docs : i \in DOMAIN AllSettled[e].store /\ AllSettled[e].store[i] = a
  BY DEF Original
<1>4. LogOK(AllSettled[e]) /\ Copies(AllSettled, AllSettled[e])
  BY DEF World, TrueLog
<1>5. \A k \in DOMAIN AllSettled[e].store : k \in Made
  BY <1>1 DEF Made
<1>6. ASSUME NEW k \in DOMAIN AllSettled[e].store
      PROVE  Dep[k] = AllSettled[e].store[k].deps /\ Lam(k) = AllSettled[e].store[k].lam
  <2>1. Original(AllSettled, k, AllSettled[e].store[k]) /\ k \in Made
    BY <1>4, <1>5 DEF Copies
  <2>2. AllSettled[e].store[k]
          = Settled(CHOOSE d \in Docs : k \in DOMAIN Settled(d).store).store[k]
    BY <1>2, <2>1, OneOriginal
  <2> QED BY <2>1, <2>2 DEF Dep, Lam
<1>7. \A j \in a.deps : j \in DOMAIN AllSettled[e].store /\ AllSettled[e].store[j].lam < a.lam
  BY <1>3, <1>4 DEF LogOK
<1>8. a.lam \in Nat
  BY <1>3, <1>4 DEF LogOK, LogType, Atom
<1> QED BY <1>3, <1>5, <1>6, <1>7, <1>8

(* An op made is the original of a log of its author's.                    *)
LEMMA MadeIsOriginal ==
  ASSUME World(AllSettled), NEW i \in Made
  PROVE  \E a : Original(AllSettled, i, a)
<1>1. PICK d \in Docs : i \in DOMAIN Settled(d).store
  BY DEF Made
<1>2. Copies(AllSettled, Settled(d))
  BY DEF World, TrueLog, AllSettled
<1> QED BY <1>1, <1>2 DEF Copies

(* Every part of what was made that lacks no dependency has, with an op,   *)
(* the one before it on its peer, at a lower lamport.                      *)
LEMMA MadeLined ==
  ASSUME OwnPeers, World(AllSettled), LinedWorld(AllSettled),
         NEW T \in SUBSET Made, \A i \in T : Dep[i] \subseteq T, NEW i \in T, i[2] > 0
  PROVE  <<i[1], i[2] - 1>> \in T /\ Lam(<<i[1], i[2] - 1>>) < Lam(i)
<1> DEFINE S == AllSettled
           prev == <<i[1], i[2] - 1>>
<1>1. PICK d \in Docs : PeerOf[d] = i[1] /\ i \in DOMAIN S[d].store
  BY MadeIsOriginal DEF Original
<1> DEFINE m == S[d]
           U == T \cap DOMAIN m.store
<1>2. LogOK(m) /\ Copies(S, m) /\ Lined(m, i[1])
  BY <1>1 DEF World, TrueLog, LinedWorld
<1>3. \A k \in U : /\ Original(S, k, m.store[k]) /\ Dep[k] = m.store[k].deps
                    /\ Lam(k) = m.store[k].lam /\ Lam(k) \in Nat
                    /\ \A j \in m.store[k].deps : Lam(j) < Lam(k)
  BY <1>2, DepOfOriginal DEF Copies
<1>4. ClosedIn(m, U)
  BY <1>2, <1>3 DEF ClosedIn, LogOK
<1>5. U \in SUBSET DOMAIN m.store /\ i \in U /\ U \subseteq T
  BY <1>1
<1> HIDE DEF U, m, S
<1>6. InLine(m, U, i)
  BY <1>2, <1>4, <1>5 DEF Lined
<1>7. PICK j \in U : prev \in m.store[j].deps /\ m.store[j].lam <= m.store[i].lam
  BY <1>6 DEF InLine
<1>8. Lam(prev) < Lam(j) /\ Lam(j) <= Lam(i) /\ prev \in T
  BY <1>3, <1>5, <1>7
<1>9. Lam(prev) \in Nat
  <2>1. prev \in Made
    BY <1>8
  <2> HIDE DEF prev
  <2> QED BY <2>1, MadeIsOriginal, DepOfOriginal
<1>10. Lam(i) \in Nat /\ Lam(j) \in Nat
  BY <1>3, <1>5
<1>11. Lam(prev) < Lam(i)
  BY <1>8, <1>9, <1>10
<1> QED BY <1>8, <1>11

(* Some op of a part of what was made has the lowest lamport.              *)
LEMMA Earliest ==
  ASSUME OwnPeers, World(AllSettled), NEW U \in SUBSET Made, U # {}
  PROVE  \E i \in U : \A j \in U : Lam(i) <= Lam(j)
<1>1. \A i \in U : Lam(i) \in Nat
  BY MadeIsOriginal, DepOfOriginal
<1>2. PICK k \in U : TRUE
  OBVIOUS
<1> DEFINE n == Lam(k)
           L == {x \in 0 .. n : \E i \in U : x = Lam(i)}
<1>3. n \in L /\ n \in Nat
  BY <1>1, <1>2
<1> HIDE DEF n
<1>4. PICK x \in L : \A y \in L : x <= y
  <2>1. L \subseteq 0 .. n /\ L # {} /\ 0 \in Nat
    BY <1>3
  <2> HIDE DEF L
  <2> QED BY <1>3, <2>1, Lowest
<1>5. PICK i \in U : x = Lam(i)
  BY <1>4
<1>6. ASSUME NEW j \in U PROVE Lam(i) <= Lam(j)
  <2>1. CASE Lam(j) <= n
    <3>1. Lam(j) \in L
      BY <1>1, <1>3, <2>1
    <3> QED BY <1>4, <1>5, <3>1
  <2>2. CASE ~(Lam(j) <= n)
    <3>1. x <= n
      BY <1>3, <1>4
    <3> QED BY <1>1, <1>3, <1>5, <2>2, <3>1
  <2> QED BY <2>1, <2>2
<1> QED BY <1>6

(* A change waits for an op that is not there: one of its deps or the one  *)
(* before it on its peer.                                                  *)
Waits(l, e) ==
  /\ e.missing \in e.ch.deps \cup {<<e.ch.peer, e.ch.start - 1>>}
  /\ ~Has(l, e.missing)

(* What holds of a log whose pending changes all wait: it shows the        *)
(* largest part of what reached it that lacks no dependency.               *)
LEMMA ShowsAllItCan ==
  ASSUME OwnPeers, World(AllSettled), LinedWorld(AllSettled),
         NEW l, LogOK(l), TrueLog(AllSettled, l), \A e \in l.pending : Waits(l, e)
  PROVE  CD!ClosedPart(Reached(l)) = DOMAIN l.store
<1> DEFINE D == DOMAIN l.store
<1>1. CD!ClosedPart(Reached(l))
        = UNION {T \in SUBSET Reached(l) : \A i \in T : Dep[i] \subseteq T}
  BY DEF CD!ClosedPart, Dep
<1>2. ASSUME NEW i \in D
      PROVE  /\ i \in Made /\ Dep[i] = l.store[i].deps /\ Dep[i] \subseteq D
  <2>1. Original(AllSettled, i, l.store[i])
    BY DEF TrueLog, Copies
  <2> QED BY <2>1, DepOfOriginal DEF LogOK
<1>3. ASSUME NEW e \in l.pending, NEW i \in IdsOf(e.ch)
      PROVE  /\ i \in Made /\ Dep[i] = DepsAt(e.ch, i[2])
             /\ \A j \in Dep[i] : Lam(j) < Lam(i)
             /\ i = <<e.ch.peer, i[2]>> /\ i[2] \in Nat /\ i[2] >= e.ch.start /\ e.ch.start \in Nat
  <2>1. Original(AllSettled, i, AtomsOf(e.ch)[i])
    BY DEF TrueLog, TrueChange
  <2>2. e.ch \in Change
    BY DEF LogOK, LogType, Waiting
  <2>3. AtomsOf(e.ch)[i].deps = DepsAt(e.ch, i[2])
    BY <2>2, AtomsOfChange
  <2>4. i = <<e.ch.peer, i[2]>> /\ i[2] \in e.ch.start .. e.ch.end - 1 /\ e.ch.start \in Nat
        /\ e.ch.end \in Nat
    BY <2>2 DEF IdsOf, Change
  <2> QED BY <2>1, <2>3, <2>4, DepOfOriginal
<1>4. Reached(l) \subseteq Made
  BY <1>2, <1>3 DEF Reached
<1>5. D \subseteq Reached(l)
  BY DEF Reached
<1>6. ASSUME NEW T \in SUBSET Reached(l), \A i \in T : Dep[i] \subseteq T
      PROVE  T \subseteq D
  <2> DEFINE U == T \ D
  <2> SUFFICES ASSUME U # {} PROVE FALSE
    OBVIOUS
  <2>1. PICK i \in U : \A j \in U : Lam(i) <= Lam(j)
    <3>1. U \in SUBSET Made
      BY <1>4
    <3> HIDE DEF U
    <3> QED BY <3>1, Earliest
  <2>2. \A j \in T : Lam(j) \in Nat
    BY <1>4, MadeIsOriginal, DepOfOriginal
  <2>3. \A j \in T : Lam(j) < Lam(i) => j \in D
    BY <2>1, <2>2
  <2>4. PICK e \in l.pending : i \in IdsOf(e.ch)
    BY DEF Reached
  <2> DEFINE c == e.ch
             b == <<c.peer, c.start - 1>>
  <2>5. /\ Dep[i] = DepsAt(c, i[2]) /\ Dep[i] \subseteq D
        /\ i = <<c.peer, i[2]>> /\ i[1] = c.peer /\ i[2] \in Nat /\ i[2] >= c.start /\ c.start \in Nat
    BY <1>3, <1>6, <2>3, <2>4
  <2>6. c \in Change /\ e.missing \in ID
    BY DEF LogOK, LogType, Waiting
  <2>7. e.missing \notin D /\ e.missing \in c.deps \cup {b}
    <3>1. e.missing \in c.deps \cup {b} /\ ~Has(l, e.missing)
      BY DEF Waits
    <3>2. l.vv \in [Peers -> Nat] /\ D = Below(l.vv)
      BY DEF LogOK, LogType
    <3> QED BY <2>6, <3>1, <3>2, BelowMember DEF Has
  <2>8. b = e.missing => c.start > 0
    BY <2>5, <2>6 DEF ID
  <2>9. CASE i[2] = c.start
    <3>1. c.deps \subseteq D
      BY <2>5, <2>9 DEF DepsAt
    <3>2. b = e.missing
      BY <2>7, <3>1
    <3>3. <<i[1], i[2] - 1>> = b /\ i[2] > 0
      BY <2>5, <2>8, <2>9, <3>2
    <3>4. T \in SUBSET Made
      BY <1>4
    <3>5. b \in T /\ Lam(b) < Lam(i)
      <4> HIDE DEF b
      <4> QED BY <1>6, <3>3, <3>4, MadeLined
    <3> QED BY <2>3, <2>7, <3>2, <3>5
  <2>10. CASE i[2] # c.start
    <3>1. <<c.peer, i[2] - 1>> \in D
      BY <2>5, <2>10 DEF DepsAt
    <3>2. l.vv \in [Peers -> Nat] /\ D = Below(l.vv) /\ c.peer \in Peers
      BY <2>6 DEF LogOK, LogType, Change
    <3>3. i[2] - 1 < l.vv[c.peer] /\ i[2] - 1 >= c.start
      <4> DEFINE q == <<c.peer, i[2] - 1>>
      <4>1. q[1] = c.peer /\ q[2] = i[2] - 1
        OBVIOUS
      <4> HIDE DEF q
      <4>2. q[2] < l.vv[q[1]]
        BY <3>1, <3>2, BelowMember DEF q
      <4> QED BY <2>5, <2>10, <4>1, <4>2
    <3> DEFINE s == <<c.peer, c.start>>
    <3>4. s \in ID /\ s[1] = c.peer /\ s[2] = c.start
      BY <2>5, <3>2 DEF ID
    <3>5. s \in D
      <4> HIDE DEF s
      <4>1. s[2] < l.vv[s[1]]
        BY <2>5, <3>2, <3>3, <3>4
      <4> QED BY <3>2, <3>4, <4>1, BelowMember
    <3>6. s \in IdsOf(c)
      BY <2>4, <2>6 DEF IdsOf, Change
    <3>7. c.deps \subseteq D
      <4> HIDE DEF s
      <4>1. Dep[s] = DepsAt(c, s[2])
        BY <1>3, <3>6
      <4> QED BY <1>2, <3>4, <3>5, <4>1 DEF DepsAt
    <3>8. b = e.missing
      BY <2>7, <3>7
    <3>9. b \in D
      <4>1. b \in ID /\ b[1] = c.peer /\ b[2] = c.start - 1
        BY <2>6, <3>8
      <4> HIDE DEF b
      <4>2. b[2] < l.vv[b[1]]
        BY <2>5, <3>2, <3>3, <4>1
      <4> QED BY <3>2, <4>1, <4>2, BelowMember
    <3> QED BY <2>7, <3>8, <3>9
  <2> QED BY <2>9, <2>10
<1>7. D \in {T \in SUBSET Reached(l) : \A i \in T : Dep[i] \subseteq T}
  BY <1>2, <1>5
<1> HIDE DEF D
<1>8. UNION {T \in SUBSET Reached(l) : \A i \in T : Dep[i] \subseteq T} = D
  BY <1>6, <1>7
<1> QED BY <1>1, <1>8 DEF D

-----------------------------------------------------------------------------
(* What an import does to the log, and why no change is left waiting for   *)
(* an op that is there.                                                    *)

Brought(m) == Reached(m.saved) \cup UNION {IdsOf(c) : c \in m.blob.changes}

(* All that import m has applied, set aside or left waiting in log l came  *)
(* with the blob or was there before, and what waited before is not lost.  *)
Holds(m, l) ==
  /\ DOMAIN l.store \subseteq Brought(m)
  /\ \A e \in l.pending \cup m.todo : IdsOf(e.ch) \subseteq Brought(m)
  /\ \A i \in 1 .. Len(m.order) : IdsOf(m.order[i]) \subseteq Brought(m)
  /\ \A i \in 1 .. Len(m.waiting) : IdsOf(m.waiting[i]) \subseteq Brought(m)
  /\ \A e \in m.saved.pending : Known(l, e.ch) \/ \E f \in l.pending \cup m.todo : f.ch = e.ch

(* The same but for change c, which is being tried.                        *)
HoldsBut(m, l, c) ==
  /\ DOMAIN l.store \subseteq Brought(m)
  /\ \A e \in l.pending \cup m.todo : IdsOf(e.ch) \subseteq Brought(m)
  /\ \A i \in 1 .. Len(m.order) : IdsOf(m.order[i]) \subseteq Brought(m)
  /\ \A i \in 1 .. Len(m.waiting) : IdsOf(m.waiting[i]) \subseteq Brought(m)
  /\ \A e \in m.saved.pending :
       e.ch = c \/ Known(l, e.ch) \/ \E f \in l.pending \cup m.todo : f.ch = e.ch

(* An op at or above i on its peer is on the stack.                        *)
Due(stack, i) == \E k \in 1 .. Len(stack) : stack[k][1] = i[1] /\ i[2] <= stack[k][2]

(* What a pending change waits for is missing, or due to be looked at.     *)
Queued(l, stack) ==
  \A e \in l.pending :
    /\ e.missing \in e.ch.deps \cup {<<e.ch.peer, e.ch.start - 1>>}
    /\ Has(l, e.missing) => Due(stack, e.missing)

(* Whatever goes on, the lines hold, what is pending waits, and an open    *)
(* transaction stays within the bound.                                     *)
Still ==
  /\ LinedWorld(AllSettled)
  /\ \A d \in Docs : \A e \in Settled(d).pending : Waits(Settled(d), e)
  /\ \A d \in Docs : tx[d].start < tx[d].next => tx[d].next <= MaxCounter

(* The inductive invariant of the refinement.                              *)
RInv ==
  /\ AInv
  /\ Still
  /\ imp.phase \in Steps => Holds(imp, oplog[imp.doc]) /\ Queued(oplog[imp.doc], imp.stack)
  /\ imp.phase \in {"recv", "build"} => imp.stack = <<>>
  /\ imp.phase = "recv" => imp.waiting = <<>> /\ imp.todo = {}

(* What a change taken in adds to a log.                                   *)
LEMMA TakenIn ==
  ASSUME NEW l, LogOK(l), NEW c \in Change, c.start <= l.vv[c.peer], ~Known(l, c),
         NEW m, LogOK(m), m.vv = [l.vv EXCEPT ![c.peer] = c.end]
  PROVE  /\ DOMAIN m.store \subseteq DOMAIN l.store \cup IdsOf(c)
         /\ \A b \in Change : b = c \/ Known(l, b) => Known(m, b)
         /\ \A i \in ID : Has(m, i) /\ ~Has(l, i) => i[1] = c.peer /\ i[2] <= LastID(c)[2]
<1>1. /\ c.peer \in Peers /\ c.start \in Nat /\ c.end \in Nat
      /\ l.vv \in [Peers -> Nat] /\ m.vv \in [Peers -> Nat] /\ LogType(l)
      /\ DOMAIN l.store = Below(l.vv) /\ DOMAIN m.store = Below(m.vv)
  BY DEF Change, LogOK, LogType
<1>2. \A b \in Change : b = c \/ Known(l, b) => Known(m, b)
  BY <1>1, KnownGrows
<1>3. ASSUME NEW i \in ID, i[2] < m.vv[i[1]], ~(i[2] < l.vv[i[1]])
      PROVE  i[1] = c.peer /\ i[2] <= c.end - 1 /\ i \in IdsOf(c)
  <2>1. i[1] = c.peer /\ i[1] \in Peers /\ i[2] \in Nat /\ i = <<i[1], i[2]>>
    BY <1>1, <1>3 DEF ID
  <2>2. m.vv[i[1]] = c.end
    BY <1>1, <2>1
  <2>3. i[2] < c.end /\ c.start <= i[2]
    BY <1>1, <1>3, <2>1, <2>2
  <2> QED BY <1>1, <2>1, <2>3 DEF IdsOf
<1>4. DOMAIN m.store \subseteq DOMAIN l.store \cup IdsOf(c)
  BY <1>1, <1>3, BelowMember
<1>5. LastID(c)[2] = c.end - 1
  BY DEF LastID
<1> QED BY <1>2, <1>3, <1>4, <1>5 DEF Has

(* A change taken in puts its last op on the stack, where what waits for   *)
(* its ops is looked for.                                                  *)
LEMMA QueuedTaken ==
  ASSUME NEW l, LogOK(l), NEW c \in Change, c.start <= l.vv[c.peer], ~Known(l, c),
         NEW m, LogOK(m), m.vv = [l.vv EXCEPT ![c.peer] = c.end], m.pending = l.pending,
         NEW stack \in Seq(ID), Queued(l, stack)
  PROVE  Queued(m, Append(stack, LastID(c)))
<1> DEFINE id == LastID(c)
           x == Append(stack, id)
<1>1. \A i \in ID : Has(m, i) /\ ~Has(l, i) => i[1] = c.peer /\ i[2] <= id[2]
  BY TakenIn
<1>2. id \in ID /\ id[1] = c.peer
  BY DEF LastID, ID, Change
<1> HIDE DEF id
<1>3. /\ Len(x) = Len(stack) + 1 /\ Len(stack) \in Nat /\ x[Len(stack) + 1] = id
      /\ \A k \in 1 .. Len(stack) : x[k] = stack[k]
  BY <1>2, AppendProperties
<1> HIDE DEF x
<1> SUFFICES ASSUME NEW e \in l.pending, Has(m, e.missing) PROVE Due(x, e.missing)
  BY DEF Queued, x, id
<1>4. e.missing \in ID
  BY DEF LogOK, LogType, Waiting
<1>5. CASE Has(l, e.missing)
  <2>1. PICK k \in 1 .. Len(stack) : stack[k][1] = e.missing[1] /\ e.missing[2] <= stack[k][2]
    BY <1>5 DEF Queued, Due
  <2>2. k \in 1 .. Len(x)
    BY <1>3
  <2> QED BY <1>3, <2>1, <2>2 DEF Due
<1>6. CASE ~Has(l, e.missing)
  <2>1. e.missing[1] = id[1] /\ e.missing[2] <= id[2]
    BY <1>1, <1>2, <1>4, <1>6
  <2>2. Len(stack) + 1 \in 1 .. Len(x)
    BY <1>3
  <2> QED BY <1>3, <2>1, <2>2 DEF Due
<1> QED BY <1>5, <1>6

(* A change that an import takes in came with the blob or was there.       *)
LEMMA HoldsTaken ==
  ASSUME NEW l, LogOK(l), NEW c \in Change, c.start <= l.vv[c.peer], ~Known(l, c),
         NEW m, LogOK(m), m.vv = [l.vv EXCEPT ![c.peer] = c.end], m.pending = l.pending,
         NEW a, NEW b, IdsOf(c) \subseteq Brought(a), LogType(a.saved),
         HoldsBut(a, l, c),
         b.saved = a.saved, b.blob = a.blob, b.todo = a.todo,
         b.order = a.order, b.waiting = a.waiting
  PROVE  Holds(b, m)
<1>1. /\ DOMAIN m.store \subseteq DOMAIN l.store \cup IdsOf(c)
      /\ \A k \in Change : k = c \/ Known(l, k) => Known(m, k)
  BY TakenIn
<1>2. \A e \in a.saved.pending : e.ch \in Change
  BY DEF LogType, Waiting
<1>3. Brought(b) = Brought(a)
  BY DEF Brought
<1>4. DOMAIN l.store \subseteq Brought(a)
  BY DEF HoldsBut
<1>5. DOMAIN m.store \subseteq Brought(b)
  BY <1>1, <1>3, <1>4
<1>6. ASSUME NEW e \in b.saved.pending
      PROVE  Known(m, e.ch) \/ \E f \in m.pending \cup b.todo : f.ch = e.ch
  BY <1>1, <1>2 DEF HoldsBut
<1>7. /\ \A e \in m.pending \cup b.todo : IdsOf(e.ch) \subseteq Brought(b)
      /\ \A i \in 1 .. Len(b.order) : IdsOf(b.order[i]) \subseteq Brought(b)
      /\ \A i \in 1 .. Len(b.waiting) : IdsOf(b.waiting[i]) \subseteq Brought(b)
  BY <1>3 DEF HoldsBut
<1> QED BY <1>5, <1>6, <1>7 DEF Holds

-----------------------------------------------------------------------------
(* The steps of an import, which no other document sees.                   *)

(* The document's log is now l, the others' are as they were.              *)
Reaches(l) == oplog'[imp.doc] = l /\ \A d \in Docs \ {imp.doc} : oplog'[d] = oplog[d]

(* A step of an import leaves every settled log alone; the invariant is    *)
(* kept when the log it reaches holds no more than came and files nothing  *)
(* that is due.                                                            *)
LEMMA StepGathers ==
  ASSUME RInv, AInv', imp.phase \in Steps, imp'.phase \in Steps, SameImport(imp, imp'),
         UNCHANGED tx, NEW l, Reaches(l),
         Holds(imp', l), Queued(l, imp'.stack), imp'.phase = "build" => imp'.stack = <<>>
  PROVE  RInv' /\ AllSettled' = AllSettled
<1>1. imp'.doc = imp.doc /\ imp'.saved = imp.saved /\ oplog'[imp'.doc] = l
  BY DEF SameImport, Reaches
<1>2. \A d \in Docs : Settled(d)' = Settled(d)
  BY <1>1 DEF Settled, Steps, Reaches
<1>3. AllSettled' = AllSettled
  BY <1>2 DEF AllSettled
<1>4. \A d \in Docs : \A e \in Settled(d)'.pending : Waits(Settled(d)', e)
  BY <1>2 DEF RInv, Still
<1>5. LinedWorld(AllSettled')
  BY <1>3 DEF RInv, Still
<1>6. imp'.phase # "recv"
  BY DEF Steps
<1> QED BY <1>1, <1>3, <1>4, <1>5, <1>6 DEF RInv, Still

(* What the invariant says of an import past its beginning.                *)
LEMMA Gathered ==
  ASSUME RInv, imp.phase \in Steps
  PROVE  /\ ImportType(imp) /\ imp.doc \in Docs /\ IInv /\ AInv /\ DOMAIN oplog = Docs
         /\ LogOK(oplog[imp.doc]) /\ LogType(oplog[imp.doc])
         /\ Holds(imp, oplog[imp.doc]) /\ Queued(oplog[imp.doc], imp.stack)
         /\ LogType(imp.saved) /\ imp.stack \in Seq(ID)
         /\ ImportFits(imp, oplog[imp.doc], tx[imp.doc])
         /\ \A l : oplog' = [oplog EXCEPT ![imp.doc] = l] => Reaches(l)
         /\ UNCHANGED oplog => Reaches(oplog[imp.doc])
<1>1. AInv /\ IInv
  BY DEF RInv, AInv
<1>2. /\ ImportType(imp) /\ imp.doc \in Docs
      /\ LogOK(oplog[imp.doc]) /\ LogType(oplog[imp.doc])
      /\ ImportFits(imp, oplog[imp.doc], tx[imp.doc])
  BY <1>1, InImport
<1>3. DOMAIN oplog = Docs
  BY <1>1 DEF IInv
<1>4. Holds(imp, oplog[imp.doc]) /\ Queued(oplog[imp.doc], imp.stack)
  BY DEF RInv
<1>5. imp.stack \in Seq(ID) /\ LogType(imp.saved)
  BY <1>2 DEF ImportType
<1> QED BY <1>1, <1>2, <1>3, <1>4, <1>5 DEF Reaches

(* What an import holds does not depend on its phase, replay and stack.    *)
LEMMA HoldsSame ==
  ASSUME NEW m, NEW l, Holds(m, l), NEW n, n.saved = m.saved, n.blob = m.blob,
         n.todo = m.todo, n.order = m.order, n.waiting = m.waiting
  PROVE  Holds(n, l)
BY DEF Holds, Brought

(* A change trimmed to what is new has no op it did not have.              *)
LEMMA TrimmedIds ==
  ASSUME NEW l, LogOK(l), NEW c \in Change, ~Known(l, c)
  PROVE  IdsOf(TrimKnown(l, c)) \subseteq IdsOf(c)
<1> DEFINE n == l.vv[c.peer]
           t == TrimKnown(l, c)
<1>1. c.start \in Nat /\ c.end \in Nat /\ c.peer \in Peers /\ n \in Nat /\ n < c.end
  BY DEF Change, LogOK, LogType, Known
<1>2. CASE c.start >= n
  <2>1. t = c
    BY <1>2 DEF TrimKnown
  <2> HIDE DEF t
  <2> QED BY <2>1 DEF t
<1>3. CASE c.start < n
  <2>1. t = CutFrom(c, n)
    BY <1>1, <1>3 DEF TrimKnown
  <2> HIDE DEF n, t
  <2>2. t.peer = c.peer /\ t.start = n /\ t.end = c.end
    BY <1>1, <1>3, <2>1, CutChange
  <2>3. n .. c.end - 1 \subseteq c.start .. c.end - 1
    BY <1>1, <1>3
  <2>4. IdsOf(t) \subseteq IdsOf(c)
    BY <2>2, <2>3 DEF IdsOf
  <2> QED BY <2>4 DEF t
<1> QED BY <1>1, <1>2, <1>3

(* What a snapshot is trimmed to came with it.                             *)
LEMMA CheckDoneHolds ==
  ASSUME RInv, CheckDone
  PROVE  Holds(imp', oplog[imp.doc])
<1> DEFINE l == oplog[imp.doc]
           x == imp'.order
<1>1. imp.phase \in Steps
  BY DEF CheckDone, Steps
<1>2. ImportType(imp) /\ Holds(imp, l) /\ LogOK(l)
  BY <1>1, Gathered
<1>3. imp.order \in Seq(Change)
  BY <1>2 DEF ImportType
<1>4. PICK y \in IF Trims(imp) THEN TrimmedOrders(l, imp.blob.changes) ELSE {imp.order} :
        imp' = [imp EXCEPT !.phase = "main", !.order = y]
  BY DEF CheckDone, Trims
<1>5. /\ imp'.saved = imp.saved /\ imp'.blob = imp.blob /\ x = y
      /\ imp'.waiting = imp.waiting /\ imp'.todo = imp.todo
  BY <1>2, <1>4 DEF ImportType
<1>6. imp.blob.changes \subseteq Change /\ IsFiniteSet(imp.blob.changes)
  BY <1>2 DEF ImportType, Blob
<1> HIDE DEF x, l
<1>7. Brought(imp') = Brought(imp)
  BY <1>5 DEF Brought
<1>8. ASSUME NEW i \in 1 .. Len(x) PROVE IdsOf(x[i]) \subseteq Brought(imp')
  <2>1. CASE ~Trims(imp)
    <3>1. x = imp.order
      BY <1>4, <1>5, <2>1
    <3> QED BY <1>2, <1>7, <1>8, <3>1 DEF Holds
  <2>2. CASE Trims(imp)
    <3>1. x \in TrimmedOrders(l, imp.blob.changes)
      BY <1>4, <1>5, <2>2
    <3>2. PICK c \in imp.blob.changes : ~Known(l, c) /\ x[i] = TrimKnown(l, c)
      BY <1>2, <1>6, <1>8, <3>1, TrimmedSeq
    <3>3. IdsOf(x[i]) \subseteq IdsOf(c)
      BY <1>2, <1>6, <3>2, TrimmedIds
    <3>4. IdsOf(c) \subseteq Brought(imp)
      BY DEF Brought
    <3> QED BY <1>7, <3>3, <3>4
  <2> QED BY <2>1, <2>2
<1>9. \A i \in 1 .. Len(imp'.order) : IdsOf(imp'.order[i]) \subseteq Brought(imp')
  BY <1>8 DEF x
<1>10. Holds(imp', l)
  BY <1>2, <1>5, <1>7, <1>9 DEF Holds
<1> QED BY <1>10 DEF l

(* Steps that move the import on and apply nothing.                        *)
LEMMA TurnGathers ==
  ASSUME RInv, AInv', CheckStep \/ CheckDone \/ MainDone \/ PendingDone \/ ParkDone
  PROVE  RInv' /\ AllSettled' = AllSettled
<1> DEFINE l == oplog[imp.doc]
<1>1. imp.phase \in Steps /\ UNCHANGED <<oplog, tx>>
  BY DEF CheckStep, CheckDone, MainDone, PendingDone, ParkDone, Steps
<1>2. /\ ImportType(imp) /\ Holds(imp, l) /\ Queued(l, imp.stack) /\ Reaches(l)
      /\ ImportFits(imp, l, tx[imp.doc])
  BY <1>1, Gathered
<1>3. /\ imp'.phase \in Steps /\ SameImport(imp, imp') /\ imp'.stack = imp.stack
      /\ imp'.todo = imp.todo /\ imp'.waiting = imp.waiting
      /\ imp'.order = imp.order \/ CheckDone
      /\ imp'.phase = "build" => imp.stack = <<>>
  <2>1. CASE CheckStep
    <3>1. PICK x : imp' = [imp EXCEPT !.ends = x] /\ imp.phase = "check"
      BY <2>1 DEF CheckStep
    <3> QED BY <1>2, <3>1 DEF ImportType, SameImport, Steps
  <2>2. CASE CheckDone
    <3>1. PICK y : imp' = [imp EXCEPT !.phase = "main", !.order = y]
      BY <2>2 DEF CheckDone
    <3> QED BY <1>2, <2>2, <3>1 DEF ImportType, SameImport, Steps
  <2>3. CASE MainDone
    <3>1. imp' = [imp EXCEPT !.phase = "pending"]
      BY <2>3 DEF MainDone
    <3> QED BY <1>2, <3>1 DEF ImportType, SameImport, Steps
  <2>4. CASE PendingDone
    <3>1. PICK x \in {"build", "park"} : imp' = [imp EXCEPT !.phase = x]
      BY <2>4 DEF PendingDone
    <3>2. imp.stack = <<>>
      BY <2>4 DEF PendingDone
    <3> QED BY <1>2, <3>1, <3>2 DEF ImportType, SameImport, Steps
  <2>5. CASE ParkDone
    <3>1. imp' = [imp EXCEPT !.phase = "pending"]
      BY <2>5 DEF ParkDone
    <3> QED BY <1>2, <3>1 DEF ImportType, SameImport, Steps
  <2> QED BY <2>1, <2>2, <2>3, <2>4, <2>5
<1>4. Holds(imp', l)
  BY <1>2, <1>3, HoldsSame, CheckDoneHolds DEF SameImport
<1> QED BY <1>1, <1>2, <1>3, <1>4, StepGathers

(* The changes taken out of the pending set are those the id on top of the *)
(* stack makes due.                                                        *)
LEMMA PopGathers ==
  ASSUME RInv, AInv', PendingPop
  PROVE  RInv' /\ AllSettled' = AllSettled
<1> DEFINE l == oplog[imp.doc]
           n == Len(imp.stack)
           id == imp.stack[n]
           due == {e \in l.pending : e.missing[1] = id[1] /\ e.missing[2] <= id[2]}
           m == [l EXCEPT !.pending = l.pending \ due]
           x == SubSeq(imp.stack, 1, n - 1)
<1>1. /\ imp.phase = "pending" /\ imp.phase \in Steps /\ UNCHANGED tx
      /\ imp.stack # <<>> /\ imp.todo = {}
  BY DEF PendingPop, Steps
<1>2. /\ ImportType(imp) /\ Holds(imp, l) /\ Queued(l, imp.stack)
      /\ LogType(l) /\ imp.stack \in Seq(ID) /\ imp.doc \in Docs /\ DOMAIN oplog = Docs
      /\ \A k : oplog' = [oplog EXCEPT ![imp.doc] = k] => Reaches(k)
  BY <1>1, Gathered
<1>3. imp' = [imp EXCEPT !.stack = x, !.todo = due]
  BY DEF PendingPop
<1>4. oplog' = [oplog EXCEPT ![imp.doc] = m]
  BY <1>2 DEF PendingPop
<1>5. Reaches(m)
  BY <1>2, <1>4
<1>6. m.store = l.store /\ m.vv = l.vv /\ m.pending = l.pending \ due
  BY <1>2 DEF LogType
<1>7. /\ n \in Nat /\ n > 0 /\ x \in Seq(ID) /\ Len(x) = n - 1
      /\ \A k \in 1 .. n - 1 : x[k] = imp.stack[k]
  <2>1. n \in Nat /\ n > 0
    BY <1>1, <1>2, EmptySeq
  <2>2. \A k \in 1 .. n - 1 : imp.stack[k] \in ID
    BY <1>2, <2>1
  <2> QED BY <1>2, <2>1, <2>2, SubSeqProperties
<1> HIDE DEF x, n, m
<1>8. \A e \in l.pending : e \in due <=> e.missing[1] = id[1] /\ e.missing[2] <= id[2]
  OBVIOUS
<1>9. due \subseteq l.pending
  OBVIOUS
<1> HIDE DEF due
<1>10. /\ imp'.phase = "pending" /\ SameImport(imp, imp') /\ imp'.stack = x
       /\ imp'.todo = due /\ imp'.order = imp.order /\ imp'.waiting = imp.waiting
  BY <1>1, <1>2, <1>3 DEF ImportType, SameImport
<1>11. Queued(m, x)
  <2> SUFFICES ASSUME NEW e \in m.pending
               PROVE  /\ e.missing \in e.ch.deps \cup {<<e.ch.peer, e.ch.start - 1>>}
                      /\ Has(m, e.missing) => Due(x, e.missing)
    BY DEF Queued
  <2>1. e \in l.pending /\ e \notin due
    BY <1>6
  <2>2. /\ e.missing \in e.ch.deps \cup {<<e.ch.peer, e.ch.start - 1>>}
        /\ Has(l, e.missing) => Due(imp.stack, e.missing)
    BY <1>2, <2>1 DEF Queued
  <2>3. ASSUME Due(imp.stack, e.missing) PROVE Due(x, e.missing)
    <3>1. PICK k \in 1 .. n : imp.stack[k][1] = e.missing[1] /\ e.missing[2] <= imp.stack[k][2]
      BY <2>3 DEF Due, n
    <3>2. k # n
      BY <1>8, <2>1, <3>1
    <3>3. k \in 1 .. n - 1
      BY <1>7, <3>1, <3>2
    <3> QED BY <1>7, <3>1, <3>3 DEF Due
  <2> QED BY <1>6, <2>2, <2>3 DEF Has
<1>12. Holds(imp', m)
  <2>1. Brought(imp') = Brought(imp)
    BY <1>10 DEF Brought, SameImport
  <2>2. \A e : Known(l, e) => Known(m, e)
    BY <1>6 DEF Known
  <2>3. l.pending \subseteq m.pending \cup due /\ m.pending \cup due \subseteq l.pending
    BY <1>6, <1>9
  <2> HIDE DEF l
  <2> QED BY <1>1, <1>2, <1>6, <1>10, <2>1, <2>2, <2>3 DEF Holds, SameImport
<1> QED BY <1>1, <1>5, <1>10, <1>11, <1>12, StepGathers DEF Steps

(* Applying a change whose deps are there, at a lamport past theirs,       *)
(* extends the log by it.                                                  *)
LEMMA RemoteApplied ==
  ASSUME NEW l, LogOK(l), NEW c \in Change, ~Known(l, c), c.start <= l.vv[c.peer],
         c.deps \subseteq DOMAIN l.store, NEW n \in Nat, n >= NextLamport(l, c.deps),
         NEW r, r = [c EXCEPT !.lam = n], ~InsertRefused(l, TrimKnown(l, r))
  PROVE  LET m == InsertRemote(l, TrimKnown(l, r))
         IN  LogOK(m) /\ m.vv = [l.vv EXCEPT ![c.peer] = c.end] /\ m.pending = l.pending
<1>1. LogType(l)
  BY DEF LogOK
<1>2. /\ r \in Change
      /\ r.peer = c.peer /\ r.start = c.start /\ r.end = c.end /\ r.deps = c.deps
      /\ \A j \in r.deps \cap DOMAIN l.store : l.store[j].lam < r.lam
  BY <1>1, RaisedLamport
<1>3. ~Known(l, r) /\ r.start <= l.vv[r.peer]
  BY <1>2 DEF Known
<1>4. \A j \in r.deps : j \in DOMAIN l.store /\ l.store[j].lam < r.lam
  BY <1>2
<1> DEFINE m == InsertRemote(l, TrimKnown(l, r))
<1>5. LogOK(m) /\ m.vv = [l.vv EXCEPT ![r.peer] = r.end] /\ m.pending = l.pending
  BY <1>2, <1>3, <1>4, AppliedOK
<1> HIDE DEF m
<1>6. LogOK(m) /\ m.vv = [l.vv EXCEPT ![c.peer] = c.end] /\ m.pending = l.pending
  BY <1>2, <1>5
<1> QED BY <1>6 DEF m

(* The lamport a remote change gets is past those of its deps.             *)
LEMMA RaisedBounds ==
  ASSUME NEW l, LogType(l), NEW c \in Change
  PROVE  /\ NextLamport(l, c.deps) \in Nat
         /\ Larger(c.lam, NextLamport(l, c.deps)) \in Nat
         /\ Larger(c.lam, NextLamport(l, c.deps)) >= NextLamport(l, c.deps)
<1>1. IsFiniteSet(c.deps) /\ c.lam \in Nat
  BY DEF Change
<1>2. NextLamport(l, c.deps) \in Nat
  BY <1>1, NextLamportAbove
<1> QED BY <1>1, <1>2 DEF Larger

(* A change tried again is taken in, or waits for an op that is missing.   *)
LEMMA SettleGathers ==
  ASSUME RInv, AInv', imp.phase \in {"pending", "park"}, NEW c \in Change, NEW next,
         ImportType(next), SameImport(imp, next), next.phase = imp.phase,
         next.stack = imp.stack, IdsOf(c) \subseteq Brought(imp),
         HoldsBut(next, oplog[imp.doc], c), Settle(c, next), UNCHANGED tx
  PROVE  RInv' /\ AllSettled' = AllSettled
<1> DEFINE l == oplog[imp.doc]
<1>1. imp.phase \in Steps /\ next.phase \in Steps /\ imp.phase # "build"
  BY DEF Steps
<1>2. /\ ImportType(imp) /\ imp.doc \in Docs /\ LogOK(l) /\ LogType(l)
      /\ Queued(l, imp.stack) /\ imp.stack \in Seq(ID) /\ LogType(imp.saved)
      /\ \A k : oplog' = [oplog EXCEPT ![imp.doc] = k] => Reaches(k)
      /\ UNCHANGED oplog => Reaches(l)
  BY <1>1, Gathered
<1>3. Brought(next) = Brought(imp)
  BY DEF Brought, SameImport
<1>4. CASE Known(l, c) /\ imp' = next /\ UNCHANGED oplog
  <2>1. Holds(next, l)
    BY <1>4 DEF Holds, HoldsBut
  <2> QED BY <1>1, <1>2, <1>4, <2>1, StepGathers
<1>5. CASE /\ ~Known(l, c)
           /\ \E missing \in MissingFor(l, c) :
                oplog' = [oplog EXCEPT ![imp.doc] = Park(l, c, missing)]
           /\ imp' = next
  <2>1. PICK missing \in MissingFor(l, c) :
          oplog' = [oplog EXCEPT ![imp.doc] = Park(l, c, missing)]
    BY <1>5
  <2> DEFINE m == Park(l, c, missing)
             e == [missing |-> missing, ch |-> c]
  <2>2. Reaches(m)
    BY <1>2, <2>1
  <2>3. e.ch = c /\ e.missing = missing
    OBVIOUS
  <2>4. m.store = l.store /\ m.vv = l.vv /\ m.pending = l.pending \cup {e}
    <3> HIDE DEF e
    <3> QED BY <1>2 DEF Park, LogType, e
  <2>5. missing \in c.deps \cup {<<c.peer, c.start - 1>>} /\ ~Has(l, missing)
    <3>1. l.vv \in [Peers -> Nat] /\ c.peer \in Peers /\ c.start \in Nat
      BY <1>2 DEF LogType, Change
    <3>2. CASE l.vv[c.peer] < c.start
      <4>1. missing = <<c.peer, c.start - 1>>
        BY <2>1, <3>2 DEF MissingFor
      <4>2. ~(c.start - 1 < l.vv[c.peer])
        BY <3>1, <3>2
      <4> QED BY <4>1, <4>2 DEF Has
    <3>3. CASE ~(l.vv[c.peer] < c.start)
      BY <2>1, <3>3 DEF MissingFor
    <3> QED BY <3>2, <3>3
  <2> HIDE DEF m, e, l
  <2>6. Queued(m, imp.stack)
    BY <1>2, <2>3, <2>4, <2>5 DEF Queued, Has
  <2>7. Holds(next, m)
    <3>1. \A k : Known(l, k) => Known(m, k)
      BY <2>4 DEF Known
    <3>2. HoldsBut(next, l, c)
      BY DEF l
    <3> QED BY <1>3, <2>3, <2>4, <3>1, <3>2 DEF Holds, HoldsBut
  <2> QED BY <1>1, <1>5, <2>2, <2>6, <2>7, StepGathers
<1>6. CASE /\ ~Known(l, c)
           /\ MissingFor(l, c) = {}
           /\ ~InsertRefused(l, FromRemote(l, c))
           /\ oplog' = [oplog EXCEPT ![imp.doc] = InsertRemote(l, FromRemote(l, c))]
           /\ imp' = [next EXCEPT !.stack = Append(@, LastID(c))]
  <2> DEFINE m == InsertRemote(l, FromRemote(l, c))
  <2>1. c.start <= l.vv[c.peer] /\ c.deps \subseteq DOMAIN l.store
    BY <1>2, <1>6, NoneMissing
  <2>2. /\ LogOK(m) /\ m.vv = [l.vv EXCEPT ![c.peer] = c.end] /\ m.pending = l.pending
    <3> DEFINE n == Larger(c.lam, NextLamport(l, c.deps))
               r == [c EXCEPT !.lam = n]
    <3>1. FromRemote(l, c) = TrimKnown(l, r)
      BY DEF FromRemote
    <3>2. n \in Nat /\ n >= NextLamport(l, c.deps)
      BY <1>2, RaisedBounds
    <3> HIDE DEF n, l
    <3>3. ~InsertRefused(l, TrimKnown(l, r)) /\ LogOK(l) /\ ~Known(l, c)
          /\ c.start <= l.vv[c.peer] /\ c.deps \subseteq DOMAIN l.store
      BY <1>2, <1>6, <2>1, <3>1 DEF l
    <3> HIDE DEF r, m
    <3>4. LET k == InsertRemote(l, TrimKnown(l, r))
          IN  LogOK(k) /\ k.vv = [l.vv EXCEPT ![c.peer] = c.end] /\ k.pending = l.pending
      BY <3>2, <3>3, RemoteApplied DEF r
    <3>5. m = InsertRemote(l, TrimKnown(l, r))
      BY <3>1 DEF m, l
    <3> QED BY <3>4, <3>5 DEF l
  <2>3. Reaches(m)
    BY <1>2, <1>6
  <2> HIDE DEF m
  <2>4. /\ ImportType(imp') /\ SameImport(next, imp') /\ imp'.phase = next.phase
        /\ SameReplay(next, imp') /\ imp'.todo = next.todo /\ imp'.waiting = next.waiting
    BY <1>6, PushStack
  <2>5. imp'.stack = Append(imp.stack, LastID(c))
    BY <1>6 DEF ImportType
  <2>6. Queued(m, imp'.stack)
    <3> DEFINE s == imp.stack
    <3>1. ~Known(l, c) /\ Queued(l, s) /\ s \in Seq(ID) /\ LogOK(l)
      BY <1>2, <1>6
    <3> HIDE DEF l, s
    <3>2. Queued(m, Append(s, LastID(c)))
      BY <2>1, <2>2, <3>1, QueuedTaken
    <3> QED BY <2>5, <3>2 DEF s
  <2>7. Holds(imp', m)
    <3>1. LogType(next.saved) /\ HoldsBut(next, l, c) /\ IdsOf(c) \subseteq Brought(next)
      BY <1>2, <1>3 DEF SameImport
    <3> HIDE DEF l
    <3> QED BY <1>2, <1>6, <2>1, <2>2, <2>4, <3>1, HoldsTaken DEF SameImport, SameReplay
  <2>8. SameImport(imp, imp')
    BY <2>4 DEF SameImport
  <2> QED BY <1>1, <2>3, <2>4, <2>6, <2>7, <2>8, StepGathers
<1> QED BY <1>4, <1>5, <1>6 DEF Settle

(* A due change of the pending set is tried again.                         *)
LEMMA PendingTryGathers ==
  ASSUME RInv, AInv', PendingTry
  PROVE  RInv' /\ AllSettled' = AllSettled
<1> DEFINE l == oplog[imp.doc]
<1>1. imp.phase = "pending" /\ imp.phase \in Steps /\ UNCHANGED tx
  BY DEF PendingTry, Steps
<1>2. ImportType(imp) /\ Holds(imp, l)
  BY <1>1, Gathered
<1>3. PICK e \in imp.todo : Settle(e.ch, [imp EXCEPT !.todo = @ \ {e}])
  BY DEF PendingTry
<1> DEFINE x == imp.todo \ {e}
           n == [imp EXCEPT !.todo = x]
<1>4. x \in SUBSET Waiting /\ e.ch \in Change
  BY <1>2 DEF ImportType, Waiting
<1>5. /\ \A f \in x : f \in imp.todo
      /\ \A f \in imp.todo : f = e \/ f \in x
  OBVIOUS
<1>6. Settle(e.ch, n)
  BY <1>3
<1> HIDE DEF x
<1>7. /\ ImportType(n) /\ SameImport(imp, n) /\ SameReplay(imp, n) /\ n.phase = imp.phase
      /\ n.waiting = imp.waiting /\ n.todo = x /\ n.stack = imp.stack
  <2>1. n.stack = imp.stack /\ n.waiting = imp.waiting /\ n.todo = x
    BY <1>2 DEF ImportType
  <2> QED BY <1>2, <1>4, <2>1, SetTodo
<1> HIDE DEF n
<1>8. Brought(n) = Brought(imp)
  BY <1>7 DEF Brought, SameImport
<1>9. IdsOf(e.ch) \subseteq Brought(imp)
  BY <1>2, <1>3 DEF Holds
<1>10. HoldsBut(n, l, e.ch)
  <2>1. ASSUME NEW w \in imp.saved.pending
        PROVE  w.ch = e.ch \/ Known(l, w.ch) \/ \E f \in l.pending \cup x : f.ch = w.ch
    <3>1. CASE Known(l, w.ch)
      BY <3>1
    <3>2. CASE \E f \in l.pending \cup imp.todo : f.ch = w.ch
      BY <1>5, <3>2
    <3> QED BY <1>2, <3>1, <3>2 DEF Holds
  <2>2. n.saved = imp.saved /\ n.order = imp.order /\ n.waiting = imp.waiting /\ n.todo = x
    BY <1>7 DEF SameImport, SameReplay
  <2>3. \A f \in l.pending \cup x : f \in l.pending \cup imp.todo
    BY <1>5
  <2> HIDE DEF l
  <2> QED BY <1>2, <1>8, <2>1, <2>2, <2>3 DEF Holds, HoldsBut
<1> QED BY <1>1, <1>4, <1>6, <1>7, <1>9, <1>10, SettleGathers

(* A change of the blob that was set aside is tried again.                 *)
LEMMA ParkStepGathers ==
  ASSUME RInv, AInv', ParkStep
  PROVE  RInv' /\ AllSettled' = AllSettled
<1> DEFINE l == oplog[imp.doc]
           x == Tail(imp.waiting)
           n == [imp EXCEPT !.waiting = x]
           c == Head(imp.waiting)
<1>1. imp.phase = "park" /\ imp.phase \in Steps /\ UNCHANGED tx
  BY DEF ParkStep, Steps
<1>2. ImportType(imp) /\ Holds(imp, l)
  BY <1>1, Gathered
<1>3. imp.waiting \in Seq(Change) /\ imp.waiting # <<>>
  BY <1>2 DEF ImportType, ParkStep
<1>4. /\ x \in Seq(Change) /\ c \in Change /\ c = imp.waiting[1]
      /\ Len(x) = Len(imp.waiting) - 1 /\ \A i \in 1 .. Len(x) : x[i] = imp.waiting[i + 1]
      /\ Len(imp.waiting) \in Nat /\ Len(imp.waiting) > 0
  BY <1>3, HeadTailProperties
<1>5. Settle(c, n)
  BY DEF ParkStep
<1> HIDE DEF x, c
<1>6. /\ ImportType(n) /\ SameImport(imp, n) /\ SameReplay(imp, n) /\ n.phase = imp.phase
      /\ n.waiting = x /\ n.todo = imp.todo /\ n.stack = imp.stack
  <2>1. n.stack = imp.stack /\ n.waiting = x /\ n.todo = imp.todo
    BY <1>2 DEF ImportType
  <2> QED BY <1>2, <1>4, <2>1, SetWaiting
<1> HIDE DEF n
<1>7. Brought(n) = Brought(imp)
  BY <1>6 DEF Brought, SameImport
<1>8. IdsOf(c) \subseteq Brought(imp)
  BY <1>2, <1>4 DEF Holds
<1>9. \A i \in 1 .. Len(x) : IdsOf(x[i]) \subseteq Brought(imp)
  <2> SUFFICES ASSUME NEW i \in 1 .. Len(x) PROVE IdsOf(x[i]) \subseteq Brought(imp)
    OBVIOUS
  <2> DEFINE w == Len(imp.waiting)
  <2>1. w \in Nat /\ i \in 1 .. w - 1 /\ x[i] = imp.waiting[i + 1]
    BY <1>4
  <2> HIDE DEF w
  <2>2. i + 1 \in 1 .. w
    BY <2>1
  <2> QED BY <1>2, <2>1, <2>2 DEF Holds, w
<1>10. HoldsBut(n, l, c)
  <2>1. n.saved = imp.saved /\ n.order = imp.order /\ n.waiting = x /\ n.todo = imp.todo
    BY <1>6 DEF SameImport, SameReplay
  <2> HIDE DEF l
  <2> QED BY <1>2, <1>7, <1>9, <2>1 DEF Holds, HoldsBut
<1> QED BY <1>1, <1>4, <1>5, <1>6, <1>8, <1>10, SettleGathers

(* The first pass skips a change, sets it aside or applies it.             *)
LEMMA MainStepGathers ==
  ASSUME RInv, AInv', MainStep
  PROVE  RInv' /\ AllSettled' = AllSettled
<1> DEFINE l == oplog[imp.doc]
           c == imp.order[imp.idx]
           r == [c EXCEPT !.lam = NextLamport(l, c.deps)]
           next == [imp EXCEPT !.idx = @ + 1]
<1>1. imp.phase = "main" /\ imp.phase \in Steps /\ imp.idx <= Len(imp.order) /\ UNCHANGED tx
  BY DEF MainStep, Steps
<1>2. /\ ImportType(imp) /\ IInv /\ LogOK(l) /\ LogType(l) /\ Holds(imp, l)
      /\ Queued(l, imp.stack) /\ imp.stack \in Seq(ID) /\ LogType(imp.saved)
      /\ ImportFits(imp, l, tx[imp.doc])
      /\ \A k : oplog' = [oplog EXCEPT ![imp.doc] = k] => Reaches(k)
      /\ UNCHANGED oplog => Reaches(l)
  BY <1>1, Gathered
<1>3. imp.idx \in 1 .. Len(imp.order) /\ imp.idx \in Nat
  <2>1. imp.idx \in 1 .. Len(imp.order) + 1
    BY <1>1, <1>2 DEF ImportFits, GoesThrough
  <2>2. Len(imp.order) \in Nat
    BY <1>2 DEF ImportType
  <2> QED BY <1>1, <2>1, <2>2
<1>4. c \in Change /\ IdsOf(c) \subseteq Brought(imp)
  BY <1>2, <1>3 DEF ImportType, Holds
<1>5. /\ ImportType(next) /\ SameImport(imp, next) /\ next.phase = "main"
      /\ next.order = imp.order /\ next.todo = imp.todo /\ next.waiting = imp.waiting
      /\ next.stack = imp.stack
  BY <1>1, <1>2, <1>3, SetIdx
<1>6. Brought(next) = Brought(imp)
  BY <1>5 DEF Brought, SameImport
<1> HIDE DEF next
<1>7. CASE imp' = next /\ UNCHANGED oplog
  <2>1. Holds(next, l)
    BY <1>2, <1>5, HoldsSame DEF SameImport
  <2> QED BY <1>1, <1>2, <1>5, <1>7, <2>1, StepGathers
<1>8. CASE /\ imp' = [next EXCEPT !.waiting = Append(@, c), !.stack = Append(@, LastID(c))]
           /\ UNCHANGED oplog
  <2> DEFINE w == Append(imp.waiting, c)
             n == [next EXCEPT !.waiting = w]
  <2>1. /\ w \in Seq(Change) /\ Len(w) = Len(imp.waiting) + 1 /\ Len(imp.waiting) \in Nat
        /\ w[Len(imp.waiting) + 1] = c /\ \A i \in 1 .. Len(imp.waiting) : w[i] = imp.waiting[i]
    <3>1. imp.waiting \in Seq(Change)
      BY <1>2 DEF ImportType
    <3> HIDE DEF c
    <3> QED BY <1>4, <3>1, AppendProperties
  <2> HIDE DEF w
  <2>2. /\ ImportType(n) /\ SameImport(next, n) /\ SameReplay(next, n) /\ n.phase = "main"
        /\ n.todo = next.todo /\ n.waiting = w /\ n.stack = imp.stack
    <3>1. n.waiting = w /\ n.stack = next.stack
      BY <1>5 DEF ImportType
    <3> QED BY <1>5, <2>1, <3>1, SetWaiting
  <2>3. imp' = [n EXCEPT !.stack = Append(@, LastID(c))]
    BY <1>5, <1>8 DEF w
  <2> HIDE DEF n, c
  <2>4. /\ SameImport(n, imp') /\ SameReplay(n, imp') /\ imp'.phase = "main"
        /\ imp'.todo = n.todo /\ imp'.waiting = w
    BY <1>4, <2>2, <2>3, PushStack
  <2>5. imp'.stack = Append(imp.stack, LastID(c))
    BY <2>2, <2>3 DEF ImportType
  <2>6. \A i \in 1 .. Len(w) : IdsOf(w[i]) \subseteq Brought(imp)
    <3> SUFFICES ASSUME NEW i \in 1 .. Len(w) PROVE IdsOf(w[i]) \subseteq Brought(imp)
      OBVIOUS
    <3>1. i = Len(imp.waiting) + 1 \/ i \in 1 .. Len(imp.waiting)
      BY <2>1
    <3> QED BY <1>2, <1>4, <2>1, <3>1 DEF Holds
  <2>7. SameImport(imp, imp')
    BY <1>5, <2>2, <2>4 DEF SameImport
  <2>8. Brought(imp') = Brought(imp)
    BY <2>7 DEF Brought, SameImport
  <2>9. imp'.order = imp.order /\ imp'.todo = imp.todo /\ imp'.saved = imp.saved
    BY <1>5, <2>2, <2>4, <2>7 DEF SameImport, SameReplay
  <2>10. Holds(imp', l)
    <3> HIDE DEF l
    <3> QED BY <1>2, <2>4, <2>6, <2>8, <2>9 DEF Holds
  <2>11. Queued(l, imp'.stack)
    <3> DEFINE x == Append(imp.stack, LastID(c))
    <3>1. LastID(c) \in ID
      BY <1>4 DEF LastID, ID, Change
    <3>2. /\ Len(x) = Len(imp.stack) + 1 /\ Len(imp.stack) \in Nat
          /\ \A k \in 1 .. Len(imp.stack) : x[k] = imp.stack[k]
      BY <1>2, <3>1, AppendProperties
    <3> HIDE DEF x
    <3>3. \A i : Due(imp.stack, i) => Due(x, i)
      <4> SUFFICES ASSUME NEW i, NEW k \in 1 .. Len(imp.stack),
                          imp.stack[k][1] = i[1], i[2] <= imp.stack[k][2]
                   PROVE  Due(x, i)
        BY DEF Due
      <4>1. k \in 1 .. Len(x)
        BY <3>2
      <4> QED BY <3>2, <4>1 DEF Due
    <3>4. Queued(l, x)
      BY <1>2, <3>3 DEF Queued
    <3> QED BY <2>5, <3>4 DEF x
  <2> QED BY <1>1, <1>2, <1>8, <2>4, <2>7, <2>10, <2>11, StepGathers
<1>9. CASE /\ ~Known(l, c)
           /\ c.deps \subseteq {i \in DOMAIN l.store : Has(l, i)}
           /\ ~InsertRefused(l, TrimKnown(l, r))
           /\ oplog' = [oplog EXCEPT ![imp.doc] = InsertRemote(l, TrimKnown(l, r))]
           /\ imp' = [next EXCEPT !.stack = Append(@, LastID(c))]
  <2>1. c.start <= l.vv[c.peer] /\ c.deps \subseteq DOMAIN l.store
    BY <1>1, <1>2, <1>9, ReadyStarts
  <2> DEFINE m == InsertRemote(l, TrimKnown(l, r))
  <2>2. LogOK(m) /\ m.vv = [l.vv EXCEPT ![c.peer] = c.end] /\ m.pending = l.pending
    <3> DEFINE n == NextLamport(l, c.deps)
    <3>1. n \in Nat /\ n >= n
      BY <1>2, <1>4, RaisedBounds
    <3>2. r = [c EXCEPT !.lam = n]
      OBVIOUS
    <3> HIDE DEF n, r, m
    <3>3. ~Known(l, c) /\ ~InsertRefused(l, TrimKnown(l, r)) /\ LogOK(l) /\ c \in Change
      BY <1>2, <1>4, <1>9 DEF r
    <3>4. n >= NextLamport(l, c.deps)
      BY <3>1 DEF n
    <3> HIDE DEF l, c
    <3>5. LET k == InsertRemote(l, TrimKnown(l, r))
          IN  LogOK(k) /\ k.vv = [l.vv EXCEPT ![c.peer] = c.end] /\ k.pending = l.pending
      BY <2>1, <3>1, <3>2, <3>3, <3>4, RemoteApplied
    <3> QED BY <3>5 DEF m
  <2>3. Reaches(m)
    BY <1>2, <1>9
  <2> HIDE DEF m, c
  <2>4. /\ SameImport(next, imp') /\ SameReplay(next, imp') /\ imp'.phase = "main"
        /\ imp'.todo = next.todo /\ imp'.waiting = next.waiting
    BY <1>4, <1>5, <1>9, PushStack
  <2>5. imp'.stack = Append(imp.stack, LastID(c))
    BY <1>5, <1>9 DEF ImportType
  <2>6. Queued(m, imp'.stack)
    <3> DEFINE s == imp.stack
    <3>1. ~Known(l, c) /\ Queued(l, s) /\ s \in Seq(ID) /\ LogOK(l) /\ c \in Change
      BY <1>2, <1>4, <1>9
    <3> HIDE DEF l, s
    <3>2. Queued(m, Append(s, LastID(c)))
      BY <2>1, <2>2, <3>1, QueuedTaken
    <3> QED BY <2>5, <3>2 DEF s
  <2>7. Holds(imp', m)
    <3>1. HoldsBut(next, l, c)
      <4>1. next.saved = imp.saved
        BY <1>5 DEF SameImport
      <4> HIDE DEF l
      <4> QED BY <1>2, <1>5, <1>6, <4>1 DEF Holds, HoldsBut
    <3>2. LogType(next.saved) /\ IdsOf(c) \subseteq Brought(next)
      BY <1>2, <1>4, <1>5, <1>6 DEF SameImport
    <3> HIDE DEF l
    <3> QED BY <1>2, <1>4, <1>9, <2>1, <2>2, <2>4, <3>1, <3>2, HoldsTaken DEF SameImport, SameReplay
  <2>8. SameImport(imp, imp')
    BY <1>5, <2>4 DEF SameImport
  <2> QED BY <1>1, <2>3, <2>4, <2>6, <2>7, <2>8, StepGathers
<1> QED BY <1>7, <1>8, <1>9 DEF MainStep, next

-----------------------------------------------------------------------------
(* The abstract state of the documents.                                    *)

Got == [d \in Docs |-> Reached(Settled(d))]

Shown == [d \in Docs |-> st[d] \ Uncommitted(d)]

(* What a document shows but for its open transaction is its settled log.  *)
ShowsSettled == IInv => \A d \in Docs : Shown[d] = DOMAIN Settled(d).store

(* No operation of an open transaction is in the log.                      *)
LEMMA ShownIs ==
  ShowsSettled
<1> SUFFICES ASSUME IInv, NEW d \in Docs PROVE Shown[d] = DOMAIN Settled(d).store
  BY DEF ShowsSettled
<1>1. Shows(d) /\ LogOK(oplog[d]) /\ TxFits(oplog[d], d, tx[d])
  BY DEF IInv
<1>2. Uncommitted(d) \cap DOMAIN Settled(d).store = {}
  <2>1. CASE tx[d].open
    <3>1. Settled(d) = oplog[d]
      BY <2>1 DEF Settled, IInv, ImportFits
    <3>2. tx[d].start = oplog[d].vv[PeerOf[d]] /\ tx[d].start \in Nat
      BY <1>1, <2>1 DEF TxFits, Transaction
    <3>3. oplog[d].vv \in [Peers -> Nat] /\ DOMAIN oplog[d].store = Below(oplog[d].vv)
      BY <1>1 DEF LogOK, LogType
    <3> SUFFICES ASSUME NEW i \in Uncommitted(d), i \in DOMAIN oplog[d].store PROVE FALSE
      BY <3>1
    <3>4. i[1] = PeerOf[d] /\ i[2] >= tx[d].start
      BY DEF Uncommitted
    <3>5. i[2] < oplog[d].vv[i[1]]
      BY <3>3, BelowMember
    <3>6. i[2] \in Nat
      BY <3>3, BelowMember DEF ID
    <3> QED BY <3>2, <3>4, <3>5, <3>6
  <2>2. CASE ~tx[d].open
    <3>1. NoTx.start .. NoTx.next - 1 = {}
      BY DEF NoTx
    <3>2. Uncommitted(d) = {}
      BY <1>1, <2>2, <3>1 DEF TxFits, Uncommitted
    <3> QED BY <3>2
  <2> QED BY <2>1, <2>2
<1> QED BY <1>1, <1>2 DEF Shows, Shown

(* Every op made is some document's original and has its deps.             *)
DepsKnown ==
  World(AllSettled) =>
    /\ \A i \in Made : \E a : Original(AllSettled, i, a)
    /\ \A i, a : Original(AllSettled, i, a) => i \in Made /\ Dep[i] = a.deps

(* DepsKnown, in the form that holds in the next state too.                *)
LEMMA DepsAre ==
  ASSUME OwnPeers
  PROVE  DepsKnown
BY MadeIsOriginal, DepOfOriginal DEF DepsKnown

(* Logs that only grow keep what was made and its deps.                    *)
LEMMA DepStays ==
  ASSUME OwnPeers, AInv, AInv', \A d \in Docs : Kept(AllSettled[d], AllSettled'[d])
  PROVE  /\ Made \subseteq Made' /\ \A i \in Made : Dep'[i] = Dep[i]
<1>1. DepsKnown /\ DepsKnown'
  BY DepsAre, PTL
<1>2. World(AllSettled) /\ World(AllSettled)'
  BY DEF AInv
<1>3. \A i, a : Original(AllSettled, i, a) => Original(AllSettled', i, a)
  BY DEF Original, Kept
<1> SUFFICES ASSUME NEW i \in Made PROVE i \in Made' /\ Dep'[i] = Dep[i]
  OBVIOUS
<1>4. PICK a : Original(AllSettled, i, a)
  BY <1>1, <1>2 DEF DepsKnown
<1>5. Original(AllSettled', i, a)
  BY <1>3, <1>4
<1> QED BY <1>1, <1>2, <1>4, <1>5 DEF DepsKnown

(* The abstract variables are functions of the settled logs.               *)
LEMMA SameMaps ==
  ASSUME OwnPeers, AInv, AInv', AllSettled' = AllSettled
  PROVE  UNCHANGED CD!vars
<1>1. \A d \in Docs : Settled(d)' = Settled(d)
  <2>1. \A d \in Docs : AllSettled[d] = Settled(d)
    BY DEF AllSettled
  <2>2. \A d \in Docs : AllSettled'[d] = Settled(d)'
    BY DEF AllSettled
  <2> QED BY <2>1, <2>2
<1>2. Made' = Made
  BY <1>1 DEF Made
<1>3. Dep' = Dep
  <2>1. \A i \in Made : Dep'[i] = Dep[i]
    BY DepStays DEF Kept
  <2>2. Dep = [i \in Made |-> Dep[i]] /\ Dep' = [i \in Made' |-> Dep'[i]]
    BY DEF Dep
  <2> QED BY <1>2, <2>1, <2>2
<1>4. Got' = Got
  BY <1>1 DEF Got, Reached
<1>5. Shown' = Shown
  <2>1. ShowsSettled /\ ShowsSettled'
    BY ShownIs, PTL
  <2>2. \A d \in Docs : Shown'[d] = Shown[d]
    BY <1>1, <2>1 DEF ShowsSettled, AInv
  <2>3. Shown = [d \in Docs |-> Shown[d]] /\ Shown' = [d \in Docs |-> Shown'[d]]
    BY DEF Shown
  <2> QED BY <2>2, <2>3
<1> QED BY <1>3, <1>4, <1>5 DEF CD!vars, Dep, Got, Shown, Reached, Uncommitted

-----------------------------------------------------------------------------
(* The steps that are one of the abstract specification's.                 *)

(* The counters of a peer's ops made number as many as its log has.        *)
LEMMA MadeByPeer ==
  ASSUME OwnPeers, World(AllSettled), NEW d \in Docs
  PROVE  LET p == PeerOf[d]
             n == AllSettled[d].vv[p]
         IN  /\ {i \in Made : i[1] = p} = {p} \X (0 .. n - 1)
             /\ Cardinality({i \in Made : i[1] = p}) = n
             /\ n \in Nat
<1> DEFINE p == PeerOf[d]
           l == AllSettled[d]
           n == l.vv[p]
<1>1. LogOK(l) /\ p \in Peers
  BY ConstantsAssumption DEF World
<1>2. l.vv \in [Peers -> Nat] /\ DOMAIN l.store = Below(l.vv) /\ n \in Nat
  BY <1>1 DEF LogOK, LogType
<1>3. ASSUME NEW i \in Made, i[1] = p PROVE i \in {p} \X (0 .. n - 1)
  <2>1. PICK a : Original(AllSettled, i, a)
    BY MadeIsOriginal
  <2>2. i \in DOMAIN l.store
    BY <1>3, <2>1 DEF Original, OwnPeers
  <2> HIDE DEF l
  <2>3. i \in ID /\ i[2] < n
    BY <1>2, <1>3, <2>2, BelowMember
  <2> QED BY <1>2, <1>3, <2>3 DEF ID
<1>4. ASSUME NEW i \in {p} \X (0 .. n - 1) PROVE i \in Made /\ i[1] = p
  <2>1. i \in ID /\ i[1] = p /\ i[2] < l.vv[i[1]]
    BY <1>1, <1>2 DEF ID
  <2>2. i \in DOMAIN l.store
    <3> HIDE DEF l
    <3> QED BY <1>2, <2>1, BelowMember
  <2>3. i \in DOMAIN Settled(d).store
    BY <2>2 DEF AllSettled
  <2> QED BY <2>1, <2>3 DEF Made
<1> HIDE DEF n
<1>5. {i \in Made : i[1] = p} = {p} \X (0 .. n - 1)
  BY <1>3, <1>4
<1>6. Cardinality({p} \X (0 .. n - 1)) = n
  <2> DEFINE I == 0 .. n - 1
  <2>1. IsFiniteSet(I) /\ Cardinality(I) = n
    BY <1>2, FS_Interval
  <2>2. IsFiniteSet({p}) /\ Cardinality({p}) = 1
    BY FS_Singleton
  <2> HIDE DEF I
  <2>3. Cardinality({p} \X I) = 1 * n
    BY <2>1, <2>2, FS_Product
  <2> QED BY <1>2, <2>3 DEF I
<1> QED BY <1>2, <1>5, <1>6 DEF n

(* The frontiers are the heads of the history.                             *)
LEMMA FrontiersMap ==
  ASSUME OwnPeers, World(AllSettled), LinedWorld(AllSettled), NEW d \in Docs
  PROVE  LET l == AllSettled[d] IN CD!Heads(DOMAIN l.store) = l.fr
<1> DEFINE l == AllSettled[d]
<1>1. LogOK(l) /\ Copies(AllSettled, l)
  BY DEF World, TrueLog
<1>2. AllLined(l)
  BY <1>1, CopiesLined
<1>3. \A j \in DOMAIN l.store : Dep[j] = l.store[j].deps
  BY <1>1, DepOfOriginal DEF Copies
<1>4. CD!Heads(DOMAIN l.store)
        = {i \in DOMAIN l.store : \A j \in DOMAIN l.store : i \notin Dep[j]}
  BY DEF CD!Heads, Dep
<1> HIDE DEF l
<1>5. \A i \in l.fr : i \in DOMAIN l.store /\ \A j \in DOMAIN l.store : i \notin l.store[j].deps
  BY <1>1 DEF LogOK, Maximal
<1>6. \A i \in DOMAIN l.store : i \notin l.fr => \E j \in DOMAIN l.store : i \in l.store[j].deps
  BY <1>1, <1>2, NotAHead
<1>7. {i \in DOMAIN l.store : \A j \in DOMAIN l.store : i \notin Dep[j]} = l.fr
  BY <1>3, <1>5, <1>6
<1> QED BY <1>4, <1>7 DEF l

(* No change waits for an op of the document's own.                        *)
LEMMA WaitsForOthers ==
  ASSUME OwnPeers, World(AllSettled), NEW d \in Docs,
         NEW w \in AllSettled[d].pending, Waits(AllSettled[d], w)
  PROVE  w.missing \in ID /\ w.missing[1] # PeerOf[d]
<1> DEFINE l == AllSettled[d]
           c == w.ch
           first == <<c.peer, c.start>>
<1>1. LogOK(l) /\ TrueChange(AllSettled, c)
  BY DEF World, TrueLog
<1>2. w.missing \in ID /\ c \in Change
  BY <1>1 DEF LogOK, LogType, Waiting
<1>3. l.vv \in [Peers -> Nat] /\ DOMAIN l.store = Below(l.vv)
  BY <1>1 DEF LogOK, LogType
<1>4. c.peer \in Peers /\ c.start \in Nat /\ c.end \in Nat /\ c.start < c.end
  BY <1>2 DEF Change
<1>5. first \in IdsOf(c) /\ first[1] = c.peer /\ first[2] = c.start
  BY <1>4 DEF IdsOf
<1>6. AtomsOf(c)[first].deps = c.deps
  <2> HIDE DEF first, c
  <2>1. AtomsOf(c)[first].deps = DepsAt(c, first[2])
    BY <1>2, <1>5, AtomsOfChange
  <2> QED BY <1>5, <2>1 DEF DepsAt
<1>7. Original(AllSettled, first, AtomsOf(c)[first])
  BY <1>1, <1>5 DEF TrueChange
<1> HIDE DEF l, c, first
<1>8. ASSUME NEW i \in ID, i[1] = PeerOf[d], i \in Made PROVE i \in DOMAIN l.store
  <2>1. PICK a : Original(AllSettled, i, a)
    BY <1>8, MadeIsOriginal
  <2> QED BY <1>8, <2>1 DEF Original, OwnPeers, l
<1> SUFFICES ASSUME w.missing[1] = PeerOf[d] PROVE FALSE
  BY <1>2
<1>9. ~(w.missing \in DOMAIN l.store)
  BY <1>2, <1>3, BelowMember DEF Waits, Has, l
<1>10. CASE w.missing \in c.deps
  <2>1. w.missing \in Made
    BY <1>6, <1>7, <1>10, DepOfOriginal
  <2> QED BY <1>2, <1>8, <1>9, <2>1
<1>11. CASE w.missing = <<c.peer, c.start - 1>>
  <2>1. c.peer = PeerOf[d] /\ w.missing[1] = c.peer /\ w.missing[2] = c.start - 1
    BY <1>11
  <2>2. first \in Made /\ first \in ID
    BY <1>4, <1>7, DepOfOriginal DEF first, ID
  <2>3. first \in DOMAIN l.store
    BY <1>5, <1>8, <2>1, <2>2
  <2>4. c.start < l.vv[c.peer]
    BY <1>3, <1>5, <2>3, BelowMember
  <2>5. w.missing[2] < l.vv[w.missing[1]]
    BY <1>3, <1>4, <2>1, <2>4
  <2> QED BY <1>2, <1>3, <1>9, <2>5, BelowMember
<1> QED BY <1>10, <1>11 DEF Waits, c

-----------------------------------------------------------------------------
(* Commits.                                                                *)

Bounded == \A p \in Peers : Budget[p] <= MaxCounter

(* The logs after a commit of document d's transaction.                    *)
LEMMA Committed ==
  ASSUME OwnPeers, RInv, imp.phase \in {"idle", "recv"},
         NEW d \in Docs, NEW msg \in Msgs, NEW ts \in Times, CloseTx(d, msg, ts),
         \A e \in Docs : Settled(e)' = oplog'[e]
  PROVE  /\ \A e \in Docs : AllSettled[e] = oplog[e] /\ AllSettled'[e] = oplog'[e]
         /\ \A e \in Docs \ {d} : oplog'[e] = oplog[e]
         /\ oplog'[d] = Closed(d, msg, ts)
         /\ LogOK(oplog'[d]) /\ oplog'[d].pending = oplog[d].pending
         /\ DOMAIN oplog'[d].store = DOMAIN oplog[d].store \cup Uncommitted(d)
         /\ \A e \in Docs : Kept(AllSettled[e], AllSettled'[e])
         /\ tx' = [tx EXCEPT ![d] = NoTx]
<1>1. AInv /\ IInv /\ DOMAIN oplog = Docs
  BY DEF RInv, AInv, IInv
<1>2. \A e \in Docs : AllSettled[e] = oplog[e] /\ AllSettled'[e] = oplog'[e]
  BY SettledLogs DEF AllSettled
<1>3. /\ LogOK(Closed(d, msg, ts)) /\ Kept(oplog[d], Closed(d, msg, ts))
      /\ Closed(d, msg, ts).pending = oplog[d].pending
      /\ DOMAIN Closed(d, msg, ts).store = DOMAIN oplog[d].store \cup Uncommitted(d)
  BY <1>1, ClosedOK
<1>4. /\ oplog'[d] = Closed(d, msg, ts) /\ \A e \in Docs \ {d} : oplog'[e] = oplog[e]
      /\ tx' = [tx EXCEPT ![d] = NoTx]
  BY <1>1 DEF CloseTx
<1>5. \A e \in Docs : Kept(AllSettled[e], AllSettled'[e])
  BY <1>2, <1>3, <1>4 DEF Kept
<1> QED BY <1>2, <1>3, <1>4, <1>5

(* A commit keeps the lines, and releases nothing that waits.              *)
LEMMA CommitKeeps ==
  ASSUME OwnPeers, RInv, imp.phase \in {"idle", "recv"},
         NEW d \in Docs, NEW msg \in Msgs, NEW ts \in Times, CloseTx(d, msg, ts),
         \A e \in Docs : Settled(e)' = oplog'[e]
  PROVE  Still'
<1> DEFINE l == oplog[d]
           m == oplog'[d]
<1>1. /\ \A e \in Docs : AllSettled[e] = oplog[e] /\ AllSettled'[e] = oplog'[e]
      /\ \A e \in Docs \ {d} : oplog'[e] = oplog[e]
      /\ m = Closed(d, msg, ts) /\ LogOK(m) /\ m.pending = l.pending
      /\ DOMAIN m.store = DOMAIN l.store \cup Uncommitted(d)
      /\ tx' = [tx EXCEPT ![d] = NoTx]
  BY Committed
<1>2. IInv /\ World(AllSettled) /\ LinedWorld(AllSettled)
  BY DEF RInv, AInv, Still
<1>3. LogOK(l) /\ Copies(AllSettled, l) /\ Lined(l, PeerOf[d])
  BY <1>1, <1>2 DEF World, TrueLog, LinedWorld
<1>4. \A e \in Docs : Settled(e) = oplog[e]
  BY <1>1 DEF AllSettled
<1>5. Lined(m, PeerOf[d])
  <2>1. CASE tx[d].open /\ tx[d].start < tx[d].next
    <3> DEFINE c == TxChange(d, msg, ts)
    <3>1. Fits(l, c) /\ c.deps = l.fr /\ c.peer = PeerOf[d] /\ m = InsertLocal(l, c)
      BY <1>1, <1>2, <2>1, TxChangeFits
    <3> HIDE DEF c, l, m
    <3>2. AllLined(l)
      BY <1>2, <1>3, CopiesLined
    <3>3. Lined(InsertLocal(l, c), c.peer)
      BY <1>3, <3>1, <3>2, CommitLined
    <3> QED BY <3>1, <3>3
  <2>2. CASE ~(tx[d].open /\ tx[d].start < tx[d].next)
    <3>1. m = l
      BY <1>1, <2>2 DEF Closed
    <3> QED BY <1>3, <3>1
  <2> QED BY <2>1, <2>2
<1>6. ASSUME NEW e \in Docs PROVE Lined(AllSettled'[e], PeerOf[e])
  <2>1. CASE e = d
    BY <1>1, <1>5, <2>1
  <2>2. CASE e # d
    BY <1>1, <1>2, <2>2 DEF LinedWorld
  <2> QED BY <2>1, <2>2
<1>7. ASSUME NEW w \in m.pending PROVE Waits(m, w)
  <2>1. w \in l.pending /\ Waits(l, w)
    BY <1>1, <1>4, <1>7 DEF RInv, Still
  <2>2. w.missing \in ID /\ w.missing[1] # PeerOf[d]
    BY <1>1, <1>2, <2>1, WaitsForOthers
  <2>3. /\ l.vv \in [Peers -> Nat] /\ DOMAIN l.store = Below(l.vv)
        /\ m.vv \in [Peers -> Nat] /\ DOMAIN m.store = Below(m.vv)
    BY <1>1, <1>3 DEF LogOK, LogType
  <2>4. w.missing \notin Uncommitted(d)
    BY <2>2 DEF Uncommitted
  <2>5. w.missing \notin DOMAIN l.store
    BY <2>1, <2>2, <2>3, BelowMember DEF Waits, Has
  <2>6. w.missing \notin DOMAIN m.store
    BY <1>1, <2>4, <2>5
  <2>7. ~Has(m, w.missing)
    BY <2>2, <2>3, <2>6, BelowMember DEF Has
  <2> QED BY <2>1, <2>7 DEF Waits
<1>8. ASSUME NEW e \in Docs, NEW w \in Settled(e)'.pending PROVE Waits(Settled(e)', w)
  <2>1. CASE e = d
    BY <1>7, <1>8, <2>1
  <2>2. CASE e # d
    BY <1>1, <1>4, <1>8, <2>2 DEF RInv, Still
  <2> QED BY <2>1, <2>2
<1>9. ASSUME NEW e \in Docs, tx'[e].start < tx'[e].next PROVE tx'[e].next <= MaxCounter
  <2>1. DOMAIN tx = Docs
    BY <1>2 DEF IInv
  <2>2. CASE e = d
    BY <1>1, <1>9, <2>1, <2>2 DEF NoTx
  <2>3. CASE e # d
    BY <1>1, <1>9, <2>1, <2>3 DEF RInv, Still
  <2> QED BY <2>2, <2>3
<1>10. LinedWorld(AllSettled')
  BY <1>6 DEF LinedWorld
<1> QED BY <1>8, <1>9, <1>10 DEF Still

(* The ops of d's peer made so far, the n after them, and their deps.      *)
MadeBy(d) == Cardinality({i \in Made : i[1] = PeerOf[d]})

NextOps(d, n) == {PeerOf[d]} \X (MadeBy(d) .. MadeBy(d) + n - 1)

NewDeps(d, i) ==
  IF i[2] = MadeBy(d) THEN CD!Heads(Shown[d]) ELSE {<<PeerOf[d], i[2] - 1>>}

(* What a commit has to do to be the abstract specification's Make.        *)
LEMMA MakeMaps ==
  ASSUME NEW d \in Docs, NEW n \in 1 .. MaxCounter,
         Made' = Made \cup NextOps(d, n),
         \A i \in Made : Dep'[i] = Dep[i],
         \A i \in NextOps(d, n) : Dep'[i] = NewDeps(d, i),
         \A e \in Docs : Got'[e] = (IF e = d THEN Got[e] \cup NextOps(d, n) ELSE Got[e]),
         \A e \in Docs : Shown'[e] = (IF e = d THEN Shown[e] \cup NextOps(d, n) ELSE Shown[e])
  PROVE  CD!Next
<1> DEFINE first == MadeBy(d)
           new == NextOps(d, n)
           count == CD!Cardinality({i \in DOMAIN Dep : i[1] = PeerOf[d]})
           made == {PeerOf[d]} \X (count .. count + n - 1)
           f == [i \in DOMAIN Dep \cup made |->
                   IF i \in DOMAIN Dep THEN Dep[i]
                   ELSE IF i[2] = count THEN CD!Heads(Shown[d])
                   ELSE {<<PeerOf[d], i[2] - 1>>}]
<1>1. DOMAIN Dep = Made
  BY DEF Dep
<1>2. CD!Cardinality({i \in Made : i[1] = PeerOf[d]}) = first
  BY DEF MadeBy, CD!Cardinality, Cardinality
<1>3. count = first /\ made = new
  BY <1>1, <1>2 DEF NextOps
<1> HIDE DEF count, made
<1>4. Dep' = f
  <2>1. Dep' = [i \in Made' |-> Dep'[i]]
    BY DEF Dep
  <2>2. DOMAIN Dep \cup made = Made'
    BY <1>1, <1>3
  <2>3. \A i \in Made' : Dep'[i] = f[i]
    BY <1>1, <1>3 DEF NewDeps
  <2>4. f = [i \in Made' |-> f[i]]
    BY <2>2
  <2> HIDE DEF f
  <2> QED BY <2>1, <2>3, <2>4
<1>5. Got' = [Got EXCEPT ![d] = Got[d] \cup made]
  <2>1. Got = [e \in Docs |-> Got[e]] /\ Got' = [e \in Docs |-> Got'[e]]
    BY DEF Got
  <2> QED BY <1>3, <2>1
<1>6. Shown' = [Shown EXCEPT ![d] = Shown[d] \cup made]
  <2>1. Shown = [e \in Docs |-> Shown[e]] /\ Shown' = [e \in Docs |-> Shown'[e]]
    BY DEF Shown
  <2> QED BY <1>3, <2>1
<1>7. CD!Make(d, n)
  BY <1>4, <1>5, <1>6 DEF CD!Make, Dep, Got, Shown, Reached, Uncommitted, count, made
<1> QED BY <1>7 DEF CD!Next

(* A commit makes the operations of the transaction on top of all that the *)
(* document shows; an empty one makes none.                                *)
LEMMA CommitMaps ==
  ASSUME OwnPeers, RInv, AInv', imp.phase \in {"idle", "recv"},
         NEW d \in Docs, NEW msg \in Msgs, NEW ts \in Times, CloseTx(d, msg, ts),
         \A e \in Docs : Settled(e)' = oplog'[e]
  PROVE  [CD!Next]_(CD!vars)
<1> DEFINE l == oplog[d]
           m == oplog'[d]
<1>1. /\ \A e \in Docs : AllSettled[e] = oplog[e] /\ AllSettled'[e] = oplog'[e]
      /\ \A e \in Docs \ {d} : oplog'[e] = oplog[e]
      /\ m = Closed(d, msg, ts) /\ LogOK(m) /\ m.pending = l.pending
      /\ DOMAIN m.store = DOMAIN l.store \cup Uncommitted(d)
      /\ \A e \in Docs : Kept(AllSettled[e], AllSettled'[e])
  BY Committed
<1>2. AInv /\ IInv /\ World(AllSettled) /\ LinedWorld(AllSettled)
  BY DEF RInv, AInv, Still
<1>3. \A e \in Docs : Settled(e) = oplog[e] /\ Settled(e)' = oplog'[e]
  BY <1>1 DEF AllSettled
<1>4. CASE ~(tx[d].open /\ tx[d].start < tx[d].next)
  <2>1. m = l
    BY <1>1, <1>4 DEF Closed
  <2>2. \A e \in Docs : AllSettled'[e] = AllSettled[e]
    BY <1>1, <2>1
  <2>3. AllSettled = [e \in Docs |-> AllSettled[e]] /\ AllSettled' = [e \in Docs |-> AllSettled'[e]]
    BY DEF AllSettled
  <2>4. AllSettled' = AllSettled
    BY <2>2, <2>3
  <2> QED BY <1>2, <2>4, SameMaps
<1>5. CASE tx[d].open /\ tx[d].start < tx[d].next
  <2> DEFINE c == TxChange(d, msg, ts)
             p == PeerOf[d]
             n == tx[d].next - tx[d].start
             first == MadeBy(d)
             new == NextOps(d, n)
  <2>1. /\ Fits(l, c) /\ c.deps = l.fr /\ c.peer = p /\ m = InsertLocal(l, c)
        /\ IdsOf(c) = Uncommitted(d)
    BY <1>1, <1>2, <1>5, TxChangeFits
  <2>2. c.start = tx[d].start
    BY DEF TxChange
  <2>3. tx[d].start \in Nat /\ tx[d].next \in Nat /\ tx[d].start = l.vv[p]
        /\ tx[d].next <= MaxCounter /\ MaxCounter \in Nat
    BY <1>2, <1>5, ConstantsAssumption DEF IInv, TxFits, Transaction, RInv, Still
  <2>4. n \in 1 .. MaxCounter
    <3> DEFINE a == tx[d].start
               b == tx[d].next
    <3>1. a \in Nat /\ b \in Nat /\ a < b /\ b <= MaxCounter /\ MaxCounter \in Nat
      BY <1>5, <2>3
    <3> HIDE DEF a, b
    <3>2. b - a \in 1 .. MaxCounter
      BY <3>1
    <3> QED BY <3>2 DEF a, b
  <2>5. first = tx[d].start
    BY <1>1, <1>2, <2>3, MadeByPeer DEF MadeBy
  <2>6. new = Uncommitted(d)
    <3>1. first + n - 1 = tx[d].next - 1
      <4> DEFINE a == tx[d].start
                 b == tx[d].next
      <4>1. a \in Nat /\ b \in Nat
        BY <2>3
      <4> HIDE DEF a, b
      <4>2. a + (b - a) - 1 = b - 1
        BY <4>1
      <4> QED BY <2>5, <4>2 DEF a, b
    <3> QED BY <2>5, <3>1 DEF Uncommitted, NextOps
  <2> HIDE DEF c, n, first
  <2>7. \A i \in new : Dep'[i] = (IF i[2] = first THEN l.fr ELSE {<<p, i[2] - 1>>}) /\ i \in Made'
    <3> SUFFICES ASSUME NEW i \in new
                 PROVE  Dep'[i] = (IF i[2] = first THEN l.fr ELSE {<<p, i[2] - 1>>}) /\ i \in Made'
      OBVIOUS
    <3>1. m.store[i].deps = DepsAt(c, i[2])
      <4>1. LogOK(l)
        BY <1>2 DEF IInv
      <4> HIDE DEF l, m
      <4>2. InsertLocal(l, c).store[i].deps = DepsAt(c, i[2])
        BY <2>1, <2>6, <4>1, LocalDeps
      <4> QED BY <2>1, <4>2
    <3>2. DepsAt(c, i[2]) = IF i[2] = first THEN l.fr ELSE {<<p, i[2] - 1>>}
      BY <2>1, <2>2, <2>5 DEF DepsAt
    <3>3. i[1] = p /\ i \in DOMAIN m.store
      BY <1>1, <2>6 DEF Uncommitted
    <3>4. Original(AllSettled', i, m.store[i])
      BY <1>1, <3>3 DEF Original
    <3>5. DepsKnown' /\ World(AllSettled)'
      BY DepsAre, PTL DEF AInv
    <3> QED BY <3>1, <3>2, <3>4, <3>5 DEF DepsKnown
  <2>8. Made' = Made \cup new
    <3>1. Made' = UNION {DOMAIN oplog'[e].store : e \in Docs}
      BY <1>3 DEF Made
    <3>2. Made = UNION {DOMAIN oplog[e].store : e \in Docs}
      BY <1>3 DEF Made
    <3>3. DOMAIN m.store = DOMAIN l.store \cup new
      BY <1>1, <2>6
    <3> HIDE DEF new
    <3> QED BY <1>1, <3>1, <3>2, <3>3
  <2>9. \A i \in Made : Dep'[i] = Dep[i]
    BY <1>1, <1>2, DepStays
  <2>10. ShowsSettled /\ ShowsSettled'
    BY ShownIs, PTL
  <2>11. \A e \in Docs : Shown[e] = DOMAIN oplog[e].store /\ Shown'[e] = DOMAIN oplog'[e].store
    BY <1>2, <1>3, <2>10 DEF ShowsSettled, AInv
  <2>12. CD!Heads(Shown[d]) = l.fr
    BY <1>1, <1>2, <2>11, FrontiersMap
  <2> HIDE DEF new
  <2>13. \A i \in new : Dep'[i] = NewDeps(d, i)
    BY <2>7, <2>12 DEF NewDeps, first
  <2>14. \A e \in Docs : Got'[e] = (IF e = d THEN Got[e] \cup new ELSE Got[e])
    <3>1. \A e \in Docs : Got[e] = Reached(oplog[e]) /\ Got'[e] = Reached(oplog'[e])
      BY <1>3 DEF Got
    <3>2. Reached(m) = Reached(l) \cup new
      BY <1>1, <2>6 DEF Reached
    <3>3. Got[d] = Reached(l) /\ Got'[d] = Reached(m)
      BY <3>1
    <3>4. \A e \in Docs \ {d} : Got'[e] = Got[e]
      BY <1>1, <3>1
    <3> HIDE DEF l, m
    <3> QED BY <3>2, <3>3, <3>4
  <2>15. \A e \in Docs : Shown'[e] = (IF e = d THEN Shown[e] \cup new ELSE Shown[e])
    <3>1. Shown[d] = DOMAIN l.store /\ Shown'[d] = DOMAIN m.store
      BY <2>11
    <3>2. \A e \in Docs \ {d} : Shown'[e] = Shown[e]
      BY <1>1, <2>11
    <3>3. DOMAIN m.store = DOMAIN l.store \cup new
      BY <1>1, <2>6
    <3> HIDE DEF l, m
    <3> QED BY <3>1, <3>2, <3>3
  <2>16. CD!Next
    <3> HIDE DEF l, m
    <3> QED BY <2>4, <2>8, <2>9, <2>13, <2>14, <2>15, MakeMaps DEF new
  <2> QED BY <2>16
<1> QED BY <1>4, <1>5

-----------------------------------------------------------------------------
(* The end of an import.                                                   *)

(* All that came with the blob reached the document, and nothing else did. *)
LEMMA FinishReaches ==
  ASSUME RInv, imp.phase = "build"
  PROVE  Reached(oplog[imp.doc]) = Reached(imp.saved) \cup UNION {IdsOf(c) : c \in imp.blob.changes}
<1> DEFINE l == oplog[imp.doc]
           s == imp.saved
           ops == UNION {IdsOf(c) : c \in imp.blob.changes}
<1>1. imp.phase \in Steps
  BY DEF Steps
<1>2. /\ IInv /\ LogOK(l) /\ Holds(imp, l) /\ LogType(s)
      /\ ImportFits(imp, l, tx[imp.doc])
  BY <1>1, Gathered
<1>3. imp.todo = {} /\ Kept(s, l) /\ NothingLost
  BY <1>2, InvHolds DEF ImportFits, Tracks
<1>4. Brought(imp) = Reached(s) \cup ops
  BY DEF Brought
<1> HIDE DEF ops
<1>5. Reached(l) \subseteq Brought(imp)
  BY <1>2 DEF Reached, Holds
<1>6. ops \subseteq Reached(l)
  BY <1>3 DEF NothingLost, Reached, ops
<1>7. DOMAIN s.store \subseteq Reached(l)
  BY <1>3 DEF Kept, Reached
<1>8. ASSUME NEW e \in s.pending PROVE IdsOf(e.ch) \subseteq Reached(l)
  <2>1. CASE \E f \in l.pending : f.ch = e.ch
    BY <2>1 DEF Reached
  <2>2. CASE Known(l, e.ch)
    <3> SUFFICES ASSUME NEW i \in IdsOf(e.ch) PROVE i \in DOMAIN l.store
      BY DEF Reached
    <3>1. e.ch \in Change
      BY <1>2 DEF LogType, Waiting
    <3>2. i \in ID /\ i[1] = e.ch.peer /\ i[2] < e.ch.end /\ e.ch.end \in Nat
      BY <3>1, AtomsOfChange DEF Change
    <3>3. l.vv \in [Peers -> Nat] /\ DOMAIN l.store = Below(l.vv)
      BY <1>2 DEF LogOK, LogType
    <3>4. i[2] < l.vv[i[1]]
      BY <2>2, <3>1, <3>2, <3>3 DEF Known, ID, Change
    <3> QED BY <3>2, <3>3, <3>4, BelowMember
  <2> QED BY <1>2, <1>3, <2>1, <2>2 DEF Holds
<1>9. Reached(s) \subseteq Reached(l)
  BY <1>7, <1>8 DEF Reached
<1> QED BY <1>4, <1>5, <1>6, <1>9 DEF ops

(* The end of an import delivers the blob's operations.                    *)
LEMMA DeliverMaps ==
  ASSUME NEW d \in Docs, NEW ops \in SUBSET Made,
         Made' = Made, \A i \in Made : Dep'[i] = Dep[i],
         \A e \in Docs : Got'[e] = (IF e = d THEN Got[e] \cup ops ELSE Got[e]),
         \A e \in Docs : Shown'[e] = (IF e = d THEN CD!ClosedPart(Got[d] \cup ops) ELSE Shown[e])
  PROVE  CD!Next
<1>1. DOMAIN Dep = Made
  BY DEF Dep
<1>2. Dep' = Dep
  <2>1. Dep = [i \in Made |-> Dep[i]] /\ Dep' = [i \in Made' |-> Dep'[i]]
    BY DEF Dep
  <2> QED BY <2>1
<1>3. Got' = [Got EXCEPT ![d] = Got[d] \cup ops]
  <2>1. Got = [e \in Docs |-> Got[e]] /\ Got' = [e \in Docs |-> Got'[e]]
    BY DEF Got
  <2> QED BY <2>1
<1>4. Shown' = [Shown EXCEPT ![d] = CD!ClosedPart(Got[d] \cup ops)]
  <2>1. Shown = [e \in Docs |-> Shown[e]] /\ Shown' = [e \in Docs |-> Shown'[e]]
    BY DEF Shown
  <2> QED BY <2>1
<1>5. CD!Deliver(d, ops)
  BY <1>2, <1>3, <1>4 DEF CD!Deliver, Dep, Got, Shown, Reached, Uncommitted
<1>6. ops \in SUBSET DOMAIN Dep
  BY <1>1
<1> QED BY <1>5, <1>6 DEF CD!Next, Dep

(* The end of an import is a delivery of all the blob's operations: the    *)
(* log it reached is the largest part of what came that lacks no           *)
(* dependency.                                                             *)
LEMMA FinishMaps ==
  ASSUME OwnPeers, RInv, AInv', Finish
  PROVE  RInv' /\ [CD!Next]_(CD!vars)
<1> DEFINE l == oplog[imp.doc]
           s == imp.saved
           ops == UNION {IdsOf(c) : c \in imp.blob.changes}
<1>1. imp.phase = "build" /\ imp.phase \in Steps /\ tx' = tx /\ imp'.phase = "idle"
  BY DEF Finish, Steps, Idle
<1>2. PICK d \in Docs : d = imp.doc
  BY <1>1, Gathered
<1>3. /\ AInv /\ IInv /\ LogOK(l) /\ Queued(l, imp.stack) /\ imp.stack = <<>>
      /\ ImportFits(imp, l, tx[d])
  BY <1>1, <1>2, Gathered DEF RInv
<1>4. /\ World(AllSettled) /\ LinedWorld(AllSettled) /\ TrueLog(AllSettled, l)
      /\ InFlight(AllSettled, imp)
  BY <1>1, <1>2, <1>3 DEF AInv, RInv, Still
<1>5. \A e \in Docs : oplog'[e] = oplog[e]
  BY <1>3, FinishMovesNothing
<1>6. /\ Settled(d) = s /\ Settled(d)' = l
      /\ \A e \in Docs \ {d} : Settled(e) = oplog[e] /\ Settled(e)' = oplog[e]
  BY <1>1, <1>2, <1>5 DEF Settled
<1>7. /\ AllSettled[d] = s /\ AllSettled'[d] = l
      /\ \A e \in Docs \ {d} : AllSettled'[e] = AllSettled[e]
  BY <1>3, <1>6 DEF AllSettled
<1>8. Kept(s, l)
  BY <1>1, <1>3 DEF ImportFits
<1>9. \A e \in Docs : Kept(AllSettled[e], AllSettled'[e])
  BY <1>7, <1>8 DEF Kept
<1>10. \A e \in l.pending : Waits(l, e)
  <2> SUFFICES ASSUME NEW e \in l.pending PROVE Waits(l, e)
    OBVIOUS
  <2>1. ~Due(<<>>, e.missing)
    BY DEF Due
  <2> QED BY <1>3, <2>1 DEF Queued, Waits
<1>11. RInv'
  <2>1. Lined(l, PeerOf[d])
    <3>1. AllLined(l)
      BY <1>3, <1>4, CopiesLined DEF TrueLog
    <3> QED BY <3>1 DEF AllLined, Lined
  <2>2. \A e \in Docs : Lined(AllSettled'[e], PeerOf[e])
    BY <1>4, <1>7, <2>1 DEF LinedWorld
  <2>3. \A e \in Docs : \A w \in Settled(e)'.pending : Waits(Settled(e)', w)
    BY <1>6, <1>10 DEF RInv, Still
  <2>4. Still'
    BY <1>1, <2>2, <2>3 DEF RInv, Still, LinedWorld
  <2> QED BY <1>1, <2>4 DEF RInv, Steps
<1>12. \A i \in DOMAIN l.store : i \in Made
  BY <1>4, DepOfOriginal DEF TrueLog, Copies
<1>13. Made' = Made
  <2>1. \A i \in Made : i \in Made'
    BY <1>3, <1>9, DepStays
  <2>2. \A e \in Docs : \A i \in DOMAIN Settled(e)'.store : i \in Made
    BY <1>6, <1>12 DEF Made
  <2>3. Made' \subseteq Made
    BY <2>2 DEF Made
  <2> QED BY <2>1, <2>3
<1>14. \A i \in Made : Dep'[i] = Dep[i]
  BY <1>3, <1>9, DepStays
<1>15. ops \in SUBSET Made
  BY <1>4, DepOfOriginal DEF InFlight, TrueChange
<1>16. Reached(l) = Reached(s) \cup ops
  BY <1>1, FinishReaches
<1> HIDE DEF ops, l, s
<1>17. \A e \in Docs : Got'[e] = (IF e = d THEN Got[e] \cup ops ELSE Got[e])
  BY <1>6, <1>16 DEF Got
<1>18. \A e \in Docs : Shown'[e] = (IF e = d THEN CD!ClosedPart(Got[d] \cup ops) ELSE Shown[e])
  <2>1. ShowsSettled /\ ShowsSettled'
    BY ShownIs, PTL
  <2>2. \A e \in Docs : Shown[e] = DOMAIN Settled(e).store /\ Shown'[e] = DOMAIN Settled(e)'.store
    BY <1>3, <2>1 DEF ShowsSettled, AInv
  <2>3. Got[d] \cup ops = Reached(l)
    BY <1>3, <1>6, <1>16 DEF Got
  <2>4. CD!ClosedPart(Reached(l)) = DOMAIN l.store
    BY <1>3, <1>4, <1>10, ShowsAllItCan
  <2> QED BY <1>6, <2>2, <2>3, <2>4
<1>19. CD!Next
  BY <1>3, <1>13, <1>14, <1>15, <1>17, <1>18, DeliverMaps
<1> QED BY <1>11, <1>19

-----------------------------------------------------------------------------
(* The steps that leave every history as it is.                            *)

(* A refused import goes back to the history it began with.                *)
LEMMA RefusedMaps ==
  ASSUME OwnPeers, RInv, AInv',
         CheckRefuses \/ MainRefuses \/ PendingRefuses \/ ParkRefuses \/ BuildRefuses
  PROVE  RInv' /\ [CD!Next]_(CD!vars)
<1>1. imp.phase \in Steps /\ Refuse
  BY DEF CheckRefuses, MainRefuses, PendingRefuses, ParkRefuses, BuildRefuses, Steps
<1>2. imp.doc \in Docs /\ DOMAIN oplog = Docs /\ AInv
  BY <1>1, Gathered
<1>3. imp'.phase = "idle" /\ oplog' = [oplog EXCEPT ![imp.doc] = imp.saved] /\ tx' = tx
  BY <1>1 DEF Refuse, Idle
<1>4. \A d \in Docs : Settled(d)' = Settled(d)
  BY <1>1, <1>2, <1>3 DEF Settled, Steps
<1>5. AllSettled' = AllSettled
  BY <1>4 DEF AllSettled
<1>6. Still'
  BY <1>3, <1>4, <1>5 DEF RInv, Still
<1>7. RInv'
  BY <1>3, <1>6 DEF RInv, Steps
<1> QED BY <1>2, <1>5, <1>7, SameMaps

(* A local operation is not in the history yet.                            *)
LEMMA EditMaps ==
  ASSUME OwnPeers, Bounded, RInv, AInv', NEW d \in Docs, Edit(d) \/ RefusedEdit(d)
  PROVE  RInv' /\ [CD!Next]_(CD!vars)
<1> DEFINE b == Begin(d)
<1>1. imp.phase = "idle" /\ oplog' = oplog /\ imp' = imp
  BY DEF Edit, RefusedEdit
<1>2. AInv /\ IInv /\ DOMAIN tx = Docs
  BY DEF RInv, AInv, IInv
<1>3. AllSettled' = AllSettled /\ \A e \in Docs : Settled(e)' = Settled(e)
  BY <1>1 DEF AllSettled, Settled
<1>4. b \in Transaction
  BY <1>2, BeginFits DEF TxFits
<1>5. ~tx[d].open => b.start = b.next
  BY DEF Begin
<1> HIDE DEF b
<1>6. CASE Edit(d)
  <2> DEFINE t == [b EXCEPT !.next = b.next + 1]
  <2>1. b.next < Budget[PeerOf[d]] /\ tx' = [tx EXCEPT ![d] = t]
    BY <1>6 DEF Edit, b
  <2>2. Budget[PeerOf[d]] \in Nat /\ Budget[PeerOf[d]] <= MaxCounter /\ MaxCounter \in Nat
    BY ConstantsAssumption DEF Bounded
  <2>3. t.next = b.next + 1 /\ b.next \in Nat
    BY <1>4 DEF Transaction
  <2> HIDE DEF t
  <2>4. t.next <= MaxCounter
    BY <2>1, <2>2, <2>3
  <2>5. \A e \in Docs : tx'[e].start < tx'[e].next => tx'[e].next <= MaxCounter
    BY <1>2, <2>1, <2>4 DEF RInv, Still
  <2> QED BY <1>1, <1>2, <1>3, <2>5, SameMaps DEF RInv, Still, Steps
<1>7. CASE RefusedEdit(d)
  <2>1. ~tx[d].open /\ tx' = [tx EXCEPT ![d] = b]
    BY <1>7 DEF RefusedEdit, b
  <2>2. ~(b.start < b.next)
    BY <1>4, <1>5, <2>1 DEF Transaction
  <2>3. \A e \in Docs : tx'[e].start < tx'[e].next => tx'[e].next <= MaxCounter
    BY <1>2, <2>1, <2>2 DEF RInv, Still
  <2> QED BY <1>1, <1>2, <1>3, <2>3, SameMaps DEF RInv, Still, Steps
<1> QED BY <1>6, <1>7

-----------------------------------------------------------------------------
(* The steps that commit.                                                  *)

(* An explicit commit.                                                     *)
LEMMA CommitWithMaps ==
  ASSUME OwnPeers, RInv, AInv', NEW d \in Docs, NEW msg \in Msgs, NEW ts \in Times,
         CommitWith(d, msg, ts)
  PROVE  RInv' /\ [CD!Next]_(CD!vars)
<1>1. imp.phase = "idle" /\ CloseTx(d, msg, ts) /\ imp' = imp
  BY DEF CommitWith
<1>2. \A e \in Docs : Settled(e)' = oplog'[e]
  BY <1>1 DEF Settled
<1>3. Still' /\ [CD!Next]_(CD!vars)
  BY <1>1, <1>2, CommitKeeps, CommitMaps
<1> QED BY <1>1, <1>3 DEF RInv, Steps

(* An export commits first, of updates as of a snapshot.                   *)
LEMMA ExportMaps ==
  ASSUME OwnPeers, RInv, AInv', NEW s \in Docs, NEW d \in Docs, NEW ts \in Times,
         \/ \E r \in Ranges : ExportRange(s, d, r, ts)
         \/ ExportSnapshot(s, d, ts)
  PROVE  RInv' /\ [CD!Next]_(CD!vars)
<1>1. imp.phase = "idle" /\ CloseTx(s, NoMsg, ts) /\ NoMsg \in Msgs
  BY ConstantsAssumption DEF ExportRange, ExportSnapshot
<1>2. imp'.phase = "recv" /\ imp'.stack = <<>> /\ imp'.waiting = <<>> /\ imp'.todo = {}
  BY DEF ExportRange, ExportSnapshot, Deliver
<1>3. \A e \in Docs : Settled(e)' = oplog'[e]
  BY <1>2 DEF Settled
<1>4. Still' /\ [CD!Next]_(CD!vars)
  BY <1>1, <1>3, CommitKeeps, CommitMaps
<1> QED BY <1>2, <1>4 DEF RInv, Steps

(* An import commits first, and starts with what waited before.            *)
LEMMA ImportBeginMaps ==
  ASSUME OwnPeers, RInv, AInv', NEW ts \in Times, ImportBegin(ts)
  PROVE  RInv' /\ [CD!Next]_(CD!vars)
<1> DEFINE d == imp.doc
           l == oplog'[imp.doc]
           changes == imp.blob.changes
<1>1. imp.phase = "recv" /\ CloseTx(d, NoMsg, ts) /\ NoMsg \in Msgs
  BY ConstantsAssumption DEF ImportBegin
<1>2. AInv /\ IInv /\ ImportType(imp) /\ d \in Docs /\ imp.blob \in Blob
  BY <1>1 DEF RInv, AInv, IInv, ImportFits, ImportType
<1>3. imp.stack = <<>> /\ imp.waiting = <<>> /\ imp.todo = {}
  BY <1>1 DEF RInv
<1>4. PICK order \in SortedByLamport(changes), inPlace \in BOOLEAN :
        imp' = [imp EXCEPT !.phase = "check", !.order = order, !.saved = l,
                           !.ends = <<l.vv>>, !.inPlace = inPlace]
  BY DEF ImportBegin
<1>5. \A i \in 1 .. Len(order) : order[i] \in changes
  <2>1. changes \subseteq Change /\ IsFiniteSet(changes)
    BY <1>2 DEF Blob
  <2>2. Cardinality(changes) \in Nat
    BY <2>1, FS_CardinalityType
  <2>3. order \in [1 .. Cardinality(changes) -> changes]
    BY DEF SortedByLamport
  <2>4. DOMAIN order = 1 .. Len(order)
    BY <2>2, <2>3
  <2> QED BY <2>3, <2>4
<1> HIDE DEF l
<1>6. /\ imp'.phase = "check" /\ imp'.doc = imp.doc /\ imp'.blob = imp.blob
      /\ imp'.order = order /\ imp'.saved = l /\ imp'.waiting = imp.waiting
      /\ imp'.todo = imp.todo /\ imp'.stack = imp.stack
  BY <1>2, <1>4 DEF ImportType
<1>7. \A e \in Docs : Settled(e)' = oplog'[e]
  BY <1>6 DEF Settled, l
<1>8. Still' /\ [CD!Next]_(CD!vars)
  BY <1>1, <1>2, <1>7, CommitKeeps, CommitMaps
<1>9. \A e \in l.pending : Waits(l, e)
  BY <1>2, <1>7, <1>8 DEF Still, l
<1>10. Holds(imp', l)
  <2>1. Brought(imp') = Reached(l) \cup UNION {IdsOf(c) : c \in changes}
    BY <1>6 DEF Brought
  <2>2. \A i \in 1 .. Len(order) : IdsOf(order[i]) \subseteq Brought(imp')
    BY <1>5, <2>1
  <2>3. 1 .. Len(imp'.waiting) = {}
    BY <1>3, <1>6
  <2> HIDE DEF changes
  <2> QED BY <1>3, <1>6, <2>1, <2>2, <2>3 DEF Holds, Reached
<1>11. Queued(l, imp'.stack)
  BY <1>9 DEF Queued, Waits
<1> QED BY <1>6, <1>8, <1>10, <1>11 DEF RInv, l

-----------------------------------------------------------------------------
(* Documents begin with nothing made.                                      *)
LEMMA InitMaps ==
  ASSUME Init
  PROVE  RInv /\ CD!Init
<1>1. AInv
  BY InitAgrees
<1>2. /\ imp.phase = "idle" /\ \A d \in Docs : oplog[d] = EmptyLog /\ tx[d] = NoTx /\ st[d] = {}
  BY DEF Init, Idle
<1>3. DOMAIN EmptyLog.store = {} /\ EmptyLog.pending = {}
  BY DEF EmptyLog
<1>4. \A d \in Docs : Settled(d) = EmptyLog /\ AllSettled[d] = EmptyLog
  BY <1>2 DEF Settled, AllSettled
<1>5. Still
  <2>1. LinedWorld(AllSettled)
    BY <1>3, <1>4 DEF LinedWorld, Lined
  <2>2. ~(NoTx.start < NoTx.next)
    BY DEF NoTx
  <2> QED BY <1>2, <1>3, <1>4, <2>1, <2>2 DEF Still
<1>6. RInv
  BY <1>1, <1>2, <1>5 DEF RInv, Steps
<1>7. Made = {}
  BY <1>3, <1>4 DEF Made
<1>8. Dep = [i \in {} |-> {}]
  BY <1>7 DEF Dep
<1>9. Got = [d \in Docs |-> {}]
  BY <1>3, <1>4 DEF Got, Reached
<1>10. Shown = [d \in Docs |-> {}]
  BY <1>2 DEF Shown
<1> QED BY <1>6, <1>8, <1>9, <1>10 DEF CD!Init, Dep, Got, Shown, Reached, Uncommitted

(* Every step of an import is an abstract step or a stutter.               *)
LEMMA ImportStepMaps ==
  ASSUME OwnPeers, RInv, AInv', ImportStep
  PROVE  RInv' /\ [CD!Next]_(CD!vars)
<1>1. AInv
  BY DEF RInv
<1>2. CASE \E ts \in Times : ImportBegin(ts)
  BY <1>2, ImportBeginMaps
<1>3. CASE \/ CheckStep \/ CheckDone \/ MainDone \/ PendingDone \/ ParkDone
           \/ MainStep \/ PendingPop \/ PendingTry \/ ParkStep
  <2>1. RInv' /\ AllSettled' = AllSettled
    BY <1>3, TurnGathers, MainStepGathers, PopGathers, PendingTryGathers, ParkStepGathers
  <2> QED BY <1>1, <2>1, SameMaps
<1>4. CASE Finish
  BY <1>4, FinishMaps
<1>5. CASE CheckRefuses \/ MainRefuses \/ PendingRefuses \/ ParkRefuses \/ BuildRefuses
  BY <1>5, RefusedMaps
<1> QED BY <1>2, <1>3, <1>4, <1>5 DEF ImportStep

(* So is every step there is.                                              *)
LEMMA NextMaps ==
  ASSUME OwnPeers, NoOthers, Bounded, RInv, [Next]_vars
  PROVE  RInv' /\ [CD!Next]_(CD!vars)
<1>1. AInv /\ AInv'
  BY NextAgrees DEF RInv
<1>2. CASE \E d \in Docs : Edit(d) \/ RefusedEdit(d)
  BY <1>1, <1>2, EditMaps
<1>3. CASE \E d \in Docs, msg \in Msgs, ts \in Times : CommitWith(d, msg, ts)
  BY <1>1, <1>3, CommitWithMaps
<1>4. CASE \E s, d \in Docs, ts \in Times : \E r \in Ranges : ExportRange(s, d, r, ts)
  BY <1>1, <1>4, ExportMaps
<1>5. CASE \E s, d \in Docs, ts \in Times : ExportSnapshot(s, d, ts)
  BY <1>1, <1>5, ExportMaps
<1>6. CASE ImportStep
  BY <1>1, <1>6, ImportStepMaps
<1>7. CASE UNCHANGED vars
  <2>1. UNCHANGED <<oplog, tx, imp>>
    BY <1>7 DEF vars
  <2>2. \A d \in Docs : Settled(d)' = Settled(d)
    BY <2>1 DEF Settled
  <2>3. AllSettled' = AllSettled
    BY <2>2 DEF AllSettled
  <2>4. Still'
    BY <2>1, <2>2, <2>3 DEF RInv, Still
  <2>5. RInv'
    BY <1>1, <2>1, <2>4 DEF RInv, Holds, Brought
  <2> QED BY <1>1, <2>3, <2>5, SameMaps
<1> QED BY <1>2, <1>3, <1>4, <1>5, <1>6, <1>7 DEF Next, NoOthers

(* Documents with peer ids of their own implement causal delivery: a       *)
(* commit makes operations on top of all its document shows, the end of an *)
(* import delivers the blob's, and whatever importChanges, applyPending    *)
(* and parkOrApply do in between - apply, trim, set aside, file, release,  *)
(* refuse - a document then shows the largest part of what reached it that *)
(* lacks no dependency.                                                    *)
THEOREM DocumentsDeliver ==
  ASSUME OwnPeers, NoOthers, Bounded
  PROVE  Spec => ImplementsCausalDelivery
<1>1. Init => RInv /\ CD!Init
  BY InitMaps
<1>2. RInv /\ [Next]_vars => RInv' /\ [CD!Next]_(CD!vars)
  BY NextMaps
<1> QED BY <1>1, <1>2, PTL DEF Spec, CD!Spec, ImplementsCausalDelivery

-----------------------------------------------------------------------------
(* Why such documents never refuse each other's exports.                   *)

(* The ids local ops may have, and that there is a lamport for each.       *)
Nameable == UNION {{p} \X (0 .. Budget[p] - 1) : p \in Peers}

LamportsSuffice == Cardinality(Nameable) <= LamportLimit

(* Every history is made of those.                                         *)
Within(S) == \A d \in Docs : DOMAIN S[d].store \subseteq Nameable

(* There are finitely many ids to name.                                    *)
LEMMA NameableFinite ==
  IsFiniteSet(Nameable) /\ Cardinality(Nameable) \in Nat
<1> DEFINE f == [p \in Peers |-> {p} \X (0 .. Budget[p] - 1)]
           F == {f[p] : p \in Peers}
<1>1. f \in Surjection(Peers, F)
  BY DEF Surjection
<1>2. IsFiniteSet(F)
  BY <1>1, ConstantsAssumption, FS_Surjection
<1>3. ASSUME NEW p \in Peers PROVE IsFiniteSet(f[p])
  <2> DEFINE I == 0 .. Budget[p] - 1
  <2>1. Budget[p] \in Nat
    BY ConstantsAssumption
  <2>2. IsFiniteSet(I)
    BY <2>1, FS_Interval
  <2>3. IsFiniteSet({p})
    BY FS_Singleton
  <2> HIDE DEF I
  <2>4. IsFiniteSet({p} \X I)
    BY <2>2, <2>3, FS_Product
  <2> QED BY <2>4 DEF I
<1>4. IsFiniteSet(UNION F)
  <2>1. \A x \in F : IsFiniteSet(x)
    BY <1>3
  <2> HIDE DEF F, f
  <2> QED BY <1>2, <2>1, FS_UNION
<1>5. UNION F = Nameable
  BY DEF Nameable
<1> QED BY <1>4, <1>5, FS_CardinalityType

(* A lamport is one past a dependency's or 0, so a history with an op at   *)
(* some lamport has an op at every lower one.                              *)
LEMMA NoLamportSkipped ==
  ASSUME OwnPeers, NEW S, World(S), NEW d \in Docs, NEW i \in DOMAIN S[d].store,
         NEW n \in 0 .. S[d].store[i].lam
  PROVE  \E j \in DOMAIN S[d].store : S[d].store[j].lam = n
<1> DEFINE l == S[d]
           top == l.store[i].lam
           M == {m \in 0 .. top : ~\E j \in DOMAIN l.store : l.store[j].lam = m}
<1>1. LogOK(l) /\ LogType(l) /\ Copies(S, l)
  BY DEF World, TrueLog, LogOK
<1>2. \A j \in DOMAIN l.store : l.store[j].lam \in Nat /\ IsFiniteSet(l.store[j].deps)
  BY <1>1 DEF LogType, Atom
<1>3. top \in Nat
  BY <1>2
<1> SUFFICES ASSUME M # {} PROVE FALSE
  OBVIOUS
<1>4. PICK h \in M : \A m \in M : m <= h
  <2>1. M \subseteq 0 .. top
    OBVIOUS
  <2> HIDE DEF M, top
  <2>2. IsFiniteSet(0 .. top)
    BY <1>3, FS_Interval
  <2>3. IsFiniteSet(M)
    BY <2>1, <2>2, FS_Subset
  <2>4. M \in SUBSET Nat
    BY <1>3, <2>1
  <2> QED BY <2>3, <2>4, HighestProperties
<1>5. h \in Nat /\ h < top
  BY <1>3, <1>4
<1>6. PICK j \in DOMAIN l.store : l.store[j].lam = h + 1
  <2>1. h + 1 \in 0 .. top /\ ~(h + 1 <= h)
    BY <1>3, <1>5
  <2> QED BY <1>4, <2>1
<1> DEFINE deps == l.store[j].deps
           L == {l.store[k].lam + 1 : k \in deps \cap DOMAIN l.store}
<1>7. Highest({0} \cup L) = h + 1
  <2>1. Exact(l, j)
    BY <1>1, CopiesExact
  <2> QED BY <1>6, <2>1 DEF Exact, NextLamport
<1>8. {0} \cup L \in SUBSET Nat /\ IsFiniteSet({0} \cup L)
  <2> DEFINE D == deps \cap DOMAIN l.store
             f == [k \in D |-> l.store[k].lam + 1]
  <2>1. IsFiniteSet(D)
    BY <1>2, FS_Subset
  <2>2. f \in Surjection(D, L)
    BY DEF Surjection
  <2>3. L \subseteq Nat
    BY <1>2
  <2> HIDE DEF D, f, L
  <2>4. IsFiniteSet(L)
    BY <2>1, <2>2, FS_Surjection
  <2>5. IsFiniteSet({0})
    BY FS_Singleton
  <2>6. IsFiniteSet({0} \cup L)
    BY <2>4, <2>5, FS_Union
  <2> QED BY <2>3, <2>6
<1>9. h + 1 \in {0} \cup L
  <2> HIDE DEF L
  <2> QED BY <1>7, <1>8, HighestProperties
<1>10. PICK k \in DOMAIN l.store : h + 1 = l.store[k].lam + 1
  BY <1>5, <1>9
<1>11. l.store[k].lam = h
  BY <1>2, <1>5, <1>10
<1> QED BY <1>4, <1>11

(* No lamport passes the number of ops there can be.                       *)
LEMMA LamportsLow ==
  ASSUME OwnPeers, NEW S, World(S), Within(S), NEW i, NEW a, Original(S, i, a)
  PROVE  a.lam \in Nat /\ a.lam + 1 <= Cardinality(Nameable)
<1>1. PICK d \in Docs : i \in DOMAIN S[d].store /\ S[d].store[i] = a
  BY DEF Original
<1> DEFINE l == S[d]
           D == DOMAIN l.store
           n == a.lam
           f == [j \in D |-> l.store[j].lam]
           T == {f[j] : j \in D}
<1>2. LogOK(l)
  BY DEF World
<1>3. n \in Nat
  BY <1>1, <1>2 DEF LogOK, LogType, Atom
<1>4. D \subseteq Nameable
  BY DEF Within
<1>5. \A m \in 0 .. n : m \in T
  <2> SUFFICES ASSUME NEW m \in 0 .. n PROVE m \in T
    OBVIOUS
  <2>1. PICK j \in D : l.store[j].lam = m
    BY <1>1, NoLamportSkipped
  <2> QED BY <2>1
<1>6. f \in Surjection(D, T)
  BY DEF Surjection
<1> HIDE DEF f, T, D, n
<1>7. IsFiniteSet(D) /\ Cardinality(D) <= Cardinality(Nameable)
  BY <1>4, NameableFinite, FS_Subset
<1>8. IsFiniteSet(T) /\ Cardinality(T) <= Cardinality(D)
  BY <1>6, <1>7, FS_Surjection
<1>9. Cardinality(0 .. n) <= Cardinality(T)
  BY <1>5, <1>8, FS_Subset
<1>10. Cardinality(0 .. n) = n + 1
  BY <1>3, FS_Interval
<1>11. Cardinality(T) \in Nat /\ Cardinality(D) \in Nat /\ Cardinality(Nameable) \in Nat
  BY <1>7, <1>8, NameableFinite, FS_CardinalityType
<1>12. n + 1 <= Cardinality(Nameable)
  BY <1>3, <1>7, <1>8, <1>9, <1>10, <1>11
<1> QED BY <1>3, <1>12 DEF n

(* A true change continues its peer's lamports and keeps to the limit.     *)
LEMMA TrueGoesIn ==
  ASSUME OwnPeers, LamportsSuffice, NEW S, World(S), Within(S),
         NEW l, LogOK(l), Copies(S, l),
         NEW c, c.start \in Nat, c.end \in Nat, c.start < c.end, c.lam \in Nat, TrueChange(S, c)
  PROVE  ~InsertRefused(l, c)
<1> DEFINE first == <<c.peer, c.start>>
           last == <<c.peer, c.end - 1>>
<1>1. first \in IdsOf(c) /\ last \in IdsOf(c)
  BY DEF IdsOf
<1>2. AtomsOf(c)[first].deps = c.deps /\ AtomsOf(c)[first].lam = c.lam
  <2>1. first[2] = c.start
    OBVIOUS
  <2> HIDE DEF first
  <2> QED BY <1>1, <2>1 DEF AtomsOf, DepsAt
<1>3. AtomsOf(c)[last].lam = c.lam + ((c.end - 1) - c.start)
  <2>1. last[2] = c.end - 1
    OBVIOUS
  <2> HIDE DEF last
  <2> QED BY <1>1, <2>1 DEF AtomsOf
<1>4. Original(S, first, AtomsOf(c)[first]) /\ Original(S, last, AtomsOf(c)[last])
  BY <1>1 DEF TrueChange
<1> HIDE DEF first, last
<1>5. ~(c.lam + (c.end - c.start) > LamportLimit)
  <2> DEFINE n == AtomsOf(c)[last].lam
  <2>1. n \in Nat /\ n + 1 <= Cardinality(Nameable)
    BY <1>4, LamportsLow
  <2>2. n = c.lam + ((c.end - 1) - c.start)
    BY <1>3
  <2> HIDE DEF n
  <2>3. Cardinality(Nameable) \in Nat /\ LamportLimit \in Nat
    BY NameableFinite, ConstantsAssumption
  <2>4. n + 1 = c.lam + (c.end - c.start)
    BY <2>2
  <2> QED BY <2>1, <2>3, <2>4 DEF LamportsSuffice
<1>6. ASSUME NEW i \in c.deps \cap DOMAIN l.store, c.deps = {i}
      PROVE  c.lam = l.store[i].lam + 1
  <2>1. PICK d \in Docs : first \in DOMAIN S[d].store /\ S[d].store[first] = AtomsOf(c)[first]
                          /\ PeerOf[d] = first[1]
    BY <1>4 DEF Original
  <2>2. Exact(S[d], first) /\ LogOK(S[d]) /\ Copies(S, S[d])
    BY <2>1 DEF World, TrueLog
  <2>3. c.lam = NextLamport(S[d], {i})
    BY <1>2, <1>6, <2>1, <2>2 DEF Exact
  <2>4. i \in DOMAIN S[d].store
    BY <1>2, <1>6, <2>1, <2>2 DEF LogOK
  <2>5. S[d].store[i] = l.store[i]
    BY <1>6, <2>2, <2>4, OneOriginal DEF Copies
  <2> QED BY <2>2, <2>3, <2>4, <2>5, NextLamportOne DEF LogOK
<1> QED BY <1>5, <1>6 DEF InsertRefused

(* Whatever the first pass or a later one tries to insert, with the        *)
(* lamport it would raise it to, goes in.                                  *)
LEMMA TriedGoesIn ==
  ASSUME OwnPeers, LamportsSuffice, NEW S, World(S), Within(S),
         NEW l, LogOK(l), TrueLog(S, l),
         NEW c \in Change, TrueChange(S, c), ~Known(l, c), c.start <= l.vv[c.peer],
         c.deps \subseteq DOMAIN l.store,
         NEW r, r = [c EXCEPT !.lam = NextLamport(l, c.deps)]
                \/ r = [c EXCEPT !.lam = Larger(c.lam, NextLamport(l, c.deps))]
  PROVE  ~InsertRefused(l, TrimKnown(l, r))
<1>1. Copies(S, l) /\ LogType(l)
  BY DEF TrueLog, LogOK
<1>2. c.lam = NextLamport(l, c.deps) /\ c.lam \in Nat
  BY <1>1, TrueDeps DEF Change
<1>3. r = [c EXCEPT !.lam = c.lam]
  BY <1>2 DEF Larger
<1>4. r = c
  BY <1>3 DEF Change
<1> DEFINE n == l.vv[c.peer]
           t == TrimKnown(l, c)
<1>5. TrueChange(S, t)
  BY <1>1, TrimmedTrue
<1>6. /\ c.start \in Nat /\ c.end \in Nat /\ c.start < c.end
      /\ n \in Nat /\ n < c.end /\ c.start <= n
  BY <1>1 DEF Change, LogType, Known
<1>7. t.start \in Nat /\ t.end \in Nat /\ t.start < t.end /\ t.lam \in Nat
  <2>1. CASE c.start = n
    <3>1. t = c
      BY <1>6, <2>1 DEF TrimKnown
    <3> HIDE DEF t
    <3> QED BY <1>2, <1>6, <3>1
  <2>2. CASE c.start < n
    <3>1. t = CutFrom(c, n)
      BY <1>6, <2>2 DEF TrimKnown
    <3> HIDE DEF n, t
    <3>2. t.start = n /\ t.end = c.end /\ t.lam = c.lam + (n - c.start)
      BY <3>1 DEF CutFrom, Change
    <3> QED BY <1>2, <1>6, <2>2, <3>2
  <2> QED BY <1>6, <2>1, <2>2
<1> HIDE DEF t
<1>8. ~InsertRefused(l, t)
  BY <1>1, <1>5, <1>7, TrueGoesIn
<1> QED BY <1>4, <1>8 DEF t

(* An id that a log of copies has names the same op in a true change.      *)
LEMMA NoIdUsedTwice ==
  ASSUME OwnPeers, NEW S, NEW l, Copies(S, l),
         NEW changes, \A c \in changes : c \in Change /\ TrueChange(S, c)
  PROVE  ~UsedID(l, changes)
<1> SUFFICES ASSUME NEW c \in changes, NEW k \in c.start .. c.end - 1,
                    <<c.peer, k>> \in DOMAIN l.store
             PROVE  /\ l.store[<<c.peer, k>>].deps = DepsAt(c, k)
                    /\ l.store[<<c.peer, k>>].by = c.by
  BY DEF UsedID
<1> DEFINE i == <<c.peer, k>>
<1>1. i \in IdsOf(c) /\ i[2] = k
  BY DEF IdsOf
<1> HIDE DEF i
<1>2. Original(S, i, AtomsOf(c)[i]) /\ Original(S, i, l.store[i])
  BY <1>1 DEF TrueChange, Copies, i
<1>3. l.store[i] = AtomsOf(c)[i]
  BY <1>2, OneOriginal
<1>4. AtomsOf(c)[i].deps = DepsAt(c, k) /\ AtomsOf(c)[i].by = c.by
  BY <1>1 DEF AtomsOf
<1> QED BY <1>3, <1>4 DEF i

(* The counters below a version vector are a part of what was made that    *)
(* lacks no dependency.                                                    *)
Grounded(S, vv) ==
  \A i \in Below(vv) : \E a : Original(S, i, a) /\ a.deps \subseteq Below(vv)

(* The version of a log lacks no dependency.                               *)
LEMMA LogGrounded ==
  ASSUME NEW S, NEW l, LogOK(l), Copies(S, l)
  PROVE  Grounded(S, l.vv)
BY DEF LogOK, Copies, Grounded

(* A true change whose deps lie there starts there too: the op before it   *)
(* was one of its author's heads or below one.                             *)
LEMMA NoGap ==
  ASSUME OwnPeers, World(AllSettled), LinedWorld(AllSettled),
         NEW e \in [Peers -> Nat], Grounded(AllSettled, e),
         NEW c \in Change, TrueChange(AllSettled, c), ReadyAt(c, e)
  PROVE  c.start <= e[c.peer]
<1> DEFINE first == <<c.peer, c.start>>
           prev == <<c.peer, c.start - 1>>
           T == Below(e) \cup {first}
<1>1. /\ c.peer \in Peers /\ c.start \in Nat /\ c.end \in Nat /\ c.start < c.end
      /\ c.deps \subseteq ID /\ e[c.peer] \in Nat
  BY DEF Change
<1> SUFFICES ASSUME c.start > 0 PROVE c.start <= e[c.peer]
  BY <1>1
<1>2. first \in IdsOf(c) /\ first[1] = c.peer /\ first[2] = c.start
  BY <1>1 DEF IdsOf
<1>3. Original(AllSettled, first, AtomsOf(c)[first]) /\ AtomsOf(c)[first].deps = c.deps
  <2> HIDE DEF first
  <2> QED BY <1>2 DEF TrueChange, AtomsOf, DepsAt
<1>4. c.deps \subseteq Below(e)
  BY <1>1, BelowMember DEF ReadyAt
<1> HIDE DEF first
<1>5. first \in Made /\ Dep[first] = c.deps
  BY <1>3, DepOfOriginal
<1>6. \A i \in Below(e) : i \in Made /\ Dep[i] \subseteq Below(e)
  BY DepOfOriginal DEF Grounded
<1>7. T \in SUBSET Made /\ \A i \in T : Dep[i] \subseteq T
  BY <1>4, <1>5, <1>6
<1>8. first \in T
  OBVIOUS
<1> HIDE DEF T
<1>9. <<first[1], first[2] - 1>> \in T
  BY <1>1, <1>2, <1>7, <1>8, MadeLined
<1>10. prev \in T
  BY <1>2, <1>9
<1>11. prev \in Below(e)
  <2>1. prev # first
    BY <1>1 DEF first
  <2> QED BY <1>10, <2>1 DEF T
<1>12. c.start - 1 < e[c.peer]
  BY <1>11, BelowMember
<1> QED BY <1>1, <1>12

(* With such a change the part lacks no dependency again.                  *)
LEMMA ReplayedGrounded ==
  ASSUME OwnPeers, NEW S, NEW e \in [Peers -> Nat], Grounded(S, e),
         NEW c \in Change, TrueChange(S, c), ReadyAt(c, e) => c.start <= e[c.peer]
  PROVE  Replayed(c, e) \in [Peers -> Nat] /\ Grounded(S, Replayed(c, e))
<1> DEFINE f == Replayed(c, e)
<1>1. /\ c.peer \in Peers /\ c.start \in Nat /\ c.end \in Nat /\ c.start < c.end
      /\ c.deps \subseteq ID /\ e[c.peer] \in Nat
  BY DEF Change
<1>2. CASE ~ReadyAt(c, e)
  BY <1>2 DEF Replayed
<1>3. CASE ReadyAt(c, e)
  <2>1. f = [e EXCEPT ![c.peer] = c.end] /\ e[c.peer] < c.end /\ c.start <= e[c.peer]
    BY <1>1, <1>3 DEF Replayed, ReadyAt
  <2> HIDE DEF f
  <2>2. f \in [Peers -> Nat]
    BY <1>1, <2>1
  <2>3. \A i : i \in Below(e) <=> i \in ID /\ i[2] < e[i[1]]
    BY BelowMember
  <2>4. \A i : i \in Below(f) <=> i \in ID /\ i[2] < f[i[1]]
    BY <2>2, BelowMember
  <2>5. Below(e) \subseteq Below(f)
    <3> SUFFICES ASSUME NEW i \in Below(e) PROVE i \in Below(f)
      OBVIOUS
    <3>1. i \in ID /\ i[2] < e[i[1]]
      BY <2>3
    <3>2. i[1] \in Peers /\ i[2] \in Nat
      BY <3>1 DEF ID
    <3>3. e[i[1]] \in Nat /\ e[i[1]] <= f[i[1]] /\ f[i[1]] \in Nat
      BY <1>1, <2>1, <2>2, <3>2
    <3>4. i[2] < f[i[1]]
      BY <3>1, <3>2, <3>3
    <3> QED BY <2>4, <3>1, <3>4
  <2>6. ASSUME NEW i \in Below(f), i \notin Below(e) PROVE i \in IdsOf(c)
    <3>1. i \in ID /\ i = <<i[1], i[2]>> /\ i[2] \in Nat /\ i[1] \in Peers
      BY <2>4 DEF ID
    <3>2. i[1] = c.peer
      BY <2>1, <2>3, <2>4, <2>6, <3>1
    <3>3. i[2] < c.end /\ ~(i[2] < e[c.peer])
      BY <1>1, <2>1, <2>3, <2>4, <2>6, <3>1, <3>2
    <3>4. i[2] \in c.start .. c.end - 1
      BY <1>1, <2>1, <3>1, <3>3
    <3> QED BY <3>1, <3>2, <3>4 DEF IdsOf
  <2>7. ASSUME NEW i \in IdsOf(c) PROVE AtomsOf(c)[i].deps \subseteq Below(f)
    <3>1. i \in ID /\ i[1] = c.peer /\ i[2] \in c.start .. c.end - 1
          /\ AtomsOf(c)[i].deps = DepsAt(c, i[2])
      BY AtomsOfChange
    <3>2. CASE i[2] = c.start
      <4>1. c.deps \subseteq Below(e)
        BY <1>1, <1>3, <2>3 DEF ReadyAt
      <4> QED BY <2>5, <3>1, <3>2, <4>1 DEF DepsAt
    <3>3. CASE i[2] # c.start
      <4> DEFINE prev == <<c.peer, i[2] - 1>>
      <4>1. prev \in ID /\ prev[1] = c.peer /\ prev[2] < c.end
        BY <1>1, <3>1, <3>3 DEF ID
      <4>2. AtomsOf(c)[i].deps = {prev}
        BY <3>1, <3>3 DEF DepsAt
      <4> HIDE DEF prev
      <4>3. f[prev[1]] = c.end
        BY <1>1, <2>1, <4>1
      <4> QED BY <2>4, <4>1, <4>2, <4>3
    <3> QED BY <3>2, <3>3
  <2>8. Grounded(S, f)
    <3> SUFFICES ASSUME NEW i \in Below(f)
                 PROVE  \E a : Original(S, i, a) /\ a.deps \subseteq Below(f)
      BY DEF Grounded
    <3>1. CASE i \in Below(e)
      BY <2>5, <3>1 DEF Grounded
    <3>2. CASE i \notin Below(e)
      BY <2>6, <2>7, <3>2 DEF TrueChange
    <3> QED BY <3>1, <3>2
  <2> QED BY <2>2, <2>8 DEF f
<1> QED BY <1>2, <1>3

(* The inductive invariant of documents that never refuse each other:      *)
(* what they make has room, and what checkKnown's replay has gone through  *)
(* lacks no dependency.                                                    *)
NInv ==
  /\ RInv
  /\ NeverRefused
  /\ Within(AllSettled)
  /\ \A d \in Docs : tx[d].next <= Budget[PeerOf[d]]
  /\ imp.phase = "check" => Grounded(AllSettled, imp.ends[Len(imp.ends)])

(* What checkKnown looks at next.                                          *)
LEMMA CheckedNext ==
  ASSUME NInv, imp.phase = "check", Len(imp.ends) <= Len(imp.order)
  PROVE  LET c == imp.order[Len(imp.ends)]
             e == imp.ends[Len(imp.ends)]
         IN  /\ c \in Change /\ TrueChange(AllSettled, c)
             /\ e \in [Peers -> Nat] /\ Grounded(AllSettled, e)
             /\ Len(imp.ends) \in Nat /\ Len(imp.ends) >= 1
<1> DEFINE k == Len(imp.ends)
<1>1. imp.phase \in Steps /\ AInv
  BY DEF NInv, RInv, Steps
<1>2. /\ ImportFits(imp, oplog[imp.doc], tx[imp.doc]) /\ ImportType(imp)
      /\ InFlight(AllSettled, imp)
  BY <1>1, InFlightNow, InImport
<1>3. /\ imp.order \in Seq(Change) /\ imp.ends \in Seq([Peers -> Nat])
      /\ k \in Nat /\ 1 <= k
  BY <1>2 DEF ImportFits, ImportType, FollowsReplay
<1>4. k \in 1 .. Len(imp.order) /\ k \in 1 .. Len(imp.ends)
  BY <1>3
<1> QED BY <1>2, <1>3, <1>4 DEF NInv, InFlight

(* No step refuses an import.                                              *)
LEMMA NoneRefuses ==
  ASSUME OwnPeers, OwnOpsGood, LamportsSuffice, NInv
  PROVE  ~(CheckRefuses \/ MainRefuses \/ PendingRefuses \/ ParkRefuses \/ BuildRefuses)
<1> DEFINE l == oplog[imp.doc]
<1>1. AInv /\ IInv /\ Within(AllSettled)
  BY DEF NInv, RInv, AInv
<1>2. imp.phase \in Steps =>
        /\ InFlight(AllSettled, imp) /\ World(AllSettled) /\ TrueLog(AllSettled, l)
        /\ ImportType(imp) /\ LogOK(l)
  BY <1>1, InFlightNow
<1> HIDE DEF l
<1>3. ~CheckRefuses
  <2> SUFFICES ASSUME CheckRefuses PROVE FALSE
    OBVIOUS
  <2>1. imp.phase = "check" /\ imp.phase \in Steps /\ Len(imp.ends) <= Len(imp.order)
    BY DEF CheckRefuses, Steps
  <2>2. ~UsedID(l, imp.blob.changes)
    <3>1. \A c \in imp.blob.changes : c \in Change /\ TrueChange(AllSettled, c)
      BY <1>2, <2>1 DEF InFlight, ImportType, Blob
    <3> QED BY <1>2, <2>1, <3>1, NoIdUsedTwice DEF TrueLog
  <2> DEFINE c == imp.order[Len(imp.ends)]
             e == imp.ends[Len(imp.ends)]
  <2>3. ReadyAt(c, e) /\ c.start > e[c.peer]
    BY <2>2 DEF CheckRefuses, l
  <2>4. /\ c \in Change /\ TrueChange(AllSettled, c) /\ e \in [Peers -> Nat]
        /\ Grounded(AllSettled, e)
    BY <2>1, CheckedNext
  <2> HIDE DEF c, e
  <2>5. c.start <= e[c.peer]
    BY <1>2, <2>1, <2>3, <2>4, NoGap DEF NInv, RInv, Still
  <2>6. c.start \in Nat /\ e[c.peer] \in Nat
    BY <2>4 DEF Change
  <2> QED BY <2>3, <2>5, <2>6
<1>4. ~MainRefuses
  <2> SUFFICES ASSUME MainRefuses PROVE FALSE
    OBVIOUS
  <2> DEFINE c == imp.order[imp.idx]
             r == [c EXCEPT !.lam = NextLamport(l, c.deps)]
  <2>1. imp.phase = "main" /\ imp.phase \in Steps /\ imp.idx <= Len(imp.order)
    BY DEF MainRefuses, Steps
  <2>2. /\ ~Known(l, c) /\ c.deps \subseteq {i \in DOMAIN l.store : Has(l, i)}
        /\ InsertRefused(l, TrimKnown(l, r))
    BY DEF MainRefuses, l
  <2>3. c \in Change /\ c.start <= l.vv[c.peer]
    BY <1>1, <2>1, <2>2, ReadyStarts DEF l
  <2>4. imp.idx \in 1 .. Len(imp.order)
    <3>1. ImportFits(imp, l, tx[imp.doc])
      BY <1>1, <2>1, InImport DEF l
    <3>2. imp.idx \in 1 .. Len(imp.order) + 1 /\ Len(imp.order) \in Nat
      BY <2>1, <3>1 DEF ImportFits, GoesThrough, ImportType
    <3> QED BY <2>1, <3>2
  <2>5. TrueChange(AllSettled, c)
    BY <1>2, <2>1, <2>4 DEF InFlight
  <2>6. c.deps \subseteq DOMAIN l.store
    BY <2>2
  <2> HIDE DEF c
  <2>7. ~InsertRefused(l, TrimKnown(l, r))
    BY <1>1, <1>2, <2>1, <2>2, <2>3, <2>5, <2>6, TriedGoesIn
  <2> QED BY <2>2, <2>7
<1>5. ASSUME NEW c \in Change, TrueChange(AllSettled, c), imp.phase \in Steps
      PROVE  ~SettleRefuses(c)
  <2> SUFFICES ASSUME SettleRefuses(c) PROVE FALSE
    OBVIOUS
  <2> DEFINE r == [c EXCEPT !.lam = Larger(c.lam, NextLamport(l, c.deps))]
  <2>1. ~Known(l, c) /\ MissingFor(l, c) = {} /\ InsertRefused(l, TrimKnown(l, r))
    BY DEF SettleRefuses, FromRemote, l
  <2>2. c.start <= l.vv[c.peer] /\ c.deps \subseteq DOMAIN l.store
    BY <1>2, <1>5, <2>1, NoneMissing
  <2>3. ~InsertRefused(l, TrimKnown(l, r))
    BY <1>1, <1>2, <1>5, <2>1, <2>2, TriedGoesIn
  <2> QED BY <2>1, <2>3
<1>6. ~PendingRefuses
  <2> SUFFICES ASSUME imp.phase = "pending", NEW e \in imp.todo PROVE ~SettleRefuses(e.ch)
    BY DEF PendingRefuses
  <2>1. imp.phase \in Steps
    BY DEF Steps
  <2>2. e.ch \in Change /\ TrueChange(AllSettled, e.ch)
    BY <1>2, <2>1 DEF ImportType, Waiting, InFlight
  <2> QED BY <1>5, <2>1, <2>2
<1>7. ~ParkRefuses
  <2> SUFFICES ASSUME imp.phase = "park", imp.waiting # <<>>
               PROVE  ~SettleRefuses(Head(imp.waiting))
    BY DEF ParkRefuses
  <2>1. imp.phase \in Steps
    BY DEF Steps
  <2>2. imp.waiting \in Seq(Change)
    BY <1>2, <2>1 DEF ImportType
  <2>3. Head(imp.waiting) = imp.waiting[1] /\ 1 \in 1 .. Len(imp.waiting)
    BY <2>2
  <2>4. Head(imp.waiting) \in Change /\ TrueChange(AllSettled, Head(imp.waiting))
    BY <1>2, <2>1, <2>2, <2>3 DEF InFlight
  <2> QED BY <1>5, <2>1, <2>4
<1>8. ~BuildRefuses
  <2> SUFFICES ASSUME imp.phase = "build", NEW i \in BadOps \cap DOMAIN l.store PROVE FALSE
    BY DEF BuildRefuses, CannotBuild, l
  <2>1. imp.phase \in Steps
    BY DEF Steps
  <2>2. \E d \in Docs : PeerOf[d] = i[1]
    BY <1>2, <2>1 DEF TrueLog, Copies, Original
  <2> QED BY <2>2 DEF OwnOpsGood
<1> QED BY <1>3, <1>4, <1>6, <1>7, <1>8

(* A commit makes ops the budget allowed.                                  *)
LEMMA CommitWithin ==
  ASSUME OwnPeers, NInv, imp.phase \in {"idle", "recv"},
         NEW d \in Docs, NEW msg \in Msgs, NEW ts \in Times, CloseTx(d, msg, ts),
         \A e \in Docs : Settled(e)' = oplog'[e]
  PROVE  /\ Within(AllSettled') /\ \A e \in Docs : tx'[e].next <= Budget[PeerOf[e]]
         /\ AllSettled'[d] = oplog'[d]
<1>1. /\ \A e \in Docs : AllSettled[e] = oplog[e] /\ AllSettled'[e] = oplog'[e]
      /\ \A e \in Docs \ {d} : oplog'[e] = oplog[e]
      /\ DOMAIN oplog'[d].store = DOMAIN oplog[d].store \cup Uncommitted(d)
      /\ tx' = [tx EXCEPT ![d] = NoTx]
  BY Committed DEF NInv
<1>2. PeerOf[d] \in Peers /\ \A p \in Peers : Budget[p] \in Nat
  BY ConstantsAssumption
<1>3. tx \in [Docs -> Transaction]
  BY DEF NInv, RInv, AInv, IInv
<1>4. Uncommitted(d) \subseteq Nameable
  <2>1. tx[d].start \in Nat /\ tx[d].next \in Nat /\ tx[d].next <= Budget[PeerOf[d]]
    BY <1>3 DEF NInv, Transaction
  <2>2. tx[d].start .. tx[d].next - 1 \subseteq 0 .. Budget[PeerOf[d]] - 1
    BY <1>2, <2>1
  <2> QED BY <1>2, <2>2 DEF Uncommitted, Nameable
<1>5. Within(AllSettled')
  BY <1>1, <1>4 DEF NInv, Within
<1>6. \A e \in Docs : tx'[e].next <= Budget[PeerOf[e]]
  <2>1. \A e \in Docs : Budget[PeerOf[e]] \in Nat
    BY ConstantsAssumption
  <2> QED BY <1>1, <1>3, <2>1 DEF NInv, NoTx
<1> QED BY <1>1, <1>5, <1>6

(* A local operation is one the budget allows.                             *)
LEMMA EditWithin ==
  ASSUME NInv, NEW d \in Docs, Edit(d) \/ RefusedEdit(d)
  PROVE  AllSettled' = AllSettled /\ \A e \in Docs : tx'[e].next <= Budget[PeerOf[e]]
<1> DEFINE b == Begin(d)
           n == Budget[PeerOf[d]]
<1>1. imp.phase = "idle" /\ oplog' = oplog /\ imp' = imp
  BY DEF Edit, RefusedEdit
<1>2. IInv /\ tx \in [Docs -> Transaction]
  BY DEF NInv, RInv, AInv, IInv
<1>3. AllSettled' = AllSettled
  <2>1. \A e \in Docs : Settled(e)' = Settled(e)
    BY <1>1 DEF Settled
  <2> QED BY <2>1 DEF AllSettled
<1>4. b \in Transaction /\ n \in Nat
  BY <1>2, BeginFits, ConstantsAssumption DEF TxFits
<1>5. ~tx[d].open => b.next = oplog[d].vv[PeerOf[d]]
  BY DEF Begin
<1>6. oplog[d].vv[PeerOf[d]] <= n
  <2> DEFINE p == PeerOf[d]
             l == oplog[d]
             v == l.vv[p]
             last == <<p, v - 1>>
  <2>1. l.vv \in [Peers -> Nat] /\ DOMAIN l.store = Below(l.vv) /\ p \in Peers
    BY <1>2, ConstantsAssumption DEF IInv, LogOK, LogType
  <2>2. v \in Nat
    BY <2>1
  <2>3. DOMAIN l.store \subseteq Nameable
    BY <1>1, SettledLogs DEF NInv, Within
  <2> SUFFICES ASSUME v > 0 PROVE v <= n
    BY <1>4, <2>2
  <2>4. last \in ID /\ last[1] = p /\ last[2] = v - 1
    BY <2>1, <2>2 DEF ID
  <2> HIDE DEF l, last
  <2>5. last \in Below(l.vv)
    <3>1. last[2] < l.vv[last[1]]
      BY <2>2, <2>4
    <3> QED BY <2>1, <2>4, <3>1, BelowMember
  <2>6. PICK q \in Peers : last \in {q} \X (0 .. Budget[q] - 1)
    BY <2>1, <2>3, <2>5 DEF Nameable
  <2>7. last[2] <= n - 1
    BY <2>4, <2>6
  <2> QED BY <1>4, <2>2, <2>4, <2>7
<1> HIDE DEF b, n
<1>7. CASE Edit(d)
  <2>1. b.next < n /\ tx' = [tx EXCEPT ![d] = [b EXCEPT !.next = b.next + 1]]
    BY <1>7 DEF Edit, b, n
  <2>2. tx'[d].next = b.next + 1 /\ b.next \in Nat /\ \A e \in Docs \ {d} : tx'[e] = tx[e]
    BY <1>2, <1>4, <2>1 DEF Transaction
  <2>3. tx'[d].next <= n
    BY <1>4, <2>1, <2>2
  <2> QED BY <1>3, <2>2, <2>3 DEF NInv, n
<1>8. CASE RefusedEdit(d)
  <2>1. ~tx[d].open /\ tx' = [tx EXCEPT ![d] = b]
    BY <1>8 DEF RefusedEdit, b
  <2>2. tx'[d] = b /\ \A e \in Docs \ {d} : tx'[e] = tx[e]
    BY <1>2, <2>1
  <2> QED BY <1>3, <1>5, <1>6, <2>1, <2>2 DEF NInv, n
<1> QED BY <1>7, <1>8

(* Every step keeps it: a commit, and the import that begins with one, ... *)
LEMMA CommitsKeepNInv ==
  ASSUME OwnPeers, NInv, RInv',
         \/ \E d \in Docs, msg \in Msgs, ts \in Times : CommitWith(d, msg, ts)
         \/ \E s, d \in Docs, ts \in Times : \E r \in Ranges : ExportRange(s, d, r, ts)
         \/ \E s, d \in Docs, ts \in Times : ExportSnapshot(s, d, ts)
         \/ \E ts \in Times : ImportBegin(ts)
  PROVE  NInv'
<1>1. NoMsg \in Msgs
  BY ConstantsAssumption
<1>2. CASE \E d \in Docs, msg \in Msgs, ts \in Times : CommitWith(d, msg, ts)
  <2>1. PICK d \in Docs, msg \in Msgs, ts \in Times : CommitWith(d, msg, ts)
    BY <1>2
  <2>2. imp.phase = "idle" /\ CloseTx(d, msg, ts) /\ imp' = imp
    BY <2>1 DEF CommitWith
  <2>3. \A e \in Docs : Settled(e)' = oplog'[e]
    BY <2>2 DEF Settled
  <2>4. Within(AllSettled') /\ \A e \in Docs : tx'[e].next <= Budget[PeerOf[e]]
    BY <2>2, <2>3, CommitWithin
  <2> QED BY <2>2, <2>4 DEF NInv, NeverRefused
<1>3. CASE \E s, d \in Docs, ts \in Times :
             (\E r \in Ranges : ExportRange(s, d, r, ts)) \/ ExportSnapshot(s, d, ts)
  <2>1. PICK s \in Docs, d \in Docs, ts \in Times :
          (\E r \in Ranges : ExportRange(s, d, r, ts)) \/ ExportSnapshot(s, d, ts)
    BY <1>3
  <2>2. imp.phase = "idle" /\ CloseTx(s, NoMsg, ts) /\ imp'.phase = "recv"
    BY <2>1 DEF ExportRange, ExportSnapshot, Deliver
  <2>3. \A e \in Docs : Settled(e)' = oplog'[e]
    BY <2>2 DEF Settled
  <2>4. Within(AllSettled') /\ \A e \in Docs : tx'[e].next <= Budget[PeerOf[e]]
    BY <1>1, <2>2, <2>3, CommitWithin
  <2> QED BY <2>2, <2>4 DEF NInv, NeverRefused
<1>4. CASE \E ts \in Times : ImportBegin(ts)
  <2>1. PICK ts \in Times : ImportBegin(ts)
    BY <1>4
  <2> DEFINE l == oplog'[imp.doc]
  <2>2. imp.phase = "recv" /\ CloseTx(imp.doc, NoMsg, ts)
    BY <2>1 DEF ImportBegin
  <2>3. ImportType(imp) /\ imp.doc \in Docs
    BY <2>2 DEF NInv, RInv, AInv, IInv, ImportFits, ImportType
  <2>4. PICK order, inPlace :
          imp' = [imp EXCEPT !.phase = "check", !.order = order, !.saved = l,
                             !.ends = <<l.vv>>, !.inPlace = inPlace]
    BY <2>1 DEF ImportBegin
  <2> HIDE DEF l
  <2>5. /\ imp'.phase = "check" /\ imp'.doc = imp.doc /\ imp'.saved = l
        /\ imp'.ends = <<l.vv>>
    BY <2>3, <2>4 DEF ImportType
  <2>6. \A e \in Docs : Settled(e)' = oplog'[e]
    BY <2>5 DEF Settled, l
  <2>7. /\ Within(AllSettled') /\ \A e \in Docs : tx'[e].next <= Budget[PeerOf[e]]
        /\ AllSettled'[imp.doc] = l
    BY <1>1, <2>2, <2>3, <2>6, CommitWithin DEF l
  <2>8. LogOK(l) /\ Copies(AllSettled', l)
    <3>1. World(AllSettled')
      BY DEF RInv, AInv
    <3> QED BY <2>3, <2>7, <3>1 DEF World, TrueLog
  <2>9. Grounded(AllSettled', l.vv)
    BY <2>8, LogGrounded
  <2>10. imp'.ends[Len(imp'.ends)] = l.vv
    BY <2>5
  <2> QED BY <2>5, <2>7, <2>9, <2>10 DEF NInv, NeverRefused
<1> QED BY <1>2, <1>3, <1>4

(* ... a step of the replay or a pass, and the end of an import.           *)
LEMMA ImportKeepsNInv ==
  ASSUME OwnPeers, NInv, AInv',
         \/ CheckStep \/ CheckDone \/ MainDone \/ PendingDone \/ ParkDone
         \/ MainStep \/ PendingPop \/ PendingTry \/ ParkStep
  PROVE  NInv'
<1>1. imp.phase \in Steps /\ UNCHANGED tx
  BY DEF CheckStep, CheckDone, MainDone, PendingDone, ParkDone, MainStep, PendingPop,
         PendingTry, ParkStep, Steps
<1>2. RInv' /\ AllSettled' = AllSettled
  BY TurnGathers, MainStepGathers, PopGathers, PendingTryGathers, ParkStepGathers DEF NInv
<1>3. Within(AllSettled') /\ \A d \in Docs : tx'[d].next <= Budget[PeerOf[d]]
  BY <1>1, <1>2 DEF NInv
<1>4. ImportType(imp)
  BY <1>1, Gathered DEF NInv
<1>5. CASE CheckStep
  <2> DEFINE k == Len(imp.ends)
             c == imp.order[k]
             e == imp.ends[k]
             x == Append(imp.ends, Replayed(c, e))
  <2>1. imp.phase = "check" /\ k <= Len(imp.order) /\ (ReadyAt(c, e) => c.start <= e[c.peer])
    BY <1>5 DEF CheckStep
  <2>2. /\ c \in Change /\ TrueChange(AllSettled, c)
        /\ e \in [Peers -> Nat] /\ Grounded(AllSettled, e)
    BY <2>1, CheckedNext
  <2>3. imp' = [imp EXCEPT !.ends = x]
    BY <1>5 DEF CheckStep
  <2>4. imp'.ends = x /\ imp'.phase = "check"
    BY <1>4, <2>1, <2>3 DEF ImportType
  <2> HIDE DEF c, e
  <2>5. Replayed(c, e) \in [Peers -> Nat] /\ Grounded(AllSettled, Replayed(c, e))
    BY <2>1, <2>2, ReplayedGrounded
  <2>6. x[Len(x)] = Replayed(c, e)
    <3>1. imp.ends \in Seq([Peers -> Nat])
      BY <1>4 DEF ImportType
    <3> QED BY <2>5, <3>1, AppendProperties
  <2> HIDE DEF x
  <2> QED BY <1>2, <1>3, <2>4, <2>5, <2>6 DEF NInv, NeverRefused
<1>6. CASE ~CheckStep
  <2>1. CASE CheckDone
    <3>1. imp'.phase = "main"
      BY <1>4, <2>1 DEF CheckDone, ImportType
    <3> QED BY <1>2, <1>3, <3>1 DEF NInv, NeverRefused
  <2>2. CASE MainDone \/ PendingDone \/ ParkDone
    <3>1. PICK x \in {"pending", "build", "park"} : imp' = [imp EXCEPT !.phase = x]
      BY <2>2 DEF MainDone, PendingDone, ParkDone
    <3>2. imp'.phase = x
      BY <1>4, <3>1 DEF ImportType
    <3> QED BY <1>2, <1>3, <3>1, <3>2 DEF NInv, NeverRefused
  <2>3. CASE MainStep \/ PendingPop \/ PendingTry \/ ParkStep
    <3>1. imp'.phase = imp.phase /\ imp.phase \in {"main", "pending", "park"}
      BY <1>4, <2>3 DEF MainStep, PendingPop, PendingTry, ParkStep, Settle, ImportType
    <3> QED BY <1>2, <1>3, <3>1 DEF NInv, NeverRefused
  <2> QED BY <1>6, <2>1, <2>2, <2>3
<1> QED BY <1>5, <1>6

(* The end of an import shows what it brought.                             *)
LEMMA FinishKeepsNInv ==
  ASSUME OwnPeers, NInv, RInv', Finish
  PROVE  NInv'
<1> DEFINE l == oplog[imp.doc]
<1>1. imp.phase = "build" /\ imp.phase \in Steps /\ imp' = Idle("ok") /\ tx' = tx
  BY DEF Finish, Steps
<1>2. /\ ImportFits(imp, l, tx[imp.doc]) /\ imp.doc \in Docs
      /\ TrueLog(AllSettled, l) /\ AInv
  BY <1>1, InImport, InFlightNow DEF NInv, RInv, AInv
<1>3. \A d \in Docs : oplog'[d] = oplog[d]
  BY <1>2, FinishMovesNothing DEF AInv
<1>4. ASSUME NEW d \in Docs PROVE DOMAIN AllSettled'[d].store \subseteq Nameable
  <2>1. AllSettled'[d] = oplog[d]
    BY <1>1, <1>3 DEF AllSettled, Settled, Idle
  <2>2. CASE d = imp.doc
    <3>1. \A i \in DOMAIN l.store : \E e \in Docs : i \in DOMAIN AllSettled[e].store
      BY <1>2 DEF TrueLog, Copies, Original
    <3> QED BY <2>1, <2>2, <3>1 DEF NInv, Within
  <2>3. CASE d # imp.doc
    <3>1. AllSettled[d] = oplog[d]
      BY <1>1, <2>3 DEF AllSettled, Settled
    <3> QED BY <2>1, <3>1 DEF NInv, Within
  <2> QED BY <2>2, <2>3
<1>5. Within(AllSettled')
  BY <1>4 DEF Within
<1> QED BY <1>1, <1>5 DEF NInv, NeverRefused, Idle

(* Every step keeps it.                                                    *)
LEMMA NextKeepsNInv ==
  ASSUME OwnPeers, NoOthers, Bounded, OwnOpsGood, LamportsSuffice, NInv, [Next]_vars
  PROVE  NInv'
<1>1. RInv' /\ AInv'
  BY NextMaps DEF NInv, RInv
<1>2. CASE \E d \in Docs : Edit(d) \/ RefusedEdit(d)
  <2>1. imp' = imp /\ imp.phase = "idle"
    BY <1>2 DEF Edit, RefusedEdit
  <2>2. AllSettled' = AllSettled /\ \A e \in Docs : tx'[e].next <= Budget[PeerOf[e]]
    BY <1>2, EditWithin
  <2> QED BY <1>1, <2>1, <2>2 DEF NInv, NeverRefused
<1>3. CASE \/ \E d \in Docs, msg \in Msgs, ts \in Times : CommitWith(d, msg, ts)
           \/ \E s, d \in Docs, ts \in Times : \E r \in Ranges : ExportRange(s, d, r, ts)
           \/ \E s, d \in Docs, ts \in Times : ExportSnapshot(s, d, ts)
           \/ \E ts \in Times : ImportBegin(ts)
  BY <1>1, <1>3, CommitsKeepNInv
<1>5. CASE ImportStep
  <2>1. ~(CheckRefuses \/ MainRefuses \/ PendingRefuses \/ ParkRefuses \/ BuildRefuses)
    BY NoneRefuses
  <2>2. CASE \/ CheckStep \/ CheckDone \/ MainDone \/ PendingDone \/ ParkDone
             \/ MainStep \/ PendingPop \/ PendingTry \/ ParkStep
    BY <1>1, <2>2, ImportKeepsNInv
  <2>3. CASE Finish
    BY <1>1, <2>3, FinishKeepsNInv
  <2> QED BY <1>3, <1>5, <2>1, <2>2, <2>3 DEF ImportStep
<1>6. CASE UNCHANGED vars
  <2>1. UNCHANGED <<oplog, tx, imp>>
    BY <1>6 DEF vars
  <2>2. \A d \in Docs : Settled(d)' = Settled(d)
    BY <2>1 DEF Settled
  <2>3. AllSettled' = AllSettled
    BY <2>2 DEF AllSettled
  <2> QED BY <1>1, <2>1, <2>3 DEF NInv, NeverRefused
<1> QED BY <1>2, <1>3, <1>5, <1>6 DEF Next, NoOthers

(* Documents that edit under peer ids of their own take each other's       *)
(* exports, whatever is in them and in whatever order they arrive:         *)
(* checkKnown finds no id used twice and no counter skipped, no lamport    *)
(* that does not continue its peer's, and no op the state cannot show.     *)
(* The code checks the lamport limit where it takes a change in and not    *)
(* where it makes one, so there must be a lamport for every op made.       *)
THEOREM NoneRefused ==
  ASSUME OwnPeers, NoOthers, Bounded, OwnOpsGood, LamportsSuffice
  PROVE  Spec => []NeverRefused
<1>1. Init => NInv
  <2> SUFFICES ASSUME Init PROVE NInv
    OBVIOUS
  <2>1. RInv
    BY InitMaps
  <2>2. imp = Idle("ok") /\ tx = [d \in Docs |-> NoTx] /\ \A d \in Docs : oplog[d] = EmptyLog
    BY DEF Init
  <2>3. Within(AllSettled)
    BY <2>2 DEF AllSettled, Settled, Idle, EmptyLog, Within
  <2>4. \A d \in Docs : tx[d].next <= Budget[PeerOf[d]]
    <3>1. \A d \in Docs : Budget[PeerOf[d]] \in Nat
      BY ConstantsAssumption
    <3> QED BY <2>2, <3>1 DEF NoTx
  <2> QED BY <2>1, <2>2, <2>3, <2>4 DEF NInv, NeverRefused, Idle
<1>2. NInv /\ [Next]_vars => NInv'
  BY NextKeepsNInv
<1>3. NInv => NeverRefused
  BY DEF NInv
<1> QED BY <1>1, <1>2, <1>3, PTL DEF Spec

=============================================================================
