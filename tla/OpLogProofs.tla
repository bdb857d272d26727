----------------------------- MODULE OpLogProofs -----------------------------
(***************************************************************************)
(* Proofs about OpLog, for any number of documents, peers, operations and  *)
(* blobs.  A snapshot that replaces an empty document's history installs   *)
(* its frontiers as they are stored, so those of other implementations are *)
(* assumed to be whole (SnapshotsWhole); that the documents' own are is    *)
(* proved.  A snapshot that is trimmed to what a document lacks is sorted  *)
(* again after it was checked, so the theorems are about the runs in which *)
(* those that get to a document with a history keep causes first through   *)
(* that (SnapshotsInOrder).  MCOpLog's ResortedBlobs do not;               *)
(* OpLogAgreement proves it of the documents' own, and updates need no     *)
(* such condition (UpdatesKeepHistories).  What the operations of the log  *)
(* keep comes first, then the invariant and the steps that keep it.        *)
(***************************************************************************)
EXTENDS OpLog, TLAPS, FiniteSetTheorems, WellFoundedInduction, SequenceTheorems

(* The ids of a set of changes.                                            *)
IdsIn(C) == UNION {IdsOf(c) : c \in C}

(* The ops of a set of changes that no other depends on and that end their *)
(* peer's history.                                                         *)
Heads(C) ==
  {i \in IdsIn(C) : <<i[1], i[2] + 1>> \notin IdsIn(C) /\ \A c \in C : i \notin c.deps}

(* A snapshot that names each op once, has what its changes depend on, at  *)
(* lower lamports, and lists its heads.                                    *)
WholeHistory(b) ==
  /\ \A c, e \in b.changes : c # e => IdsOf(c) \cap IdsOf(e) = {}
  /\ \A c \in b.changes : \A j \in c.deps : \E e \in b.changes : j \in IdsOf(e) /\ e.lam < c.lam
  /\ b.fr = Heads(b.changes)

SnapshotsWhole == \A b \in Foreign : b.snapshot => WholeHistory(b)

(* The ops to be applied before a change: its deps and the one before it   *)
(* on its peer.                                                            *)
Causes(c) == c.deps \cup (IF c.start = 0 THEN {} ELSE {<<c.peer, c.start - 1>>})

(* Every change of a blob lies past its causes by the blob's lamports, that *)
(* of an op inside a change counted from the change's.  Then whatever is   *)
(* cut off its changes, by lamport the rest still has causes first.        *)
InOrder(b) ==
  \A c \in b.changes : \A j \in Causes(c) :
    \E e \in b.changes : j \in IdsOf(e) /\ e.lam + (j[2] - e.start) < c.lam

(* So are the snapshots that get to documents with a history.              *)
SnapshotsInOrder ==
  imp.phase = "check" /\ imp.blob.snapshot /\ ~imp.inPlace => InOrder(imp.blob)

-----------------------------------------------------------------------------
(* A finite set of numbers has a highest one (nextLamport and              *)
(* greatestTimestamp loop over the frontiers for it).                      *)
LEMMA HighestProperties ==
  ASSUME NEW S \in SUBSET Nat, IsFiniteSet(S), S # {}
  PROVE  Highest(S) \in S /\ \A m \in S : m <= Highest(S)
<1> DEFINE Tops == {A \in SUBSET S : A # {} /\ \A m \in S : \E a \in A : m <= a}
<1>1. IsWellFoundedOn(StrictSubsetOrdering(S), FiniteSubsetsOf(S))
  BY FS_StrictSubsetOrderingWellFounded
<1>2. Tops \subseteq FiniteSubsetsOf(S)
  BY FS_Subset DEF FiniteSubsetsOf
<1>3. Tops # {}
  <2>1. S \in Tops  OBVIOUS
  <2> QED BY <2>1
<1>4. PICK A \in Tops : \A B \in Tops : <<B, A>> \notin StrictSubsetOrdering(S)
  <2> HIDE DEF Tops
  <2> QED BY <1>1, <1>2, <1>3, WFMin
<1>5. PICK a \in A : TRUE
  OBVIOUS
<1>6. \A b \in A : b <= a
  <2> SUFFICES ASSUME NEW b \in A, a < b PROVE FALSE
    OBVIOUS
  <2>1. A \ {a} \in Tops
    OBVIOUS
  <2>2. <<A \ {a}, A>> \in StrictSubsetOrdering(S)
    BY DEF StrictSubsetOrdering
  <2> QED BY <1>4, <2>1, <2>2
<1>7. a \in S /\ \A m \in S : m <= a
  BY <1>6
<1> HIDE DEF Tops
<1> QED BY <1>7 DEF Highest

(* The same for the numbers a function gives to a finite set, and 0.       *)
LEMMA HighestOfImage ==
  ASSUME NEW ids, IsFiniteSet(ids), NEW f \in [ids -> Nat]
  PROVE  /\ Highest({0} \cup {f[i] : i \in ids}) \in Nat
         /\ \A i \in ids : f[i] <= Highest({0} \cup {f[j] : j \in ids})
<1> DEFINE T == {f[i] : i \in ids}
<1>1. f \in Surjection(ids, T)
  BY DEF Surjection
<1>2. IsFiniteSet(T)
  BY <1>1, FS_Surjection
<1>3. IsFiniteSet({0} \cup T)
  BY <1>2, FS_Singleton, FS_Union
<1>4. T \subseteq Nat
  OBVIOUS
<1>5. {0} \cup T \in SUBSET Nat /\ {0} \cup T # {}
  BY <1>4
<1>6. \A m \in {0} \cup T : m <= Highest({0} \cup T)
  <2> HIDE DEF T
  <2> QED BY <1>3, <1>5, HighestProperties
<1>7. Highest({0} \cup T) \in Nat
  <2> HIDE DEF T
  <2> QED BY <1>3, <1>5, HighestProperties
<1> QED BY <1>6, <1>7

(* The next lamport lies past those of the ids it is taken from.           *)
LEMMA NextLamportAbove ==
  ASSUME NEW l, LogType(l), NEW ids, IsFiniteSet(ids)
  PROVE  /\ NextLamport(l, ids) \in Nat
         /\ \A i \in ids \cap DOMAIN l.store : l.store[i].lam < NextLamport(l, ids)
<1> DEFINE known == ids \cap DOMAIN l.store
           f == [i \in known |-> l.store[i].lam + 1]
<1>1. IsFiniteSet(known)
  BY FS_Intersection
<1>2. \A i \in DOMAIN l.store : l.store[i].lam \in Nat
  BY DEF LogType, Atom
<1>3. f \in [known -> Nat]
  BY <1>2
<1>4. {f[i] : i \in known} = {l.store[i].lam + 1 : i \in known}
  OBVIOUS
<1>5. NextLamport(l, ids) = Highest({0} \cup {f[i] : i \in known})
  BY <1>4 DEF NextLamport
<1>6. /\ Highest({0} \cup {f[i] : i \in known}) \in Nat
      /\ \A i \in known : f[i] <= Highest({0} \cup {f[j] : j \in known})
  <2> HIDE DEF known, f
  <2> QED BY <1>1, <1>3, HighestOfImage
<1>7. \A i \in known : f[i] = l.store[i].lam + 1
  OBVIOUS
<1>8. \A i \in known : l.store[i].lam + 1 <= NextLamport(l, ids)
  <2> HIDE DEF f
  <2> QED BY <1>5, <1>6, <1>7
<1>9. NextLamport(l, ids) \in Nat
  <2> HIDE DEF f
  <2> QED BY <1>5, <1>6
<1> HIDE DEF f
<1> QED BY <1>2, <1>8, <1>9

(* The floor under a commit's timestamp is not below those of the ids it   *)
(* is taken from.                                                          *)
LEMMA GreatestTimestampAbove ==
  ASSUME NEW l, LogType(l), NEW ids, IsFiniteSet(ids)
  PROVE  /\ GreatestTimestamp(l, ids) \in Nat
         /\ \A i \in ids \cap DOMAIN l.store : l.store[i].ts <= GreatestTimestamp(l, ids)
<1> DEFINE known == ids \cap DOMAIN l.store
           f == [i \in known |-> l.store[i].ts]
<1>1. IsFiniteSet(known)
  BY FS_Intersection
<1>2. \A i \in DOMAIN l.store : l.store[i].ts \in Nat
  BY DEF LogType, Atom
<1>3. f \in [known -> Nat]
  BY <1>2
<1>4. {f[i] : i \in known} = {l.store[i].ts : i \in known}
  OBVIOUS
<1>5. GreatestTimestamp(l, ids) = Highest({0} \cup {f[i] : i \in known})
  BY <1>4 DEF GreatestTimestamp
<1>6. /\ Highest({0} \cup {f[i] : i \in known}) \in Nat
      /\ \A i \in known : f[i] <= Highest({0} \cup {f[j] : j \in known})
  <2> HIDE DEF known, f
  <2> QED BY <1>1, <1>3, HighestOfImage
<1>7. \A i \in known : f[i] = l.store[i].ts
  OBVIOUS
<1> HIDE DEF f
<1> QED BY <1>5, <1>6, <1>7

-----------------------------------------------------------------------------
(* The ops of a store that no other depends on and that end their peer's   *)
(* history: what the frontiers should be.                                  *)
Maximal(store) ==
  {i \in DOMAIN store : /\ \A j \in DOMAIN store : i \notin store[j].deps
                        /\ <<i[1], i[2] + 1>> \notin DOMAIN store}

(* What holds of every log the code keeps.                                 *)
LogOK(l) ==
  /\ LogType(l)
  /\ DOMAIN l.store = Below(l.vv)
  /\ \A i \in DOMAIN l.store : \A j \in l.store[i].deps :
       j \in DOMAIN l.store /\ l.store[j].lam < l.store[i].lam
  /\ l.fr = Maximal(l.store)

(* Which ids lie below a version vector (opLog.has).                       *)
LEMMA BelowMember ==
  ASSUME NEW vv \in [Peers -> Nat], NEW i
  PROVE  i \in Below(vv) <=> i \in ID /\ i[2] < vv[i[1]]
BY DEF Below, ID

(* A change goes in where the log of its peer ends.                        *)
Fits(l, c) ==
  /\ c \in Change
  /\ c.start = l.vv[c.peer]
  /\ \A j \in c.deps : j \in DOMAIN l.store /\ l.store[j].lam < c.lam

(* Merged into the change before it, it fits as well.                      *)
LEMMA MergedFits ==
  ASSUME NEW l, LogOK(l), NEW c, Fits(l, c), NEW interval,
         CanMergeRight(l.store, c, interval)
  PROVE  /\ Fits(l, Merged(l.store, c))
         /\ Merged(l.store, c).peer = c.peer
         /\ Merged(l.store, c).end = c.end
<1> DEFINE last == <<c.peer, c.start - 1>>
           m == Merged(l.store, c)
<1>1. last \in DOMAIN l.store /\ last \in ID
  BY DEF CanMergeRight, LogOK, LogType
<1>2. l.store[last] \in Atom
  BY <1>1 DEF LogOK, LogType
<1>3. l.store[last].lam \in Nat /\ l.store[last].ts \in Nat
  BY <1>2 DEF Atom
<1>4. IsFiniteSet({last})
  BY FS_Singleton
<1>5. m \in Change
  <2> DEFINE R == [peer : Peers, start : Nat, end : Nat, deps : SUBSET ID, lam : Nat,
                   ts : Nat, msg : Msgs, by : Writers]
  <2>1. c \in R /\ c.start < c.end
    BY DEF Fits, Change
  <2> DEFINE c1 == [c EXCEPT !.deps = {last}]
             c2 == [c1 EXCEPT !.lam = l.store[last].lam + 1]
             c3 == [c2 EXCEPT !.ts = l.store[last].ts]
  <2>2. c1 \in R /\ c1.start = c.start /\ c1.end = c.end /\ c1.deps = {last}
    BY <1>1, <2>1
  <2>3. c2 \in R /\ c2.start = c.start /\ c2.end = c.end /\ c2.deps = {last}
    <3> HIDE DEF c1
    <3> QED BY <1>3, <2>2
  <2>4. c3 \in R /\ c3.start = c.start /\ c3.end = c.end /\ c3.deps = {last}
    <3> HIDE DEF c2
    <3> QED BY <1>3, <2>3
  <2>5. m = c3
    BY DEF Merged
  <2> HIDE DEF c3
  <2> QED BY <1>4, <2>1, <2>4, <2>5 DEF Change
<1>6. m.start = c.start /\ m.peer = c.peer /\ m.end = c.end
      /\ m.deps = {last} /\ m.lam = l.store[last].lam + 1
  BY DEF Merged, Fits, Change
<1> QED BY <1>1, <1>3, <1>5, <1>6 DEF Fits

(* The atoms of a change.                                                  *)
LEMMA AtomsOfChange ==
  ASSUME NEW c \in Change
  PROVE  /\ AtomsOf(c) \in [IdsOf(c) -> Atom]
         /\ IdsOf(c) \subseteq ID
         /\ \A i \in IdsOf(c) :
              /\ i[1] = c.peer /\ i[2] \in c.start .. c.end - 1
              /\ i = <<c.peer, i[2]>>
              /\ AtomsOf(c)[i].deps = DepsAt(c, i[2])
              /\ AtomsOf(c)[i].lam = c.lam + (i[2] - c.start)
<1>1. /\ c.peer \in Peers /\ c.start \in Nat /\ c.end \in Nat /\ c.lam \in Nat
      /\ c.ts \in Nat /\ c.msg \in Msgs /\ c.by \in Writers /\ c.deps \subseteq ID
      /\ IsFiniteSet(c.deps)
  BY DEF Change
<1>2. \A i \in IdsOf(c) : i[1] = c.peer /\ i[2] \in c.start .. c.end - 1 /\ i = <<c.peer, i[2]>>
  BY DEF IdsOf
<1>3. IdsOf(c) \subseteq ID
  BY <1>1, <1>2 DEF ID
<1>4. ASSUME NEW i \in IdsOf(c)
      PROVE  DepsAt(c, i[2]) \subseteq ID /\ IsFiniteSet(DepsAt(c, i[2]))
  <2>1. CASE i[2] = c.start
    BY <1>1, <2>1 DEF DepsAt
  <2>2. CASE i[2] # c.start
    <3>1. <<c.peer, i[2] - 1>> \in ID
      BY <1>1, <1>2, <2>2 DEF ID
    <3> QED BY <2>2, <3>1, FS_Singleton DEF DepsAt
  <2> QED BY <2>1, <2>2
<1>5. ASSUME NEW i \in IdsOf(c)
      PROVE  /\ AtomsOf(c)[i] \in Atom
             /\ AtomsOf(c)[i].deps = DepsAt(c, i[2])
             /\ AtomsOf(c)[i].lam = c.lam + (i[2] - c.start)
  <2>1. c.lam + (i[2] - c.start) \in Nat
    BY <1>1, <1>2
  <2> QED BY <1>1, <1>4, <2>1 DEF AtomsOf, Atom
<1>6. DOMAIN AtomsOf(c) = IdsOf(c) /\ AtomsOf(c) = [i \in IdsOf(c) |-> AtomsOf(c)[i]]
  BY DEF AtomsOf
<1> QED BY <1>2, <1>3, <1>5, <1>6

(* Inserting a change that fits keeps what is there and makes no hole.     *)
LEMMA StoredCorrect ==
  ASSUME NEW l, LogOK(l), NEW c, Fits(l, c), NEW interval
  PROVE  LET s == Stored(l.store, c, interval)
             vv == [l.vv EXCEPT ![c.peer] = c.end]
         IN  /\ s \in [DOMAIN s -> Atom]
             /\ DOMAIN s = Below(vv)
             /\ DOMAIN s = DOMAIN l.store \cup IdsOf(c)
             /\ \A i \in DOMAIN l.store : s[i] = l.store[i]
             /\ \A i \in DOMAIN s : \A j \in s[i].deps : j \in DOMAIN s /\ s[j].lam < s[i].lam
<1> DEFINE m == IF CanMergeRight(l.store, c, interval) THEN Merged(l.store, c) ELSE c
           new == AtomsOf(m)
           s == Stored(l.store, c, interval)
           vv == [l.vv EXCEPT ![c.peer] = c.end]
<1>1. Fits(l, m) /\ m.peer = c.peer /\ m.end = c.end
  BY MergedFits
<1>2. m \in Change /\ m.start = c.start
  BY <1>1 DEF Fits
<1>3. IdsOf(m) = IdsOf(c)
  BY <1>1, <1>2 DEF IdsOf
<1> HIDE DEF m
<1>4. new \in [IdsOf(c) -> Atom] /\ IdsOf(c) \subseteq ID
  BY <1>2, <1>3, AtomsOfChange
<1>5. s = [i \in DOMAIN l.store \cup IdsOf(c) |-> IF i \in IdsOf(c) THEN new[i] ELSE l.store[i]]
  BY <1>4 DEF Stored, m
<1> HIDE DEF s, new
<1>6. /\ l.vv \in [Peers -> Nat] /\ DOMAIN l.store = Below(l.vv)
      /\ l.store \in [DOMAIN l.store -> Atom]
  BY DEF LogOK, LogType
<1>7. c.peer \in Peers /\ c.start \in Nat /\ c.end \in Nat /\ c.start < c.end /\ c.start = l.vv[c.peer]
  BY DEF Fits, Change
<1>8. vv \in [Peers -> Nat]
  BY <1>6, <1>7
<1>9. \A i : i \in IdsOf(c) <=> i \in ID /\ i[1] = c.peer /\ c.start <= i[2] /\ i[2] < c.end
  BY <1>7 DEF IdsOf, ID
<1>10. \A i : i \in Below(vv) <=> i \in DOMAIN l.store \/ i \in IdsOf(c)
  <2> TAKE i
  <2>1. i \in Below(vv) <=> i \in ID /\ i[2] < vv[i[1]]
    BY <1>8, BelowMember
  <2>2. i \in DOMAIN l.store <=> i \in ID /\ i[2] < l.vv[i[1]]
    BY <1>6, BelowMember
  <2>3. ASSUME i \in ID PROVE i[1] \in Peers /\ i[2] \in Nat
    BY <2>3 DEF ID
  <2> QED BY <1>6, <1>7, <1>9, <2>1, <2>2, <2>3
<1>11. DOMAIN s = Below(vv) /\ DOMAIN s = DOMAIN l.store \cup IdsOf(c)
  BY <1>5, <1>10
<1>12. \A i \in DOMAIN l.store : i \notin IdsOf(c)
  <2>1. \A i \in DOMAIN l.store : i \in ID /\ i[2] < l.vv[i[1]]
    BY <1>6, BelowMember
  <2> QED BY <1>6, <1>7, <1>9, <2>1 DEF ID
<1>13. \A i \in DOMAIN l.store : s[i] = l.store[i]
  BY <1>5, <1>12
<1>14. s \in [DOMAIN s -> Atom]
  BY <1>4, <1>5, <1>6
<1>15. ASSUME NEW i \in DOMAIN l.store, NEW j \in s[i].deps
       PROVE  j \in DOMAIN s /\ s[j].lam < s[i].lam
  BY <1>11, <1>13 DEF LogOK
<1>16. ASSUME NEW i \in IdsOf(c), NEW j \in s[i].deps
       PROVE  j \in DOMAIN s /\ s[j].lam < s[i].lam
  <2>1. s[i] = new[i] /\ new[i].deps = DepsAt(m, i[2]) /\ new[i].lam = m.lam + (i[2] - m.start)
    BY <1>2, <1>3, <1>5, AtomsOfChange DEF new
  <2>2. i[2] \in Nat /\ i[1] = c.peer /\ m.lam \in Nat
    BY <1>2, <1>9 DEF ID, Change
  <2>3. CASE i[2] = m.start
    <3>1. j \in m.deps
      BY <2>1, <2>3 DEF DepsAt
    <3>2. j \in DOMAIN l.store /\ l.store[j].lam < m.lam
      BY <1>1, <3>1 DEF Fits
    <3>3. j \in DOMAIN s /\ s[j] = l.store[j]
      BY <1>11, <1>13, <3>2
    <3>4. s[i].lam = m.lam
      BY <1>2, <1>7, <2>1, <2>2, <2>3
    <3> QED BY <3>2, <3>3, <3>4
  <2>4. CASE i[2] # m.start
    <3>1. j = <<c.peer, i[2] - 1>>
      BY <1>1, <2>1, <2>4 DEF DepsAt
    <3>2. j \in IdsOf(c)
      BY <1>2, <1>7, <1>9, <2>2, <2>4, <3>1 DEF ID
    <3>3. s[j] = new[j] /\ new[j].lam = m.lam + (j[2] - m.start)
      BY <1>2, <1>3, <1>5, <3>2, AtomsOfChange DEF new
    <3>4. j[2] = i[2] - 1
      BY <3>1
    <3> QED BY <1>2, <1>7, <1>11, <2>1, <2>2, <3>2, <3>3, <3>4
  <2> QED BY <2>3, <2>4
<1>17. \A i \in DOMAIN s : \A j \in s[i].deps : j \in DOMAIN s /\ s[j].lam < s[i].lam
  BY <1>11, <1>15, <1>16
<1> HIDE DEF vv
<1> QED BY <1>11, <1>13, <1>14, <1>17 DEF s, vv

(* What a change that fits makes of the frontiers: those of its peer and   *)
(* its dependencies leave, its last op enters.                             *)
NewFrontiers(l, c) == {i \in l.fr : i[1] # c.peer /\ i \notin c.deps} \cup {LastID(c)}

(* They are the maximal ops of the new store.                              *)
LEMMA StoredMaximal ==
  ASSUME NEW l, LogOK(l), NEW c, Fits(l, c), NEW interval
  PROVE  Maximal(Stored(l.store, c, interval)) = NewFrontiers(l, c)
<1> DEFINE s == Stored(l.store, c, interval)
           vv == [l.vv EXCEPT ![c.peer] = c.end]
           merges == CanMergeRight(l.store, c, interval)
           m == IF merges THEN Merged(l.store, c) ELSE c
           last == LastID(c)
<1>1. Fits(l, m) /\ m.peer = c.peer /\ m.end = c.end /\ m.start = c.start
  BY MergedFits DEF Fits
<1>2. m.deps = IF merges THEN {<<c.peer, c.start - 1>>} ELSE c.deps
  <2>1. c \in Change
    BY DEF Fits
  <2> QED BY <2>1 DEF Merged, Change
<1>3. merges => \E i \in c.deps : c.deps = {i} /\ i[1] = c.peer
  BY DEF CanMergeRight
<1>4. /\ c.peer \in Peers /\ c.start \in Nat /\ c.end \in Nat /\ c.start < c.end
      /\ c.start = l.vv[c.peer] /\ l.vv \in [Peers -> Nat] /\ l.fr = Maximal(l.store)
      /\ DOMAIN l.store = Below(l.vv)
      /\ \A i \in DOMAIN l.store : l.store[i].deps \subseteq DOMAIN l.store
  BY DEF Fits, Change, LogOK, LogType
<1>5. /\ DOMAIN s = Below(vv) /\ DOMAIN s = DOMAIN l.store \cup IdsOf(c)
      /\ \A i \in DOMAIN l.store : s[i] = l.store[i]
  BY StoredCorrect
<1>6. \A i : i \in IdsOf(c) <=> i \in ID /\ i[1] = c.peer /\ c.start <= i[2] /\ i[2] < c.end
  BY <1>4 DEF IdsOf, ID
<1>7. \A i \in DOMAIN l.store : i \in ID /\ i[2] < l.vv[i[1]] /\ i \notin IdsOf(c)
  <2>1. \A i \in DOMAIN l.store : i \in ID /\ i[2] < l.vv[i[1]]
    BY <1>4, BelowMember
  <2> QED BY <1>4, <1>6, <2>1 DEF ID
<1>8. \A i \in IdsOf(c) : s[i].deps = DepsAt(m, i[2])
  <2>1. IdsOf(m) = IdsOf(c) /\ m \in Change
    BY <1>1 DEF IdsOf, Fits
  <2>2. \A i \in IdsOf(c) : s[i] = AtomsOf(m)[i]
    BY <2>1, AtomsOfChange DEF Stored
  <2> QED BY <2>1, <2>2, AtomsOfChange
<1>9. m.deps \subseteq DOMAIN l.store
  BY <1>1 DEF Fits
<1> HIDE DEF s, vv, merges, m
<1>10. ASSUME NEW i \in DOMAIN l.store
       PROVE  i \in Maximal(s) <=> i \in l.fr /\ i[1] # c.peer /\ i \notin c.deps
  <2>1. i \in ID /\ i[1] \in Peers /\ i[2] \in Nat /\ i[2] < l.vv[i[1]] /\ i \notin IdsOf(c)
        /\ <<i[1], i[2] + 1>> \in ID
    BY <1>7 DEF ID
  <2>2. CASE i[1] = c.peer
    <3>1. <<i[1], i[2] + 1>> \in DOMAIN s
      <4>1. CASE i[2] + 1 < c.start
        BY <1>4, <1>5, <2>1, <2>2, <4>1, BelowMember
      <4>2. CASE i[2] + 1 = c.start
        BY <1>4, <1>5, <1>6, <2>1, <2>2, <4>2
      <4> QED BY <1>4, <2>1, <2>2, <4>1, <4>2
    <3> QED BY <2>2, <3>1 DEF Maximal
  <2>3. CASE i[1] # c.peer
    <3>1. <<i[1], i[2] + 1>> \in DOMAIN s <=> <<i[1], i[2] + 1>> \in DOMAIN l.store
      BY <1>5, <1>6, <2>3
    <3>2. \A j \in DOMAIN l.store : s[j].deps = l.store[j].deps
      BY <1>5
    <3>3. (\E j \in IdsOf(c) : i \in s[j].deps) <=> i \in m.deps
      <4>1. ASSUME NEW j \in IdsOf(c), i \in s[j].deps PROVE i \in m.deps
        <5>1. i \in DepsAt(m, j[2])
          BY <1>8, <4>1
        <5>2. i # <<m.peer, j[2] - 1>>
          BY <1>1, <2>3
        <5> QED BY <5>1, <5>2 DEF DepsAt
      <4>2. ASSUME i \in m.deps PROVE \E j \in IdsOf(c) : i \in s[j].deps
        <5>1. <<c.peer, c.start>> \in IdsOf(c)
          BY <1>4, <1>6 DEF ID
        <5>2. s[<<c.peer, c.start>>].deps = m.deps
          BY <1>1, <1>8, <5>1 DEF DepsAt
        <5> QED BY <4>2, <5>1, <5>2
      <4> QED BY <4>1, <4>2
    <3>4. i \in m.deps <=> i \in c.deps
      BY <1>2, <1>3, <2>3
    <3> QED BY <1>4, <1>5, <2>3, <3>1, <3>2, <3>3, <3>4 DEF Maximal
  <2> QED BY <2>2, <2>3
<1>11. ASSUME NEW i \in IdsOf(c)
       PROVE  i \in Maximal(s) <=> i = last
  <2>1. i \in ID /\ i = <<c.peer, i[2]>> /\ i[2] \in Nat /\ c.start <= i[2] /\ i[2] < c.end
    BY <1>6 DEF ID
  <2>2. CASE i[2] + 1 < c.end
    <3>1. <<i[1], i[2] + 1>> \in IdsOf(c)
      BY <1>4, <1>6, <2>1, <2>2 DEF ID
    <3>2. i # last
      BY <1>4, <2>1, <2>2 DEF LastID
    <3>3. <<i[1], i[2] + 1>> \in DOMAIN s
      BY <1>5, <3>1
    <3> QED BY <3>2, <3>3 DEF Maximal
  <2>3. CASE i[2] + 1 = c.end
    <3>1. i = last
      BY <1>4, <2>1, <2>3 DEF LastID
    <3>2. <<i[1], i[2] + 1>> \notin DOMAIN s
      <4>1. vv[c.peer] = c.end /\ vv \in [Peers -> Nat]
        BY <1>4 DEF vv
      <4>2. <<i[1], i[2] + 1>> = <<c.peer, c.end>>
        BY <2>1, <2>3
      <4> DEFINE n == <<c.peer, c.end>>
      <4>3. n[1] = c.peer /\ n[2] = c.end
        OBVIOUS
      <4> HIDE DEF n
      <4>4. ~(n[2] < vv[n[1]])
        BY <1>4, <4>1, <4>3
      <4>5. n \notin Below(vv)
        BY <4>1, <4>4, BelowMember
      <4> QED BY <1>5, <4>2, <4>5 DEF n
    <3>3. ASSUME NEW j \in DOMAIN s PROVE i \notin s[j].deps
      <4>1. CASE j \in DOMAIN l.store
        BY <1>4, <1>5, <1>7, <4>1
      <4>2. CASE j \in IdsOf(c)
        <5>1. s[j].deps = DepsAt(m, j[2]) /\ j[2] \in Nat /\ j[2] < c.end
          BY <1>6, <1>8, <4>2 DEF ID
        <5>2. i \notin m.deps
          BY <1>7, <1>9
        <5>3. i # <<m.peer, j[2] - 1>>
          BY <1>1, <1>4, <2>1, <2>3, <5>1
        <5> QED BY <5>1, <5>2, <5>3 DEF DepsAt
      <4> QED BY <1>5, <4>1, <4>2
    <3>4. i \in DOMAIN s
      BY <1>5
    <3> QED BY <3>1, <3>2, <3>3, <3>4 DEF Maximal
  <2> QED BY <1>4, <2>1, <2>2, <2>3
<1>12. last \in IdsOf(c)
  BY <1>4, <1>6 DEF LastID, ID
<1>13. \A i \in l.fr : i \in DOMAIN l.store
  BY <1>4 DEF Maximal
<1>14. Maximal(s) \subseteq DOMAIN s
  BY DEF Maximal
<1> HIDE DEF last
<1>15. Maximal(s) = {i \in l.fr : i[1] # c.peer /\ i \notin c.deps} \cup {last}
  BY <1>5, <1>10, <1>11, <1>12, <1>13, <1>14
<1> QED BY <1>15 DEF s, last, NewFrontiers

(* What an insertion writes into a log, field by field.                    *)
LEMMA LogUpdated ==
  ASSUME NEW l, LogType(l), NEW s, NEW p, NEW e, NEW f
  PROVE  LET m == [l EXCEPT !.store = s, !.vv[p] = e, !.fr = f]
         IN  /\ m.store = s /\ m.vv = [l.vv EXCEPT ![p] = e] /\ m.fr = f
             /\ m.pending = l.pending
             /\ m \in [store : {s}, vv : {[l.vv EXCEPT ![p] = e]}, fr : {f}, pending : {l.pending}]
<1> DEFINE a == [l EXCEPT !.store = s]
           b == [a EXCEPT !.vv = [l.vv EXCEPT ![p] = e]]
           c == [b EXCEPT !.fr = f]
<1>1. l \in [store : {l.store}, vv : {l.vv}, fr : {l.fr}, pending : {l.pending}]
  BY DEF LogType
<1>2. a \in [store : {s}, vv : {l.vv}, fr : {l.fr}, pending : {l.pending}]
  BY <1>1
<1>3. b \in [store : {s}, vv : {[l.vv EXCEPT ![p] = e]}, fr : {l.fr}, pending : {l.pending}]
  <2> HIDE DEF a
  <2> QED BY <1>2
<1>4. c \in [store : {s}, vv : {[l.vv EXCEPT ![p] = e]}, fr : {f}, pending : {l.pending}]
  <2> HIDE DEF b
  <2> QED BY <1>3
<1>5. [l EXCEPT !.store = s, !.vv[p] = e, !.fr = f] = c
  BY <1>1
<1> HIDE DEF c
<1> QED BY <1>4, <1>5

(* Every operation of l is in m, the same.                                 *)
Kept(l, m) ==
  \A i \in DOMAIN l.store : i \in DOMAIN m.store /\ m.store[i] = l.store[i]

(* m has the operations of l and those of the change c.                    *)
Gains(l, m, c) == DOMAIN m.store = DOMAIN l.store \cup IdsOf(c)

(* A log that takes in a change, with frontiers f.                         *)
Inserted(l, c, interval, f) ==
  [l EXCEPT !.store = Stored(l.store, c, interval), !.vv[c.peer] = c.end, !.fr = f]

(* Inserting a change that fits keeps the log good, once the frontiers are *)
(* the new maximal ops, and moves only its peer's counter.                 *)
LEMMA InsertedOK ==
  ASSUME NEW l, LogOK(l), NEW c, Fits(l, c), NEW interval,
         NEW f, f = NewFrontiers(l, c)
  PROVE  LET m == Inserted(l, c, interval, f)
         IN  /\ LogOK(m) /\ Kept(l, m)
             /\ m.vv = [l.vv EXCEPT ![c.peer] = c.end]
             /\ Gains(l, m, c)
             /\ m.pending = l.pending
<1> DEFINE s == Stored(l.store, c, interval)
           vv == [l.vv EXCEPT ![c.peer] = c.end]
           m == Inserted(l, c, interval, f)
<1>1. LogType(l) /\ l.fr \subseteq DOMAIN l.store
  BY DEF LogOK, Maximal
<1>2. c.peer \in Peers /\ c.start \in Nat /\ c.end \in Nat /\ c.start < c.end
  BY DEF Fits, Change
<1>3. /\ s \in [DOMAIN s -> Atom] /\ DOMAIN s = Below(vv)
      /\ DOMAIN s = DOMAIN l.store \cup IdsOf(c)
      /\ \A i \in DOMAIN l.store : s[i] = l.store[i]
      /\ \A i \in DOMAIN s : \A j \in s[i].deps : j \in DOMAIN s /\ s[j].lam < s[i].lam
  BY StoredCorrect
<1>4. f = Maximal(s)
  BY StoredMaximal
<1>5. IsFiniteSet(f)
  <2>1. IsFiniteSet(l.fr \cup {LastID(c)})
    BY <1>1, FS_AddElement DEF LogType
  <2>2. f \subseteq l.fr \cup {LastID(c)}
    BY DEF NewFrontiers
  <2> QED BY <2>1, <2>2, FS_Subset
<1>6. f \subseteq DOMAIN s
  BY <1>4 DEF Maximal
<1>7. vv \in [Peers -> Nat]
  BY <1>1, <1>2 DEF LogType
<1>8. DOMAIN s \subseteq ID
  BY <1>3, <1>7, BelowMember
<1>9. /\ m.store = s /\ m.vv = vv /\ m.fr = f /\ m.pending = l.pending
      /\ m \in [store : {s}, vv : {vv}, fr : {f}, pending : {l.pending}]
  <2>1. m = [l EXCEPT !.store = s, !.vv[c.peer] = c.end, !.fr = f]
    BY DEF Inserted
  <2> HIDE DEF s, m
  <2> QED BY <1>1, <2>1, LogUpdated
<1> HIDE DEF m, s, vv
<1>10. m \in [store : {m.store}, vv : [Peers -> Nat], fr : SUBSET ID, pending : SUBSET Waiting]
  BY <1>1, <1>6, <1>7, <1>8, <1>9 DEF LogType
<1>11. LogType(m)
  BY <1>3, <1>5, <1>8, <1>9, <1>10 DEF LogType
<1>12. LogOK(m) /\ Kept(l, m)
  BY <1>3, <1>4, <1>9, <1>11 DEF LogOK, Kept
<1> QED BY <1>3, <1>9, <1>12 DEF m, vv, Gains

(* insertLocal keeps a good log good: a local change depends on the whole  *)
(* frontier.                                                               *)
LEMMA InsertLocalOK ==
  ASSUME NEW l, LogOK(l), NEW c, Fits(l, c), c.deps = l.fr
  PROVE  LET m == InsertLocal(l, c)
         IN  LogOK(m) /\ Kept(l, m) /\ Gains(l, m, c) /\ m.pending = l.pending
<1> DEFINE f == {LastID(c)}
<1>1. InsertLocal(l, c) = Inserted(l, c, MergeInterval, f)
  BY DEF InsertLocal, Inserted
<1>2. f = NewFrontiers(l, c)
  BY DEF NewFrontiers
<1> HIDE DEF f
<1> DEFINE m == Inserted(l, c, MergeInterval, f)
<1>3. /\ LogOK(m) /\ Kept(l, m)
      /\ m.vv = [l.vv EXCEPT ![c.peer] = c.end]
      /\ Gains(l, m, c)
      /\ m.pending = l.pending
  BY <1>2, InsertedOK
<1>4. InsertLocal(l, c) = m
  BY <1>1
<1> HIDE DEF m
<1> QED BY <1>3, <1>4

(* insertRemote keeps a good log good and takes the change in up to its    *)
(* end; a later op of the change's peer is never in the frontiers.         *)
LEMMA InsertRemoteOK ==
  ASSUME NEW l, LogOK(l), NEW c, Fits(l, c)
  PROVE  LET m == InsertRemote(l, c)
         IN  /\ LogOK(m) /\ Kept(l, m)
             /\ m.vv = [l.vv EXCEPT ![c.peer] = c.end]
             /\ m.pending = l.pending
             /\ Gains(l, m, c) /\ m.fr = NewFrontiers(l, c)
<1> DEFINE f == UpdateFrontiers(l.fr, LastID(c), c.deps)
<1>1. f = NewFrontiers(l, c)
  <2>1. \A i \in l.fr : i \in ID /\ i[2] < l.vv[i[1]]
    BY BelowMember DEF LogOK, LogType, Maximal
  <2>2. c.start = l.vv[c.peer] /\ c.start \in Nat /\ c.end \in Nat /\ c.start < c.end
    BY DEF Fits, Change
  <2>3. \A i \in l.fr : i[1] = c.peer => ~(i[2] >= c.end - 1)
    BY <2>1, <2>2 DEF ID
  <2> QED BY <2>3 DEF UpdateFrontiers, LastID, NewFrontiers
<1>2. InsertRemote(l, c) = Inserted(l, c, 0, f)
  BY DEF InsertRemote, Inserted
<1> HIDE DEF f
<1> DEFINE m == Inserted(l, c, 0, f)
<1>3. /\ LogOK(m) /\ Kept(l, m)
      /\ m.vv = [l.vv EXCEPT ![c.peer] = c.end]
      /\ Gains(l, m, c)
      /\ m.pending = l.pending
  BY <1>1, InsertedOK
<1>4. m.fr = f
  BY LogUpdated DEF LogOK, Inserted
<1> HIDE DEF m
<1> QED BY <1>1, <1>2, <1>3, <1>4 DEF m

(* The part of a change from inside it on is a change.                     *)
LEMMA CutChange ==
  ASSUME NEW c \in Change, NEW n \in Nat, c.start < n, n < c.end
  PROVE  LET t == CutFrom(c, n)
         IN  /\ t \in Change /\ t.peer = c.peer /\ t.start = n /\ t.end = c.end
             /\ t.deps = {<<c.peer, n - 1>>} /\ <<c.peer, n - 1>> \in ID
<1> DEFINE prev == <<c.peer, n - 1>>
           t == CutFrom(c, n)
           R == [peer : Peers, start : Nat, end : Nat, deps : SUBSET ID, lam : Nat,
                 ts : Nat, msg : Msgs, by : Writers]
           c1 == [c EXCEPT !.start = n]
           c2 == [c1 EXCEPT !.lam = c.lam + (n - c.start)]
           c3 == [c2 EXCEPT !.deps = {prev}]
<1>1. c.peer \in Peers /\ c.start \in Nat /\ c.end \in Nat /\ c.lam \in Nat
  BY DEF Change
<1>2. prev \in ID
  BY <1>1 DEF ID
<1>3. c.lam + (n - c.start) \in Nat
  BY <1>1
<1>4. c1 \in R /\ c1.start = n /\ c1.end = c.end /\ c1.peer = c.peer
  BY DEF Change
<1>5. c2 \in R /\ c2.start = n /\ c2.end = c.end /\ c2.peer = c.peer
  <2> HIDE DEF c1
  <2> QED BY <1>3, <1>4
<1>6. c3 \in R /\ c3.start = n /\ c3.end = c.end /\ c3.peer = c.peer /\ c3.deps = {prev}
  <2> HIDE DEF c2
  <2> QED BY <1>2, <1>5
<1>7. t = c3
  <2>1. DepsAt(c, n) = {prev}
    BY <1>1 DEF DepsAt
  <2> QED BY <2>1, Zenon DEF CutFrom
<1>8. IsFiniteSet({prev})
  BY FS_Singleton
<1> HIDE DEF c3, prev
<1>9. t \in Change
  BY <1>6, <1>7, <1>8 DEF Change
<1> HIDE DEF t
<1> QED BY <1>2, <1>6, <1>7, <1>9 DEF prev, t

(* A change of which a part is known is cut to fit; that it continues the  *)
(* lamports of its peer is what InsertRefused looks at.                    *)
LEMMA TrimmedFits ==
  ASSUME NEW l, LogOK(l), NEW c \in Change, ~Known(l, c), c.start <= l.vv[c.peer],
         \A j \in c.deps : j \in DOMAIN l.store /\ l.store[j].lam < c.lam,
         ~InsertRefused(l, TrimKnown(l, c))
  PROVE  /\ Fits(l, TrimKnown(l, c))
         /\ TrimKnown(l, c).peer = c.peer /\ TrimKnown(l, c).end = c.end
<1> DEFINE n == l.vv[c.peer]
           t == TrimKnown(l, c)
<1>1. /\ c.peer \in Peers /\ c.start \in Nat /\ c.end \in Nat /\ c.lam \in Nat
      /\ c.deps \subseteq ID
  BY DEF Change
<1>2. LogType(l) /\ l.vv \in [Peers -> Nat] /\ DOMAIN l.store = Below(l.vv)
  BY DEF LogOK, LogType
<1>3. n \in Nat /\ n < c.end
  BY <1>1, <1>2 DEF Known
<1>4. CASE c.start = n
  <2>1. t = c
    BY <1>1, <1>4 DEF TrimKnown
  <2> HIDE DEF t
  <2> QED BY <1>4, <2>1 DEF Fits, t
<1>5. CASE c.start < n
  <2> DEFINE prev == <<c.peer, n - 1>>
  <2>1. prev[1] = c.peer /\ prev[2] < n
    BY <1>3
  <2>6. /\ t \in Change /\ t.start = n /\ t.end = c.end /\ t.peer = c.peer /\ t.deps = {prev}
        /\ prev \in ID
    <3>1. t = CutFrom(c, n)
      BY <1>1, <1>3, <1>5 DEF TrimKnown
    <3> HIDE DEF n, t
    <3> QED BY <1>3, <1>5, <3>1, CutChange
  <2>2. prev \in DOMAIN l.store
    BY <1>2, <2>1, <2>6, BelowMember
  <2> HIDE DEF t
  <2>9. t.lam = l.store[prev].lam + 1
    <3>1. ~InsertRefused(l, t)
      BY DEF t
    <3>2. t.deps = {prev} /\ prev[1] = t.peer /\ prev \in t.deps \cap DOMAIN l.store
      BY <2>2, <2>6
    <3> QED BY <3>1, <3>2 DEF InsertRefused
  <2>10. l.store[prev].lam \in Nat
    BY <1>2, <2>2 DEF LogType, Atom
  <2>11. \A j \in t.deps : j \in DOMAIN l.store /\ l.store[j].lam < t.lam
    BY <2>2, <2>6, <2>9, <2>10
  <2> QED BY <2>6, <2>11 DEF Fits, t
<1> QED BY <1>1, <1>3, <1>4, <1>5

(* A change tried against a log: once its part not known fits, the log     *)
(* takes it in.                                                            *)
LEMMA AppliedOK ==
  ASSUME NEW l, LogOK(l), NEW c \in Change, ~Known(l, c), c.start <= l.vv[c.peer],
         \A j \in c.deps : j \in DOMAIN l.store /\ l.store[j].lam < c.lam,
         ~InsertRefused(l, TrimKnown(l, c))
  PROVE  LET m == InsertRemote(l, TrimKnown(l, c))
         IN  /\ LogOK(m) /\ Kept(l, m) /\ m.vv = [l.vv EXCEPT ![c.peer] = c.end]
             /\ m.pending = l.pending
<1> DEFINE t == TrimKnown(l, c)
<1>1. Fits(l, t) /\ t.peer = c.peer /\ t.end = c.end
  BY TrimmedFits
<1> HIDE DEF t
<1>2. /\ LogOK(InsertRemote(l, t)) /\ Kept(l, InsertRemote(l, t))
      /\ InsertRemote(l, t).vv = [l.vv EXCEPT ![t.peer] = t.end]
      /\ InsertRemote(l, t).pending = l.pending
  BY <1>1, InsertRemoteOK
<1> QED BY <1>1, <1>2 DEF t

(* A change that waits for nothing starts at or below where its peer ends  *)
(* and depends on applied ops only.                                        *)
LEMMA NoneMissing ==
  ASSUME NEW l, LogOK(l), NEW c \in Change, MissingFor(l, c) = {}
  PROVE  c.start <= l.vv[c.peer] /\ c.deps \subseteq DOMAIN l.store
<1>1. /\ c.peer \in Peers /\ c.start \in Nat /\ c.deps \subseteq ID
      /\ l.vv \in [Peers -> Nat] /\ DOMAIN l.store = Below(l.vv)
  BY DEF Change, LogOK, LogType
<1>2. l.vv[c.peer] \in Nat
  BY <1>1
<1>3. ~(l.vv[c.peer] < c.start)
  BY DEF MissingFor
<1>4. {j \in c.deps : ~Has(l, j)} = {}
  BY <1>3 DEF MissingFor
<1>5. c.deps \subseteq DOMAIN l.store
  BY <1>1, <1>4, BelowMember DEF Has
<1> QED BY <1>1, <1>2, <1>3, <1>5

(* A lamport at or past the one its dependencies call for.                 *)
LEMMA RaisedLamport ==
  ASSUME NEW l, LogType(l), NEW c \in Change, NEW n \in Nat, n >= NextLamport(l, c.deps)
  PROVE  LET r == [c EXCEPT !.lam = n]
         IN  /\ r \in Change
             /\ r.peer = c.peer /\ r.start = c.start /\ r.end = c.end /\ r.deps = c.deps
             /\ \A j \in r.deps \cap DOMAIN l.store : l.store[j].lam < r.lam
<1> DEFINE r == [c EXCEPT !.lam = n]
<1>1. /\ r \in [peer : Peers, start : Nat, end : Nat, deps : SUBSET ID, lam : Nat,
                ts : Nat, msg : Msgs, by : Writers]
      /\ r.peer = c.peer /\ r.start = c.start /\ r.end = c.end /\ r.deps = c.deps
      /\ r.lam = n
  BY DEF Change
<1> HIDE DEF r
<1>2. c.start < c.end /\ IsFiniteSet(c.deps)
  BY DEF Change
<1>3. r \in Change
  BY <1>1, <1>2 DEF Change
<1>4. /\ NextLamport(l, c.deps) \in Nat
      /\ \A j \in c.deps \cap DOMAIN l.store : l.store[j].lam < NextLamport(l, c.deps)
  BY <1>2, NextLamportAbove
<1>5. \A j \in DOMAIN l.store : l.store[j].lam \in Nat
  BY DEF LogType, Atom
<1>6. \A j \in r.deps \cap DOMAIN l.store : l.store[j].lam < r.lam
  BY <1>1, <1>4, <1>5
<1> QED BY <1>1, <1>3, <1>6 DEF r

-----------------------------------------------------------------------------
(* What an export writes.                                                  *)

(* The changes a range of one peer is cut into are changes, and finitely   *)
(* many.                                                                   *)
LEMMA ChangesInType ==
  ASSUME NEW l, LogOK(l), NEW p \in Peers, NEW lo \in Nat, NEW hi \in Nat, hi <= l.vv[p]
  PROVE  ChangesIn(l.store, p, lo, hi) \subseteq Change /\ IsFiniteSet(ChangesIn(l.store, p, lo, hi))
<1> DEFINE runs == Runs(l.store, p, lo, hi)
           f == [r \in runs |->
                   [peer |-> p, start |-> r[1], end |-> r[2],
                    deps |-> l.store[<<p, r[1]>>].deps, lam |-> l.store[<<p, r[1]>>].lam,
                    ts |-> l.store[<<p, r[1]>>].ts, msg |-> l.store[<<p, r[1]>>].msg,
                    by |-> l.store[<<p, r[1]>>].by]]
           T == ChangesIn(l.store, p, lo, hi)
<1>1. runs \subseteq (lo .. hi) \X (lo .. hi) /\ \A r \in runs : r[1] < r[2]
  BY DEF Runs
<1>2. IsFiniteSet(runs)
  <2>1. IsFiniteSet(lo .. hi)
    BY FS_Interval
  <2>2. IsFiniteSet((lo .. hi) \X (lo .. hi))
    BY <2>1, FS_Product
  <2> QED BY <1>1, <2>2, FS_Subset
<1>3. T = {f[r] : r \in runs}
  BY DEF ChangesIn
<1>4. f \in Surjection(runs, {f[r] : r \in runs})
  BY DEF Surjection
<1>5. IsFiniteSet(T)
  <2> HIDE DEF f, T, runs
  <2> QED BY <1>2, <1>3, <1>4, FS_Surjection
<1>6. ASSUME NEW r \in runs PROVE f[r] \in Change
  <2>1. r[1] \in Nat /\ r[2] \in Nat /\ r[1] < r[2] /\ r[1] < l.vv[p]
    BY <1>1 DEF LogOK, LogType
  <2>2. <<p, r[1]>> \in DOMAIN l.store
    <3>1. <<p, r[1]>> \in ID
      BY <2>1 DEF ID
    <3> QED BY <2>1, <3>1, BelowMember DEF LogOK, LogType
  <2>3. l.store[<<p, r[1]>>] \in Atom
    BY <2>2 DEF LogOK, LogType
  <2> HIDE DEF runs
  <2>4. /\ l.store[<<p, r[1]>>].deps \subseteq ID /\ l.store[<<p, r[1]>>].lam \in Nat
        /\ l.store[<<p, r[1]>>].ts \in Nat /\ l.store[<<p, r[1]>>].msg \in Msgs
        /\ l.store[<<p, r[1]>>].by \in Writers /\ IsFiniteSet(l.store[<<p, r[1]>>].deps)
    BY <2>3 DEF Atom
  <2> QED BY <2>1, <2>4 DEF Change
<1>7. T \subseteq Change
  <2> HIDE DEF f, T, runs
  <2> QED BY <1>3, <1>6
<1> QED BY <1>5, <1>7

(* So are those of an export over all peers (ExportUpdatesFrom).           *)
LEMMA ExportType ==
  ASSUME NEW l, LogOK(l), NEW r,
         \A p \in Peers : r[p][1] \in Nat /\ r[p][2] \in Nat /\ r[p][2] <= l.vv[p]
  PROVE  LET changes == UNION {ChangesIn(l.store, p, r[p][1], r[p][2]) : p \in Peers}
         IN  changes \subseteq Change /\ IsFiniteSet(changes)
<1> DEFINE f == [p \in Peers |-> ChangesIn(l.store, p, r[p][1], r[p][2])]
           F == {f[p] : p \in Peers}
<1>1. F = {ChangesIn(l.store, p, r[p][1], r[p][2]) : p \in Peers}
  OBVIOUS
<1>2. ASSUME NEW p \in Peers PROVE f[p] \subseteq Change /\ IsFiniteSet(f[p])
  <2>2. ChangesIn(l.store, p, r[p][1], r[p][2]) \subseteq Change
        /\ IsFiniteSet(ChangesIn(l.store, p, r[p][1], r[p][2]))
    BY ChangesInType
  <2> QED BY <2>2
<1>3. IsFiniteSet(F)
  <2>1. f \in Surjection(Peers, F)
    BY DEF Surjection
  <2> HIDE DEF f, F
  <2> QED BY <2>1, FS_Surjection, ConstantsAssumption
<1> HIDE DEF f
<1>4. UNION F \subseteq Change
  BY <1>2
<1>5. \A T \in F : IsFiniteSet(T)
  BY <1>2
<1> HIDE DEF F
<1>6. IsFiniteSet(UNION F)
  BY <1>3, <1>5, FS_UNION
<1> QED BY <1>1, <1>4, <1>6

(* A nonempty set of counters has a lowest one.                            *)
LEMMA Lowest ==
  ASSUME NEW lo \in Nat, NEW hi \in Nat, NEW T, T \subseteq lo .. hi, T # {}
  PROVE  \E k \in T : \A m \in T : k <= m
<1> DEFINE H == {hi - k : k \in T}
<1>1. H \in SUBSET Nat /\ H # {}
  <2>1. \A k \in T : hi - k \in Nat
    OBVIOUS
  <2>2. PICK k \in T : TRUE
    OBVIOUS
  <2>3. hi - k \in H
    OBVIOUS
  <2> QED BY <2>1, <2>3
<1>2. IsFiniteSet(H)
  <2>1. IsFiniteSet(0 .. hi)
    BY FS_Interval
  <2>2. H \subseteq 0 .. hi
    OBVIOUS
  <2> QED BY <2>1, <2>2, FS_Subset
<1>3. Highest(H) \in H /\ \A m \in H : m <= Highest(H)
  <2> HIDE DEF H
  <2> QED BY <1>1, <1>2, HighestProperties
<1>4. PICK k \in T : Highest(H) = hi - k
  BY <1>3
<1>5. ASSUME NEW m \in T PROVE k <= m
  <2>1. hi - m <= hi - k
    BY <1>3, <1>4
  <2> QED BY <2>1
<1> QED BY <1>5

(* The change that is exported for a run.                                  *)
OfRun(store, p, r, c) ==
  /\ c.peer = p /\ c.start = r[1] /\ c.end = r[2]
  /\ c.deps = store[<<p, r[1]>>].deps /\ c.lam = store[<<p, r[1]>>].lam

(* Changes and runs go together.                                           *)
LEMMA ChangesOfRuns ==
  ASSUME NEW store, NEW p, NEW lo, NEW hi
  PROVE  /\ \A c \in ChangesIn(store, p, lo, hi) : \E r \in Runs(store, p, lo, hi) : OfRun(store, p, r, c)
         /\ \A r \in Runs(store, p, lo, hi) : \E c \in ChangesIn(store, p, lo, hi) : OfRun(store, p, r, c)
<1> DEFINE of(r) == [peer |-> p, start |-> r[1], end |-> r[2],
                     deps |-> store[<<p, r[1]>>].deps, lam |-> store[<<p, r[1]>>].lam,
                     ts |-> store[<<p, r[1]>>].ts, msg |-> store[<<p, r[1]>>].msg,
                     by |-> store[<<p, r[1]>>].by]
<1>1. ChangesIn(store, p, lo, hi) = {of(r) : r \in Runs(store, p, lo, hi)}
  BY DEF ChangesIn
<1>2. \A r : OfRun(store, p, r, of(r))
  BY DEF OfRun
<1> HIDE DEF of
<1> QED BY <1>1, <1>2

(* A counter of a history is in one run of it.                             *)
LEMMA RunAround ==
  ASSUME NEW store, NEW p, NEW hi \in Nat, NEW k \in 0 .. hi - 1
  PROVE  \E r \in Runs(store, p, 0, hi) : k \in r[1] .. r[2] - 1
<1> DEFINE cut(n) == ~Joined(store, <<p, n>>)
           S == {n \in 0 .. k : n = 0 \/ cut(n)}
           A == {k - n : n \in S}
           B == {n \in k + 1 .. hi : n = hi \/ cut(n)}
<1> HIDE DEF cut
<1>1. A \subseteq 0 .. k /\ k \in A
  <2>1. k - 0 = k /\ 0 \in 0 .. k
    OBVIOUS
  <2> QED BY <2>1
<1>2. PICK x \in A : \A m \in A : x <= m
  <2>1. k \in Nat
    OBVIOUS
  <2> HIDE DEF A
  <2> QED BY <1>1, <2>1, Lowest
<1>3. PICK a \in 0 .. k : (a = 0 \/ cut(a)) /\ x = k - a
  OBVIOUS
<1>4. ASSUME NEW n \in a + 1 .. k PROVE ~cut(n)
  <2>1. CASE cut(n)
    <3>1. n \in S
      BY <1>3, <2>1
    <3>2. k - n \in A
      <4> HIDE DEF S
      <4> QED BY <3>1
    <3> HIDE DEF A, S
    <3>3. k - a <= k - n
      BY <1>2, <1>3, <3>2
    <3>4. k \in Nat /\ a \in Nat /\ n \in Nat /\ a < n
      BY <1>3
    <3> QED BY <3>3, <3>4
  <2> QED BY <2>1
<1>5. hi \in B /\ B \subseteq 0 .. hi
  OBVIOUS
<1>6. PICK b \in B : \A m \in B : b <= m
  <2> HIDE DEF B
  <2> QED BY <1>5, Lowest
<1>7. ASSUME NEW n \in k + 1 .. b - 1 PROVE ~cut(n)
  <2>1. CASE cut(n)
    <3>1. n \in B
      BY <2>1
    <3> QED BY <1>6, <3>1
  <2> QED BY <2>1
<1>8. /\ a \in 0 .. hi /\ b \in 0 .. hi /\ a < b /\ k \in a .. b - 1
      /\ a = 0 \/ cut(a)
      /\ b = hi \/ cut(b)
  BY <1>3, <1>6
<1>9. \A n \in a + 1 .. b - 1 : ~cut(n)
  BY <1>3, <1>4, <1>6, <1>7
<1>10. <<a, b>> \in Runs(store, p, 0, hi)
  BY <1>8, <1>9 DEF Runs, cut
<1> QED BY <1>8, <1>10

(* Two runs that share a counter are one.                                  *)
LEMMA RunsApart ==
  ASSUME NEW store, NEW p, NEW hi \in Nat,
         NEW r \in Runs(store, p, 0, hi), NEW q \in Runs(store, p, 0, hi),
         NEW k \in r[1] .. r[2] - 1, k \in q[1] .. q[2] - 1
  PROVE  r = q
<1>1. /\ r \in (0 .. hi) \X (0 .. hi) /\ q \in (0 .. hi) \X (0 .. hi)
      /\ r[1] = 0 \/ ~Joined(store, <<p, r[1]>>)
      /\ q[1] = 0 \/ ~Joined(store, <<p, q[1]>>)
      /\ r[2] = hi \/ ~Joined(store, <<p, r[2]>>)
      /\ q[2] = hi \/ ~Joined(store, <<p, q[2]>>)
      /\ \A n \in r[1] + 1 .. r[2] - 1 : Joined(store, <<p, n>>)
      /\ \A n \in q[1] + 1 .. q[2] - 1 : Joined(store, <<p, n>>)
  BY DEF Runs
<1>2. ~(r[1] < q[1]) /\ ~(q[1] < r[1])
  BY <1>1
<1>3. ~(r[2] < q[2]) /\ ~(q[2] < r[2])
  BY <1>1
<1> QED BY <1>1, <1>2, <1>3

(* What a run holds is in the store, and lamports do not fall along it.    *)
LEMMA RunRises ==
  ASSUME NEW l, LogOK(l), NEW p \in Peers, NEW lo \in Nat, NEW hi \in Nat, hi <= l.vv[p],
         NEW r \in Runs(l.store, p, lo, hi), NEW k \in r[1] .. r[2] - 1
  PROVE  <<p, k>> \in DOMAIN l.store /\ l.store[<<p, r[1]>>].lam <= l.store[<<p, k>>].lam
<1> DEFINE at(n) == <<p, n>>
           a == r[1]
           b == r[2]
           Bad == {n \in a .. b - 1 : ~(l.store[at(a)].lam <= l.store[at(n)].lam)}
<1>1. /\ a \in Nat /\ b \in Nat /\ a < b /\ b <= l.vv[p] /\ l.vv \in [Peers -> Nat]
      /\ DOMAIN l.store = Below(l.vv)
      /\ \A n \in a + 1 .. b - 1 : Joined(l.store, at(n))
  BY DEF Runs, LogOK, LogType
<1> HIDE DEF a, b
<1>2. ASSUME NEW n \in a .. b - 1 PROVE at(n) \in DOMAIN l.store /\ l.store[at(n)].lam \in Nat
  <2> DEFINE x == at(n)
  <2>1. x \in ID /\ x[1] = p /\ x[2] = n /\ n < l.vv[p]
    BY <1>1 DEF ID
  <2> HIDE DEF x
  <2>2. x \in DOMAIN l.store
    BY <1>1, <2>1, BelowMember
  <2> QED BY <2>2 DEF x, LogOK, LogType, Atom
<1>3. Bad = {}
  <2> SUFFICES ASSUME Bad # {} PROVE FALSE
    OBVIOUS
  <2>1. Bad \subseteq a .. b
    BY <1>1
  <2>2. PICK n \in Bad : \A m \in Bad : n <= m
    <3> HIDE DEF Bad
    <3> QED BY <1>1, <2>1, Lowest
  <2>3. n # a /\ n \in a .. b - 1 /\ ~(l.store[at(a)].lam <= l.store[at(n)].lam)
    BY <1>1, <1>2
  <2>4. n - 1 \in a .. b - 1 /\ n - 1 \notin Bad /\ n \in a + 1 .. b - 1 /\ a \in a .. b - 1
    BY <1>1, <2>2, <2>3
  <2>5. l.store[at(n)].deps = {at(n - 1)}
    BY <1>1, <2>4 DEF Joined
  <2>6. l.store[at(n - 1)].lam < l.store[at(n)].lam
    BY <1>2, <2>3, <2>5 DEF LogOK
  <2>7. l.store[at(a)].lam <= l.store[at(n - 1)].lam
    BY <2>4
  <2>8. l.store[at(a)].lam \in Nat /\ l.store[at(n - 1)].lam \in Nat /\ l.store[at(n)].lam \in Nat
    BY <1>2, <2>3, <2>4
  <2> HIDE DEF Bad, at
  <2> QED BY <2>3, <2>6, <2>7, <2>8
<1> QED BY <1>2, <1>3 DEF a, b

(* A document's snapshot is whole: its runs take every op once, and the    *)
(* ops that no run starts above are the frontiers (ExportSnapshot).        *)
LEMMA SnapshotWhole ==
  ASSUME NEW l, LogOK(l), NEW b, b.fr = l.fr,
         b.changes = UNION {ChangesIn(l.store, p, 0, l.vv[p]) : p \in Peers}
  PROVE  WholeHistory(b)
<1> DEFINE runs(p) == Runs(l.store, p, 0, l.vv[p])
           C == b.changes
<1>1. /\ l.vv \in [Peers -> Nat] /\ DOMAIN l.store = Below(l.vv) /\ DOMAIN l.store \subseteq ID
      /\ l.fr = Maximal(l.store)
  BY DEF LogOK, LogType
<1>2. ASSUME NEW c \in C
      PROVE  \E p \in Peers : \E r \in runs(p) : OfRun(l.store, p, r, c)
  <2>1. PICK p \in Peers : c \in ChangesIn(l.store, p, 0, l.vv[p])
    OBVIOUS
  <2> QED BY <2>1, ChangesOfRuns
<1>3. ASSUME NEW p \in Peers, NEW r \in runs(p)
      PROVE  \E c \in C : OfRun(l.store, p, r, c)
  <2>1. PICK c \in ChangesIn(l.store, p, 0, l.vv[p]) : OfRun(l.store, p, r, c)
    BY ChangesOfRuns
  <2> QED BY <2>1
<1> HIDE DEF C
<1>4. ASSUME NEW p \in Peers, NEW r \in runs(p), NEW c, OfRun(l.store, p, r, c)
      PROVE  /\ r[1] \in Nat /\ r[2] \in Nat /\ r[1] < r[2] /\ r[2] <= l.vv[p]
             /\ c.peer = p /\ c.start = r[1] /\ c.end = r[2]
             /\ IdsOf(c) = {p} \X (r[1] .. r[2] - 1)
  BY <1>1, <1>4 DEF OfRun, Runs, IdsOf
<1>5. ASSUME NEW p \in Peers, NEW r \in runs(p), NEW k \in r[1] .. r[2] - 1
      PROVE  /\ <<p, k>> \in DOMAIN l.store
             /\ l.store[<<p, r[1]>>].lam <= l.store[<<p, k>>].lam
  BY <1>1, RunRises
<1>6. ASSUME NEW i \in DOMAIN l.store
      PROVE  \E r \in runs(i[1]) : i[2] \in r[1] .. r[2] - 1
  <2>1. i[1] \in Peers /\ i[2] \in Nat /\ i[2] < l.vv[i[1]] /\ l.vv[i[1]] \in Nat
    BY <1>1, BelowMember DEF ID
  <2> DEFINE n == l.vv[i[1]]
  <2>2. i[2] \in 0 .. n - 1 /\ n \in Nat
    BY <2>1
  <2> HIDE DEF n
  <2>3. \E r \in Runs(l.store, i[1], 0, n) : i[2] \in r[1] .. r[2] - 1
    BY <2>2, RunAround
  <2> QED BY <2>3 DEF n
<1>7. ASSUME NEW i \in DOMAIN l.store
      PROVE  \E e \in C : i \in IdsOf(e) /\ e.lam <= l.store[i].lam
  <2>1. i \in ID /\ i[1] \in Peers /\ i = <<i[1], i[2]>>
    BY <1>1 DEF ID
  <2>2. PICK r \in runs(i[1]) : i[2] \in r[1] .. r[2] - 1
    BY <1>6
  <2>3. PICK e \in C : OfRun(l.store, i[1], r, e)
    BY <1>3, <2>1
  <2>4. IdsOf(e) = {i[1]} \X (r[1] .. r[2] - 1) /\ e.lam = l.store[<<i[1], r[1]>>].lam
    BY <1>4, <2>1, <2>3 DEF OfRun
  <2>5. l.store[<<i[1], r[1]>>].lam <= l.store[i].lam
    BY <1>5, <2>1, <2>2
  <2>6. i \in IdsOf(e)
    BY <2>1, <2>2, <2>4
  <2> QED BY <2>4, <2>5, <2>6
<1>8. IdsIn(C) = DOMAIN l.store
  <2>1. ASSUME NEW c \in C, NEW i \in IdsOf(c) PROVE i \in DOMAIN l.store
    <3>10. PICK p \in Peers : \E r \in runs(p) : OfRun(l.store, p, r, c)
      BY <1>2
    <3>1. PICK r \in runs(p) : OfRun(l.store, p, r, c)
      BY <3>10
    <3>2. IdsOf(c) = {p} \X (r[1] .. r[2] - 1)
      BY <1>4, <3>1
    <3>3. i = <<p, i[2]>> /\ i[2] \in r[1] .. r[2] - 1
      BY <3>2
    <3> QED BY <1>5, <3>3
  <2> QED BY <1>7, <2>1 DEF IdsIn
<1>9. ASSUME NEW c \in C, NEW e \in C, c # e
      PROVE  IdsOf(c) \cap IdsOf(e) = {}
  <2> SUFFICES ASSUME NEW i \in IdsOf(c), i \in IdsOf(e) PROVE FALSE
    OBVIOUS
  <2>1. PICK p \in Peers : c \in ChangesIn(l.store, p, 0, l.vv[p])
    BY DEF C
  <2>2. PICK q \in Peers : e \in ChangesIn(l.store, q, 0, l.vv[q])
    BY DEF C
  <2> DEFINE of(x, r) == [peer |-> x, start |-> r[1], end |-> r[2],
                          deps |-> l.store[<<x, r[1]>>].deps, lam |-> l.store[<<x, r[1]>>].lam,
                          ts |-> l.store[<<x, r[1]>>].ts, msg |-> l.store[<<x, r[1]>>].msg,
                          by |-> l.store[<<x, r[1]>>].by]
  <2>3. PICK r \in runs(p) : c = of(p, r)
    BY <2>1 DEF ChangesIn
  <2>4. PICK s \in runs(q) : e = of(q, s)
    BY <2>2 DEF ChangesIn
  <2>5. OfRun(l.store, p, r, c) /\ OfRun(l.store, q, s, e)
    BY <2>3, <2>4 DEF OfRun
  <2>6. /\ i[1] = p /\ i[2] \in r[1] .. r[2] - 1
        /\ i[1] = q /\ i[2] \in s[1] .. s[2] - 1
    BY <1>4, <2>5
  <2> DEFINE n == l.vv[p]
             k == i[2]
  <2>9. p = q
    BY <2>6
  <2>10. n \in Nat
    BY <1>1
  <2>11. r \in Runs(l.store, p, 0, n) /\ s \in Runs(l.store, p, 0, n)
    BY <2>3, <2>4, <2>9
  <2>7. k \in r[1] .. r[2] - 1 /\ k \in s[1] .. s[2] - 1
    BY <2>6
  <2> HIDE DEF n, k, of, runs, C
  <2>8. r = s
    <3> DEFINE store == l.store
    <3>1. r \in Runs(store, p, 0, n)
      BY <2>11
    <3>2. s \in Runs(store, p, 0, n)
      BY <2>11
    <3> HIDE DEF store
    <3> QED BY <2>7, <2>10, <3>1, <3>2, RunsApart
  <2> QED BY <1>9, <2>3, <2>4, <2>6, <2>8
<1>10. ASSUME NEW c \in C, NEW j \in c.deps
       PROVE  \E e \in C : j \in IdsOf(e) /\ e.lam < c.lam
  <2>10. PICK p \in Peers : \E r \in runs(p) : OfRun(l.store, p, r, c)
    BY <1>2
  <2>1. PICK r \in runs(p) : OfRun(l.store, p, r, c)
    BY <2>10
  <2> DEFINE x == <<p, r[1]>>
  <2>2. c.deps = l.store[x].deps /\ c.lam = l.store[x].lam
    BY <2>1 DEF OfRun
  <2>3. r[1] \in r[1] .. r[2] - 1
    BY <1>4, <2>1
  <2>4. x \in DOMAIN l.store
    BY <1>5, <2>3
  <2> HIDE DEF x
  <2>5. j \in DOMAIN l.store /\ l.store[j].lam < l.store[x].lam
    BY <2>2, <2>4 DEF LogOK
  <2>6. PICK e \in C : j \in IdsOf(e) /\ e.lam <= l.store[j].lam
    BY <1>7, <2>5
  <2>7. e.lam < l.store[x].lam
    <3>1. l.store[j].lam \in Nat /\ l.store[x].lam \in Nat
      BY <2>4, <2>5 DEF LogOK, LogType, Atom
    <3>20. PICK q \in Peers : \E u \in runs(q) : OfRun(l.store, q, u, e)
      BY <1>2
    <3>2. PICK u \in runs(q) : OfRun(l.store, q, u, e)
      BY <3>20
    <3>3. e.lam = l.store[<<q, u[1]>>].lam /\ u[1] \in u[1] .. u[2] - 1
      BY <1>4, <3>2 DEF OfRun
    <3>4. e.lam \in Nat
      BY <1>5, <3>3 DEF LogOK, LogType, Atom
    <3> QED BY <2>5, <2>6, <3>1, <3>4
  <2> QED BY <2>2, <2>6, <2>7
<1>11. ASSUME NEW i \in DOMAIN l.store, <<i[1], i[2] + 1>> \notin DOMAIN l.store
       PROVE  (\A j \in DOMAIN l.store : i \notin l.store[j].deps) <=> \A c \in C : i \notin c.deps
  <2>1. ASSUME NEW c \in C, i \in c.deps PROVE \E j \in DOMAIN l.store : i \in l.store[j].deps
    <3>10. PICK p \in Peers : \E r \in runs(p) : OfRun(l.store, p, r, c)
      BY <1>2
    <3>1. PICK r \in runs(p) : OfRun(l.store, p, r, c)
      BY <3>10
    <3>2. c.deps = l.store[<<p, r[1]>>].deps /\ r[1] \in r[1] .. r[2] - 1
      BY <1>4, <3>1 DEF OfRun
    <3> QED BY <1>5, <2>1, <3>2
  <2>2. ASSUME NEW j \in DOMAIN l.store, i \in l.store[j].deps PROVE \E c \in C : i \in c.deps
    <3>1. j \in ID /\ j[1] \in Peers /\ j = <<j[1], j[2]>> /\ j[2] \in Nat
      BY <1>1 DEF ID
    <3>2. PICK r \in runs(j[1]) : j[2] \in r[1] .. r[2] - 1
      BY <1>6
    <3>3. PICK c \in C : OfRun(l.store, j[1], r, c)
      BY <1>3, <3>1
    <3>4. r[1] \in Nat /\ r[2] \in Nat
      BY <1>4, <3>1, <3>3
    <3>5. CASE j[2] = r[1]
      BY <2>2, <3>1, <3>3, <3>5 DEF OfRun
    <3>6. CASE j[2] # r[1]
      <4>1. j[2] \in r[1] + 1 .. r[2] - 1
        BY <3>1, <3>2, <3>4, <3>6
      <4>2. Joined(l.store, <<j[1], j[2]>>)
        BY <4>1 DEF Runs
      <4>3. l.store[j].deps = {<<j[1], j[2] - 1>>}
        BY <3>1, <4>2 DEF Joined
      <4>4. i[1] = j[1] /\ i[2] + 1 = j[2]
        BY <2>2, <3>1, <4>3
      <4> QED BY <1>11, <3>1, <4>4
    <3> QED BY <3>5, <3>6
  <2> QED BY <2>1, <2>2
<1>12. b.fr = Heads(C)
  <2>1. Maximal(l.store) = {i \in DOMAIN l.store : /\ <<i[1], i[2] + 1>> \notin DOMAIN l.store
                                                   /\ \A c \in C : i \notin c.deps}
    BY <1>11 DEF Maximal
  <2> QED BY <1>1, <1>8, <2>1 DEF Heads
<1> QED BY <1>9, <1>10, <1>12 DEF C, WholeHistory

(* The changes of a history and one that fits it, b with another lamport:  *)
(* the heads move as the frontiers do.                                     *)
LEMMA HeadsGrow ==
  ASSUME NEW l, LogOK(l), NEW c, Fits(l, c), NEW C,
         DOMAIN l.store = IdsIn(C), l.fr = Heads(C), \A e \in C : LastID(c) \notin e.deps,
         NEW b, IdsOf(b) = IdsOf(c), b.deps = c.deps
  PROVE  NewFrontiers(l, c) = Heads(C \cup {b}) /\ IdsIn(C \cup {b}) = IdsIn(C) \cup IdsOf(c)
<1> DEFINE D == C \cup {b}
           last == LastID(c)
<1>1. /\ c.peer \in Peers /\ c.start \in Nat /\ c.end \in Nat /\ c.start < c.end
      /\ c.start = l.vv[c.peer] /\ l.vv \in [Peers -> Nat]
      /\ DOMAIN l.store = Below(l.vv) /\ DOMAIN l.store \subseteq ID
      /\ c.deps \subseteq DOMAIN l.store
  BY DEF Fits, Change, LogOK, LogType
<1>2. \A i : i \in IdsOf(c) <=> i \in ID /\ i[1] = c.peer /\ c.start <= i[2] /\ i[2] < c.end
  BY <1>1 DEF IdsOf, ID
<1>3. \A i : i \in IdsIn(C) <=> i \in ID /\ i[2] < l.vv[i[1]]
  BY <1>1, BelowMember
<1>4. IdsIn(D) = IdsIn(C) \cup IdsOf(c)
  BY DEF IdsIn
<1>5. ASSUME NEW i \in IdsIn(C)
      PROVE  i \in Heads(D) <=> i \in l.fr /\ i[1] # c.peer /\ i \notin c.deps
  <2>1. i \in ID /\ i[1] \in Peers /\ i[2] \in Nat /\ i[2] < l.vv[i[1]] /\ <<i[1], i[2] + 1>> \in ID
    BY <1>3 DEF ID
  <2>2. CASE i[1] = c.peer
    <3> DEFINE n == <<i[1], i[2] + 1>>
    <3>2. n \in ID /\ n[1] = c.peer /\ n[2] = i[2] + 1
      BY <2>1, <2>2
    <3> HIDE DEF n
    <3>3. n \in IdsIn(D)
      <4>1. CASE n[2] < c.start
        BY <1>1, <1>3, <1>4, <3>2, <4>1
      <4>2. CASE n[2] = c.start
        <5>1. c.start <= n[2] /\ n[2] < c.end
          BY <1>1, <4>2
        <5>2. n \in IdsOf(c)
          BY <1>2, <3>2, <5>1
        <5> QED BY <1>4, <5>2
      <4> QED BY <1>1, <2>1, <2>2, <3>2, <4>1, <4>2
    <3>1. <<i[1], i[2] + 1>> \in IdsIn(D)
      BY <3>3 DEF n
    <3> QED BY <2>2, <3>1 DEF Heads
  <2>3. CASE i[1] # c.peer
    <3> DEFINE n == <<i[1], i[2] + 1>>
    <3>4. n[1] # c.peer
      BY <2>3
    <3> HIDE DEF n, D
    <3>5. n \notin IdsOf(c)
      BY <1>2, <3>4
    <3>1. <<i[1], i[2] + 1>> \in IdsIn(D) <=> <<i[1], i[2] + 1>> \in IdsIn(C)
      BY <1>4, <3>5 DEF n
    <3> USE DEF D
    <3>2. (\A e \in D : i \notin e.deps) <=> (\A e \in C : i \notin e.deps) /\ i \notin c.deps
      OBVIOUS
    <3>3. i \in IdsIn(D)
      BY <1>4
    <3> HIDE DEF D
    <3> QED BY <2>3, <3>1, <3>2, <3>3 DEF Heads
  <2> QED BY <2>2, <2>3
<1>6. ASSUME NEW i \in IdsOf(c)
      PROVE  i \in Heads(D) <=> i = last
  <2>1. i \in ID /\ i = <<c.peer, i[2]>> /\ i[2] \in Nat /\ c.start <= i[2] /\ i[2] < c.end
    BY <1>2 DEF ID
  <2>2. CASE i[2] + 1 < c.end
    <3>1. <<i[1], i[2] + 1>> \in IdsOf(c)
      BY <1>1, <1>2, <2>1, <2>2 DEF ID
    <3>2. i # last
      BY <1>1, <2>1, <2>2 DEF LastID
    <3> QED BY <1>4, <3>1, <3>2 DEF Heads
  <2>3. CASE i[2] + 1 = c.end
    <3>1. i = last
      BY <1>1, <2>1, <2>3 DEF LastID
    <3> DEFINE n == <<i[1], i[2] + 1>>
    <3>2. n[1] = c.peer /\ n[2] = c.end
      BY <2>1, <2>3
    <3> HIDE DEF n
    <3>3. n \notin IdsIn(C) /\ n \notin IdsOf(c)
      BY <1>1, <1>2, <1>3, <3>2
    <3>4. i \notin c.deps
      BY <1>1, <1>3, <2>1
    <3>5. \A e \in D : i \notin e.deps
      BY <3>1, <3>4
    <3> QED BY <1>4, <3>1, <3>3, <3>5 DEF Heads, n
  <2> QED BY <1>1, <2>1, <2>2, <2>3
<1>7. last \in IdsOf(c)
  BY <1>1, <1>2 DEF LastID, ID
<1>8. Heads(D) \subseteq IdsIn(C) \cup IdsOf(c) /\ l.fr \subseteq IdsIn(C)
  BY <1>4 DEF Heads
<1> HIDE DEF D, last
<1>9. Heads(D) = {i \in l.fr : i[1] # c.peer /\ i \notin c.deps} \cup {last}
  BY <1>5, <1>6, <1>7, <1>8
<1> QED BY <1>4, <1>9 DEF D, last, NewFrontiers

-----------------------------------------------------------------------------
(* The inductive invariant.                                                *)

(* An open transaction continues the log as it stands.                     *)
TxFits(l, d, t) ==
  /\ t \in Transaction
  /\ IsFiniteSet(t.deps)
  /\ ~t.open => t = NoTx
  /\ t.open =>
       /\ t.start = l.vv[PeerOf[d]]
       /\ t.start <= t.next
       /\ t.deps = l.fr
       /\ t.lam = NextLamport(l, l.fr)
       /\ t.ts = GreatestTimestamp(l, l.fr)

(* The operations of the open transaction.                                 *)
Uncommitted(d) == {PeerOf[d]} \X (tx[d].start .. tx[d].next - 1)

(* The state shows the history an import in progress would go back to, and *)
(* the open transaction.                                                   *)
Shows(d) == st[d] = DOMAIN Settled(d).store \cup Uncommitted(d)

(* The counter ends checkKnown went through, as far as it got.             *)
Replays(order, ends) ==
  \A i \in 1 .. Len(ends) - 1 :
    /\ ReadyAt(order[i], ends[i]) => order[i].start <= ends[i][order[i].peer]
    /\ ends[i + 1] = Replayed(order[i], ends[i])

(* The first pass over the blob follows the replay: after idx-1 changes    *)
(* the log is where the replay was.                                        *)
FollowsReplay(m, l) ==
  /\ Len(m.ends) <= Len(m.order) + 1
  /\ m.idx \in 1 .. Len(m.ends)
  /\ m.ends[m.idx] = l.vv
  /\ Replays(m.order, m.ends)

(* The first pass over a snapshot in the order of its trimmed changes: the *)
(* causes of those to come are applied or come before them.                *)
CausesFirst(m, l) ==
  \A i \in m.idx .. Len(m.order) : \A j \in Causes(m.order[i]) :
    Has(l, j) \/ \E k \in m.idx .. i - 1 : j \in IdsOf(m.order[k])

Trims(m) == m.blob.snapshot /\ ~m.inPlace

(* The first pass takes the changes in the order they were checked in, or  *)
(* with causes first.                                                      *)
GoesThrough(m, l) ==
  /\ m.idx \in 1 .. Len(m.order) + 1
  /\ Trims(m) => CausesFirst(m, l)
  /\ ~Trims(m) => FollowsReplay(m, l) /\ Len(m.ends) = Len(m.order) + 1

(* x is change c but for ops that a document with log s has.               *)
RestOf(s, x, c) ==
  x.peer = c.peer /\ x.end = c.end /\ x.start <= Larger(c.start, s.vv[c.peer])

(* A change of the blob that is applied, set aside, or waits.              *)
Accounted(m, l, c) ==
  \/ Known(l, c)
  \/ \E i \in 1 .. Len(m.waiting) : RestOf(m.saved, m.waiting[i], c)
  \/ \E e \in m.todo \cup l.pending : RestOf(m.saved, e.ch, c)

(* No change of the blob is lost on the way through the passes.            *)
Tracks(m, l) ==
  /\ m.phase # "recv" =>
       \A c \in m.blob.changes :
         Known(m.saved, c) \/ \E i \in 1 .. Len(m.order) : RestOf(m.saved, m.order[i], c)
  /\ m.phase = "main" => \A i \in 1 .. m.idx - 1 : Accounted(m, l, m.order[i])
  /\ m.phase \in {"pending", "park", "build"} => \A c \in m.blob.changes : Accounted(m, l, c)
  /\ m.phase \in {"park", "build"} => m.todo = {}
  /\ m.phase = "build" => m.waiting = <<>>

Ordered(m) == {m.order[i] : i \in 1 .. Len(m.order)}

(* The changes of the blob the first pass is over with.                    *)
Passed(m) == {m.order[i] : i \in 1 .. m.idx - 1}

(* checkKnown moves nothing, and its replay only goes up.                  *)
Checks(m, l) ==
  /\ m.saved = l
  /\ Ordered(m) = m.blob.changes
  /\ \A i \in 1 .. Len(m.ends) : \A p \in Peers : l.vv[p] <= m.ends[i][p]
  /\ Len(m.ends) > 1 => ~UsedID(l, m.blob.changes)

(* A snapshot that replaces an empty history is applied change by change:  *)
(* nothing waits, and at the end the frontiers are those it claims.        *)
Replaces(m, l) ==
  /\ m.blob.snapshot
  /\ Ordered(m) = m.blob.changes
  /\ \A i, j \in 1 .. Len(m.order) : i < j => m.order[i].lam <= m.order[j].lam
  /\ l.pending = {} /\ m.waiting = <<>> /\ m.todo = {}
  /\ m.phase \in {"check", "main"} => DOMAIN l.store = IdsIn(Passed(m)) /\ l.fr = Heads(Passed(m))
  /\ m.phase \in {"pending", "park", "build"} => l.fr = m.blob.fr

(* An import into a document with log l and transaction t.                 *)
ImportFits(m, l, t) ==
  /\ ImportType(m)
  /\ m.blob.snapshot => WholeHistory(m.blob)
  /\ m.phase = "check" => Checks(m, l)
  /\ m.inPlace => m.phase # "recv" /\ Replaces(m, l)
  /\ m.phase # "recv" => LogOK(m.saved) /\ Kept(m.saved, l) /\ ~t.open
  /\ m.phase \in {"recv", "check"} => m.idx = 1
  /\ m.phase = "recv" => m.waiting = <<>> /\ m.todo = {}
  /\ m.phase = "check" => FollowsReplay(m, l)
  /\ m.phase = "main" => GoesThrough(m, l)
  /\ Tracks(m, l)

IInv ==
  /\ DOMAIN oplog = Docs
  /\ \A d \in Docs : LogOK(oplog[d])
  /\ tx \in [Docs -> Transaction]
  /\ \A d \in Docs : TxFits(oplog[d], d, tx[d])
  /\ st \in [Docs -> SUBSET ID]
  /\ \A d \in Docs : Shows(d)
  /\ \/ imp \in [phase : {"idle"}, outcome : {"ok", "refused"}]
     \/ ImportFits(imp, oplog[imp.doc], tx[imp.doc])

(* The inductive invariant implies the properties the theorems at the end  *)
(* are about.                                                              *)
LEMMA InvHolds ==
  ASSUME IInv
  PROVE  /\ TypeOK /\ Contiguous /\ CausallyClosed /\ LamportAboveDeps /\ HistoryKept
         /\ FrontierIsMaximal /\ TxFresh /\ StateIsHistory /\ NothingLost
<1>1. TypeOK
  BY DEF IInv, TypeOK, LogOK, TxFits, ImportFits
<1>2. Contiguous
  BY DEF IInv, Contiguous, LogOK
<1>3. CausallyClosed
  BY DEF IInv, CausallyClosed, LogOK
<1>4. LamportAboveDeps
  BY DEF IInv, LamportAboveDeps, LogOK
<1>5. HistoryKept
  BY DEF IInv, HistoryKept, ImportFits, Kept
<1>6. FrontierIsMaximal
  BY DEF IInv, FrontierIsMaximal, LogOK, Maximal
<1>7. TxFresh
  BY DEF IInv, TxFresh, TxFits
<1>8. StateIsHistory
  BY DEF IInv, StateIsHistory, Shows, Uncommitted, Settled
<1>9. NothingLost
  <2> SUFFICES ASSUME imp.phase = "build",
                      NEW c \in imp.blob.changes, NEW i \in IdsOf(c)
               PROVE  \/ i \in DOMAIN oplog[imp.doc].store
                      \/ \E e \in oplog[imp.doc].pending : i \in IdsOf(e.ch)
    BY DEF NothingLost
  <2> DEFINE l == oplog[imp.doc]
  <2>1. ImportType(imp) /\ Tracks(imp, l)
    BY DEF IInv, ImportFits
  <2>2. LogOK(l) /\ c \in Change
    BY <2>1 DEF IInv, ImportType, Blob
  <2>3. Known(l, c) \/ \E e \in l.pending : RestOf(imp.saved, e.ch, c)
    <3>1. Accounted(imp, l, c) /\ imp.todo = {} /\ imp.waiting = <<>>
      BY <2>1 DEF Tracks
    <3>2. 1 .. Len(imp.waiting) = {}
      BY <3>1
    <3> QED BY <3>1, <3>2 DEF Accounted
  <2>4. Known(l, c) => i \in DOMAIN l.store
    <3>1. i \in ID /\ i[1] = c.peer /\ i[2] < c.end
      BY <2>2, AtomsOfChange DEF Change
    <3>2. l.vv \in [Peers -> Nat] /\ DOMAIN l.store = Below(l.vv)
      BY <2>2 DEF LogOK, LogType
    <3>3. Known(l, c) => i[2] < l.vv[i[1]]
      BY <2>2, <3>1, <3>2 DEF Known, ID, Change
    <3> QED BY <3>1, <3>2, <3>3, BelowMember
  <2>5. ASSUME NEW e \in l.pending, RestOf(imp.saved, e.ch, c)
        PROVE  i \in DOMAIN l.store \/ i \in IdsOf(e.ch)
    <3>1. LogOK(imp.saved) /\ Kept(imp.saved, l)
      BY DEF IInv, ImportFits
    <3>2. /\ imp.saved.vv \in [Peers -> Nat] /\ DOMAIN imp.saved.store = Below(imp.saved.vv)
          /\ DOMAIN imp.saved.store \subseteq DOMAIN l.store
      BY <3>1 DEF LogOK, LogType, Kept
    <3>3. /\ i \in ID /\ i[1] = c.peer /\ i[2] \in c.start .. c.end - 1 /\ i = <<c.peer, i[2]>>
          /\ c.peer \in Peers /\ c.start \in Nat /\ c.end \in Nat
      BY <2>2, AtomsOfChange DEF Change
    <3>4. e.ch \in Change /\ e.ch.start \in Nat
      BY <2>2 DEF LogOK, LogType, Waiting, Change
    <3>5. e.ch.peer = c.peer /\ e.ch.end = c.end /\ e.ch.start <= Larger(c.start, imp.saved.vv[c.peer])
      BY <2>5 DEF RestOf
    <3>6. CASE i[2] < imp.saved.vv[c.peer]
      BY <3>2, <3>3, <3>6, BelowMember
    <3>7. CASE i[2] >= imp.saved.vv[c.peer]
      <4>1. e.ch.start <= i[2]
        BY <3>2, <3>3, <3>4, <3>5, <3>7 DEF Larger
      <4>2. i[2] \in e.ch.start .. e.ch.end - 1
        BY <3>3, <3>4, <3>5, <4>1
      <4> QED BY <3>3, <3>5, <4>2 DEF IdsOf
    <3> QED BY <3>2, <3>3, <3>6, <3>7 DEF ID
  <2> QED BY <2>3, <2>4, <2>5
<1> QED BY <1>1, <1>2, <1>3, <1>4, <1>5, <1>6, <1>7, <1>8, <1>9

-----------------------------------------------------------------------------
(* What trimming leaves of a change.                                       *)

(* All of it, to begin with.                                               *)
LEMMA RestSelf ==
  ASSUME NEW s, LogOK(s), NEW c \in Change
  PROVE  RestOf(s, c, c)
<1>1. c.start \in Nat /\ c.peer \in Peers /\ s.vv \in [Peers -> Nat]
  BY DEF Change, LogOK, LogType
<1> QED BY <1>1 DEF RestOf, Larger

(* A part of a part is a part.                                             *)
LEMMA RestRest ==
  ASSUME NEW s, LogOK(s), NEW y \in Change, NEW x \in Change, NEW c \in Change,
         RestOf(s, y, x), RestOf(s, x, c)
  PROVE  RestOf(s, y, c)
<1>1. /\ c.start \in Nat /\ x.start \in Nat /\ y.start \in Nat
      /\ c.peer \in Peers /\ s.vv \in [Peers -> Nat]
  BY DEF Change, LogOK, LogType
<1> QED BY <1>1 DEF RestOf, Larger

(* What is left of a change once the ops known are trimmed.                *)
LEMMA TrimmedRest ==
  ASSUME NEW l, LogOK(l), NEW c \in Change, ~Known(l, c)
  PROVE  LET t == TrimKnown(l, c)
         IN  /\ t \in Change /\ RestOf(l, t, c)
             /\ t = c \/ (t.start = l.vv[c.peer] /\ t.deps = {<<c.peer, t.start - 1>>})
<1> DEFINE n == l.vv[c.peer]
<1>1. c.start \in Nat /\ c.end \in Nat /\ c.peer \in Peers /\ n \in Nat /\ n < c.end
  BY DEF Change, LogOK, LogType, Known
<1>2. CASE c.start >= n
  <2>1. TrimKnown(l, c) = c
    BY <1>2 DEF TrimKnown
  <2>2. RestOf(l, c, c)
    BY RestSelf
  <2> QED BY <2>1, <2>2
<1>3. CASE c.start < n
  <2> DEFINE t == CutFrom(c, n)
  <2>1. TrimKnown(l, c) = t
    BY <1>1, <1>3 DEF TrimKnown
  <2>2. /\ t \in Change /\ t.peer = c.peer /\ t.start = n /\ t.end = c.end
        /\ t.deps = {<<c.peer, n - 1>>}
    <3> HIDE DEF n
    <3> QED BY <1>1, <1>3, CutChange
  <2> HIDE DEF t
  <2>3. RestOf(l, t, c)
    BY <1>1, <2>2 DEF RestOf, Larger
  <2> QED BY <2>1, <2>2, <2>3
<1> QED BY <1>1, <1>2, <1>3

(* Its lamport is that of its first op.                                    *)
LEMMA TrimmedLamport ==
  ASSUME NEW l, NEW c \in Change
  PROVE  TrimKnown(l, c).lam =
           IF c.start >= l.vv[c.peer] THEN c.lam ELSE c.lam + (l.vv[c.peer] - c.start)
BY DEF TrimKnown, CutFrom, Change

(* The changes of a blob in an order by lamport.                           *)
LEMMA SortedSeq ==
  ASSUME NEW C, C \subseteq Change, IsFiniteSet(C), NEW order \in SortedByLamport(C)
  PROVE  /\ order \in Seq(Change) /\ Len(order) \in Nat
         /\ \A c \in C : \E i \in 1 .. Len(order) : order[i] = c
         /\ \A i \in 1 .. Len(order) : order[i] \in C
         /\ \A i, j \in 1 .. Len(order) : i < j => order[i].lam <= order[j].lam
<1>1. Cardinality(C) \in Nat
  BY FS_CardinalityType
<1>2. order \in [1 .. Cardinality(C) -> Change]
  BY DEF SortedByLamport
<1>3. DOMAIN order = 1 .. Len(order)
  BY <1>1, <1>2
<1>4. /\ \A c \in C : \E i \in DOMAIN order : order[i] = c
      /\ \A i \in DOMAIN order : order[i] \in C
      /\ \A i, j \in DOMAIN order : i < j => order[i].lam <= order[j].lam
  BY DEF SortedByLamport
<1> QED BY <1>1, <1>2, <1>3, <1>4

(* The changes of a snapshot that bring something new, trimmed and sorted  *)
(* again (snapshotChanges).                                                *)
LEMMA TrimmedSeq ==
  ASSUME NEW l, LogOK(l), NEW C, C \subseteq Change, IsFiniteSet(C), NEW x \in TrimmedOrders(l, C)
  PROVE  /\ x \in Seq(Change) /\ Len(x) \in Nat
         /\ \A c \in C : Known(l, c) \/ \E i \in 1 .. Len(x) : x[i] = TrimKnown(l, c)
         /\ \A i \in 1 .. Len(x) : \E c \in C : ~Known(l, c) /\ x[i] = TrimKnown(l, c)
         /\ \A i, j \in 1 .. Len(x) : i < j => x[i].lam <= x[j].lam
<1> DEFINE N == {e \in C : ~Known(l, e)}
           T == {TrimKnown(l, c) : c \in N}
           f == [c \in N |-> TrimKnown(l, c)]
<1>1. N \subseteq C /\ IsFiniteSet(N)
  BY FS_Subset
<1>2. T \subseteq Change
  BY TrimmedRest
<1>3. f \in Surjection(N, T)
  BY DEF Surjection
<1>4. IsFiniteSet(T)
  <2> HIDE DEF N, T, f
  <2> QED BY <1>1, <1>3, FS_Surjection
<1>5. x \in SortedByLamport(T)
  BY DEF TrimmedOrders
<1>6. /\ x \in Seq(Change) /\ Len(x) \in Nat
      /\ \A t \in T : \E i \in 1 .. Len(x) : x[i] = t
      /\ \A i \in 1 .. Len(x) : x[i] \in T
      /\ \A i, j \in 1 .. Len(x) : i < j => x[i].lam <= x[j].lam
  <2> HIDE DEF T
  <2> QED BY <1>2, <1>4, <1>5, SortedSeq
<1>7. \A c \in C : Known(l, c) \/ TrimKnown(l, c) \in T
  OBVIOUS
<1>8. \A t \in T : \E c \in C : ~Known(l, c) /\ t = TrimKnown(l, c)
  OBVIOUS
<1> HIDE DEF T
<1> QED BY <1>6, <1>7, <1>8

(* An order by lamport of the rests has the causes of each before it.      *)
LEMMA TrimmedCauses ==
  ASSUME NEW l, LogOK(l), NEW b, b.changes \subseteq Change, IsFiniteSet(b.changes), InOrder(b),
         NEW x \in TrimmedOrders(l, b.changes), NEW i \in 1 .. Len(x), NEW j \in Causes(x[i])
  PROVE  Has(l, j) \/ \E k \in 1 .. i - 1 : j \in IdsOf(x[k])
<1>1. /\ x \in Seq(Change) /\ Len(x) \in Nat
      /\ \A c \in b.changes : Known(l, c) \/ \E k \in 1 .. Len(x) : x[k] = TrimKnown(l, c)
      /\ \A k \in 1 .. Len(x) : \E c \in b.changes : ~Known(l, c) /\ x[k] = TrimKnown(l, c)
      /\ \A k, n \in 1 .. Len(x) : k < n => x[k].lam <= x[n].lam
  BY TrimmedSeq
<1>2. PICK c \in b.changes : ~Known(l, c) /\ x[i] = TrimKnown(l, c)
  BY <1>1
<1>3. c \in Change /\ l.vv \in [Peers -> Nat] /\ x[i] \in Change
  BY <1>1 DEF LogOK, LogType
<1>4. CASE x[i] # c
  <2>1. x[i].peer = c.peer /\ x[i].start = l.vv[c.peer] /\ x[i].deps = {<<c.peer, x[i].start - 1>>}
    BY <1>2, <1>3, <1>4, TrimmedRest DEF RestOf
  <2>2. j = <<c.peer, x[i].start - 1>>
    BY <2>1 DEF Causes
  <2>3. l.vv[c.peer] \in Nat
    BY <1>3 DEF Change
  <2> QED BY <2>1, <2>2, <2>3 DEF Has
<1>5. CASE x[i] = c
  <2> SUFFICES ASSUME ~Has(l, j) PROVE \E k \in 1 .. i - 1 : j \in IdsOf(x[k])
    OBVIOUS
  <2>1. PICK e \in b.changes : j \in IdsOf(e) /\ e.lam + (j[2] - e.start) < c.lam
    BY <1>5 DEF InOrder
  <2>2. /\ e \in Change /\ e.peer \in Peers /\ e.start \in Nat /\ e.end \in Nat /\ e.lam \in Nat
        /\ c.lam \in Nat
    BY <1>3 DEF Change
  <2>3. j = <<e.peer, j[2]>> /\ j[1] = e.peer /\ j[2] \in Nat /\ e.start <= j[2] /\ j[2] < e.end
    BY <2>1, <2>2 DEF IdsOf
  <2> DEFINE n == l.vv[e.peer]
             y == TrimKnown(l, e)
  <2>4. n \in Nat /\ n <= j[2]
    BY <1>3, <2>2, <2>3 DEF Has
  <2>5. ~Known(l, e)
    BY <2>2, <2>3, <2>4 DEF Known
  <2>6. y \in Change /\ y.peer = e.peer /\ y.end = e.end /\ y.start <= Larger(e.start, n)
    BY <2>2, <2>5, TrimmedRest DEF RestOf
  <2>7. y.lam = IF e.start >= n THEN e.lam ELSE e.lam + (n - e.start)
    BY <2>2, TrimmedLamport
  <2>8. PICK k \in 1 .. Len(x) : x[k] = y
    BY <1>1, <2>5
  <2> HIDE DEF n, y
  <2>9. y.start \in Nat /\ y.lam \in Nat /\ y.start <= j[2]
    BY <2>2, <2>3, <2>4, <2>6 DEF Larger, Change
  <2>10. j \in IdsOf(y)
    <3>1. j[2] \in y.start .. y.end - 1
      BY <2>2, <2>3, <2>6, <2>9
    <3> QED BY <2>3, <2>6, <3>1 DEF IdsOf
  <2>11. y.lam < c.lam
    BY <2>1, <2>2, <2>3, <2>4, <2>7
  <2>12. ~(i < k) /\ i # k
    <3>1. x[k].lam = y.lam /\ x[i].lam = c.lam
      BY <1>5, <2>8
    <3>2. i < k => x[i].lam <= x[k].lam
      BY <1>1
    <3>3. x[i].lam \in Nat /\ x[k].lam \in Nat /\ x[k].lam < x[i].lam
      BY <2>2, <2>9, <2>11, <3>1
    <3> QED BY <3>2, <3>3
  <2>13. k \in 1 .. i - 1
    BY <2>12
  <2> QED BY <2>8, <2>10, <2>13
<1> QED BY <1>4, <1>5

(* A change is accounted for with what is left of it.                      *)
LEMMA RestAccounted ==
  ASSUME NEW m, ImportType(m), LogOK(m.saved), NEW l, LogType(l), NEW x \in Change,
         NEW c \in Change, RestOf(m.saved, x, c), Accounted(m, l, x)
  PROVE  Accounted(m, l, c)
<1>1. CASE Known(l, x)
  BY <1>1 DEF Known, RestOf, Accounted
<1>2. ASSUME NEW i \in 1 .. Len(m.waiting), RestOf(m.saved, m.waiting[i], x)
      PROVE  Accounted(m, l, c)
  <2>1. m.waiting[i] \in Change
    BY DEF ImportType
  <2>2. RestOf(m.saved, m.waiting[i], c)
    BY <1>2, <2>1, RestRest
  <2> QED BY <2>2 DEF Accounted
<1>3. ASSUME NEW e \in m.todo \cup l.pending, RestOf(m.saved, e.ch, x)
      PROVE  Accounted(m, l, c)
  <2>1. e.ch \in Change
    BY DEF ImportType, LogType, Waiting
  <2>2. RestOf(m.saved, e.ch, c)
    BY <1>3, <2>1, RestRest
  <2> QED BY <2>2 DEF Accounted
<1> QED BY <1>1, <1>2, <1>3 DEF Accounted

-----------------------------------------------------------------------------
(* The open transaction.                                                   *)

(* A closed transaction fits any log.                                      *)
LEMMA NoTxFits ==
  ASSUME NEW l, NEW d
  PROVE  TxFits(l, d, NoTx) /\ NoTx \in Transaction /\ ~NoTx.open
BY FS_EmptySet DEF TxFits, NoTx, Transaction

(* The transaction an edit continues or begins fits the document's log and *)
(* has the operations not committed yet.                                   *)
LEMMA BeginFits ==
  ASSUME IInv, NEW d \in Docs
  PROVE  /\ TxFits(oplog[d], d, Begin(d))
         /\ Begin(d).open
         /\ Uncommitted(d) = {PeerOf[d]} \X (Begin(d).start .. Begin(d).next - 1)
<1> DEFINE l == oplog[d]
           n == l.vv[PeerOf[d]]
           t == [open |-> TRUE, start |-> n, next |-> n, lam |-> NextLamport(l, l.fr),
                 deps |-> l.fr, ts |-> GreatestTimestamp(l, l.fr)]
<1>1. CASE tx[d].open
  BY <1>1 DEF Begin, IInv, Uncommitted
<1>2. CASE ~tx[d].open
  <2>1. LogOK(l)
    BY DEF IInv
  <2>2. LogType(l) /\ IsFiniteSet(l.fr) /\ l.fr \subseteq ID
    BY <2>1 DEF LogOK, LogType
  <2>3. n \in Nat
    BY <2>2, ConstantsAssumption DEF LogType
  <2>4. Begin(d) = t
    BY <1>2 DEF Begin
  <2> HIDE DEF n, l
  <2>5. NextLamport(l, l.fr) \in Nat
    BY <2>2, NextLamportAbove
  <2>6. GreatestTimestamp(l, l.fr) \in Nat
    BY <2>2, GreatestTimestampAbove
  <2>7. t \in Transaction
    BY <2>2, <2>3, <2>5, <2>6 DEF Transaction
  <2>8. TxFits(l, d, t)
    BY <2>2, <2>3, <2>5, <2>7 DEF TxFits, n
  <2>9. Uncommitted(d) = {} /\ {PeerOf[d]} \X (t.start .. t.next - 1) = {}
    <3>1. tx[d] = NoTx
      BY <1>2 DEF IInv, TxFits
    <3>2. NoTx.start = 0 /\ NoTx.next = 0 /\ 0 .. 0 - 1 = {} /\ n .. n - 1 = {}
      BY <2>3 DEF NoTx
    <3>3. t.start = n /\ t.next = n
      OBVIOUS
    <3> HIDE DEF t
    <3> QED BY <3>1, <3>2, <3>3 DEF Uncommitted
  <2>10. t.open
    OBVIOUS
  <2> HIDE DEF t
  <2> QED BY <2>4, <2>8, <2>9, <2>10 DEF l
<1> QED BY <1>1, <1>2

(* The change a commit makes continues the log as it stands: it depends on *)
(* the frontiers, has the lamport after theirs and is not older.           *)
LEMMA TxChangeFits ==
  ASSUME IInv, NEW d \in Docs, NEW msg \in Msgs, NEW ts \in Times,
         tx[d].open, tx[d].start < tx[d].next
  PROVE  LET l == oplog[d]
             c == TxChange(d, msg, ts)
         IN  /\ Fits(l, c) /\ c.deps = l.fr /\ c.lam = NextLamport(l, l.fr)
             /\ \A j \in l.fr : l.store[j].ts <= c.ts
             /\ IdsOf(c) = Uncommitted(d)
             /\ c.peer = PeerOf[d]
             /\ Closed(d, msg, ts) = InsertLocal(l, c)
<1> DEFINE l == oplog[d]
           c == TxChange(d, msg, ts)
<1>1. LogOK(l) /\ TxFits(l, d, tx[d]) /\ LogType(l) /\ IsFiniteSet(l.fr)
  BY DEF IInv, LogOK, LogType
<1>2. /\ c.peer = PeerOf[d] /\ c.start = tx[d].start /\ c.end = tx[d].next
      /\ c.deps = tx[d].deps /\ c.lam = tx[d].lam /\ c.ts = Larger(tx[d].ts, ts)
  BY DEF TxChange
<1>3. /\ tx[d].start \in Nat /\ tx[d].next \in Nat /\ tx[d].lam \in Nat /\ tx[d].ts \in Nat
      /\ tx[d].deps \subseteq ID /\ IsFiniteSet(tx[d].deps)
  BY <1>1 DEF TxFits, Transaction
<1>4. PeerOf[d] \in Peers /\ d \in Writers /\ ts \in Nat
  BY ConstantsAssumption
<1>5. Larger(tx[d].ts, ts) \in Nat /\ tx[d].ts <= Larger(tx[d].ts, ts)
  BY <1>3, <1>4 DEF Larger
<1>6. c \in Change
  BY <1>3, <1>4, <1>5 DEF TxChange, Change
<1>7. /\ \A j \in l.fr : j \in DOMAIN l.store
      /\ \A j \in l.fr \cap DOMAIN l.store : l.store[j].lam < NextLamport(l, l.fr)
  <2>1. \A j \in l.fr : j \in DOMAIN l.store
    BY <1>1 DEF LogOK, Maximal
  <2> HIDE DEF l
  <2> QED BY <1>1, <2>1, NextLamportAbove
<1>8. /\ c.deps = l.fr /\ c.lam = NextLamport(l, l.fr) /\ c.start = l.vv[c.peer]
      /\ tx[d].ts = GreatestTimestamp(l, l.fr)
  BY <1>1, <1>2 DEF TxFits
<1>9. Fits(l, c)
  <2> HIDE DEF c, l
  <2> QED BY <1>6, <1>7, <1>8 DEF Fits
<1>10. \A j \in l.fr : l.store[j].ts <= c.ts
  <2>1. \A j \in l.fr \cap DOMAIN l.store : l.store[j].ts <= GreatestTimestamp(l, l.fr)
    <3> HIDE DEF l
    <3> QED BY <1>1, GreatestTimestampAbove
  <2>2. \A j \in l.fr : l.store[j].ts \in Nat
    BY <1>1, <1>7 DEF LogType, Atom
  <2> HIDE DEF c, l
  <2> QED BY <1>2, <1>3, <1>5, <1>7, <1>8, <2>1, <2>2
<1>11. Closed(d, msg, ts) = InsertLocal(l, c)
  BY DEF Closed
<1>12. IdsOf(c) = Uncommitted(d)
  BY <1>2 DEF IdsOf, Uncommitted
<1> HIDE DEF c, l
<1>13. c.peer = PeerOf[d]
  BY <1>2
<1> QED BY <1>8, <1>9, <1>10, <1>11, <1>12, <1>13 DEF c, l

(* Committing the open transaction keeps the log good, rewrites nothing    *)
(* and adds the transaction's operations.                                  *)
LEMMA ClosedOK ==
  ASSUME IInv, NEW d \in Docs, NEW msg \in Msgs, NEW ts \in Times
  PROVE  LET m == Closed(d, msg, ts)
         IN  /\ LogOK(m) /\ Kept(oplog[d], m)
             /\ DOMAIN m.store = DOMAIN oplog[d].store \cup Uncommitted(d)
             /\ m.pending = oplog[d].pending
<1> DEFINE l == oplog[d]
<1>1. LogOK(l) /\ TxFits(l, d, tx[d])
  BY DEF IInv
<1>2. Kept(oplog[d], oplog[d])
  BY DEF Kept
<1>3. CASE tx[d].open /\ tx[d].start < tx[d].next
  <2> DEFINE c == TxChange(d, msg, ts)
  <2>1. /\ Fits(l, c) /\ c.deps = l.fr /\ IdsOf(c) = Uncommitted(d)
        /\ Closed(d, msg, ts) = InsertLocal(l, c)
    BY <1>3, TxChangeFits
  <2> HIDE DEF c, l
  <2>2. /\ LogOK(InsertLocal(l, c)) /\ Kept(l, InsertLocal(l, c)) /\ Gains(l, InsertLocal(l, c), c)
        /\ InsertLocal(l, c).pending = l.pending
    BY <1>1, <2>1, InsertLocalOK
  <2> QED BY <2>1, <2>2 DEF l, Gains
<1>4. CASE ~(tx[d].open /\ tx[d].start < tx[d].next)
  <2>1. Uncommitted(d) = {}
    <3>1. tx[d].start \in Nat /\ tx[d].next \in Nat /\ tx[d].start >= tx[d].next
      BY <1>1, <1>4 DEF TxFits, Transaction, NoTx
    <3>2. tx[d].start .. tx[d].next - 1 = {}
      BY <3>1
    <3> QED BY <3>2 DEF Uncommitted
  <2>2. Closed(d, msg, ts) = l
    BY <1>4 DEF Closed
  <2> QED BY <1>1, <1>2, <2>1, <2>2
<1> QED BY <1>3, <1>4

(* Closing a transaction keeps the logs and transactions fit and what they *)
(* hold together.                                                          *)
LEMMA CloseTxOK ==
  ASSUME IInv, NEW d \in Docs, NEW msg \in Msgs, NEW ts \in Times, CloseTx(d, msg, ts)
  PROVE  /\ DOMAIN oplog' = Docs /\ \A e \in Docs : LogOK(oplog'[e])
         /\ tx' \in [Docs -> Transaction] /\ \A e \in Docs : TxFits(oplog'[e], e, tx'[e])
         /\ ~tx'[d].open
         /\ \A e \in Docs : DOMAIN oplog'[e].store \cup Uncommitted(e)'
                             = DOMAIN oplog[e].store \cup Uncommitted(e)
<1>1. /\ LogOK(Closed(d, msg, ts))
      /\ DOMAIN Closed(d, msg, ts).store = DOMAIN oplog[d].store \cup Uncommitted(d)
  BY ClosedOK
<1>2. NoTx \in Transaction /\ ~NoTx.open /\ TxFits(Closed(d, msg, ts), d, NoTx)
  BY NoTxFits
<1>3. /\ oplog' = [oplog EXCEPT ![d] = Closed(d, msg, ts)]
      /\ tx' = [tx EXCEPT ![d] = NoTx]
  BY DEF CloseTx
<1>4. /\ DOMAIN oplog = Docs /\ \A e \in Docs : LogOK(oplog[e])
      /\ tx \in [Docs -> Transaction] /\ \A e \in Docs : TxFits(oplog[e], e, tx[e])
  BY DEF IInv
<1>5. ASSUME NEW e \in Docs
      PROVE  DOMAIN oplog'[e].store \cup Uncommitted(e)' = DOMAIN oplog[e].store \cup Uncommitted(e)
  <2>1. CASE e = d
    <3>1. oplog'[e] = Closed(d, msg, ts) /\ tx'[e] = NoTx
      BY <1>3, <1>4, <2>1
    <3>2. NoTx.start .. NoTx.next - 1 = {}
      BY DEF NoTx
    <3>3. Uncommitted(e)' = {}
      BY <3>1, <3>2 DEF Uncommitted
    <3> QED BY <1>1, <2>1, <3>1, <3>3
  <2>2. CASE e # d
    BY <1>3, <1>4, <2>2 DEF Uncommitted
  <2> QED BY <2>1, <2>2
<1> QED BY <1>1, <1>2, <1>3, <1>4, <1>5

-----------------------------------------------------------------------------
(* The record of an import, field by field.                                *)

Steps == {"check", "main", "pending", "park", "build"}

(* n is the import m at a later step.                                      *)
SameImport(m, n) ==
  n.doc = m.doc /\ n.blob = m.blob /\ n.saved = m.saved /\ n.inPlace = m.inPlace

(* The part of the record the replay is about.                             *)
SameReplay(m, n) == n.order = m.order /\ n.ends = m.ends /\ n.idx = m.idx

(* Moving an import on to its next phase keeps the rest of its record.     *)
LEMMA SetPhase ==
  ASSUME NEW m, ImportType(m), NEW x \in Steps
  PROVE  LET n == [m EXCEPT !.phase = x]
         IN  /\ ImportType(n) /\ SameImport(m, n) /\ SameReplay(m, n) /\ n.phase = x
             /\ n.todo = m.todo /\ n.stack = m.stack /\ n.waiting = m.waiting
BY DEF ImportType, SameImport, SameReplay, Steps

(* Going on to the next change of the first pass does.                     *)
LEMMA SetIdx ==
  ASSUME NEW m, ImportType(m), NEW x \in Nat
  PROVE  LET n == [m EXCEPT !.idx = x]
         IN  /\ ImportType(n) /\ SameImport(m, n) /\ n.phase = m.phase
             /\ n.order = m.order /\ n.ends = m.ends /\ n.idx = x
             /\ n.todo = m.todo /\ n.stack = m.stack /\ n.waiting = m.waiting
BY DEF ImportType, SameImport

(* It is then over with that change too.                                   *)
LEMMA PassedGrows ==
  ASSUME NEW m, NEW n, m.idx \in Nat \ {0}, n.order = m.order, n.idx = m.idx + 1
  PROVE  Passed(n) = Passed(m) \cup {m.order[m.idx]} /\ Ordered(n) = Ordered(m)
<1>1. 1 .. n.idx - 1 = (1 .. m.idx - 1) \cup {m.idx}
  OBVIOUS
<1> QED BY <1>1 DEF Passed, Ordered

(* So does one more step of checkKnown's replay.                           *)
LEMMA SetEnds ==
  ASSUME NEW m, ImportType(m), NEW x \in Seq([Peers -> Nat])
  PROVE  LET n == [m EXCEPT !.ends = x]
         IN  /\ ImportType(n) /\ SameImport(m, n) /\ n.phase = m.phase
             /\ n.order = m.order /\ n.ends = x /\ n.idx = m.idx
             /\ n.todo = m.todo /\ n.waiting = m.waiting
BY DEF ImportType, SameImport

(* So does setting changes aside for parkOrApply.                          *)
LEMMA SetWaiting ==
  ASSUME NEW m, ImportType(m), NEW x \in Seq(Change)
  PROVE  LET n == [m EXCEPT !.waiting = x]
         IN  /\ ImportType(n) /\ SameImport(m, n) /\ SameReplay(m, n) /\ n.phase = m.phase
             /\ n.todo = m.todo /\ n.stack = m.stack
BY DEF ImportType, SameImport, SameReplay

(* So does changing the stack of applied ids applyPending works through.   *)
LEMMA SetStack ==
  ASSUME NEW m, ImportType(m), NEW x \in Seq(ID)
  PROVE  LET n == [m EXCEPT !.stack = x]
         IN  /\ ImportType(n) /\ SameImport(m, n) /\ SameReplay(m, n) /\ n.phase = m.phase
             /\ n.todo = m.todo /\ n.waiting = m.waiting
BY DEF ImportType, SameImport, SameReplay

(* So does taking changes out of the pending set to try them.              *)
LEMMA SetTodo ==
  ASSUME NEW m, ImportType(m), NEW x \in SUBSET Waiting
  PROVE  LET n == [m EXCEPT !.todo = x]
         IN  /\ ImportType(n) /\ SameImport(m, n) /\ SameReplay(m, n) /\ n.phase = m.phase
             /\ n.todo = x /\ n.waiting = m.waiting
BY DEF ImportType, SameImport, SameReplay

(* Applying a change puts its last id on that stack.                       *)
LEMMA PushStack ==
  ASSUME NEW m, ImportType(m), NEW c \in Change
  PROVE  LET n == [m EXCEPT !.stack = Append(@, LastID(c))]
         IN  /\ ImportType(n) /\ SameImport(m, n) /\ SameReplay(m, n) /\ n.phase = m.phase
             /\ n.todo = m.todo /\ n.waiting = m.waiting
<1> DEFINE x == Append(m.stack, LastID(c))
<1>1. LastID(c) \in ID
  BY DEF LastID, ID, Change
<1>2. x \in Seq(ID)
  BY <1>1 DEF ImportType
<1> HIDE DEF x
<1>3. LET n == [m EXCEPT !.stack = x]
      IN  /\ ImportType(n) /\ SameImport(m, n) /\ SameReplay(m, n) /\ n.phase = m.phase
          /\ n.todo = m.todo /\ n.waiting = m.waiting
  BY <1>2, SetStack
<1> QED BY <1>3 DEF x

-----------------------------------------------------------------------------
(* Every step after ImportBegin: the document's log stays good and keeps   *)
(* what it had, and nothing else but the import moves.                     *)
LEMMA ImportMoves ==
  ASSUME IInv, imp.phase \in Steps,
         NEW l, LogOK(l), Kept(oplog[imp.doc], l),
         oplog' = [oplog EXCEPT ![imp.doc] = l], UNCHANGED <<tx, st>>,
         ImportType(imp'), SameImport(imp, imp'), imp'.phase \in Steps,
         imp'.phase = "check" => imp'.idx = 1,
         imp'.phase = "check" => FollowsReplay(imp', l),
         imp'.phase = "main" => GoesThrough(imp', l),
         imp'.phase = "check" => Checks(imp', l), imp'.inPlace => Replaces(imp', l),
         Tracks(imp', l)
  PROVE  IInv'
<1>1. /\ DOMAIN oplog = Docs /\ \A d \in Docs : LogOK(oplog[d])
      /\ tx \in [Docs -> Transaction] /\ \A d \in Docs : TxFits(oplog[d], d, tx[d])
      /\ st \in [Docs -> SUBSET ID]
  BY DEF IInv
<1>2. ImportFits(imp, oplog[imp.doc], tx[imp.doc])
  BY DEF IInv, Steps
<1>3. imp.doc \in Docs
  BY <1>2 DEF ImportFits, ImportType
<1>4. LogOK(imp.saved) /\ Kept(imp.saved, oplog[imp.doc]) /\ ~tx[imp.doc].open
  BY <1>2 DEF ImportFits, Steps
<1>5. Kept(imp.saved, l)
  BY <1>4 DEF Kept
<1>6. DOMAIN oplog' = Docs /\ \A d \in Docs : LogOK(oplog'[d])
  BY <1>1
<1>7. TxFits(l, imp.doc, tx[imp.doc])
  BY <1>1, <1>3, <1>4 DEF TxFits
<1>8. \A d \in Docs : TxFits(oplog'[d], d, tx'[d])
  BY <1>1, <1>7
<1>9. oplog'[imp'.doc] = l /\ ~tx'[imp'.doc].open
  BY <1>1, <1>3, <1>4 DEF SameImport
<1>10. /\ imp'.blob.snapshot => WholeHistory(imp'.blob)
       /\ LogOK(imp'.saved) /\ Kept(imp'.saved, l)
  BY <1>2, <1>4, <1>5 DEF ImportFits, SameImport
<1>11. ImportFits(imp', oplog'[imp'.doc], tx'[imp'.doc])
  BY <1>9, <1>10 DEF ImportFits, Steps
<1>12. ASSUME NEW d \in Docs PROVE Shows(d)'
  <2>1. Shows(d) /\ Uncommitted(d)' = Uncommitted(d) /\ st' = st
    BY DEF IInv, Uncommitted
  <2>2. Settled(d)' = Settled(d)
    BY <1>1, <1>3 DEF Settled, Steps, SameImport
  <2> QED BY <2>1, <2>2 DEF Shows
<1> QED BY <1>1, <1>6, <1>8, <1>11, <1>12 DEF IInv

(* The same when the log does not move.                                    *)
LEMMA ImportTurns ==
  ASSUME IInv, imp.phase \in Steps, UNCHANGED <<oplog, tx, st>>,
         ImportType(imp'), SameImport(imp, imp'), imp'.phase \in Steps,
         imp'.phase = "check" => imp'.idx = 1,
         imp'.phase = "check" => FollowsReplay(imp', oplog[imp.doc]),
         imp'.phase = "main" => GoesThrough(imp', oplog[imp.doc]),
         imp'.phase = "check" => Checks(imp', oplog[imp.doc]),
         imp'.inPlace => Replaces(imp', oplog[imp.doc]),
         Tracks(imp', oplog[imp.doc])
  PROVE  IInv'
<1>1. ImportFits(imp, oplog[imp.doc], tx[imp.doc])
  BY DEF IInv, Steps
<1>2. ImportFits(imp', oplog'[imp'.doc], tx'[imp'.doc])
  BY <1>1 DEF ImportFits, SameImport, Steps
<1>3. ASSUME NEW d \in Docs PROVE Shows(d)'
  <2>1. Shows(d) /\ Uncommitted(d)' = Uncommitted(d) /\ st' = st
    BY DEF IInv, Uncommitted
  <2>2. Settled(d)' = Settled(d)
    BY DEF Settled, Steps, SameImport
  <2> QED BY <2>1, <2>2 DEF Shows
<1>4. /\ DOMAIN oplog' = Docs /\ \A d \in Docs : LogOK(oplog'[d])
      /\ tx' \in [Docs -> Transaction] /\ \A d \in Docs : TxFits(oplog'[d], d, tx'[d])
      /\ st' \in [Docs -> SUBSET ID]
  BY DEF IInv
<1> QED BY <1>2, <1>3, <1>4 DEF IInv

(* A refused import puts the log back.                                     *)
LEMMA RefuseStep ==
  ASSUME IInv, imp.phase \in Steps, Refuse
  PROVE  IInv'
<1>1. /\ DOMAIN oplog = Docs /\ \A d \in Docs : LogOK(oplog[d])
      /\ tx \in [Docs -> Transaction] /\ \A d \in Docs : TxFits(oplog[d], d, tx[d])
      /\ st \in [Docs -> SUBSET ID]
  BY DEF IInv
<1>2. ImportFits(imp, oplog[imp.doc], tx[imp.doc])
  BY DEF IInv, Steps
<1>3. imp.doc \in Docs /\ LogOK(imp.saved) /\ ~tx[imp.doc].open
  BY <1>2 DEF ImportFits, ImportType, Steps
<1>4. TxFits(imp.saved, imp.doc, tx[imp.doc])
  BY <1>1, <1>3 DEF TxFits
<1>5. /\ oplog' = [oplog EXCEPT ![imp.doc] = imp.saved]
      /\ tx' = tx /\ st' = st /\ imp' = Idle("refused")
  BY DEF Refuse
<1>6. imp' \in [phase : {"idle"}, outcome : {"ok", "refused"}]
  BY <1>5 DEF Idle
<1>7. DOMAIN oplog' = Docs /\ \A d \in Docs : LogOK(oplog'[d]) /\ TxFits(oplog'[d], d, tx'[d])
  BY <1>1, <1>3, <1>4, <1>5
<1>8. ASSUME NEW d \in Docs PROVE Shows(d)'
  <2>1. Shows(d) /\ Uncommitted(d)' = Uncommitted(d)
    BY <1>5 DEF IInv, Uncommitted
  <2>2. imp'.phase = "idle"
    BY <1>5 DEF Idle
  <2>3. Settled(d)' = Settled(d)
    BY <1>1, <1>3, <1>5, <2>2 DEF Settled, Steps
  <2> QED BY <1>5, <2>1, <2>3 DEF Shows
<1> QED BY <1>1, <1>5, <1>6, <1>7, <1>8 DEF IInv

-----------------------------------------------------------------------------
(* The steps of an import, one by one.                                     *)

(* What the invariant says of an import past its beginning.                *)
LEMMA InImport ==
  ASSUME IInv, imp.phase \in Steps
  PROVE  /\ ImportFits(imp, oplog[imp.doc], tx[imp.doc]) /\ ImportType(imp)
         /\ imp.doc \in Docs /\ LogOK(oplog[imp.doc]) /\ LogType(oplog[imp.doc])
         /\ Kept(oplog[imp.doc], oplog[imp.doc])
         /\ oplog[imp.doc].vv \in [Peers -> Nat]
         /\ SameImport(imp, imp)
<1>1. ImportFits(imp, oplog[imp.doc], tx[imp.doc])
  BY DEF IInv, Steps
<1>2. imp.doc \in Docs
  BY <1>1 DEF ImportFits, ImportType
<1>3. LogOK(oplog[imp.doc])
  BY <1>2 DEF IInv
<1> QED BY <1>1, <1>2, <1>3 DEF ImportFits, LogOK, LogType, Kept, SameImport

(* A log that keeps what another has knows the changes that one knows.     *)
LEMMA KnownStays ==
  ASSUME NEW s, LogOK(s), NEW l, LogOK(l), Kept(s, l), NEW c \in Change, Known(s, c)
  PROVE  Known(l, c)
<1> DEFINE i == <<c.peer, c.end - 1>>
<1>1. /\ c.peer \in Peers /\ c.end \in Nat /\ c.end - 1 \in Nat
      /\ s.vv \in [Peers -> Nat] /\ DOMAIN s.store = Below(s.vv)
      /\ l.vv \in [Peers -> Nat] /\ DOMAIN l.store = Below(l.vv)
  BY DEF Change, LogOK, LogType
<1>2. i \in ID /\ i[1] = c.peer /\ i[2] = c.end - 1 /\ i[2] < s.vv[i[1]]
  BY <1>1 DEF ID, Known
<1> HIDE DEF i
<1>3. i \in DOMAIN s.store
  BY <1>1, <1>2, BelowMember
<1>4. i \in DOMAIN l.store
  BY <1>3 DEF Kept
<1>5. i[2] < l.vv[i[1]]
  BY <1>1, <1>2, <1>4, BelowMember
<1> QED BY <1>1, <1>2, <1>5 DEF Known

(* A log that takes in a change knows it, and what it knew.                *)
LEMMA KnownGrows ==
  ASSUME NEW l, LogType(l), NEW c \in Change, ~Known(l, c),
         NEW m, m.vv = [l.vv EXCEPT ![c.peer] = c.end]
  PROVE  \A b \in Change : (b.peer = c.peer /\ b.end = c.end) \/ Known(l, b) => Known(m, b)
<1>1. c.peer \in Peers /\ c.end \in Nat /\ l.vv \in [Peers -> Nat]
  BY DEF Change, LogType
<1>2. l.vv[c.peer] < c.end
  BY <1>1 DEF Known
<1> SUFFICES ASSUME NEW b \in Change, (b.peer = c.peer /\ b.end = c.end) \/ Known(l, b)
             PROVE  Known(m, b)
  OBVIOUS
<1>3. b.peer \in Peers /\ b.end \in Nat
  BY DEF Change
<1> QED BY <1>1, <1>2, <1>3 DEF Known

(* A change that is applied or waits leaves the log good; its last op goes *)
(* onto the stack when it was applied.                                     *)
LEMMA SettleStep ==
  ASSUME IInv, imp.phase \in {"pending", "park"}, NEW c \in Change, NEW next,
         ImportType(next), SameImport(imp, next), next.phase = imp.phase,
         next.order = imp.order, next.phase = "park" => next.todo = {}, ~imp.inPlace,
         \A b \in imp.blob.changes : RestOf(imp.saved, c, b) \/ Accounted(next, oplog[imp.doc], b),
         Settle(c, next), UNCHANGED <<tx, st>>
  PROVE  IInv'
<1> DEFINE l == oplog[imp.doc]
<1>1. imp.phase \in Steps
  BY DEF Steps
<1>2. /\ ImportType(imp) /\ imp.doc \in Docs /\ LogOK(l) /\ LogType(l) /\ Kept(l, l)
      /\ l.vv \in [Peers -> Nat]
  BY <1>1, InImport
<1>3. c.peer \in Peers /\ c.start \in Nat /\ c.deps \subseteq ID /\ c.lam \in Nat
      /\ IsFiniteSet(c.deps)
  BY DEF Change
<1>4. next.phase \in Steps /\ next.phase \notin {"check", "main"}
  BY <1>1
<1> DEFINE Safe(m, log) ==
             /\ m.phase = next.phase /\ m.blob = next.blob /\ m.order = next.order
             /\ m.todo = next.todo /\ m.saved = next.saved
             /\ \A b \in imp.blob.changes : Accounted(m, log, b)
<1>8. ASSUME NEW m, NEW log, Safe(m, log) PROVE Tracks(m, log)
  <2>1. Tracks(imp, l)
    BY <1>1, InImport DEF ImportFits
  <2>2. m.blob = imp.blob /\ m.order = imp.order /\ m.phase = imp.phase /\ m.saved = imp.saved
    BY <1>8 DEF SameImport
  <2>3. m.phase # "build" /\ m.phase # "main" /\ (m.phase = "park" => m.todo = {})
    BY <1>4, <1>8
  <2> QED BY <1>8, <2>1, <2>2, <2>3 DEF Tracks
<1> HIDE DEF Safe
<1>9. next.saved = imp.saved /\ ~next.inPlace
  BY DEF SameImport
<1>5. CASE Known(l, c) /\ imp' = next /\ UNCHANGED oplog
  <2>1. Safe(imp', l)
    BY <1>5 DEF Safe, Accounted, Known, RestOf
  <2>2. Tracks(imp', l)
    BY <1>8, <2>1
  <2> QED BY <1>1, <1>4, <1>5, <1>9, <2>2, ImportTurns
<1>6. CASE /\ ~Known(l, c)
           /\ \E missing \in MissingFor(l, c) :
                oplog' = [oplog EXCEPT ![imp.doc] = Park(l, c, missing)]
           /\ imp' = next
  <2>1. PICK missing \in MissingFor(l, c) :
          oplog' = [oplog EXCEPT ![imp.doc] = Park(l, c, missing)]
    BY <1>6
  <2>2. missing \in ID
    <3>1. CASE l.vv[c.peer] < c.start
      <4>1. missing = <<c.peer, c.start - 1>>
        BY <2>1, <3>1 DEF MissingFor
      <4>2. l.vv[c.peer] \in Nat
        BY <1>2, <1>3
      <4>3. c.start - 1 \in Nat
        BY <1>3, <3>1, <4>2
      <4> QED BY <1>3, <4>1, <4>3 DEF ID
    <3>2. CASE ~(l.vv[c.peer] < c.start)
      BY <1>3, <2>1, <3>2 DEF MissingFor
    <3> QED BY <3>1, <3>2
  <2> DEFINE m == Park(l, c, missing)
             e == [missing |-> missing, ch |-> c]
  <2>3. e \in Waiting
    BY <2>2 DEF Waiting
  <2>4. /\ m.store = l.store /\ m.vv = l.vv /\ m.fr = l.fr /\ m.pending = l.pending \cup {e}
        /\ m \in [store : {m.store}, vv : [Peers -> Nat], fr : SUBSET ID, pending : SUBSET Waiting]
    <3> HIDE DEF e
    <3> QED BY <1>2, <2>3 DEF Park, LogType, e
  <2> HIDE DEF m, l
  <2>5. LogOK(m) /\ Kept(l, m)
    BY <1>2, <2>4 DEF LogOK, LogType, Kept
  <2>6. Safe(imp', m)
    <3>1. \A b : Known(l, b) => Known(m, b)
      BY <2>4 DEF Known
    <3>2. e \in m.pending /\ e.ch = c /\ l.pending \subseteq m.pending
      BY <2>4
    <3>3. \A b : RestOf(imp.saved, c, b) => Accounted(next, m, b)
      BY <1>9, <3>2 DEF Accounted
    <3>4. \A b \in imp.blob.changes : Accounted(next, l, b) => Accounted(next, m, b)
      BY <3>1, <3>2 DEF Accounted
    <3> QED BY <1>6, <3>3, <3>4 DEF Safe, l
  <2>7. Tracks(imp', m)
    BY <1>8, <2>6
  <2> QED BY <1>1, <1>4, <1>6, <1>9, <2>1, <2>5, <2>7, ImportMoves DEF l, m
<1>7. CASE /\ ~Known(l, c)
           /\ MissingFor(l, c) = {}
           /\ ~InsertRefused(l, FromRemote(l, c))
           /\ oplog' = [oplog EXCEPT ![imp.doc] = InsertRemote(l, FromRemote(l, c))]
           /\ imp' = [next EXCEPT !.stack = Append(@, LastID(c))]
  <2> DEFINE n == Larger(c.lam, NextLamport(l, c.deps))
             r == [c EXCEPT !.lam = n]
             m == InsertRemote(l, TrimKnown(l, r))
  <2>1. NextLamport(l, c.deps) \in Nat
    BY <1>2, <1>3, NextLamportAbove
  <2>2. n \in Nat /\ n >= NextLamport(l, c.deps)
    BY <1>3, <2>1 DEF Larger
  <2>3. /\ r \in Change
        /\ r.peer = c.peer /\ r.start = c.start /\ r.end = c.end /\ r.deps = c.deps
        /\ \A j \in r.deps \cap DOMAIN l.store : l.store[j].lam < r.lam
    <3> HIDE DEF n, l
    <3> QED BY <1>2, <2>2, RaisedLamport
  <2>4. FromRemote(l, c) = TrimKnown(l, r)
    BY DEF FromRemote
  <2> HIDE DEF r, l
  <2>5. MissingFor(l, c) = {}
    BY <1>7 DEF l
  <2>6. c.start <= l.vv[c.peer] /\ \A j \in c.deps : j \in DOMAIN l.store
    BY <1>2, <2>5, NoneMissing
  <2>7. ~Known(l, r)
    BY <1>7, <2>3 DEF Known
  <2>8. /\ LogOK(m) /\ Kept(l, m) /\ m.vv = [l.vv EXCEPT ![c.peer] = c.end]
        /\ m.pending = l.pending
    <3>0. \A j \in r.deps : j \in DOMAIN l.store /\ l.store[j].lam < r.lam
      BY <2>3, <2>6
    <3>1. ~InsertRefused(l, TrimKnown(l, r)) /\ r.start <= l.vv[r.peer]
      BY <1>7, <2>3, <2>4, <2>6 DEF l
    <3>2. /\ LogOK(m) /\ Kept(l, m) /\ m.vv = [l.vv EXCEPT ![r.peer] = r.end]
          /\ m.pending = l.pending
      BY <1>2, <2>3, <2>7, <3>0, <3>1, AppliedOK
    <3> HIDE DEF m
    <3> QED BY <2>3, <3>2
  <2>9. /\ ImportType(imp') /\ SameImport(next, imp') /\ imp'.phase = next.phase
        /\ SameReplay(next, imp') /\ imp'.todo = next.todo /\ imp'.waiting = next.waiting
    BY <1>7, PushStack
  <2> HIDE DEF m
  <2>10. SameImport(imp, imp')
    BY <2>9 DEF SameImport
  <2>11. oplog' = [oplog EXCEPT ![imp.doc] = m]
    BY <1>7, <2>4 DEF m
  <2>12. Safe(imp', m)
    <3>1. \A b \in Change : (b.peer = c.peer /\ b.end = c.end) \/ Known(l, b) => Known(m, b)
      BY <1>2, <1>7, <2>8, KnownGrows
    <3>2. imp.blob.changes \subseteq Change
      BY <1>2 DEF ImportType, Blob
    <3>4. \A b \in Change : RestOf(imp.saved, c, b) => Known(m, b)
      BY <3>1 DEF RestOf
    <3>5. \A b \in Change : Accounted(next, l, b) => Accounted(imp', m, b)
      BY <2>8, <2>9, <3>1 DEF Accounted, SameImport
    <3>3. \A b \in imp.blob.changes : Accounted(imp', m, b)
      BY <3>2, <3>4, <3>5 DEF Accounted, l
    <3> QED BY <2>9, <3>3 DEF Safe, SameImport, SameReplay
  <2>13. Tracks(imp', m)
    BY <1>8, <2>12
  <2>14. ~imp'.inPlace
    BY <1>9, <2>9 DEF SameImport
  <2> QED BY <1>1, <1>4, <2>8, <2>9, <2>10, <2>11, <2>13, <2>14, ImportMoves DEF l
<1> QED BY <1>5, <1>6, <1>7 DEF Settle

(* One step of checkKnown's replay keeps the invariant.                    *)
LEMMA CheckStepOK ==
  ASSUME IInv, CheckStep
  PROVE  IInv'
<1> DEFINE k == Len(imp.ends)
           c == imp.order[k]
           e == imp.ends[k]
           x == Append(imp.ends, Replayed(c, e))
<1>1. imp.phase = "check" /\ imp.phase \in Steps
  BY DEF CheckStep, Steps
<1>2. ImportFits(imp, oplog[imp.doc], tx[imp.doc]) /\ ImportType(imp)
  BY <1>1, InImport
<1>3. /\ imp.order \in Seq(Change) /\ imp.ends \in Seq([Peers -> Nat]) /\ imp.idx = 1
      /\ imp.ends[1] = oplog[imp.doc].vv /\ Replays(imp.order, imp.ends)
      /\ k \in Nat /\ 1 <= k
  BY <1>1, <1>2 DEF ImportFits, ImportType, FollowsReplay
<1>4. k <= Len(imp.order) /\ (ReadyAt(c, e) => c.start <= e[c.peer])
  BY DEF CheckStep
<1>5. c \in Change /\ e \in [Peers -> Nat]
  BY <1>3, <1>4
<1>6. Replayed(c, e) \in [Peers -> Nat]
  BY <1>5 DEF Replayed, Change
<1>7. /\ x \in Seq([Peers -> Nat]) /\ Len(x) = k + 1
      /\ \A i \in 1 .. k : x[i] = imp.ends[i]
      /\ x[k + 1] = Replayed(c, e)
  BY <1>3, <1>6, AppendProperties
<1> HIDE DEF x
<1>8. Replays(imp.order, x)
  <2> SUFFICES ASSUME NEW i \in 1 .. k
               PROVE  /\ ReadyAt(imp.order[i], x[i]) => imp.order[i].start <= x[i][imp.order[i].peer]
                      /\ x[i + 1] = Replayed(imp.order[i], x[i])
    <3>1. Len(x) - 1 = k
      <4> HIDE DEF k
      <4> QED BY <1>3, <1>7
    <3> HIDE DEF k
    <3> QED BY <3>1 DEF Replays
  <2>1. CASE i = k
    BY <1>3, <1>4, <1>7, <2>1
  <2>2. CASE i # k
    <3>1. i \in 1 .. k - 1 /\ i + 1 \in 1 .. k
      BY <1>3, <2>2
    <3>2. /\ ReadyAt(imp.order[i], imp.ends[i]) =>
               imp.order[i].start <= imp.ends[i][imp.order[i].peer]
          /\ imp.ends[i + 1] = Replayed(imp.order[i], imp.ends[i])
      BY <1>3, <3>1 DEF Replays
    <3>3. x[i] = imp.ends[i] /\ x[i + 1] = imp.ends[i + 1]
      <4> HIDE DEF k
      <4> QED BY <1>7, <3>1
    <3> QED BY <3>2, <3>3
  <2> QED BY <2>1, <2>2
<1>9. imp' = [imp EXCEPT !.ends = x] /\ UNCHANGED <<oplog, tx, st>>
  BY DEF CheckStep, x
<1>10. /\ ImportType(imp') /\ SameImport(imp, imp') /\ imp'.phase = imp.phase
       /\ imp'.order = imp.order /\ imp'.ends = x /\ imp'.idx = imp.idx
       /\ imp'.todo = imp.todo /\ imp'.waiting = imp.waiting
  BY <1>2, <1>7, <1>9, SetEnds
<1>11. FollowsReplay(imp', oplog[imp.doc])
  <2>1. imp'.ends = x /\ imp'.order = imp.order /\ imp'.idx = 1
    BY <1>3, <1>10
  <2>2. Len(x) <= Len(imp.order) + 1 /\ 1 \in 1 .. Len(x) /\ x[1] = oplog[imp.doc].vv
    BY <1>3, <1>4, <1>7
  <2> QED BY <1>8, <2>1, <2>2 DEF FollowsReplay
<1>12. Tracks(imp', oplog[imp.doc])
  BY <1>1, <1>2, <1>10 DEF ImportFits, Tracks, SameImport
<1>13. imp'.phase = "check" => Checks(imp', oplog[imp.doc])
  <2> DEFINE l == oplog[imp.doc]
  <2>1. Checks(imp, l) /\ l.vv \in [Peers -> Nat]
    BY <1>1, <1>2, InImport DEF ImportFits
  <2>2. ASSUME NEW p \in Peers PROVE l.vv[p] <= Replayed(c, e)[p]
    <3>0. k \in 1 .. Len(imp.ends)
      BY <1>3
    <3>1. l.vv[p] \in Nat /\ e[p] \in Nat /\ l.vv[p] <= e[p]
      <4> HIDE DEF k
      <4> QED BY <1>5, <2>1, <3>0 DEF Checks
    <3>2. c.end \in Nat
      BY <1>5 DEF Change
    <3> HIDE DEF l, e, c
    <3>3. CASE ReadyAt(c, e) /\ p = c.peer
      BY <1>5, <3>1, <3>2, <3>3 DEF ReadyAt, Replayed
    <3>4. CASE ~ReadyAt(c, e) \/ p # c.peer
      BY <1>5, <3>1, <3>4 DEF Replayed
    <3> QED BY <3>3, <3>4
  <2>3. ASSUME NEW i \in 1 .. Len(x), NEW p \in Peers PROVE l.vv[p] <= x[i][p]
    <3>1. i = k + 1 \/ i \in 1 .. k
      BY <1>3, <1>7
    <3> QED BY <1>7, <2>1, <2>2, <3>1 DEF Checks
  <2>4. ~UsedID(l, imp.blob.changes)
    <3>1. CASE k = 1
      BY <3>1 DEF CheckStep
    <3>2. CASE k # 1
      <4>1. k > 1
        <5> HIDE DEF k
        <5> QED BY <1>3, <3>2
      <4> QED BY <2>1, <4>1 DEF Checks
    <3> QED BY <3>1, <3>2
  <2> QED BY <1>10, <2>1, <2>3, <2>4 DEF Checks, SameImport, Ordered
<1>14. imp'.inPlace => Replaces(imp', oplog[imp.doc])
  BY <1>1, <1>2, <1>10 DEF ImportFits, Replaces, SameImport, Ordered, Passed
<1> QED BY <1>1, <1>3, <1>9, <1>10, <1>11, <1>12, <1>13, <1>14, ImportTurns

(* The end of the replay keeps it: the first pass starts where the replay  *)
(* did, or over what it trims off a snapshot the document has.             *)
LEMMA CheckDoneOK ==
  ASSUME SnapshotsInOrder, IInv, CheckDone
  PROVE  IInv'
<1> DEFINE l == oplog[imp.doc]
           n == [imp EXCEPT !.phase = "main"]
<1>1. imp.phase = "check" /\ imp.phase \in Steps /\ "main" \in Steps
  BY DEF CheckDone, Steps
<1>2. ImportFits(imp, l, tx[imp.doc]) /\ ImportType(imp) /\ LogOK(l)
  BY <1>1, InImport
<1>3. /\ Checks(imp, l) /\ Tracks(imp, l) /\ FollowsReplay(imp, l) /\ imp.saved = l
      /\ imp.idx = 1
      /\ imp.inPlace => Replaces(imp, l)
  BY <1>1, <1>2 DEF ImportFits, Checks
<1>4. imp.order \in Seq(Change) /\ imp.ends \in Seq([Peers -> Nat])
      /\ imp.blob.changes \subseteq Change /\ IsFiniteSet(imp.blob.changes)
  BY <1>2 DEF ImportType, Blob
<1>5. PICK x \in IF Trims(imp) THEN TrimmedOrders(l, imp.blob.changes) ELSE {imp.order} :
        imp' = [n EXCEPT !.order = x] /\ UNCHANGED <<oplog, tx, st>>
  BY DEF CheckDone, Trims
<1>6. Trims(imp) => x \in TrimmedOrders(l, imp.blob.changes)
  BY <1>5
<1>15. ~Trims(imp) => x = imp.order
  BY <1>5
<1>7. x \in Seq(Change) /\ Len(x) \in Nat
  <2> HIDE DEF l
  <2>1. CASE Trims(imp)
    BY <1>2, <1>4, <1>6, <2>1, TrimmedSeq
  <2>2. CASE ~Trims(imp)
    BY <1>4, <1>15, <2>2
  <2> QED BY <2>1, <2>2
<1>8. ImportType(n) /\ SameImport(imp, n) /\ SameReplay(imp, n) /\ n.phase = "main"
      /\ n.todo = imp.todo /\ n.waiting = imp.waiting
  BY <1>1, <1>2, SetPhase
<1> HIDE DEF n
<1>9. /\ ImportType(imp') /\ SameImport(imp, imp') /\ imp'.phase = "main"
      /\ imp'.order = x /\ imp'.ends = imp.ends /\ imp'.idx = imp.idx
      /\ imp'.todo = imp.todo /\ imp'.waiting = imp.waiting
  <2>1. /\ ImportType(imp') /\ SameImport(n, imp') /\ imp'.phase = n.phase
        /\ imp'.order = x /\ imp'.ends = n.ends /\ imp'.idx = n.idx
        /\ imp'.todo = n.todo /\ imp'.waiting = n.waiting
    BY <1>5, <1>7, <1>8 DEF ImportType, SameImport
  <2> QED BY <1>8, <2>1 DEF SameImport, SameReplay
<1>10. Trims(imp') <=> Trims(imp)
  BY <1>9 DEF Trims, SameImport
<1>11. ASSUME Trims(imp) PROVE CausesFirst(imp', l)
  <2>1. InOrder(imp.blob)
    BY <1>1, <1>11 DEF SnapshotsInOrder, Trims
  <2> HIDE DEF l
  <2>2. \A i \in 1 .. Len(x) : \A j \in Causes(x[i]) :
          Has(l, j) \/ \E k \in 1 .. i - 1 : j \in IdsOf(x[k])
    BY <1>2, <1>4, <1>6, <1>11, <2>1, TrimmedCauses
  <2>3. imp'.idx = 1 /\ imp'.order = x
    BY <1>3, <1>9
  <2> QED BY <2>2, <2>3 DEF CausesFirst
<1>16. ASSUME ~Trims(imp) PROVE FollowsReplay(imp', l) /\ Len(imp'.ends) = Len(imp'.order) + 1
  <2>1. Len(imp.ends) > Len(imp.order)
    BY DEF CheckDone
  <2>2. Len(imp.ends) \in Nat /\ Len(imp.order) \in Nat
    BY <1>4
  <2>3. imp'.order = imp.order /\ imp'.ends = imp.ends /\ imp'.idx = imp.idx
    BY <1>9, <1>15, <1>16
  <2> QED BY <1>3, <2>1, <2>2, <2>3 DEF FollowsReplay
<1>12. GoesThrough(imp', l)
  <2>1. imp'.idx \in 1 .. Len(imp'.order) + 1
    BY <1>3, <1>7, <1>9
  <2> HIDE DEF l
  <2> QED BY <1>10, <1>11, <1>16, <2>1 DEF GoesThrough
<1>13. Tracks(imp', l)
  <2>1. ASSUME NEW c \in imp.blob.changes
        PROVE  Known(imp.saved, c) \/ \E i \in 1 .. Len(x) : RestOf(imp.saved, x[i], c)
    <3>1. CASE ~Trims(imp)
      BY <1>1, <1>3, <1>15, <3>1 DEF Tracks
    <3>2. CASE Trims(imp) /\ ~Known(l, c)
      <4> HIDE DEF l
      <4>1. PICK i \in 1 .. Len(x) : x[i] = TrimKnown(l, c)
        BY <1>2, <1>4, <1>6, <3>2, TrimmedSeq
      <4>2. RestOf(l, x[i], c)
        BY <1>2, <1>4, <3>2, <4>1, TrimmedRest
      <4> QED BY <1>3, <4>2
    <3> QED BY <1>3, <3>1, <3>2
  <2>2. imp.idx = 1 /\ 1 .. 1 - 1 = {}
    BY <1>3
  <2> QED BY <1>9, <2>1, <2>2 DEF Tracks, SameImport
<1>14. imp'.inPlace => Replaces(imp', l)
  <2> SUFFICES ASSUME imp'.inPlace PROVE Replaces(imp', l)
    OBVIOUS
  <2>1. imp.inPlace /\ Replaces(imp, l)
    BY <1>3, <1>9 DEF SameImport
  <2>2. x = imp.order
    BY <1>15, <2>1 DEF Trims
  <2> QED BY <1>1, <1>9, <2>1, <2>2 DEF Replaces, SameImport, Ordered, Passed
<1> QED BY <1>1, <1>5, <1>9, <1>12, <1>13, <1>14, ImportTurns

(* A change whose causes are applied has its deps and continues its peer.  *)
LEMMA CausesHad ==
  ASSUME NEW l, l.vv \in [Peers -> Nat], NEW c \in Change, \A j \in Causes(c) : Has(l, j)
  PROVE  (\A j \in c.deps : Has(l, j)) /\ c.start <= l.vv[c.peer]
<1>1. c.peer \in Peers /\ c.start \in Nat /\ l.vv[c.peer] \in Nat
  BY DEF Change
<1>2. \A j \in c.deps : Has(l, j)
  BY DEF Causes
<1>3. CASE c.start = 0
  BY <1>1, <1>2, <1>3
<1>4. CASE c.start # 0
  <2> DEFINE j == <<c.peer, c.start - 1>>
  <2>1. j \in Causes(c)
    BY <1>4 DEF Causes
  <2>2. j[1] = c.peer /\ j[2] = c.start - 1
    OBVIOUS
  <2> HIDE DEF j
  <2>3. c.start - 1 < l.vv[c.peer]
    BY <2>1, <2>2 DEF Has
  <2> QED BY <1>1, <1>2, <2>3
<1> QED BY <1>3, <1>4

(* A step of the first pass over a trimmed snapshot keeps causes first: of *)
(* the changes to come, those of the one it was over with are applied.     *)
LEMMA CausesStay ==
  ASSUME NEW m, m.order \in Seq(Change), m.idx \in 1 .. Len(m.order),
         NEW l, LogType(l), CausesFirst(m, l),
         NEW n, n.order = m.order, n.idx = m.idx + 1,
         NEW log, log.vv \in [Peers -> Nat], \A p \in Peers : l.vv[p] <= log.vv[p],
         m.order[m.idx].end <= log.vv[m.order[m.idx].peer]
  PROVE  CausesFirst(n, log)
<1> DEFINE c == m.order[m.idx]
<1>0. c \in Change
  OBVIOUS
<1>6. m.idx \in Nat /\ 1 <= m.idx /\ l.vv \in [Peers -> Nat]
  BY DEF LogType
<1>1. /\ c \in Change /\ c.peer \in Peers /\ c.start \in Nat /\ c.end \in Nat
      /\ l.vv \in [Peers -> Nat] /\ m.idx \in Nat /\ 1 <= m.idx
  <2> HIDE DEF c
  <2> QED BY <1>0, <1>6 DEF Change
<1> SUFFICES ASSUME NEW i \in m.idx + 1 .. Len(m.order), NEW j \in Causes(m.order[i])
             PROVE  Has(log, j) \/ \E k \in m.idx + 1 .. i - 1 : j \in IdsOf(m.order[k])
  BY DEF CausesFirst
<1>2. i \in m.idx .. Len(m.order) /\ m.order[i] \in Change
  BY <1>1
<1>3. j[1] \in Peers /\ j[2] \in Int
  <2> DEFINE b == m.order[i]
  <2>1. b.deps \subseteq ID /\ b.peer \in Peers /\ b.start \in Nat
    BY <1>2 DEF Change
  <2>2. j \in b.deps \/ j = <<b.peer, b.start - 1>>
    BY DEF Causes
  <2> HIDE DEF b
  <2> QED BY <2>1, <2>2 DEF ID
<1>4. CASE Has(l, j)
  BY <1>1, <1>3, <1>4 DEF Has
<1>5. ASSUME NEW k \in m.idx .. i - 1, j \in IdsOf(m.order[k])
      PROVE  Has(log, j) \/ \E h \in m.idx + 1 .. i - 1 : j \in IdsOf(m.order[h])
  <2>1. CASE k = m.idx
    <3>1. j[1] = c.peer /\ j[2] < c.end /\ c.end <= log.vv[c.peer]
      BY <1>1, <1>5, <2>1 DEF IdsOf
    <3> HIDE DEF c
    <3> QED BY <1>1, <1>3, <3>1 DEF Has
  <2>2. CASE k # m.idx
    <3>1. k \in m.idx + 1 .. i - 1
      BY <1>1, <2>2
    <3> QED BY <1>5, <3>1
  <2> QED BY <2>1, <2>2
<1> QED BY <1>2, <1>4, <1>5 DEF CausesFirst

(* The first pass over a snapshot that replaces an empty history finds the *)
(* next change ready and new, since what it depends on comes first by      *)
(* lamport.                                                                *)
LEMMA InPlaceNext ==
  ASSUME NEW m, ImportType(m), NEW l, LogOK(l), WholeHistory(m.blob), Replaces(m, l),
         m.phase = "main", m.idx \in 1 .. Len(m.order)
  PROVE  LET c == m.order[m.idx]
         IN  /\ Known(l, c) => c \in Passed(m)
             /\ ~Known(l, c) => /\ c.deps \subseteq DOMAIN l.store
                               /\ c.start >= l.vv[c.peer]
                               /\ \A e \in Passed(m) : LastID(c) \notin e.deps
<1> DEFINE k == m.idx
           c == m.order[k]
           C == m.blob.changes
           last == LastID(c)
           first == <<c.peer, c.start>>
<1>1. /\ m.order \in Seq(Change) /\ k \in 1 .. Len(m.order) /\ Len(m.order) \in Nat
      /\ \A i \in 1 .. Len(m.order) : m.order[i] \in Change /\ m.order[i] \in C
      /\ \A e \in C : \E i \in 1 .. Len(m.order) : m.order[i] = e
      /\ \A i, j \in 1 .. Len(m.order) : i < j => m.order[i].lam <= m.order[j].lam
      /\ DOMAIN l.store = IdsIn(Passed(m))
  BY DEF ImportType, Replaces, Ordered
<1> HIDE DEF k, C
<1>2. /\ c \in Change /\ c \in C /\ c.peer \in Peers /\ c.start \in Nat /\ c.end \in Nat
      /\ c.start < c.end /\ c.lam \in Nat
  BY <1>1 DEF Change
<1> HIDE DEF c
<1>3. l.vv \in [Peers -> Nat] /\ DOMAIN l.store = Below(l.vv)
  BY DEF LogOK, LogType
<1>4. \A e \in Passed(m) : \E i \in 1 .. Len(m.order) : i < k /\ m.order[i] = e /\ e \in C
  <2>1. \A i \in 1 .. k - 1 : i \in 1 .. Len(m.order) /\ i < k
    BY <1>1
  <2> QED BY <1>1, <2>1 DEF Passed, k
<1>5. \A i \in 1 .. Len(m.order) : i < k => m.order[i] \in Passed(m)
  <2>1. \A i \in 1 .. Len(m.order) : i < k => i \in 1 .. k - 1
    BY <1>1
  <2> QED BY <2>1 DEF Passed, k
<1>6. \A e \in Passed(m) : c \in Passed(m) \/ IdsOf(c) \cap IdsOf(e) = {}
  BY <1>2, <1>4 DEF WholeHistory, C
<1>7. last \in IdsOf(c) /\ first \in IdsOf(c)
  BY <1>2 DEF IdsOf, LastID
<1>8. \A i \in IdsOf(c) : i \in DOMAIN l.store => c \in Passed(m)
  BY <1>1, <1>6 DEF IdsIn
<1>9. Known(l, c) => c \in Passed(m)
  <2>1. last \in ID /\ last[1] = c.peer /\ last[2] = c.end - 1
    BY <1>2 DEF LastID, ID
  <2> HIDE DEF last
  <2>2. Known(l, c) => last \in DOMAIN l.store
    BY <1>2, <1>3, <2>1, BelowMember DEF Known
  <2> QED BY <1>7, <1>8, <2>2
<1>10. c \in Passed(m) => Known(l, c)
  <2>1. c \in Passed(m) => last \in DOMAIN l.store
    BY <1>1, <1>7 DEF IdsIn
  <2>2. last[1] = c.peer /\ last[2] = c.end - 1
    BY DEF LastID
  <2> HIDE DEF last
  <2>3. last \in DOMAIN l.store => Known(l, c)
    BY <1>2, <1>3, <2>2, BelowMember DEF Known
  <2> QED BY <2>1, <2>3
<1>11. ASSUME c \notin Passed(m), NEW j \in c.deps PROVE j \in DOMAIN l.store
  <2>1. PICK e \in C : j \in IdsOf(e) /\ e.lam < c.lam
    BY <1>2 DEF WholeHistory, C
  <2>2. PICK i \in 1 .. Len(m.order) : m.order[i] = e
    BY <1>1
  <2>3. e.lam \in Nat /\ i \in Nat /\ k \in Nat
    <3>1. e \in Change /\ i \in Nat /\ k \in Nat
      BY <1>1, <2>2
    <3> QED BY <3>1 DEF Change
  <2>4. i # k /\ ~(k < i)
    BY <1>1, <1>2, <2>1, <2>2, <2>3 DEF c
  <2>5. i < k
    BY <2>3, <2>4
  <2> QED BY <1>1, <1>5, <2>1, <2>2, <2>5 DEF IdsIn
<1>12. ASSUME c \notin Passed(m) PROVE c.start >= l.vv[c.peer]
  <2>1. first \in ID /\ first[1] = c.peer /\ first[2] = c.start
    BY <1>2 DEF ID
  <2> HIDE DEF first
  <2>2. first \notin DOMAIN l.store
    BY <1>7, <1>8, <1>12
  <2> QED BY <1>2, <1>3, <2>1, <2>2, BelowMember
<1>13. ASSUME c \notin Passed(m), NEW e \in Passed(m) PROVE last \notin e.deps
  <2> SUFFICES ASSUME last \in e.deps PROVE FALSE
    OBVIOUS
  <2>1. PICK i \in 1 .. Len(m.order) : i < k /\ m.order[i] = e /\ e \in C
    BY <1>4
  <2>2. PICK f \in C : last \in IdsOf(f) /\ f.lam < e.lam
    BY <2>1 DEF WholeHistory, C
  <2>3. f = c
    BY <1>2, <1>7, <2>2 DEF WholeHistory, C
  <2>4. e.lam <= c.lam /\ e.lam \in Nat
    BY <1>1, <2>1 DEF c, Change
  <2> QED BY <1>2, <2>2, <2>3, <2>4
<1> QED BY <1>9, <1>10, <1>11, <1>12, <1>13 DEF c, k, last

(* The first pass does to the log what the replay did to the counter ends, *)
(* or finds the causes of the next change applied.                         *)
LEMMA MainStepOK ==
  ASSUME IInv, MainStep
  PROVE  IInv'
<1> DEFINE l == oplog[imp.doc]
           k == imp.idx
           c == imp.order[k]
           e == imp.ends[k]
           ready == c.deps \subseteq {i \in DOMAIN l.store : Has(l, i)}
           r == [c EXCEPT !.lam = NextLamport(l, c.deps)]
           new == TrimKnown(l, r)
           next == [imp EXCEPT !.idx = @ + 1]
<1>1. imp.phase = "main" /\ imp.phase \in Steps
  BY DEF MainStep, Steps
<1>2. /\ ImportFits(imp, l, tx[imp.doc]) /\ ImportType(imp) /\ imp.doc \in Docs
      /\ LogOK(l) /\ LogType(l) /\ Kept(l, l) /\ l.vv \in [Peers -> Nat]
  BY <1>1, InImport
<1>3. /\ imp.order \in Seq(Change) /\ imp.ends \in Seq([Peers -> Nat])
      /\ GoesThrough(imp, l) /\ k \in 1 .. Len(imp.order) + 1
  BY <1>1, <1>2 DEF ImportFits, ImportType, GoesThrough
<1>4. k <= Len(imp.order) /\ UNCHANGED <<tx, st>>
  BY DEF MainStep
<1>5. c \in Change /\ k \in 1 .. Len(imp.order) /\ k \in Nat
  BY <1>3, <1>4
<1>7. c.peer \in Peers /\ c.start \in Nat /\ c.end \in Nat /\ c.deps \subseteq ID
      /\ IsFiniteSet(c.deps)
  BY <1>5 DEF Change
<1>8. ready <=> \A j \in c.deps : Has(l, j)
  BY <1>2, <1>7, BelowMember DEF Has, LogOK
<1> HIDE DEF ready
<1>6. ASSUME ~Trims(imp)
      PROVE  /\ e = l.vv /\ Len(imp.ends) = Len(imp.order) + 1
             /\ Len(imp.ends) <= Len(imp.order) + 1 /\ k + 1 \in 1 .. Len(imp.ends)
             /\ Replays(imp.order, imp.ends)
             /\ ReadyAt(c, e) => c.start <= e[c.peer]
             /\ imp.ends[k + 1] = Replayed(c, e)
             /\ ReadyAt(c, e) <=> ~Known(l, c) /\ ready
  <2>1. /\ FollowsReplay(imp, l) /\ Len(imp.ends) = Len(imp.order) + 1
        /\ e = l.vv /\ Replays(imp.order, imp.ends)
    BY <1>3, <1>6 DEF GoesThrough, FollowsReplay
  <2>2. k \in 1 .. Len(imp.ends) - 1 /\ k + 1 \in 1 .. Len(imp.ends)
    BY <1>3, <1>5, <2>1
  <2>3. /\ ReadyAt(c, e) => c.start <= e[c.peer]
        /\ imp.ends[k + 1] = Replayed(c, e)
    <3> HIDE DEF k
    <3> QED BY <2>1, <2>2 DEF Replays
  <2>4. c.end > e[c.peer] <=> ~Known(l, c)
    BY <1>2, <1>7, <2>1 DEF Known
  <2>5. ReadyAt(c, e) <=> ~Known(l, c) /\ ready
    BY <1>8, <2>1, <2>4 DEF ReadyAt, Has
  <2>6. Len(imp.ends) <= Len(imp.order) + 1
    BY <1>3, <2>1
  <2> QED BY <2>1, <2>2, <2>3, <2>5, <2>6
<1>9. ASSUME Trims(imp)
      PROVE  ready /\ c.start <= l.vv[c.peer] /\ CausesFirst(imp, l)
  <2>1. CausesFirst(imp, l)
    BY <1>3, <1>9 DEF GoesThrough
  <2>2. k \in k .. Len(imp.order) /\ k .. k - 1 = {}
    BY <1>5
  <2>3. \A j \in Causes(c) : Has(l, j)
    <3> HIDE DEF l
    <3> QED BY <2>1, <2>2 DEF CausesFirst
  <2>4. (\A j \in c.deps : Has(l, j)) /\ c.start <= l.vv[c.peer]
    <3> HIDE DEF l, c
    <3> QED BY <1>2, <1>5, <2>3, CausesHad
  <2> QED BY <1>8, <2>1, <2>4
<1>18. ASSUME ~Known(l, c), ready PROVE c.start <= l.vv[c.peer]
  BY <1>6, <1>9, <1>18
<1>10. /\ ImportType(next) /\ SameImport(imp, next) /\ next.phase = "main"
       /\ next.order = imp.order /\ next.ends = imp.ends /\ next.idx = k + 1
       /\ next.waiting = imp.waiting /\ next.todo = imp.todo
  BY <1>1, <1>2, <1>5, SetIdx
<1> HIDE DEF next
<1>11. ASSUME NEW m, SameReplay(next, m), SameImport(imp, m), NEW log,
              log.vv = IF ~Known(l, c) /\ ready THEN [l.vv EXCEPT ![c.peer] = c.end] ELSE l.vv
       PROVE  GoesThrough(m, log)
  <2>1. /\ m.order = imp.order /\ m.ends = imp.ends /\ m.idx = k + 1
        /\ m.idx \in 1 .. Len(m.order) + 1 /\ (Trims(m) <=> Trims(imp))
    BY <1>3, <1>5, <1>10, <1>11 DEF SameReplay, SameImport, Trims
  <2>2. CASE ~Trims(imp)
    <3>1. log.vv = imp.ends[k + 1]
      BY <1>6, <1>11, <2>2 DEF Replayed
    <3> HIDE DEF k, l
    <3>2. FollowsReplay(m, log) /\ Len(m.ends) = Len(m.order) + 1
      BY <1>6, <2>1, <2>2, <3>1 DEF FollowsReplay
    <3> QED BY <2>1, <2>2, <3>2 DEF GoesThrough
  <2>3. CASE Trims(imp)
    <3>1. ready /\ CausesFirst(imp, l)
      BY <1>9, <2>3
    <3> DEFINE vv == l.vv
    <3>2. vv \in [Peers -> Nat] /\ log.vv = (IF vv[c.peer] < c.end THEN [vv EXCEPT ![c.peer] = c.end] ELSE vv)
      BY <1>2, <1>7, <1>11, <3>1 DEF Known
    <3>3. log.vv \in [Peers -> Nat] /\ (\A p \in Peers : vv[p] <= log.vv[p]) /\ c.end <= log.vv[c.peer]
      <4> HIDE DEF vv, c
      <4> QED BY <1>7, <3>2
    <3>4. /\ imp.order \in Seq(Change) /\ imp.idx \in 1 .. Len(imp.order)
          /\ m.order = imp.order /\ m.idx = imp.idx + 1
      BY <1>3, <1>5, <2>1
    <3>5. LogType(l) /\ (\A p \in Peers : l.vv[p] <= log.vv[p])
          /\ imp.order[imp.idx].end <= log.vv[imp.order[imp.idx].peer]
      BY <1>2, <3>3
    <3> HIDE DEF l, c, k, vv
    <3>6. CausesFirst(m, log)
      BY <3>1, <3>3, <3>4, <3>5, CausesStay
    <3> QED BY <2>1, <2>3, <3>6 DEF GoesThrough
  <2> QED BY <2>2, <2>3
<1>15. ASSUME NEW m, NEW log, m.phase = "main", SameImport(imp, m), SameReplay(next, m),
              \A b \in Change : b = c \/ Accounted(imp, l, b) => Accounted(m, log, b)
       PROVE  Tracks(m, log)
  <2>1. Tracks(imp, l)
    BY <1>2 DEF ImportFits
  <2>2. m.order = imp.order /\ m.idx = k + 1 /\ m.blob = imp.blob /\ m.saved = imp.saved
    BY <1>10, <1>15 DEF SameImport, SameReplay
  <2>3. ASSUME NEW i \in 1 .. m.idx - 1 PROVE Accounted(m, log, m.order[i])
    <3>1. i \in 1 .. Len(imp.order) /\ (i = k \/ i \in 1 .. k - 1)
      BY <1>5, <2>2
    <3>2. imp.order[i] \in Change
      BY <1>3, <3>1
    <3>3. imp.order[i] = c \/ Accounted(imp, l, imp.order[i])
      BY <1>1, <2>1, <3>1 DEF Tracks
    <3> QED BY <1>15, <2>2, <3>2, <3>3
  <2> QED BY <1>1, <1>15, <2>1, <2>2, <2>3 DEF Tracks
<1>16. ASSUME imp.inPlace
       PROVE  /\ Replaces(imp, l)
              /\ Known(l, c) => c \in Passed(imp)
              /\ ~Known(l, c) => /\ c.deps \subseteq DOMAIN l.store
                                /\ c.start >= l.vv[c.peer]
                                /\ \A b \in Passed(imp) : LastID(c) \notin b.deps
  <2>1. Replaces(imp, l)
    BY <1>2, <1>16 DEF ImportFits
  <2>2. WholeHistory(imp.blob)
    BY <1>2, <2>1 DEF ImportFits, Replaces
  <2>3. imp.phase = "main" /\ imp.idx \in 1 .. Len(imp.order)
    BY <1>1, <1>5
  <2> HIDE DEF l
  <2> QED BY <1>2, <2>1, <2>2, <2>3, InPlaceNext
<1>17. ASSUME NEW m, SameReplay(next, m)
       PROVE  Passed(m) = Passed(imp) \cup {c} /\ Ordered(m) = Ordered(imp)
  <2>1. m.order = imp.order /\ m.idx = imp.idx + 1 /\ imp.idx \in Nat \ {0}
    BY <1>5, <1>10, <1>17 DEF SameReplay
  <2> QED BY <2>1, PassedGrows
<1>12. CASE Known(l, c) /\ imp' = next /\ UNCHANGED oplog
  <2>1. l.vv = IF ~Known(l, c) /\ ready THEN [l.vv EXCEPT ![c.peer] = c.end] ELSE l.vv
    BY <1>12
  <2>2. SameReplay(next, imp') /\ SameImport(imp, imp')
    BY <1>10, <1>12 DEF SameReplay
  <2>3. GoesThrough(imp', l)
    <3> HIDE DEF l, c
    <3> QED BY <1>11, <2>1, <2>2
  <2>4. Tracks(imp', l)
    <3>1. \A b \in Change : b = c \/ Accounted(imp, l, b) => Accounted(imp', l, b)
      BY <1>10, <1>12 DEF Accounted, SameImport
    <3> HIDE DEF l, c
    <3> QED BY <1>10, <1>12, <1>15, <2>2, <3>1
  <2>5. imp'.inPlace => Replaces(imp', l)
    <3> SUFFICES ASSUME imp'.inPlace PROVE Replaces(imp', l)
      OBVIOUS
    <3>1. imp.inPlace
      BY <1>10, <1>12 DEF SameImport
    <3>2. Replaces(imp, l) /\ Passed(imp') = Passed(imp) /\ Ordered(imp') = Ordered(imp)
      BY <1>12, <1>16, <1>17, <2>2, <3>1
    <3> HIDE DEF l, c
    <3> QED BY <1>1, <1>10, <1>12, <3>2 DEF Replaces, SameImport
  <2> QED BY <1>1, <1>4, <1>10, <1>12, <2>3, <2>4, <2>5, ImportTurns
<1>13. CASE /\ ~Known(l, c)
            /\ ~ready
            /\ imp' = [next EXCEPT !.waiting = Append(@, c), !.stack = Append(@, LastID(c))]
            /\ UNCHANGED oplog
  <2> DEFINE w == Append(imp.waiting, c)
             n == [next EXCEPT !.waiting = w]
  <2>1. /\ w \in Seq(Change) /\ Len(w) = Len(imp.waiting) + 1 /\ Len(imp.waiting) \in Nat
        /\ w[Len(imp.waiting) + 1] = c /\ \A i \in 1 .. Len(imp.waiting) : w[i] = imp.waiting[i]
    <3>1. imp.waiting \in Seq(Change)
      BY <1>2 DEF ImportType
    <3> HIDE DEF c
    <3> QED BY <1>5, <3>1, AppendProperties
  <2> HIDE DEF w
  <2>2. /\ ImportType(n) /\ SameImport(next, n) /\ SameReplay(next, n) /\ n.phase = next.phase
        /\ n.todo = next.todo /\ n.waiting = w
    BY <1>10, <2>1, SetWaiting
  <2>3. imp' = [n EXCEPT !.stack = Append(@, LastID(c))]
    BY <1>10, <1>13 DEF w
  <2> HIDE DEF n
  <2>4. /\ ImportType(imp') /\ SameImport(n, imp') /\ SameReplay(n, imp') /\ imp'.phase = n.phase
        /\ imp'.todo = n.todo /\ imp'.waiting = n.waiting
    BY <1>5, <2>2, <2>3, PushStack
  <2>5. SameImport(imp, imp') /\ SameReplay(next, imp') /\ imp'.phase = "main"
    BY <1>10, <2>2, <2>4 DEF SameImport, SameReplay
  <2>6. l.vv = IF ~Known(l, c) /\ ready THEN [l.vv EXCEPT ![c.peer] = c.end] ELSE l.vv
    BY <1>13
  <2>7. GoesThrough(imp', l)
    <3> HIDE DEF l, c
    <3> QED BY <1>11, <2>5, <2>6
  <2>8. Tracks(imp', l)
    <3>1. imp'.waiting = w /\ imp'.todo = imp.todo
      BY <1>10, <2>2, <2>4
    <3> HIDE DEF l, c
    <3>3. imp'.saved = imp.saved /\ LogOK(imp.saved)
      BY <1>1, <1>2, <2>5 DEF SameImport, ImportFits
    <3>2. ASSUME NEW b \in Change, b = c \/ Accounted(imp, l, b)
          PROVE  Accounted(imp', l, b)
      <4>1. CASE b = c
        <5>1. Len(w) \in 1 .. Len(w) /\ w[Len(w)] = b
          BY <2>1, <4>1
        <5>2. RestOf(imp.saved, b, b)
          BY <3>3, RestSelf
        <5> QED BY <3>1, <3>3, <5>1, <5>2 DEF Accounted
      <4>2. CASE \E i \in 1 .. Len(imp.waiting) : RestOf(imp.saved, imp.waiting[i], b)
        <5>1. PICK i \in 1 .. Len(imp.waiting) : RestOf(imp.saved, imp.waiting[i], b)
          BY <4>2
        <5>2. i \in 1 .. Len(w) /\ RestOf(imp.saved, w[i], b)
          BY <2>1, <5>1
        <5> QED BY <3>1, <3>3, <5>2 DEF Accounted
      <4> QED BY <3>1, <3>2, <3>3, <4>1, <4>2 DEF Accounted
    <3> QED BY <1>15, <2>5, <3>2
  <2>9. ~imp'.inPlace
    <3>1. imp.inPlace => ready
      BY <1>2, <1>7, <1>8, <1>13, <1>16, BelowMember DEF LogOK, Has
    <3> QED BY <1>13, <2>5, <3>1 DEF SameImport
  <2> QED BY <1>1, <1>4, <1>13, <2>4, <2>5, <2>7, <2>8, <2>9, ImportTurns
<1>14. CASE /\ ~Known(l, c)
            /\ ready
            /\ ~InsertRefused(l, new)
            /\ oplog' = [oplog EXCEPT ![imp.doc] = InsertRemote(l, new)]
            /\ imp' = [next EXCEPT !.stack = Append(@, LastID(c))]
  <2>1. NextLamport(l, c.deps) \in Nat
    BY <1>2, <1>7, NextLamportAbove
  <2>2. /\ r \in Change
        /\ r.peer = c.peer /\ r.start = c.start /\ r.end = c.end /\ r.deps = c.deps
        /\ \A j \in r.deps \cap DOMAIN l.store : l.store[j].lam < r.lam
    <3>1. NextLamport(l, c.deps) >= NextLamport(l, c.deps)
      BY <2>1
    <3> HIDE DEF l, c
    <3> QED BY <1>2, <1>5, <2>1, <3>1, RaisedLamport
  <2> HIDE DEF r
  <2>3. c.start <= l.vv[c.peer]
    BY <1>14, <1>18
  <2>4. \A j \in r.deps : j \in DOMAIN l.store /\ l.store[j].lam < r.lam
    BY <1>14, <2>2 DEF ready
  <2>5. ~Known(l, r)
    BY <1>14, <2>2 DEF Known
  <2> DEFINE m == InsertRemote(l, new)
  <2>6. /\ LogOK(m) /\ Kept(l, m) /\ m.vv = [l.vv EXCEPT ![c.peer] = c.end]
        /\ m.pending = l.pending
    <3>1. LogOK(l) /\ r \in Change /\ r.start <= l.vv[r.peer] /\ r.peer = c.peer /\ r.end = c.end
      BY <1>2, <2>2, <2>3
    <3>2. ~InsertRefused(l, TrimKnown(l, r)) /\ m = InsertRemote(l, TrimKnown(l, r))
      BY <1>14
    <3> HIDE DEF l, c, m, new
    <3>3. /\ LogOK(m) /\ Kept(l, m) /\ m.vv = [l.vv EXCEPT ![r.peer] = r.end]
          /\ m.pending = l.pending
      BY <2>4, <2>5, <3>1, <3>2, AppliedOK
    <3> QED BY <3>1, <3>3
  <2>7. m.vv = IF ~Known(l, c) /\ ready THEN [l.vv EXCEPT ![c.peer] = c.end] ELSE l.vv
    BY <1>14, <2>6
  <2>8. /\ ImportType(imp') /\ SameImport(next, imp') /\ SameReplay(next, imp') /\ imp'.phase = next.phase
        /\ imp'.todo = next.todo /\ imp'.waiting = next.waiting
    BY <1>5, <1>10, <1>14, PushStack
  <2> HIDE DEF m
  <2>9. SameImport(imp, imp') /\ imp'.phase = "main"
    BY <1>10, <2>8 DEF SameImport
  <2>10. GoesThrough(imp', m)
    <3> HIDE DEF l, c
    <3> QED BY <1>11, <2>7, <2>8, <2>9
  <2>11. oplog' = [oplog EXCEPT ![imp.doc] = m]
    BY <1>14 DEF m
  <2>12. Tracks(imp', m)
    <3> HIDE DEF l, c
    <3>1. \A b \in Change : (b.peer = c.peer /\ b.end = c.end) \/ Known(l, b) => Known(m, b)
      BY <1>2, <1>5, <1>14, <2>6, KnownGrows
    <3>2. \A b \in Change : b = c \/ Accounted(imp, l, b) => Accounted(imp', m, b)
      BY <1>10, <2>6, <2>8, <2>9, <3>1 DEF Accounted, SameImport
    <3> QED BY <1>15, <2>8, <2>9, <3>2
  <2>13. imp'.inPlace => Replaces(imp', m)
    <3> SUFFICES ASSUME imp'.inPlace PROVE Replaces(imp', m)
      OBVIOUS
    <3>1. /\ Replaces(imp, l) /\ c.start >= l.vv[c.peer]
          /\ \A b \in Passed(imp) : LastID(c) \notin b.deps
          /\ Passed(imp') = Passed(imp) \cup {c} /\ Ordered(imp') = Ordered(imp)
      BY <1>14, <1>16, <1>17, <2>8, <2>9 DEF SameImport
    <3>2. r.start = l.vv[r.peer] /\ l.vv[r.peer] \in Nat
      <4>1. l.vv[c.peer] \in Nat /\ c.start \in Nat /\ c.start <= l.vv[c.peer] /\ c.start >= l.vv[c.peer]
        BY <1>2, <1>7, <2>3, <3>1
      <4>2. r.peer = c.peer /\ r.start = c.start
        BY <2>2
      <4> HIDE DEF l, c
      <4> QED BY <4>1, <4>2
    <3>3. m = InsertRemote(l, r)
      BY <3>2 DEF m, TrimKnown
    <3> HIDE DEF l, c, new
    <3>4. Fits(l, r)
      BY <2>2, <2>4, <3>2 DEF Fits
    <3>5. Gains(l, m, r) /\ m.fr = NewFrontiers(l, r)
      BY <1>2, <3>3, <3>4, InsertRemoteOK
    <3>6. IdsOf(c) = IdsOf(r) /\ LastID(c) = LastID(r)
      BY <2>2 DEF IdsOf, LastID
    <3>7. DOMAIN l.store = IdsIn(Passed(imp)) /\ l.fr = Heads(Passed(imp))
      BY <1>1, <3>1 DEF Replaces
    <3>8. /\ NewFrontiers(l, r) = Heads(Passed(imp) \cup {c})
          /\ IdsIn(Passed(imp) \cup {c}) = IdsIn(Passed(imp)) \cup IdsOf(r)
      BY <1>2, <2>2, <3>1, <3>4, <3>6, <3>7, HeadsGrow
    <3>9. DOMAIN m.store = IdsIn(Passed(imp')) /\ m.fr = Heads(Passed(imp'))
      BY <3>1, <3>5, <3>7, <3>8 DEF Gains
    <3> QED BY <1>10, <2>6, <2>8, <2>9, <3>1, <3>9 DEF Replaces, SameImport, SameReplay
  <2> QED BY <1>1, <1>4, <2>6, <2>8, <2>9, <2>10, <2>11, <2>12, <2>13, ImportMoves
<1> QED BY <1>12, <1>13, <1>14 DEF MainStep, ready, next

(* Taking the changes due out of the pending set keeps it.                 *)
LEMMA PendingPopOK ==
  ASSUME IInv, PendingPop
  PROVE  IInv'
<1> DEFINE l == oplog[imp.doc]
           id == imp.stack[Len(imp.stack)]
           due == {e \in l.pending : e.missing[1] = id[1] /\ e.missing[2] <= id[2]}
           m == [l EXCEPT !.pending = l.pending \ due]
           x == SubSeq(imp.stack, 1, Len(imp.stack) - 1)
           n == [imp EXCEPT !.stack = x]
<1>1. imp.phase = "pending" /\ imp.phase \in Steps /\ UNCHANGED <<tx, st>>
      /\ imp.stack # <<>>
  BY DEF PendingPop, Steps
<1>2. /\ ImportType(imp) /\ imp.doc \in Docs /\ LogOK(l) /\ LogType(l) /\ DOMAIN oplog = Docs
      /\ ImportFits(imp, l, tx[imp.doc])
  BY <1>1, InImport DEF IInv
<1>3. due \subseteq Waiting /\ l.pending \subseteq Waiting
  BY <1>2 DEF LogType
<1>4. x \in Seq(ID)
  <2>1. imp.stack \in Seq(ID) /\ Len(imp.stack) \in Nat
    BY <1>2 DEF ImportType
  <2>2. \A i \in 1 .. Len(imp.stack) - 1 : imp.stack[i] \in ID
    BY <2>1
  <2> QED BY <2>1, <2>2, SubSeqProperties
<1>5. /\ m.store = l.store /\ m.vv = l.vv /\ m.fr = l.fr /\ m.pending = l.pending \ due
      /\ m \in [store : {m.store}, vv : [Peers -> Nat], fr : SUBSET ID, pending : SUBSET Waiting]
  <2> HIDE DEF due
  <2> QED BY <1>2, <1>3 DEF LogType
<1>6. oplog' = [oplog EXCEPT ![imp.doc] = m] /\ imp' = [n EXCEPT !.todo = due]
  BY <1>2 DEF PendingPop
<1> HIDE DEF m, l, x, due
<1>7. LogOK(m) /\ Kept(l, m)
  BY <1>2, <1>5 DEF LogOK, LogType, Kept
<1>8. /\ ImportType(n) /\ SameImport(imp, n) /\ n.phase = imp.phase /\ n.order = imp.order
      /\ n.waiting = imp.waiting /\ n.idx = imp.idx
  BY <1>2, <1>4, SetStack DEF SameReplay
<1> HIDE DEF n
<1>9. /\ ImportType(imp') /\ SameImport(n, imp') /\ imp'.phase = n.phase /\ imp'.order = n.order
      /\ imp'.waiting = n.waiting /\ imp'.todo = due
  BY <1>3, <1>6, <1>8, SetTodo DEF SameReplay
<1>12. imp'.inPlace => Replaces(imp', m)
  <2> SUFFICES ASSUME imp'.inPlace PROVE Replaces(imp', m)
    OBVIOUS
  <2>1. Replaces(imp, l)
    BY <1>2, <1>8, <1>9 DEF ImportFits, SameImport, l
  <2>2. due = {} /\ m.pending = {}
    BY <1>5, <2>1 DEF due, Replaces
  <2> QED BY <1>1, <1>5, <1>8, <1>9, <2>1, <2>2 DEF Replaces, SameImport, Ordered
<1>10. SameImport(imp, imp')
  BY <1>8, <1>9 DEF SameImport
<1>11. Tracks(imp', m)
  <2>1. Tracks(imp, l) /\ imp.todo = {}
    BY <1>2 DEF PendingPop, ImportFits, l
  <2>2. \A b : Known(l, b) => Known(m, b)
    BY <1>5 DEF Known
  <2>3. l.pending \subseteq due \cup m.pending
    BY <1>5
  <2>4. \A b \in imp.blob.changes : Accounted(imp, l, b)
    BY <1>1, <2>1 DEF Tracks
  <2>5. \A b \in imp.blob.changes : Accounted(imp', m, b)
    BY <1>8, <1>9, <1>10, <2>1, <2>2, <2>3, <2>4 DEF Accounted, SameImport
  <2>6. imp'.phase = "pending" /\ imp'.blob = imp.blob /\ imp'.order = imp.order /\ imp'.saved = imp.saved
    BY <1>1, <1>8, <1>9, <1>10 DEF SameImport
  <2> QED BY <1>1, <2>1, <2>5, <2>6 DEF Tracks
<1> QED BY <1>1, <1>6, <1>7, <1>8, <1>9, <1>10, <1>11, <1>12, ImportMoves DEF l

(* Trying one of them again keeps it.                                      *)
LEMMA PendingTryOK ==
  ASSUME IInv, PendingTry
  PROVE  IInv'
<1>1. imp.phase = "pending" /\ imp.phase \in Steps /\ UNCHANGED <<tx, st>>
  BY DEF PendingTry, Steps
<1>2. ImportType(imp) /\ Tracks(imp, oplog[imp.doc])
  BY <1>1, InImport DEF ImportFits
<1>3. PICK e \in imp.todo : Settle(e.ch, [imp EXCEPT !.todo = @ \ {e}])
  BY DEF PendingTry
<1>4. imp.todo \subseteq Waiting
  BY <1>2 DEF ImportType
<1> DEFINE x == imp.todo \ {e}
           n == [imp EXCEPT !.todo = x]
<1>5. x \in SUBSET Waiting
  BY <1>4
<1>6. e.ch \in Change
  BY <1>4 DEF Waiting
<1>7. Settle(e.ch, n)
  BY <1>3
<1> HIDE DEF x
<1>8. /\ ImportType(n) /\ SameImport(imp, n) /\ n.phase = imp.phase /\ n.order = imp.order
      /\ n.waiting = imp.waiting /\ n.todo = x
  BY <1>2, <1>5, SetTodo DEF SameReplay
<1> HIDE DEF n
<1>9. \A b \in imp.blob.changes : RestOf(imp.saved, e.ch, b) \/ Accounted(n, oplog[imp.doc], b)
  <2>1. \A b \in imp.blob.changes : Accounted(imp, oplog[imp.doc], b)
    BY <1>1, <1>2 DEF Tracks
  <2> QED BY <1>8, <2>1 DEF Accounted, x, SameImport
<1>10. ~imp.inPlace
  BY <1>1, <1>3, InImport DEF ImportFits, Replaces
<1> QED BY <1>1, <1>6, <1>7, <1>8, <1>9, <1>10, SettleStep

(* Trying a change that waited in the first pass keeps it.                 *)
LEMMA ParkStepOK ==
  ASSUME IInv, ParkStep
  PROVE  IInv'
<1> DEFINE x == Tail(imp.waiting)
           n == [imp EXCEPT !.waiting = x]
<1>1. imp.phase = "park" /\ imp.phase \in Steps /\ UNCHANGED <<tx, st>>
  BY DEF ParkStep, Steps
<1>2. ImportType(imp) /\ Tracks(imp, oplog[imp.doc])
  BY <1>1, InImport DEF ImportFits
<1>3. imp.waiting \in Seq(Change) /\ imp.waiting # <<>>
  BY <1>2 DEF ImportType, ParkStep
<1>4. /\ x \in Seq(Change) /\ Head(imp.waiting) \in Change /\ Head(imp.waiting) = imp.waiting[1]
      /\ Len(x) = Len(imp.waiting) - 1 /\ \A i \in 1 .. Len(x) : x[i] = imp.waiting[i + 1]
  BY <1>3, HeadTailProperties
<1>5. Settle(Head(imp.waiting), n)
  BY DEF ParkStep
<1> HIDE DEF x
<1>6. /\ ImportType(n) /\ SameImport(imp, n) /\ n.phase = imp.phase /\ n.order = imp.order
      /\ n.waiting = x /\ n.todo = imp.todo
  BY <1>2, <1>4, SetWaiting DEF SameReplay
<1> HIDE DEF n
<1>7. ASSUME NEW b \in imp.blob.changes
      PROVE  RestOf(imp.saved, Head(imp.waiting), b) \/ Accounted(n, oplog[imp.doc], b)
  <2>1. Accounted(imp, oplog[imp.doc], b)
    BY <1>1, <1>2 DEF Tracks
  <2>2. CASE \E i \in 1 .. Len(imp.waiting) : RestOf(imp.saved, imp.waiting[i], b)
    <3>1. PICK i \in 1 .. Len(imp.waiting) : RestOf(imp.saved, imp.waiting[i], b)
      BY <2>2
    <3>2. CASE i = 1
      BY <1>4, <3>1, <3>2
    <3>3. CASE i # 1
      <4>1. Len(imp.waiting) \in Nat
        BY <1>3
      <4>2. i - 1 \in 1 .. Len(x) /\ x[i - 1] = imp.waiting[(i - 1) + 1] /\ (i - 1) + 1 = i
        BY <1>4, <3>1, <3>3, <4>1
      <4>3. \E j \in 1 .. Len(n.waiting) : RestOf(n.saved, n.waiting[j], b)
        BY <1>6, <3>1, <4>2 DEF SameImport
      <4> QED BY <4>3 DEF Accounted
    <3> QED BY <3>2, <3>3
  <2> QED BY <1>6, <2>1, <2>2 DEF Accounted, SameImport
<1>8. imp.todo = {}
  BY <1>1, <1>2 DEF Tracks
<1>9. ~imp.inPlace
  BY <1>1, <1>3, InImport DEF ImportFits, Replaces
<1> QED BY <1>1, <1>4, <1>5, <1>6, <1>7, <1>8, <1>9, SettleStep

(* Going on to the next part of the import keeps it.                       *)
LEMMA PhaseChangeOK ==
  ASSUME IInv, MainDone \/ PendingDone \/ ParkDone
  PROVE  IInv'
<1>1. imp.phase \in Steps /\ UNCHANGED <<oplog, tx, st>>
  BY DEF MainDone, PendingDone, ParkDone, Steps
<1>2. ImportType(imp) /\ ImportFits(imp, oplog[imp.doc], tx[imp.doc])
  BY <1>1, InImport
<1>3. PICK x \in {"pending", "park", "build"} : imp' = [imp EXCEPT !.phase = x]
  BY DEF MainDone, PendingDone, ParkDone
<1>4. /\ ImportType(imp') /\ SameImport(imp, imp') /\ SameReplay(imp, imp') /\ imp'.phase = x
      /\ imp'.todo = imp.todo /\ imp'.waiting = imp.waiting
  <2>1. x \in Steps
    BY DEF Steps
  <2> QED BY <1>2, <1>3, <2>1, SetPhase
<1>5. imp'.phase \in Steps /\ imp'.phase \notin {"check", "main"}
  BY <1>4 DEF Steps
<1>6. Tracks(imp', oplog[imp.doc])
  <2> DEFINE l == oplog[imp.doc]
  <2>1. Tracks(imp, l)
    BY <1>2 DEF ImportFits
  <2>2. \A b \in imp.blob.changes : Accounted(imp, l, b)
    <3>1. CASE imp.phase = "main"
      <4> SUFFICES ASSUME NEW b \in imp.blob.changes PROVE Accounted(imp, l, b)
        OBVIOUS
      <4>0. CASE Known(imp.saved, b)
        <5>1. b \in Change
          BY <1>2 DEF ImportType, Blob
        <5>2. LogOK(imp.saved) /\ LogOK(l)
          BY <1>1, <1>2, InImport DEF ImportFits, Steps
        <5>3. Kept(imp.saved, l)
          BY <1>1, <1>2 DEF ImportFits, Steps
        <5>4. Known(l, b)
          <6> HIDE DEF l
          <6> QED BY <4>0, <5>1, <5>2, <5>3, KnownStays
        <5> QED BY <5>4 DEF Accounted
      <4> SUFFICES ASSUME ~Known(imp.saved, b) PROVE Accounted(imp, l, b)
        BY <4>0
      <4>1. PICK i \in 1 .. Len(imp.order) : RestOf(imp.saved, imp.order[i], b)
        BY <2>1, <3>1 DEF Tracks
      <4>2. imp.idx > Len(imp.order)
        BY <3>1 DEF MainDone, PendingDone, ParkDone
      <4>3. Len(imp.order) \in Nat /\ imp.idx \in Nat
        BY <1>2 DEF ImportType
      <4>4. i \in 1 .. imp.idx - 1
        BY <4>1, <4>2, <4>3
      <4>5. Accounted(imp, l, imp.order[i])
        BY <2>1, <3>1, <4>4 DEF Tracks
      <4>6. LogOK(imp.saved) /\ LogType(l) /\ imp.order[i] \in Change /\ b \in Change
        BY <1>1, <1>2, <4>1, InImport DEF ImportFits, ImportType, Blob, Steps
      <4> QED BY <1>2, <4>1, <4>5, <4>6, RestAccounted
    <3>2. CASE imp.phase # "main"
      <4>1. imp.phase \in {"pending", "park"}
        BY <3>2 DEF MainDone, PendingDone, ParkDone
      <4> QED BY <2>1, <4>1 DEF Tracks
    <3> QED BY <3>1, <3>2
  <2>3. /\ x \in {"park", "build"} => imp.todo = {}
        /\ x = "build" => imp.waiting = <<>>
    <3>1. CASE MainDone \/ ParkDone
      <4>1. imp' = [imp EXCEPT !.phase = "pending"]
        BY <3>1 DEF MainDone, ParkDone
      <4>2. imp'.phase = "pending"
        BY <1>2, <4>1 DEF ImportType
      <4> QED BY <1>4, <4>2
    <3>2. CASE PendingDone
      <4>1. /\ imp.todo = {}
            /\ imp' = [imp EXCEPT !.phase = IF imp.waiting = <<>> THEN "build" ELSE "park"]
        BY <3>2 DEF PendingDone
      <4>2. imp'.phase = IF imp.waiting = <<>> THEN "build" ELSE "park"
        BY <1>2, <4>1 DEF ImportType
      <4> QED BY <1>4, <4>1, <4>2
    <3> QED BY <3>1, <3>2
  <2>5. \A b \in imp.blob.changes : Accounted(imp', l, b)
    BY <1>4, <2>2 DEF Accounted, SameImport
  <2> QED BY <1>1, <1>4, <1>5, <2>1, <2>3, <2>5 DEF Tracks, SameImport, SameReplay, Steps
<1>7. imp'.inPlace => Replaces(imp', oplog[imp.doc])
  <2> DEFINE l == oplog[imp.doc]
  <2> SUFFICES ASSUME imp'.inPlace PROVE Replaces(imp', l)
    OBVIOUS
  <2>1. Replaces(imp, l)
    BY <1>2, <1>4 DEF ImportFits, SameImport
  <2>2. l.fr = imp.blob.fr
    <3>1. CASE imp.phase = "main"
      <4>1. imp.idx = Len(imp.order) + 1
        <5>1. imp.idx > Len(imp.order) /\ imp.idx \in 1 .. Len(imp.order) + 1
          BY <1>2, <3>1 DEF MainDone, PendingDone, ParkDone, ImportFits, GoesThrough
        <5>2. Len(imp.order) \in Nat
          BY <1>2 DEF ImportType
        <5> QED BY <5>1, <5>2
      <4>2. 1 .. imp.idx - 1 = 1 .. Len(imp.order)
        <5>1. Len(imp.order) \in Nat
          BY <1>2 DEF ImportType
        <5> QED BY <4>1, <5>1
      <4>3. Passed(imp) = imp.blob.changes
        BY <2>1, <4>2 DEF Passed, Ordered, Replaces
      <4>4. WholeHistory(imp.blob)
        BY <1>2, <2>1 DEF ImportFits, Replaces
      <4> QED BY <2>1, <3>1, <4>3, <4>4 DEF Replaces, WholeHistory
    <3>2. CASE imp.phase # "main"
      <4>1. imp.phase \in {"pending", "park"}
        BY <3>2 DEF MainDone, PendingDone, ParkDone
      <4> QED BY <2>1, <4>1 DEF Replaces
    <3> QED BY <3>1, <3>2
  <2> HIDE DEF l
  <2> QED BY <1>4, <2>1, <2>2 DEF Replaces, SameImport, SameReplay, Ordered
<1> QED BY <1>1, <1>4, <1>5, <1>6, <1>7, ImportTurns

(* The frontiers a snapshot that replaced an empty history claims are      *)
(* those it was applied to.                                                *)
LEMMA FinishMovesNothing ==
  ASSUME IInv, Finish
  PROVE  DOMAIN oplog' = DOMAIN oplog /\ \A d \in Docs : oplog'[d] = oplog[d]
<1> DEFINE l == oplog[imp.doc]
           m == [l EXCEPT !.fr = imp.blob.fr]
<1>1. imp.phase = "build" /\ imp.phase \in Steps
  BY DEF Finish, Steps
<1>2. ImportFits(imp, l, tx[imp.doc]) /\ LogType(l)
  BY <1>1, InImport
<1>3. CASE ~imp.inPlace
  BY <1>3 DEF Finish
<1>4. CASE imp.inPlace
  <2>1. oplog' = [oplog EXCEPT ![imp.doc] = m]
    BY <1>4 DEF Finish
  <2>2. l.fr = imp.blob.fr
    BY <1>1, <1>2, <1>4 DEF ImportFits, Replaces
  <2>3. l = [l EXCEPT !.fr = l.fr]
    BY <1>2 DEF LogType
  <2>4. m = l
    BY <2>2, <2>3
  <2> HIDE DEF m
  <2> QED BY <2>1, <2>4
<1> QED BY <1>3, <1>4

(* The end of an import keeps it.                                          *)
LEMMA FinishOK ==
  ASSUME IInv, Finish
  PROVE  IInv'
<1>1. imp.phase = "build" /\ imp.phase \in Steps /\ tx' = tx /\ imp' = Idle("ok")
  BY DEF Finish, Steps
<1>2. /\ ImportFits(imp, oplog[imp.doc], tx[imp.doc]) /\ imp.doc \in Docs
      /\ LogType(oplog[imp.doc])
  BY <1>1, InImport
<1>3. DOMAIN oplog' = Docs /\ \A d \in Docs : oplog'[d] = oplog[d]
  BY FinishMovesNothing DEF IInv
<1>4. imp' \in [phase : {"idle"}, outcome : {"ok", "refused"}]
  BY <1>1 DEF Idle
<1>5. DOMAIN oplog[imp.doc].store \subseteq ID
  BY <1>2 DEF LogType
<1>6. st' = [st EXCEPT ![imp.doc] = DOMAIN oplog[imp.doc].store] \/ st' = st
  BY DEF Finish
<1>7. st' \in [Docs -> SUBSET ID]
  BY <1>2, <1>5, <1>6 DEF IInv
<1>8. ASSUME NEW d \in Docs PROVE Shows(d)'
  <2>1. Shows(d) /\ Uncommitted(d)' = Uncommitted(d) /\ st \in [Docs -> SUBSET ID]
    BY <1>1 DEF IInv, Uncommitted
  <2>2. Settled(d)' = oplog[d]
    BY <1>1, <1>3 DEF Settled, Idle
  <2>3. CASE d # imp.doc
    <3>1. st'[d] = st[d] /\ Settled(d) = oplog[d]
      BY <1>1, <1>6, <2>1, <2>3 DEF Settled, Steps
    <3> QED BY <2>1, <2>2, <3>1 DEF Shows
  <2>4. CASE d = imp.doc
    <3> DEFINE l == oplog[imp.doc]
    <3>1. LogOK(l) /\ LogOK(imp.saved) /\ tx[d] = NoTx
      BY <1>1, <1>2, <2>4 DEF IInv, ImportFits, TxFits
    <3>2. Uncommitted(d) = {}
      <4>1. NoTx.start .. NoTx.next - 1 = {}
        BY DEF NoTx
      <4> QED BY <3>1, <4>1 DEF Uncommitted
    <3>3. CASE Changed(l)
      <4>1. st' = [st EXCEPT ![imp.doc] = DOMAIN l.store]
        BY <3>3 DEF Finish
      <4>2. st'[d] = DOMAIN l.store
        BY <2>1, <2>4, <4>1
      <4> QED BY <2>1, <2>2, <2>4, <3>2, <4>2 DEF Shows
    <3>4. CASE ~Changed(l)
      <4>1. st' = st /\ l.vv = imp.saved.vv
        BY <3>4 DEF Finish, Changed
      <4>2. DOMAIN imp.saved.store = DOMAIN l.store
        BY <3>1, <4>1 DEF LogOK
      <4>3. Settled(d) = imp.saved
        BY <1>1, <2>4 DEF Settled
      <4> QED BY <2>1, <2>2, <2>4, <4>1, <4>2, <4>3 DEF Shows
    <3> QED BY <3>3, <3>4
  <2> QED BY <2>3, <2>4
<1>9. tx' = tx /\ \A d \in Docs : LogOK(oplog'[d]) /\ TxFits(oplog'[d], d, tx'[d])
  BY <1>1, <1>3 DEF IInv
<1> QED BY <1>1, <1>3, <1>4, <1>7, <1>8, <1>9 DEF IInv

(* A refusal keeps it, at whatever step it comes.                          *)
LEMMA RefusedOK ==
  ASSUME IInv,
         CheckRefuses \/ MainRefuses \/ PendingRefuses \/ ParkRefuses \/ BuildRefuses
  PROVE  IInv'
<1>1. imp.phase \in Steps /\ Refuse
  BY DEF CheckRefuses, MainRefuses, PendingRefuses, ParkRefuses, BuildRefuses, Steps
<1> QED BY <1>1, RefuseStep

(* The import commits the open transaction, remembers the log and starts   *)
(* the replay at its version.                                              *)
LEMMA ImportBeginOK ==
  ASSUME IInv, NEW ts \in Times, ImportBegin(ts)
  PROVE  IInv'
<1>1. /\ imp.phase = "recv" /\ CloseTx(imp.doc, NoMsg, ts) /\ st' = st
  BY DEF ImportBegin
<1>2. ImportFits(imp, oplog[imp.doc], tx[imp.doc])
  BY <1>1 DEF IInv
<1>3. /\ imp.doc \in Docs /\ NoMsg \in Msgs /\ ImportType(imp) /\ imp.blob \in Blob
      /\ imp.idx = 1
      /\ imp.blob.snapshot => WholeHistory(imp.blob)
      /\ ~imp.inPlace
  BY <1>1, <1>2, ConstantsAssumption DEF ImportFits, ImportType
<1>4. /\ DOMAIN oplog' = Docs /\ \A e \in Docs : LogOK(oplog'[e])
      /\ tx' \in [Docs -> Transaction] /\ \A e \in Docs : TxFits(oplog'[e], e, tx'[e])
      /\ ~tx'[imp.doc].open
      /\ \A e \in Docs : DOMAIN oplog'[e].store \cup Uncommitted(e)'
                          = DOMAIN oplog[e].store \cup Uncommitted(e)
  BY <1>1, <1>3, CloseTxOK
<1> DEFINE l == oplog'[imp.doc]
<1>5. PICK order \in SortedByLamport(imp.blob.changes), inPlace \in BOOLEAN :
        /\ inPlace => imp.blob.snapshot /\ (\A p \in Peers : l.vv[p] = 0) /\ l.pending = {}
        /\ imp' = [imp EXCEPT !.phase = "check", !.order = order, !.saved = l,
                              !.ends = <<l.vv>>, !.inPlace = inPlace]
  BY DEF ImportBegin
<1>7. /\ order \in Seq(Change) /\ Len(order) \in Nat
      /\ \A c \in imp.blob.changes : \E i \in 1 .. Len(order) : order[i] = c
      /\ \A i \in 1 .. Len(order) : order[i] \in imp.blob.changes
      /\ \A i, j \in 1 .. Len(order) : i < j => order[i].lam <= order[j].lam
  <2>1. imp.blob.changes \subseteq Change /\ IsFiniteSet(imp.blob.changes)
    BY <1>3 DEF Blob
  <2> QED BY <1>5, <2>1, SortedSeq
<1>8. LogOK(l) /\ LogType(l) /\ l.vv \in [Peers -> Nat]
  BY <1>3, <1>4 DEF LogOK, LogType
<1> DEFINE R == [phase : {"recv", "check", "main", "pending", "park", "build"},
                 doc : Docs, blob : Blob, order : Seq(Change), idx : Nat,
                 ends : Seq([Peers -> Nat]), waiting : Seq(Change), stack : Seq(ID),
                 todo : SUBSET Waiting, saved : {imp.saved, l}, inPlace : BOOLEAN]
           m1 == [imp EXCEPT !.phase = "check"]
           m2 == [m1 EXCEPT !.order = order]
           m3 == [m2 EXCEPT !.saved = l]
           m4 == [m3 EXCEPT !.ends = <<l.vv>>]
           m5 == [m4 EXCEPT !.inPlace = inPlace]
<1> HIDE DEF l
<1>9. m1 \in R /\ m1.phase = "check" /\ m1.doc = imp.doc /\ m1.blob = imp.blob /\ m1.idx = 1
      /\ m1.waiting = imp.waiting /\ m1.todo = imp.todo
  BY <1>3 DEF ImportType
<1>10. m2 \in R /\ m2.phase = "check" /\ m2.doc = imp.doc /\ m2.blob = imp.blob /\ m2.idx = 1
       /\ m2.waiting = imp.waiting /\ m2.todo = imp.todo
       /\ m2.order = order
  <2> HIDE DEF m1
  <2> QED BY <1>7, <1>9
<1>11. m3 \in R /\ m3.phase = "check" /\ m3.doc = imp.doc /\ m3.blob = imp.blob /\ m3.idx = 1
       /\ m3.waiting = imp.waiting /\ m3.todo = imp.todo
       /\ m3.order = order /\ m3.saved = l
  <2> HIDE DEF m2
  <2> QED BY <1>10
<1>12. <<l.vv>> \in Seq([Peers -> Nat]) /\ Len(<<l.vv>>) = 1 /\ <<l.vv>>[1] = l.vv
  BY <1>8
<1>13. m4 \in R /\ m4.phase = "check" /\ m4.doc = imp.doc /\ m4.blob = imp.blob /\ m4.idx = 1
       /\ m4.waiting = imp.waiting /\ m4.todo = imp.todo
       /\ m4.order = order /\ m4.saved = l /\ m4.ends = <<l.vv>>
  <2> HIDE DEF m3
  <2> QED BY <1>11, <1>12
<1>14. m5 \in R /\ m5.phase = "check" /\ m5.doc = imp.doc /\ m5.blob = imp.blob /\ m5.idx = 1
       /\ m5.order = order /\ m5.saved = l /\ m5.ends = <<l.vv>> /\ m5.inPlace = inPlace
       /\ m5.waiting = imp.waiting /\ m5.todo = imp.todo
  <2> HIDE DEF m4
  <2> QED BY <1>13
<1>15. imp' = m5
  BY <1>5
<1> HIDE DEF m5
<1>16. ImportType(imp')
  BY <1>8, <1>14, <1>15 DEF ImportType
<1>17. FollowsReplay(imp', l)
  <2>1. Replays(order, <<l.vv>>)
    BY <1>12 DEF Replays
  <2>2. imp'.ends = <<l.vv>> /\ imp'.order = order /\ imp'.idx = 1
    BY <1>14, <1>15
  <2> QED BY <1>7, <1>12, <2>1, <2>2 DEF FollowsReplay
<1>18. oplog'[imp'.doc] = l /\ tx'[imp'.doc] = tx'[imp.doc] /\ Kept(l, l)
  BY <1>14, <1>15 DEF l, Kept
<1>21. Tracks(imp', l)
  <2>1. ASSUME NEW c \in imp.blob.changes
        PROVE  \E i \in 1 .. Len(order) : RestOf(l, order[i], c)
    <3>1. PICK i \in 1 .. Len(order) : order[i] = c
      BY <1>7
    <3>2. c \in Change
      BY <1>3 DEF Blob
    <3>3. RestOf(l, c, c)
      BY <1>8, <3>2, RestSelf
    <3> QED BY <3>1, <3>3
  <2> QED BY <1>14, <1>15, <2>1 DEF Tracks
<1>22. Ordered(imp') = imp'.blob.changes
  <2>1. imp'.order = order /\ imp'.blob = imp.blob
    BY <1>14, <1>15
  <2> QED BY <1>7, <2>1 DEF Ordered
<1>23. Checks(imp', l)
  <2>1. imp'.ends = <<l.vv>> /\ imp'.saved = l
    BY <1>14, <1>15
  <2>2. \A p \in Peers : l.vv[p] <= l.vv[p]
    BY <1>8
  <2> QED BY <1>12, <1>22, <2>1, <2>2 DEF Checks
<1>24. imp'.inPlace => Replaces(imp', l)
  <2> SUFFICES ASSUME inPlace PROVE Replaces(imp', l)
    BY <1>14, <1>15
  <2>1. imp.blob.snapshot /\ (\A p \in Peers : l.vv[p] = 0) /\ l.pending = {}
    BY <1>5
  <2>2. imp.waiting = <<>> /\ imp.todo = {}
    BY <1>1, <1>2 DEF ImportFits
  <2>3. Passed(imp') = {}
    <3>1. imp'.idx = 1 /\ 1 .. 1 - 1 = {}
      BY <1>14, <1>15
    <3> QED BY <3>1 DEF Passed
  <2>4. DOMAIN l.store = {}
    <3>1. DOMAIN l.store = Below(l.vv)
      BY <1>8 DEF LogOK
    <3>2. \A p \in Peers : 0 .. l.vv[p] - 1 = {}
      BY <2>1
    <3> QED BY <3>1, <3>2 DEF Below
  <2>5. l.fr = {}
    BY <1>8, <2>4 DEF LogOK, Maximal
  <2>6. IdsIn({}) = {} /\ Heads({}) = {}
    BY DEF IdsIn, Heads
  <2> QED BY <1>7, <1>14, <1>15, <1>22, <2>1, <2>2, <2>3, <2>4, <2>5, <2>6 DEF Replaces
<1>19. ImportFits(imp', oplog'[imp'.doc], tx'[imp'.doc])
  BY <1>3, <1>4, <1>8, <1>14, <1>15, <1>16, <1>17, <1>18, <1>21, <1>23, <1>24 DEF ImportFits
<1>20. ASSUME NEW e \in Docs PROVE Shows(e)'
  <2>1. Settled(e) = oplog[e] /\ Shows(e)
    BY <1>1 DEF Settled, IInv
  <2>2. Settled(e)' = oplog'[e]
    BY <1>14, <1>15 DEF Settled, l
  <2> QED BY <1>1, <1>4, <2>1, <2>2 DEF Shows
<1> QED BY <1>1, <1>4, <1>19, <1>20 DEF IInv

-----------------------------------------------------------------------------
(* What the documents do between imports.                                  *)

(* A local operation keeps it.                                             *)
LEMMA EditOK ==
  ASSUME IInv, NEW d \in Docs, Edit(d)
  PROVE  IInv'
<1> DEFINE b == Begin(d)
           t == [b EXCEPT !.next = b.next + 1]
<1>1. /\ oplog' = oplog /\ imp' = imp /\ imp.phase = "idle"
      /\ tx' = [tx EXCEPT ![d] = t]
      /\ st' = [st EXCEPT ![d] = @ \cup {<<PeerOf[d], b.next>>}]
  BY DEF Edit
<1>2. TxFits(oplog[d], d, b) /\ b.open
      /\ Uncommitted(d) = {PeerOf[d]} \X (b.start .. b.next - 1)
  BY BeginFits
<1> HIDE DEF b
<1>3. b \in Transaction /\ b.next \in Nat /\ b.start \in Nat
  BY <1>2 DEF TxFits, Transaction
<1>4. t \in Transaction /\ t.open = b.open /\ t.start = b.start /\ t.next = b.next + 1
      /\ t.deps = b.deps /\ t.lam = b.lam /\ t.ts = b.ts
  BY <1>3 DEF Transaction
<1> HIDE DEF t
<1>5. TxFits(oplog[d], d, t)
  BY <1>2, <1>3, <1>4 DEF TxFits
<1>6. <<PeerOf[d], b.next>> \in ID
  BY <1>3, ConstantsAssumption DEF ID
<1>7. st' \in [Docs -> SUBSET ID]
  BY <1>1, <1>6 DEF IInv
<1>8. tx' \in [Docs -> Transaction] /\ \A e \in Docs : TxFits(oplog'[e], e, tx'[e])
  BY <1>1, <1>4, <1>5 DEF IInv
<1>9. imp \in [phase : {"idle"}, outcome : {"ok", "refused"}]
  BY <1>1 DEF IInv, ImportFits, ImportType
<1>10. ASSUME NEW e \in Docs PROVE Shows(e)'
  <2>1. Shows(e) /\ st \in [Docs -> SUBSET ID] /\ tx \in [Docs -> Transaction]
    BY DEF IInv
  <2>2. Settled(e)' = oplog[e] /\ Settled(e) = oplog[e]
    BY <1>1 DEF Settled
  <2>3. CASE e # d
    BY <1>1, <2>1, <2>2, <2>3 DEF Shows, Uncommitted
  <2>4. CASE e = d
    <3>1. tx'[e] = t /\ st'[e] = st[e] \cup {<<PeerOf[e], b.next>>}
      BY <1>1, <2>1, <2>4
    <3>2. t.start .. t.next - 1 = (b.start .. b.next - 1) \cup {b.next}
      BY <1>2, <1>3, <1>4 DEF TxFits
    <3>3. Uncommitted(e)' = {PeerOf[e]} \X ((b.start .. b.next - 1) \cup {b.next})
      BY <3>1, <3>2 DEF Uncommitted
    <3>4. Uncommitted(e)' = Uncommitted(e) \cup {<<PeerOf[e], b.next>>}
      BY <1>2, <2>4, <3>3
    <3> QED BY <2>1, <2>2, <3>1, <3>4 DEF Shows
  <2> QED BY <2>3, <2>4
<1> QED BY <1>1, <1>7, <1>8, <1>9, <1>10 DEF IInv

(* A refused local operation keeps it: it only opens the transaction.      *)
LEMMA RefusedEditOK ==
  ASSUME IInv, NEW d \in Docs, RefusedEdit(d)
  PROVE  IInv'
<1> DEFINE b == Begin(d)
<1>1. /\ oplog' = oplog /\ imp' = imp /\ st' = st /\ imp.phase = "idle"
      /\ tx' = [tx EXCEPT ![d] = b]
  BY DEF RefusedEdit
<1>2. TxFits(oplog[d], d, b) /\ Uncommitted(d) = {PeerOf[d]} \X (b.start .. b.next - 1)
  BY BeginFits
<1> HIDE DEF b
<1>3. tx' \in [Docs -> Transaction] /\ \A e \in Docs : TxFits(oplog'[e], e, tx'[e])
  BY <1>1, <1>2 DEF IInv, TxFits
<1>4. imp \in [phase : {"idle"}, outcome : {"ok", "refused"}]
  BY <1>1 DEF IInv, ImportFits, ImportType
<1>5. ASSUME NEW e \in Docs PROVE Shows(e)'
  <2>1. Shows(e) /\ tx \in [Docs -> Transaction]
    BY DEF IInv
  <2>2. Settled(e)' = oplog[e] /\ Settled(e) = oplog[e]
    BY <1>1 DEF Settled
  <2>3. Uncommitted(e)' = Uncommitted(e)
    <3>1. tx'[e] = IF e = d THEN b ELSE tx[e]
      BY <1>1, <2>1
    <3> QED BY <1>2, <3>1 DEF Uncommitted
  <2> QED BY <1>1, <2>1, <2>2, <2>3 DEF Shows
<1> QED BY <1>1, <1>3, <1>4, <1>5 DEF IInv

(* A commit keeps it.                                                      *)
LEMMA CommitWithOK ==
  ASSUME IInv, NEW d \in Docs, NEW msg \in Msgs, NEW ts \in Times, CommitWith(d, msg, ts)
  PROVE  IInv'
<1>1. imp.phase = "idle" /\ CloseTx(d, msg, ts) /\ st' = st /\ imp' = imp
  BY DEF CommitWith
<1>2. /\ DOMAIN oplog' = Docs /\ \A e \in Docs : LogOK(oplog'[e])
      /\ tx' \in [Docs -> Transaction] /\ \A e \in Docs : TxFits(oplog'[e], e, tx'[e])
      /\ \A e \in Docs : DOMAIN oplog'[e].store \cup Uncommitted(e)'
                          = DOMAIN oplog[e].store \cup Uncommitted(e)
  BY <1>1, CloseTxOK
<1>3. imp \in [phase : {"idle"}, outcome : {"ok", "refused"}]
  BY <1>1 DEF IInv, ImportFits, ImportType
<1>4. ASSUME NEW e \in Docs PROVE Shows(e)'
  <2>1. Shows(e) /\ Settled(e)' = oplog'[e] /\ Settled(e) = oplog[e]
    BY <1>1 DEF IInv, Settled
  <2> QED BY <1>1, <1>2, <2>1 DEF Shows
<1> QED BY <1>1, <1>2, <1>3, <1>4 DEF IInv

(* A blob that arrives.                                                    *)
LEMMA DeliverOK ==
  ASSUME NEW d \in Docs, NEW blob \in Blob, blob.snapshot => WholeHistory(blob), Deliver(d, blob),
         DOMAIN oplog' = Docs, \A e \in Docs : LogOK(oplog'[e]),
         tx' \in [Docs -> Transaction], \A e \in Docs : TxFits(oplog'[e], e, tx'[e]),
         st' \in [Docs -> SUBSET ID],
         \A e \in Docs : st'[e] = DOMAIN oplog'[e].store \cup Uncommitted(e)'
  PROVE  IInv'
<1>1. LogOK(oplog'[d]) /\ LogType(oplog'[d])
  BY DEF LogOK
<1>2. imp' = [phase |-> "recv", doc |-> d, blob |-> blob, order |-> <<>>, idx |-> 1,
              ends |-> <<>>, waiting |-> <<>>, stack |-> <<>>, todo |-> {},
              saved |-> oplog'[d], inPlace |-> FALSE]
  BY DEF Deliver
<1>3. ImportType(imp')
  BY <1>1, <1>2 DEF ImportType
<1>4. ImportFits(imp', oplog'[imp'.doc], tx'[imp'.doc])
  BY <1>2, <1>3 DEF ImportFits, Tracks
<1>5. ASSUME NEW e \in Docs PROVE Shows(e)'
  BY <1>2 DEF Shows, Settled
<1> QED BY <1>4, <1>5 DEF IInv

(* An export, which commits the exporter's transaction, keeps it.          *)
LEMMA ExportRangeOK ==
  ASSUME IInv, NEW s \in Docs, NEW d \in Docs, NEW r \in Ranges, NEW ts \in Times,
         ExportRange(s, d, r, ts)
  PROVE  IInv'
<1> DEFINE l == Closed(s, NoMsg, ts)
           changes == UNION {ChangesIn(l.store, p, r[p][1], r[p][2]) : p \in Peers}
           blob == [changes |-> changes, snapshot |-> FALSE, fr |-> {}]
<1>1. NoMsg \in Msgs
  BY ConstantsAssumption
<1>2. LogOK(l)
  BY <1>1, ClosedOK
<1>3. /\ CloseTx(s, NoMsg, ts) /\ Deliver(d, blob) /\ st' = st
      /\ \A p \in Peers : r[p][2] <= l.vv[p]
  BY DEF ExportRange
<1>4. changes \subseteq Change /\ IsFiniteSet(changes)
  <2>1. \A p \in Peers : r[p][1] \in Nat /\ r[p][2] \in Nat
    BY ConstantsAssumption DEF Ranges
  <2> HIDE DEF l
  <2> QED BY <1>2, <1>3, <2>1, ExportType
<1>5. blob \in Blob /\ ~blob.snapshot
  <2> HIDE DEF changes
  <2> QED BY <1>4, FS_EmptySet DEF Blob
<1>6. /\ DOMAIN oplog' = Docs /\ \A e \in Docs : LogOK(oplog'[e])
      /\ tx' \in [Docs -> Transaction] /\ \A e \in Docs : TxFits(oplog'[e], e, tx'[e])
      /\ \A e \in Docs : DOMAIN oplog'[e].store \cup Uncommitted(e)'
                          = DOMAIN oplog[e].store \cup Uncommitted(e)
  BY <1>1, <1>3, CloseTxOK
<1>7. st' \in [Docs -> SUBSET ID]
  BY <1>3 DEF IInv
<1> HIDE DEF blob
<1>8. ASSUME NEW e \in Docs PROVE st'[e] = DOMAIN oplog'[e].store \cup Uncommitted(e)'
  <2>1. Shows(e) /\ Settled(e) = oplog[e]
    BY DEF IInv, ExportRange, Settled
  <2> QED BY <1>3, <1>6, <2>1 DEF Shows
<1> QED BY <1>3, <1>5, <1>6, <1>7, <1>8, DeliverOK

(* A snapshot of a document's history, which is whole, keeps it.           *)
LEMMA ExportSnapshotOK ==
  ASSUME IInv, NEW s \in Docs, NEW d \in Docs, NEW ts \in Times,
         ExportSnapshot(s, d, ts)
  PROVE  IInv'
<1> DEFINE l == Closed(s, NoMsg, ts)
           changes == UNION {ChangesIn(l.store, p, 0, l.vv[p]) : p \in Peers}
           blob == [changes |-> changes, snapshot |-> TRUE, fr |-> l.fr]
<1>1. NoMsg \in Msgs
  BY ConstantsAssumption
<1>2. LogOK(l)
  BY <1>1, ClosedOK
<1>3. /\ CloseTx(s, NoMsg, ts) /\ Deliver(d, blob) /\ st' = st
  BY DEF ExportSnapshot
<1>4. changes \subseteq Change /\ IsFiniteSet(changes)
  <2> DEFINE r == [p \in Peers |-> <<0, l.vv[p]>>]
  <2>1. \A p \in Peers : r[p][1] = 0 /\ r[p][2] = l.vv[p]
    OBVIOUS
  <2>2. \A p \in Peers : l.vv[p] \in Nat
    BY <1>2 DEF LogOK, LogType
  <2> HIDE DEF l, r
  <2>3. \A p \in Peers : r[p][1] \in Nat /\ r[p][2] \in Nat /\ r[p][2] <= l.vv[p]
    BY <2>1, <2>2
  <2>4. LET ranges == UNION {ChangesIn(l.store, p, r[p][1], r[p][2]) : p \in Peers}
        IN  ranges \subseteq Change /\ IsFiniteSet(ranges)
    BY <1>2, <2>3, ExportType
  <2>5. changes = UNION {ChangesIn(l.store, p, r[p][1], r[p][2]) : p \in Peers}
    BY <2>1
  <2> QED BY <2>4, <2>5
<1>9. blob \in Blob
  <2>1. l.fr \subseteq ID /\ IsFiniteSet(l.fr)
    BY <1>2 DEF LogOK, LogType
  <2> HIDE DEF changes, l
  <2> QED BY <1>4, <2>1 DEF Blob
<1>5. blob \in Blob /\ WholeHistory(blob)
  <2>1. blob.fr = l.fr /\ blob.changes = changes
    OBVIOUS
  <2> HIDE DEF blob, l
  <2>2. WholeHistory(blob)
    BY <1>2, <2>1, SnapshotWhole
  <2> QED BY <1>9, <2>2
<1>6. /\ DOMAIN oplog' = Docs /\ \A e \in Docs : LogOK(oplog'[e])
      /\ tx' \in [Docs -> Transaction] /\ \A e \in Docs : TxFits(oplog'[e], e, tx'[e])
      /\ \A e \in Docs : DOMAIN oplog'[e].store \cup Uncommitted(e)'
                          = DOMAIN oplog[e].store \cup Uncommitted(e)
  BY <1>1, <1>3, CloseTxOK
<1>7. st' \in [Docs -> SUBSET ID]
  BY <1>3 DEF IInv
<1> HIDE DEF blob
<1>8. ASSUME NEW e \in Docs PROVE st'[e] = DOMAIN oplog'[e].store \cup Uncommitted(e)'
  <2>1. Shows(e) /\ Settled(e) = oplog[e]
    BY DEF IInv, ExportSnapshot, Settled
  <2> QED BY <1>3, <1>6, <2>1 DEF Shows
<1> QED BY <1>3, <1>5, <1>6, <1>7, <1>8, DeliverOK

(* The arrival of a blob of another implementation keeps it.               *)
LEMMA ReceiveForeignOK ==
  ASSUME IInv, SnapshotsWhole, NEW d \in Docs, NEW blob \in Foreign, ReceiveForeign(d, blob)
  PROVE  IInv'
<1>1. Deliver(d, blob) /\ UNCHANGED <<oplog, tx, st>>
  BY DEF ReceiveForeign
<1>2. blob \in Blob /\ (blob.snapshot => WholeHistory(blob))
  BY ForeignAssumption DEF SnapshotsWhole
<1>3. /\ DOMAIN oplog' = Docs /\ \A e \in Docs : LogOK(oplog'[e])
      /\ tx' \in [Docs -> Transaction] /\ \A e \in Docs : TxFits(oplog'[e], e, tx'[e])
      /\ st' \in [Docs -> SUBSET ID]
  BY <1>1 DEF IInv
<1>4. ASSUME NEW e \in Docs PROVE st'[e] = DOMAIN oplog'[e].store \cup Uncommitted(e)'
  <2>1. Shows(e) /\ Settled(e) = oplog[e]
    BY DEF IInv, ReceiveForeign, Settled
  <2> QED BY <1>1, <2>1 DEF Shows, Uncommitted
<1> QED BY <1>1, <1>2, <1>3, <1>4, DeliverOK

-----------------------------------------------------------------------------
(* The three facts of the inductive invariant.                             *)

(* The invariant holds of new documents.                                   *)
LEMMA InitInv ==
  ASSUME Init
  PROVE  IInv
<1>1. LogOK(EmptyLog)
  <2>1. EmptyLog.vv \in [Peers -> Nat] /\ EmptyLog.vv = [p \in Peers |-> 0]
        /\ EmptyLog.fr = {} /\ EmptyLog.pending = {} /\ DOMAIN EmptyLog.store = {}
    BY DEF EmptyLog
  <2>2. EmptyLog.store \in [DOMAIN EmptyLog.store -> Atom]
    BY DEF EmptyLog
  <2>3. \A i : i \notin Below(EmptyLog.vv)
    BY <2>1, BelowMember DEF ID
  <2>4. EmptyLog \in [store : {EmptyLog.store}, vv : [Peers -> Nat], fr : SUBSET ID,
                      pending : SUBSET Waiting]
    BY DEF EmptyLog
  <2>5. LogType(EmptyLog)
    BY <2>1, <2>2, <2>4, FS_EmptySet DEF LogType
  <2> QED BY <2>1, <2>3, <2>5 DEF LogOK, Maximal
<1>2. \A d \in Docs : TxFits(oplog[d], d, NoTx) /\ NoTx \in Transaction
  BY NoTxFits
<1>3. /\ oplog = [d \in Docs |-> EmptyLog] /\ tx = [d \in Docs |-> NoTx]
      /\ st = [d \in Docs |-> {}] /\ imp = Idle("ok")
  BY DEF Init
<1>4. imp \in [phase : {"idle"}, outcome : {"ok", "refused"}]
  BY <1>3 DEF Idle
<1>5. ASSUME NEW d \in Docs PROVE Shows(d)
  <2>1. Settled(d) = EmptyLog /\ tx[d] = NoTx /\ st[d] = {}
    BY <1>3 DEF Settled, Idle
  <2>2. DOMAIN EmptyLog.store = {}
    BY DEF EmptyLog
  <2>3. NoTx.start .. NoTx.next - 1 = {}
    BY DEF NoTx
  <2> QED BY <2>1, <2>2, <2>3 DEF Shows, Uncommitted
<1> QED BY <1>1, <1>2, <1>3, <1>4, <1>5 DEF IInv

(* Every step of an import keeps it.                                       *)
LEMMA ImportStepInv ==
  ASSUME SnapshotsInOrder, IInv, ImportStep
  PROVE  IInv'
<1>1. CASE \E ts \in Times : ImportBegin(ts)
  BY <1>1, ImportBeginOK
<1>2. CASE CheckStep
  BY <1>2, CheckStepOK
<1>3. CASE CheckDone
  BY <1>3, CheckDoneOK
<1>4. CASE MainStep
  BY <1>4, MainStepOK
<1>5. CASE PendingPop
  BY <1>5, PendingPopOK
<1>6. CASE PendingTry
  BY <1>6, PendingTryOK
<1>7. CASE ParkStep
  BY <1>7, ParkStepOK
<1>8. CASE MainDone \/ PendingDone \/ ParkDone
  BY <1>8, PhaseChangeOK
<1>9. CASE Finish
  BY <1>9, FinishOK
<1>10. CASE CheckRefuses \/ MainRefuses \/ PendingRefuses \/ ParkRefuses \/ BuildRefuses
  BY <1>10, RefusedOK
<1> QED BY <1>1, <1>2, <1>3, <1>4, <1>5, <1>6, <1>7, <1>8, <1>9, <1>10 DEF ImportStep

(* Every step keeps it.                                                    *)
LEMMA NextInv ==
  ASSUME SnapshotsWhole, SnapshotsInOrder, IInv, [Next]_vars
  PROVE  IInv'
<1>1. CASE \E d \in Docs : Edit(d) \/ RefusedEdit(d)
  BY <1>1, EditOK, RefusedEditOK
<1>2. CASE \E d \in Docs, msg \in Msgs, ts \in Times : CommitWith(d, msg, ts)
  BY <1>2, CommitWithOK
<1>3. CASE \E s, d \in Docs, ts \in Times : \E r \in Ranges : ExportRange(s, d, r, ts)
  BY <1>3, ExportRangeOK
<1>4. CASE \E s, d \in Docs, ts \in Times : ExportSnapshot(s, d, ts)
  BY <1>4, ExportSnapshotOK
<1>5. CASE \E d \in Docs, blob \in Foreign : ReceiveForeign(d, blob)
  BY <1>5, ReceiveForeignOK
<1>6. CASE ImportStep
  BY <1>6, ImportStepInv
<1>7. CASE UNCHANGED vars
  <2>1. /\ oplog' = oplog /\ tx' = tx /\ st' = st /\ imp' = imp
    BY <1>7 DEF vars
  <2>2. \A d \in Docs : Shows(d)' <=> Shows(d)
    BY <2>1 DEF Shows, Settled, Uncommitted
  <2> QED BY <2>1, <2>2 DEF IInv
<1> QED BY <1>1, <1>2, <1>3, <1>4, <1>5, <1>6, <1>7 DEF Next

(* The inductive invariant: every log is typed, without holes, closed      *)
(* under dependencies, of growing lamports and with its heads as           *)
(* frontiers; an open transaction continues its log as it stands; the      *)
(* state shows the log and the transaction; and an import is where         *)
(* checkKnown's replay of it said it would be, or takes a trimmed snapshot *)
(* causes first, with every change of the blob applied or kept             *)
(* (Document.Import, txn, opLog).                                          *)
THEOREM Inductive ==
  ASSUME SnapshotsWhole
  PROVE  Spec /\ []SnapshotsInOrder => []IInv
<1>1. Init => IInv
  BY InitInv
<1>2. SnapshotsInOrder /\ IInv /\ [Next]_vars => IInv'
  BY NextInv
<1> QED BY <1>1, <1>2, PTL DEF Spec

-----------------------------------------------------------------------------
(* Every variable keeps its type: an imported change that is cut, raised,  *)
(* merged or released from the pending set is still a change.              *)
THEOREM TypeCorrect ==
  ASSUME SnapshotsWhole
  PROVE  Spec /\ []SnapshotsInOrder => []TypeOK
<1>1. IInv => TypeOK
  BY InvHolds
<1> QED BY <1>1, Inductive, PTL

(* No history ever has a hole: the ids applied are exactly those below the *)
(* version vector, for updates of any other implementation too - this is   *)
(* what checkKnown's replay of the first pass is for - and for snapshots   *)
(* that keep causes first when they are trimmed and sorted again.          *)
THEOREM NoHoles ==
  ASSUME SnapshotsWhole
  PROVE  Spec /\ []SnapshotsInOrder => []Contiguous
<1>1. IInv => Contiguous
  BY InvHolds
<1> QED BY <1>1, Inductive, PTL

(* No operation is applied before what it depends on, with any number of   *)
(* writers sharing a peer id.  A trimmed snapshot's changes are applied on *)
(* their first turn, so for them this is the order's merit                 *)
(* (snapshotChanges).                                                      *)
THEOREM DepsApplied ==
  ASSUME SnapshotsWhole
  PROVE  Spec /\ []SnapshotsInOrder => []CausallyClosed
<1>1. IInv => CausallyClosed
  BY InvHolds
<1> QED BY <1>1, Inductive, PTL

(* Lamports grow along every dependency, whatever lamports blobs claim.    *)
THEOREM LamportsGrow ==
  ASSUME SnapshotsWhole
  PROVE  Spec /\ []SnapshotsInOrder => []LamportAboveDeps
<1>1. IInv => LamportAboveDeps
  BY InvHolds
<1> QED BY <1>1, Inductive, PTL

(* No step of an import rewrites or drops an operation the document had.   *)
THEOREM ImportKeepsHistory ==
  ASSUME SnapshotsWhole
  PROVE  Spec /\ []SnapshotsInOrder => []HistoryKept
<1>1. IInv => HistoryKept
  BY InvHolds
<1> QED BY <1>1, Inductive, PTL

(* The frontiers are the ops nothing else in the log depends on, whatever  *)
(* order changes came in, and in whatever parts (updateFrontiers), also    *)
(* where a snapshot installed those it claims (Document.Import).           *)
THEOREM FrontiersAreHeads ==
  ASSUME SnapshotsWhole
  PROVE  Spec /\ []SnapshotsInOrder => []FrontierIsMaximal
<1>1. IInv => FrontierIsMaximal
  BY InvHolds
<1> QED BY <1>1, Inductive, PTL

(* No step between imports moves the log under an open transaction.        *)
THEOREM TxStaysFresh ==
  ASSUME SnapshotsWhole
  PROVE  Spec /\ []SnapshotsInOrder => []TxFresh
<1>1. IInv => TxFresh
  BY InvHolds
<1> QED BY <1>1, Inductive, PTL

(* Between imports a document shows what is in its log and its open        *)
(* transaction, also after an import that failed at any of its steps.      *)
THEOREM StateShowsHistory ==
  ASSUME SnapshotsWhole
  PROVE  Spec /\ []SnapshotsInOrder => []StateIsHistory
<1>1. IInv => StateIsHistory
  BY InvHolds
<1> QED BY <1>1, Inductive, PTL

(* An import that gets to its end has applied or kept every operation of   *)
(* its blob.                                                               *)
THEOREM ImportLosesNothing ==
  ASSUME SnapshotsWhole
  PROVE  Spec /\ []SnapshotsInOrder => []NothingLost
<1>1. IInv => NothingLost
  BY InvHolds
<1> QED BY <1>1, Inductive, PTL

-----------------------------------------------------------------------------
(* Operations the state cannot show.                                       *)

(* Documents make none themselves: a local op is checked before it is      *)
(* recorded.                                                               *)
OwnOpsGood == \A d \in Docs : \A i \in BadOps : i[1] # PeerOf[d]

ShowsGood == \A d \in Docs : BadOps \cap st[d] = {}

(* Only a local op and the end of an import change what is shown.          *)
LEMMA ShowsGoodStep ==
  ASSUME OwnOpsGood, IInv, ShowsGood, [Next]_vars
  PROVE  ShowsGood'
<1>1. CASE st' = st
  BY <1>1 DEF ShowsGood
<1>2. ASSUME NEW d \in Docs, Edit(d) PROVE ShowsGood'
  <2>1. st' = [st EXCEPT ![d] = @ \cup {<<PeerOf[d], Begin(d).next>>}]
    BY <1>2 DEF Edit
  <2>2. <<PeerOf[d], Begin(d).next>> \notin BadOps
    BY DEF OwnOpsGood
  <2> QED BY <2>1, <2>2 DEF ShowsGood, IInv
<1>3. CASE Finish
  <2> DEFINE l == oplog[imp.doc]
  <2>1. /\ ~CannotBuild(l)
        /\ st' = IF Changed(l) THEN [st EXCEPT ![imp.doc] = DOMAIN l.store] ELSE st
    BY <1>3 DEF Finish
  <2> QED BY <2>1 DEF CannotBuild, ShowsGood, IInv
<1>4. CASE UNCHANGED vars
  BY <1>1, <1>4 DEF vars
<1>5. CASE ImportStep /\ ~Finish
  <2>1. st' = st
    BY <1>5 DEF ImportStep, ImportBegin, CheckStep, CheckRefuses, CheckDone, MainStep,
         MainRefuses, MainDone, PendingPop, PendingTry, PendingRefuses, PendingDone,
         ParkStep, ParkRefuses, ParkDone, BuildRefuses, Refuse
  <2> QED BY <1>1, <2>1
<1> QED BY <1>1, <1>2, <1>3, <1>4, <1>5
    DEF Next, RefusedEdit, CommitWith, ExportRange, ExportSnapshot, ReceiveForeign

(* Once an import is over, no op the state cannot show is in the history:  *)
(* neither one of the blob nor a pending one that the blob released        *)
(* (Document.Import's roll-back).                                          *)
THEOREM HistoryIsShowable ==
  ASSUME SnapshotsWhole, OwnOpsGood
  PROVE  Spec /\ []SnapshotsInOrder => []NothingUnshowable
<1>1. Init => IInv /\ ShowsGood
  BY InitInv DEF Init, ShowsGood
<1>2. SnapshotsInOrder /\ IInv /\ ShowsGood /\ [Next]_vars => (IInv /\ ShowsGood)'
  BY NextInv, ShowsGoodStep
<1>3. IInv /\ ShowsGood => NothingUnshowable
  BY InvHolds DEF StateIsHistory, ShowsGood, NothingUnshowable
<1> QED BY <1>1, <1>2, <1>3, PTL DEF Spec

-----------------------------------------------------------------------------
(* Documents that exchange updates alone.                                  *)

NoSnapshots == ~Snapshots /\ \A b \in Foreign : ~b.snapshot

OnlyUpdates == imp.phase # "idle" => ~imp.blob.snapshot

(* An import goes on with the blob it began with.                          *)
LEMMA BlobStays ==
  ASSUME IInv, ImportStep
  PROVE  imp'.phase = "idle" \/ (imp.phase # "idle" /\ imp'.blob = imp.blob)
<1>1. imp.phase # "idle"
  <2>1. CASE \E ts \in Times : ImportBegin(ts)
    BY <2>1 DEF ImportBegin
  <2>2. CASE CheckStep \/ CheckRefuses \/ CheckDone
    BY <2>2 DEF CheckStep, CheckRefuses, CheckDone
  <2>3. CASE MainStep \/ MainRefuses \/ MainDone
    BY <2>3 DEF MainStep, MainRefuses, MainDone
  <2>4. CASE PendingPop \/ PendingTry \/ PendingRefuses \/ PendingDone
    BY <2>4 DEF PendingPop, PendingTry, PendingRefuses, PendingDone
  <2>5. CASE ParkStep \/ ParkRefuses \/ ParkDone \/ Finish \/ BuildRefuses
    BY <2>5 DEF ParkStep, ParkRefuses, ParkDone, Finish, BuildRefuses
  <2> QED BY <2>1, <2>2, <2>3, <2>4, <2>5 DEF ImportStep
<1>2. ImportType(imp)
  BY <1>1 DEF IInv, ImportFits
<1>3. CASE CheckRefuses \/ MainRefuses \/ PendingRefuses \/ ParkRefuses \/ BuildRefuses \/ Finish
  BY <1>3 DEF CheckRefuses, MainRefuses, PendingRefuses, ParkRefuses, BuildRefuses, Finish,
              Refuse, Idle
<1>4. CASE \E ts \in Times : ImportBegin(ts)
  BY <1>1, <1>2, <1>4 DEF ImportBegin, ImportType
<1>5. CASE CheckStep \/ CheckDone \/ MainDone \/ PendingDone \/ ParkDone
  BY <1>1, <1>2, <1>5 DEF CheckStep, CheckDone, MainDone, PendingDone, ParkDone, ImportType
<1>6. CASE MainStep
  BY <1>1, <1>2, <1>6 DEF MainStep, ImportType
<1>7. CASE PendingPop
  BY <1>1, <1>2, <1>7 DEF PendingPop, ImportType
<1>8. CASE PendingTry
  BY <1>1, <1>2, <1>8 DEF PendingTry, Settle, ImportType
<1>9. CASE ParkStep
  BY <1>1, <1>2, <1>9 DEF ParkStep, Settle, ImportType
<1> QED BY <1>3, <1>4, <1>5, <1>6, <1>7, <1>8, <1>9 DEF ImportStep

(* No snapshot comes if none is sent.                                      *)
LEMMA NoSnapshotComes ==
  ASSUME NoSnapshots, IInv, OnlyUpdates, [Next]_vars
  PROVE  OnlyUpdates'
<1>1. CASE ImportStep
  BY <1>1, BlobStays DEF OnlyUpdates
<1>2. CASE \E d \in Docs, blob \in Foreign : ReceiveForeign(d, blob)
  BY <1>2 DEF ReceiveForeign, Deliver, NoSnapshots, OnlyUpdates
<1>3. CASE \E s, d \in Docs, ts \in Times : \E r \in Ranges : ExportRange(s, d, r, ts)
  BY <1>3 DEF ExportRange, Deliver, OnlyUpdates
<1>4. CASE imp' = imp
  BY <1>4 DEF OnlyUpdates
<1> QED BY <1>1, <1>2, <1>3, <1>4
    DEF Next, Edit, RefusedEdit, CommitWith, ExportSnapshot, NoSnapshots, vars

(* Updates of any implementation, whatever changes they hold, under shared *)
(* peer ids too: no history gets a hole or an op before what it depends    *)
(* on, its frontiers stay its heads, and no op of a blob is lost.  What    *)
(* the other theorems assume is about snapshots alone (checkKnown,         *)
(* importChanges).                                                         *)
THEOREM UpdatesKeepHistories ==
  ASSUME NoSnapshots
  PROVE  Spec => [](Contiguous /\ CausallyClosed /\ FrontierIsMaximal /\ NothingLost)
<1>1. SnapshotsWhole /\ (OnlyUpdates => SnapshotsInOrder)
  BY DEF NoSnapshots, SnapshotsWhole, OnlyUpdates, SnapshotsInOrder
<1>2. Init => IInv /\ OnlyUpdates
  BY InitInv DEF Init, Idle, OnlyUpdates
<1>3. IInv /\ OnlyUpdates /\ [Next]_vars => IInv' /\ OnlyUpdates'
  BY <1>1, NextInv, NoSnapshotComes
<1>4. IInv => Contiguous /\ CausallyClosed /\ FrontierIsMaximal /\ NothingLost
  BY InvHolds
<1> QED BY <1>2, <1>3, <1>4, PTL DEF Spec

=============================================================================
