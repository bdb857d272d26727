--------------------------- MODULE OpLogAgreement ---------------------------
(***************************************************************************)
(* Documents that edit under peer ids of their own agree on every          *)
(* operation: proofs about OpLog, for any number of documents, operations  *)
(* and exports, in whatever order their blobs arrive.                      *)
(*                                                                         *)
(* The argument compares every copy of an operation with the original, the *)
(* atom in the log of the document whose peer id it has.                   *)
(***************************************************************************)
EXTENDS OpLogProofs

OwnPeers == \A d, e \in Docs : PeerOf[d] = PeerOf[e] => d = e

NoOthers == Foreign = {}

-----------------------------------------------------------------------------
(* Originals and copies.  S gives every document's settled log.            *)

AllSettled == [d \in Docs |-> Settled(d)]

Original(S, i, a) ==
  \E d \in Docs : PeerOf[d] = i[1] /\ i \in DOMAIN S[d].store /\ S[d].store[i] = a

(* A change whose every atom is the original.                              *)
TrueChange(S, c) == \A i \in IdsOf(c) : Original(S, i, AtomsOf(c)[i])

Copies(S, l) == \A i \in DOMAIN l.store : Original(S, i, l.store[i])

TrueLog(S, l) == Copies(S, l) /\ \A e \in l.pending : TrueChange(S, e.ch)

(* An atom as a local commit makes it: its lamport is the next one after   *)
(* its dependencies', it is not older than they are, and depends on no op  *)
(* of its own peer but the last.                                           *)
Exact(l, i) ==
  /\ l.store[i].lam = NextLamport(l, l.store[i].deps)
  /\ \A j \in l.store[i].deps :
       /\ l.store[j].ts <= l.store[i].ts
       /\ j[1] = i[1] => j[2] = i[2] - 1

(* Its lamport is past that of the op before it, whether it depends on     *)
(* that op or on what did.                                                 *)
Rises(l, i) == i[2] > 0 => l.store[<<i[1], i[2] - 1>>].lam < l.store[i].lam

AllRise(l) == \A i \in DOMAIN l.store : Rises(l, i)

World(S) ==
  \A d \in Docs :
    /\ LogOK(S[d])
    /\ TrueLog(S, S[d])
    /\ \A i \in DOMAIN S[d].store : i[1] = PeerOf[d] => Exact(S[d], i) /\ Rises(S[d], i)

(* There is one original of an operation.                                  *)
LEMMA OneOriginal ==
  ASSUME OwnPeers, NEW S, NEW i, NEW a, NEW b, Original(S, i, a), Original(S, i, b)
  PROVE  a = b
BY DEF OwnPeers, Original

(* Logs that have the same atoms under some ids give the same next         *)
(* lamport.                                                                *)
LEMMA NextLamportLocal ==
  ASSUME NEW l, NEW m, NEW ids,
         \A j \in ids : j \in DOMAIN l.store /\ j \in DOMAIN m.store /\ l.store[j] = m.store[j]
  PROVE  NextLamport(l, ids) = NextLamport(m, ids)
<1>1. ids \cap DOMAIN l.store = ids /\ ids \cap DOMAIN m.store = ids
  OBVIOUS
<1>2. {l.store[i].lam + 1 : i \in ids} = {m.store[i].lam + 1 : i \in ids}
  OBVIOUS
<1> QED BY <1>1, <1>2 DEF NextLamport

(* After a single op comes the lamport one past its own.                   *)
LEMMA NextLamportOne ==
  ASSUME NEW l, LogType(l), NEW j \in DOMAIN l.store
  PROVE  NextLamport(l, {j}) = l.store[j].lam + 1
<1> DEFINE x == l.store[j].lam + 1
           H == {0} \cup {x}
<1>1. x \in Nat /\ x > 0
  BY DEF LogType, Atom
<1>2. {l.store[i].lam + 1 : i \in {j} \cap DOMAIN l.store} = {x}
  OBVIOUS
<1>3. NextLamport(l, {j}) = Highest(H)
  BY <1>2 DEF NextLamport
<1>4. H \in SUBSET Nat /\ IsFiniteSet(H) /\ H # {}
  <2>1. IsFiniteSet(H)
    BY FS_Singleton, FS_Union
  <2> QED BY <1>1, <2>1
<1>5. Highest(H) \in H /\ \A m \in H : m <= Highest(H)
  <2> HIDE DEF H
  <2> QED BY <1>4, HighestProperties
<1>6. Highest(H) = x
  BY <1>1, <1>5
<1> QED BY <1>3, <1>6

(* What holds of the original holds of every copy.                         *)
LEMMA CopiesExact ==
  ASSUME OwnPeers, NEW S, World(S), NEW l, LogOK(l), Copies(S, l), NEW i \in DOMAIN l.store
  PROVE  Exact(l, i)
<1>1. PICK d \in Docs : PeerOf[d] = i[1] /\ i \in DOMAIN S[d].store /\ S[d].store[i] = l.store[i]
  BY DEF Copies, Original
<1>2. Exact(S[d], i) /\ LogOK(S[d]) /\ Copies(S, S[d])
  BY <1>1 DEF World, TrueLog
<1> DEFINE deps == l.store[i].deps
<1>3. \A j \in deps : j \in DOMAIN l.store /\ j \in DOMAIN S[d].store
  BY <1>1, <1>2 DEF LogOK
<1>4. \A j \in deps : l.store[j] = S[d].store[j]
  BY <1>2, <1>3, OneOriginal DEF Copies
<1>5. NextLamport(l, deps) = NextLamport(S[d], deps)
  <2> HIDE DEF deps
  <2> QED BY <1>3, <1>4, NextLamportLocal
<1> QED BY <1>1, <1>2, <1>3, <1>4, <1>5 DEF Exact

(* A log has with an op the one before it on its peer.                     *)
LEMMA PrevThere ==
  ASSUME NEW l, LogOK(l), NEW i \in DOMAIN l.store, i[2] > 0
  PROVE  <<i[1], i[2] - 1>> \in DOMAIN l.store
<1> DEFINE j == <<i[1], i[2] - 1>>
<1>1. /\ l.vv \in [Peers -> Nat] /\ DOMAIN l.store = Below(l.vv)
      /\ i \in ID /\ i[1] \in Peers /\ i[2] \in Nat
  BY DEF LogOK, LogType, ID
<1>2. i[2] < l.vv[i[1]] /\ l.vv[i[1]] \in Nat
  BY <1>1, BelowMember
<1>3. j \in ID /\ j[1] = i[1] /\ j[2] = i[2] - 1
  BY <1>1 DEF ID
<1> HIDE DEF j
<1>4. j[2] < l.vv[j[1]]
  BY <1>1, <1>2, <1>3
<1>5. j \in DOMAIN l.store
  BY <1>1, <1>3, <1>4, BelowMember
<1> QED BY <1>5 DEF j

(* The lamports of every log rise along a peer's ops, as those of the      *)
(* originals do.                                                           *)
LEMMA CopiesRise ==
  ASSUME OwnPeers, NEW S, World(S), NEW l, LogOK(l), Copies(S, l)
  PROVE  AllRise(l)
<1> SUFFICES ASSUME NEW i \in DOMAIN l.store, i[2] > 0
             PROVE  l.store[<<i[1], i[2] - 1>>].lam < l.store[i].lam
  BY DEF AllRise, Rises
<1>1. PICK d \in Docs : PeerOf[d] = i[1] /\ i \in DOMAIN S[d].store /\ S[d].store[i] = l.store[i]
  BY DEF Copies, Original
<1> DEFINE m == S[d]
           j == <<i[1], i[2] - 1>>
<1>2. LogOK(m) /\ Copies(S, m) /\ Rises(m, i)
  BY <1>1 DEF World, TrueLog
<1>3. m.store[j].lam < m.store[i].lam
  BY <1>2 DEF Rises
<1>4. j \in DOMAIN l.store
  BY PrevThere
<1>5. j \in DOMAIN m.store
  <2> HIDE DEF m
  <2> QED BY <1>1, <1>2, PrevThere DEF m
<1> HIDE DEF m, j
<1>6. m.store[j] = l.store[j]
  BY <1>2, <1>4, <1>5, OneOriginal DEF Copies
<1> QED BY <1>1, <1>3, <1>6 DEF m, j

(* A true change has the lamport its dependencies call for, is not older   *)
(* than they are and depends on no op of its peer but the one before it.   *)
LEMMA TrueDeps ==
  ASSUME OwnPeers, NEW S, World(S), NEW l, LogOK(l), Copies(S, l),
         NEW c \in Change, TrueChange(S, c), c.deps \subseteq DOMAIN l.store
  PROVE  /\ c.lam = NextLamport(l, c.deps)
         /\ \A j \in c.deps : /\ l.store[j].ts <= c.ts
                              /\ j[1] = c.peer => j[2] = c.start - 1
<1> DEFINE i == <<c.peer, c.start>>
<1>1. c.start \in Nat /\ c.end \in Nat /\ c.start < c.end /\ c.lam \in Nat
  BY DEF Change
<1>2. i \in IdsOf(c) /\ i[1] = c.peer /\ i[2] = c.start
  BY <1>1 DEF IdsOf
<1>3. AtomsOf(c)[i].deps = c.deps /\ AtomsOf(c)[i].lam = c.lam /\ AtomsOf(c)[i].ts = c.ts
  <2> HIDE DEF i
  <2> QED BY <1>1, <1>2 DEF AtomsOf, DepsAt
<1> HIDE DEF i
<1>4. PICK d \in Docs :
        PeerOf[d] = i[1] /\ i \in DOMAIN S[d].store /\ S[d].store[i] = AtomsOf(c)[i]
  BY <1>2 DEF TrueChange, Original
<1>5. Exact(S[d], i) /\ LogOK(S[d]) /\ Copies(S, S[d])
  BY <1>4 DEF World, TrueLog
<1>6. \A j \in c.deps : j \in DOMAIN l.store /\ j \in DOMAIN S[d].store
  BY <1>3, <1>4, <1>5 DEF LogOK
<1>7. \A j \in c.deps : l.store[j] = S[d].store[j]
  BY <1>5, <1>6, OneOriginal DEF Copies
<1>8. NextLamport(l, c.deps) = NextLamport(S[d], c.deps)
  BY <1>6, <1>7, NextLamportLocal
<1> QED BY <1>2, <1>3, <1>4, <1>5, <1>7, <1>8 DEF Exact

(* The part of a true change that is not known yet is true.                *)
LEMMA TrimmedTrue ==
  ASSUME NEW S, NEW l, LogType(l), NEW c \in Change, TrueChange(S, c), ~Known(l, c)
  PROVE  TrueChange(S, TrimKnown(l, c))
<1> DEFINE n == l.vv[c.peer]
           t == TrimKnown(l, c)
<1>1. /\ c.peer \in Peers /\ c.start \in Nat /\ c.end \in Nat /\ c.lam \in Nat
      /\ l.vv \in [Peers -> Nat]
  BY DEF Change, LogType
<1>2. n \in Nat /\ n < c.end
  BY <1>1 DEF Known
<1>3. CASE c.start >= n
  <2>1. t = c
    BY <1>1, <1>3 DEF TrimKnown
  <2> HIDE DEF t
  <2> QED BY <2>1 DEF t
<1>4. CASE c.start < n
  <2>1. t = CutFrom(c, n)
    BY <1>1, <1>2, <1>4 DEF TrimKnown
  <2> HIDE DEF n, t
  <2>2. /\ t.peer = c.peer /\ t.start = n /\ t.end = c.end /\ t.ts = c.ts /\ t.msg = c.msg
        /\ t.by = c.by /\ t.deps = DepsAt(c, n) /\ t.lam = c.lam + (n - c.start)
    BY <2>1 DEF CutFrom, Change
  <2>3. ASSUME NEW i \in IdsOf(t)
        PROVE  i \in IdsOf(c) /\ AtomsOf(t)[i] = AtomsOf(c)[i]
    <3>1. i[2] \in n .. c.end - 1 /\ i \in IdsOf(c)
      BY <1>1, <1>2, <1>4, <2>2 DEF IdsOf
    <3>2. DepsAt(t, i[2]) = DepsAt(c, i[2])
      <4>1. CASE i[2] = n
        BY <2>2, <4>1 DEF DepsAt
      <4>2. CASE i[2] # n
        <5>1. i[2] # c.start
          BY <1>1, <1>2, <1>4, <3>1
        <5> QED BY <2>2, <4>2, <5>1 DEF DepsAt
      <4> QED BY <4>1, <4>2
    <3>3. t.lam + (i[2] - t.start) = c.lam + (i[2] - c.start)
      BY <1>1, <1>2, <2>2, <3>1
    <3> QED BY <2>2, <3>1, <3>2, <3>3 DEF AtomsOf
  <2>4. TrueChange(S, t)
    BY <2>3 DEF TrueChange
  <2> QED BY <2>4 DEF t
<1> QED BY <1>1, <1>2, <1>3, <1>4

(* Merging a true change into the one before it, as an import does, writes *)
(* what was there: the two have one timestamp.                             *)
LEMMA MergedSame ==
  ASSUME OwnPeers, NEW S, World(S), NEW l, LogOK(l), Copies(S, l),
         NEW c, Fits(l, c), TrueChange(S, c), CanMergeRight(l.store, c, 0)
  PROVE  Merged(l.store, c) = c
<1> DEFINE last == <<c.peer, c.start - 1>>
<1>1. c \in Change /\ c.deps \subseteq ID /\ c.deps \subseteq DOMAIN l.store /\ c.ts \in Nat
  BY DEF Fits, Change
<1>2. PICK i \in c.deps : c.deps = {i} /\ i[1] = c.peer
  BY DEF CanMergeRight
<1>3. /\ c.lam = NextLamport(l, c.deps)
      /\ l.store[i].ts <= c.ts /\ i[2] = c.start - 1
  BY <1>1, <1>2, TrueDeps
<1>4. i = last
  BY <1>1, <1>2, <1>3 DEF ID
<1>5. last \in DOMAIN l.store /\ c.deps = {last}
  BY <1>1, <1>2, <1>4
<1>6. c.lam = l.store[last].lam + 1
  <2> HIDE DEF last
  <2> QED BY <1>3, <1>5, NextLamportOne DEF LogOK
<1>7. l.store[last].ts = c.ts
  <2>1. c.ts - l.store[last].ts <= 0
    BY DEF CanMergeRight
  <2>2. l.store[last].ts \in Nat
    BY <1>5 DEF LogOK, LogType, Atom
  <2> QED BY <1>1, <1>3, <1>4, <2>1, <2>2
<1>8. Merged(l.store, c) = [c EXCEPT !.deps = c.deps, !.lam = c.lam, !.ts = c.ts]
  BY <1>5, <1>6, <1>7 DEF Merged
<1> QED BY <1>1, <1>8 DEF Change

(* An import that inserts a true change into a log of copies leaves a log  *)
(* of copies.                                                              *)
LEMMA InsertTrue ==
  ASSUME OwnPeers, NEW S, World(S), NEW l, LogOK(l), TrueLog(S, l),
         NEW c, Fits(l, c), TrueChange(S, c)
  PROVE  TrueLog(S, InsertRemote(l, c))
<1> DEFINE m == InsertRemote(l, c)
           s == Stored(l.store, c, 0)
<1>1. Copies(S, l)
  BY DEF TrueLog
<1>2. s = [i \in DOMAIN l.store \cup DOMAIN AtomsOf(c) |->
             IF i \in DOMAIN AtomsOf(c) THEN AtomsOf(c)[i] ELSE l.store[i]]
  BY <1>1, MergedSame DEF Stored
<1>3. DOMAIN AtomsOf(c) = IdsOf(c)
  BY DEF AtomsOf
<1>4. m.store = s /\ m.pending = l.pending
  <2>1. m = [l EXCEPT !.store = s, !.vv[c.peer] = c.end,
                      !.fr = UpdateFrontiers(l.fr, LastID(c), c.deps)]
    BY DEF InsertRemote
  <2> HIDE DEF m, s
  <2> QED BY <2>1, LogUpdated DEF LogOK
<1> HIDE DEF m, s
<1>5. \A i \in DOMAIN s : Original(S, i, s[i])
  BY <1>1, <1>2, <1>3 DEF Copies, TrueChange
<1>6. TrueLog(S, m)
  BY <1>4, <1>5 DEF TrueLog, Copies
<1> QED BY <1>6 DEF m

(* A change tried against a log of copies, with whatever lamport the log   *)
(* would raise it to: it has that lamport already, and goes in as it is.   *)
LEMMA AppliedTrue ==
  ASSUME OwnPeers, NEW S, World(S), NEW l, LogOK(l), TrueLog(S, l),
         NEW c \in Change, TrueChange(S, c), ~Known(l, c), c.start <= l.vv[c.peer],
         c.deps \subseteq DOMAIN l.store,
         NEW r, r = [c EXCEPT !.lam = NextLamport(l, c.deps)]
                \/ r = [c EXCEPT !.lam = Larger(c.lam, NextLamport(l, c.deps))],
         ~InsertRefused(l, TrimKnown(l, r))
  PROVE  TrueLog(S, InsertRemote(l, TrimKnown(l, r)))
<1>1. Copies(S, l) /\ LogType(l) /\ IsFiniteSet(c.deps) /\ c.lam \in Nat
  BY DEF TrueLog, LogOK, Change
<1>2. c.lam = NextLamport(l, c.deps)
  BY <1>1, TrueDeps
<1>3. r = [c EXCEPT !.lam = c.lam]
  BY <1>1, <1>2 DEF Larger
<1>4. r = c
  BY <1>3 DEF Change
<1>5. \A j \in c.deps : j \in DOMAIN l.store /\ l.store[j].lam < c.lam
  BY <1>1, <1>2, NextLamportAbove
<1>6. Fits(l, TrimKnown(l, c))
  BY <1>4, <1>5, TrimmedFits
<1>7. TrueChange(S, TrimKnown(l, c))
  BY <1>1, TrimmedTrue
<1> DEFINE t == TrimKnown(l, c)
<1> HIDE DEF t
<1>8. TrueLog(S, InsertRemote(l, t))
  BY <1>6, <1>7, InsertTrue DEF t
<1> QED BY <1>4, <1>8 DEF t

-----------------------------------------------------------------------------
(* Exports.                                                                *)

(* The change an export writes for a run has the atoms of the run.         *)
LEMMA RunAtoms ==
  ASSUME NEW l, LogOK(l), \A i \in DOMAIN l.store : Exact(l, i),
         NEW p \in Peers, NEW lo \in Nat, NEW hi \in Nat, hi <= l.vv[p],
         NEW c \in ChangesIn(l.store, p, lo, hi), NEW i \in IdsOf(c)
  PROVE  i \in DOMAIN l.store /\ l.store[i] = AtomsOf(c)[i]
<1>1. PICK r \in Runs(l.store, p, lo, hi) :
        c = [peer |-> p, start |-> r[1], end |-> r[2],
             deps |-> l.store[<<p, r[1]>>].deps, lam |-> l.store[<<p, r[1]>>].lam,
             ts |-> l.store[<<p, r[1]>>].ts, msg |-> l.store[<<p, r[1]>>].msg,
             by |-> l.store[<<p, r[1]>>].by]
  BY DEF ChangesIn
<1> DEFINE a == r[1]
           b == r[2]
           at(k) == <<p, k>>
<1>2. /\ a \in Nat /\ b \in Nat /\ a < b /\ b <= l.vv[p]
      /\ \A k \in a + 1 .. b - 1 : Joined(l.store, <<p, k>>)
  BY DEF Runs, LogOK, LogType
<1>3. /\ c.peer = p /\ c.start = a /\ c.end = b
      /\ c.deps = l.store[at(a)].deps /\ c.lam = l.store[at(a)].lam
      /\ c.ts = l.store[at(a)].ts /\ c.msg = l.store[at(a)].msg /\ c.by = l.store[at(a)].by
  BY <1>1
<1> HIDE DEF a, b
<1>4. l.vv \in [Peers -> Nat] /\ DOMAIN l.store = Below(l.vv)
  BY DEF LogOK, LogType
<1>5. ASSUME NEW k \in a .. b - 1
      PROVE  /\ at(k) \in IdsOf(c) /\ at(k) \in DOMAIN l.store
             /\ l.store[at(k)] \in Atom /\ l.store[at(k)].lam \in Nat
  <2>1. at(k) \in IdsOf(c)
    BY <1>3 DEF IdsOf
  <2>2. k \in Nat /\ k < l.vv[p]
    BY <1>2, <1>4
  <2> DEFINE x == at(k)
  <2>3. x \in ID /\ x[1] = p /\ x[2] = k
    BY <2>2 DEF ID
  <2> HIDE DEF x
  <2>4. x \in DOMAIN l.store
    BY <1>4, <2>2, <2>3, BelowMember
  <2>5. l.store[x] \in Atom /\ l.store[x].lam \in Nat
    BY <2>4 DEF LogOK, LogType, Atom
  <2> QED BY <2>1, <2>4, <2>5 DEF x
<1> DEFINE Same(k) == l.store[at(k)] = AtomsOf(c)[at(k)]
           Bad == {k \in a .. b - 1 : ~Same(k)}
<1>6. ASSUME NEW k \in a .. b - 1,
             l.store[at(k)].deps = DepsAt(c, k), l.store[at(k)].lam = c.lam + (k - a),
             l.store[at(k)].ts = c.ts, l.store[at(k)].msg = c.msg, l.store[at(k)].by = c.by
      PROVE  Same(k)
  <2>1. AtomsOf(c)[at(k)] = [deps |-> DepsAt(c, k), lam |-> c.lam + (k - a),
                             ts |-> c.ts, msg |-> c.msg, by |-> c.by]
    BY <1>3, <1>5 DEF AtomsOf
  <2> DEFINE x == l.store[at(k)]
  <2>2. x \in Atom
    BY <1>5
  <2>3. /\ x.deps = DepsAt(c, k) /\ x.lam = c.lam + (k - a)
        /\ x.ts = c.ts /\ x.msg = c.msg /\ x.by = c.by
    BY <1>6
  <2> HIDE DEF x
  <2>4. x = [deps |-> DepsAt(c, k), lam |-> c.lam + (k - a),
             ts |-> c.ts, msg |-> c.msg, by |-> c.by]
    BY <2>2, <2>3 DEF Atom
  <2> QED BY <2>1, <2>4 DEF x
<1>7. ASSUME NEW k \in a .. b - 1,
             Same(k), k + 1 \in a .. b - 1
      PROVE  Same(k + 1)
  <2> DEFINE x == at(k)
             y == at(k + 1)
  <2>1. Joined(l.store, y) /\ y[1] = p /\ y[2] - 1 = k
    BY <1>2, <1>7
  <2>2. /\ l.store[y].deps = {x} /\ l.store[y].ts = l.store[x].ts
        /\ l.store[y].msg = l.store[x].msg /\ l.store[y].by = l.store[x].by
    BY <2>1 DEF Joined
  <2>3. /\ l.store[x].ts = c.ts /\ l.store[x].msg = c.msg /\ l.store[x].by = c.by
        /\ l.store[x].lam = c.lam + (k - a)
    BY <1>3, <1>5, <1>7 DEF AtomsOf
  <2>4. x \in DOMAIN l.store /\ y \in DOMAIN l.store
    BY <1>5, <1>7
  <2> HIDE DEF x, y
  <2>5. l.store[y].lam = l.store[x].lam + 1
    BY <2>2, <2>4, NextLamportOne DEF Exact, LogOK
  <2>6. c.lam \in Nat
    BY <1>2, <1>3, <1>5
  <2>7. c.lam + (k - a) + 1 = c.lam + ((k + 1) - a)
    BY <1>2, <2>6
  <2>8. DepsAt(c, k + 1) = {x}
    BY <1>2, <1>3 DEF DepsAt, x
  <2> QED BY <1>6, <1>7, <2>2, <2>3, <2>5, <2>7, <2>8 DEF y
<1>8. Same(a)
  <2>1. a \in a .. b - 1 /\ a - a = 0
    BY <1>2
  <2>2. c.lam + 0 = c.lam
    BY <1>3, <1>5, <2>1
  <2>3. DepsAt(c, a) = c.deps
    BY <1>3 DEF DepsAt
  <2> QED BY <1>3, <1>6, <2>1, <2>2, <2>3
<1>9. Bad = {}
  <2> SUFFICES ASSUME Bad # {} PROVE FALSE
    OBVIOUS
  <2>1. Bad \subseteq a .. b
    BY <1>2
  <2> HIDE DEF Bad
  <2>2. PICK k \in Bad : \A m \in Bad : k <= m
    BY <1>2, <2>1, Lowest
  <2>3. k \in a .. b - 1 /\ ~Same(k)
    BY DEF Bad
  <2>4. k # a
    BY <1>8, <2>3
  <2>5. k - 1 \in a .. b - 1 /\ (k - 1) + 1 = k
    BY <1>2, <2>3, <2>4
  <2>6. ~Same(k - 1)
    <3> HIDE DEF Same
    <3> QED BY <1>7, <2>3, <2>5
  <2>7. k - 1 \in Bad
    BY <2>5, <2>6 DEF Bad
  <2> QED BY <1>2, <2>2, <2>3, <2>7
<1>10. i[2] \in a .. b - 1 /\ i = at(i[2])
  BY <1>3 DEF IdsOf
<1>11. Same(i[2])
  BY <1>9, <1>10
<1> QED BY <1>5, <1>10, <1>11

(* So what a document exports is true.                                     *)
LEMMA ExportTrue ==
  ASSUME OwnPeers, NEW S, World(S), NEW l, LogOK(l), Copies(S, l), NEW p \in Peers,
         NEW from \in Nat, NEW to \in Nat, to <= l.vv[p],
         NEW c \in ChangesIn(l.store, p, from, to)
  PROVE  TrueChange(S, c)
<1>2. \A i \in DOMAIN l.store : Exact(l, i)
  BY CopiesExact
<1>3. \A i \in IdsOf(c) : i \in DOMAIN l.store /\ l.store[i] = AtomsOf(c)[i]
  BY <1>2, RunAtoms
<1> QED BY <1>3 DEF TrueChange, Copies

(* A snapshot has causes first by lamport, what is cut off its changes     *)
(* counted in: this is SnapshotsInOrder of the documents' own.             *)
LEMMA SnapshotInOrder ==
  ASSUME NEW l, LogOK(l), \A i \in DOMAIN l.store : Exact(l, i), AllRise(l),
         NEW b, b.changes = UNION {ChangesIn(l.store, p, 0, l.vv[p]) : p \in Peers}
  PROVE  InOrder(b)
<1>1. /\ l.vv \in [Peers -> Nat] /\ DOMAIN l.store = Below(l.vv) /\ DOMAIN l.store \subseteq ID
      /\ \A i \in DOMAIN l.store : l.store[i].lam \in Nat
  BY DEF LogOK, LogType, Atom
<1>2. ASSUME NEW p \in Peers, NEW c \in ChangesIn(l.store, p, 0, l.vv[p]), NEW i \in IdsOf(c)
      PROVE  i \in DOMAIN l.store /\ l.store[i] = AtomsOf(c)[i]
  <2> DEFINE n == l.vv[p]
  <2>1. n \in Nat /\ n <= l.vv[p] /\ 0 \in Nat
    BY <1>1
  <2>2. c \in ChangesIn(l.store, p, 0, n)
    OBVIOUS
  <2> HIDE DEF n
  <2> QED BY <2>1, <2>2, RunAtoms
<1>3. ASSUME NEW j \in DOMAIN l.store
      PROVE  \E e \in b.changes : j \in IdsOf(e) /\ l.store[j].lam = e.lam + (j[2] - e.start)
  <2> DEFINE p == j[1]
             n == l.vv[p]
  <2>1. j = <<p, j[2]>> /\ p \in Peers /\ n \in Nat /\ j[2] \in 0 .. n - 1
    BY <1>1, BelowMember DEF ID
  <2>2. PICK r \in Runs(l.store, p, 0, n) : j[2] \in r[1] .. r[2] - 1
    <3> HIDE DEF n, p
    <3> QED BY <2>1, RunAround
  <2>3. PICK e \in ChangesIn(l.store, p, 0, n) : OfRun(l.store, p, r, e)
    BY ChangesOfRuns
  <2>4. j \in IdsOf(e)
    <3>1. e.peer = p /\ e.start = r[1] /\ e.end = r[2]
      BY <2>3 DEF OfRun
    <3> QED BY <2>1, <2>2, <3>1 DEF IdsOf
  <2>5. l.store[j] = AtomsOf(e)[j]
    BY <1>2, <2>1, <2>3, <2>4
  <2>6. AtomsOf(e)[j].lam = e.lam + (j[2] - e.start)
    BY <2>4 DEF AtomsOf
  <2> QED BY <2>1, <2>3, <2>4, <2>5, <2>6
<1> SUFFICES ASSUME NEW c \in b.changes, NEW j \in Causes(c)
             PROVE  j \in DOMAIN l.store /\ l.store[j].lam < c.lam
  BY <1>3 DEF InOrder
<1>4. PICK p \in Peers : c \in ChangesIn(l.store, p, 0, l.vv[p])
  OBVIOUS
<1>5. PICK r \in Runs(l.store, p, 0, l.vv[p]) : OfRun(l.store, p, r, c)
  BY <1>4, ChangesOfRuns
<1> DEFINE x == <<p, c.start>>
<1>6. /\ c.peer = p /\ c.start = r[1] /\ c.end = r[2] /\ r[1] \in Nat /\ r[2] \in Nat /\ r[1] < r[2]
      /\ c.deps = l.store[x].deps /\ c.lam = l.store[x].lam
  BY <1>1, <1>5 DEF OfRun, Runs
<1>7. x \in IdsOf(c)
  BY <1>6 DEF IdsOf
<1>8. x \in DOMAIN l.store /\ x[1] = p /\ x[2] = c.start
  BY <1>2, <1>4, <1>7
<1>9. CASE j \in c.deps
  <2> HIDE DEF x
  <2> QED BY <1>6, <1>8, <1>9 DEF LogOK
<1>10. CASE j \notin c.deps
  <2>1. j = <<x[1], x[2] - 1>> /\ x[2] > 0
    BY <1>6, <1>8, <1>10 DEF Causes
  <2> HIDE DEF x
  <2>2. j \in DOMAIN l.store
    BY <1>8, <2>1, PrevThere
  <2> QED BY <1>6, <1>8, <2>1, <2>2 DEF AllRise, Rises
<1> QED BY <1>9, <1>10

-----------------------------------------------------------------------------
(* Commits.                                                                *)

(* Logs that only grow keep the originals.                                 *)
LEMMA OriginalsStay ==
  ASSUME NEW S, NEW Z, \A d \in Docs : Kept(S[d], Z[d])
  PROVE  /\ \A c : TrueChange(S, c) => TrueChange(Z, c)
         /\ \A l : TrueLog(S, l) => TrueLog(Z, l)
<1>1. \A i, a : Original(S, i, a) => Original(Z, i, a)
  BY DEF Original, Kept
<1> QED BY <1>1 DEF TrueChange, TrueLog, Copies

(* An atom stays exact in a log that grows.                                *)
LEMMA ExactStays ==
  ASSUME NEW l, LogOK(l), NEW m, Kept(l, m), NEW i \in DOMAIN l.store, Exact(l, i)
  PROVE  Exact(m, i)
<1> DEFINE deps == l.store[i].deps
<1>1. m.store[i] = l.store[i]
  BY DEF Kept
<1>2. \A j \in deps : j \in DOMAIN l.store /\ j \in DOMAIN m.store /\ l.store[j] = m.store[j]
  BY DEF LogOK, Kept
<1>3. NextLamport(l, deps) = NextLamport(m, deps)
  <2> HIDE DEF deps
  <2> QED BY <1>2, NextLamportLocal
<1> QED BY <1>1, <1>2, <1>3 DEF Exact

(* The atoms a local commit adds are exact: the change depends on the      *)
(* frontiers, has the lamport after theirs and is not older.               *)
LEMMA LocalExact ==
  ASSUME NEW l, LogOK(l), NEW c, Fits(l, c), c.deps = l.fr, c.lam = NextLamport(l, l.fr),
         \A j \in l.fr : l.store[j].ts <= c.ts,
         NEW i \in IdsOf(c)
  PROVE  Exact(InsertLocal(l, c), i)
<1> DEFINE m == InsertLocal(l, c)
           s == Stored(l.store, c, MergeInterval)
           merges == CanMergeRight(l.store, c, MergeInterval)
           e == IF merges THEN Merged(l.store, c) ELSE c
           last == <<c.peer, c.start - 1>>
<1>1. /\ c \in Change /\ c.peer \in Peers /\ c.start \in Nat /\ c.end \in Nat
      /\ c.start < c.end /\ c.start = l.vv[c.peer] /\ l.vv \in [Peers -> Nat]
      /\ DOMAIN l.store = Below(l.vv) /\ LogType(l)
  BY DEF Fits, Change, LogOK, LogType
<1>2. Fits(l, e) /\ e.peer = c.peer /\ e.end = c.end /\ e.start = c.start /\ e \in Change
  BY MergedFits DEF Fits
<1>3. m.store = s /\ LogOK(m) /\ Kept(l, m)
  <2>1. m = [l EXCEPT !.store = s, !.vv[c.peer] = c.end, !.fr = {LastID(c)}]
    BY DEF InsertLocal
  <2>2. LogOK(m) /\ Kept(l, m)
    BY InsertLocalOK
  <2> HIDE DEF m, s
  <2> QED BY <1>1, <2>1, <2>2, LogUpdated
<1>4. ASSUME NEW j \in l.fr
      PROVE  /\ j \in DOMAIN l.store /\ j \in ID /\ l.store[j].ts <= c.ts
             /\ j[1] = c.peer => j = last
  <2>1. j \in DOMAIN l.store /\ <<j[1], j[2] + 1>> \notin DOMAIN l.store
    BY DEF LogOK, Maximal
  <2>2. j \in ID /\ j[2] < l.vv[j[1]] /\ j = <<j[1], j[2]>> /\ j[2] \in Nat /\ j[1] \in Peers
    BY <1>1, <2>1, BelowMember DEF ID
  <2>3. ~(j[2] + 1 < l.vv[j[1]])
    <3> DEFINE n == <<j[1], j[2] + 1>>
    <3>1. n \in ID /\ n[1] = j[1] /\ n[2] = j[2] + 1
      BY <2>2 DEF ID
    <3>2. n \notin Below(l.vv)
      BY <1>1, <2>1
    <3> HIDE DEF n
    <3> QED BY <1>1, <3>1, <3>2, BelowMember
  <2>4. j[1] = c.peer => j[2] = c.start - 1
    BY <1>1, <2>2, <2>3
  <2> QED BY <2>1, <2>2, <2>4
<1>5. /\ e.lam = NextLamport(l, e.deps)
      /\ \A j \in e.deps : /\ j \in DOMAIN l.store /\ l.store[j].ts <= e.ts
                           /\ j[1] = c.peer => j[2] = c.start - 1
  <2>1. CASE merges
    <3>1. PICK x \in c.deps : c.deps = {x} /\ x[1] = c.peer
      BY <2>1 DEF CanMergeRight
    <3>2. x = last
      BY <1>4, <3>1
    <3>3. last \in DOMAIN l.store /\ c.deps = {last}
      BY <2>1, <3>1, <3>2 DEF CanMergeRight
    <3>4. e.deps = {last} /\ e.lam = l.store[last].lam + 1 /\ e.ts = l.store[last].ts
      BY <1>1, <2>1 DEF Merged, Change
    <3>5. l.store[last].ts \in Nat
      BY <1>1, <3>3 DEF LogType, Atom
    <3>6. last[2] = c.start - 1
      OBVIOUS
    <3> HIDE DEF last, e
    <3>7. NextLamport(l, {last}) = l.store[last].lam + 1
      BY <1>1, <3>3, NextLamportOne
    <3> QED BY <3>3, <3>4, <3>5, <3>6, <3>7
  <2>2. CASE ~merges
    <3>1. e = c
      BY <2>2
    <3> HIDE DEF e
    <3> QED BY <1>4, <3>1
  <2> QED BY <2>1, <2>2
<1>6. \A x \in IdsOf(c) : /\ m.store[x].deps = DepsAt(e, x[2]) /\ m.store[x].ts = e.ts
                           /\ m.store[x].lam = e.lam + (x[2] - c.start)
                           /\ x \in DOMAIN m.store
  <2>1. IdsOf(e) = IdsOf(c)
    BY <1>2 DEF IdsOf
  <2>2. \A x \in IdsOf(c) : m.store[x] = AtomsOf(e)[x] /\ x \in DOMAIN m.store
    BY <1>3, <2>1, AtomsOfChange DEF Stored, AtomsOf
  <2> HIDE DEF m, e
  <2> SUFFICES ASSUME NEW x \in IdsOf(c)
               PROVE  /\ m.store[x].deps = DepsAt(e, x[2]) /\ m.store[x].ts = e.ts
                      /\ m.store[x].lam = e.lam + (x[2] - c.start)
                      /\ x \in DOMAIN m.store
    OBVIOUS
  <2>3. AtomsOf(e)[x] = [deps |-> DepsAt(e, x[2]), lam |-> e.lam + (x[2] - c.start),
                         ts |-> e.ts, msg |-> e.msg, by |-> e.by]
    BY <1>2, <2>1 DEF AtomsOf
  <2>4. m.store[x] = AtomsOf(e)[x] /\ x \in DOMAIN m.store
    BY <2>2
  <2> QED BY <2>3, <2>4
<1>7. /\ i[1] = c.peer /\ i[2] \in c.start .. c.end - 1 /\ e.lam \in Nat /\ e.ts \in Nat
      /\ i = <<c.peer, i[2]>>
  BY <1>2 DEF IdsOf, Change
<1> HIDE DEF m, s, e, merges
<1>8. CASE i[2] = c.start
  <2>1. m.store[i].deps = e.deps /\ m.store[i].lam = e.lam
    <3>1. m.store[i].deps = DepsAt(e, i[2]) /\ m.store[i].lam = e.lam + (i[2] - c.start)
      BY <1>6
    <3>2. DepsAt(e, i[2]) = e.deps
      BY <1>2, <1>8 DEF DepsAt
    <3>3. e.lam + (i[2] - c.start) = e.lam
      BY <1>1, <1>7, <1>8
    <3> QED BY <3>1, <3>2, <3>3
  <2>2. \A j \in e.deps : j \in DOMAIN l.store /\ j \in DOMAIN m.store /\ l.store[j] = m.store[j]
    BY <1>3, <1>5 DEF Kept
  <2>3. NextLamport(l, e.deps) = NextLamport(m, e.deps)
    BY <2>2, NextLamportLocal
  <2>4. Exact(m, i)
    BY <1>5, <1>6, <1>7, <1>8, <2>1, <2>2, <2>3 DEF Exact
  <2> QED BY <2>4 DEF m
<1>9. CASE i[2] # c.start
  <2> DEFINE prev == <<c.peer, i[2] - 1>>
  <2>1. prev \in IdsOf(c) /\ prev[1] = c.peer /\ prev[2] = i[2] - 1
    BY <1>1, <1>7, <1>9 DEF IdsOf
  <2>2. m.store[i].deps = {prev}
    BY <1>2, <1>6, <1>9 DEF DepsAt
  <2> HIDE DEF prev
  <2>3. prev \in DOMAIN m.store /\ m.store[prev].ts = e.ts
        /\ m.store[prev].lam = e.lam + ((i[2] - 1) - c.start)
    BY <1>6, <2>1
  <2>4. NextLamport(m, {prev}) = m.store[prev].lam + 1
    BY <1>3, <2>3, NextLamportOne DEF LogOK
  <2>5. m.store[i].lam = m.store[prev].lam + 1
    BY <1>1, <1>6, <1>7, <2>3
  <2>6. m.store[i].ts = e.ts
    BY <1>6
  <2>7. Exact(m, i)
    BY <1>7, <2>1, <2>2, <2>3, <2>4, <2>5, <2>6 DEF Exact
  <2> QED BY <2>7 DEF m
<1> QED BY <1>8, <1>9

(* A log holds finitely many operations.                                   *)
LEMMA FiniteStore ==
  ASSUME NEW l, LogOK(l)
  PROVE  IsFiniteSet(DOMAIN l.store)
<1> DEFINE f == [p \in Peers |-> {p} \X (0 .. l.vv[p] - 1)]
           F == {f[p] : p \in Peers}
<1>1. l.vv \in [Peers -> Nat] /\ DOMAIN l.store = Below(l.vv)
  BY DEF LogOK, LogType
<1>2. f \in Surjection(Peers, F)
  BY DEF Surjection
<1>3. IsFiniteSet(F)
  BY <1>2, ConstantsAssumption, FS_Surjection
<1>4. ASSUME NEW p \in Peers PROVE IsFiniteSet(f[p])
  <2>1. IsFiniteSet(0 .. l.vv[p] - 1)
    BY <1>1, FS_Interval
  <2> DEFINE I == 0 .. l.vv[p] - 1
  <2>2. IsFiniteSet({p})
    BY FS_Singleton
  <2> HIDE DEF I
  <2>3. IsFiniteSet({p} \X I)
    BY <2>1, <2>2, FS_Product DEF I
  <2> QED BY <2>3 DEF I
<1>5. IsFiniteSet(UNION F)
  <2>1. \A x \in F : IsFiniteSet(x)
    BY <1>4
  <2> HIDE DEF F, f
  <2> QED BY <1>3, <2>1, FS_UNION
<1>6. UNION F = Below(l.vv)
  BY DEF Below
<1> QED BY <1>1, <1>5, <1>6

(* Some op of a part of a log has the highest lamport.                     *)
LEMMA Latest ==
  ASSUME NEW l, LogOK(l), NEW U \in SUBSET DOMAIN l.store, U # {}
  PROVE  \E h \in U : \A k \in U : l.store[k].lam <= l.store[h].lam
<1> DEFINE f == [i \in U |-> l.store[i].lam]
           H == {f[i] : i \in U}
<1>1. \A i \in U : l.store[i].lam \in Nat
  BY DEF LogOK, LogType, Atom
<1>2. IsFiniteSet(U)
  BY FiniteStore, FS_Subset
<1>3. f \in Surjection(U, H)
  BY DEF Surjection
<1>4. IsFiniteSet(H) /\ H \in SUBSET Nat /\ H # {}
  BY <1>1, <1>2, <1>3, FS_Surjection
<1>5. Highest(H) \in H /\ \A m \in H : m <= Highest(H)
  <2> HIDE DEF H
  <2> QED BY <1>4, HighestProperties
<1>6. PICK h \in U : Highest(H) = f[h]
  BY <1>5
<1> QED BY <1>5, <1>6

(* A head is the last op of its peer.                                      *)
LEMMA HeadIsLast ==
  ASSUME NEW l, LogOK(l), NEW j \in l.fr
  PROVE  /\ j \in DOMAIN l.store /\ j \in ID /\ j[1] \in Peers /\ j[2] \in Nat
         /\ j = <<j[1], l.vv[j[1]] - 1>>
<1>1. /\ l.vv \in [Peers -> Nat] /\ DOMAIN l.store = Below(l.vv)
      /\ j \in DOMAIN l.store /\ <<j[1], j[2] + 1>> \notin DOMAIN l.store
  BY DEF LogOK, LogType, Maximal
<1>2. j \in ID /\ j[2] < l.vv[j[1]] /\ j = <<j[1], j[2]>> /\ j[2] \in Nat /\ j[1] \in Peers
  BY <1>1, BelowMember DEF ID
<1> DEFINE n == <<j[1], j[2] + 1>>
<1>3. n \in ID /\ n[1] = j[1] /\ n[2] = j[2] + 1
  BY <1>2 DEF ID
<1>4. n \notin Below(l.vv)
  BY <1>1
<1> HIDE DEF n
<1>5. ~(n[2] < l.vv[n[1]])
  BY <1>1, <1>3, <1>4, BelowMember
<1>6. j[2] = l.vv[j[1]] - 1
  BY <1>1, <1>2, <1>3, <1>5
<1> QED BY <1>1, <1>2, <1>6

(* The deps of the atoms a local commit adds.                              *)
LEMMA LocalDeps ==
  ASSUME NEW l, LogOK(l), NEW c, Fits(l, c), c.deps = l.fr, NEW i \in IdsOf(c)
  PROVE  InsertLocal(l, c).store[i].deps = DepsAt(c, i[2])
<1> DEFINE s == Stored(l.store, c, MergeInterval)
           merges == CanMergeRight(l.store, c, MergeInterval)
           e == IF merges THEN Merged(l.store, c) ELSE c
           m == InsertLocal(l, c)
<1>1. /\ Fits(l, e) /\ e.peer = c.peer /\ e.end = c.end /\ e.start = c.start
      /\ e \in Change /\ c \in Change /\ c.start = l.vv[c.peer]
  BY MergedFits DEF Fits
<1>2. m.store = s
  <2>1. m = [l EXCEPT !.store = s, !.vv[c.peer] = c.end, !.fr = {LastID(c)}]
    BY DEF InsertLocal
  <2> HIDE DEF m, s
  <2> QED BY <2>1, LogUpdated DEF LogOK
<1>3. e.deps = c.deps
  <2>1. CASE merges
    <3>1. PICK j \in c.deps : c.deps = {j} /\ j[1] = c.peer
      BY <2>1 DEF CanMergeRight
    <3>2. j = <<j[1], l.vv[j[1]] - 1>>
      BY HeadIsLast
    <3>3. j = <<c.peer, c.start - 1>>
      BY <1>1, <3>1, <3>2
    <3>4. e.deps = {<<c.peer, c.start - 1>>}
      BY <1>1, <2>1 DEF Merged, Change
    <3> QED BY <3>1, <3>3, <3>4
  <2> QED BY <2>1
<1> HIDE DEF e, merges
<1>4. IdsOf(e) = IdsOf(c)
  BY <1>1 DEF IdsOf
<1>5. s[i] = AtomsOf(e)[i]
  BY <1>4 DEF Stored, AtomsOf, e, merges
<1>6. AtomsOf(e)[i].deps = DepsAt(e, i[2])
  BY <1>1, <1>4, AtomsOfChange
<1>7. DepsAt(e, i[2]) = DepsAt(c, i[2])
  BY <1>1, <1>3 DEF DepsAt
<1>8. m.store[i].deps = DepsAt(c, i[2])
  BY <1>2, <1>5, <1>6, <1>7
<1> QED BY <1>8

(* With rising lamports every op is at or below a head by lamport.         *)
LEMMA RisingHeads ==
  ASSUME NEW l, LogOK(l), AllRise(l), NEW i \in DOMAIN l.store
  PROVE  \E h \in l.fr : l.store[i].lam <= l.store[h].lam
<1> DEFINE U == {k \in DOMAIN l.store : l.store[i].lam <= l.store[k].lam}
<1>1. \A k \in DOMAIN l.store : l.store[k].lam \in Nat
  BY DEF LogOK, LogType, Atom
<1>2. U \in SUBSET DOMAIN l.store /\ U # {}
  BY <1>1
<1>3. PICK h \in U : \A k \in U : l.store[k].lam <= l.store[h].lam
  <2> HIDE DEF U
  <2> QED BY <1>2, Latest
<1>4. h \in l.fr
  <2> SUFFICES ASSUME h \notin l.fr PROVE FALSE
    OBVIOUS
  <2> DEFINE n == <<h[1], h[2] + 1>>
  <2>1. \/ \E j \in DOMAIN l.store : h \in l.store[j].deps
        \/ n \in DOMAIN l.store
    BY DEF LogOK, Maximal
  <2>2. h \in ID /\ h = <<n[1], n[2] - 1>> /\ n[2] > 0
    <3>1. h \in ID
      BY DEF LogOK, LogType
    <3>2. h = <<h[1], h[2]>> /\ h[2] \in Nat
      BY <3>1 DEF ID
    <3>3. n[1] = h[1] /\ n[2] = h[2] + 1
      OBVIOUS
    <3> HIDE DEF n
    <3>4. n[2] - 1 = h[2] /\ n[2] > 0
      BY <3>2, <3>3
    <3> QED BY <3>1, <3>2, <3>3, <3>4
  <2> HIDE DEF n
  <2>3. PICK j \in DOMAIN l.store : l.store[h].lam < l.store[j].lam
    <3>1. CASE n \in DOMAIN l.store
      BY <2>2, <3>1 DEF AllRise, Rises
    <3>2. CASE \E j \in DOMAIN l.store : h \in l.store[j].deps
      BY <3>2 DEF LogOK
    <3> QED BY <2>1, <3>1, <3>2
  <2>4. j \in U
    BY <1>1, <2>3
  <2> QED BY <1>1, <1>3, <2>3, <2>4
<1> QED BY <1>4

(* An op's lamport stays past that of the one before it.                   *)
LEMMA RisesStays ==
  ASSUME NEW l, LogOK(l), NEW m, Kept(l, m), NEW i \in DOMAIN l.store, Rises(l, i)
  PROVE  Rises(m, i)
BY PrevThere DEF Rises, Kept

(* The ops a local commit adds depend on every head, so they lie past all  *)
(* that was there.                                                         *)
LEMMA LocalRises ==
  ASSUME NEW l, LogOK(l), AllRise(l), NEW c, Fits(l, c), c.deps = l.fr, NEW i \in IdsOf(c)
  PROVE  Rises(InsertLocal(l, c), i)
<1> DEFINE m == InsertLocal(l, c)
           j == <<i[1], i[2] - 1>>
<1>1. LogOK(m) /\ Kept(l, m) /\ DOMAIN m.store = DOMAIN l.store \cup IdsOf(c)
  BY InsertLocalOK DEF Gains
<1>2. m.store[i].deps = DepsAt(c, i[2]) /\ i \in DOMAIN m.store
  BY <1>1, LocalDeps
<1>3. /\ c \in Change /\ c.peer \in Peers /\ c.start \in Nat /\ c.end \in Nat
      /\ c.start = l.vv[c.peer] /\ l.vv \in [Peers -> Nat] /\ DOMAIN l.store = Below(l.vv)
  BY DEF Fits, Change, LogOK, LogType
<1>4. i[1] = c.peer /\ i[2] \in c.start .. c.end - 1
  BY DEF IdsOf
<1> HIDE DEF m
<1> SUFFICES ASSUME i[2] > 0 PROVE m.store[j].lam < m.store[i].lam
  BY DEF Rises, m
<1>5. CASE i[2] # c.start
  BY <1>1, <1>2, <1>4, <1>5 DEF DepsAt, LogOK
<1>6. CASE i[2] = c.start
  <2>1. j \in DOMAIN l.store
    <3>1. j \in ID /\ j[1] = c.peer /\ j[2] < l.vv[j[1]]
      BY <1>3, <1>4, <1>6 DEF ID
    <3> HIDE DEF j
    <3> QED BY <1>3, <3>1, BelowMember
  <2> HIDE DEF j
  <2>2. PICK h \in l.fr : l.store[j].lam <= l.store[h].lam
    BY <2>1, RisingHeads
  <2>3. h \in DOMAIN l.store
    BY HeadIsLast
  <2>4. m.store[h] = l.store[h] /\ m.store[j] = l.store[j] /\ j \in DOMAIN m.store
    BY <1>1, <2>1, <2>3 DEF Kept
  <2>5. h \in m.store[i].deps
    BY <1>2, <1>6 DEF DepsAt
  <2>6. h \in DOMAIN m.store /\ m.store[h].lam < m.store[i].lam
    BY <1>1, <1>2, <2>5 DEF LogOK
  <2>7. m.store[h].lam \in Nat /\ m.store[i].lam \in Nat /\ m.store[j].lam \in Nat
    BY <1>1, <1>2, <2>4, <2>6 DEF LogOK, LogType, Atom
  <2> QED BY <2>2, <2>4, <2>6, <2>7
<1> QED BY <1>5, <1>6

-----------------------------------------------------------------------------
(* The invariant.                                                          *)

(* What an import carries: nothing but the originals of some document, and *)
(* a snapshot of them with causes first.                                   *)
InFlight(S, m) ==
  /\ m.blob.snapshot => InOrder(m.blob)
  /\ \A c \in m.blob.changes : TrueChange(S, c)
  /\ \A i \in 1 .. Len(m.order) : TrueChange(S, m.order[i])
  /\ \A i \in 1 .. Len(m.waiting) : TrueChange(S, m.waiting[i])
  /\ \A e \in m.todo : TrueChange(S, e.ch)

AInv ==
  /\ IInv
  /\ World(AllSettled)
  /\ \A d \in Docs : TrueLog(AllSettled, oplog[d])
  /\ imp.phase # "idle" => InFlight(AllSettled, imp)

(* It implies the properties the theorems at the end are about.            *)
LEMMA AInvHolds ==
  ASSUME OwnPeers, AInv
  PROVE  AtomsAgree /\ TimestampsGrow
<1>1. \A d \in Docs : Copies(AllSettled, oplog[d]) /\ LogOK(oplog[d])
  BY DEF AInv, IInv, TrueLog
<1>2. AtomsAgree
  BY <1>1, OneOriginal DEF AtomsAgree, Copies
<1>3. TimestampsGrow
  <2> SUFFICES ASSUME NEW d \in Docs, NEW i \in DOMAIN oplog[d].store,
                      NEW j \in oplog[d].store[i].deps
               PROVE  oplog[d].store[j].ts <= oplog[d].store[i].ts
    BY DEF TimestampsGrow
  <2>1. Exact(oplog[d], i)
    BY <1>1, CopiesExact DEF AInv
  <2> QED BY <2>1 DEF Exact
<1> QED BY <1>2, <1>3

(* Between imports, and when a blob has just arrived, every log is         *)
(* settled.                                                                *)
LEMMA SettledLogs ==
  ASSUME NEW d \in Docs, imp.phase \in {"idle", "recv"}
  PROVE  AllSettled[d] = oplog[d]
BY DEF AllSettled, Settled

(* A commit keeps the world as it should be.                               *)
LEMMA CloseTrue ==
  ASSUME OwnPeers, AInv, imp.phase \in {"idle", "recv"},
         NEW d \in Docs, NEW msg \in Msgs, NEW ts \in Times, CloseTx(d, msg, ts),
         NEW Z, Z = [e \in Docs |-> oplog'[e]]
  PROVE  World(Z) /\ \A e \in Docs : Kept(AllSettled[e], Z[e])
<1> DEFINE l == oplog[d]
           m == Closed(d, msg, ts)
<1>1. /\ \A e \in Docs : AllSettled[e] = oplog[e] /\ LogOK(oplog[e])
      /\ DOMAIN oplog = Docs /\ World(AllSettled)
  BY SettledLogs DEF AInv, IInv
<1>2. /\ LogOK(m) /\ Kept(l, m) /\ m.pending = l.pending
      /\ DOMAIN m.store = DOMAIN l.store \cup Uncommitted(d)
  BY ClosedOK DEF AInv
<1>3. Z[d] = m /\ \A e \in Docs \ {d} : Z[e] = oplog[e]
  BY <1>1 DEF CloseTx
<1> HIDE DEF m
<1>4. \A e \in Docs : Kept(AllSettled[e], Z[e]) /\ LogOK(Z[e])
  BY <1>1, <1>2, <1>3 DEF Kept
<1>5. \A k : TrueLog(AllSettled, k) => TrueLog(Z, k)
  BY <1>4, OriginalsStay
<1>6. \A e \in Docs : TrueLog(Z, oplog[e])
  BY <1>5 DEF AInv
<1>7. \A i \in Uncommitted(d) : i[1] = PeerOf[d]
  BY DEF Uncommitted
<1>8. Copies(Z, m)
  <2> SUFFICES ASSUME NEW i \in DOMAIN m.store PROVE Original(Z, i, m.store[i])
    BY DEF Copies
  <2>1. CASE i \in DOMAIN l.store
    <3>1. Original(Z, i, l.store[i])
      BY <1>6, <2>1 DEF TrueLog, Copies
    <3> QED BY <1>2, <2>1, <3>1 DEF Kept
  <2>2. CASE i \in Uncommitted(d)
    BY <1>3, <1>7, <2>2 DEF Original
  <2> QED BY <1>2, <2>1, <2>2
<1>9. \A e \in Docs : TrueLog(Z, Z[e])
  <2>1. TrueLog(Z, m)
    BY <1>2, <1>6, <1>8 DEF TrueLog
  <2> QED BY <1>3, <1>6, <2>1
<1>12. AllRise(l)
  <2>1. Copies(AllSettled, l) /\ LogOK(l)
    BY <1>1 DEF AInv, TrueLog
  <2> HIDE DEF l
  <2> QED BY <1>1, <2>1, CopiesRise
<1>10. ASSUME NEW i \in DOMAIN m.store, i[1] = PeerOf[d]
       PROVE  Exact(m, i) /\ Rises(m, i)
  <2>1. CASE i \in DOMAIN l.store
    <3>1. Exact(l, i) /\ Rises(l, i)
      BY <1>1, <1>10, <2>1 DEF World
    <3> QED BY <1>1, <1>2, <2>1, <3>1, ExactStays, RisesStays
  <2>2. CASE i \in Uncommitted(d) /\ tx[d].open /\ tx[d].start < tx[d].next
    <3> DEFINE c == TxChange(d, msg, ts)
    <3>1. /\ Fits(l, c) /\ c.deps = l.fr /\ c.lam = NextLamport(l, l.fr)
          /\ \A j \in l.fr : l.store[j].ts <= c.ts
          /\ IdsOf(c) = Uncommitted(d)
          /\ m = InsertLocal(l, c)
      BY <2>2, TxChangeFits DEF AInv, m
    <3> HIDE DEF c, l
    <3>2. LogOK(l)
      BY <1>1 DEF l
    <3>3. Exact(InsertLocal(l, c), i)
      BY <2>2, <3>1, <3>2, LocalExact
    <3>4. Rises(InsertLocal(l, c), i)
      BY <1>12, <2>2, <3>1, <3>2, LocalRises
    <3> QED BY <3>1, <3>3, <3>4
  <2>3. CASE ~(tx[d].open /\ tx[d].start < tx[d].next)
    <3>1. m = l
      BY <2>3 DEF Closed, m
    <3> QED BY <1>10, <2>1, <3>1
  <2> QED BY <1>2, <2>1, <2>2, <2>3
<1>11. ASSUME NEW e \in Docs, NEW i \in DOMAIN Z[e].store, i[1] = PeerOf[e]
       PROVE  Exact(Z[e], i) /\ Rises(Z[e], i)
  <2>1. CASE e = d
    BY <1>3, <1>10, <1>11, <2>1
  <2>2. CASE e # d
    BY <1>1, <1>3, <1>11, <2>2 DEF World
  <2> QED BY <2>1, <2>2
<1> QED BY <1>4, <1>9, <1>11 DEF World

(* A commit, and whatever it does to the import in flight, keeps the       *)
(* invariant once what is in flight afterwards is true.                    *)
LEMMA CommitTrue ==
  ASSUME OwnPeers, AInv, IInv', imp.phase \in {"idle", "recv"},
         NEW d \in Docs, NEW msg \in Msgs, NEW ts \in Times, CloseTx(d, msg, ts),
         \A e \in Docs : Settled(e)' = oplog'[e],
         imp'.phase # "idle" => InFlight([e \in Docs |-> oplog'[e]], imp')
  PROVE  AInv'
<1> DEFINE Z == [e \in Docs |-> oplog'[e]]
<1>1. World(Z)
  BY CloseTrue
<1>2. AllSettled' = Z
  BY DEF AllSettled
<1>3. \A e \in Docs : TrueLog(Z, oplog'[e])
  BY <1>1 DEF World
<1> HIDE DEF Z
<1>4. World(AllSettled') /\ \A e \in Docs : TrueLog(AllSettled', oplog'[e])
  BY <1>1, <1>2, <1>3
<1>5. imp'.phase # "idle" => InFlight(AllSettled', imp')
  BY <1>2 DEF Z
<1> QED BY <1>4, <1>5 DEF AInv

-----------------------------------------------------------------------------
(* The steps of an import.                                                 *)

(* n carries what m does.                                                  *)
SameFlight(m, n) ==
  n.blob = m.blob /\ n.order = m.order /\ n.waiting = m.waiting /\ n.todo = m.todo

(* What is in flight is what an import carries.                            *)
LEMMA InFlightStays ==
  ASSUME NEW S, NEW m, InFlight(S, m), NEW n, SameFlight(m, n)
  PROVE  InFlight(S, n)
BY DEF InFlight, SameFlight

(* Steps of an import leave the settled logs alone: the invariant is kept  *)
(* when the log they reach holds copies, and what they carry is true.      *)
LEMMA StepTrue ==
  ASSUME AInv, IInv', imp.phase \in Steps, imp'.phase \in Steps, SameImport(imp, imp'),
         \/ UNCHANGED oplog
         \/ \E l : oplog' = [oplog EXCEPT ![imp.doc] = l] /\ TrueLog(AllSettled, l),
         InFlight(AllSettled, imp')
  PROVE  AInv'
<1>1. imp.doc \in Docs /\ DOMAIN oplog = Docs
  BY InImport DEF AInv, IInv
<1>2. \A d \in Docs : d # imp.doc => oplog'[d] = oplog[d]
  BY <1>1
<1>3. \A d \in Docs : Settled(d)' = Settled(d)
  BY <1>2 DEF Settled, Steps, SameImport
<1>4. AllSettled' = AllSettled
  BY <1>3 DEF AllSettled
<1>5. \A d \in Docs : TrueLog(AllSettled, oplog'[d])
  BY <1>1 DEF AInv
<1> QED BY <1>4, <1>5 DEF AInv

(* What the invariant says of an import past its beginning.                *)
LEMMA InFlightNow ==
  ASSUME AInv, imp.phase \in Steps
  PROVE  /\ InFlight(AllSettled, imp) /\ World(AllSettled)
         /\ TrueLog(AllSettled, oplog[imp.doc])
         /\ ImportType(imp) /\ imp.doc \in Docs /\ IInv
         /\ LogOK(oplog[imp.doc]) /\ LogType(oplog[imp.doc])
BY InImport DEF AInv, Steps

(* A step that changes only the replay, the stack or the phase.            *)
LEMMA TurnTrue ==
  ASSUME AInv, IInv', imp.phase \in Steps, imp'.phase \in Steps, UNCHANGED oplog,
         SameImport(imp, imp'), SameFlight(imp, imp')
  PROVE  AInv'
<1>1. InFlight(AllSettled, imp')
  BY InFlightNow, InFlightStays
<1> QED BY <1>1, StepTrue

(* Steps that move an import on and apply nothing.                         *)
LEMMA TurnsTrue ==
  ASSUME AInv, IInv',
         CheckStep \/ MainDone \/ PendingDone \/ ParkDone
  PROVE  AInv'
<1>1. imp.phase \in Steps /\ UNCHANGED oplog
  BY DEF CheckStep, MainDone, PendingDone, ParkDone, Steps
<1>2. ImportType(imp)
  BY <1>1, InFlightNow
<1>3. CASE CheckStep
  <2>1. PICK x : imp' = [imp EXCEPT !.ends = x]
    BY <1>3 DEF CheckStep
  <2>2. imp'.phase = imp.phase /\ SameImport(imp, imp') /\ SameFlight(imp, imp')
    BY <1>2, <2>1 DEF ImportType, SameImport, SameFlight
  <2> QED BY <1>1, <2>2, TurnTrue
<1>5. CASE MainDone \/ PendingDone \/ ParkDone
  <2>1. PICK x \in Steps : imp' = [imp EXCEPT !.phase = x]
    BY <1>5 DEF MainDone, PendingDone, ParkDone, Steps
  <2>2. imp'.phase \in Steps /\ SameImport(imp, imp') /\ SameFlight(imp, imp')
    BY <1>2, <2>1 DEF ImportType, SameImport, SameFlight
  <2> QED BY <1>1, <2>2, TurnTrue
<1> QED BY <1>3, <1>5

(* The trimmed changes of a snapshot are true as well.                     *)
LEMMA CheckDoneTrue ==
  ASSUME AInv, IInv', CheckDone
  PROVE  AInv'
<1> DEFINE l == oplog[imp.doc]
           x == imp'.order
<1>1. imp.phase \in Steps /\ UNCHANGED oplog
  BY DEF CheckDone, Steps
<1>2. ImportType(imp) /\ LogType(l) /\ InFlight(AllSettled, imp)
  BY <1>1, InFlightNow
<1>3. LogOK(l) /\ imp.blob.changes \subseteq Change /\ IsFiniteSet(imp.blob.changes)
  BY <1>1, <1>2, InFlightNow DEF ImportType, Blob
<1>4. PICK y \in IF imp.blob.snapshot /\ ~imp.inPlace
                  THEN TrimmedOrders(l, imp.blob.changes) ELSE {imp.order} :
        imp' = [imp EXCEPT !.phase = "main", !.order = y]
  BY DEF CheckDone
<1>5. /\ imp'.phase = "main" /\ SameImport(imp, imp') /\ x = y
      /\ imp'.waiting = imp.waiting /\ imp'.todo = imp.todo
  BY <1>2, <1>4 DEF ImportType, SameImport
<1> HIDE DEF x, l
<1>8. ASSUME NEW i \in 1 .. Len(x) PROVE TrueChange(AllSettled, x[i])
  <2>1. CASE x = imp.order
    BY <1>2, <2>1 DEF InFlight
  <2>2. CASE x \in TrimmedOrders(l, imp.blob.changes)
    <3>1. PICK c \in imp.blob.changes : ~Known(l, c) /\ x[i] = TrimKnown(l, c)
      BY <1>3, <2>2, TrimmedSeq
    <3>2. TrueChange(AllSettled, c) /\ c \in Change
      BY <1>2, <1>3 DEF InFlight
    <3> QED BY <1>2, <3>1, <3>2, TrimmedTrue
  <2> QED BY <1>4, <1>5, <2>1, <2>2
<1>9. InFlight(AllSettled, imp')
  BY <1>2, <1>5, <1>8 DEF InFlight, SameImport, x
<1> QED BY <1>1, <1>5, <1>9, StepTrue DEF Steps

(* A change that is ready in the first pass starts at or below where its   *)
(* peer ends: the replay would have refused the blob otherwise, or it has  *)
(* its causes.                                                             *)
LEMMA ReadyStarts ==
  ASSUME IInv, imp.phase = "main", imp.idx <= Len(imp.order),
         NEW c, c = imp.order[imp.idx], ~Known(oplog[imp.doc], c),
         c.deps \subseteq {i \in DOMAIN oplog[imp.doc].store : Has(oplog[imp.doc], i)}
  PROVE  c \in Change /\ c.start <= oplog[imp.doc].vv[c.peer]
<1> DEFINE l == oplog[imp.doc]
           k == imp.idx
           e == imp.ends[k]
<1>1. ImportFits(imp, l, tx[imp.doc]) /\ ImportType(imp) /\ l.vv \in [Peers -> Nat]
  BY InImport DEF Steps
<1>2. /\ imp.order \in Seq(Change) /\ GoesThrough(imp, l) /\ k \in 1 .. Len(imp.order)
  BY <1>1 DEF ImportFits, ImportType, GoesThrough
<1>3. c \in Change
  BY <1>2
<1>4. CASE Trims(imp)
  <2>1. k \in k .. Len(imp.order) /\ k .. k - 1 = {}
    BY <1>2
  <2>2. \A j \in Causes(c) : Has(l, j)
    <3> HIDE DEF l
    <3> QED BY <1>2, <1>4, <2>1 DEF GoesThrough, CausesFirst
  <2> HIDE DEF l
  <2> QED BY <1>1, <1>3, <2>2, CausesHad DEF l
<1>5. CASE ~Trims(imp)
  <2>1. /\ Len(imp.ends) = Len(imp.order) + 1 /\ e = l.vv /\ Replays(imp.order, imp.ends)
        /\ k \in 1 .. Len(imp.ends) - 1
    BY <1>2, <1>5 DEF GoesThrough, FollowsReplay
  <2>2. ReadyAt(c, e) => c.start <= e[c.peer]
    <3> HIDE DEF k
    <3> QED BY <2>1 DEF Replays, k
  <2>3. ReadyAt(c, e)
    <3>1. c.peer \in Peers /\ c.end \in Nat
      BY <1>3 DEF Change
    <3> QED BY <1>1, <2>1, <3>1 DEF ReadyAt, Known, Has
  <2> QED BY <1>3, <2>1, <2>2, <2>3
<1> QED BY <1>4, <1>5

(* The first pass applies true changes, and sets true changes aside.       *)
LEMMA MainStepTrue ==
  ASSUME OwnPeers, AInv, IInv', MainStep
  PROVE  AInv'
<1> DEFINE l == oplog[imp.doc]
           c == imp.order[imp.idx]
           r == [c EXCEPT !.lam = NextLamport(l, c.deps)]
           next == [imp EXCEPT !.idx = @ + 1]
<1>1. imp.phase = "main" /\ imp.phase \in Steps /\ imp.idx <= Len(imp.order)
  BY DEF MainStep, Steps
<1>2. /\ InFlight(AllSettled, imp) /\ World(AllSettled) /\ TrueLog(AllSettled, l)
      /\ ImportType(imp) /\ IInv /\ LogOK(l)
  BY <1>1, InFlightNow
<1>3. imp.idx \in 1 .. Len(imp.order) /\ imp.idx \in Nat
  <2>1. imp.idx \in 1 .. Len(imp.order) + 1
    BY <1>1, <1>2, InImport DEF ImportFits, GoesThrough
  <2>2. Len(imp.order) \in Nat
    BY <1>2 DEF ImportType
  <2> QED BY <1>1, <2>1, <2>2
<1>4. c \in Change /\ TrueChange(AllSettled, c)
  BY <1>2, <1>3 DEF ImportType, InFlight
<1>5. /\ ImportType(next) /\ SameImport(imp, next) /\ next.phase = "main"
      /\ next.order = imp.order /\ next.todo = imp.todo /\ next.waiting = imp.waiting
  BY <1>1, <1>2, <1>3, SetIdx
<1>6. InFlight(AllSettled, next)
  BY <1>2, <1>5, InFlightStays DEF SameFlight, SameImport
<1> HIDE DEF next
<1>7. CASE imp' = next /\ UNCHANGED oplog
  BY <1>1, <1>5, <1>6, <1>7, StepTrue
<1>8. CASE /\ imp' = [next EXCEPT !.waiting = Append(@, c), !.stack = Append(@, LastID(c))]
           /\ UNCHANGED oplog
  <2> DEFINE w == Append(imp.waiting, c)
             n == [next EXCEPT !.waiting = w]
  <2>1. /\ w \in Seq(Change) /\ Len(w) = Len(imp.waiting) + 1 /\ Len(imp.waiting) \in Nat
        /\ w[Len(imp.waiting) + 1] = c /\ \A i \in 1 .. Len(imp.waiting) : w[i] = imp.waiting[i]
    <3>1. imp.waiting \in Seq(Change)
      BY <1>2 DEF ImportType
    <3> HIDE DEF c
    <3> QED BY <1>4, <3>1, AppendProperties
  <2> HIDE DEF w
  <2>2. /\ ImportType(n) /\ SameImport(next, n) /\ SameReplay(next, n) /\ n.phase = "main"
        /\ n.todo = next.todo /\ n.waiting = w
    BY <1>5, <2>1, SetWaiting
  <2>3. imp' = [n EXCEPT !.stack = Append(@, LastID(c))]
    BY <1>5, <1>8 DEF w
  <2> HIDE DEF n, c
  <2>4. /\ SameImport(n, imp') /\ SameReplay(n, imp') /\ imp'.phase = "main"
        /\ imp'.todo = n.todo /\ imp'.waiting = w
    BY <1>4, <2>2, <2>3, PushStack
  <2>5. \A i \in 1 .. Len(w) : TrueChange(AllSettled, w[i])
    <3> SUFFICES ASSUME NEW i \in 1 .. Len(w) PROVE TrueChange(AllSettled, w[i])
      OBVIOUS
    <3>1. i = Len(imp.waiting) + 1 \/ i \in 1 .. Len(imp.waiting)
      BY <2>1
    <3> QED BY <1>2, <1>4, <2>1, <3>1 DEF InFlight
  <2>6. InFlight(AllSettled, imp')
    BY <1>5, <1>6, <2>2, <2>4, <2>5 DEF InFlight, SameImport, SameReplay
  <2>7. SameImport(imp, imp')
    BY <1>5, <2>2, <2>4 DEF SameImport
  <2> QED BY <1>1, <1>8, <2>4, <2>6, <2>7, StepTrue
<1>9. CASE /\ ~Known(l, c)
           /\ c.deps \subseteq {i \in DOMAIN l.store : Has(l, i)}
           /\ ~InsertRefused(l, TrimKnown(l, r))
           /\ oplog' = [oplog EXCEPT ![imp.doc] = InsertRemote(l, TrimKnown(l, r))]
           /\ imp' = [next EXCEPT !.stack = Append(@, LastID(c))]
  <2>1. c.start <= l.vv[c.peer] /\ c.deps \subseteq DOMAIN l.store
    BY <1>1, <1>2, <1>9, ReadyStarts
  <2> DEFINE m == InsertRemote(l, TrimKnown(l, r))
  <2>2. TrueLog(AllSettled, m)
    <3> HIDE DEF l, c
    <3> QED BY <1>2, <1>4, <1>9, <2>1, AppliedTrue
  <2>3. oplog' = [oplog EXCEPT ![imp.doc] = m]
    BY <1>9
  <2> HIDE DEF m, c
  <2>4. /\ SameImport(next, imp') /\ SameReplay(next, imp') /\ imp'.phase = "main"
        /\ imp'.todo = next.todo /\ imp'.waiting = next.waiting
    BY <1>4, <1>5, <1>9, PushStack
  <2>5. InFlight(AllSettled, imp')
    BY <1>6, <2>4, InFlightStays DEF SameFlight, SameImport, SameReplay
  <2>6. SameImport(imp, imp')
    BY <1>5, <2>4 DEF SameImport
  <2> QED BY <1>1, <2>2, <2>3, <2>4, <2>5, <2>6, StepTrue
<1> QED BY <1>7, <1>8, <1>9 DEF MainStep, next

(* Taking the changes due out of the pending set.                          *)
LEMMA PendingPopTrue ==
  ASSUME AInv, IInv', PendingPop
  PROVE  AInv'
<1> DEFINE l == oplog[imp.doc]
           id == imp.stack[Len(imp.stack)]
           due == {e \in l.pending : e.missing[1] = id[1] /\ e.missing[2] <= id[2]}
           m == [l EXCEPT !.pending = l.pending \ due]
<1>1. imp.phase = "pending" /\ imp.phase \in Steps
  BY DEF PendingPop, Steps
<1>2. /\ InFlight(AllSettled, imp) /\ TrueLog(AllSettled, l)
      /\ ImportType(imp) /\ IInv /\ LogType(l) /\ imp.doc \in Docs
  BY <1>1, InFlightNow
<1>3. PICK x : imp' = [imp EXCEPT !.stack = x, !.todo = due]
  BY DEF PendingPop
<1>4. oplog' = [oplog EXCEPT ![imp.doc] = m]
  BY <1>2 DEF PendingPop, IInv
<1>5. m.store = l.store /\ m.pending \subseteq l.pending
  BY <1>2 DEF LogType
<1>6. due \subseteq l.pending
  OBVIOUS
<1> HIDE DEF due, m
<1>7. TrueLog(AllSettled, m)
  BY <1>2, <1>5 DEF TrueLog, Copies
<1>8. /\ imp'.phase = imp.phase /\ SameImport(imp, imp') /\ imp'.order = imp.order
      /\ imp'.waiting = imp.waiting /\ imp'.todo = due
  BY <1>2, <1>3 DEF ImportType, SameImport
<1>9. InFlight(AllSettled, imp')
  BY <1>2, <1>6, <1>8 DEF InFlight, SameImport, TrueLog
<1> QED BY <1>1, <1>4, <1>7, <1>8, <1>9, StepTrue

(* A true change tried again is dropped, waits or goes in as it is.        *)
LEMMA SettleTrue ==
  ASSUME OwnPeers, AInv, IInv', imp.phase \in {"pending", "park"},
         NEW c \in Change, TrueChange(AllSettled, c),
         NEW next, ImportType(next), SameImport(imp, next), next.phase = imp.phase,
         InFlight(AllSettled, next), Settle(c, next)
  PROVE  AInv'
<1> DEFINE l == oplog[imp.doc]
<1>1. imp.phase \in Steps
  BY DEF Steps
<1>2. /\ World(AllSettled) /\ TrueLog(AllSettled, l) /\ LogOK(l) /\ LogType(l)
      /\ imp.doc \in Docs
  BY <1>1, InFlightNow
<1>3. CASE imp' = next /\ UNCHANGED oplog
  BY <1>1, <1>3, StepTrue
<1>4. CASE /\ \E missing \in MissingFor(l, c) :
                oplog' = [oplog EXCEPT ![imp.doc] = Park(l, c, missing)]
           /\ imp' = next
  <2>1. PICK missing \in MissingFor(l, c) :
          oplog' = [oplog EXCEPT ![imp.doc] = Park(l, c, missing)]
    BY <1>4
  <2> DEFINE m == Park(l, c, missing)
             e == [missing |-> missing, ch |-> c]
  <2>2. e.ch = c
    OBVIOUS
  <2>3. m.store = l.store /\ m.pending = l.pending \cup {e}
    <3> HIDE DEF e
    <3> QED BY <1>2 DEF Park, LogType, e
  <2> HIDE DEF m, e, l
  <2>4. TrueLog(AllSettled, m)
    BY <1>2, <2>2, <2>3 DEF TrueLog, Copies
  <2>5. oplog' = [oplog EXCEPT ![imp.doc] = m]
    BY <2>1 DEF m, l
  <2> QED BY <1>1, <1>4, <2>4, <2>5, StepTrue
<1>5. CASE /\ ~Known(l, c)
           /\ MissingFor(l, c) = {}
           /\ ~InsertRefused(l, FromRemote(l, c))
           /\ oplog' = [oplog EXCEPT ![imp.doc] = InsertRemote(l, FromRemote(l, c))]
           /\ imp' = [next EXCEPT !.stack = Append(@, LastID(c))]
  <2> DEFINE r == [c EXCEPT !.lam = Larger(c.lam, NextLamport(l, c.deps))]
             m == InsertRemote(l, TrimKnown(l, r))
  <2>1. c.start <= l.vv[c.peer] /\ c.deps \subseteq DOMAIN l.store
    BY <1>2, <1>5, NoneMissing
  <2>2. FromRemote(l, c) = TrimKnown(l, r)
    BY DEF FromRemote
  <2>3. TrueLog(AllSettled, m)
    <3>1. ~InsertRefused(l, TrimKnown(l, r))
      BY <1>5, <2>2
    <3> HIDE DEF l
    <3> QED BY <1>2, <1>5, <2>1, <3>1, AppliedTrue DEF l
  <2>4. oplog' = [oplog EXCEPT ![imp.doc] = m]
    BY <1>5, <2>2
  <2> HIDE DEF m
  <2>5. /\ SameImport(next, imp') /\ SameReplay(next, imp') /\ imp'.phase = next.phase
        /\ imp'.todo = next.todo /\ imp'.waiting = next.waiting
    BY <1>5, PushStack
  <2>6. InFlight(AllSettled, imp')
    BY <2>5, InFlightStays DEF SameFlight, SameImport, SameReplay
  <2>7. SameImport(imp, imp')
    BY <2>5 DEF SameImport
  <2> QED BY <1>1, <2>3, <2>4, <2>5, <2>6, <2>7, StepTrue
<1> QED BY <1>3, <1>4, <1>5 DEF Settle

(* A pending change is tried again.                                        *)
LEMMA PendingTryTrue ==
  ASSUME OwnPeers, AInv, IInv', PendingTry
  PROVE  AInv'
<1>1. imp.phase = "pending" /\ imp.phase \in Steps
  BY DEF PendingTry, Steps
<1>2. ImportType(imp) /\ InFlight(AllSettled, imp)
  BY <1>1, InFlightNow
<1>3. PICK e \in imp.todo : Settle(e.ch, [imp EXCEPT !.todo = @ \ {e}])
  BY DEF PendingTry
<1> DEFINE x == imp.todo \ {e}
           n == [imp EXCEPT !.todo = x]
<1>4. x \in SUBSET Waiting /\ e.ch \in Change /\ TrueChange(AllSettled, e.ch)
  BY <1>2 DEF ImportType, Waiting, InFlight
<1>5. \A f \in x : f \in imp.todo
  OBVIOUS
<1>6. Settle(e.ch, n)
  BY <1>3
<1> HIDE DEF x
<1>7. /\ ImportType(n) /\ SameImport(imp, n) /\ SameReplay(imp, n) /\ n.phase = imp.phase
      /\ n.waiting = imp.waiting /\ n.todo = x
  BY <1>2, <1>4, SetTodo
<1> HIDE DEF n
<1>8. InFlight(AllSettled, n)
  BY <1>2, <1>5, <1>7 DEF InFlight, SameImport, SameReplay
<1> QED BY <1>1, <1>4, <1>6, <1>7, <1>8, SettleTrue

(* A change that was set aside is tried again.                             *)
LEMMA ParkStepTrue ==
  ASSUME OwnPeers, AInv, IInv', ParkStep
  PROVE  AInv'
<1> DEFINE x == Tail(imp.waiting)
           n == [imp EXCEPT !.waiting = x]
           c == Head(imp.waiting)
<1>1. imp.phase = "park" /\ imp.phase \in Steps
  BY DEF ParkStep, Steps
<1>2. ImportType(imp) /\ InFlight(AllSettled, imp)
  BY <1>1, InFlightNow
<1>3. imp.waiting \in Seq(Change) /\ imp.waiting # <<>>
  BY <1>2 DEF ImportType, ParkStep
<1>4. /\ x \in Seq(Change) /\ c \in Change /\ c = imp.waiting[1]
      /\ Len(x) = Len(imp.waiting) - 1 /\ \A i \in 1 .. Len(x) : x[i] = imp.waiting[i + 1]
      /\ Len(imp.waiting) \in Nat /\ Len(imp.waiting) > 0
  BY <1>3, HeadTailProperties
<1>5. Settle(c, n)
  BY DEF ParkStep
<1> HIDE DEF x, c
<1>6. /\ ImportType(n) /\ SameImport(imp, n) /\ SameReplay(imp, n) /\ n.phase = imp.phase
      /\ n.waiting = x /\ n.todo = imp.todo
  BY <1>2, <1>4, SetWaiting
<1> HIDE DEF n
<1>7. TrueChange(AllSettled, c)
  BY <1>2, <1>4 DEF InFlight
<1>8. ASSUME NEW i \in 1 .. Len(x) PROVE TrueChange(AllSettled, x[i])
  <2>1. x[i] = imp.waiting[i + 1]
    BY <1>4
  <2>2. i + 1 \in 1 .. Len(imp.waiting)
    <3> DEFINE n1 == Len(imp.waiting)
    <3>1. n1 \in Nat /\ i \in 1 .. n1 - 1
      BY <1>4
    <3> HIDE DEF n1
    <3>2. i + 1 \in 1 .. n1
      BY <3>1
    <3> QED BY <3>2 DEF n1
  <2> QED BY <1>2, <2>1, <2>2 DEF InFlight
<1>9. InFlight(AllSettled, n)
  BY <1>2, <1>6, <1>8 DEF InFlight, SameImport, SameReplay
<1> QED BY <1>1, <1>4, <1>5, <1>6, <1>7, <1>9, SettleTrue

(* The end of an import: what it reached is settled, and every operation   *)
(* it brought is as exact as the original.                                 *)
LEMMA FinishTrue ==
  ASSUME OwnPeers, AInv, IInv', Finish
  PROVE  AInv'
<1> DEFINE l == oplog[imp.doc]
           Z == [e \in Docs |-> oplog[e]]
<1>1. imp.phase = "build" /\ imp.phase \in Steps /\ imp' = Idle("ok")
  BY DEF Finish, Steps
<1>2. /\ ImportFits(imp, l, tx[imp.doc]) /\ imp.doc \in Docs /\ LogOK(l)
      /\ World(AllSettled)
  BY <1>1, InImport, InFlightNow DEF AInv
<1>3. \A e \in Docs : oplog'[e] = oplog[e]
  BY FinishMovesNothing DEF AInv
<1>4. AllSettled' = Z
  BY <1>1, <1>3 DEF AllSettled, Settled, Idle
<1>5. ASSUME NEW e \in Docs
      PROVE  /\ Z[e] = oplog[e] /\ LogOK(Z[e]) /\ Kept(AllSettled[e], Z[e])
             /\ TrueLog(AllSettled, oplog[e])
  <2>1. e # imp.doc => AllSettled[e] = oplog[e]
    BY DEF AllSettled, Settled
  <2>2. AllSettled[imp.doc] = imp.saved
    BY <1>1, <1>2 DEF AllSettled, Settled
  <2>3. Kept(imp.saved, l) /\ Kept(oplog[e], oplog[e])
    BY <1>1, <1>2 DEF ImportFits, Kept
  <2> QED BY <2>1, <2>2, <2>3 DEF AInv, IInv
<1>6. \A e \in Docs : TrueLog(Z, oplog[e])
  <2> HIDE DEF Z
  <2> QED BY <1>5, OriginalsStay
<1>7. ASSUME NEW e \in Docs, NEW i \in DOMAIN oplog[e].store
      PROVE  Exact(oplog[e], i) /\ Rises(oplog[e], i)
  <2>1. LogOK(oplog[e]) /\ Copies(AllSettled, oplog[e])
    BY <1>5 DEF TrueLog
  <2>2. AllRise(oplog[e])
    BY <1>2, <2>1, CopiesRise
  <2> QED BY <1>2, <2>1, <2>2, CopiesExact DEF AllRise
<1> HIDE DEF Z
<1>8. World(Z)
  BY <1>5, <1>6, <1>7 DEF World
<1>9. imp'.phase = "idle"
  BY <1>1 DEF Idle
<1> QED BY <1>3, <1>4, <1>6, <1>8, <1>9 DEF AInv

(* A refused import leaves every settled log as it was.                    *)
LEMMA RefusedTrue ==
  ASSUME AInv, IInv',
         CheckRefuses \/ MainRefuses \/ PendingRefuses \/ ParkRefuses \/ BuildRefuses
  PROVE  AInv'
<1>1. imp.phase \in Steps /\ Refuse
  BY DEF CheckRefuses, MainRefuses, PendingRefuses, ParkRefuses, BuildRefuses, Steps
<1>2. imp.doc \in Docs /\ DOMAIN oplog = Docs /\ World(AllSettled)
  BY <1>1, InImport DEF AInv, IInv
<1>3. imp'.phase = "idle" /\ oplog' = [oplog EXCEPT ![imp.doc] = imp.saved]
  BY <1>1 DEF Refuse, Idle
<1>4. \A d \in Docs : Settled(d)' = Settled(d) /\ oplog'[d] = Settled(d)
  BY <1>1, <1>2, <1>3 DEF Settled, Steps
<1>5. AllSettled' = AllSettled /\ \A d \in Docs : oplog'[d] = AllSettled[d]
  BY <1>4 DEF AllSettled
<1>6. \A d \in Docs : TrueLog(AllSettled, oplog'[d])
  BY <1>2, <1>5 DEF World
<1> QED BY <1>2, <1>3, <1>5, <1>6 DEF AInv

(* The beginning of an import, which commits the open transaction.         *)
LEMMA ImportBeginTrue ==
  ASSUME OwnPeers, AInv, IInv', NEW ts \in Times, ImportBegin(ts)
  PROVE  AInv'
<1> DEFINE l == oplog'[imp.doc]
           Z == [e \in Docs |-> oplog'[e]]
           changes == imp.blob.changes
<1>1. imp.phase = "recv" /\ CloseTx(imp.doc, NoMsg, ts) /\ NoMsg \in Msgs
  BY ConstantsAssumption DEF ImportBegin
<1>2. ImportType(imp) /\ InFlight(AllSettled, imp) /\ ImportFits(imp, oplog[imp.doc], tx[imp.doc])
  BY <1>1 DEF AInv, IInv, ImportFits
<1>3. imp.doc \in Docs /\ imp.blob \in Blob
  BY <1>2 DEF ImportType
<1>4. PICK order \in SortedByLamport(changes), inPlace \in BOOLEAN :
        imp' = [imp EXCEPT !.phase = "check", !.order = order, !.saved = l,
                           !.ends = <<l.vv>>, !.inPlace = inPlace]
  BY DEF ImportBegin
<1>5. \A i \in 1 .. Len(order) : order[i] \in changes
  <2>1. changes \subseteq Change /\ IsFiniteSet(changes)
    BY <1>3 DEF Blob
  <2> HIDE DEF changes
  <2> QED BY <2>1, SortedSeq
<1> HIDE DEF l
<1>6. /\ imp'.phase = "check" /\ imp'.doc = imp.doc /\ imp'.blob = imp.blob
      /\ imp'.order = order /\ imp'.saved = l /\ imp'.waiting = imp.waiting
      /\ imp'.todo = imp.todo
  BY <1>2, <1>4 DEF ImportType
<1>7. \A e \in Docs : Settled(e)' = oplog'[e]
  BY <1>6 DEF Settled, l
<1>8. \A c : TrueChange(AllSettled, c) => TrueChange(Z, c)
  <2>1. World(Z) /\ \A e \in Docs : Kept(AllSettled[e], Z[e])
    BY <1>1, <1>3, CloseTrue
  <2> HIDE DEF Z
  <2> QED BY <2>1, OriginalsStay
<1> HIDE DEF Z
<1>9. InFlight(Z, imp')
  BY <1>2, <1>5, <1>6, <1>8 DEF InFlight
<1> QED BY <1>1, <1>3, <1>7, <1>9, CommitTrue DEF Z

-----------------------------------------------------------------------------
(* What the documents do between imports.                                  *)

(* A step that changes no log and no import.                               *)
LEMMA NothingMoves ==
  ASSUME AInv, IInv', UNCHANGED <<oplog, imp>>
  PROVE  AInv'
<1>1. AllSettled' = AllSettled
  BY DEF AllSettled, Settled
<1> QED BY <1>1 DEF AInv

(* A commit adds originals to its author's log alone.                      *)
LEMMA CommitWithTrue ==
  ASSUME OwnPeers, AInv, IInv', NEW d \in Docs, NEW msg \in Msgs, NEW ts \in Times,
         CommitWith(d, msg, ts)
  PROVE  AInv'
<1>1. imp.phase = "idle" /\ CloseTx(d, msg, ts) /\ imp' = imp
  BY DEF CommitWith
<1>2. \A e \in Docs : Settled(e)' = oplog'[e]
  BY <1>1 DEF Settled
<1> QED BY <1>1, <1>2, CommitTrue

(* An export commits, and what it writes is true.                          *)
LEMMA DeliverTrue ==
  ASSUME OwnPeers, AInv, IInv', imp.phase = "idle", NEW s \in Docs, NEW d \in Docs,
         NEW ts \in Times, CloseTx(s, NoMsg, ts), NEW blob, Deliver(d, blob),
         NEW l, l = Closed(s, NoMsg, ts),
         \A c \in blob.changes : \E p \in Peers, from, to \in Nat :
           to <= l.vv[p] /\ c \in ChangesIn(l.store, p, from, to),
         blob.snapshot => blob.changes = UNION {ChangesIn(l.store, p, 0, l.vv[p]) : p \in Peers}
  PROVE  AInv'
<1> DEFINE Z == [e \in Docs |-> oplog'[e]]
<1>1. NoMsg \in Msgs
  BY ConstantsAssumption
<1>2. oplog'[s] = l
  BY DEF AInv, IInv, CloseTx
<1>3. /\ imp'.phase = "recv" /\ imp'.blob = blob
      /\ imp'.order = <<>> /\ imp'.waiting = <<>> /\ imp'.todo = {}
  BY DEF Deliver
<1>4. \A e \in Docs : Settled(e)' = oplog'[e]
  BY <1>3 DEF Settled
<1>5. World(Z) /\ Z[s] = l
  BY <1>1, <1>2, CloseTrue
<1> HIDE DEF Z
<1>6. LogOK(l) /\ Copies(Z, l)
  BY <1>5 DEF World, TrueLog
<1>7. ASSUME NEW c \in blob.changes PROVE TrueChange(Z, c)
  <2>1. PICK p \in Peers, from \in Nat, to \in Nat :
          to <= l.vv[p] /\ c \in ChangesIn(l.store, p, from, to)
    OBVIOUS
  <2> QED BY <1>5, <1>6, <2>1, ExportTrue
<1>9. blob.snapshot => InOrder(blob)
  <2>1. AllRise(l) /\ \A i \in DOMAIN l.store : Exact(l, i)
    BY <1>5, <1>6, CopiesExact, CopiesRise
  <2> QED BY <1>6, <2>1, SnapshotInOrder
<1>8. InFlight(Z, imp')
  <2>1. 1 .. Len(<<>>) = {}
    OBVIOUS
  <2> QED BY <1>3, <1>7, <1>9, <2>1 DEF InFlight
<1> QED BY <1>1, <1>4, <1>8, CommitTrue DEF Z

(* Updates are cut out of copies of the originals.                         *)
LEMMA ExportRangeTrue ==
  ASSUME OwnPeers, AInv, IInv', NEW s \in Docs, NEW d \in Docs, NEW r \in Ranges,
         NEW ts \in Times, ExportRange(s, d, r, ts)
  PROVE  AInv'
<1> DEFINE l == Closed(s, NoMsg, ts)
           changes == UNION {ChangesIn(l.store, p, r[p][1], r[p][2]) : p \in Peers}
           blob == [changes |-> changes, snapshot |-> FALSE, fr |-> {}]
<1>1. /\ imp.phase = "idle" /\ CloseTx(s, NoMsg, ts) /\ Deliver(d, blob)
      /\ \A p \in Peers : r[p][2] <= l.vv[p]
  BY DEF ExportRange
<1>2. \A p \in Peers : r[p][1] \in Nat /\ r[p][2] \in Nat
  BY ConstantsAssumption DEF Ranges
<1>3. blob.changes = changes /\ ~blob.snapshot
  OBVIOUS
<1> HIDE DEF l, blob
<1>4. \A c \in blob.changes : \E p \in Peers, from, to \in Nat :
        to <= l.vv[p] /\ c \in ChangesIn(l.store, p, from, to)
  <2> SUFFICES ASSUME NEW c \in changes
               PROVE  \E p \in Peers, from, to \in Nat :
                        to <= l.vv[p] /\ c \in ChangesIn(l.store, p, from, to)
    BY <1>3
  <2>1. PICK p \in Peers : c \in ChangesIn(l.store, p, r[p][1], r[p][2])
    OBVIOUS
  <2> QED BY <1>1, <1>2, <2>1
<1> QED BY <1>1, <1>3, <1>4, DeliverTrue DEF l

(* So is a snapshot.                                                       *)
LEMMA ExportSnapshotTrue ==
  ASSUME OwnPeers, AInv, IInv', NEW s \in Docs, NEW d \in Docs, NEW ts \in Times,
         ExportSnapshot(s, d, ts)
  PROVE  AInv'
<1> DEFINE l == Closed(s, NoMsg, ts)
           changes == UNION {ChangesIn(l.store, p, 0, l.vv[p]) : p \in Peers}
           blob == [changes |-> changes, snapshot |-> TRUE, fr |-> l.fr]
<1>1. imp.phase = "idle" /\ CloseTx(s, NoMsg, ts) /\ Deliver(d, blob)
  BY DEF ExportSnapshot
<1>2. \A p \in Peers : l.vv[p] \in Nat /\ l.vv[p] <= l.vv[p]
  <2>1. LogOK(l)
    BY ConstantsAssumption, ClosedOK DEF AInv
  <2> QED BY <2>1 DEF LogOK, LogType
<1>3. blob.changes = changes
  OBVIOUS
<1> HIDE DEF l, blob
<1>4. \A c \in blob.changes : \E p \in Peers, from, to \in Nat :
        to <= l.vv[p] /\ c \in ChangesIn(l.store, p, from, to)
  <2> SUFFICES ASSUME NEW c \in changes
               PROVE  \E p \in Peers, from, to \in Nat :
                        to <= l.vv[p] /\ c \in ChangesIn(l.store, p, from, to)
    BY <1>3
  <2>1. PICK p \in Peers : c \in ChangesIn(l.store, p, 0, l.vv[p])
    OBVIOUS
  <2> QED BY <1>2, <2>1
<1> QED BY <1>1, <1>3, <1>4, DeliverTrue DEF l

-----------------------------------------------------------------------------
(* There is nothing to agree on at first.                                  *)
LEMMA InitAgrees ==
  ASSUME Init
  PROVE  AInv
<1>1. IInv
  BY InitInv
<1>2. imp.phase = "idle" /\ \A d \in Docs : oplog[d] = EmptyLog
  BY DEF Init, Idle
<1>3. DOMAIN EmptyLog.store = {} /\ EmptyLog.pending = {}
  BY DEF EmptyLog
<1>4. \A S : TrueLog(S, EmptyLog)
  BY <1>3 DEF TrueLog, Copies
<1>5. \A d \in Docs : AllSettled[d] = EmptyLog /\ LogOK(EmptyLog)
  BY <1>1, <1>2, SettledLogs DEF IInv
<1>6. World(AllSettled)
  BY <1>3, <1>4, <1>5 DEF World
<1> QED BY <1>1, <1>2, <1>4, <1>6 DEF AInv

(* Every step of an import keeps the agreement ...                         *)
LEMMA ImportStepAgrees ==
  ASSUME OwnPeers, AInv, IInv', ImportStep
  PROVE  AInv'
<1>1. CASE \E ts \in Times : ImportBegin(ts)
  BY <1>1, ImportBeginTrue
<1>2. CASE CheckStep \/ MainDone \/ PendingDone \/ ParkDone
  BY <1>2, TurnsTrue
<1>9. CASE CheckDone
  BY <1>9, CheckDoneTrue
<1>3. CASE MainStep
  BY <1>3, MainStepTrue
<1>4. CASE PendingPop
  BY <1>4, PendingPopTrue
<1>5. CASE PendingTry
  BY <1>5, PendingTryTrue
<1>6. CASE ParkStep
  BY <1>6, ParkStepTrue
<1>7. CASE Finish
  BY <1>7, FinishTrue
<1>8. CASE CheckRefuses \/ MainRefuses \/ PendingRefuses \/ ParkRefuses \/ BuildRefuses
  BY <1>8, RefusedTrue
<1> QED BY <1>1, <1>2, <1>3, <1>4, <1>5, <1>6, <1>7, <1>8, <1>9 DEF ImportStep

(* ... and so does every step of the documents.                            *)
LEMMA NextAgrees ==
  ASSUME OwnPeers, NoOthers, AInv, [Next]_vars
  PROVE  AInv'
<1>8. SnapshotsInOrder
  BY DEF AInv, InFlight, SnapshotsInOrder
<1>1. IInv'
  BY <1>8, NextInv DEF NoOthers, SnapshotsWhole, AInv
<1>2. CASE \E d \in Docs : Edit(d) \/ RefusedEdit(d)
  <2>1. UNCHANGED <<oplog, imp>>
    BY <1>2 DEF Edit, RefusedEdit
  <2> QED BY <1>1, <2>1, NothingMoves
<1>3. CASE \E d \in Docs, msg \in Msgs, ts \in Times : CommitWith(d, msg, ts)
  BY <1>1, <1>3, CommitWithTrue
<1>4. CASE \E s, d \in Docs, ts \in Times : \E r \in Ranges : ExportRange(s, d, r, ts)
  BY <1>1, <1>4, ExportRangeTrue
<1>5. CASE \E s, d \in Docs, ts \in Times : ExportSnapshot(s, d, ts)
  BY <1>1, <1>5, ExportSnapshotTrue
<1>6. CASE ImportStep
  BY <1>1, <1>6, ImportStepAgrees
<1>7. CASE UNCHANGED vars
  BY <1>1, <1>7, NothingMoves DEF vars
<1> QED BY <1>2, <1>3, <1>4, <1>5, <1>6, <1>7 DEF Next, NoOthers

(* The inductive invariant of documents with peer ids of their own: every  *)
(* operation in a log, in its pending set or in an import on its way is    *)
(* the one its author committed (insertRemote, applyRemote, splitChange).  *)
THEOREM AgreementInductive ==
  ASSUME OwnPeers, NoOthers
  PROVE  Spec => []AInv
<1>1. Init => AInv
  BY InitAgrees
<1>2. AInv /\ [Next]_vars => AInv'
  BY NextAgrees
<1> QED BY <1>1, <1>2, PTL DEF Spec

-----------------------------------------------------------------------------
(* Documents that exchange their own updates and snapshots, of any history *)
(* and in any order, never get a hole or an op before what it depends on,  *)
(* keep their heads as frontiers and lose no op of a blob: a snapshot of a *)
(* history keeps causes first when it is trimmed and sorted again          *)
(* (snapshotChanges, importChanges).                                       *)
THEOREM OwnBlobsKeepHistories ==
  ASSUME OwnPeers, NoOthers
  PROVE  Spec => [](Contiguous /\ CausallyClosed /\ FrontierIsMaximal /\ NothingLost)
<1>1. AInv => Contiguous /\ CausallyClosed /\ FrontierIsMaximal /\ NothingLost
  BY InvHolds DEF AInv
<1> QED BY <1>1, AgreementInductive, PTL

(* Whatever way an operation came - committed, cut by an export, trimmed   *)
(* by an import, released from the pending set, merged into the change     *)
(* before it - two documents that have it have the same.                   *)
THEOREM LogsAgree ==
  ASSUME OwnPeers, NoOthers
  PROVE  Spec => []AtomsAgree
<1>1. AInv => AtomsAgree
  BY AInvHolds
<1> QED BY <1>1, AgreementInductive, PTL

(* No operation is older than one it depends on, whatever the clocks of    *)
(* the documents and the timestamps asked of a commit (txn.go commit).     *)
THEOREM TimestampsOrdered ==
  ASSUME OwnPeers, NoOthers
  PROVE  Spec => []TimestampsGrow
<1>1. AInv => TimestampsGrow
  BY AInvHolds
<1> QED BY <1>1, AgreementInductive, PTL

=============================================================================
