------------------------------- MODULE OpLog -------------------------------
(***************************************************************************)
(* The history of a Document and how documents exchange it: the open       *)
(* transaction (loro/txn.go), the operation log and its pending changes    *)
(* (loro/oplog.go), the frontiers as a set (loro/frontiers.go), Import     *)
(* (loro/document.go) and the exports of a part of the history             *)
(* (loro/export_from.go).                                                  *)
(*                                                                         *)
(* An operation is an atom: its id is <<peer, counter>>.  What it writes   *)
(* is abstracted to `by', the writer that made it: two atoms of one id are *)
(* the same operation iff they have one writer.  The store maps ids to     *)
(* atoms; the changes the code keeps are the maximal runs of joined atoms. *)
(*                                                                         *)
(* An import runs under the document's mutex and touches no other          *)
(* document, so every other action waits while one runs (imp.phase).       *)
(*                                                                         *)
(* A definition whose comment starts with "Variant:" is not the code: it   *)
(* is the definition after it with a plausible bug, which shows that the   *)
(* named property depends on the code being as it is.                      *)
(***************************************************************************)
EXTENDS Integers, Sequences, FiniteSets

CONSTANTS
  Docs,           \* the documents
  Peers,          \* peer ids
  PeerOf,         \* the peer id of a document; two may share one
  Writers,        \* who may have made an operation: documents and others
  Msgs, NoMsg,    \* commit messages, and the empty one
  Times,          \* the timestamps a commit may ask for or read
  MergeInterval,  \* Document.mergeInterval
  Budget,         \* bound: local ops of peer p have counters below Budget[p]
  MaxCounter,     \* bound: the highest counter a range of an export ends at
  LamportLimit,   \* math.MaxUint32
  Snapshots,      \* whether documents exchange snapshots as well
  Foreign,        \* blobs that no document here exported
  BadOps          \* ids whose position lies past what their author saw

ID == Peers \X Nat

ASSUME ConstantsAssumption ==
  /\ PeerOf \in [Docs -> Peers]
  /\ Docs \subseteq Writers
  /\ NoMsg \in Msgs
  /\ Times \subseteq Nat
  /\ MergeInterval \in Nat
  /\ Budget \in [Peers -> Nat]
  /\ MaxCounter \in Nat
  /\ LamportLimit \in Nat
  /\ BadOps \subseteq ID
  /\ Snapshots \in BOOLEAN
  /\ IsFiniteSet(Peers)

VARIABLES
  oplog,  \* Document.log: [store, vv, fr, pending]
  tx,     \* Document.tx
  st,     \* Document.st: the ids whose operations the state shows
  imp     \* the import in progress, or the outcome of the last one

vars == <<oplog, tx, st, imp>>

-----------------------------------------------------------------------------
(* Atoms and changes.                                                      *)

Highest(S) == CHOOSE n \in S : \A m \in S : m <= n

Larger(a, b) == IF a > b THEN a ELSE b

(* A change: the counters start..end-1 of a peer.                          *)
LastID(c) == <<c.peer, c.end - 1>>

IdsOf(c) == {c.peer} \X (c.start .. c.end - 1)

(* Variant: the first atom too depends on the one before it (TypeOK).      *)
ChainDeps(c, k) == {<<c.peer, k - 1>>}

(* What the atom of a change at counter k depends on: the change's deps    *)
(* for its first atom, the atom before it for any other.                   *)
DepsAt(c, k) == IF k = c.start THEN c.deps ELSE {<<c.peer, k - 1>>}

AtomsOf(c) ==
  [i \in IdsOf(c) |->
     [deps |-> DepsAt(c, i[2]), lam |-> c.lam + (i[2] - c.start),
      ts |-> c.ts, msg |-> c.msg, by |-> c.by]]

(* Variant: the part keeps the deps of the whole change (AtomsAgree).      *)
CutKeepsDeps(c, k) == [c EXCEPT !.start = k, !.lam = c.lam + (k - c.start)]

(* Variant: the part starts at the lamport of the whole (NeverRefused).    *)
CutKeepsLamport(c, k) == [c EXCEPT !.start = k, !.deps = DepsAt(c, k)]

(* The part of a change from counter k on: a part that starts past the     *)
(* change's first atom depends only on the atom before it.                 *)
CutFrom(c, k) ==
  [c EXCEPT !.start = k, !.lam = c.lam + (k - c.start), !.deps = DepsAt(c, k)]

(* Whether the atom after i on its peer is in one change with it.          *)
Joined(store, i) ==
  LET prev == <<i[1], i[2] - 1>>
  IN  /\ prev \in DOMAIN store
      /\ store[i].deps = {prev}
      /\ store[i].ts = store[prev].ts
      /\ store[i].msg = store[prev].msg
      /\ store[i].by = store[prev].by

(* Variant: a change the range starts inside of is left out (Convergence). *)
WholeRuns(store, p, lo, hi) ==
  {r \in (lo .. hi) \X (lo .. hi) :
     /\ r[1] < r[2]
     /\ ~Joined(store, <<p, r[1]>>)
     /\ r[2] = hi \/ ~Joined(store, <<p, r[2]>>)
     /\ \A k \in r[1] + 1 .. r[2] - 1 : Joined(store, <<p, k>>)}

(* The store's changes within the counters lo..hi-1 of peer p, cut where   *)
(* the range ends.                                                         *)
Runs(store, p, lo, hi) ==
  {r \in (lo .. hi) \X (lo .. hi) :
     /\ r[1] < r[2]
     /\ r[1] = lo \/ ~Joined(store, <<p, r[1]>>)
     /\ r[2] = hi \/ ~Joined(store, <<p, r[2]>>)
     /\ \A k \in r[1] + 1 .. r[2] - 1 : Joined(store, <<p, k>>)}

(* The changes an export writes for these counters.                        *)
ChangesIn(store, p, lo, hi) ==
  {[peer |-> p, start |-> r[1], end |-> r[2],
    deps |-> store[<<p, r[1]>>].deps, lam |-> store[<<p, r[1]>>].lam,
    ts |-> store[<<p, r[1]>>].ts, msg |-> store[<<p, r[1]>>].msg,
    by |-> store[<<p, r[1]>>].by] : r \in Runs(store, p, lo, hi)}

-----------------------------------------------------------------------------
(* The log.                                                                *)

EmptyLog == [store |-> [i \in {} |-> 0], vv |-> [p \in Peers |-> 0], fr |-> {}, pending |-> {}]

Has(l, i) == i[2] < l.vv[i[1]]

(* Variant: not past it (LamportAboveDeps).                                *)
HighestLamport(l, ids) ==
  Highest({0} \cup {l.store[i].lam : i \in ids \cap DOMAIN l.store})

(* One past the highest lamport among the ids; 0 for none.                 *)
NextLamport(l, ids) ==
  Highest({0} \cup {l.store[i].lam + 1 : i \in ids \cap DOMAIN l.store})

GreatestTimestamp(l, ids) ==
  Highest({0} \cup {l.store[i].ts : i \in ids \cap DOMAIN l.store})

(* Whether the stored change that ends where c starts takes c in.          *)
CanMergeRight(store, c, interval) ==
  LET last == <<c.peer, c.start - 1>>
  IN  /\ last \in DOMAIN store
      /\ \E i \in c.deps : c.deps = {i} /\ i[1] = c.peer
      /\ c.ts - store[last].ts <= interval
      /\ c.msg = store[last].msg

(* A change merged into another keeps the other's timestamp, continues its *)
(* lamports and depends on its last atom.                                  *)
Merged(store, c) ==
  LET last == <<c.peer, c.start - 1>>
  IN  [c EXCEPT !.deps = {last}, !.lam = store[last].lam + 1, !.ts = store[last].ts]

Stored(store, c, interval) ==
  LET new == AtomsOf(IF CanMergeRight(store, c, interval) THEN Merged(store, c) ELSE c)
  IN  [i \in DOMAIN store \cup DOMAIN new |->
         IF i \in DOMAIN new THEN new[i] ELSE store[i]]

(* Variant: the deps stay (FrontierIsMaximal).                             *)
FrontiersKeepDeps(fr, last, deps) == {i \in fr : i[1] # last[1]} \cup {last}

(* The frontiers after a change: its deps leave, its last op enters unless *)
(* a later op of its peer is listed.                                       *)
UpdateFrontiers(fr, last, deps) ==
  LET rest == fr \ deps
  IN  IF \E i \in rest : i[1] = last[1] /\ i[2] >= last[2]
      THEN rest
      ELSE {i \in rest : i[1] # last[1]} \cup {last}

InsertLocal(l, c) ==
  [l EXCEPT !.store = Stored(l.store, c, MergeInterval),
            !.vv[c.peer] = c.end,
            !.fr = {LastID(c)}]

InsertRemote(l, c) ==
  [l EXCEPT !.store = Stored(l.store, c, 0),
            !.vv[c.peer] = c.end,
            !.fr = UpdateFrontiers(l.fr, LastID(c), c.deps)]

(* A change that continues its own peer must continue its lamports, and no *)
(* lamport may pass the limit.                                             *)
InsertRefused(l, c) ==
  \/ \E i \in c.deps \cap DOMAIN l.store :
        c.deps = {i} /\ i[1] = c.peer /\ c.lam # l.store[i].lam + 1
  \/ c.lam + (c.end - c.start) > LamportLimit

(* Variant: a change of which a part is known is skipped (NothingLost).    *)
PartlyKnown(l, c) == c.start < l.vv[c.peer]

Known(l, c) == c.end <= l.vv[c.peer]

(* Variant: nothing is trimmed (HistoryKept).                              *)
NotTrimmed(l, c) == c

(* The part of a change not applied yet.                                   *)
TrimKnown(l, c) == IF c.start >= l.vv[c.peer] THEN c ELSE CutFrom(c, l.vv[c.peer])

(* Variant: only the change's own peer is looked at (CausallyClosed).      *)
MissingOwn(l, c) ==
  IF l.vv[c.peer] < c.start THEN {<<c.peer, c.start - 1>>} ELSE {}

(* Variant: only the deps are looked at (Contiguous).                      *)
MissingDeps(l, c) == {i \in c.deps : ~Has(l, i)}

(* The ops a change may be filed under: the one before it on its own peer, *)
(* and when that is there any dep that is not; the code takes the first    *)
(* one in the order a hash table gives.                                    *)
MissingFor(l, c) ==
  IF l.vv[c.peer] < c.start
  THEN {<<c.peer, c.start - 1>>}
  ELSE {i \in c.deps : ~Has(l, i)}

Park(l, c, missing) == [l EXCEPT !.pending = @ \cup {[missing |-> missing, ch |-> c]}]

-----------------------------------------------------------------------------
(* Types.                                                                  *)

Change ==
  {c \in [peer : Peers, start : Nat, end : Nat, deps : SUBSET ID, lam : Nat,
          ts : Nat, msg : Msgs, by : Writers] :
     c.start < c.end /\ IsFiniteSet(c.deps)}

Atom ==
  {a \in [deps : SUBSET ID, lam : Nat, ts : Nat, msg : Msgs, by : Writers] :
     IsFiniteSet(a.deps)}

Blob ==
  {b \in [changes : SUBSET Change, snapshot : BOOLEAN, fr : SUBSET ID] :
     IsFiniteSet(b.changes) /\ IsFiniteSet(b.fr)}

Waiting == [missing : ID, ch : Change]

LogType(l) ==
  /\ l \in [store : {l.store}, vv : [Peers -> Nat], fr : SUBSET ID, pending : SUBSET Waiting]
  /\ l.store \in [DOMAIN l.store -> Atom]
  /\ DOMAIN l.store \subseteq ID
  /\ IsFiniteSet(l.fr)

Transaction ==
  [open : BOOLEAN, start : Nat, next : Nat, lam : Nat, deps : SUBSET ID, ts : Nat]

ImportType(m) ==
  /\ m \in [phase : {"recv", "check", "main", "pending", "park", "build"},
            doc : Docs, blob : Blob, order : Seq(Change), idx : Nat,
            ends : Seq([Peers -> Nat]), waiting : Seq(Change), stack : Seq(ID),
            todo : SUBSET Waiting, saved : {m.saved}, inPlace : BOOLEAN]
  /\ LogType(m.saved)

ASSUME ForeignAssumption == Foreign \subseteq Blob

-----------------------------------------------------------------------------
(* The open transaction.                                                   *)

NoTx == [open |-> FALSE, start |-> 0, next |-> 0, lam |-> 0, deps |-> {}, ts |-> 0]

Begin(d) ==
  IF tx[d].open THEN tx[d]
  ELSE LET l == oplog[d]
           next == l.vv[PeerOf[d]]
       IN  [open |-> TRUE, start |-> next, next |-> next,
            lam |-> NextLamport(l, l.fr), deps |-> l.fr,
            ts |-> GreatestTimestamp(l, l.fr)]

(* Variant: no floor under the timestamp (TimestampsGrow).                 *)
TxChangeNoFloor(d, msg, ts) ==
  [peer |-> PeerOf[d], start |-> tx[d].start, end |-> tx[d].next,
   deps |-> tx[d].deps, lam |-> tx[d].lam, ts |-> ts, msg |-> msg, by |-> d]

TxChange(d, msg, ts) ==
  [peer |-> PeerOf[d], start |-> tx[d].start, end |-> tx[d].next,
   deps |-> tx[d].deps, lam |-> tx[d].lam, ts |-> Larger(tx[d].ts, ts),
   msg |-> msg, by |-> d]

(* The log of a document once its transaction is closed.                   *)
Closed(d, msg, ts) ==
  IF tx[d].open /\ tx[d].start < tx[d].next
  THEN InsertLocal(oplog[d], TxChange(d, msg, ts))
  ELSE oplog[d]

(* Variant: the transaction stays open (TxFresh).                          *)
KeepTx(d, msg, ts) == UNCHANGED <<oplog, tx>>

CloseTx(d, msg, ts) ==
  /\ oplog' = [oplog EXCEPT ![d] = Closed(d, msg, ts)]
  /\ tx' = [tx EXCEPT ![d] = NoTx]

-----------------------------------------------------------------------------
Idle(outcome) == [phase |-> "idle", outcome |-> outcome]

Init ==
  /\ oplog = [d \in Docs |-> EmptyLog]
  /\ tx = [d \in Docs |-> NoTx]
  /\ st = [d \in Docs |-> {}]
  /\ imp = Idle("ok")

(* One local operation: it takes the next id and shows at once.            *)
Edit(d) ==
  /\ imp.phase = "idle"
  /\ LET t == Begin(d) IN
       /\ t.next < Budget[PeerOf[d]]
       /\ tx' = [tx EXCEPT ![d] = [t EXCEPT !.next = t.next + 1]]
       /\ st' = [st EXCEPT ![d] = @ \cup {<<PeerOf[d], t.next>>}]
  /\ UNCHANGED <<oplog, imp>>

(* A local operation the state refuses leaves the transaction it opened.   *)
RefusedEdit(d) ==
  /\ imp.phase = "idle"
  /\ ~tx[d].open
  /\ tx' = [tx EXCEPT ![d] = Begin(d)]
  /\ UNCHANGED <<oplog, st, imp>>

CommitWith(d, msg, ts) ==
  /\ imp.phase = "idle"
  /\ tx[d].open
  /\ CloseTx(d, msg, ts)
  /\ UNCHANGED <<st, imp>>

(* A blob arrives at document d; the steps of its import follow.           *)
Deliver(d, blob) ==
  imp' = [phase |-> "recv", doc |-> d, blob |-> blob, order |-> <<>>, idx |-> 1,
          ends |-> <<>>, waiting |-> <<>>, stack |-> <<>>, todo |-> {},
          saved |-> oplog'[d], inPlace |-> FALSE]

(* Document s exports the counters r[p][1]..r[p][2]-1 of every peer and d  *)
(* gets the blob.  A history only grows, so what an earlier export held is *)
(* still a range of it: this action is also the late, repeated and         *)
(* reordered delivery of every blob s ever exported.  For ExportUpdatesFrom *)
(* the ranges end at the version, for ExportUpdates they start at 0 too.   *)
ExportRange(s, d, r, ts) ==
  /\ imp.phase = "idle"
  /\ s # d
  /\ LET l == Closed(s, NoMsg, ts) IN
       /\ \A p \in Peers : r[p][2] <= l.vv[p]
       /\ LET changes == UNION {ChangesIn(l.store, p, r[p][1], r[p][2]) : p \in Peers}
          IN  /\ changes # {}
              /\ CloseTx(s, NoMsg, ts)
              /\ Deliver(d, [changes |-> changes, snapshot |-> FALSE, fr |-> {}])
  /\ UNCHANGED st

(* A loro-crdt peer with the history of s exports a snapshot: the whole    *)
(* history and its frontiers.  loro-go writes none, it only imports them.  *)
ExportSnapshot(s, d, ts) ==
  /\ Snapshots
  /\ imp.phase = "idle"
  /\ s # d
  /\ LET l == Closed(s, NoMsg, ts)
         changes == UNION {ChangesIn(l.store, p, 0, l.vv[p]) : p \in Peers}
     IN  /\ changes # {}
         /\ CloseTx(s, NoMsg, ts)
         /\ Deliver(d, [changes |-> changes, snapshot |-> TRUE, fr |-> l.fr])
  /\ UNCHANGED st

(* A blob another implementation wrote.                                    *)
ReceiveForeign(d, blob) ==
  /\ imp.phase = "idle"
  /\ blob \in Foreign
  /\ UNCHANGED <<oplog, tx, st>>
  /\ Deliver(d, blob)

-----------------------------------------------------------------------------
(* The steps of an import.                                                 *)

(* The blob's changes by lamport; the order of equal lamports is the       *)
(* unstable sort's, so any.                                                *)
SortedByLamport(changes) ==
  {order \in [1 .. Cardinality(changes) -> changes] :
     /\ \A c \in changes : \E i \in DOMAIN order : order[i] = c
     /\ \A i, j \in DOMAIN order : i < j => order[i].lam <= order[j].lam}

(* An import first commits the open transaction.  A snapshot replaces an   *)
(* empty document's state, unless a Counter handle was taken from it.      *)
ImportBegin(ts) ==
  /\ imp.phase = "recv"
  /\ CloseTx(imp.doc, NoMsg, ts)
  /\ \E order \in SortedByLamport(imp.blob.changes), inPlace \in BOOLEAN :
       LET l == oplog'[imp.doc] IN
       /\ inPlace => /\ imp.blob.snapshot
                     /\ \A p \in Peers : l.vv[p] = 0
                     /\ l.pending = {}
       /\ imp' = [imp EXCEPT !.phase = "check", !.order = order, !.saved = l,
                             !.ends = <<l.vv>>, !.inPlace = inPlace]
  /\ UNCHANGED st

(* Variant: the log stays half changed (StateIsHistory).                   *)
RefuseHalfway ==
  /\ imp' = Idle("refused")
  /\ UNCHANGED <<oplog, tx, st>>

(* The import is refused and everything goes back as it was.               *)
Refuse ==
  /\ oplog' = [oplog EXCEPT ![imp.doc] = imp.saved]
  /\ imp' = Idle("refused")
  /\ UNCHANGED <<tx, st>>

(* checkKnown: an op id the document has names another op in a blob that   *)
(* brings something new.                                                   *)
UsedID(l, changes) ==
  /\ \E c \in changes : ~Known(l, c)
  /\ \E c \in changes : \E k \in c.start .. c.end - 1 :
       LET i == <<c.peer, k>> IN
       /\ Has(l, i)
       /\ i \in DOMAIN l.store
       /\ l.store[i].deps # DepsAt(c, k) \/ l.store[i].by # c.by

(* checkKnown's replay of the first pass on counter ends alone; ends keeps *)
(* the value after each change.                                            *)
ReadyAt(c, e) ==
  /\ c.end > e[c.peer]
  /\ \A i \in c.deps : i[2] < e[i[1]]

Replayed(c, e) == IF ReadyAt(c, e) THEN [e EXCEPT ![c.peer] = c.end] ELSE e

CheckStep ==
  /\ imp.phase = "check"
  /\ Len(imp.ends) <= Len(imp.order)
  /\ Len(imp.ends) = 1 => ~UsedID(oplog[imp.doc], imp.blob.changes)
  /\ LET c == imp.order[Len(imp.ends)]
         e == imp.ends[Len(imp.ends)]
     IN  /\ ReadyAt(c, e) => c.start <= e[c.peer]
         /\ imp' = [imp EXCEPT !.ends = Append(@, Replayed(c, e))]
  /\ UNCHANGED <<oplog, tx, st>>

CheckRefuses ==
  /\ imp.phase = "check"
  /\ Len(imp.ends) <= Len(imp.order)
  /\ \/ Len(imp.ends) = 1 /\ UsedID(oplog[imp.doc], imp.blob.changes)
     \/ LET c == imp.order[Len(imp.ends)]
            e == imp.ends[Len(imp.ends)]
        IN  ReadyAt(c, e) /\ c.start > e[c.peer]
  /\ Refuse

(* What a document with history makes of a snapshot: the changes that      *)
(* bring something new, without their known parts.  Trimming raises a      *)
(* change's lamport, so they are sorted anew.                              *)
TrimmedOrders(l, changes) ==
  SortedByLamport({TrimKnown(l, c) : c \in {e \in changes : ~Known(l, e)}})

(* The blob is good so far.  The first pass takes its changes in the order *)
(* they were checked in, but for a snapshot that is trimmed.               *)
CheckDone ==
  /\ imp.phase = "check"
  /\ Len(imp.ends) > Len(imp.order)
  /\ \E order \in IF imp.blob.snapshot /\ ~imp.inPlace
                   THEN TrimmedOrders(oplog[imp.doc], imp.blob.changes)
                   ELSE {imp.order} :
       imp' = [imp EXCEPT !.phase = "main", !.order = order]
  /\ UNCHANGED <<oplog, tx, st>>

(* The first pass over the blob's changes.                                 *)
MainStep ==
  /\ imp.phase = "main"
  /\ imp.idx <= Len(imp.order)
  /\ LET l == oplog[imp.doc]
         c == imp.order[imp.idx]
         ready == c.deps \subseteq {i \in DOMAIN l.store : Has(l, i)}
         new == TrimKnown(l, [c EXCEPT !.lam = NextLamport(l, c.deps)])
         next == [imp EXCEPT !.idx = @ + 1]
     IN  \/ /\ Known(l, c)
            /\ imp' = next
            /\ UNCHANGED oplog
         \/ /\ ~Known(l, c)
            /\ ~ready
            /\ imp' = [next EXCEPT !.waiting = Append(@, c), !.stack = Append(@, LastID(c))]
            /\ UNCHANGED oplog
         \/ /\ ~Known(l, c)
            /\ ready
            /\ ~InsertRefused(l, new)
            /\ oplog' = [oplog EXCEPT ![imp.doc] = InsertRemote(l, new)]
            /\ imp' = [next EXCEPT !.stack = Append(@, LastID(c))]
  /\ UNCHANGED <<tx, st>>

MainRefuses ==
  /\ imp.phase = "main"
  /\ imp.idx <= Len(imp.order)
  /\ LET l == oplog[imp.doc]
         c == imp.order[imp.idx]
     IN  /\ ~Known(l, c)
         /\ c.deps \subseteq {i \in DOMAIN l.store : Has(l, i)}
         /\ InsertRefused(l, TrimKnown(l, [c EXCEPT !.lam = NextLamport(l, c.deps)]))
  /\ Refuse

MainDone ==
  /\ imp.phase = "main"
  /\ imp.idx > Len(imp.order)
  /\ imp' = [imp EXCEPT !.phase = "pending"]
  /\ UNCHANGED <<oplog, tx, st>>

(* A change from the pending set keeps a lamport it claims past its deps'. *)
FromRemote(l, c) ==
  TrimKnown(l, [c EXCEPT !.lam = Larger(c.lam, NextLamport(l, c.deps))])

(* Variant: a change that waits again is taken for a release               *)
(* (ImportTerminates).                                                     *)
SettlePushes(c, next) ==
  LET l == oplog[imp.doc] IN
  \/ /\ ~Known(l, c)
     /\ \E missing \in MissingFor(l, c) :
          oplog' = [oplog EXCEPT ![imp.doc] = Park(l, c, missing)]
     /\ imp' = [next EXCEPT !.stack = Append(@, LastID(c))]
  \/ /\ Known(l, c) \/ MissingFor(l, c) = {}
     /\ oplog' = [oplog EXCEPT ![imp.doc] = IF Known(l, c) THEN l ELSE InsertRemote(l, FromRemote(l, c))]
     /\ imp' = IF Known(l, c) THEN next ELSE [next EXCEPT !.stack = Append(@, LastID(c))]

(* What happens to a change tried again: it is dropped as applied, waits,  *)
(* or is applied and may release others.  next is the import after it.     *)
Settle(c, next) ==
  LET l == oplog[imp.doc] IN
  \/ /\ Known(l, c)
     /\ imp' = next
     /\ UNCHANGED oplog
  \/ /\ ~Known(l, c)
     /\ \E missing \in MissingFor(l, c) :
          oplog' = [oplog EXCEPT ![imp.doc] = Park(l, c, missing)]
     /\ imp' = next
  \/ /\ ~Known(l, c)
     /\ MissingFor(l, c) = {}
     /\ ~InsertRefused(l, FromRemote(l, c))
     /\ oplog' = [oplog EXCEPT ![imp.doc] = InsertRemote(l, FromRemote(l, c))]
     /\ imp' = [next EXCEPT !.stack = Append(@, LastID(c))]

SettleRefuses(c) ==
  LET l == oplog[imp.doc] IN
  /\ ~Known(l, c)
  /\ MissingFor(l, c) = {}
  /\ InsertRefused(l, FromRemote(l, c))

(* Variant: only the changes filed under exactly that op                   *)
(* (ImplementsCausalDelivery).                                             *)
PendingPopExact ==
  /\ imp.phase = "pending"
  /\ imp.todo = {}
  /\ imp.stack # <<>>
  /\ LET l == oplog[imp.doc]
         due == {e \in l.pending : e.missing = imp.stack[Len(imp.stack)]}
     IN  /\ oplog' = [oplog EXCEPT ![imp.doc].pending = l.pending \ due]
         /\ imp' = [imp EXCEPT !.stack = SubSeq(@, 1, Len(@) - 1), !.todo = due]
  /\ UNCHANGED <<tx, st>>

(* applyPending: the changes filed under the last op's peer at or below    *)
(* its counter come out ...                                                *)
PendingPop ==
  /\ imp.phase = "pending"
  /\ imp.todo = {}
  /\ imp.stack # <<>>
  /\ LET l == oplog[imp.doc]
         id == imp.stack[Len(imp.stack)]
         due == {e \in l.pending : e.missing[1] = id[1] /\ e.missing[2] <= id[2]}
     IN  /\ oplog' = [oplog EXCEPT ![imp.doc].pending = l.pending \ due]
         /\ imp' = [imp EXCEPT !.stack = SubSeq(@, 1, Len(@) - 1), !.todo = due]
  /\ UNCHANGED <<tx, st>>

(* ... and are tried again in counter order.                               *)
NextDue(e) ==
  /\ e \in imp.todo
  /\ \A f \in imp.todo : e.missing[2] <= f.missing[2]

PendingTry ==
  /\ imp.phase = "pending"
  /\ \E e \in imp.todo :
       /\ NextDue(e)
       /\ Settle(e.ch, [imp EXCEPT !.todo = @ \ {e}])
  /\ UNCHANGED <<tx, st>>

PendingRefuses ==
  /\ imp.phase = "pending"
  /\ \E e \in imp.todo : NextDue(e) /\ SettleRefuses(e.ch)
  /\ Refuse

PendingDone ==
  /\ imp.phase = "pending"
  /\ imp.todo = {}
  /\ imp.stack = <<>>
  /\ imp' = [imp EXCEPT !.phase = IF imp.waiting = <<>> THEN "build" ELSE "park"]
  /\ UNCHANGED <<oplog, tx, st>>

(* parkOrApply: the blob's changes that waited in the first pass.          *)
ParkStep ==
  /\ imp.phase = "park"
  /\ imp.waiting # <<>>
  /\ Settle(Head(imp.waiting), [imp EXCEPT !.waiting = Tail(@)])
  /\ UNCHANGED <<tx, st>>

ParkRefuses ==
  /\ imp.phase = "park"
  /\ imp.waiting # <<>>
  /\ SettleRefuses(Head(imp.waiting))
  /\ Refuse

ParkDone ==
  /\ imp.phase = "park"
  /\ imp.waiting = <<>>
  /\ imp' = [imp EXCEPT !.phase = "pending"]
  /\ UNCHANGED <<oplog, tx, st>>

(* The state is rebuilt from the log when anything was applied; an op      *)
(* whose position its author could not see refuses the import.             *)
Changed(l) == l.vv # imp.saved.vv

(* Variant: only the blob's own ops are looked at (NothingUnshowable).     *)
CannotBuildBlob(l) ==
  BadOps \cap DOMAIN l.store \cap UNION {IdsOf(c) : c \in imp.blob.changes} # {}

CannotBuild(l) == Changed(l) /\ BadOps \cap DOMAIN l.store # {}

Finish ==
  /\ imp.phase = "build"
  /\ LET l == oplog[imp.doc] IN
       /\ ~CannotBuild(l)
       /\ st' = IF Changed(l) THEN [st EXCEPT ![imp.doc] = DOMAIN l.store] ELSE st
       /\ oplog' = IF imp.inPlace THEN [oplog EXCEPT ![imp.doc].fr = imp.blob.fr] ELSE oplog
  /\ imp' = Idle("ok")
  /\ UNCHANGED tx

BuildRefuses ==
  /\ imp.phase = "build"
  /\ CannotBuild(oplog[imp.doc])
  /\ Refuse

ImportStep ==
  \/ \E ts \in Times : ImportBegin(ts)
  \/ CheckStep \/ CheckRefuses \/ CheckDone
  \/ MainStep \/ MainRefuses \/ MainDone
  \/ PendingPop \/ PendingTry \/ PendingRefuses \/ PendingDone
  \/ ParkStep \/ ParkRefuses \/ ParkDone
  \/ Finish \/ BuildRefuses

-----------------------------------------------------------------------------
(* The ranges an export may name: for each peer a nonempty range of its    *)
(* counters, or <<0, 0>> when it is left out.                              *)
Ranges ==
  {r \in [Peers -> (0 .. MaxCounter) \X (0 .. MaxCounter)] :
     \A p \in Peers : r[p][1] < r[p][2] \/ r[p] = <<0, 0>>}

Next ==
  \/ \E d \in Docs : Edit(d) \/ RefusedEdit(d)
  \/ \E d \in Docs, msg \in Msgs, ts \in Times : CommitWith(d, msg, ts)
  \/ \E s, d \in Docs, ts \in Times :
       \/ \E r \in Ranges : ExportRange(s, d, r, ts)
       \/ ExportSnapshot(s, d, ts)
  \/ \E d \in Docs, blob \in Foreign : ReceiveForeign(d, blob)
  \/ ImportStep

Spec == Init /\ [][Next]_vars
-----------------------------------------------------------------------------
(* Properties.                                                             *)

TypeOK ==
  /\ DOMAIN oplog = Docs /\ \A d \in Docs : LogType(oplog[d])
  /\ tx \in [Docs -> Transaction] /\ \A d \in Docs : IsFiniteSet(tx[d].deps)
  /\ st \in [Docs -> SUBSET ID]
  /\ \/ imp \in [phase : {"idle"}, outcome : {"ok", "refused"}]
     \/ ImportType(imp)

Below(vv) == UNION {{p} \X (0 .. vv[p] - 1) : p \in Peers}

(* A history has no holes: the ids applied are those below the version     *)
(* vector (oplog.go opLog.vv, has).                                        *)
Contiguous ==
  \A d \in Docs : DOMAIN oplog[d].store = Below(oplog[d].vv)

(* An op is applied only when everything it depends on is (importChanges,  *)
(* applyPending, parkOrApply).                                             *)
CausallyClosed ==
  \A d \in Docs : \A i \in DOMAIN oplog[d].store :
    oplog[d].store[i].deps \subseteq DOMAIN oplog[d].store

(* The frontiers are the ops no other applied op depends on                *)
(* (updateFrontiers with its per-peer replacement, insertLocal).           *)
FrontierIsMaximal ==
  \A d \in Docs :
    LET store == oplog[d].store
    IN  oplog[d].fr = {i \in DOMAIN store :
                         /\ \A j \in DOMAIN store : i \notin store[j].deps
                         /\ <<i[1], i[2] + 1>> \notin DOMAIN store}

(* Whatever way an op reached a document - local, whole, cut, trimmed,     *)
(* released from the pending set, merged into another change - it has the  *)
(* lamport, dependencies, timestamp, message and content it was made with. *)
AtomsAgree ==
  \A d, e \in Docs : \A i \in DOMAIN oplog[d].store \cap DOMAIN oplog[e].store :
    oplog[d].store[i] = oplog[e].store[i]

(* A lamport lies past those of everything the op depends on, whatever the *)
(* blobs claim, so the order by lamport extends causality (insertRemote,   *)
(* applyRemote, begin).                                                    *)
LamportAboveDeps ==
  \A d \in Docs : \A i \in DOMAIN oplog[d].store :
    \A j \in oplog[d].store[i].deps \cap DOMAIN oplog[d].store :
      oplog[d].store[j].lam < oplog[d].store[i].lam

(* Timestamps never go back along the history (txn.go commit).             *)
TimestampsGrow ==
  \A d \in Docs : \A i \in DOMAIN oplog[d].store :
    \A j \in oplog[d].store[i].deps \cap DOMAIN oplog[d].store :
      oplog[d].store[j].ts <= oplog[d].store[i].ts

(* Nothing moves the version, lamport, dependencies and timestamp an open  *)
(* transaction took when it began (the comment of txn).                    *)
TxFresh ==
  \A d \in Docs : tx[d].open /\ imp.phase = "idle" =>
    LET l == oplog[d] IN
    /\ tx[d].start = l.vv[PeerOf[d]]
    /\ tx[d].deps = l.fr
    /\ tx[d].lam = NextLamport(l, l.fr)
    /\ tx[d].ts = GreatestTimestamp(l, l.fr)

(* The state shows the applied ops and those of the open transaction,      *)
(* after a refused import too.                                             *)
StateIsHistory ==
  imp.phase = "idle" =>
    \A d \in Docs :
      st[d] = DOMAIN oplog[d].store
              \cup ({PeerOf[d]} \X (tx[d].start .. tx[d].next - 1))

(* When an import ends, every op of the blob is applied or waits.          *)
NothingLost ==
  imp.phase = "build" =>
    LET l == oplog[imp.doc] IN
    \A c \in imp.blob.changes : \A i \in IdsOf(c) :
      i \in DOMAIN l.store \/ \E e \in l.pending : i \in IdsOf(e.ch)

(* What a document holds is never rewritten or dropped by an import: only  *)
(* its frontiers move (trimKnown, storeBlock.push).                        *)
HistoryKept ==
  imp.phase \notin {"idle", "recv"} =>
    LET l == oplog[imp.doc] IN
    \A i \in DOMAIN imp.saved.store :
      i \in DOMAIN l.store /\ l.store[i] = imp.saved.store[i]

(* No op the state could not show is in the history once an import is      *)
(* over: neither a refused blob's nor a pending one's it released.         *)
NothingUnshowable ==
  imp.phase = "idle" => \A d \in Docs : BadOps \cap DOMAIN oplog[d].store = {}

(* Documents that edit under peer ids of their own accept each other's     *)
(* exports.                                                                *)
NeverRefused == imp.phase = "idle" => imp.outcome = "ok"

-----------------------------------------------------------------------------
(* The history of a document as other documents may know it: during an     *)
(* import, the one the import would go back to.                            *)
Settled(d) ==
  IF imp.phase \in {"idle", "recv"} THEN oplog[d]
  ELSE IF imp.doc = d THEN imp.saved ELSE oplog[d]

Made == UNION {DOMAIN Settled(d).store : d \in Docs}

CD == INSTANCE CausalDelivery WITH
  MaxRun <- MaxCounter,
  deps <- [i \in Made |->
             Settled(CHOOSE d \in Docs : i \in DOMAIN Settled(d).store).store[i].deps],
  got <- [d \in Docs |-> DOMAIN Settled(d).store
                         \cup UNION {IdsOf(e.ch) : e \in Settled(d).pending}],
  shown <- [d \in Docs |-> st[d] \ ({PeerOf[d]} \X (tx[d].start .. tx[d].next - 1))]

(* With peer ids of their own, documents implement causal delivery: the    *)
(* imports, pending changes and refusals never show more or less than the  *)
(* causally closed part of what arrived.                                   *)
ImplementsCausalDelivery == CD!Spec

-----------------------------------------------------------------------------
(* Fairness.  An import runs to its end under the mutex.  The application  *)
(* keeps sending each document the updates since its version: the weakest  *)
(* assumption under which documents can be expected to converge.           *)
Sync(s, d, ts) ==
  LET have == oplog[d].vv
      give == Closed(s, NoMsg, ts).vv
  IN  ExportRange(s, d, [p \in Peers |-> IF have[p] < give[p] THEN <<have[p], give[p]>>
                                         ELSE <<0, 0>>], ts)

FairSpec ==
  /\ Spec
  /\ WF_vars(ImportStep)
  /\ \A s, d \in Docs : SF_vars(\E ts \in Times : Sync(s, d, ts))

(* An import always ends: releasing pending changes and filing them again  *)
(* does not go on for ever (applyPending's loop).                          *)
ImportTerminates == imp.phase # "idle" ~> imp.phase = "idle"

(* Documents end up showing the same operations, and stay so.              *)
Convergence == <>[](\A d, e \in Docs : st[d] = st[e])

=============================================================================
