----------------------------- MODULE PeerTable -----------------------------
(***************************************************************************)
(* The hash table that holds the counters of peers (fxTable in             *)
(* loro/frontiers.go and loro/version.go), as the frontiers of a history   *)
(* and as version vectors use it.  Control bytes are probed in groups; a   *)
(* table has a copy of its first group after its end, so that a group may  *)
(* be read from any bucket.                                                *)
(*                                                                         *)
(* Group is fxGroup.  The code's other numbers for sizes follow from it:   *)
(* the smallest table has Group \div 2 buckets, and larger ones leave one  *)
(* bucket of each group free.                                              *)
(*                                                                         *)
(* A definition whose comment starts with "Variant:" is not the code: it   *)
(* is the definition after it with a plausible bug.                        *)
(***************************************************************************)
EXTENDS Integers, Sequences, FiniteSets, SequencesExt

CONSTANTS
  Group,     \* fxGroup, a power of two
  StartOf,   \* where a peer's hash starts to probe
  TagOf      \* fxH2: what a bucket's control byte says of its peer

Empty == -1     \* fxEmpty
Deleted == -2   \* fxDeleted
None == <<>>    \* no id

Full(c) == c >= 0

Low(S) == CHOOSE n \in S : \A m \in S : n <= m

-----------------------------------------------------------------------------
(* A table: [ctrl, ids, items, left]; buckets and bytes count from 0.      *)

NoTable == [ctrl |-> [i \in {} |-> 0], ids |-> [i \in {} |-> 0], items |-> 0, left |-> 0]

Buckets(t) == Cardinality(DOMAIN t.ids)

(* capacityOf: the entries that a table of n buckets takes.                *)
CapacityOf(n) ==
  IF n = 0 THEN 0 ELSE IF n <= Group THEN n - 1 ELSE (n \div Group) * (Group - 1)

BucketsFor(capacity) ==
  Low({n \in {(Group \div 2) * 2^k : k \in 0 .. 8} : CapacityOf(n) >= capacity})

Fresh(n) ==
  [ctrl |-> [i \in 0 .. n + Group - 1 |-> Empty], ids |-> [i \in 0 .. n - 1 |-> None],
   items |-> 0, left |-> CapacityOf(n)]

WithCapacity(capacity) == IF capacity <= 0 THEN NoTable ELSE Fresh(BucketsFor(capacity))

(* setCtrl: the byte and its copy.                                         *)
SetCtrl(t, i, c) ==
  [t EXCEPT !.ctrl[i] = c, !.ctrl[((i - Group) % Buckets(t)) + Group] = c]

(* ids: the entries in bucket order.                                       *)
IdsIn(t) ==
  SelectSeq([b \in 1 .. Buckets(t) |-> IF Full(t.ctrl[b - 1]) THEN t.ids[b - 1] ELSE None],
            LAMBDA id : id # None)

(* The k-th group of p's probe sequence starts here; after as many groups  *)
(* as a table has, the sequence repeats.                                   *)
Probe(t, p, k) == (StartOf[p] + Group * ((k * (k + 1)) \div 2)) % Buckets(t)

Probes(t) == 0 .. Buckets(t) \div Group

(* The bytes of the group at pos that are c.                               *)
InGroup(t, pos, c) == {i \in 0 .. Group - 1 : t.ctrl[pos + i] = c}

BucketAt(t, p, k, i) == (Probe(t, p, k) + i) % Buckets(t)

(* The buckets holding p: none, or the one the probe finds before a group  *)
(* with an empty byte.                                                     *)
HoldsPeer(t, b, p) == Full(t.ctrl[b]) /\ t.ids[b][1] = p

FoundAt(t, p, k) ==
  {b \in {BucketAt(t, p, k, i) : i \in InGroup(t, Probe(t, p, k), TagOf[p])} : HoldsPeer(t, b, p)}

Find(t, p) ==
  LET stops == {k \in Probes(t) : InGroup(t, Probe(t, p, k), Empty) # {} \/ FoundAt(t, p, k) # {}}
  IN  IF Buckets(t) = 0 \/ stops = {} THEN {} ELSE FoundAt(t, p, Low(stops))

(* insertSlot: the first free byte of the probe; where it is a copy that   *)
(* wraps onto a full bucket, the first free bucket.                        *)
InsertSlot(t, p) ==
  LET free(pos) == InGroup(t, pos, Empty) \cup InGroup(t, pos, Deleted)
      k == Low({k \in Probes(t) : free(Probe(t, p, k)) # {}})
      b == BucketAt(t, p, k, Low(free(Probe(t, p, k))))
  IN  IF Full(t.ctrl[b]) THEN Low(free(0)) ELSE b

Store(t, b, id) == [SetCtrl(t, b, TagOf[id[1]]) EXCEPT !.ids[b] = id]

(* resize: a new table, the entries put in in bucket order.                *)
Resize(t, capacity) ==
  LET n == BucketsFor(capacity)
      moved == FoldLeft(LAMBDA q, id : Store(q, InsertSlot(q, id[1]), id), Fresh(n), IdsIn(t))
  IN  [moved EXCEPT !.items = t.items, !.left = CapacityOf(n) - t.items]

(* rehashInPlace begins: full bytes become tombstones, tombstones empty.   *)
Unsettled(t) ==
  FoldLeft(LAMBDA q, b : SetCtrl(q, b, IF Full(t.ctrl[b]) THEN Deleted ELSE Empty),
           t, [b \in 1 .. Buckets(t) |-> b - 1])

(* One turn of the loop that settles the entry of bucket i: it stays, goes *)
(* to an empty bucket, or changes places with one yet to be settled.       *)
SettleOnce(t, i) ==
  LET p  == t.ids[i][1]
      ni == InsertSlot(t, p)
      groupOf(b) == ((b - StartOf[p]) % Buckets(t)) \div Group
  IN  IF t.ctrl[i] # Deleted THEN t
      ELSE IF groupOf(i) = groupOf(ni) THEN SetCtrl(t, i, TagOf[p])
      ELSE IF t.ctrl[ni] = Empty
           THEN [SetCtrl(SetCtrl(t, ni, TagOf[p]), i, Empty)
                   EXCEPT !.ids[ni] = t.ids[i], !.ids[i] = None]
           ELSE [SetCtrl(t, ni, TagOf[p]) EXCEPT !.ids[ni] = t.ids[i], !.ids[i] = t.ids[ni]]

(* Every turn settles an entry: as many as there are buckets are enough.   *)
Settle(t, i) ==
  FoldLeft(LAMBDA q, k : SettleOnce(q, i), t, [k \in 1 .. Buckets(t) |-> k])

RehashInPlace(t) ==
  [FoldLeft(Settle, Unsettled(t), [b \in 1 .. Buckets(t) |-> b - 1])
     EXCEPT !.left = CapacityOf(Buckets(t)) - t.items]

(* reserveRehash: room for one more entry.                                 *)
Reserved(t) ==
  LET most == CapacityOf(Buckets(t))
  IN  IF t.left >= 1 THEN t
      ELSE IF Buckets(t) > 0 /\ t.items + 1 <= most \div 2 THEN RehashInPlace(t)
      ELSE Resize(t, IF t.items > most THEN t.items + 1 ELSE most + 1)

PutNew(t, id) ==
  LET b == InsertSlot(t, id[1])
  IN  [Store(t, b, id) EXCEPT !.items = @ + 1, !.left = IF t.ctrl[b] = Empty THEN @ - 1 ELSE @]

(* The entry goes where its peer was found, or is put in as a new one.     *)
PutMax(t, found, id) ==
  IF found = {} THEN PutNew(Reserved(t), id)
  ELSE [t EXCEPT !.ids[Low(found)] = IF @[2] < id[2] THEN id ELSE @]

PutAlways(t, found, id) ==
  IF found = {} THEN PutNew(t, id) ELSE [t EXCEPT !.ids[Low(found)] = id]

(* insertMax makes room only when the peer is new, insertAlways before it  *)
(* looks.                                                                  *)
InsertMax(t, id) == PutMax(t, Find(t, id[1]), id)

InsertReserved(t, id) == PutAlways(t, Find(t, id[1]), id)

InsertAlways(t, id) == InsertReserved(Reserved(t), id)

(* Variant: a removed entry leaves its bucket empty (TableIsMap).          *)
NeverTomb(t, b) == FALSE

(* Whether no run of a group's width over bucket b has an empty byte: then *)
(* a probe may have gone past b, and may not stop there.                   *)
ProbedPast(t, b) ==
  LET before == InGroup(t, (b - Group) % Buckets(t), Empty)
      after  == InGroup(t, b, Empty)
      lead   == Group - 1 - (IF before = {} THEN -1 ELSE CHOOSE i \in before : \A j \in before : j <= i)
      trail  == IF after = {} THEN Group ELSE Low(after)
  IN  lead + trail >= Group

(* What a bucket held that is free now is never read: it is cleared here.  *)
Erased(t, b, c) ==
  [SetCtrl(t, b, c) EXCEPT !.ids[b] = None, !.items = @ - 1, !.left = IF c = Empty THEN @ + 1 ELSE @]

Erase(t, b) == Erased(t, b, IF ProbedPast(t, b) THEN Deleted ELSE Empty)

(* remove takes an entry out only if it has this counter, removeKey        *)
(* whatever it has.                                                        *)
EraseAny(t, bs) == IF bs = {} THEN t ELSE Erase(t, Low(bs))

RemoveExact(t, id) == EraseAny(t, {b \in Find(t, id[1]) : t.ids[b] = id})

RemoveKey(t, p) == EraseAny(t, Find(t, p))

-----------------------------------------------------------------------------
(* frontiers: no id, one id, or a table of two or more.                    *)

NoFrontiers == [one |-> None, tab |-> NoTable]

IsTable(f) == Buckets(f.tab) > 0

FrontierIds(f) == IF IsTable(f) THEN IdsIn(f.tab) ELSE IF f.one = None THEN <<>> ELSE <<f.one>>

PushId(f, id) ==
  CASE IsTable(f) -> [f EXCEPT !.tab = InsertMax(@, id)]
    [] ~IsTable(f) /\ f.one = None -> [f EXCEPT !.one = id]
    [] ~IsTable(f) /\ f.one # None /\ f.one[1] # id[1] ->
         [one |-> None, tab |-> InsertMax(InsertMax(NoTable, f.one), id)]
    [] ~IsTable(f) /\ f.one # None /\ f.one[1] = id[1] ->
         IF f.one[2] < id[2] THEN [f EXCEPT !.one = id] ELSE f

RemoveId(f, id) ==
  LET t == RemoveExact(f.tab, id)
  IN  CASE IsTable(f) -> IF t.items = 1 THEN [one |-> IdsIn(t)[1], tab |-> NoTable]
                         ELSE IF t.items = 0 THEN NoFrontiers ELSE [f EXCEPT !.tab = t]
        [] ~IsTable(f) -> IF f.one = id THEN NoFrontiers ELSE f

FrontiersOf(ids) == FoldLeft(PushId, NoFrontiers, ids)

ContainsId(f, id) ==
  IF IsTable(f) THEN \E b \in Find(f.tab, id[1]) : f.tab.ids[b] = id ELSE f.one = id

HoldsAll(f, deps) == \A k \in DOMAIN deps : ContainsId(f, deps[k])

(* updateOnNewChange, with the short cut for up to eight ids that all go.  *)
Updated(f, last, deps) ==
  IF Len(deps) <= 8 /\ Len(FrontierIds(f)) = Len(deps) /\ HoldsAll(f, deps)
  THEN [one |-> last, tab |-> NoTable]
  ELSE PushId(FoldLeft(RemoveId, f, deps), last)
=============================================================================
