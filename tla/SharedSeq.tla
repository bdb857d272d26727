------------------------------ MODULE SharedSeq ------------------------------
(***************************************************************************)
(* Documents that edit one List or MovableList and import each other's     *)
(* changes (loro/handles.go, loro/movablelist.go, loro/docstate.go).       *)
(*                                                                         *)
(* A local op goes into the merged sequence at once; an import builds the  *)
(* sequence anew from the whole history (Document.rebuild).  The store and *)
(* the transport of changes are modelled in OpLog: an import here brings   *)
(* all that another document has, cut where the importer's history ends.   *)
(*                                                                         *)
(* A definition whose comment starts with "Variant:" is not the code: it   *)
(* is the definition after it with a plausible bug.                        *)
(***************************************************************************)
EXTENDS SeqMerge

CONSTANTS
  Author, Known,  \* the first Known items, Author's, are in every document
  Budget,     \* bound: the atoms that document d makes, those included
  MaxDelete,  \* bound: the items that one call deletes
  OwnChanges, \* whether a change may be kept apart from the one before it
  Grows       \* whether inserts that arrive apart may fold: a set of choices

VARIABLES
  hist,   \* Document.log: the changes of each peer
  seq,    \* docState.seqs: the merged sequence
  index,  \* seqState.movIx: [ok, slots, lost], for a MovableList
  asked   \* what the user saw after the last import, with each call since

vars == <<hist, seq, index, asked>>

-----------------------------------------------------------------------------
(* What a document shows.                                                  *)

(* Whether the node is where its element is shown.                         *)
Holds(s, n) == IsLive(n) /\ (~Movable \/ s.elems[n.elem].pos = n.id)

ValueOf(s, n) == IF Movable THEN <<n.elem, s.elems[n.elem].val>> ELSE <<n.id, n.id>>

Shown(s) ==
  LET held == SelectSeq(s.nodes, LAMBDA n : Holds(s, n))
  IN  [i \in 1 .. Len(held) |-> ValueOf(s, held[i])]

NoIndex == [ok |-> FALSE, slots |-> <<>>, lost |-> <<>>]

(* buildMovIndex: the positions that hold their element, and for each live *)
(* one that lost it the number of those before it.                         *)
BuildIndex(s) ==
  LET live == SelectSeq(s.nodes, IsLive)
      held(a, b) == SelectSeq(SubSeq(live, a, b), LAMBDA n : Holds(s, n))
      lost == SelectSeq([i \in 1 .. Len(live) |-> i], LAMBDA i : ~Holds(s, live[i]))
  IN  [ok |-> TRUE, slots |-> [i \in 1 .. Len(held(1, Len(live))) |-> held(1, Len(live))[i].id],
       lost |-> [t \in 1 .. Len(lost) |-> Len(held(1, lost[t]))]]

(* The lost positions before op index o, and the op index of user index i. *)
LostBefore(ix, o) == Cardinality({t \in DOMAIN ix.lost : ix.lost[t] + t - 1 < o})

(* Variant: a lost position before the slot itself is not counted          *)
(* (EditsAsAsked).                                                         *)
OpIndexBelow(ix, i) ==
  IF i >= Len(ix.slots) THEN Len(ix.slots) + Len(ix.lost)
  ELSE i + Cardinality({t \in DOMAIN ix.lost : ix.lost[t] < i})

OpIndex(ix, i) ==
  IF i >= Len(ix.slots) THEN Len(ix.slots) + Len(ix.lost)
  ELSE i + Cardinality({t \in DOMAIN ix.lost : ix.lost[t] <= i})

(* Variant: the lost positions after the op stay as they are               *)
(* (IndexIsBuilt).                                                         *)
ShiftNone(ix, from, n) == ix.lost

(* The lost positions from the from-th on move by n slots.                 *)
Shifted(ix, from, n) ==
  [t \in DOMAIN ix.lost |-> IF t > from THEN ix.lost[t] + n ELSE ix.lost[t]]

SlotsInserted(ix, o, ids) ==
  LET t == LostBefore(ix, o)
      j == o - t
  IN  [ix EXCEPT !.slots = SubSeq(@, 1, j) \o ids \o SubSeq(@, j + 1, Len(@)),
                 !.lost = Shifted(ix, t, Len(ids))]

(* The index without the slot at op index o; dropped when no slot of one   *)
(* of ids is there.                                                        *)
SlotRemoved(ix, o, ids) ==
  LET t == LostBefore(ix, o)
      j == o - t + 1
  IN  IF \/ \E u \in DOMAIN ix.lost : ix.lost[u] + u - 1 = o
         \/ j \notin DOMAIN ix.slots
         \/ ix.slots[j] \notin ids
      THEN NoIndex
      ELSE [ix EXCEPT !.slots = RemoveAt(@, j), !.lost = Shifted(ix, t, -1)]

(* noteLocal: the index after op, which s has just taken in.               *)
Noted(ix, s, op) ==
  CASE ~ix.ok -> ix
    [] ix.ok /\ op.kind = "ins" -> SlotsInserted(ix, op.pos, [k \in 1 .. op.len |-> After(op.id, k - 1)])
    [] ix.ok /\ op.kind = "del" -> SlotRemoved(ix, op.pos, {op.span.first})
    [] ix.ok /\ op.kind = "move" ->
         LET moved == {s.nodes[i].id : i \in {i \in DOMAIN s.nodes :
                         s.nodes[i].elem = op.elem /\ ~IsLive(s.nodes[i])}}
             out == SlotRemoved(ix, op.from, moved)
         IN  IF out.ok THEN SlotsInserted(out, op.pos, <<s.elems[op.elem].pos>>) ELSE NoIndex
    [] ix.ok /\ op.kind = "set" -> ix

-----------------------------------------------------------------------------
(* The operations of a document.                                           *)

(* The change in which Author inserted the first items.                    *)
FirstChange ==
  [start |-> 0, lam |-> 0, deps |-> {}, own |-> FALSE,
   ops |-> <<[kind |-> "ins", id |-> <<Author, 0>>, len |-> Known, lam |-> 0, pos |-> 0]>>]

FirstHistory == [p \in Docs |-> IF p = Author /\ Known > 0 THEN <<FirstChange>> ELSE <<>>]

(* Every document starts with a history it has imported.                   *)
Loaded(h) ==
  /\ hist = [d \in Docs |-> h]
  /\ seq = [d \in Docs |-> Replay(h)]
  /\ index = [d \in Docs |-> NoIndex]

Init == Loaded(FirstHistory) /\ asked = [d \in Docs |-> Shown(seq[d])]

Changes(h) == UNION {ToSet(h[p]) : p \in Docs}

(* The ids of the last ops that no other op of the history depends on.     *)
Heads(h) ==
  {<<p, EndOfAll(h[p]) - 1>> : p \in {p \in Docs : h[p] # <<>>}}
    \ UNION {c.deps : c \in Changes(h)}

NextLamport(h) ==
  LET ends == {c.lam + EndOf(c) - c.start : c \in {c \in Changes(h) :
                 <<PeerOfChange(c), EndOf(c) - 1>> \in Heads(h)}}
  IN  IF ends = {} THEN 0 ELSE CHOOSE n \in ends : \A m \in ends : m <= n

(* Document.apply: one local op goes into the history, the sequence and    *)
(* the index; w is [h, s, ix].                                             *)
Full(w, d, op) == op @@ [id |-> <<d, EndOfAll(w.h[d])>>, lam |-> NextLamport(w.h), len |-> 1]

ChangeOf(w, op, own) ==
  [start |-> op.id[2], lam |-> op.lam, deps |-> Heads(w.h), own |-> own, ops |-> <<op>>]

Took(w, d, op, own, s) ==
  [h |-> [w.h EXCEPT ![d] = Push(@, ChangeOf(w, op, own), TRUE)], s |-> s, ix |-> Noted(w.ix, s, op)]

AppliedFull(w, d, op, own) == Took(w, d, op, own, Apply(w.s, op, TRUE, NoVersion, TRUE))

Applied(w, d, op, own) == AppliedFull(w, d, Full(w, d, op), own)

(* What a call works on: a MovableList's index is built when it is needed. *)
Called(d) ==
  [h |-> hist[d], s |-> seq[d],
   ix |-> IF Movable /\ ~index[d].ok THEN BuildIndex(seq[d]) ELSE index[d]]

Becomes(d, w) ==
  /\ hist' = [hist EXCEPT ![d] = w.h]
  /\ seq' = [seq EXCEPT ![d] = w.s]
  /\ index' = [index EXCEPT ![d] = w.ix]

Edited(d, ops, own) ==
  /\ EndOfAll(hist[d][d]) + Len(ops) <= Budget[d]
  /\ own => OwnChanges /\ Heads(hist[d]) \in {{<<d, i>>} : i \in 0 .. Budget[d]}
  /\ Becomes(d, FoldLeft(LAMBDA w, k : Applied(w, d, ops[k], own /\ k = 1), Called(d),
                         [k \in DOMAIN ops |-> k]))

PosOf(d, i) == IF Movable THEN OpIndex(Called(d).ix, i) ELSE i

InsertItem(d, pos, own) ==
  /\ Edited(d, <<[kind |-> "ins", pos |-> PosOf(d, pos)]>>, own)
  /\ asked' = [asked EXCEPT ![d] = InsertAt(@, pos + 1, <<<<d, EndOfAll(hist[d][d])>>, <<d, EndOfAll(hist[d][d])>>>>)]

(* The nodes at user indexes pos..pos+n-1, one delete for each.            *)
Deletes(d, pos, n) ==
  LET held == SelectSeq(seq[d].nodes, LAMBDA x : Holds(seq[d], x))
  IN  [k \in 1 .. n |->
         [kind |-> "del", span |-> [first |-> held[pos + k].id, len |-> 1],
          pos |-> IF Movable THEN OpIndex(Called(d).ix, pos + k - 1) - (k - 1) ELSE pos]]

DeleteItems(d, pos, n, own) ==
  /\ Edited(d, Deletes(d, pos, n), own)
  /\ asked' = [asked EXCEPT ![d] = SubSeq(@, 1, pos) \o SubSeq(@, pos + n + 1, Len(@))]

MoveItem(d, from, to, own) ==
  /\ Edited(d, <<[kind |-> "move", from |-> PosOf(d, from), pos |-> PosOf(d, to),
                  elem |-> Shown(seq[d])[from + 1][1]]>>, own)
  /\ asked' = [asked EXCEPT ![d] = InsertAt(RemoveAt(@, from + 1), to + 1, @[from + 1])]

SetItem(d, pos, own) ==
  /\ Edited(d, <<[kind |-> "set", elem |-> Shown(seq[d])[pos + 1][1]]>>, own)
  /\ asked' = [asked EXCEPT ![d][pos + 1][2] = <<d, EndOfAll(hist[d][d])>>]

(* An import of what e has and d has not; grow is whether the values of    *)
(* inserts that arrive apart may be one buffer.                            *)
Take(d, e, grow) ==
  LET new(p) == SelectSeq(hist[e][p], LAMBDA c : EndOf(c) > EndOfAll(hist[d][p]))
      cut(p) == [k \in DOMAIN new(p) |-> CutChange(new(p)[k], EndOfAll(hist[d][p]))]
      h == [p \in Docs |-> FoldLeft(LAMBDA chs, c : Push(chs, c, grow), hist[d][p], cut(p))]
  IN  /\ d # e
      /\ \E p \in Docs : new(p) # <<>>
      /\ Becomes(d, [h |-> h, s |-> Replay(h), ix |-> NoIndex])

Import(d, e, grow) == Take(d, e, grow) /\ asked' = [asked EXCEPT ![d] = Shown(seq'[d])]

Next ==
  \/ \E d \in Docs, own \in BOOLEAN :
       LET n == Len(Shown(seq[d]))
       IN  \/ \E pos \in 0 .. n : InsertItem(d, pos, own)
           \/ \E pos \in 0 .. n - 1, k \in 1 .. MaxDelete : pos + k <= n /\ DeleteItems(d, pos, k, own)
           \/ Movable /\ \E from, to \in 0 .. n - 1 : from # to /\ MoveItem(d, from, to, own)
           \/ Movable /\ \E pos \in 0 .. n - 1 : SetItem(d, pos, own)
  \/ \E d, e \in Docs, grow \in Grows : Import(d, e, grow)

Spec == Init /\ [][Next]_vars

-----------------------------------------------------------------------------
(* Properties.                                                             *)

CountsExact(s) ==
  /\ s.live = LiveIn(s.nodes, 1, Len(s.nodes))
  /\ s.cur.ok => /\ s.cur.idx \in 1 .. Len(s.nodes)
                 /\ s.cur.before = LiveIn(s.nodes, 1, s.cur.idx - 1)

Matches(r, s) == ~r.bad /\ CountsExact(r) /\ r.nodes = s.nodes /\ r.elems = s.elems

(* The merge accepts the history, the sequence that local ops are put into *)
(* one at a time is the one the merge of the history would build, and its  *)
(* count and its cursor are exact (docState.applyLocal, rebuild).          *)
StateIsReplay ==
  \A d \in Docs : CountsExact(seq[d]) /\ Matches(Replay(hist[d]), seq[d])

(* Every call does to the list its user sees what it was asked to, whatever*)
(* deleted elements and lost positions lie between the items.              *)
EditsAsAsked == \A d \in Docs : Shown(seq[d]) = asked[d]

(* The index a MovableList keeps is the one that would be built anew.      *)
IndexIsBuilt == \A d \in Docs : index[d].ok => index[d] = BuildIndex(seq[d])

(* The history in another order that has causes first: of the changes that *)
(* can come next, the one of the highest peer.                             *)
BranchesFirst(h) ==
  LET all == Changes(h)
      has(done, i) == i[2] < 0 \/ \E c \in done : PeerOfChange(c) = i[1] /\ i[2] \in c.start .. EndOf(c) - 1
      next(done) == {c \in all \ done : \A i \in c.deps \cup {<<PeerOfChange(c), c.start - 1>>} : has(done, i)}
  IN  FoldLeft(LAMBDA chs, k :
                 Append(chs, CHOOSE c \in next(ToSet(chs)) :
                               \A b \in next(ToSet(chs)) : PeerOfChange(b) <= PeerOfChange(c)),
               <<>>, [k \in 1 .. Cardinality(all) |-> k])

IdsOf(nodes) == [i \in DOMAIN nodes |-> nodes[i].id]

(* The order of elements is that of the ops alone: merged branch by branch *)
(* rather than by lamports, as another implementation would that takes ops *)
(* as they arrive, they come out in one order; and two documents have the  *)
(* elements that both know in one order, whatever else each has seen.      *)
OrdersAgree ==
  \A d, e \in Docs :
    LET ids(a, b) == LET known == ToSet(IdsOf(seq[b].nodes))
                     IN  SelectSeq(IdsOf(seq[a].nodes), LAMBDA i : i \in known)
    IN  IF d = e
        THEN Merge(BranchesFirst(hist[d]), TRUE, TRUE).s.nodes = seq[d].nodes
        ELSE ids(d, e) = ids(e, d)

(* An element lies between its origins, and what lies between it and its   *)
(* left origin was put there by authors who had seen that origin: no run   *)
(* is torn apart by another that knew nothing of it.                       *)
RunsStayWhole ==
  \A d \in Docs :
    LET nodes == seq[d].nodes
        versions == Merge(InOrder(hist[d]), TRUE, TRUE).versions
        seen(id) == LET v == CHOOSE v \in versions : v.peer = id[1] /\ id[2] \in v.start .. v.end - 1
                    IN  [v.seen EXCEPT ![id[1]] = id[2]]
    IN  \A i, k \in DOMAIN nodes :
          /\ nodes[k].right = nodes[i].id => k < i
          /\ nodes[k].left = nodes[i].id =>
               i < k /\ \A j \in i + 1 .. k - 1 : Seen(seen(nodes[j].id), nodes[i].id)

(* Replaying every op against its author's view, and every delete by the   *)
(* ids it names, gives what the replay by short cuts and positions gives.  *)
ShortcutsExact ==
  \A d \in Docs : Merge(InOrder(hist[d]), FALSE, FALSE).s.nodes = seq[d].nodes

(* A move takes away a position of the element it moves.                   *)
MovesTakeTheirOwn ==
  \A d \in Docs : \A n \in ToSet(seq[d].nodes), c \in Changes(hist[d]) :
    \A op \in ToSet(c.ops) : op.kind = "move" /\ op.id \in n.dels => op.elem = n.elem
=============================================================================
