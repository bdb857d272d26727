------------------------------ MODULE SeqMerge ------------------------------
(***************************************************************************)
(* One sequence - a Text, a List or, when Movable, a MovableList - as the  *)
(* merge of a history (loro/seqmerge.go): its elements in document order,  *)
(* those that deletes removed among them.  Ops are kept in changes, folded *)
(* and cut as loro/txn.go, loro/oplog.go and loro/merge.go do.             *)
(*                                                                         *)
(* Ids are <<peer, counter>>.  Positions count from 0 as in the code,      *)
(* indexes of elements from 1.  The budget on steps is left out.           *)
(***************************************************************************)
EXTENDS Integers, Sequences, FiniteSets, SequencesExt

CONSTANTS
  Docs,     \* the documents, each with its number as peer id
  Movable   \* whether the container is a MovableList

ASSUME DocsAssumption == Docs \subseteq Nat /\ IsFiniteSet(Docs) /\ Movable \in BOOLEAN

None == <<-1, -1>>   \* no element

-----------------------------------------------------------------------------
(* Ops: their kind, id, len (their atoms), lam, and                        *)
(*   ins   pos                                                             *)
(*   del   pos, span: [first (the lowest id), len, negative when backwards]*)
(*   move  from, pos, elem                                                 *)
(*   set   elem                                                            *)
(*   mark  pos, end: where its two anchors go, and its style               *)
(*   end   nothing: it is the op after its mark                            *)
(* A change is [start, lam, deps, own, ops] of its peer; own when its time *)
(* or message keeps it apart from the change before it.                    *)

After(id, n) == <<id[1], id[2] + n>>

Forwards(s) == s.len > 0 \/ s.len = -1

Backwards(s) == s.len < 0 \/ s.len = 1

Abs(n) == IF n < 0 THEN -n ELSE n

(* The lowest position that a delete at pos takes.                         *)
LowPos(op) == IF op.span.len > 0 THEN op.pos ELSE op.pos + 1 + op.span.len

(* Whether delete b takes what follows what a took, in one direction.      *)
FoldsForwards(a, b) ==
  /\ Forwards(a.span) /\ Forwards(b.span)
  /\ a.pos = b.pos
  /\ b.span.first = After(a.span.first, Abs(a.span.len))

FoldsBackwards(a, b) ==
  /\ Backwards(a.span) /\ Backwards(b.span)
  /\ LowPos(a) = b.pos + 1
  /\ a.span.first = After(b.span.first, Abs(b.span.len))

CanFold(a, b, grow) ==
  /\ a.kind = b.kind
  /\ CASE a.kind = "ins" -> grow /\ a.pos + a.len = b.pos
       [] a.kind = "del" -> FoldsForwards(a, b) \/ FoldsBackwards(a, b)
       [] OTHER -> FALSE

FoldOps(a, b) ==
  IF a.kind = "ins" THEN [a EXCEPT !.len = a.len + b.len]
  ELSE [a EXCEPT !.len = a.len + b.len,
                 !.span = IF FoldsForwards(a, b)
                          THEN [first |-> a.span.first, len |-> a.len + b.len]
                          ELSE [first |-> b.span.first, len |-> -(a.len + b.len)]]

PushOp(ops, op, grow) ==
  IF ops # <<>> /\ CanFold(Last(ops), op, grow)
  THEN Append(Front(ops), FoldOps(Last(ops), op))
  ELSE Append(ops, op)

(* The n atoms of an op after its first k.  A backwards delete took its    *)
(* highest id first, and each after it one position to the left.           *)
Clip(op, k, n) ==
  LET part == [op EXCEPT !.id = After(op.id, k), !.len = n, !.lam = op.lam + k]
  IN  CASE n = op.len -> op
        [] n < op.len /\ op.kind = "ins" -> [part EXCEPT !.pos = op.pos + k]
        [] n < op.len /\ op.kind = "del" /\ op.span.len > 0 ->
             [part EXCEPT !.span = [first |-> After(op.span.first, k), len |-> n]]
        [] n < op.len /\ op.kind = "del" /\ op.span.len < 0 ->
             [part EXCEPT !.pos = op.pos - k,
                          !.span = [first |-> After(op.span.first, op.len - k - n), len |-> -n]]

EndOf(c) == LET op == Last(c.ops) IN After(op.id, op.len)[2]

PeerOfChange(c) == c.ops[1].id[1]

EndOfAll(chs) == IF chs = <<>> THEN 0 ELSE EndOf(Last(chs))

(* The part of a change from counter k up to counter n.                    *)
Slice(c, k, n) ==
  LET kept == SelectSeq(c.ops, LAMBDA op : op.id[2] + op.len > k /\ op.id[2] < n)
      low(op)  == IF op.id[2] < k THEN k - op.id[2] ELSE 0
      high(op) == IF op.id[2] + op.len > n THEN n - op.id[2] ELSE op.len
      ops == [i \in DOMAIN kept |-> Clip(kept[i], low(kept[i]), high(kept[i]) - low(kept[i]))]
  IN  IF k <= c.start THEN [c EXCEPT !.ops = ops]
      ELSE [c EXCEPT !.start = k, !.lam = c.lam + (k - c.start), !.ops = ops,
                     !.deps = {<<ops[1].id[1], k - 1>>}, !.own = FALSE]

(* The part of a change from counter k on.                                 *)
CutChange(c, k) == Slice(c, k, EndOf(c))

(* A peer's changes with one more, merged into the last one if it can be.  *)
Push(chs, c, grow) ==
  IF chs # <<>> /\ ~c.own /\ \E i \in c.deps : c.deps = {i} /\ i[1] = PeerOfChange(c)
  THEN [chs EXCEPT ![Len(chs)].ops =
          FoldLeft(LAMBDA ops, op : PushOp(ops, op, grow), Last(chs).ops, c.ops)]
  ELSE Append(chs, c)

-----------------------------------------------------------------------------
(* A merged sequence: [nodes, live, cur, elems, bad].  A node is           *)
(* [id, left, right, dels, elem]; elem names the element that a position   *)
(* of a MovableList holds, by the id of its insert, or the mark that an    *)
(* anchor of a Text belongs to, by the id of its op.                       *)

EmptySeq ==
  [nodes |-> <<>>, live |-> 0, cur |-> [ok |-> FALSE, idx |-> 1, before |-> 0],
   elems |-> [e \in {} |-> 0], bad |-> FALSE]

Seen(past, id) == id[2] < past[id[1]]

IsLive(n) == n.dels = {}

(* Variant: a delete that the author had not seen counts too               *)
(* (MovesTakeTheirOwn).                                                    *)
RemovedByAny(n, past) == n.dels # {}

RemovedIn(n, past) == \E x \in n.dels : Seen(past, x)

Visible(n, all, past) ==
  IF all THEN IsLive(n) ELSE Seen(past, n.id) /\ ~RemovedIn(n, past)

LiveIn(nodes, a, b) == Cardinality({i \in a .. b : IsLive(nodes[i])})

(* Where the fast path starts to walk from: the front, the back or the     *)
(* cursor, whichever is nearest to the live element wanted.                *)
WalkFrom(s, want) ==
  LET back == s.live - 1 - want
      ends == IF back < want THEN [idx |-> Len(s.nodes) + 1, before |-> s.live, dist |-> back]
              ELSE [idx |-> 1, before |-> 0, dist |-> want]
  IN  IF s.cur.ok /\ Abs(want - s.cur.before) <= ends.dist
      THEN [idx |-> s.cur.idx, before |-> s.cur.before]
      ELSE [idx |-> ends.idx, before |-> ends.before]

(* The index of the live element that want live ones precede, walking.     *)
WalkLive(s, want) ==
  LET w == WalkFrom(s, want)
      ahead == {i \in w.idx .. Len(s.nodes) :
                  IsLive(s.nodes[i]) /\ w.before + LiveIn(s.nodes, w.idx, i - 1) = want}
      behind == {i \in 1 .. w.idx - 1 :
                  IsLive(s.nodes[i]) /\ w.before - LiveIn(s.nodes, i, w.idx - 1) = want}
  IN  IF want >= w.before
      THEN IF ahead = {} THEN Len(s.nodes) ELSE CHOOSE i \in ahead : TRUE
      ELSE IF behind = {} THEN 1 ELSE CHOOSE i \in behind : TRUE

(* The pos-th visible element, counting from 1, with what finding it does  *)
(* to the sequence; a position past the author's view is an error.         *)
Locate(s, pos, all, past) ==
  LET seen == {i \in 1 .. Len(s.nodes) : Visible(s.nodes[i], all, past)}
      nth  == {i \in seen : Cardinality({j \in seen : j <= i}) = pos}
  IN  IF all
      THEN IF pos > s.live THEN [at |-> 0, s |-> [s EXCEPT !.bad = TRUE]]
           ELSE LET i == WalkLive(s, pos - 1)
                IN  [at |-> i, s |-> [s EXCEPT !.cur = [ok |-> TRUE, idx |-> i, before |-> pos - 1]]]
      ELSE IF nth = {} THEN [at |-> 0, s |-> [s EXCEPT !.bad = TRUE]]
           ELSE [at |-> CHOOSE i \in nth : TRUE, s |-> s]

(* Where a right origin lies when it is a right child of left: a set of at *)
(* most one index.                                                         *)
RightParent(nodes, start, left, right) ==
  {i \in start .. Len(nodes) : nodes[i].id = right /\ nodes[i].left = left}

(* An absent index comes after every index.                                *)
ComesBefore(a, b) == a # {} /\ (b = {} \/ \E i \in a, j \in b : i < j)

(* Variant: what the siblings were seen before does not count              *)
(* (OrdersAgree).                                                          *)
AlwaysAlike(theirs, ours) == TRUE

(* Whether neither right origin puts its element before the other.         *)
Alike(theirs, ours) == ~ComesBefore(theirs, ours) /\ ~ComesBefore(ours, theirs)

(* Variant: the scan goes on past elements that hang on none of those      *)
(* before (RunsStayWhole).                                                 *)
OnlySiblingsEnd(scan, other, left, alike, peer) ==
  other.left = left /\ alike /\ other.id[1] > peer

(* Whether the scan ends before the element: it hangs on none of those     *)
(* passed, or is a sibling that goes after the run.                        *)
EndsBefore(scan, other, left, alike, peer) ==
  \/ other.left # left /\ other.left \notin scan.visited
  \/ other.left = left /\ alike /\ other.id[1] > peer

(* One step of the scan over the elements concurrent with a run: past the  *)
(* run's siblings that go before it, with all that hangs on them.          *)
Scan(scan, i, nodes, start, left, right, peer) ==
  LET other  == nodes[i]
      ours   == RightParent(nodes, start, left, right)
      theirs == RightParent(nodes, start, left, other.right)
      scanning == IF other.left = left THEN ComesBefore(theirs, ours) ELSE scan.scanning
  IN  IF scan.stopped \/ EndsBefore(scan, other, left, Alike(theirs, ours), peer)
      THEN [scan EXCEPT !.stopped = TRUE]
      ELSE [scan EXCEPT !.visited = @ \cup {other.id}, !.scanning = scanning,
                        !.at = IF scanning THEN @ ELSE i + 1]

(* The index a run goes at, among nodes[start..end-1].                     *)
Integrate(nodes, start, end, left, right, peer) ==
  FoldLeft(LAMBDA scan, k : Scan(scan, start + k - 1, nodes, start, left, right, peer),
           [at |-> start, scanning |-> FALSE, visited |-> {}, stopped |-> FALSE],
           [k \in 1 .. end - start |-> k]).at

(* New elements from id on, each after the one before it.                  *)
Run(id, elems, left, right) ==
  [k \in DOMAIN elems |->
     [id |-> After(id, k - 1), left |-> IF k = 1 THEN left ELSE After(id, k - 2),
      right |-> right, dels |-> {}, elem |-> elems[k]]]

PutRun(s, run, at) ==
  [s EXCEPT !.nodes = SubSeq(@, 1, at - 1) \o run \o SubSeq(@, at, Len(@)),
            !.live = @ + Len(run),
            !.cur = IF @.ok /\ at <= @.idx
                    THEN [@ EXCEPT !.idx = @ + Len(run), !.before = @ + Len(run)] ELSE @]

(* Where the elements end that the author had not seen, from start on.     *)
FirstSeen(nodes, start, past) ==
  LET known == {i \in start .. Len(nodes) : Seen(past, nodes[i].id)}
  IN  IF known = {} THEN Len(nodes) + 1 ELSE CHOOSE i \in known : \A j \in known : i <= j

IdAt(nodes, i) == IF i \in DOMAIN nodes THEN nodes[i].id ELSE None

InsertBetween(s, id, elems, start, end, left, right) ==
  PutRun(s, Run(id, elems, left, right), Integrate(s.nodes, start, end, left, right, id[1]))

InsertAfter(found, id, elems, end) ==
  InsertBetween(found.s, id, elems, found.at + 1, end,
                IdAt(found.s.nodes, found.at), IdAt(found.s.nodes, end))

InsertFound(found, id, elems, all, past) ==
  IF found.s.bad THEN found.s
  ELSE InsertAfter(found, id, elems,
                   IF all THEN found.at + 1 ELSE FirstSeen(found.s.nodes, found.at + 1, past))

(* Inserts elements from id on after the pos-th visible one.               *)
Insert(s, id, pos, elems, all, past) ==
  InsertFound(IF pos = 0 THEN [at |-> 0, s |-> s] ELSE Locate(s, pos, all, past),
              id, elems, all, past)

(* Variant: the cursor counts an element ahead of it that is gone          *)
(* (StateIsReplay).                                                        *)
MarkOnly(s, i, x) ==
  [s EXCEPT !.nodes[i].dels = @ \cup {x}, !.live = IF IsLive(s.nodes[i]) THEN @ - 1 ELSE @]

(* Delete atom x takes the element at index i.                             *)
Mark(s, i, x) ==
  [s EXCEPT !.nodes[i].dels = @ \cup {x},
            !.live = IF IsLive(s.nodes[i]) THEN @ - 1 ELSE @,
            !.cur.before = IF IsLive(s.nodes[i]) /\ s.cur.ok /\ i < s.cur.idx THEN @ - 1 ELSE @]

(* Which atom of a delete takes the k-th element of its span, from 0.      *)
AtomFor(op, k) == After(op.id, IF op.span.len < 0 THEN op.len - 1 - k ELSE k)

(* A delete by position: the visible elements from its lowest position on. *)
RemoveByPos(s0, op, all, past) ==
  LET low   == LowPos(op)
      seen  == {i \in 1 .. Len(s0.nodes) : Visible(s0.nodes[i], all, past)}
      nth(k) == CHOOSE i \in seen : Cardinality({j \in seen : j < i}) = k
      s     == IF all THEN Locate(s0, low + 1, TRUE, past).s ELSE s0
  IN  IF low < 0 \/ low + op.len > Cardinality(seen) THEN [s0 EXCEPT !.bad = TRUE]
      ELSE FoldLeft(LAMBDA q, k : Mark(q, nth(low + k), AtomFor(op, k)), s, [k \in 1 .. op.len |-> k - 1])

(* Variant: the cursor is kept, though elements ahead of it go             *)
(* (StateIsReplay).                                                        *)
KeepCursor(ok, gone) == ok

(* Whether the cursor is kept when these indexes, unknown to it, go.       *)
StaysKnown(ok, gone) == ok /\ gone = {}

(* A delete by the ids of its span.                                        *)
RemoveByIds(s, op) ==
  LET k(n) == n.id[2] - op.span.first[2]
      hit  == {i \in 1 .. Len(s.nodes) :
                 s.nodes[i].id[1] = op.span.first[1] /\ k(s.nodes[i]) \in 0 .. op.len - 1}
      gone == {i \in hit : IsLive(s.nodes[i])}
  IN  [s EXCEPT !.nodes = [i \in 1 .. Len(s.nodes) |->
                             IF i \in hit
                             THEN [s.nodes[i] EXCEPT !.dels = @ \cup {AtomFor(op, k(s.nodes[i]))}]
                             ELSE s.nodes[i]],
                !.live = @ - Cardinality(gone),
                !.cur.ok = StaysKnown(@, gone)]

(* A writer is <<lamport, peer>>.                                          *)
Later(w, v) == w[1] > v[1] \/ (w[1] = v[1] /\ w[2] > v[2])

WriterOf(op) == <<op.lam, op.id[1]>>

(* The element takes the position that a move made for it, if the move is  *)
(* its latest writer.                                                      *)
TakePos(s, op) ==
  IF s.bad \/ ~Later(WriterOf(op), s.elems[op.elem].posWriter) THEN s
  ELSE [s EXCEPT !.elems[op.elem].pos = op.id, !.elems[op.elem].posWriter = WriterOf(op)]

MoveFrom(from, op, all, past) ==
  IF from.s.bad THEN from.s
  ELSE TakePos(Insert(Mark(from.s, from.at, op.id), op.id, op.pos, <<op.elem>>, all,
                      [past EXCEPT ![op.id[1]] = op.id[2] + 1]), op)

(* A move: the position it is from is removed and a new one goes in.       *)
MoveElem(s, op, all, past) ==
  IF op.elem \notin DOMAIN s.elems THEN s
  ELSE MoveFrom(Locate(s, op.from + 1, all, past), op, all, past)

(* A set: the element takes the value if the set is its latest writer.     *)
SetElem(s, op) ==
  IF op.elem \in DOMAIN s.elems /\ Later(WriterOf(op), s.elems[op.elem].valWriter)
  THEN [s EXCEPT !.elems[op.elem].val = op.id, !.elems[op.elem].valWriter = WriterOf(op)]
  ELSE s

IdsOfOp(op) == [k \in 1 .. op.len |-> After(op.id, k - 1)]

AddElems(s, op, new) ==
  LET w(i) == <<op.lam + i[2] - op.id[2], op.id[1]>>
  IN  IF s.bad THEN s
      ELSE [s EXCEPT !.elems = [i \in DOMAIN @ \cup new |->
              IF i \in new THEN [pos |-> i, posWriter |-> w(i), val |-> i, valWriter |-> w(i)]
              ELSE @[i]]]

(* An insert into a MovableList makes an element of each item.             *)
InsertElems(s, op, all, past) ==
  AddElems(Insert(s, op.id, op.pos, IdsOfOp(op), all, past), op, ToSet(IdsOfOp(op)))

(* A mark puts a start anchor where it begins, and the op after it an end  *)
(* anchor where its end has come to lie.                                   *)
AddMark(s, op) ==
  IF s.bad THEN s
  ELSE [s EXCEPT !.elems = [i \in DOMAIN @ \cup {op.id} |-> IF i = op.id THEN op ELSE @[i]]]

MarkStart(s, op, all, past) == AddMark(Insert(s, op.id, op.pos, <<op.id>>, all, past), op)

MarkEnd(s, op, all, past) ==
  LET mark == After(op.id, -1)
  IN  IF mark \notin DOMAIN s.elems THEN s
      ELSE Insert(s, op.id, s.elems[mark].end, <<mark>>, all, past)

(* Merges one op.  all says that its author had seen everything merged so  *)
(* far, else past says what; byPosition says how a delete is applied.      *)
Apply(s, op, all, past, byPosition) ==
  CASE s.bad -> s
    [] op.kind = "del" /\ byPosition /\ ~Movable -> RemoveByPos(s, op, all, past)
    [] op.kind = "del" /\ ~(byPosition /\ ~Movable) -> RemoveByIds(s, op)
    [] op.kind = "ins" /\ Movable -> InsertElems(s, op, all, past)
    [] op.kind = "ins" /\ ~Movable -> Insert(s, op.id, op.pos, [k \in 1 .. op.len |-> None], all, past)
    [] op.kind = "move" -> MoveElem(s, op, all, past)
    [] op.kind = "set" -> SetElem(s, op)
    [] op.kind = "mark" -> MarkStart(s, op, all, past)
    [] op.kind = "end" -> MarkEnd(s, op, all, past)

-----------------------------------------------------------------------------
(* The merge of a whole history: a function from peers to their changes.   *)

NoVersion == [p \in Docs |-> 0]

(* Changes are replayed in the order of lamports, then peers and counters. *)
Earlier(a, b) ==
  LET p == PeerOfChange(a)  q == PeerOfChange(b)
  IN  \/ a.lam < b.lam
      \/ a.lam = b.lam /\ (p < q \/ (p = q /\ a.start < b.start))

InOrder(history) ==
  LET all == UNION {ToSet(history[p]) : p \in Docs}
  IN  [k \in 1 .. Cardinality(all) |->
         CHOOSE c \in all : Cardinality({b \in all : Earlier(b, c)}) = k - 1]

(* What the author of a change had seen before it: its deps, its own ops   *)
(* before it and, versions being those of the changes replayed so far,     *)
(* what their authors had seen.                                            *)
VersionOf(c, versions) ==
  LET p    == PeerOfChange(c)
      ids  == c.deps \cup (IF c.start > 0 THEN {<<p, c.start - 1>>} ELSE {})
      holds(v, i) == v.peer = i[1] /\ i[2] \in v.start .. v.end - 1
      reach == {v.seen : v \in {v \in versions : \E i \in ids : holds(v, i)}}
      ends(q) == {0} \cup {i[2] + 1 : i \in {i \in ids : i[1] = q}} \cup {v[q] : v \in reach}
  IN  [q \in Docs |-> CHOOSE n \in ends(q) : \A m \in ends(q) : m <= n]

(* Variant: an op takes the place of all that went before                  *)
(* (ShortcutsExact).                                                       *)
OnlyLast(frontier, op, inView, past) == {After(op.id, op.len - 1)}

(* The maximal ops merged, after op.                                       *)
NextFrontier(frontier, op, inView, past) ==
  LET last == After(op.id, op.len - 1)
  IN  IF inView THEN {last}
      ELSE {f \in frontier : ~Seen(past, f) /\ (f[1] # op.id[1] \/ f[2] > last[2])} \cup {last}

(* One op of change c in the replay m = [s, frontier, versions].           *)
ReplayOp(m, c, version, op, fast, byPosition) ==
  LET deps   == IF op.id[2] = c.start THEN c.deps ELSE {After(op.id, -1)}
      inView == fast /\ deps = m.frontier
      past   == [version EXCEPT ![op.id[1]] = op.id[2]]
  IN  [m EXCEPT !.s = Apply(@, op, inView, past, byPosition),
                !.frontier = NextFrontier(@, op, inView, past)]

Versioned(m, c, version) ==
  [m EXCEPT !.versions =
     @ \cup {[peer |-> PeerOfChange(c), start |-> c.start, end |-> EndOf(c), seen |-> version]}]

ReplaySeen(m, c, version, fast, byPosition) ==
  Versioned(FoldLeft(LAMBDA n, op : ReplayOp(n, c, version, op, fast, byPosition), m, c.ops),
            c, version)

ReplayChange(m, c, fast, byPosition) ==
  ReplaySeen(m, c, VersionOf(c, m.versions), fast, byPosition)

(* fast is whether the merge takes its short cut for an op whose author    *)
(* saw everything merged before it; the code always does.                  *)
Merge(changes, fast, byPosition) ==
  FoldLeft(LAMBDA m, c : ReplayChange(m, c, fast, byPosition),
           [s |-> EmptySeq, frontier |-> {}, versions |-> {}], changes)

Replay(history) == Merge(InOrder(history), TRUE, TRUE).s
=============================================================================
