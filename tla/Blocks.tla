------------------------------- MODULE Blocks -------------------------------
(***************************************************************************)
(* The change store of a document (loro/oplog.go changeStore): each peer's *)
(* changes in blocks, with a running estimate of what a block would take.  *)
(* An imported change too large for a block is split first.                *)
(*                                                                         *)
(* Sizes are those of a List: four bytes an item.  A definition whose      *)
(* comment starts with "Variant:" is the definition after it with a bug.   *)
(***************************************************************************)
EXTENDS SeqMerge

CONSTANT Limit   \* storeBlockLimit

(* The head of a change and one item fit in a block, whatever its deps.    *)
ASSUME LimitAssumption == Limit \in Nat /\ Limit >= 4 * (Cardinality(Docs) + 1)

OpSize(op) ==
  CASE op.kind = "ins" -> 4 * op.len
    [] op.kind \in {"del", "move"} -> 8
    [] op.kind = "set" -> 7

ChangeSize(c) ==
  4 * (IF Cardinality(c.deps) > 1 THEN Cardinality(c.deps) ELSE 1)
    + FoldLeft(LAMBDA n, op : n + OpSize(op), 0, c.ops)

CanMergeRight(a, b) ==
  /\ b.start = EndOf(a)
  /\ ~b.own
  /\ \E i \in b.deps : b.deps = {i} /\ i[1] = PeerOfChange(a)

(* Change c's ops go into the last change of block b: one that folds adds  *)
(* nothing to the estimate.                                                *)
MergedRight(b, c, grow) ==
  LET n == Len(b.changes)
      ops == b.changes[n].ops
      all == [k \in 0 .. Len(c.ops) |->
                FoldLeft(LAMBDA s, op : PushOp(s, op, grow), ops, SubSeq(c.ops, 1, k))]
      apart == SelectSeq([k \in DOMAIN c.ops |-> k], LAMBDA k : ~CanFold(Last(all[k - 1]), c.ops[k], grow))
  IN  [changes |-> [b.changes EXCEPT ![n].ops = all[Len(c.ops)]], end |-> EndOf(c),
       size |-> FoldLeft(LAMBDA z, k : z + OpSize(c.ops[k]), b.size, apart)]

(* storeBlock.push: c goes into the last change of a block with room, or,  *)
(* a single op that folds, of any; else after it if there is room.         *)
Pushed(b, c, grow) ==
  LET full == ChangeSize(c) + b.size > Limit
      last == Last(b.changes)
      folds == Len(c.ops) = 1 /\ CanFold(Last(last.ops), c.ops[1], grow)
  IN  CASE CanMergeRight(last, c) /\ (~full \/ folds) -> {MergedRight(b, c, grow)}
        [] ~full /\ ~CanMergeRight(last, c) ->
             {[changes |-> Append(b.changes, c), end |-> EndOf(c), size |-> b.size + ChangeSize(c)]}
        [] OTHER -> {}

(* changeStore.insert, for a change that is not split.                     *)
InsertWhole(blocks, c, grow) ==
  LET into == IF blocks # <<>> /\ Last(blocks).end = c.start THEN Pushed(Last(blocks), c, grow) ELSE {}
  IN  IF into = {} THEN Append(blocks, [changes |-> <<c>>, end |-> EndOf(c), size |-> ChangeSize(c)])
      ELSE Append(Front(blocks), CHOOSE b \in into : TRUE)

(* Variant: the piece that follows depends on what the whole change did    *)
(* (StoreHoldsHistory).                                                    *)
NextPieceKeepsDeps(piece) ==
  [piece EXCEPT !.start = EndOf(piece), !.lam = piece.lam + EndOf(piece) - piece.start,
                !.own = FALSE, !.ops = <<>>]

NextPiece(piece) ==
  [start |-> EndOf(piece), lam |-> piece.lam + EndOf(piece) - piece.start,
   deps |-> {<<PeerOfChange(piece), EndOf(piece) - 1>>}, own |-> FALSE, ops |-> <<>>]

(* The split of a change: w is [blocks, piece, size].                      *)
Flushed(w, grow) ==
  IF w.piece.ops = <<>> THEN w
  ELSE LET next == NextPiece(w.piece)
       IN  [blocks |-> InsertWhole(w.blocks, w.piece, grow), piece |-> next, size |-> ChangeSize(next)]

WithOp(w, op, grow) == [w EXCEPT !.piece.ops = PushOp(@, op, grow)]

(* An insert is cut where the room runs out (fitsIn): v is [w, op], op what *)
(* is left.                                                                *)
CutOp(v, grow) ==
  LET room == Limit - v.w.size
      fit  == room \div 4
  IN  IF v.op.kind # "ins" \/ OpSize(v.op) <= room THEN v
      ELSE [w  |-> Flushed(WithOp(v.w, Clip(v.op, 0, fit), grow), grow),
            op |-> Clip(v.op, fit, v.op.len - fit)]

PutRest(v, grow) ==
  LET w == [v.w EXCEPT !.size = @ + OpSize(v.op)]
  IN  WithOp(IF w.size > Limit THEN Flushed(w, grow) ELSE w, v.op, grow)

(* A cut takes an item at least, so there are no more than its items.      *)
PutOp(w, op, grow) ==
  PutRest(FoldLeft(LAMBDA v, k : CutOp(v, grow), [w |-> w, op |-> op], [k \in 1 .. op.len |-> k]), grow)

SplitThenInsert(blocks, c, grow) ==
  LET empty == [c EXCEPT !.ops = <<>>]
      put(w, op) == PutOp(IF OpSize(op) >= Limit - w.size THEN Flushed(w, grow) ELSE w, op, grow)
      start == [blocks |-> blocks, piece |-> empty, size |-> ChangeSize(empty)]
  IN  Flushed(FoldLeft(put, start, c.ops), grow).blocks

Stored(blocks, c, grow) ==
  IF ChangeSize(c) > Limit THEN SplitThenInsert(blocks, c, grow) ELSE InsertWhole(blocks, c, grow)

ChangesIn(blocks) == FlattenSeq([i \in DOMAIN blocks |-> blocks[i].changes])

(* changeStore.find: the change that holds a counter, if there is one: in  *)
(* the first block that ends past it the first change that does.           *)
FindChange(blocks, ctr) ==
  LET inBlock  == SelectInSeq(blocks, LAMBDA b : b.end > ctr)
      changes  == IF inBlock = 0 THEN <<>> ELSE blocks[inBlock].changes
      inChange == SelectInSeq(changes, LAMBDA c : EndOf(c) > ctr)
  IN  {changes[i] : i \in {i \in {inChange} \ {0} : changes[i].start <= ctr}}
=============================================================================
