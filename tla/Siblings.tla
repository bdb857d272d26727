------------------------------- MODULE Siblings -------------------------------
(***************************************************************************)
(* The children of one tree node over a long run of edits, as far as their *)
(* order goes: the fractional indexes of the list (loro/tree.go            *)
(* positions).  Peers that put nodes into one gap without seeing each      *)
(* other give them the same index.                                         *)
(***************************************************************************)
EXTENDS FracIndex

CONSTANTS
  MaxSiblings,    \* bound: how many siblings the list gets
  MaxIndexLen     \* bound: how long their indexes get

VARIABLE line     \* the siblings' indexes, in order

Init == line = <<>>

Short(fis) == \A k \in DOMAIN fis : Len(fis[k]) <= MaxIndexLen

(* A node is put at place at; the siblings it shares an index with move.   *)
Put(at) ==
  \E fis \in Positions(line, at) :
    /\ Short(fis)
    /\ line' = SubSeq(line, 1, at) \o fis \o SubSeq(line, at + Len(fis), Len(line))

(* A node arrives that another peer put where sibling k was put.           *)
Twin(k) == line' = SubSeq(line, 1, k) \o SubSeq(line, k, Len(line))

Leave(k) == line' = SubSeq(line, 1, k - 1) \o SubSeq(line, k + 1, Len(line))

Next ==
  \/ /\ Len(line) < MaxSiblings
     /\ \/ \E at \in 0 .. Len(line) : Put(at)
        \/ \E k \in DOMAIN line : Twin(k)
  \/ \E k \in DOMAIN line : Leave(k)

Spec == Init /\ [][Next]_line

-----------------------------------------------------------------------------
(* A node always fits, wherever it is put (positions returns no error for  *)
(* indexes that peers made).  What it gets lies past the sibling before it,*)
(* and so do those that move with it, in their order and before the first  *)
(* that stays: no edit changes the order of the others, and no index is    *)
(* shared after it.                                                        *)
EvenlySpread ==
  \A at \in 0 .. Len(line) :
    /\ Positions(line, at) # {}
    /\ \A fis \in Positions(line, at) :
         LET after == SubSeq(line, at + Len(fis), Len(line))
         IN  /\ at > 0 => Less(line[at], fis[1])
             /\ \A k \in 1 .. Len(fis) - 1 : Less(fis[k], fis[k + 1])
             /\ after # <<>> => Less(fis[Len(fis)], after[1])
             /\ \A k \in DOMAIN fis : fis[k][Len(fis[k])] = Terminator
=============================================================================
