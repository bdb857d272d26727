------------------------------ MODULE PeerMaps ------------------------------
(***************************************************************************)
(* A history's frontiers, or a version vector, kept in a PeerTable         *)
(* (loro/frontiers.go, loro/version.go), beside the plain map that they    *)
(* stand for.                                                              *)
(***************************************************************************)
EXTENDS Integers, Sequences, FiniteSets, SequencesExt

CONSTANTS
  Groups,    \* widths of a group: 8 in the code
  Peers,     \* the peers
  Local,     \* the document's own peer
  StartOf, TagOf,
  Counters,  \* bound: the counters that each peer's entry may have
  MaxItems   \* bound: the entries of a table, by the width of a group

ASSUME TableAssumption ==
  /\ Groups \subseteq {4, 8}
  /\ Local \in Peers
  /\ StartOf \in [Peers -> Nat]
  /\ TagOf \in [Peers -> Nat]
  /\ Counters \in [Peers -> SUBSET (Nat \ {0})]
  /\ MaxItems \in [Groups -> Nat]

VARIABLES
  group,  \* the width of a group, which never changes
  use,    \* "frontiers" or "version"
  kept,   \* frontiers, [one, tab]; a version vector is the table of one
  held    \* what a map from peer to counter would hold

vars == <<group, use, kept, held>>

INSTANCE PeerTable WITH Group <- group

Init ==
  /\ group \in Groups
  /\ use \in {"frontiers", "version"}
  /\ kept = NoFrontiers
  /\ held = [p \in {} |-> 0]

Without(map, p) == [q \in DOMAIN map \ {p} |-> map[q]]

With(map, p, n) == [q \in DOMAIN map \cup {p} |-> IF q = p THEN n ELSE map[q]]

WithLater(map, id) ==
  IF id[1] \in DOMAIN map /\ map[id[1]] >= id[2] THEN map ELSE With(map, id[1], id[2])

WithoutId(map, id) ==
  IF id[1] \in DOMAIN map /\ map[id[1]] = id[2] THEN Without(map, id[1]) ELSE map

Ids == UNION {{p} \X Counters[p] : p \in Peers}

(* The deps of a change, by peer: none, an op that may be a head no more,  *)
(* or two heads.  Bound: the first of two heads is the first by peer.      *)
DepLists ==
  LET heads == {<<p, held[p]>> : p \in DOMAIN held}
      first == {i \in heads : \A j \in heads : i[1] <= j[1]}
  IN  {<<>>} \cup {<<i>> : i \in Ids} \cup (first \X (heads \ first))

(* A change becomes a head and its deps are none any more; a peer that was *)
(* a head is one of its deps.                                              *)
NewChange(last, deps) ==
  /\ use = "frontiers"
  /\ last[1] \in DOMAIN held => \E k \in DOMAIN deps : deps[k][1] = last[1]
  /\ kept' = Updated(kept, last, deps)
  /\ held' = WithLater(FoldLeft(WithoutId, held, deps), last)
  /\ UNCHANGED <<group, use>>

(* The ids are written and read back: by EncodeFrontiers sorted by peer,   *)
(* by a change's deps in their order.                                      *)
ReadBackFrontiers(sorted) ==
  LET ids == FrontierIds(kept)
  IN  /\ use = "frontiers"
      /\ kept' = FrontiersOf(IF sorted THEN SortSeq(ids, LAMBDA a, b : a[1] < b[1]) ELSE ids)
      /\ UNCHANGED <<group, use, held>>

SetTable(t) == kept' = [kept EXCEPT !.tab = t]

(* SetEnd, a counter of 0 taking the peer out.                             *)
SetEnd(p, n) ==
  /\ use = "version"
  /\ IF n = 0
     THEN SetTable(RemoveKey(kept.tab, p)) /\ held' = Without(held, p)
     ELSE SetTable(InsertAlways(kept.tab, <<p, n>>)) /\ held' = With(held, p, n)
  /\ UNCHANGED <<group, use>>

(* An imported change counts (insertRemote).                               *)
CountRemote(p, n) ==
  /\ use = "version"
  /\ SetTable(InsertMax(kept.tab, <<p, n>>))
  /\ held' = WithLater(held, <<p, n>>)
  /\ UNCHANGED <<group, use>>

(* Local ops count when the version is next asked for: noteLocalOps, which *)
(* makes up for any number of them with two inserts.                       *)
NoteLocalOps(n) ==
  /\ use = "version"
  /\ SetTable(InsertAlways(InsertAlways(kept.tab, <<Local, n>>), <<Local, n>>))
  /\ held' = With(held, Local, n)
  /\ UNCHANGED <<group, use>>

(* Encode, then DecodeVersionVector.                                       *)
ReadBackVersion ==
  /\ use = "version"
  /\ SetTable(FoldLeft(InsertAlways, WithCapacity(kept.tab.items), IdsIn(kept.tab)))
  /\ UNCHANGED <<group, use, held>>

Room(p) == p \in DOMAIN held \/ Cardinality(DOMAIN held) < MaxItems[group]

Next ==
  \/ \E deps \in DepLists, last \in Ids : Room(last[1]) /\ NewChange(last, deps)
  \/ \E sorted \in BOOLEAN : ReadBackFrontiers(sorted)
  \/ \E id \in Ids : Room(id[1]) /\ (SetEnd(id[1], id[2]) \/ CountRemote(id[1], id[2]))
  \/ \E p \in Peers : SetEnd(p, 0)
  \/ Room(Local) /\ \E n \in Counters[Local] : NoteLocalOps(n)
  \/ ReadBackVersion

Spec == Init /\ [][Next]_vars

-----------------------------------------------------------------------------
(* Properties.                                                             *)

(* A table has an empty byte, so that every probe for an absent peer ends, *)
(* and the room it counts is what is there: growthLeft, which tombstones   *)
(* take up until a rehash.                                                 *)
RoomIsExact(t) ==
  LET bytes(c) == Cardinality({b \in DOMAIN t.ids : t.ctrl[b] = c})
  IN  /\ t.left = CapacityOf(Buckets(t)) - t.items - bytes(Deleted)
      /\ t.left >= 0
      /\ bytes(Empty) > 0

(* The table holds what a map would: a lookup finds each peer of the map   *)
(* with its counter and no other, whatever was removed and rehashed before *)
(* (fxTable.find, remove), listing gives each entry once, and its room is  *)
(* exact.                                                                  *)
TableIsMap ==
  /\ LET ids == IF use = "frontiers" THEN FrontierIds(kept) ELSE IdsIn(kept.tab)
     IN  /\ Len(ids) = Cardinality(DOMAIN held)
         /\ ToSet(ids) = {<<p, held[p]>> : p \in DOMAIN held}
  /\ IsTable(kept) =>
       /\ RoomIsExact(kept.tab)
       /\ \A p \in Peers : {kept.tab.ids[b] : b \in Find(kept.tab, p)}
                             = IF p \in DOMAIN held THEN {<<p, held[p]>>} ELSE {}
=============================================================================
