------------------------------ MODULE Containers ------------------------------
(***************************************************************************)
(* Containers stored in containers, in several documents                   *)
(* (loro/containers.go, mergeable.go, nested.go, handles.go, docstate.go). *)
(*                                                                         *)
(* A child is named by the op that placed it, a mergeable child by its     *)
(* path.  What a document shows is found from the roots down (resolver),   *)
(* whether a container is deleted from the container up (deleted), through *)
(* a cache of each map's winners that local ops keep.                      *)
(*                                                                         *)
(* A document knows a set of ops, closed under what their authors had      *)
(* seen.  The order of list items and of siblings in a tree is left out:   *)
(* it is SeqMerge's and MovableTree's, as is the index of a tree.          *)
(*                                                                         *)
(* A definition whose comment starts with "Variant:" is not the code: it   *)
(* is the definition after it with a plausible bug.                        *)
(***************************************************************************)
EXTENDS Integers, FiniteSets, SequencesExt

CONSTANTS
  Docs,     \* the documents, each a peer id below 10
  Scenes    \* what the documents are used for, one of them from the start:
            \* roots, taken, keys, kinds, plain, ensured, copied, budget

ASSUME ScenesAssumption == Docs \subseteq Nat /\ \A s \in Scenes : IsFiniteSet(s.roots)

VARIABLES
  scene,    \* the scene, which stays
  ops,      \* the ops made, by the id <<peer, counter>> of their atom
  known,    \* the ids of the ops in each document
  winners,  \* docState.maps: the last op of each key, for the maps asked for
  order,    \* Document.rootOrder: the roots in the order they became known
  taken,    \* Document.acquired: the roots a handle was taken on
  asked     \* what the user saw after the last import, with each call since

vars == <<scene, ops, known, winners, order, taken, asked>>

-----------------------------------------------------------------------------
(* Names.  A name is a sequence of characters, the prefix of mergeable     *)
(* names one of them.                                                      *)

Prefix == "M:"

Digit == <<"0", "1", "2", "3", "4", "5", "6", "7", "8", "9">>

Escape(s) ==
  FlattenSeq([i \in DOMAIN s |-> IF s[i] \in {"\\", ">"} THEN <<"\\", s[i]>> ELSE <<s[i]>>])

(* The places of s that a backslash before them escapes.                   *)
Escaped(s) ==
  LET esc[i \in 0 .. Len(s)] == i > 1 /\ s[i - 1] = "\\" /\ ~esc[i - 1]
  IN  {i \in DOMAIN s : esc[i]}

Separators(s) == {i \in DOMAIN s : s[i] = ">"} \ Escaped(s)

Unescape(s) ==
  LET kept == SelectSeq([i \in DOMAIN s |-> i], LAMBDA i : s[i] # "\\" \/ i \in Escaped(s))
  IN  [i \in DOMAIN kept |-> s[kept[i]]]

Least(S) == CHOOSE i \in S : \A j \in S : i <= j
Greatest(S) == CHOOSE i \in S : \A j \in S : i >= j

Kinds == {"Map", "List", "MovableList", "Tree", "Counter"}

ContKeys == [root : BOOLEAN, name : Seq(STRING), kind : Kinds]

RootKey(name, kind) == [root |-> TRUE, name |-> name, kind |-> kind]

(* The container that the value of atom id places.                         *)
ChildKey(id, kind) ==
  [root |-> FALSE, name |-> <<Digit[id[2] + 1], "@", Digit[id[1] + 1]>>, kind |-> kind]

(* The atom that placed a container of that name (parseStoredID).          *)
AtomOf(name) ==
  LET value(c) == (CHOOSE i \in DOMAIN Digit : Digit[i] = c) - 1
  IN  <<value(name[3]), value(name[1])>>

(* The names of mergeable children: roots of a user do not begin so.       *)
IsMergeable(name) == name[1] = Prefix

(* newMergeableParent: what the names of a map's mergeable children start  *)
(* with.                                                                   *)
PathName(c) ==
  IF ~c.root THEN <<"@", c.name[3], ":", c.name[1]>>
  ELSE IF IsMergeable(c.name) THEN Tail(c.name)
  ELSE <<"$">> \o Escape(c.name)

MergeableKey(parent, key, kind) ==
  RootKey(<<Prefix>> \o PathName(parent) \o <<">">> \o Escape(key), kind)

(* mergeableParentOf: the map and the key in a mergeable child's name.     *)
ParentAndKey(name) ==
  LET path == Tail(name)
      cut == Greatest(Separators(path))
      base == SubSeq(path, 1, cut - 1)
  IN  <<IF cut # Least(Separators(path)) THEN RootKey(<<Prefix>> \o base, "Map")
        ELSE IF base[1] = "$" THEN RootKey(Unescape(Tail(base)), "Map")
        ELSE [root |-> FALSE, name |-> <<base[4], "@", base[2]>>, kind |-> "Map"],
        Unescape(SubSeq(path, cut + 1, Len(path)))>>

-----------------------------------------------------------------------------
(* Values: a plain one, the kind of the container it places, or a marker,  *)
(* whose digest binds it to a map, a key and a kind.                       *)

Plain(v) == [is |-> "plain", v |-> v]
OfKind(kind) == [is |-> "cont", kind |-> kind]
Marker(c, key, kind) == [is |-> "marker", map |-> c, key |-> key, kind |-> kind]

NoValue == Plain("null")

(* The mergeable child that value v activates at key of map c.             *)
Activates(c, key, v) == v.is = "marker" /\ v.map = c /\ v.key = key

(* Whether v, which op id stored at key of map c, places a container, and  *)
(* which.                                                                  *)
Places(c, key, v) == v.is = "cont" \/ Activates(c, key, v)
PlacedBy(c, key, id, v) ==
  IF v.is = "cont" THEN ChildKey(id, v.kind) ELSE MergeableKey(c, key, v.kind)

(* A value that places nothing, as it shows.                               *)
AsShown(v) == IF v.is = "marker" THEN <<"bytes", v.kind>> ELSE <<"plain", v.v>>

-----------------------------------------------------------------------------
(* What the ops a document knows make of a container.                      *)

OpsOf(d, c) == {i \in known[d] : ops[i].cont = c}

(* sortedOps: by lamport, then peer.                                       *)
Before(i, j) ==
  ops[i].lam < ops[j].lam \/ (ops[i].lam = ops[j].lam /\ i[1] < j[1])

LastOf(S) == CHOOSE i \in S : \A j \in S \ {i} : Before(j, i)

Keyed(d, c, key) == {i \in OpsOf(d, c) : ops[i].key = key}

(* The items of a List that no delete names.                               *)
LiveItems(d, c) ==
  {i \in OpsOf(d, c) : ops[i].act = "ins" /\ \A j \in OpsOf(d, c) : ops[j].act = "rem" => ops[j].item # i}

(* A MovableList's elements: the op that placed each where it is, and the  *)
(* one that gave it its value.                                             *)
Elems(d, c) == {ops[i].elem : i \in {i \in OpsOf(d, c) : ops[i].act = "ins"}}

PositionOf(d, c, e) == LastOf({i \in OpsOf(d, c) : ops[i].act \in {"ins", "move"} /\ ops[i].elem = e})
ValueOf(d, c, e) == LastOf({i \in OpsOf(d, c) : ops[i].act \in {"ins", "set"} /\ ops[i].elem = e})

(* A delete and a move take away the position they name.                   *)
Held(d, c, e) ==
  \A j \in OpsOf(d, c) : ops[j].act \in {"rem", "move"} => ops[j].item # PositionOf(d, c, e)

TreeRoot == <<>>
DeletedRoot == <<0>>

(* Each node of a Tree, with its parent.                                   *)
NodesOf(d, c) ==
  {<<n, ops[LastOf({i \in OpsOf(d, c) : ops[i].node = n})].parent>> : n \in {ops[i].node : i \in OpsOf(d, c)}}

(* The nodes of tree that are in S or below one of them.                   *)
Below(tree, S) ==
  LET below[k \in 0 .. Cardinality(tree)] ==
        IF k = 0 THEN S
        ELSE LET found == below[k - 1] IN found \cup {e[1] : e \in {e \in tree : e[2] \in found}}
  IN  below[Cardinality(tree)]

(* The nodes that buildTree lists, from the root down.                     *)
NodesShown(d, c) == Below(NodesOf(d, c), {TreeRoot}) \ {TreeRoot}

(* treeIndex.alive: the walk from a node up.                               *)
IsAlive(tree, n) ==
  LET above[k \in 0 .. Cardinality(tree)] ==
        IF k = 0 THEN {n}
        ELSE LET found == above[k - 1] IN found \cup {e[2] : e \in {e \in tree : e[1] \in found}}
  IN  TreeRoot \in above[Cardinality(tree)]

SumOf(d, c) == Cardinality({i \in OpsOf(d, c) : ops[i].by = 1})

-----------------------------------------------------------------------------
(* The resolver: what a container shows, by slots: the keys of a map, the  *)
(* ops of a list's items, elements, nodes.                                 *)

Shown(slot, id, val) == [slot |-> slot, id |-> id, val |-> val]

Slots(d, c) ==
  CASE c.kind = "Map" ->
         {Shown(ops[i].key, i, ops[i].val) :
            i \in {i \in {LastOf(Keyed(d, c, key)) : key \in {ops[i].key : i \in OpsOf(d, c)}} : ops[i].act = "set"}}
    [] c.kind = "List" -> {Shown(i, i, ops[i].val) : i \in LiveItems(d, c)}
    [] c.kind = "MovableList" ->
         {Shown(ops[i].elem, i, ops[i].val) : i \in {ValueOf(d, c, e) : e \in {e \in Elems(d, c) : Held(d, c, e)}}}
    [] c.kind = "Tree" -> {Shown(n, n, OfKind("Map")) : n \in NodesShown(d, c)}
    [] OTHER -> {}

Kids(d, c) ==
  {<<s.slot, PlacedBy(c, s.slot, s.id, s.val)>> : s \in {s \in Slots(d, c) : Places(c, s.slot, s.val)}}

Leaves(d, c) == {<<s.slot, AsShown(s.val)>> : s \in {s \in Slots(d, c) : ~Places(c, s.slot, s.val)}}

(* The containers reached from those of S, each with its path.             *)
Reached(d, S) ==
  LET under[c \in ContKeys] ==
        {<<<<>>, c>>} \cup
        UNION {{<<<<kid[1]>> \o p[1], p[2]>> : p \in under[kid[2]]} : kid \in Kids(d, c)}
  IN  UNION {{<<p[1] \o q[1], q[2]>> : q \in under[p[2]]} : p \in S}

(* A container and its leaves, as JSON shows them at a path.  One without  *)
(* ops shows its kind's empty value.                                       *)
Entries(d, S) ==
  UNION {{<<p[1], <<p[2].kind, IF p[2].kind = "Counter" THEN SumOf(d, p[2]) ELSE 0>>>>}
           \cup {<<Append(p[1], l[1]), l[2]>> : l \in Leaves(d, p[2])} : p \in Reached(d, S)}

Has(d, c) == OpsOf(d, c) # {}

(* The roots that JSON may show.                                           *)
Candidates(d) == {c \in ToSet(order[d]) : c \in taken[d] \/ Has(d, c)}

RootPath(c) == <<<<c.kind>> \o c.name>>

JSON(d) == Entries(d, {<<RootPath(c), c>> : c \in Candidates(d)})

EmptyRoot(d, c) == c.kind # "Counter" /\ Slots(d, c) = {}

(* Variant: the last root of a name shows (NothingHidden).                 *)
TakesLast(d, old, c) == TRUE

(* Whether root c shows rather than old, which has its name.               *)
TakesName(d, old, c) == EmptyRoot(d, old) \/ ~EmptyRoot(d, c)

(* The roots picked so far, and c, the next in the order they became known.*)
WithRoot(d, picked, c) ==
  IF c \notin Candidates(d) THEN picked
  ELSE IF \E old \in picked : old.name = c.name
       THEN {IF old.name = c.name /\ TakesName(d, old, c) THEN c ELSE old : old \in picked}
       ELSE picked \cup {c}

(* visibleRoots: the root that shows for each name.                        *)
VisibleRoots(d) ==
  LET picked[k \in 0 .. Len(order[d])] ==
        IF k = 0 THEN {} ELSE WithRoot(d, picked[k - 1], order[d][k])
  IN  picked[Len(order[d])]

-----------------------------------------------------------------------------
(* Whether a container is deleted.                                         *)

NoOp == <<>>

LastOps(d, c) == [key \in {ops[i].key : i \in OpsOf(d, c)} |-> LastOf(Keyed(d, c, key))]

(* The winners a document keeps once those of the maps in S were asked for.*)
Built(d, S) ==
  [c \in DOMAIN winners[d] \cup S |-> IF c \in DOMAIN winners[d] THEN winners[d][c] ELSE LastOps(d, c)]

(* mapEntry: the op that decides a key, if that is set.                    *)
MapEntry(d, c, key) ==
  LET last == Built(d, {c})[c]
  IN  IF key \in DOMAIN last /\ ops[last[key]].act = "set" THEN last[key] ELSE NoOp

IsTop(c) == c.root /\ ~IsMergeable(c.name)

(* The container that c is placed in, and its slot there.                  *)
ParentAndSlot(c) ==
  LET id == AtomOf(c.name)
      parent == ops[id].cont
  IN  IF c.root THEN ParentAndKey(c.name)
      ELSE <<parent, CASE parent.kind = "Map" -> ops[id].key
                       [] parent.kind = "MovableList" -> ops[id].elem
                       [] OTHER -> id>>

(* The containers from c up to its root.                                   *)
WayUp[c \in ContKeys] ==
  IF IsTop(c) THEN <<c>> ELSE <<c>> \o WayUp[ParentAndSlot(c)[1]]

PathOf[c \in ContKeys] ==
  IF IsTop(c) THEN RootPath(c)
  ELSE LET up == ParentAndSlot(c) IN Append(PathOf[up[1]], up[2])

(* holder: whether the container that c was placed in holds it now.        *)
HoldsChild(d, c) ==
  LET id == AtomOf(c.name)
      op == ops[id]
      parent == op.cont
  IN  CASE parent.kind = "Map" -> MapEntry(d, parent, op.key) = id /\ op.val = OfKind(c.kind)
        [] parent.kind = "List" -> id \in LiveItems(d, parent) /\ op.val = OfKind(c.kind)
        [] parent.kind = "MovableList" ->
             ValueOf(d, parent, op.elem) = id /\ Held(d, parent, op.elem) /\ op.val = OfKind(c.kind)
        [] parent.kind = "Tree" -> c.kind = "Map" /\ IsAlive(NodesOf(d, parent), id)

HoldsMergeable(d, c) ==
  LET up == ParentAndKey(c.name)
      cur == MapEntry(d, up[1], up[2])
  IN  /\ cur # NoOp
      /\ Activates(up[1], up[2], ops[cur].val)
      /\ MergeableKey(up[1], up[2], ops[cur].val.kind) = c

IsHeld(d, c) == IF c.root THEN HoldsMergeable(d, c) ELSE HoldsChild(d, c)

(* Document.deleted: the walk up stops at the first that is not held.      *)
IsDeleted(d, c) == \E b \in ToSet(WayUp[c]) : ~IsTop(b) /\ ~IsHeld(d, b)

(* The maps whose winners that walk asks for.                              *)
AskedOn(d, c) ==
  LET way == WayUp[c]
      asks(i) == \A j \in 1 .. i - 1 : IsHeld(d, way[j])
  IN  {way[i + 1] : i \in {i \in 1 .. Len(way) - 1 : way[i + 1].kind = "Map" /\ asks(i)}}

(* Document.creates: whether op id of its document placed a container of   *)
(* kind.                                                                   *)
Creates(id, kind) ==
  IF ops[id].act = "node" THEN kind = "Map" /\ ops[id].node = id
  ELSE ops[id].act \in {"set", "ins"} /\ ops[id].val = OfKind(kind)

(* The mergeable children that a document has a marker of.                 *)
Marked(d) ==
  {MergeableKey(v.map, v.key, v.kind) :
     v \in {ops[i].val : i \in {i \in known[d] : ops[i].act \in {"set", "ins"} /\ ops[i].val.is = "marker"}}}

(* The containers that GetContainer gives a handle on, and the roots.      *)
Handles(d) ==
  taken[d]
    \cup {ChildKey(x[1], x[2]) : x \in {x \in known[d] \X Kinds : Creates(x[1], x[2])}}
    \cup {c \in Marked(d) : Has(d, c) \/ ~IsDeleted(d, c)}

-----------------------------------------------------------------------------
(* The operations of a document.                                           *)

Init ==
  /\ scene \in Scenes
  /\ ops = [i \in {} |-> 0]
  /\ known = [d \in Docs |-> {}]
  /\ winners = [d \in Docs |-> [c \in {} |-> 0]]
  /\ order = [d \in Docs |-> IF scene.taken THEN SetToSeq(scene.roots) ELSE <<>>]
  /\ taken = [d \in Docs |-> IF scene.taken THEN scene.roots ELSE {}]
  /\ asked = [d \in Docs |-> IF scene.taken THEN {<<RootPath(c), <<c.kind, 0>>>> : c \in scene.roots} ELSE {}]

(* Taking a handle on a root makes it part of the document.                *)
TakeRoot(d, c) ==
  /\ c \in scene.roots \ taken[d]
  /\ taken' = [taken EXCEPT ![d] = @ \cup {c}]
  /\ order' = [order EXCEPT ![d] = IF c \in ToSet(@) THEN @ ELSE Append(@, c)]
  /\ asked' = [asked EXCEPT ![d] = IF Has(d, c) THEN @ ELSE @ \cup {<<RootPath(c), <<c.kind, 0>>>>}]
  /\ UNCHANGED <<scene, ops, known, winners>>

Made(d) == Cardinality({i \in DOMAIN ops : i[1] = d})

NextLamport(d) == IF known[d] = {} THEN 0 ELSE ops[LastOf(known[d])].lam + 1

(* Variant: the winner of the key stays (ShownIffHeld).                    *)
KeepsWinner(last, op, id) == last

(* applyLocal: the winners of op's map with op the last of its key.        *)
Noted(last, op, id) ==
  [key \in DOMAIN last \cup {op.key} |-> IF key = op.key THEN id ELSE last[key]]

(* An op with its lamport and the ops that its author knew.                *)
Stamped(op, lam, past) ==
  [x \in DOMAIN op \cup {"lam", "past"} |-> IF x = "lam" THEN lam ELSE IF x = "past" THEN past ELSE op[x]]

(* Document.apply for the ops of one call on container c, which asked for  *)
(* the winners of the maps in S before: refused when c is deleted.         *)
Applied(d, c, made, S) ==
  LET id(k) == <<d, Made(d) + k - 1>>
      new == {id(k) : k \in DOMAIN made}
      built == Built(d, S \cup AskedOn(d, c))
      full(k) == Stamped(made[k], NextLamport(d) + k - 1, known[d] \cup {id(j) : j \in 1 .. k - 1})
  IN  /\ Made(d) + Len(made) <= scene.budget[d]
      /\ ~IsDeleted(d, c)
      /\ ops' = [i \in DOMAIN ops \cup new |-> IF i \in new THEN full(i[2] - Made(d) + 1) ELSE ops[i]]
      /\ known' = [known EXCEPT ![d] = @ \cup new]
      /\ winners' = [winners EXCEPT ![d] =
           [m \in DOMAIN built |-> IF m = c THEN Noted(built[m], made[1], id(1)) ELSE built[m]]]
      /\ UNCHANGED <<scene, order, taken>>

(* A call that makes no op, or is refused one, has asked for some maps.    *)
OnlyAsks(d, S) ==
  /\ S \ DOMAIN winners[d] # {}
  /\ winners' = [winners EXCEPT ![d] = Built(d, S)]
  /\ UNCHANGED <<scene, ops, known, order, taken, asked>>

(* IsDeleted, and an edit that is refused.                                 *)
AskDeleted(d, c) == OnlyAsks(d, AskedOn(d, c))

(* Map.Get, Map.Set of the value there is, EnsureMergeable of the child    *)
(* there is or over another value.                                         *)
AskMap(d, c) == c.kind = "Map" /\ OnlyAsks(d, {c})

(* placed: the zero that a new Counter is incremented by, which reads c.   *)
Attached(d, kind) ==
  IF kind = "Counter"
  THEN <<[cont |-> ChildKey(<<d, Made(d)>>, kind), act |-> "inc", by |-> 0]>>
  ELSE <<>>

(* What the user sees at path, and below it, becomes new.                  *)
Sees(d, path, new) ==
  asked' = [asked EXCEPT ![d] = {e \in @ : ~IsPrefix(path, e[1])} \cup new]

SeesIn(d, c, slot, shown) ==
  LET path == Append(PathOf[c], slot) IN Sees(d, path, {<<path, shown>>})

(* A mergeable child, with the contents it had.                            *)
SeesChild(d, c, key, kind) ==
  LET path == Append(PathOf[c], key) IN Sees(d, path, Entries(d, {<<path, MergeableKey(c, key, kind)>>}))

SetMap(d, c, key, v) ==
  LET cur == MapEntry(d, c, key)
  IN  /\ cur # NoOp => ops[cur].val # v
      /\ Applied(d, c, <<[cont |-> c, act |-> "set", key |-> key, val |-> v]>>, {c})
      /\ IF Activates(c, key, v) THEN SeesChild(d, c, key, v.kind) ELSE SeesIn(d, c, key, AsShown(v))

(* A delete makes an op even when the key is absent.                       *)
DeleteKey(d, c, key) ==
  /\ Applied(d, c, <<[cont |-> c, act |-> "del", key |-> key]>>, {c})
  /\ Sees(d, Append(PathOf[c], key), {})

SetContainer(d, c, key, kind) ==
  /\ Applied(d, c, <<[cont |-> c, act |-> "set", key |-> key, val |-> OfKind(kind)]>> \o Attached(d, kind),
             IF kind = "Counter" THEN {c} ELSE {})
  /\ SeesIn(d, c, key, <<kind, 0>>)

(* Variant: any marker there will do (ShownAsAsked).                       *)
MarkerThere(c, key, kind, cur) == cur # NoOp /\ ops[cur].val.is = "marker"

(* The key holds the marker of this child already.                         *)
IsEnsured(c, key, kind, cur) == cur # NoOp /\ ops[cur].val = Marker(c, key, kind)

(* A key that holds another value than null or a marker of its own is left.*)
MayEnsure(c, key, cur) ==
  cur # NoOp => ops[cur].val = NoValue \/ Activates(c, key, ops[cur].val)

(* The child comes back with the contents it had.                          *)
EnsureMergeable(d, c, key, kind) ==
  LET cur == MapEntry(d, c, key)
  IN  /\ MayEnsure(c, key, cur)
      /\ IF IsEnsured(c, key, kind, cur)
         THEN winners' = [winners EXCEPT ![d] = Built(d, {c})] /\ UNCHANGED <<scene, ops, known, order, taken>>
         ELSE Applied(d, c, <<[cont |-> c, act |-> "set", key |-> key, val |-> Marker(c, key, kind)]>>, {c})
      /\ IF IsDeleted(d, c) THEN UNCHANGED asked ELSE SeesChild(d, c, key, kind)

(* List.Insert of one item, List.InsertContainer.                          *)
InsertItem(d, c, v) ==
  /\ Applied(d, c, <<[cont |-> c, act |-> "ins", val |-> v]>>
                     \o (IF v.is = "cont" THEN Attached(d, v.kind) ELSE <<>>), {})
  /\ SeesIn(d, c, <<d, Made(d)>>, IF v.is = "cont" THEN <<v.kind, 0>> ELSE AsShown(v))

DeleteItem(d, c, i) ==
  /\ Applied(d, c, <<[cont |-> c, act |-> "rem", item |-> i]>>, {})
  /\ Sees(d, Append(PathOf[c], i), {})

(* MovableList.Insert of one item, and InsertContainer: the element is     *)
(* named by its creator and lamport.                                       *)
InsertElem(d, c, v) ==
  /\ Applied(d, c, <<[cont |-> c, act |-> "ins", elem |-> <<d, NextLamport(d)>>, val |-> v]>>
                     \o (IF v.is = "cont" THEN Attached(d, v.kind) ELSE <<>>), {})
  /\ SeesIn(d, c, <<d, NextLamport(d)>>, IF v.is = "cont" THEN <<v.kind, 0>> ELSE AsShown(v))

ShownElems(d, c) == {e \in Elems(d, c) : Held(d, c, e)}

(* Set, of the value it has too, and SetContainer.                         *)
SetElem(d, c, e, v) ==
  /\ e \in ShownElems(d, c)
  /\ Applied(d, c, <<[cont |-> c, act |-> "set", elem |-> e, val |-> v]>>
                     \o (IF v.is = "cont" THEN Attached(d, v.kind) ELSE <<>>), {})
  /\ SeesIn(d, c, e, IF v.is = "cont" THEN <<v.kind, 0>> ELSE AsShown(v))

(* To another place: there are two items at least.                         *)
MoveElem(d, c, e) ==
  /\ e \in ShownElems(d, c)
  /\ Cardinality(ShownElems(d, c)) > 1
  /\ Applied(d, c, <<[cont |-> c, act |-> "move", elem |-> e, item |-> PositionOf(d, c, e)]>>, {})
  /\ UNCHANGED asked

DeleteElem(d, c, e) ==
  /\ e \in ShownElems(d, c)
  /\ Applied(d, c, <<[cont |-> c, act |-> "rem", item |-> PositionOf(d, c, e)]>>, {})
  /\ Sees(d, Append(PathOf[c], e), {})

CreateNode(d, c, parent) ==
  LET tree == NodesOf(d, c)
      n == <<d, Made(d)>>
  IN  /\ parent = TreeRoot \/ \E e \in tree : e[1] = parent
      /\ Applied(d, c, <<[cont |-> c, act |-> "node", node |-> n, parent |-> parent]>>, {})
      /\ IF parent = TreeRoot \/ IsAlive(tree, parent) THEN SeesIn(d, c, n, <<"Map", 0>>) ELSE UNCHANGED asked

(* A move under DeletedRoot, of a node that is not there itself.           *)
DeleteNode(d, c, n) ==
  LET tree == NodesOf(d, c)
  IN  /\ \E e \in tree : e[1] = n /\ e[2] # DeletedRoot
      /\ Applied(d, c, <<[cont |-> c, act |-> "node", node |-> n, parent |-> DeletedRoot]>>, {})
      /\ asked' = [asked EXCEPT ![d] =
           {e \in @ : \A m \in Below(tree, {n}) : ~IsPrefix(Append(PathOf[c], m), e[1])}]

(* Counter.Increment, by one.                                              *)
Increment(d, c) ==
  /\ Applied(d, c, <<[cont |-> c, act |-> "inc", by |-> 1]>>, {})
  /\ LET path == PathOf[c]
     IN  asked' = [asked EXCEPT ![d] =
           {IF e[1] = path THEN <<path, <<"Counter", e[2][2] + 1>>>> ELSE e : e \in @}]

(* An import of op i with what its author had seen, in any order: the      *)
(* state is built anew.                                                    *)
Import(d, i) ==
  LET new == {ops[j].cont : j \in (ops[i].past \cup {i}) \ known[d]}
      roots == {c \in new : IsTop(c)} \ ToSet(order[d])
  IN  /\ i \in DOMAIN ops \ known[d]
      /\ known' = [known EXCEPT ![d] = @ \cup ops[i].past \cup {i}]
      /\ winners' = [winners EXCEPT ![d] = [c \in {} |-> 0]]
      /\ \E s \in SetToSeqs(roots) : order' = [order EXCEPT ![d] = @ \o s]
      /\ UNCHANGED <<scene, ops, taken>>
      /\ asked' = [asked EXCEPT ![d] = JSON(d)']

Values == {Plain(v) : v \in scene.plain} \cup scene.copied
Items == Values \cup {OfKind(kind) : kind \in scene.kinds}

EditMap(d, c) ==
  \/ \E key \in scene.keys :
       \/ \E v \in Values : SetMap(d, c, key, v)
       \/ DeleteKey(d, c, key)
       \/ \E kind \in scene.kinds : SetContainer(d, c, key, kind)
       \/ \E kind \in scene.ensured : EnsureMergeable(d, c, key, kind)

EditMovableList(d, c) ==
  \/ \E v \in Items : InsertElem(d, c, v) \/ \E e \in Elems(d, c) : SetElem(d, c, e, v)
  \/ \E e \in Elems(d, c) : MoveElem(d, c, e) \/ DeleteElem(d, c, e)

EditTree(d, c) ==
  \E n \in {e[1] : e \in NodesOf(d, c)} \cup {TreeRoot} : CreateNode(d, c, n) \/ DeleteNode(d, c, n)

Edit(d, c) ==
  \/ c.kind = "Map" /\ EditMap(d, c)
  \/ c.kind = "List" /\ \E v \in Items : InsertItem(d, c, v)
  \/ c.kind = "List" /\ \E i \in LiveItems(d, c) : DeleteItem(d, c, i)
  \/ c.kind = "MovableList" /\ EditMovableList(d, c)
  \/ c.kind = "Tree" /\ EditTree(d, c)
  \/ c.kind = "Counter" /\ Increment(d, c)

Next ==
  \E d \in Docs :
    \/ \E c \in scene.roots : TakeRoot(d, c)
    \/ \E c \in Handles(d) : AskDeleted(d, c)
    \/ \E c \in taken[d] : AskMap(d, c)
    \/ Made(d) < scene.budget[d] /\ \E c \in Handles(d) : Edit(d, c)
    \/ \E i \in DOMAIN ops : Import(d, i)

Spec == Init /\ [][Next]_vars

-----------------------------------------------------------------------------
(* Properties.                                                             *)

(* A container is in what JSON shows exactly when IsDeleted says that it is*)
(* there and GetContainer finds it: the walk up through cached winners and *)
(* parsed names against the walk down through the ops.                     *)
ShownIffHeld ==
  \A d \in Docs :
    LET shown == {p[2] : p \in Reached(d, {<<RootPath(r), r>> : r \in Candidates(d)})}
        children == {c \in Handles(d) : ~IsTop(c)}
    IN  {c \in shown : ~IsTop(c)} = {c \in children : ~IsDeleted(d, c)}

(* The winners that a document keeps of a map are those its ops give, also *)
(* of the keys that got their first op since and of maps whose ops came    *)
(* after they were asked for (mapEntry, applyLocal).                       *)
WinnersAreLast ==
  \A d \in Docs : \A c \in DOMAIN winners[d] : winners[d][c] = LastOps(d, c)

(* Every call does to the value its user sees what it was asked to: it     *)
(* puts a value, an empty container or a child with all it holds where it  *)
(* was told and changes nothing else, through whichever handle.  JSON is   *)
(* made from the ops and a handle answers from its winners: both show it.  *)
ShownAsAsked ==
  /\ \A d \in Docs : JSON(d) = asked[d]
  /\ WinnersAreLast

(* One root of every name shows, and an empty one never hides one that is  *)
(* not.                                                                    *)
NothingHidden ==
  \A d \in Docs :
    LET visible == VisibleRoots(d)
    IN  \A c \in Candidates(d) : \E v \in visible :
          /\ v.name = c.name
          /\ \A w \in visible : w.name = c.name => w = v
          /\ EmptyRoot(d, v) => EmptyRoot(d, c)

=============================================================================
