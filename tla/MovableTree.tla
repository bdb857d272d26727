----------------------------- MODULE MovableTree -----------------------------
(***************************************************************************)
(* One Tree container in several documents (loro/tree.go, buildTree of     *)
(* loro/merge.go).  A document knows a set of tree ops, closed under what  *)
(* their authors had seen; its shape is what replaying them in (lamport,   *)
(* peer) order gives, a move that would close a cycle skipped.  The index  *)
(* a document edits with is built by such a replay, kept current by every  *)
(* local op, and dropped when an import replaces the state.                *)
(*                                                                         *)
(* Building an index and a local edit of several ops run under the         *)
(* document's mutex and touch no other document: a job, which every other  *)
(* action waits for.                                                       *)
(***************************************************************************)
EXTENDS FracIndex, SequencesExt


CONSTANTS
  Docs,     \* the documents, each a peer id
  MaxOps    \* bound: how many tree ops a document makes

ASSUME DocsAssumption ==
  /\ Docs \subseteq Nat \ {0}
  /\ IsFiniteSet(Docs)
  /\ MaxOps \in [Docs -> Nat]

(* A node is named by the peer and the counter of the op that created it.  *)
NodeIds == UNION {{d} \X (0 .. MaxOps[d] - 1) : d \in Docs}

(* TreeRoot and deletedTreeRoot: parents that are no nodes.                *)
Root == <<>>
Deleted == <<0>>

Parents == NodeIds \cup {Root, Deleted}

VARIABLES
  ops,     \* the tree ops made, by <<lamport, peer>>
  known,   \* the ops applied in each document
  index,   \* docState.trees: each document's treeIndex
  job      \* the build or edit in progress

vars == <<ops, known, index, job>>

-----------------------------------------------------------------------------
(* The order of pairs of numbers.                                          *)
Earlier(i, j) == i[1] < j[1] \/ (i[1] = j[1] /\ i[2] < j[2])

(* A place: a parent, an index, and the (lamport, peer) of the op that put *)
(* the node there.                                                         *)
Before(a, b) ==
  \/ Less(a.fi, b.fi)
  \/ a.fi = b.fi /\ Earlier(a.op, b.op)

(* Variant: by peer first (SeenMovesLose).                                 *)
LowestPeer(S) == CHOOSE i \in S : \A j \in S \ {i} : Earlier(<<i[2], i[1]>>, <<j[2], j[1]>>)

(* The op that comes first in (lamport, peer) order.                       *)
Lowest(S) == CHOOSE i \in S : \A j \in S \ {i} : Earlier(i, j)

EmptyIndex ==
  [built |-> FALSE,
   nodes |-> [n \in {} |-> 0],
   count |-> [p \in Parents |-> 0],
   children |-> [p \in Parents |-> <<>>]]

Siblings(nodes, p) == {n \in DOMAIN nodes : nodes[n].parent = p}

(* A set of nodes that holds the parent of each, where that is a node.     *)
UpClosed(nodes, S) ==
  \A n \in S : nodes[n].parent \in S \/ nodes[n].parent \notin DOMAIN nodes

(* Whether node is parent or above it: no way up from parent avoids node.  *)
IsAncestor(nodes, node, parent) ==
  \/ parent = node
  \/ /\ parent \in DOMAIN nodes
     /\ \A S \in SUBSET DOMAIN nodes :
          parent \in S /\ UpClosed(nodes, S) => \E n \in S : node \in {n, nodes[n].parent}

(* Variant: the count of the new parent is looked at (Acyclic).            *)
ClosesCycleOfParent(ix, op) ==
  /\ op.parent \notin {Root, Deleted}
  /\ op.parent = op.node \/ ix.count[op.parent] > 0
  /\ IsAncestor(ix.nodes, op.node, op.parent)

(* A move that would make its node its own ancestor.  A node with no       *)
(* children is nobody's, so it is not looked for.                          *)
ClosesCycle(ix, op) ==
  /\ op.parent \notin {Root, Deleted}
  /\ op.parent = op.node \/ ix.count[op.node] > 0
  /\ IsAncestor(ix.nodes, op.node, op.parent)

(* Where op i puts its node.                                               *)
PlaceOf(i, op) == [parent |-> op.parent, fi |-> op.fi, op |-> i]

WithPlace(nodes, n, place) ==
  [m \in DOMAIN nodes \cup {n} |-> IF m = n THEN place ELSE nodes[m]]

(* childCount once op puts its node elsewhere.                             *)
Recount(ix, op) ==
  LET less == IF op.node \in DOMAIN ix.nodes
              THEN [ix.count EXCEPT ![ix.nodes[op.node].parent] = @ - 1]
              ELSE ix.count
  IN  [less EXCEPT ![op.parent] = @ + 1]

(* The index after op i, its lists of children aside.                      *)
Replaced(ix, i, op) ==
  IF ClosesCycle(ix, op) THEN ix
  ELSE [ix EXCEPT !.nodes = WithPlace(ix.nodes, op.node, PlaceOf(i, op)),
                  !.count = Recount(ix, op)]

(* The members of a set in order.                                          *)
Sorted(S, Comes(_, _)) ==
  CHOOSE s \in [1 .. Cardinality(S) -> S] :
    \A j \in DOMAIN s : \A k \in 1 .. j - 1 : Comes(s[k], s[j])

SortedChildren(nodes) ==
  [p \in Parents |->
     IF p = Deleted THEN <<>>
     ELSE Sorted(Siblings(nodes, p), LAMBDA a, b : Before(nodes[a], nodes[b]))]

-----------------------------------------------------------------------------
(* The upkeep of an index by local ops.                                    *)

(* How many of the children come before a place (slices.BinarySearchFunc). *)
Slot(nodes, kids, place) == Cardinality({k \in DOMAIN kids : Before(nodes[kids[k]], place)})

Unlinked(ix, node) ==
  LET place == ix.nodes[node]
      kids == ix.children[place.parent]
      i == Slot(ix.nodes, kids, place) + 1
  IN  IF node \in DOMAIN ix.nodes /\ place.parent # Deleted /\ i \in DOMAIN kids /\ kids[i] = node
      THEN [ix.children EXCEPT ![place.parent] = RemoveAt(kids, i)]
      ELSE ix.children

Linked(nodes, children, node, place) ==
  LET kids == children[place.parent]
  IN  IF place.parent = Deleted THEN children
      ELSE [children EXCEPT ![place.parent] = InsertAt(kids, Slot(nodes, kids, place) + 1, node)]

(* Variant: a node moved is not taken out of its old parent's list         *)
(* (IndexIsReplay).                                                        *)
AppliedLinked(ix, i, op) ==
  IF ClosesCycle(ix, op) THEN ix
  ELSE [Replaced(ix, i, op) EXCEPT
          !.children = Linked(Replaced(ix, i, op).nodes,
                              IF op.parent = Deleted THEN Unlinked(ix, op.node) ELSE ix.children,
                              op.node, PlaceOf(i, op))]

(* applyLocal: the index after local op i.                                 *)
Applied(ix, i, op) ==
  IF ClosesCycle(ix, op) THEN ix
  ELSE [Replaced(ix, i, op) EXCEPT
          !.children = Linked(Replaced(ix, i, op).nodes, Unlinked(ix, op.node),
                              op.node, PlaceOf(i, op))]

-----------------------------------------------------------------------------
NoJob == [kind |-> "none"]

Init ==
  /\ ops = [i \in {} |-> 0]
  /\ known = [d \in Docs |-> {}]
  /\ index = [d \in Docs |-> EmptyIndex]
  /\ job = NoJob

(* tree(): the index is built when it is first asked for.                  *)
BuildBegin(d) ==
  /\ job = NoJob
  /\ ~index[d].built
  /\ job' = [kind |-> "build", doc |-> d, todo |-> known[d]]
  /\ UNCHANGED <<ops, known, index>>

BuildStep ==
  /\ job.kind = "build"
  /\ job.todo # {}
  /\ LET i == Lowest(job.todo) IN
       /\ index' = [index EXCEPT ![job.doc] = Replaced(@, i, ops[i])]
       /\ job' = [job EXCEPT !.todo = @ \ {i}]
  /\ UNCHANGED <<ops, known>>

BuildEnd ==
  /\ job.kind = "build"
  /\ job.todo = {}
  /\ index' = [index EXCEPT ![job.doc].built = TRUE,
                            ![job.doc].children = SortedChildren(index[job.doc].nodes)]
  /\ job' = NoJob
  /\ UNCHANGED <<ops, known>>

(* How many tree ops a document has made: the counter of its next one.     *)
Made(d) == Cardinality({i \in DOMAIN ops : i[2] = d})

(* The lamport of a document's next op.                                    *)
NextLamport(d) ==
  IF known[d] = {} THEN 0
  ELSE (CHOOSE n \in {i[1] : i \in known[d]} : \A i \in known[d] : i[1] <= n) + 1

(* Variant: the node itself is counted too (LandsWhereAsked).              *)
OthersAndNode(d, node, parent) == index[d].children[parent]

(* The children a node is put among: those of its new parent without it.   *)
Others(d, node, parent) == RemoveFirst(index[d].children[parent], node)

Indexes(d, nodes) == [k \in DOMAIN nodes |-> index[d].nodes[nodes[k]].fi]

(* The ops that put node under parent as child number at, counted without  *)
(* the node: for it and for the siblings that must move with it.           *)
EditBegin(d, node, parent, at) ==
  LET others == Others(d, node, parent) IN
  /\ at <= Len(others)
  /\ \E fis \in Positions(Indexes(d, others), at) :
       /\ Made(d) + Len(fis) <= MaxOps[d]
       /\ job' = [kind |-> "edit", doc |-> d, todo |->
                    [k \in DOMAIN fis |->
                       [node |-> IF k = 1 THEN node ELSE others[at + k - 1],
                        parent |-> parent, fi |-> fis[k]]],
                  node |-> node, parent |-> parent, at |-> at,
                  before |-> index[d].children]
  /\ UNCHANGED <<ops, known, index>>

(* CreateAt, and Create with at the number of children.                    *)
CreateAt(d, parent, at) ==
  /\ job = NoJob
  /\ index[d].built
  /\ parent \in DOMAIN index[d].nodes \cup {Root}
  /\ Made(d) < MaxOps[d]
  /\ EditBegin(d, <<d, Made(d)>>, parent, at)

Move(d, node, parent, at) ==
  LET ix == index[d] IN
  /\ job = NoJob
  /\ ix.built
  /\ node \in DOMAIN ix.nodes
  /\ ix.nodes[node].parent # Deleted
  /\ parent \in DOMAIN ix.nodes \cup {Root}
  /\ ~(/\ ix.nodes[node].parent = parent
       /\ at + 1 \in DOMAIN ix.children[parent]
       /\ ix.children[parent][at + 1] = node)
  /\ ~ClosesCycle(ix, [node |-> node, parent |-> parent])
  /\ EditBegin(d, node, parent, at)

Delete(d, node) ==
  LET ix == index[d] IN
  /\ job = NoJob
  /\ ix.built
  /\ node \in DOMAIN ix.nodes
  /\ ix.nodes[node].parent # Deleted
  /\ Made(d) < MaxOps[d]
  /\ job' = [kind |-> "edit", doc |-> d,
             todo |-> <<[node |-> node, parent |-> Deleted, fi |-> Absent]>>,
             node |-> node, parent |-> Deleted, at |-> 0, before |-> ix.children]
  /\ UNCHANGED <<ops, known, index>>

(* The next op of an edit is made and applied.                             *)
EditStep ==
  /\ job.kind = "edit"
  /\ job.todo # <<>>
  /\ LET d == job.doc
         i == <<NextLamport(d), d>>
         op == Head(job.todo)
     IN  /\ ops' = [j \in DOMAIN ops \cup {i} |->
                      IF j = i THEN [node |-> op.node, parent |-> op.parent, fi |-> op.fi,
                                     past |-> known[d]]
                      ELSE ops[j]]
         /\ known' = [known EXCEPT ![d] = @ \cup {i}]
         /\ index' = [index EXCEPT ![d] = Applied(@, i, op)]
         /\ job' = [job EXCEPT !.todo = Tail(@)]

EditEnd ==
  /\ job.kind = "edit"
  /\ job.todo = <<>>
  /\ job' = NoJob
  /\ UNCHANGED <<ops, known, index>>

(* A document imports an op with what its author had seen: any set of ops  *)
(* closed under that is reached by such imports.                           *)
Import(d, i) ==
  /\ job = NoJob
  /\ i \in DOMAIN ops \ known[d]
  /\ known' = [known EXCEPT ![d] = @ \cup ops[i].past \cup {i}]
  /\ index' = [index EXCEPT ![d] = EmptyIndex]
  /\ UNCHANGED <<ops, job>>

Next ==
  \/ \E d \in Docs :
       \/ BuildBegin(d)
       \/ \E parent \in NodeIds \cup {Root}, at \in 0 .. Cardinality(NodeIds) :
            \/ CreateAt(d, parent, at)
            \/ \E node \in NodeIds : Move(d, node, parent, at)
       \/ \E node \in NodeIds : Delete(d, node)
       \/ \E i \in DOMAIN ops : Import(d, i)
  \/ BuildStep \/ BuildEnd \/ EditStep \/ EditEnd

Spec == Init /\ [][Next]_vars

-----------------------------------------------------------------------------
(* The state a document shows: what buildTree makes of its ops.            *)

(* Variant: siblings with one index keep the order they came in            *)
(* (ShownIsIndexed).                                                       *)
ShownByIndex(a, b) == Less(a.fi, b.fi) \/ (a.fi = b.fi /\ Earlier(b.op, a.op))

ShownBefore(a, b) == Less(a.fi, b.fi) \/ (a.fi = b.fi /\ Earlier(a.op, b.op))

(* wouldCycle, which goes up from the new parent until it meets the node or *)
(* can go no further.                                                      *)
WouldCycle(current, op) ==
  LET at[k \in 0 .. Cardinality(Parents)] ==
        IF k = 0 THEN op.parent
        ELSE LET n == at[k - 1]
             IN  IF n \in DOMAIN current \ {op.node} THEN current[n].parent ELSE n
  IN  /\ op.parent \notin {Root, Deleted}
      /\ op.parent = op.node \/ \E n \in DOMAIN current : current[n].parent = op.node
      /\ at[Cardinality(Parents)] = op.node

Current(ids) ==
  LET order == Sorted(ids, Earlier)
      after[k \in 0 .. Cardinality(ids)] ==
        IF k = 0 THEN [n \in {} |-> 0]
        ELSE LET before == after[k - 1]
                 op == ops[order[k]]
             IN  IF WouldCycle(before, op) THEN before
                 ELSE WithPlace(before, op.node, PlaceOf(order[k], op))
  IN  after[Cardinality(ids)]

(* The nodes shown under each of the nodes shown and the root.             *)
Shown(ids) ==
  LET current == Current(ids)
      below[k \in 0 .. Cardinality(Parents)] ==
        IF k = 0 THEN {Root}
        ELSE LET above == below[k - 1]
             IN  above \cup {n \in DOMAIN current : current[n].parent \in above}
  IN  [p \in below[Cardinality(Parents)] |->
         Sorted(Siblings(current, p), LAMBDA a, b : ShownBefore(current[a], current[b]))]

-----------------------------------------------------------------------------
(* Properties.                                                             *)

(* The index after a replay of ops, its lists of children aside.           *)
Replay(ids) ==
  LET order == Sorted(ids, Earlier)
      after[k \in 0 .. Cardinality(ids)] ==
        IF k = 0 THEN EmptyIndex
        ELSE Replaced(after[k - 1], order[k], ops[order[k]])
  IN  after[Cardinality(ids)]

(* The index that a build gives.                                           *)
Rebuilt(ids) ==
  LET last == Replay(ids)
  IN  [last EXCEPT !.built = TRUE, !.children = SortedChildren(last.nodes)]

Counted(ix) == \A p \in Parents : ix.count[p] = Cardinality(Siblings(ix.nodes, p))

(* An index kept current by local ops is the one a build would give        *)
(* (applyLocal against tree), and at every moment childCount, which the    *)
(* search for ancestors takes its short cut by, counts what is there.      *)
IndexIsReplay ==
  /\ \A d \in Docs : Counted(index[d])
  /\ job = NoJob => \A d \in Docs : index[d].built => index[d] = Rebuilt(known[d])

(* Every set of nodes has one whose parent is not in it.                   *)
Forest(nodes) ==
  \A S \in (SUBSET DOMAIN nodes) \ {{}} : \E n \in S : nodes[n].parent \notin S

(* No node is its own ancestor, at any moment of a build or an edit        *)
(* (isAncestor and its childCount shortcut).                               *)
Acyclic == \A d \in Docs : Forest(index[d].nodes)

(* JSON and Children agree: under every node JSON shows, the index lists   *)
(* the children it shows, in the same order.                               *)
ShownIsIndexed ==
  job = NoJob => \A d \in Docs : index[d].built =>
    LET shown == Shown(known[d])
    IN  \A p \in DOMAIN shown : index[d].children[p] = shown[p]

(* A node that is created or moved lands where it was asked to, and no     *)
(* other node changes parent or place among its siblings, although some of *)
(* them are moved to make room.                                            *)
LandsWhereAsked ==
  job.kind = "edit" /\ job.todo = <<>> =>
    LET now == index[job.doc].children
        without(s) == RemoveFirst(s, job.node)
    IN  /\ job.parent # Deleted =>
             /\ job.at < Len(now[job.parent])
             /\ now[job.parent][job.at + 1] = job.node
        /\ \A p \in Parents : without(now[p]) = without(job.before[p])
        /\ \A p \in Parents \ {job.parent} : now[p] = without(now[p])

(* A delete, or a move to the top level, prevails over every move of the   *)
(* node its author had seen, whatever else arrives (sortedOps).            *)
SeenMovesLose ==
  job = NoJob => \A d \in Docs : index[d].built =>
    \A i \in known[d] : ops[i].parent \in {Root, Deleted} =>
      index[d].nodes[ops[i].node].op \notin ops[i].past

=============================================================================
