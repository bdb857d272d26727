# TLA+ models of loro-go

loro-go is a Loro CRDT peer: documents are edited locally, exchange parts of
their histories as blobs of bytes, and must show the same state once they know
the same operations. This directory holds TLA+ modules that model the logic of
that exchange and of the containers, TLC configurations that check them on
small instances, and proofs that TLAPS checks for all instances.

`PROJECT.json` says which definition models which lines of the source
(`map`), lists the runs, the mutants that show each property can fail, the
hazards the properties are for, and the theorems.

## 1. The system

| component | state | operations | what is hard about it |
|---|---|---|---|
| document, transaction, operation log (`document.go`, `txn.go`, `oplog.go`, `export_from.go`) | per peer a list of changes, the version vector, the frontiers, the changes that wait for others; the open transaction; the state shown | a local op, a commit, `Import` of updates and snapshots, `ExportUpdates`, `ExportUpdatesFrom` a version, `ExportUpdatesInRange` | changes arrive late, cut, repeated, out of order; an import that fails half way must leave no trace; peer ids that two documents share; timestamps and lamports |
| versions, frontiers, hash table of peers (`version.go`, `frontiers.go`) | the heads of the history, kept one per peer in a table whose iteration order goes to the wire | insert, update, iterate | a change out of order; tombstones and rehashing |
| sequence merge (`seqmerge.go`): text, list, movable list | the elements in document order, those deleted included, with a cursor; for a movable list the position and value of each element | merge an insert, delete, move or set, as its author saw it | concurrent inserts at one place; positions that mean an earlier view; three short cuts that must equal the long way |
| movable list index (`movablelist.go`) | which positions hold an element, and where the ones lie that lost theirs | translate a user's index, patch the index after each local op | an index patched instead of rebuilt |
| tree (`tree.go`, `merge.go`) | the parent, fractional index and writer of each node; counts and sorted lists of children | create, move, delete; merge of concurrent moves | crossing moves make cycles; two code paths that must show one tree; equal fractional indexes |
| blob merge (`merge.go`, `docstate.go`) | registers of maps, counters, the ranges of ops taken so far | merge decoded ops that overlap | ops cut and repeated |
| rich text (`richtext.go`, `delta.go`, `docstate.go`) | style anchors among the elements | insert, delete, mark, unmark, deltas | positions that count anchors and positions that do not; where text goes among anchors; concurrent styles over one range |
| containers, handles, nesting (`containers.go`, `handles.go`, `nested.go`, `mergeable.go`, `docstate.go`) | the ops of each container, a cache of each map's winners, the roots in the order they became known | place, write over, delete and edit children, mergeable children; show the whole as JSON; say whether a handle's container is deleted | two walks, up and down, that must agree; a cache kept by local ops; names that are parsed back |
| bytes (`docimport.go`, `decode.go`, `snapshot.go`, `encode_updates.go`, `encoding/*`) | none | encode, decode | limits, overflow; byte-equality with loro-crdt |
| sorts (`rustsort.go`) | none | the order of loro-crdt's unstable sorts on ties | ties |
| Matrix transport (`integration/matrix`) | a room's history of events | publish updates, replay a room | blobs that overlap; a homeserver that repeats events and page tokens or answers anything |

A `Document` has one mutex, which every method takes: what runs inside one
call is interleaved with nothing. The concurrency is between documents. They
call nothing of each other; they meet in the blobs that a program carries from
one to another at any time, in any order, any number of times.

A local op goes through the handle (`handles.go`, `movablelist.go`, `tree.go`)
to `Document.apply`, which puts it into the open transaction (`txn.go`) and
into the state in place (`docState.applyLocal`). A commit, an export or an
import closes the transaction into a change of the log. An import decodes a
blob into changes, checks them against the log, inserts those whose
dependencies are there, parks the others, releases parked ones as far as
possible and, if the history has grown, builds the state anew from it
(`Document.rebuild`, `merge.go`, `seqmerge.go`). A refused blob or one the
state cannot show is undone.

The properties that make each component correct are listed with the modules
below. The places where they could be wrong are the `hazards` of
`PROJECT.json`.

## 2. The modules

| module | models | composes |
|---|---|---|
| `OpLog` | log, transaction, import, export of several documents | |
| `CausalDelivery` | what those promise, in two actions | refined by `OpLog` (`CD == INSTANCE CausalDelivery WITH ...`) |
| `MCOpLog` | instances of `OpLog` | |
| `OpLogProofs`, `OpLogAgreement`, `OpLogRefinement` | theorems about `OpLog`: its operators, one document, several documents, what they implement and that they do not refuse each other | |
| `FracIndex` | fractional indexes, as operators | |
| `FracIndexProofs` | theorems about the operators, and induction over numbers | |
| `Siblings` | one list of siblings under long runs of edits | `FracIndex` |
| `SiblingsProofs` | theorems about `Siblings` | `FracIndexProofs` |
| `MovableTree`, `MCMovableTree` | a tree in several documents | `FracIndex` |
| `MovableTreeProofs` | theorems about single steps (order, lists of children, the forest, the ops of one edit), then the invariant of `MovableTree` and the theorems about every run of it | `FracIndexProofs` |
| `SeqMerge` | a sequence and its ops: fold, cut, merge, as operators | |
| `SharedSeq`, `MCSharedSeq` | a list or movable list in several documents, with the index | `SeqMerge` |
| `RichText`, `MCRichText` | a styled text in several documents | `SharedSeq` |
| `Containers`, `MCContainers` | containers in containers, in several documents | |
| `ContainersProofs` | theorems about `Containers`: the cached winners of maps, the roots that show | `Containers` |
| `Blocks` | how a document stores changes, as operators | `SeqMerge` |
| `Room`, `MCRoom` | a Matrix room, its reader, the merge of what it holds and the store that imports it | `SharedSeq`, `Blocks` |
| `RoomProofs` | theorems about the replay of `Room` and about what `collect` takes | `Room` |
| `PeerTable` | the hash table of peers and the frontiers kept in it, as operators | |
| `PeerMaps`, `MCPeerMaps` | frontiers or a version vector beside the map they stand for | `PeerTable` |

A definition whose comment starts with "Variant:" is not the code. It is the
definition that follows it with a plausible bug. A property that the variant
violates depends on the code being as it is; `PROJECT.json` pairs the two.

### OpLog

An operation is an atom with the id `<<peer, counter>>`. The content is
abstracted to who made it, so that two different operations under one id are
told apart. The log's store maps ids to atoms; the changes of the code are
the maximal runs of joined atoms (`Runs`, `ChangesIn`), and cutting,
merging and re-exporting of changes act on those.

`oplog[d]` is `Document.log`: `store`, the version vector `vv`, the frontiers
`fr` and `pending`. `tx[d]` is the open transaction, `st[d]` the ids the state
shows, `imp` the import in progress: its phase, the log it would roll back
to (`saved`), and its place in the loop it is in.

| action | code |
|---|---|
| `Edit`, `RefusedEdit` | `Document.apply`, `begin`; an op refused by its container |
| `CommitWith` | `Commit`, `CommitWith`: `closeTxn`, `insert`, `canMergeRight` |
| `ExportRange`, `ExportSnapshot` | `ExportUpdates`, `ExportUpdatesFrom`, `ExportUpdatesInRange`; delivery of the blob to another document, any time and any number of times |
| `ReceiveForeign` | a blob that another implementation made |
| `ImportBegin`, `Refuse*` | `Document.Import`: implicit commit, sort by lamport |
| `CheckStep`, `CheckRefuses` | `checkKnown`, `usedID`: the replay of counter ends before anything is inserted |
| `CheckDone` | `snapshotChanges`: a snapshot for a document with history is trimmed, and sorted again as its lamports have changed (`importChanges`) |
| `MainStep`, `MainRefuses`, `MainDone` | the first pass of `importChanges`: `trimKnown`, insert or park |
| `PendingPop`, `PendingTry`, `PendingRefuses`, `PendingDone` | `applyPending` |
| `ParkStep`, `ParkRefuses`, `ParkDone` | `parkOrApply`: the changes that still wait |
| `Finish`, `BuildRefuses` | `rebuild`, and the roll-back when it fails |

An import is a sequence of steps so that the order of its loops is
explicit and liveness can be asked of it. Because it runs under the mutex and
touches no other document, every other action waits while one runs; this cuts
interleavings which no program can see.

`ExportSnapshot` is external: a snapshot in the model is what a loro-crdt peer
with that history would export. loro-go reads snapshots but its exports are
updates.

Abstractions: `pending` is a set, so copies of a change collapse, and the
order of changes that wait for one counter is any; `LamportLimit` stands for
`math.MaxUint32`. How ops fold inside a change is in `SeqMerge`, how changes
lie in blocks in `Blocks`.

Properties:

- `FrontierIsMaximal`: the frontiers are the ops no other op depends on.
- `TxFresh`: an open transaction continues the log as it is now.
- `NeverRefused`: documents with peer ids of their own never refuse each other.
- `ImplementsCausalDelivery`: the refinement. What a document shows is the
  largest causally closed part of what reached it, whatever the order; so
  between imports nothing waits that could be applied.
- `AtomsAgree`: two documents that hold an operation hold the same lamport,
  deps, timestamp and message for it, however it was merged, cut and sent on.
- `TimestampsGrow`: a peer's timestamps do not run backwards.
- `Contiguous`, `CausallyClosed`, `LamportAboveDeps`: no hole in a peer's
  counters, no op without its dependencies, lamports above them.
- `NothingLost`: what a document made or imported is in its log or waits.
- `HistoryKept`: no import changes or drops an op that was in the log.
- `StateIsHistory`, `NothingUnshowable`: the state shows the log, also after a
  refusal; an op the state cannot show never stays in the log.
- `ImportTerminates`, `Convergence`.

### FracIndex, Siblings

The functions of `tree.go` on fractional indexes, over the bytes
`0 .. MaxByte` with `Terminator` in place of 0..255 and 128: the smallest
alphabet in which both ends and a value on each side of the terminator occur.
`Siblings` puts nodes into one list and copies a node's index, as peers do
that insert at one place at once. `EvenlySpread`: an index exists wherever a
node can be put, and placing one changes no other order.

### MovableTree

`ops` holds every op made by `<<lamport, peer>>`, `known[d]` those applied in
`d`, `index[d]` the `treeIndex`: nodes, `count` (`childCount`), the sorted
`children`, and `built`, as the code builds the index when a call first
needs it after an import. `job` is a build or an edit of several ops in
progress (`BuildBegin` .. `BuildEnd`, `EditBegin` .. `EditEnd`), which runs
under the mutex. `Shown` is the other code path: `buildTree` of `merge.go`,
from which JSON is made.

- `IndexIsReplay`: the index kept by local edits is the one a build would give,
  and its counts of children are exact.
- `Acyclic`: at every step, also inside a build.
- `ShownIsIndexed`: JSON and `Children` show one tree.
- `LandsWhereAsked`: a node lands at the place asked for and no other changes
  place, although siblings of equal index are moved to make room.
- `SeenMovesLose`: a delete or a move prevails over the moves its author saw.

`IsAncestor` is stated with sets closed upwards instead of a walk; the budget
on the steps of a walk and foreign indexes of zero length are left out; the
meta maps of nodes are in `Containers`.

### SeqMerge, SharedSeq

`SeqMerge` is the merge as operators: how inserts and deletes fold into one op
(`CanFold`, `FoldOps`), how ops and changes are cut (`Clip`, `CutChange`), the
views an author had (`Visible`), the walk from front, back or cursor
(`WalkLive`), the placing of concurrent runs (`Integrate`, `Scan`), deletes by
position and by ids, moves and sets of a movable list, the two anchors of a
mark (`MarkStart`, `MarkEnd`), and the replay of a
history in (lamport, peer) order with the versions and short cuts it keeps.

`SharedSeq` has documents `Docs` with `hist` (the changes), `seq` (the merged
sequence), `index` (the movable list's), and the history variable `asked`: the
list its user saw at the last import with every call since applied to it.
Actions: `InsertItem`, `DeleteItems`, `MoveItem`, `SetItem` by user index, and
`Import`, which brings what another document has, cut where the importer's
history ends; other ranges are OpLog's subject. `Grows` stands for whether the
values of two inserts that arrive apart share one buffer, on which folding
depends; `OwnChanges` for a change that its time or message keeps apart.

- `StateIsReplay`: the sequence kept by local ops, its count and its cursor,
  are those a merge of the history gives, and the merge accepts the history.
- `ShortcutsExact`: replaying every op against the view its author had, and
  every delete by the ids it names, gives what the short cuts give.
- `OrdersAgree`: one order of elements, in whatever causal order ops are
  merged and whatever else each document has seen; documents with one history
  hold one sequence.
- `RunsStayWhole`: an element lies between its origins, and a run is not torn
  apart by authors who knew nothing of it.
- `EditsAsAsked`: a call does to the user's list what it was asked, whatever
  positions lie between that lost their element.
- `IndexIsBuilt`: the patched index is the one built anew.
- `MovesTakeTheirOwn`: a move, recorded by index, takes away a position of the
  element it names when it is replayed.

Left out: the budget on merge steps, histories with parts missing (which a
`Document` never has).

### RichText

`RichText` is `SharedSeq` for a Text. Positions a user gives count characters,
positions of ops count style anchors too: `TextInsertIndex` is the way from the
one to the other, by the rules of the anchors in between (`Prefers`,
`StaysBefore`), `TextDeletes` cuts a deletion into runs at anchors. `MarkOps`
decides whether a mark makes ops at all. `Delta` is what a user sees: each
character with its attributes, of marks on one key the latest. `TextStyles` is
what `ConfigTextStyle` was told, in each document by itself.

Actions: `InsertText`, `DeleteText`, `MarkText` (an unmark marks with null),
`ImportText`. The history variable `asked` is what the user saw at the last
import with every call since applied to it, as a user would apply it.

- `StylesAsAsked`: a mark styles the characters it names and no others, also
  when it is skipped; a deletion leaves the styles of the rest; inserted text
  takes the styles that spread to its place. The last is asked where the
  anchors of the place leave room for it (`Agree`); see Observations.
- `StateIsReplay`, `ShortcutsExact` of `SharedSeq` hold with anchors among the
  elements.

Left out: runs of equal attributes (the model keeps one entry a character),
the error for a key that is not configured, and the flag `anchored`, which the
model derives.

### Containers

The ops a document knows, by the container they are on, and all that is found
from them: `Slots` and `Reached` are the resolver that goes down from the roots
and makes JSON; `WayUp`, `IsHeld`, `IsDeleted` are `Document.deleted`, which
goes up from a handle, through `winners`, the cache of each map's last op by
key. A child is named by the op that placed it, a mergeable child by its
escaped path (`MergeableKey`), which `ParentAndKey` parses. Actions are the
calls on maps, lists, movable lists, trees and counters, `EnsureMergeable`,
taking a root, and `Import`; a call that only reads fills the cache
(`AskDeleted`, `AskMap`). A `Scene` says what the documents are used for, so
that one run has each kind of parent.

- `ShownIffHeld`: JSON holds exactly the containers whose handles are not
  deleted.
- `ShownAsAsked`: a call changes what it was told to and nothing else, through
  whichever handle, also inside a child that is gone. JSON is made from the ops,
  a handle answers from the winners kept of its map: its second part,
  `WinnersAreLast`, is that these are the last ops of the map's keys, also of keys
  and maps that got their first op since they were asked for.
- `NothingHidden`: of the roots of one name one shows, and never an empty one
  in place of another.

Left out: the order of items and siblings (other modules), Text as a child,
checks of arguments.

### Blocks, Room

`Blocks` is `changeStore`: the estimate of a block's size, `Pushed` into the
last block, `SplitThenInsert` of a change that is larger than a block, and
`FindChange`. Sizes are those of a List with `Limit` for `storeBlockLimit`.

`Room` composes it with `SharedSeq`. Documents edit, and publish what
`ExportUpdates`, `ExportUpdatesFrom` and `ExportUpdatesInRange` give, again and
again if they like; `Litter` is an event of another kind or one that does not
decode. `reader` is `Replay`: an initial sync, then pages backwards. The
homeserver is `plain` (one response), `honest` (pages that may repeat an event,
be empty, and name one place by two tokens) or `other` (any events, any token).
`Units` is `collect`, `Uncovered` and `AddRange` its arithmetic;
`MergedState` is `mergeSequences` on copies of changes that overlap, with
`Find` and `IsComplete` for what `newCausalIndex` looks up.

- `TakenOnce`: each atom that the blobs hold is taken once, as it was written:
  the blobs are copies whose ops are in a row and that agree on what an id says
  (`AreCopies`), what they say was written, and of such copies `Units` takes each
  id in one op, as they have it (`TakesOnce`).
- `ReadAsImported`: the merge knows whether a cause is missing, and if not it
  shows what a document that imported the blobs shows.
- `StoreHoldsHistory`: changes cut, split and merged into blocks keep every
  atom with its lamport and deps, in a row, found by any counter, within the
  limit.
- `NothingMissed`: a homeserver that sends its events has sent each that was
  there at the start when the replay is done.
- `ReplayEnds`: a replay ends whatever tokens a homeserver hands out.

Left out: the refusal to publish into an encrypted room, events without ids,
which inserts of an exported change share a buffer (none do here).

### PeerTable, PeerMaps

`PeerTable` is `fxTable` with its control bytes and the copy of the first
group after its end: `Find`, `InsertSlot`, the two kinds of insert, `Erase`
with the choice between an empty byte and a tombstone, `Resize` and
`RehashInPlace`; and on it the `frontiers` of no id, one id or a table. The
hash is two constants: where a peer's probe starts and what its control byte
says. `PeerMaps` makes the calls a document and a `VersionVector` make, next to
`held`, the plain map. `group` is `fxGroup`, a parameter: with it scale the
smallest table and the load (7 of 8 in the code). `NoteLocalOps` is two inserts
of the final counter, as the code does it for any number of ops.

- `TableIsMap`: lookups and listings give the map's entries, after whatever
  removals and rehashes; `growthLeft` is what is there, and an empty byte
  remains to end every probe.

What a bucket held that is free now is never read, so it is cleared. Looping code (`SettleOnce` in a rehash, the probes) is bounded by the
number of buckets or groups, which is enough because that empty byte remains.

## 3. The runs

Every bound is a constant. All runs but `peer_tables` say `CHECK_DEADLOCK
FALSE` because the documents stop once they have used up their `Budget`;
`ImportTerminates` and `ReplayEnds` cover the two things that must not stop
half way.

| run | instance | shows |
|---|---|---|
| `oplog_causal` | 3 documents, 2 + 1 + 0 ops, any ranges, snapshots | refinement of causal delivery |
| `oplog_clock` | 2 documents, 2 + 1 ops, times 0 and 1, merge interval 0, 2 messages, `FairSpec` | metadata agrees after any merging and cutting, imports end, documents converge |
| `oplog_foreign` | 2 documents under one peer id, ops 0 and 1 of it each, and 5 blobs of another implementation, which uses that id too | history is kept although ids collide, refusals and roll-backs leave no trace |
| `oplog_resorted` | 2 documents, updates and a snapshot that overlap | violated: a trimmed and re-sorted snapshot leaves a hole (section 5) |
| `siblings` | up to 4 siblings, indexes up to 4 bytes | a node always fits |
| `movable_tree` | 2 documents, 3 + 1 tree ops | concurrent moves |
| `shared_text` | 2 documents, 2 known characters with a mark on them, 1 + 2 atoms, two keys that expand in four ways | short cuts, cursor, styles |
| `shared_order` | 3 documents, 2 + 1 + 1 atoms from empty | order of concurrent inserts |
| `movable_list` | 2 documents, 2 known items, 1 + 2 atoms | index and moves |
| `peer_tables` | 6 peers, up to 5 in a table; groups of 4 and of 8 | collisions, tombstones, rehash |
| `containers` | 2 documents, 3 + 1 ops, seven scenes: maps, counters, lists, movable lists, trees, mergeable children, roots of one name | two walks agree, calls do what they say, cache of winners |
| `room` | 2 documents, 1 known item, 2 + 1 atoms, three homeservers, 2 or 3 events, blocks of 12 bytes | overlapping blobs, blocks, paging |

Why the bounds are enough: three documents are what a late dependency needs
(one makes it, one builds on it, one gets the second first); two ops of a peer
are what cutting, merging and holes need; two documents and another
implementation under one peer id let a parked change of one author meet ids
that another has used since; two times with an interval of 0
give commits that merge, that do not, and a clock that runs back. In the tree,
two moves cross with two nodes, and making room for a node needs two siblings
with one index. In a sequence two ops on each side give a folded op and its
cut part against a concurrent op; three documents give siblings with unlike
right origins. The bounds of `shared_order` were also raised to 3 + 1 + 1,
2 + 2 + 1 and 2 + 1 + 2 inserts without deletes, those of `movable_list` to
2 + 2 atoms over three known items, with the same result. Five of the six
peers of `peer_tables` start to probe at one bucket. With groups of four, a
table of eight buckets has two groups: entries land outside their first group,
a rehash moves and swaps them, and tables grow to sixteen. With groups of
eight, as in the code, the smallest table is half a group and a probe runs over
its end onto a full bucket.

In `shared_text` a mark is there from the start so that every order of insert,
delete and a second mark beside its anchors is reached. Instances with 4 + 3
and, with one key, 5 + 3 atoms were checked too, and random walks of
documents with nine atoms and all four ways to expand, with the values `true`
and `false`.

A scene of `containers` has the ops that its kind of parent needs: a child is
placed, written over or deleted by one document while the other edits inside
it, then seen by both. In `room` a block holds the head of a change and two
items, so that a change of three is split, an insert cut, and two changes share
a block. Edits come before the first event and on the `plain` homeserver only,
spans of one peer on the `plain` one, litter on the others: what a page holds
and what a blob holds do not meet. `upto` counts the events there when the
replay began; a replay that failed may be begun again. Instances with edits
between events, with three known items, blocks of 16 bytes and with three
events of the `other` homeserver were checked apart.

No run uses symmetry: the order of peer ids decides ties.

**Fairness.** `FairSpec` of `OpLog` has weak fairness of `ImportStep`: an
import is a call that runs to its end. And strong fairness of `Sync(s, d)` for
each pair: a program that sends a document the updates since its version, and
does so again and again. That is how the README of loro-go tells programs to
use `ExportFrom(other.Version())`; the library has no scheduler of its own.
Single blobs may still be lost or come late, as ranges are sent beside it
without fairness. Without `Sync` nothing converges, and nothing should.

`FairRoom` of `Room` has weak fairness of `Answer`: a request is answered, by
anything, or fails by its time-out. It says nothing of what is answered, so
`ReplayEnds` rests on the code's check of tokens.

## 4. What is proved

TLAPS checks the theorems for every value of the constants.

`OpLogProofs`, for any documents, peer ids (shared or not), budgets, clocks,
foreign updates and snapshots. A foreign snapshot is assumed to be the whole
history it claims (`SnapshotsWhole`); that the documents' own are is proved
(`SnapshotWhole`). And the theorems are about the runs in which snapshots that
get to a document with history have each change at a lamport past its deps and
past the op before it (`SnapshotsInOrder`); without that they are false, as
`oplog_resorted` shows:

- `Inductive`: `Spec /\ []SnapshotsInOrder => []IInv`.
- `TypeCorrect`, `NoHoles`, `DepsApplied`, `LamportsGrow`,
  `ImportKeepsHistory`, `FrontiersAreHeads`, `TxStaysFresh`,
  `StateShowsHistory`, `ImportLosesNothing`: the same with `[]X` for `TypeOK`,
  `Contiguous`, `CausallyClosed`, `LamportAboveDeps`, `HistoryKept`,
  `FrontierIsMaximal`, `TxFresh`, `StateIsHistory`, `NothingLost`.
- `HistoryIsShowable`: the same with `[]NothingUnshowable`, if in addition no
  document makes an op of its own that a state cannot show (`OwnOpsGood`).
- `UpdatesKeepHistories`: where no snapshots are sent, `Spec => [](Contiguous /\
  CausallyClosed /\ FrontierIsMaximal /\ NothingLost)` without any assumption
  about the blobs.

`SnapshotsInOrder` speaks of the variables, so it is an assumption about a run
and not about the constants: snapshots of the documents themselves are subject
to it too. For documents with peer ids of their own `OpLogAgreement` proves it
(`OwnBlobsKeepHistories`); documents that share one peer id and send each other
snapshots are covered under the assumption only.

None of these invariants is inductive as it stands. The parts of `IInv`:

- Of each log (`LogOK`): it is typed, the store's ids are exactly those below
  the version vector, deps are in the store with lower lamports, and the
  frontiers are the ids that no other op is after. That the code's way of
  keeping them (drop the deps of the change, add its last id) gives the heads
  needs that no dep points into the change itself and that ops of one peer
  are in a line.
- Of the open transaction (`TxFits`): it starts where the log ends, with the
  log's frontiers as deps, the next lamport and no lower timestamp.
- Of the state (`Shows`): it shows the settled log and the open transaction's
  ops. During an import it lags behind by what the first pass put into the
  log, and the roll-back restores the log, not the state.
- Of a running import (`ImportFits`): the log to roll back to is good, nothing
  of it has been changed, and the first pass goes one of two ways
  (`GoesThrough`). Updates, and a snapshot taken into an empty document, are
  applied in the order they were checked in, so the pass follows the replay of
  counter ends which `checkKnown` made (`FollowsReplay`). It has no check of
  its own against changes that skip counters; it is right because the check
  before it made the same decisions change by change. A snapshot for a document
  with history is trimmed and sorted again in between, and the replay says
  nothing of that order. There the pass is right because the causes of every
  change still to come - its deps and the op before it - are applied or come
  before it (`CausesFirst`).
- Of the blob (`Tracks`): each change of it is applied, set aside, or among
  those still to come, if only in part: a snapshot for a document with history
  is trimmed before the first pass to what it brings (`RestOf`). That the new
  order has causes first (`TrimmedCauses`) is what `SnapshotsInOrder` is for: a
  cut raises a change's lamport to that of its first op left, as counted in the
  change (`TrimmedLamport`), so if a change lies past the op that its cause is,
  and not only past the start of the change that holds it, it lies past the
  rest of that change however much is cut.
- Of a snapshot that replaces an empty history (`Replaces`): the changes gone
  through are the log, its frontiers are their heads, and nothing waits, since
  the changes come by lamport and the deps of each have lower ones. At the end
  the frontiers the blob claims are those the log has reached
  (`FinishMovesNothing`), so that installing them unchecked changes nothing.

The code asks of the frontiers of such a snapshot only that each lies in one of
its changes (`snapshotFrontiersHeld`, docimport.go), so that of another
implementation's something has to be assumed: `WholeHistory` asks that
it names each op once, has what its changes depend on at lower lamports, and
lists its heads.

The module begins with the facts about single operators: inserting a change that
fits keeps a log good, trimming what is known leaves a change that fits or
nothing.

`OpLogAgreement` compares documents. It assumes that no two have the same
peer id (`OwnPeers`) and that they get each other's updates and snapshots only
(`NoOthers`: no foreign blobs):

- `AgreementInductive`: `Spec => []AInv`.
- `LogsAgree`, `TimestampsOrdered`: `Spec => []AtomsAgree`,
  `Spec => []TimestampsGrow`.
- `OwnBlobsKeepHistories`: `Spec => [](Contiguous /\ CausallyClosed /\
  FrontierIsMaximal /\ NothingLost)`, snapshots included.

Two logs cannot be compared by looking at the two of them: the op of one may
have come by way of a third. The invariant therefore compares each copy with
the original (`Original`), the atom in the log of the document whose peer id it
has: of every log, every parked change, the log to roll back to and every
change of an import under way. What relates an op to its deps is said of
originals only (`Exact`: the lamport is the next one after the deps', the
timestamp is not lower) and holds of copies because the deps are copies too.
An export cuts a log into runs, so that it gives the originals back has to be
shown of `AtomsOf` of each run; a commit adds originals and, as counters of
its peer are used by it alone, changes none. That a snapshot keeps causes first
(`SnapshotInOrder`) needs one fact more: the lamports of a peer rise along its
ops (`Rises`). A commit depends on all heads, and every op of the log is at or
below a head by lamport (`RisingHeads`), so the ops it adds lie past the one
before them (`LocalRises`).

`OpLogRefinement` shows, under the same assumptions, that the documents
implement `CausalDelivery`:

- `DocumentsDeliver`: `Spec => ImplementsCausalDelivery`. `Bounded` (no budget
  is above `MaxCounter`) ties the two bounds of the model together: `MaxRun` of
  the abstract specification stands for the longest run a commit makes.

The abstract state is a function of the settled logs. A commit with ops is a
`Make`, the end of an import a `Deliver` of the blob's ops, and the steps
between them, refusals and local edits are stutters. Two facts had to be added
to `AInv` (the result is `RInv`):

- `LinedWorld`: a part of a history that lacks no dependency has, with an op,
  the one before it on its peer, at a lower lamport. An op need not name its
  predecessor as a dep - a commit depends on the frontiers - so this is about
  the whole part. The author's log has it because a commit depends on
  everything there is (`CommitLined`), and a copy has it because the author's
  log does. It makes the frontiers the heads of a history in the abstract
  sense, and lets a change be filed under the op before it as well as under a
  dep.
- `Queued`: during an import, a pending change waits for an op that is missing
  or has an id at or above it on the stack; so when the stack is empty every
  pending change waits for an op that is not there (`Waits`), also across
  commits, since none waits for an op of the document's own peer
  (`WaitsForOthers`). `ShowsAllItCan` concludes: take, of a larger part that
  could be shown, the new op with the lowest lamport; it belongs to a pending
  change, and what that waits for would have a lower one.

That the end of the import brings all of the blob and nothing else is `Holds`,
with `NothingLost` of `OpLogProofs`.

Also in `OpLogRefinement`, under `OwnPeers`, `NoOthers`, `Bounded`,
`OwnOpsGood` and `LamportsSuffice`:

- `NoneRefused`: `Spec => []NeverRefused`. Documents that exchange updates and
  snapshots never refuse one another's, whatever the order, loss and repetition, and
  although an import looks for gaps, lamports that disagree with the deps and
  ops the state cannot show.

`LamportsSuffice` says that there is a lamport for every op the budgets allow;
the code compares lamports with the limit only on import, so it is needed. The
invariant `NInv` adds to `RInv` what `checkKnown` has replayed so far: that a
history with it lacks no dependency (`Grounded`), so that `MadeLined`, the
author's side of `LinedWorld`, leaves no gap in the counters before the next
change (`NoGap`); that histories stay within the budgets and use every lamport
below the next one (`NoLamportSkipped`), so that lamports stay below the
number of ops (`LamportsLow`); and that each change tried is the original, so
the state takes it (`TriedGoesIn`).

`FracIndexProofs` and `SiblingsProofs`, for any range of bytes with a terminator
in its middle (`BytesAssumption`):

- `PositionsSpread`: in a list in order, at any place, there are new indexes
  for a node and for the siblings that share the index of the one before, and
  they lie in order between that one and the first sibling that stays.
- `LineIsOrdered`, `SpreadEverywhere`: `Spec => []Ordered(line)`,
  `Spec => []EvenlySpread`, for lines of any length and indexes longer than
  any run makes.

`BetweenIsBetween` is the argument about the bytes, by cases of where two
indexes first differ. `Halves` is a recursive function; that it is defined
and that it spreads (`HalvesDefined`, `HalvesSpread`) goes by induction over the number of
siblings. The provers cannot instantiate the library's induction theorems,
which have an operator as a parameter, so `NatSetInduction` states induction for a
set of numbers and derives it from the existence of a least element.

`MovableTreeProofs`, for trees of any shape:

- `ReplayKeepsForest`, `EditKeepsForest`: replaying an op and applying an edit
  keep an index a forest with exact child counts. The cycle test skips nodes whose child count is zero
  (`ShortcutSound`), which is sound because the counts are exact, which in
  turn holds because cycles never arise: the two have to be proved together.
- `EditKeepsLists`: the lists of children, which an edit changes by a binary
  search and a splice, stay what a sort of the children gives
  (`SortedIsListed`, `ListedIsSorted`). The search finds the right place
  because the list is in order with ids for ties, and the node is found again
  since the place it was filed under has not changed (`SlotOfChild`).
- `Landed`, `LeftBehind`: the ops of one edit, which may give several siblings
  new indexes, leave the list as it was with the node put at the place asked for.

and then for any documents, budgets and order of events:

- `InvHolds`: `Spec => []Inv`.
- `AlwaysAcyclic`, `SeenMovesAlwaysLose`, `IndexAlwaysReplay`, `AlwaysLands`,
  `ShownAlwaysIndexed`: `Spec => []X` for `Acyclic`, `SeenMovesLose`,
  `IndexIsReplay`, `LandsWhereAsked`, `ShownIsIndexed`: all that the run checks
  of the tree.

The parts of the invariants:

- Of the ops (`OpsInv`, `KnownInv`): what an op's author had seen comes before
  it; a document knows its own ops.
- Of an index (`IndexInv`): it is the replay, in order, of the ops taken into
  it (`Done`), a forest, with each node where one of those ops put it. A local
  edit adds its op to a built index at the end of the replay, as its lamport is above all
  others; it does not go through the test of `ReplayOf`, which agrees only because an
  edit never closes a cycle (`PlanClosesNoCycle`).
- Of moves to the top or to the trash (`TopMovesHold`): nothing can stand in
  their way, so the node's op is that one or a later one. From this
  `SeenMovesLose`.
- Of the names (`NamesInv`): a node in any op was made by an op, and nobody
  has the next name of a document. So the first op of a create closes no cycle.
- Of an edit under way (`EditInv`): it has done the first so many ops of a
  plan which was right for the list when the edit began. The edit reads
  positions before its first op and uses them after it; this
  invariant is that the siblings moved first leave what comes later valid.

What a merge shows (`buildTree`) is computed apart from the index, with a cycle
test of its own that goes up from the new parent. `CycleTestsAgree`: in a
forest that walk comes to an end within as many steps as there are parents
(`WalkEnds`, by the pigeonhole principle), and it meets the node just if no set
closed upwards separates the two (`WalkFinds`). So merge and replay skip the
same moves (`CurrentIsReplay`), and both sort by one order.

`RoomProofs`, for any number of documents, edits, events and events on a page,
and for any homeservers among the three kinds (`RoomAssumption`):

- `ReplayMissesNothing`: `RoomSpec => []NothingMissed`.

`NothingMissed` speaks of the end of a replay only. The invariant (`ReplayInv`)
says for an honest homeserver that at every moment the reader has all the events
that were there at the start from its token's position on, and that the
homeserver is past every token it was asked with (`Past`): its position falls, or
stays and goes from its first name to its second. The first part makes a page
join what the reader has (`HonestPageGoesBack`), the second shows that the check
on a token that was seen, which ends the replay over other homeservers, does not
end one early here. What a page adds is given as those events in falling order;
that such a sequence has all of them is a count (`OrderedWhole`). A request that
fails leaves the reader in a phase of its own, of which nothing is claimed.

And for any copies of changes, in any number and order, cut, repeated and
overlapping, if only they satisfy `AreCopies`:

- `UnitsTakeOnce`: `TakesOnce(Units(copies), copies)`.

`collect` is four loops in each other, each a function on the numbers up to a
length whose states are one walk (`WalkExists`, `WalkTyped`). The innermost two
are about ranges: `uncovered` returns the parts of an op's range that the ranges
had leave, in order and apart (`UncoveredLeaves`), and `addRange` returns ranges
sorted and apart with the counters that were had and the new ones and no others
(`AddRangeAdds`); both rest on an invariant of the loop (`Passed`, `Placing`).
So `collect` takes of an op what was not had before and has all of it after
(`TakeOpTakes`), of a change and of all copies likewise (`TakeChangeTakes`,
`UnitsCollected`), and the cut of an op says of its atoms what the op does, a
backwards delete included (`ClipKeepsAtoms`). The ranges are kept for inserts
and deletes apart; that an id is of one kind only is where `AreCopies` comes in.
`AreCopies` is not empty: the run checks it of every set of events a reader of
the room comes to hold.

`ContainersProofs`, for any documents and scenes whose roots are finitely many
(`ScenesAssumption`):

- `WinnersStayLast`, `NothingEverHidden`: `Spec => []X` for `WinnersAreLast` (a part
  of `ShownAsAsked`) and `NothingHidden`.

A cache kept by a local op is right because that op is the last of its key, and
it is that since its lamport is above all the document knows and its author the
only one of its id. The invariant has what this takes: the ids of an author's
ops are in a row, an author's lamports rise (`SoonerOrders`: then lamport and
author order the ops, so that a last one exists, `LatestExists`), an op comes
after all its author knew, and only maps have winners. The roots are picked one at a time
(`WithRoot`): after each, the picked have different names, and each candidate
so far has one of its name, an empty one only if it is empty too (`Picks`).

Only model-checked:

- The properties of `SharedSeq` and `RichText`, and those of `Room` about what is
  read: the sequence merge is made of folds and `SelectSeq` over sequences of
  runs. The provers cannot expand `SelectSeq`, and what a fold computes needs an
  induction over the sequence for each. Of `TakenOnce` this leaves that the
  exports of a document are such copies and say what was written: that they are
  taken once is proved (`UnitsTakeOnce`).
- `TableIsMap` of `PeerMaps`: the table is made of folds over its buckets and
  of triangular probes modulo its size, arithmetic the provers do not do.
- `ShownIffHeld` of `Containers` and the rest of `ShownAsAsked`: the walk down and the walk
  up agree only through the names of mergeable children, which are escaped and
  parsed by folds and `SelectSeq` over their characters (see the first point), and
  through paths of any length.
- Liveness and everything with ENABLED, which the prover has no rules for.

## 5. Observations

One contradicts what the code promises:

- A snapshot imported into a document that has part of it is checked in the
  order of its lamports. `snapshotChanges` then cuts what the document has,
  which raises the lamport of a change that is cut, and `importChanges` sorts
  again (`oplog.go:672`). In `oplog_resorted` the document has `p2@0..1` and the
  snapshot `p2@0..2` at lamport 0 and `p2@3` at lamport 1, without deps. The
  check finds no gap; after the cut `p2@2` has lamport 2, `p2@3` is applied
  before it, and it is skipped as known. The import succeeds with a counter
  skipped and an op lost, where `Import` says that a blob is refused in which "a
  change skips counters of its peer" (`document.go:159`) and `checkKnown` that
  its changes "are in the order the import applies them" (`oplog.go:865`). No
  history of loro's own has such lamports: a commit's lie past all of its peer's
  (`OwnBlobsKeepHistories`).

The others are facts that the models made visible and that the runs' instances
are chosen around. None of them contradicts a promise of the documentation.

- When two documents share a peer id, a local commit can supply what a parked
  change waits for without releasing it (with ids of their own the refinement
  rules that out), and a parked change of the other writer can be spliced
  in behind a commit: `checkKnown` looks at the blob, not at what is parked.
- A parked change which the state cannot show makes a later import of its
  dependency fail as a whole, each time, as the change stays parked after the
  roll-back.
- A snapshot imported into an empty document has its frontiers installed as it
  states them, as long as each lies in one of its changes
  (`snapshotFrontiersHeld`): that they are the heads of those changes is not
  asked, which `takeSnapshotVersion` documents.
- The lamport limit is checked for imports, not for local ops.
- A parked change is kept once per import that brings it.
- A lamport higher than its deps require is refused if the change can be
  compared with its dependencies at once, and taken from a parked change.
- Text inserted at the left edge of a range that a key with `ExpandNone` was
  unmarked on takes the style: `staysBeforeAnchor` (`docstate.go:233`) keeps
  new text before the start of any unmark, while `reverse` turns the unmark of
  such a key into one that expands to both sides.
- Where anchors of several marks lie in one gap and ask for different sides,
  one of them is not served: an end that expands, left of one that does not,
  lets the second style spread as well. `StylesAsAsked` asks for nothing there.
- The second loop of `textInsertIndex` steps back over one anchor at most.
- `Document.Map` takes root names that loro-crdt forbids (empty, with `/`, with
  the prefix of mergeable names); a mergeable child of such a map gets a name
  that `isMergeableName` or its checks reject.
- `fitsIn` counts the room for a text in bytes and cuts by characters; the head
  of a change with very many deps may leave no room at all (`LimitAssumption`
  excludes it). Ops that fold into a block's last op add nothing to its
  estimate, so a block of long runs holds more than its limit by that measure.

## 6. Not modelled, and the plan

What is left, most important first:

1. Proofs: cut and fold of ops in `SeqMerge`; that exports are copies in the
   sense of `AreCopies`; `IndexIsBuilt`; the two walks of `Containers`.
2. Text as a child in `Containers`; sums of floating-point counters.
3. What the merge of a blob shows when causes are missing.
4. The run-length and delta codecs of `encoding/columnar` as operators that
   give back what they were given.

Left out for good: the byte formats of blocks, SSTables, LZ4 and checksums
(pure functions compared with fixtures of loro-crdt), the encoder's field
order, the demo command, getters, JSON layout and error wording.
