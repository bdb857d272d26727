-------------------------------- MODULE Room --------------------------------
(***************************************************************************)
(* A Matrix room as the log of a document (integration/matrix/             *)
(* loromatrix.go): documents publish parts of their histories as events, a *)
(* reader replays the room over a homeserver's pages and merges the blobs  *)
(* it finds (loro/merge.go collect, loro/seqmerge.go mergeSequences).      *)
(*                                                                         *)
(* An event is the sequence of changes of its blob; one that is no update, *)
(* or does not decode, is an event of no change.  A document that imports  *)
(* what the room holds keeps it in Blocks.  A definition whose comment     *)
(* starts with "Variant:" is the definition after it with a bug.           *)
(***************************************************************************)
EXTENDS SharedSeq, Blocks

CONSTANTS
  Servers,    \* the homeservers tried: "plain", "honest", "other"
  MaxEvents,  \* bound: the events of a room, by homeserver
  PageSize    \* bound: the events on a page of a homeserver of many pages

ASSUME RoomAssumption == Servers \subseteq {"plain", "honest", "other"} /\ PageSize \in Nat

VARIABLES
  server,  \* "plain" sends the room whole, "honest" in pages, "other" anything
  room,    \* the events, oldest first
  reader   \* Replay: [phase, got, upto, from, tokens]

roomVars == <<server, room, reader>>

-----------------------------------------------------------------------------
(* What a document exports.                                                *)

AtMost(m, n) == IF m < n THEN m ELSE n
AtLeast(m, n) == IF m < n THEN n ELSE m

VersionAt(h) == [p \in Docs |-> EndOfAll(h[p])]

(* The changes of a blob: those of a peer are put into a fresh store.      *)
Grouped(chs) == ChangesIn(FoldLeft(LAMBDA b, c : InsertWhole(b, c, FALSE), <<>>, chs))

(* What a history has that a version has not, peer by peer.                *)
ExportedFrom(h, from) ==
  LET news(p) == SelectSeq(h[p], LAMBDA c : EndOf(c) > from[p])
      peers == SetToSortSeq(Docs, <)
  IN  FlattenSeq([i \in DOMAIN peers |->
        LET p == peers[i] IN Grouped([k \in DOMAIN news(p) |-> CutChange(news(p)[k], from[p])])])

(* A span of one peer: its counters from a up to b.                        *)
ExportedInRange(h, p, a, b) ==
  LET within == SelectSeq(h[p], LAMBDA c : AtLeast(a, c.start) < AtMost(b, EndOf(c)))
  IN  Grouped([k \in DOMAIN within |->
                 Slice(within[k], AtLeast(a, within[k].start), AtMost(b, EndOf(within[k])))])

-----------------------------------------------------------------------------
(* The merge of changes that overlap.  A range is <<first, end>>.          *)

(* A range that is had ends the gap before it, if it meets what is left of *)
(* want; w is [cur, out].                                                  *)
PastRange(w, r, want) ==
  IF r[2] <= w.cur \/ r[1] >= want[2] THEN w
  ELSE [cur |-> r[2], out |-> IF r[1] > w.cur THEN Append(w.out, <<w.cur, r[1]>>) ELSE w.out]

(* The parts of want that the ranges had, sorted and apart, do not cover.  *)
Uncovered(had, want) ==
  LET walk[k \in 0 .. Len(had)] ==
        IF k = 0 THEN [cur |-> want[1], out |-> <<>>] ELSE PastRange(walk[k - 1], had[k], want)
      w == walk[Len(had)]
  IN  IF w.cur < want[2] THEN Append(w.out, <<w.cur, want[2]>>) ELSE w.out

(* Variant: the range absorbed last says where the new one ends            *)
(* (TakenOnce).                                                            *)
AbsorbedEnd(r, h) == <<AtMost(r[1], h[1]), h[2]>>

Absorbed(r, h) == <<AtMost(r[1], h[1]), AtLeast(r[2], h[2])>>

(* Range r goes in before the first that lies after it, with those that it *)
(* overlaps or touches; w is [r, out, placed].                             *)
PutRange(w, h) ==
  CASE h[2] < w.r[1] -> [w EXCEPT !.out = Append(@, h)]
    [] h[1] > w.r[2] -> [w EXCEPT !.out = IF w.placed THEN Append(@, h) ELSE Append(Append(@, w.r), h),
                                  !.placed = TRUE]
    [] OTHER -> [w EXCEPT !.r = Absorbed(@, h)]

AddRange(had, r) ==
  LET walk[k \in 0 .. Len(had)] ==
        IF k = 0 THEN [r |-> r, out |-> <<>>, placed |-> FALSE] ELSE PutRange(walk[k - 1], had[k])
      w == walk[Len(had)]
  IN  IF w.placed THEN w.out ELSE Append(w.out, w.r)

(* One op: the atoms of it that are new; w is [had, fresh].                *)
TakeOp(w, op) ==
  LET key  == <<op.id[1], op.kind>>
      span == <<op.id[2], op.id[2] + op.len>>
      new  == Uncovered(w.had[key], span)
  IN  [had   |-> [w.had EXCEPT ![key] = AddRange(@, span)],
       fresh |-> w.fresh \o [i \in DOMAIN new |-> Clip(op, new[i][1] - span[1], new[i][2] - new[i][1])]]

(* One copy of a change; w is [had, units].                                *)
TakeChange(w, c) ==
  LET take[k \in 0 .. Len(c.ops)] ==
        IF k = 0 THEN [had |-> w.had, fresh |-> <<>>] ELSE TakeOp(take[k - 1], c.ops[k])
      t == take[Len(c.ops)]
  IN  [had |-> t.had, units |-> IF t.fresh = <<>> THEN w.units ELSE Append(w.units, [of |-> c, ops |-> t.fresh])]

(* collect: each atom once, by the copy that brought it first.             *)
Units(copies) ==
  LET take[k \in 0 .. Len(copies)] ==
        IF k = 0 THEN [had |-> [key \in Docs \X {"ins", "del"} |-> <<>>], units |-> <<>>]
        ELSE TakeChange(take[k - 1], copies[k])
  IN  take[Len(copies)].units

(* The stretches of a unit without a gap.                                  *)
RunsOf(u) ==
  LET starts == SelectSeq([i \in DOMAIN u.ops |-> i],
                          LAMBDA i : i = 1 \/ u.ops[i].id # After(u.ops[i - 1].id, u.ops[i - 1].len))
      stop(k) == IF k = Len(starts) THEN Len(u.ops) ELSE starts[k + 1] - 1
  IN  [k \in DOMAIN starts |-> [of |-> u.of, ops |-> SubSeq(u.ops, starts[k], stop(k))]]

OpEarlier(a, b) ==
  \/ a.lam < b.lam
  \/ a.lam = b.lam /\ (a.id[1] < b.id[1] \/ (a.id[1] = b.id[1] /\ a.id[2] < b.id[2]))

(* Each run takes its own place among the others.                          *)
RunsInOrder(copies) ==
  LET units == Units(copies)
      runs  == FlattenSeq([i \in DOMAIN units |-> RunsOf(units[i])])
  IN  SortSeq(runs, LAMBDA r, s : OpEarlier(r.ops[1], s.ops[1]))

(* Variant: only the copy that starts last before the id is looked at      *)
(* (ReadAsImported).                                                       *)
FindLatest(copies, id) ==
  LET near == {i \in DOMAIN copies : PeerOfChange(copies[i]) = id[1] /\ copies[i].start <= id[2]}
  IN  {copies[i] : i \in {i \in near : /\ EndOf(copies[i]) > id[2]
                                       /\ \A j \in near : copies[j].start < copies[i].start
                                                            \/ (copies[j].start = copies[i].start /\ j <= i)}}

(* The copy that holds an id, if there is one: of those that do the one    *)
(* that starts last, and of those the one that arrived last.               *)
Find(copies, id) ==
  LET hold == {i \in DOMAIN copies : /\ PeerOfChange(copies[i]) = id[1]
                                     /\ id[2] \in copies[i].start .. EndOf(copies[i]) - 1}
  IN  {copies[i] : i \in {i \in hold : \A j \in hold : copies[j].start < copies[i].start
                                                         \/ (copies[j].start = copies[i].start /\ j <= i)}}

CausesOf(c) == c.deps \cup (IF c.start > 0 THEN {<<PeerOfChange(c), c.start - 1>>} ELSE {})

(* Whether every author's view can be rebuilt from the copies.             *)
IsComplete(copies) == \A c \in ToSet(copies) : \A id \in CausesOf(c) : Find(copies, id) # {}

(* What the author of a copy had seen: the closure of what it names.       *)
VersionIn(copies, c) ==
  LET wider(ids, k) == ids \cup UNION {CausesOf(b) : b \in UNION {Find(copies, id) : id \in ids}}
      ids == FoldLeft(wider, CausesOf(c), copies)
  IN  [p \in Docs |-> LET ends == {0} \cup {id[2] + 1 : id \in {id \in ids : id[1] = p}}
                      IN  CHOOSE n \in ends : \A m \in ends : m <= n]

MergedRun(m, copies, r) ==
  LET version == VersionIn(copies, r.of)
  IN  FoldLeft(LAMBDA n, op : ReplayOp(n, r.of, version, op, TRUE, IsComplete(copies)), m, r.ops)

(* The sequence that State shows of the changes collected.                 *)
MergedState(copies) ==
  FoldLeft(LAMBDA m, r : MergedRun(m, copies, r),
           [s |-> EmptySeq, frontier |-> {}, versions |-> {}], RunsInOrder(copies)).s

-----------------------------------------------------------------------------
(* The room and its reader.  A page token is <<position, name>>: it stands *)
(* for the events before the position, and may have two names.             *)

NoToken == <<>>
Tokens == (1 .. Len(room) + 1) \X {0, 1}

RoomInit ==
  /\ Init
  /\ server \in Servers
  /\ room = <<>>
  /\ reader = [phase |-> "idle", got |-> <<>>, upto |-> 0, from |-> NoToken, tokens |-> {}]

(* Bound: edits are made where the room is read at once, before the first  *)
(* event; a document may still publish an older state that another made.   *)
Edit ==
  /\ server = "plain" /\ reader.phase = "idle" /\ room = <<>>
  /\ Next
  /\ UNCHANGED roomVars

(* An event whose sender had no answer may be published again.             *)
Publish(blob) ==
  /\ Len(room) < MaxEvents[server]
  /\ room' = Append(room, blob)
  /\ UNCHANGED <<vars, server, reader>>

(* Bound: spans only where the room is read at once.                       *)
PublishSpan(d, p, a, b) == server = "plain" /\ Publish(ExportedInRange(hist[d], p, a, b))

(* Another event: of another type or format, or one that does not decode.  *)
(* Bound: only where the homeserver sends pages.                           *)
Litter ==
  /\ server # "plain" /\ Len(room) < MaxEvents[server]
  /\ room' = Append(room, <<>>)
  /\ UNCHANGED <<vars, server, reader>>

(* The events a to b, and those of a set, the newest first.                *)
Ascending(a, b) == [i \in 1 .. b - a + 1 |-> a + i - 1]

NewestFirst(S) ==
  {s \in [1 .. Cardinality(S) -> S] : \A j \in DOMAIN s : \A k \in 1 .. j - 1 : s[j] < s[k]}

(* What the reader keeps of a page of the events b down to a: an event     *)
(* that it has seen is not taken again.                                    *)
Read(got, a, b) == {got \o new : new \in NewestFirst((a .. b) \ ToSet(got))}

(* Variant: an empty page ends the replay (NothingMissed).                 *)
EndsWhenEmpty(page, end, r) == page = {} \/ end = NoToken \/ end = r.from \/ end \in r.tokens

(* Variant: only the token just used ends the replay (ReplayEnds).         *)
EndsOnSame(page, end, r) == end = NoToken \/ end = r.from

IsLast(page, end, r) == end = NoToken \/ end = r.from \/ end \in r.tokens

(* The initial sync: the newest events, from s on, and a token for those   *)
(* before.                                                                 *)
Sync(s, prev) ==
  /\ reader.phase \in {"idle", "failed"}
  /\ CASE server = "plain" -> s = 1 /\ prev = NoToken
       [] server = "honest" -> \/ prev = NoToken /\ s = 1
                               \/ prev # NoToken /\ prev[2] = 0 /\ prev[1] \in s .. s + 1
       [] server = "other" -> TRUE
  /\ reader' = [phase |-> IF prev = NoToken THEN "done" ELSE "paging", upto |-> Len(room),
                got |-> Ascending(s, Len(room)), from |-> prev, tokens |-> {}]
  /\ UNCHANGED <<vars, server, room>>

(* An honest page goes back from its token: events, or none under the      *)
(* position's other name; the next may repeat the oldest of them.          *)
HonestPage(a, b, end) ==
  LET t == reader.from
  IN  /\ b = t[1] - 1
      /\ \/ a > b /\ t[2] = 0 /\ end = <<t[1], 1>>
         \/ a <= b /\ end \in {<<a, 0>>} \cup {<<p, 0>> : p \in {a + 1} \cap 1 .. b}
         \/ a = 1 /\ end = NoToken

(* A page of the events b down to a.                                       *)
Page(a, b, end) ==
  LET last == IsLast(a .. b, end, reader)
  IN  /\ reader.phase = "paging"
      /\ server = "honest" => HonestPage(a, b, end)
      /\ \E got \in Read(reader.got, a, b) :
           reader' = [reader EXCEPT !.got = got,
                        !.phase = IF last THEN "done" ELSE @,
                        !.tokens = IF last THEN @ ELSE @ \cup {reader.from},
                        !.from = IF last THEN @ ELSE end]
      /\ UNCHANGED <<vars, server, room>>

(* A request fails: the replay ends with what it has.                      *)
Fail ==
  /\ reader.phase = "paging"
  /\ reader' = [reader EXCEPT !.phase = "failed"]
  /\ UNCHANGED <<vars, server, room>>

Answer ==
  \/ \E a \in 1 .. Len(room) + 1, n \in 0 .. PageSize, end \in Tokens \cup {NoToken} :
       a + n - 1 <= Len(room) /\ Page(a, a + n - 1, end)
  \/ Fail

RoomNext ==
  \/ Edit
  \/ \E d \in Docs, from \in {NoVersion} \cup {VersionAt(hist[e]) : e \in Docs} :
       Publish(ExportedFrom(hist[d], from))
  \/ \E d, p \in Docs : \E a, b \in 0 .. EndOfAll(hist[d][p]) : a < b /\ PublishSpan(d, p, a, b)
  \/ Litter
  \/ \E s \in 1 .. Len(room) + 1, prev \in Tokens \cup {NoToken} : Sync(s, prev)
  \/ Answer

RoomSpec == RoomInit /\ [][RoomNext]_<<vars, roomVars>>

(* A request is answered or times out.                                     *)
FairRoom == RoomSpec /\ WF_<<vars, roomVars>>(Answer)

-----------------------------------------------------------------------------
(* Properties.                                                             *)

Copies == FlattenSeq([i \in DOMAIN reader.got |-> room[reader.got[i]]])

HasRead == reader.phase \in {"done", "failed"}

OpIds(op) == {op.id[1]} \X (op.id[2] .. op.id[2] + op.len - 1)

IdsIn(c) == {<<PeerOfChange(c), n>> : n \in c.start .. EndOf(c) - 1}

AllIds(copies) == UNION {IdsIn(c) : c \in ToSet(copies)}

(* What an op says of one of its atoms.                                    *)
Atom(op, n) ==
  LET x == Clip(op, n - op.id[2], 1)
  IN  [id |-> x.id, kind |-> x.kind, lam |-> x.lam, pos |-> x.pos,
       of |-> IF x.kind = "del" THEN x.span.first ELSE None]

AtomsIn(op) == {Atom(op, n) : n \in op.id[2] .. op.id[2] + op.len - 1}

(* A change's atoms with what each depends on.                             *)
AtomsWithDeps(c) ==
  UNION {{<<x, IF x.id[2] = c.start THEN c.deps ELSE {After(x.id, -1)}>> : x \in AtomsIn(op)} :
           op \in ToSet(c.ops)}

(* What the authors did, as far as the changes reach.                      *)
Written(copies) ==
  LET end(p) == FoldLeft(LAMBDA m, c : IF PeerOfChange(c) = p THEN AtLeast(m, EndOf(c)) ELSE m, 0, copies)
      own(p) == SelectSeq(hist[p][p], LAMBDA c : c.start < end(p))
  IN  [p \in Docs |-> [k \in DOMAIN own(p) |->
         Slice(own(p)[k], own(p)[k].start, AtMost(end(p), EndOf(own(p)[k])))]]

AtomsOf(changes) == UNION {UNION {AtomsIn(op) : op \in ToSet(c.ops)} : c \in changes}

Ops ==
  [kind : {"ins"}, id : Docs \X Nat, len : Nat \ {0}, lam : Nat, pos : Int]
    \cup {op \in [kind : {"del"}, id : Docs \X Nat, len : Nat \ {0}, lam : Nat, pos : Int,
                  span : [first : Docs \X Nat, len : Int]] : Abs(op.span.len) = op.len}

(* The copies of changes that a reader may have: the ops of each are in a  *)
(* row, and two copies that have an id say the same of it.                 *)
IsRow(c) ==
  /\ c.ops \in Seq(Ops) /\ c.ops # <<>>
  /\ c.start = c.ops[1].id[2]
  /\ \A k \in 2 .. Len(c.ops) : c.ops[k].id = After(c.ops[k - 1].id, c.ops[k - 1].len)

AreCopies(copies) ==
  LET atoms == AtomsOf(ToSet(copies))
  IN  /\ \A c \in ToSet(copies) : IsRow(c)
      /\ \A x, y \in atoms : x.id = y.id => x = y

(* Of each id in the copies one op that is taken has an atom, and says of  *)
(* it what the copies say.                                                 *)
TakesOnce(units, copies) ==
  LET places == UNION {{i} \X DOMAIN units[i].ops : i \in DOMAIN units}
      idsAt(x) == OpIds(units[x[1]].ops[x[2]])
  IN  /\ UNION {idsAt(x) : x \in places} = AllIds(copies)
      /\ \A x, y \in places : idsAt(x) \cap idsAt(y) # {} => x = y
      /\ AtomsOf(ToSet(units)) \subseteq AtomsOf(ToSet(copies))

(* However the blobs overlap and in whatever order they come, each atom    *)
(* that they hold is taken once, and says what its author wrote (collect). *)
TakenOnce ==
  HasRead =>
    LET copies == Copies
    IN  /\ AreCopies(copies)
        /\ AtomsOf(ToSet(copies)) \subseteq AtomsOf(Changes(Written(copies)))
        /\ TakesOnce(Units(copies), copies)

(* The merge knows whether the changes it got lack a cause; when they do   *)
(* not it shows what a document that imported them would (mergeSequences). *)
ReadAsImported ==
  HasRead =>
    LET copies == Copies
        closed == \A c \in ToSet(copies) : CausesOf(c) \subseteq AllIds(copies)
    IN  /\ IsComplete(copies) <=> closed
        /\ closed => Matches(MergedState(copies), Replay(Written(copies)))

(* The changes of a document that imports these copies: by lamports, what  *)
(* it has cut off, what is larger than a block split.                      *)
ImportedBlocks(copies) ==
  LET known(b) == IF b = <<>> THEN 0 ELSE Last(b).end
      add(bs, c) == LET p == PeerOfChange(c)
                    IN  IF EndOf(c) <= known(bs[p]) THEN bs
                        ELSE [bs EXCEPT ![p] = Stored(@, CutChange(c, known(@)), TRUE)]
  IN  FoldLeft(add, [p \in Docs |-> <<>>], SortSeq(copies, Earlier))

FitsLimit(b) ==
  b.size <= Limit \/ (Len(b.changes) = 1 /\ Len(b.changes[1].ops) = 1 /\ b.changes[1].ops[1].kind = "del")

AllAtoms(chs) == UNION {AtomsWithDeps(c) : c \in ToSet(chs)}

(* A peer's blocks, whose changes are chs, hold what it wrote.             *)
HoldsAll(blocks, chs, written) ==
  /\ AllAtoms(chs) = AllAtoms(written)
  /\ \A k \in DOMAIN chs : chs[k].start = IF k = 1 THEN 0 ELSE EndOf(chs[k - 1])
  /\ \A b \in ToSet(blocks) : b.end = EndOf(Last(b.changes)) /\ FitsLimit(b)
  /\ \A n \in 0 .. EndOfAll(chs) :
       FindChange(blocks, n) = {c \in ToSet(chs) : n \in c.start .. EndOf(c) - 1}

StoreHolds(store, written) ==
  \A p \in Docs : HoldsAll(store[p], ChangesIn(store[p]), written[p])

(* Cut, split and merged into blocks, the changes of a document are in a   *)
(* row, found by any of their counters, and their atoms are those of the   *)
(* author with the lamports and deps they had; no block is beyond the      *)
(* limit but of one op that cannot be cut (insert, splitThenInsert, find). *)
StoreHoldsHistory ==
  HasRead /\ IsComplete(Copies) => StoreHolds(ImportedBlocks(Copies), Written(Copies))

(* A homeserver that sends its events, in pages that may overlap or be     *)
(* empty, has sent every event that was there at the start (Replay).       *)
NothingMissed ==
  reader.phase = "done" /\ server # "other" => 1 .. reader.upto \subseteq ToSet(reader.got)

(* Whatever tokens a homeserver hands out, a replay ends (Replay).         *)
ReplayEnds == reader.phase = "paging" ~> reader.phase # "paging"
=============================================================================
