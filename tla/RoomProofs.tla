----------------------------- MODULE RoomProofs -----------------------------
(***************************************************************************)
(* A replay of a room misses nothing (integration/matrix/loromatrix.go     *)
(* Replay), whatever the number of events and the size of the pages; and   *)
(* a merge of what it returns takes each atom once (src/loro/merge.go      *)
(* collect), whatever the copies are.                                      *)
(*                                                                         *)
(* The page token of an honest homeserver only goes back, by position or   *)
(* else from a position's first name to its second, so no token comes      *)
(* twice and the check that ends a replay on a token it has used never     *)
(* cuts one short; and of the events that were there at the start the      *)
(* reader has, at every moment, all from its token's position on.          *)
(*                                                                         *)
(* The ranges that collect keeps of a peer stay sorted and apart, and have *)
(* the counters that were taken and no others: uncovered returns what they *)
(* leave of an op, addRange adds it.  So of each copy what is taken is     *)
(* what no copy before it had.                                             *)
(***************************************************************************)
EXTENDS Room, TLAPS, FiniteSetTheorems, WellFoundedInduction

-----------------------------------------------------------------------------
(* What the reader holds of a page.                                        *)

(* Strictly falling events, as many as there are in a set, are all of it.  *)
LEMMA OrderedWhole ==
  ASSUME NEW S \in SUBSET Int, IsFiniteSet(S), NEW s \in NewestFirst(S)
  PROVE  s \in Seq(Int) /\ ToSet(s) = S
<1> DEFINE n == Cardinality(S)
<1>1. n \in Nat
  BY FS_CardinalityType
<1>2. s \in [1 .. n -> S] /\ \A j \in 1 .. n : \A k \in 1 .. j - 1 : s[j] < s[k]
  BY DEF NewestFirst
<1> HIDE DEF n
<1>3. \A j, k \in 1 .. n : s[j] = s[k] => j = k
  <2> SUFFICES ASSUME NEW j \in 1 .. n, NEW k \in 1 .. n, s[j] = s[k], k < j PROVE FALSE
    BY <1>1
  <2>1. k \in 1 .. j - 1
    BY <1>1
  <2>2. s[k] \in Int
    BY <1>2
  <2> QED BY <1>2, <2>1, <2>2
<1>4. s \in Injection(1 .. n, S)
  BY <1>2, <1>3 DEF Injection, IsInjective
<1>5. IsFiniteSet(1 .. n) /\ Cardinality(1 .. n) = n
  BY <1>1, FS_Interval
<1>6. s \in Surjection(1 .. n, S)
  BY <1>4, <1>5, FS_Injection DEF n
<1>7. \A x \in S : \E j \in 1 .. n : s[j] = x
  BY <1>6 DEF Surjection
<1>8. s \in [1 .. n -> Int]
  BY <1>2
<1>9. ToSet(s) = S
  BY <1>2, <1>7 DEF ToSet
<1> QED
  BY <1>1, <1>8, <1>9

(* After a page the reader holds what it held and the events of the page.  *)
LEMMA ReadHolds ==
  ASSUME NEW got \in Seq(Int), NEW a \in Int, NEW b \in Int, NEW new \in Read(got, a, b)
  PROVE  new \in Seq(Int) /\ ToSet(new) = ToSet(got) \cup (a .. b)
<1> DEFINE S == (a .. b) \ ToSet(got)
<1>1. PICK s \in NewestFirst(S) : new = got \o s
  BY DEF Read
<1>2. IsFiniteSet(a .. b)
  BY FS_Interval
<1>3. IsFiniteSet(S)
  BY <1>2, FS_Subset
<1>4. S \in SUBSET Int
  OBVIOUS
<1> HIDE DEF S
<1>5. s \in Seq(Int) /\ ToSet(s) = S
  BY <1>3, <1>4, OrderedWhole
<1>6. new \in Seq(Int) /\ Len(new) = Len(got) + Len(s)
  BY <1>1, <1>5
<1>7. \A i \in 1 .. Len(new) :
        new[i] = IF i <= Len(got) THEN got[i] ELSE s[i - Len(got)]
  BY <1>1, <1>5
<1>8. \A t \in Seq(Int) : ToSet(t) = {t[i] : i \in 1 .. Len(t)}
  <2> SUFFICES ASSUME NEW t \in Seq(Int) PROVE ToSet(t) = {t[i] : i \in 1 .. Len(t)}
    OBVIOUS
  <2>1. DOMAIN t = 1 .. Len(t)
    OBVIOUS
  <2> QED BY <2>1 DEF ToSet
<1>9. Len(got) \in Nat /\ Len(s) \in Nat
  BY <1>5
<1>10. ToSet(new) = ToSet(got) \cup ToSet(s)
  <2>1. ASSUME NEW i \in 1 .. Len(new) PROVE new[i] \in ToSet(got) \cup ToSet(s)
    <3>1. CASE i <= Len(got)
      BY <1>6, <1>7, <1>8, <1>9, <3>1
    <3>2. CASE ~(i <= Len(got))
      <4>1. i - Len(got) \in 1 .. Len(s)
        BY <1>6, <1>9, <3>2
      <4>2. new[i] = s[i - Len(got)]
        BY <1>7, <3>2
      <4> QED BY <1>5, <1>8, <4>1, <4>2
    <3> QED BY <3>1, <3>2
  <2>2. ASSUME NEW i \in 1 .. Len(got) PROVE got[i] \in ToSet(new)
    <3>1. i \in 1 .. Len(new) /\ i <= Len(got)
      BY <1>6, <1>9
    <3>2. new[i] = got[i]
      BY <1>7, <3>1
    <3>3. ToSet(new) = {new[j] : j \in 1 .. Len(new)}
      BY <1>6, <1>8
    <3> QED BY <3>1, <3>2, <3>3
  <2>3. ASSUME NEW i \in 1 .. Len(s) PROVE s[i] \in ToSet(new)
    <3>1. /\ Len(got) + i \in 1 .. Len(new)
          /\ ~(Len(got) + i <= Len(got))
          /\ (Len(got) + i) - Len(got) = i
      BY <1>6, <1>9
    <3>2. new[Len(got) + i] = s[i]
      BY <1>7, <3>1
    <3> QED BY <1>6, <1>8, <3>1, <3>2
  <2>4. /\ ToSet(new) = {new[i] : i \in 1 .. Len(new)}
        /\ ToSet(got) = {got[i] : i \in 1 .. Len(got)}
        /\ ToSet(s) = {s[i] : i \in 1 .. Len(s)}
    BY <1>5, <1>6, <1>8
  <2> QED BY <2>1, <2>2, <2>3, <2>4, Zenon
<1> QED
  BY <1>5, <1>6, <1>10 DEF S

(* The initial sync's events are those from a to b.                        *)
LEMMA AscendingHolds ==
  ASSUME NEW a \in Int, NEW b \in Int, a <= b + 1
  PROVE  Ascending(a, b) \in Seq(Int) /\ ToSet(Ascending(a, b)) = a .. b
<1> DEFINE s == Ascending(a, b)
           n == b - a + 1
<1>1. n \in Nat /\ s \in [1 .. n -> Int] /\ \A i \in 1 .. n : s[i] = a + i - 1
  BY DEF Ascending
<1>2. \A x \in a .. b : x - a + 1 \in 1 .. n /\ x = a + (x - a + 1) - 1
  OBVIOUS
<1> HIDE DEF s, n
<1>3. DOMAIN s = 1 .. n /\ s \in Seq(Int)
  BY <1>1
<1>4. \A x \in a .. b : \E i \in 1 .. n : s[i] = x
  BY <1>1, <1>2
<1>5. \A i \in 1 .. n : s[i] \in a .. b
  BY <1>1 DEF n
<1> QED
  BY <1>3, <1>4, <1>5 DEF ToSet, s

-----------------------------------------------------------------------------
(* The invariant.                                                          *)

Positions == Nat \X {0, 1}

ReplayTypeOK ==
  /\ server \in Servers
  /\ room \in Seq(ToSet(room))
  /\ reader \in [phase : {"idle", "paging", "done", "failed"}, got : Seq(Int), upto : Nat,
                 from : Positions \cup {NoToken}, tokens : SUBSET Positions]
  /\ reader.phase = "paging" => reader.from \in Positions

(* The reader has the events that were there at the start, from a on.      *)
HasFrom(a) == a .. reader.upto \subseteq ToSet(reader.got)

(* A homeserver going back is past token u when it is at t.                *)
Past(u, t) == u[1] > t[1] \/ (u[1] = t[1] /\ u[2] < t[2])

ReplayInv ==
  /\ ReplayTypeOK
  /\ server = "plain" => reader.phase \in {"idle", "done"}
  /\ server = "honest" /\ reader.phase = "paging" =>
       HasFrom(reader.from[1]) /\ \A u \in reader.tokens : Past(u, reader.from)
  /\ NothingMissed

-----------------------------------------------------------------------------
(* It is inductive.                                                        *)

(* A replay begins with nothing read and no token asked with.              *)
LEMMA ReplayInit == RoomInit => ReplayInv
<1> SUFFICES ASSUME RoomInit PROVE ReplayInv
  OBVIOUS
<1>1. reader = [phase |-> "idle", got |-> <<>>, upto |-> 0, from |-> NoToken, tokens |-> {}]
  BY DEF RoomInit
<1>2. room \in Seq(ToSet(room)) /\ server \in Servers
  BY DEF RoomInit, ToSet
<1>3. ReplayTypeOK
  BY <1>1, <1>2 DEF ReplayTypeOK
<1> QED
  BY <1>1, <1>3 DEF ReplayInv, NothingMissed

(* A sequence is one of its elements.                                      *)
LEMMA SeqOfItsElements ==
  ASSUME NEW S, NEW q \in Seq(S)
  PROVE  q \in Seq(ToSet(q))
<1> DEFINE T == ToSet(q)
           n == Len(q)
<1>1. n \in Nat /\ DOMAIN q = 1 .. n /\ q = [i \in 1 .. n |-> q[i]]
  OBVIOUS
<1>2. \A i \in 1 .. n : q[i] \in T
  BY <1>1 DEF ToSet
<1> HIDE DEF T, n
<1>3. q \in [1 .. n -> T]
  BY <1>1, <1>2
<1>4. q \in Seq(T)
  BY <1>1, <1>3
<1> QED BY <1>4 DEF T

(* Events are added at the room's end, whatever the reader does.           *)
LEMMA AppendKeeps ==
  ASSUME ReplayInv, NEW blob, room' = Append(room, blob), UNCHANGED <<server, reader>>
  PROVE  ReplayInv'
<1> DEFINE S == ToSet(room) \cup {blob}
<1>1. room \in Seq(S)
  BY DEF ReplayInv, ReplayTypeOK
<1>2. room' \in Seq(S)
  <2> HIDE DEF S
  <2>1. blob \in S
    BY DEF S
  <2> QED BY <1>1, <2>1
<1>3. room' \in Seq(ToSet(room'))
  <2> HIDE DEF S
  <2> QED BY <1>2, SeqOfItsElements
<1> QED
  BY <1>3 DEF ReplayInv, ReplayTypeOK, HasFrom, NothingMissed

(* The initial sync brings the events from s on, and its token stands      *)
(* for no later one.                                                       *)
LEMMA SyncKeeps ==
  ASSUME ReplayInv, NEW s \in 1 .. Len(room) + 1, NEW prev \in Tokens \cup {NoToken}, Sync(s, prev)
  PROVE  ReplayInv'
<1>1. Len(room) \in Nat /\ s \in Int
  BY DEF ReplayInv, ReplayTypeOK
<1>2. prev # NoToken => prev \in Positions
  BY <1>1 DEF Tokens, Positions
<1> DEFINE got == Ascending(s, Len(room))
<1>3. got \in Seq(Int) /\ ToSet(got) = s .. Len(room)
  BY <1>1, AscendingHolds
<1> HIDE DEF got
<1>4. /\ reader' = [phase |-> IF prev = NoToken THEN "done" ELSE "paging", upto |-> Len(room),
                    got |-> got, from |-> prev, tokens |-> {}]
      /\ UNCHANGED <<server, room>>
  BY DEF Sync, got
<1>5. ReplayTypeOK'
  BY <1>1, <1>2, <1>3, <1>4 DEF ReplayInv, ReplayTypeOK
<1>6. server \in {"plain", "honest", "other"}
  BY RoomAssumption DEF ReplayInv, ReplayTypeOK
<1>7. CASE server = "plain"
  <2>1. s = 1 /\ prev = NoToken
    BY <1>7 DEF Sync
  <2> QED
    BY <1>3, <1>4, <1>5, <1>7, <2>1 DEF ReplayInv, NothingMissed
<1>8. CASE server = "honest"
  <2>1. \/ prev = NoToken /\ s = 1
        \/ prev # NoToken /\ prev[1] \in s .. s + 1
    BY <1>8 DEF Sync
  <2>2. CASE prev = NoToken
    BY <1>3, <1>4, <1>5, <1>8, <2>1, <2>2 DEF ReplayInv, NothingMissed
  <2>3. CASE prev # NoToken
    <3>1. prev[1] .. Len(room) \subseteq s .. Len(room)
      BY <1>1, <2>1, <2>3
    <3>2. reader'.phase = "paging" /\ reader'.from = prev /\ reader'.tokens = {}
      BY <1>4, <2>3
    <3>3. HasFrom(prev[1])'
      BY <1>3, <1>4, <3>1, <3>2 DEF HasFrom
    <3> QED
      BY <1>4, <1>5, <1>8, <3>2, <3>3 DEF ReplayInv, HasFrom, NothingMissed
  <2> QED BY <2>2, <2>3
<1>9. CASE server = "other"
  BY <1>4, <1>5, <1>9 DEF ReplayInv, NothingMissed
<1> QED
  BY <1>6, <1>7, <1>8, <1>9

(* An honest page joins what the reader has, and its token is new.         *)
LEMMA HonestPageGoesBack ==
  ASSUME ReplayInv, server = "honest", reader.phase = "paging", NEW a \in Nat \ {0}, NEW b \in Int,
         a <= b + 1, NEW end \in Tokens \cup {NoToken}, HonestPage(a, b, end)
  PROVE  /\ IF end = NoToken THEN a = 1 ELSE end[1] \in a .. reader.from[1]
         /\ b = reader.from[1] - 1
         /\ end # NoToken => Past(reader.from, end)
         /\ IsLast(a .. b, end, reader) <=> end = NoToken
<1> DEFINE t == reader.from
<1>1. t[1] \in Nat /\ t[2] \in {0, 1} /\ t = <<t[1], t[2]>>
  BY DEF ReplayInv, ReplayTypeOK, Positions
<1>2. \A u \in reader.tokens : u[1] \in Nat /\ u[2] \in {0, 1} /\ Past(u, t)
  BY DEF ReplayInv, ReplayTypeOK, Positions
<1>3. HonestPage(a, b, end) /\ b = t[1] - 1
  BY DEF HonestPage
<1> HIDE DEF t
<1>4. CASE end = NoToken
  <2>1. a = 1
    BY <1>3, <1>4 DEF HonestPage, NoToken
  <2> QED BY <1>3, <1>4, <2>1 DEF IsLast, t
<1>5. CASE end # NoToken
  <2>1. end[1] \in a .. t[1] /\ end[2] \in {0, 1} /\ Past(t, end)
    <3>1. \/ a > b /\ t[2] = 0 /\ end = <<t[1], 1>>
          \/ a <= b /\ end = <<a, 0>>
          \/ a <= b /\ end = <<a + 1, 0>> /\ a + 1 <= b
      BY <1>3, <1>5 DEF HonestPage, t
    <3>2. CASE a > b /\ t[2] = 0 /\ end = <<t[1], 1>>
      <4>1. end[1] = t[1] /\ end[2] = 1
        BY <3>2
      <4> QED BY <1>1, <1>3, <3>2, <4>1 DEF Past
    <3>3. CASE a <= b /\ end = <<a, 0>>
      <4>1. end[1] = a /\ end[2] = 0
        BY <3>3
      <4> QED BY <1>1, <1>3, <3>3, <4>1 DEF Past
    <3>4. CASE a <= b /\ end = <<a + 1, 0>> /\ a + 1 <= b
      <4>1. end[1] = a + 1 /\ end[2] = 0
        BY <3>4
      <4> QED BY <1>1, <1>3, <3>4, <4>1 DEF Past
    <3> QED BY <3>1, <3>2, <3>3, <3>4
  <2>2. end # t
    BY <1>1, <2>1 DEF Past
  <2>3. end \notin reader.tokens
    BY <1>1, <1>2, <2>1 DEF Past
  <2> QED BY <1>3, <1>5, <2>1, <2>2, <2>3 DEF IsLast, t
<1> QED BY <1>4, <1>5

(* A page adds its events; the replay goes on from its token or is over.   *)
LEMMA PageKeeps ==
  ASSUME ReplayInv, NEW a \in 1 .. Len(room) + 1, NEW b \in Int, a <= b + 1,
         NEW end \in Tokens \cup {NoToken}, Page(a, b, end)
  PROVE  ReplayInv'
<1> DEFINE last == IsLast(a .. b, end, reader)
<1>1. Len(room) \in Nat /\ a \in Nat \ {0} /\ reader.got \in Seq(Int)
  BY DEF ReplayInv, ReplayTypeOK
<1>2. end # NoToken => end \in Positions
  BY <1>1 DEF Tokens, Positions
<1>3. ~last => end # NoToken
  BY DEF IsLast
<1> HIDE DEF last
<1>4. PICK got \in Read(reader.got, a, b) :
        reader' = [reader EXCEPT !.got = got,
                     !.phase = IF last THEN "done" ELSE @,
                     !.tokens = IF last THEN @ ELSE @ \cup {reader.from},
                     !.from = IF last THEN @ ELSE end]
  BY DEF Page, last
<1>5. got \in Seq(Int) /\ ToSet(got) = ToSet(reader.got) \cup (a .. b)
  BY <1>1, ReadHolds
<1>6. reader.phase = "paging" /\ UNCHANGED <<server, room>>
  BY DEF Page
<1>7. /\ reader'.got = got /\ reader'.upto = reader.upto
      /\ reader'.phase = IF last THEN "done" ELSE "paging"
      /\ reader'.tokens = IF last THEN reader.tokens ELSE reader.tokens \cup {reader.from}
      /\ reader'.from = IF last THEN reader.from ELSE end
  BY <1>4, <1>6 DEF ReplayInv, ReplayTypeOK
<1>8. ReplayTypeOK'
  <2>1. reader.from \in Positions /\ reader.tokens \in SUBSET Positions
    BY <1>6 DEF ReplayInv, ReplayTypeOK
  <2>2. /\ (IF last THEN "done" ELSE "paging") \in {"idle", "paging", "done", "failed"}
        /\ (IF last THEN reader.tokens ELSE reader.tokens \cup {reader.from}) \in SUBSET Positions
        /\ (IF last THEN reader.from ELSE end) \in Positions
    BY <1>2, <1>3, <2>1
  <2> QED
    BY <1>4, <1>5, <1>6, <1>7, <2>2 DEF ReplayInv, ReplayTypeOK
<1>9. server # "plain"
  BY <1>6 DEF ReplayInv
<1>10. CASE server = "honest"
  <2> DEFINE f == reader.from[1]
             u == reader.upto
             held == ToSet(reader.got)
  <2>1. HonestPage(a, b, end)
    BY <1>10 DEF Page
  <2>2. /\ IF end = NoToken THEN a = 1 ELSE end[1] \in a .. f
        /\ b = f - 1
        /\ end # NoToken => Past(reader.from, end)
        /\ last <=> end = NoToken
    BY <1>1, <1>6, <1>10, <2>1, HonestPageGoesBack DEF last
  <2>3. f \in Nat /\ u \in Nat /\ f .. u \subseteq held
    BY <1>6, <1>10 DEF ReplayInv, ReplayTypeOK, HasFrom, Positions
  <2>4. \A v \in reader.tokens : Past(v, reader.from)
    BY <1>6, <1>10 DEF ReplayInv
  <2> HIDE DEF f, u, held
  <2>5. a .. u \subseteq held \cup (a .. b)
    BY <1>1, <2>2, <2>3
  <2>6. CASE last
    <3>1. 1 .. reader'.upto \subseteq ToSet(reader'.got)
      BY <1>5, <1>7, <2>2, <2>5, <2>6 DEF u, held
    <3>2. reader'.phase = "done"
      BY <1>7, <2>6
    <3> QED BY <1>6, <1>8, <1>9, <3>1, <3>2 DEF ReplayInv, NothingMissed
  <2>7. CASE ~last
    <3>1. end[1] \in a .. f /\ Past(reader.from, end)
      BY <2>2, <2>7
    <3>2. end[1] .. u \subseteq held \cup (a .. b)
      BY <1>1, <2>3, <2>5, <3>1
    <3>3. reader'.phase = "paging" /\ reader'.from = end
      BY <1>7, <2>7
    <3>4. reader'.from[1] .. reader'.upto \subseteq ToSet(reader'.got)
      BY <1>5, <1>7, <3>2, <3>3 DEF u, held
    <3>5. ASSUME NEW v \in reader'.tokens PROVE Past(v, end)
      <4>1. CASE v = reader.from
        BY <3>1, <4>1
      <4>2. CASE v \in reader.tokens
        <5>1. Past(v, reader.from) /\ Past(reader.from, end)
          BY <2>4, <3>1, <4>2
        <5>2. v \in Positions /\ reader.from \in Positions /\ end \in Positions
          BY <1>2, <1>3, <1>6, <2>7, <4>2 DEF ReplayInv, ReplayTypeOK
        <5> QED BY <5>1, <5>2 DEF Past, Positions
      <4> QED BY <1>7, <2>7, <4>1, <4>2
    <3> QED BY <1>6, <1>8, <1>9, <3>3, <3>4, <3>5 DEF ReplayInv, HasFrom, NothingMissed
  <2> QED BY <2>6, <2>7
<1>11. CASE server # "honest"
  <2>1. server = "other"
    BY <1>9, <1>11, RoomAssumption DEF ReplayInv, ReplayTypeOK
  <2> QED BY <1>6, <1>8, <2>1 DEF ReplayInv, NothingMissed
<1> QED BY <1>10, <1>11

(* Every step of the documents, of the homeserver and of the reader keeps  *)
(* the invariant of the replay.                                            *)
LEMMA ReplayNext == ReplayInv /\ [RoomNext]_<<vars, roomVars>> => ReplayInv'
<1> SUFFICES ASSUME ReplayInv, [RoomNext]_<<vars, roomVars>> PROVE ReplayInv'
  OBVIOUS
<1>1. CASE UNCHANGED roomVars
  BY <1>1 DEF roomVars, ReplayInv, ReplayTypeOK, HasFrom, NothingMissed
<1>2. ASSUME NEW blob, Publish(blob) PROVE ReplayInv'
  BY <1>2, AppendKeeps DEF Publish
<1>3. ASSUME Litter PROVE ReplayInv'
  BY <1>3, AppendKeeps DEF Litter
<1>4. ASSUME NEW s \in 1 .. Len(room) + 1, NEW prev \in Tokens \cup {NoToken}, Sync(s, prev)
      PROVE  ReplayInv'
  BY <1>4, SyncKeeps
<1>5. ASSUME NEW a \in 1 .. Len(room) + 1, NEW n \in 0 .. PageSize,
             NEW end \in Tokens \cup {NoToken}, Page(a, a + n - 1, end)
      PROVE  ReplayInv'
  <2> DEFINE b == a + n - 1
  <2>1. b \in Int /\ a <= b + 1
    BY RoomAssumption DEF ReplayInv, ReplayTypeOK
  <2>2. Page(a, b, end)
    BY <1>5
  <2> HIDE DEF b
  <2> QED BY <2>1, <2>2, PageKeeps
<1>6. CASE Fail
  <2>1. reader' = [reader EXCEPT !.phase = "failed"] /\ UNCHANGED <<server, room>>
    BY <1>6 DEF Fail
  <2>2. server # "plain"
    BY <1>6 DEF Fail, ReplayInv
  <2>3. ReplayTypeOK'
    BY <2>1 DEF ReplayInv, ReplayTypeOK
  <2>4. reader'.phase = "failed"
    BY <2>1 DEF ReplayInv, ReplayTypeOK
  <2> QED BY <2>1, <2>2, <2>3, <2>4 DEF ReplayInv, NothingMissed
<1>7. CASE Edit
  BY <1>1, <1>7 DEF Edit
<1>8. CASE RoomNext
  BY <1>2, <1>3, <1>4, <1>5, <1>6, <1>7, <1>8 DEF RoomNext, Answer, PublishSpan
<1> QED BY <1>1, <1>8 DEF roomVars

(* A replay that ends over a homeserver that sends its events, in one      *)
(* piece or in pages of any size that may overlap or be empty, holds every *)
(* event that was in the room at the initial sync (Replay).                *)
THEOREM ReplayMissesNothing == RoomSpec => []NothingMissed
<1>1. ReplayInv => NothingMissed
  BY DEF ReplayInv
<1> QED BY <1>1, ReplayInit, ReplayNext, PTL DEF RoomSpec

-----------------------------------------------------------------------------
(* Loops.                                                                  *)

(* A set that has 0 and with each number below n the next one, has n.      *)
LEMMA UpTo ==
  ASSUME NEW n \in Nat, NEW S, 0 \in S, \A k \in 1 .. n : k - 1 \in S => k \in S
  PROVE  \A k \in 0 .. n : k \in S
<1> SUFFICES ASSUME NEW m \in 0 .. n, m \notin S PROVE FALSE
  OBVIOUS
<1> DEFINE T == {k \in Nat : k <= n /\ k \notin S}
<1>1. IsWellFoundedOn(OpToRel(<, Nat), Nat)
  BY NatLessThanWellFounded
<1>2. T \subseteq Nat /\ m \in T
  OBVIOUS
<1>3. PICK k \in T : \A j \in T : <<j, k>> \notin OpToRel(<, Nat)
  <2> HIDE DEF T
  <2> QED BY <1>1, <1>2, WFMin
<1>4. k \in 1 .. n /\ k - 1 \in Nat /\ k - 1 <= n
  OBVIOUS
<1>5. k - 1 \in S => k \in S
  BY <1>4
<1>6. k - 1 \in T
  BY <1>4, <1>5
<1>7. <<k - 1, k>> \in OpToRel(<, Nat)
  BY <1>4 DEF OpToRel
<1> QED BY <1>3, <1>6, <1>7

(* A walk: from a on, F takes it from what it has and the next number to   *)
(* what it has then.                                                       *)
IsWalk(f, a, F, n) == f[0] = a /\ \A k \in 1 .. n : f[k] = F[<<f[k - 1], k>>]

(* A loop's states exist: from a on, each is what F makes of the one       *)
(* before it and the next number.                                          *)
LEMMA WalkExists ==
  ASSUME NEW W, NEW a \in W, NEW n \in Nat, NEW F \in [W \X (1 .. n) -> W]
  PROVE  \E f \in [0 .. n -> W] : IsWalk(f, a, F, n)
<1> DEFINE S == {m \in 0 .. n : \E f \in [0 .. m -> W] : IsWalk(f, a, F, m)}
<1>1. 0 \in S
  <2> DEFINE g == [k \in 0 .. 0 |-> a]
  <2>1. g \in [0 .. 0 -> W] /\ g[0] = a
    OBVIOUS
  <2> HIDE DEF g
  <2>2. IsWalk(g, a, F, 0)
    BY <2>1 DEF IsWalk
  <2> QED BY <2>1, <2>2
<1>2. ASSUME NEW m \in 1 .. n, m - 1 \in S
      PROVE  m \in S
  <2>1. PICK g \in [0 .. m - 1 -> W] : IsWalk(g, a, F, m - 1)
    BY <1>2
  <2> DEFINE h == [k \in 0 .. m |-> IF k = m THEN F[<<g[m - 1], m>>] ELSE g[k]]
  <2>2. g[m - 1] \in W /\ m \in 1 .. n
    BY <2>1
  <2>3. F[<<g[m - 1], m>>] \in W
    BY <2>2
  <2>4. h \in [0 .. m -> W]
    BY <2>3
  <2>5. h[m] = F[<<g[m - 1], m>>] /\ \A k \in 0 .. m - 1 : h[k] = g[k]
    OBVIOUS
  <2> HIDE DEF h
  <2>6. h[0] = a
    BY <2>1, <2>5 DEF IsWalk
  <2>7. ASSUME NEW k \in 1 .. m
        PROVE  h[k] = F[<<h[k - 1], k>>]
    <3>1. k - 1 \in 0 .. m - 1 /\ h[k - 1] = g[k - 1]
      BY <2>5
    <3>2. CASE k = m
      BY <2>5, <3>1, <3>2
    <3>3. CASE k # m
      <4>1. k \in 1 .. m - 1 /\ h[k] = g[k]
        BY <2>5, <3>3
      <4> QED BY <2>1, <3>1, <4>1 DEF IsWalk
    <3> QED BY <3>2, <3>3
  <2>8. IsWalk(h, a, F, m)
    BY <2>6, <2>7 DEF IsWalk
  <2> QED BY <2>4, <2>8
<1>3. n \in S
  <2> HIDE DEF S
  <2>1. 0 .. n = 0 .. n /\ n \in 0 .. n
    OBVIOUS
  <2> QED BY <1>1, <1>2, <2>1, UpTo
<1> QED BY <1>3

(* f walks as long as it is in W.                                          *)
WalksIn(W, f, a, F, n) ==
  f[0] = a /\ \A k \in 1 .. n : f[k - 1] \in W => f[k] = F[<<f[k - 1], k>>]

(* g is a function on the numbers up to n.                                 *)
IsMapUpTo(g, n) == g = [k \in 0 .. n |-> g[k]]

(* The loops keep their states in W: a function that walks where it is in  *)
(* W, from a in W on, is in W up to its end.                               *)
LEMMA WalkTyped ==
  ASSUME NEW W, NEW a \in W, NEW n \in Nat, NEW F \in [W \X (1 .. n) -> W], NEW g,
         IsMapUpTo(g, n), WalksIn(W, g, a, F, n)
  PROVE  g \in [0 .. n -> W]
<1> DEFINE S == {k \in 0 .. n : g[k] \in W}
<1>1. 0 \in S
  BY DEF WalksIn
<1>2. ASSUME NEW k \in 1 .. n, k - 1 \in S PROVE k \in S
  <2>1. g[k - 1] \in W /\ k \in 0 .. n
    BY <1>2
  <2>2. F[<<g[k - 1], k>>] \in W
    BY <2>1
  <2> QED BY <2>1, <2>2 DEF WalksIn
<1> HIDE DEF S
<1>3. \A k \in 0 .. n : k \in S
  BY <1>1, <1>2, UpTo
<1> QED BY <1>3 DEF S, IsMapUpTo

-----------------------------------------------------------------------------
(* Ranges.                                                                 *)

Pairs == Int \X Int

Within(n, r) == r[1] <= n /\ n < r[2]

(* The first k of the ranges have n.                                       *)
HasIn(rs, k, n) == \E j \in 1 .. k : Within(n, rs[j])

Has(rs, n) == HasIn(rs, Len(rs), n)

Apart(rs) ==
  /\ rs \in Seq(Pairs)
  /\ \A j \in 1 .. Len(rs) : rs[j][1] < rs[j][2]
  /\ \A j, k \in 1 .. Len(rs) : j < k => rs[j][2] < rs[k][1]

Gaps == [cur : Int, out : Seq(Pairs)]

(* A step of uncovered keeps a counter and a list of ranges (merge.go      *)
(* uncovered).                                                             *)
LEMMA PastRangeType ==
  ASSUME NEW w \in Gaps, NEW r \in Pairs, NEW want \in Pairs
  PROVE  PastRange(w, r, want) \in Gaps
BY DEF PastRange, Gaps, Pairs

UncoveredWalk(f, had, want) ==
  f = [k \in 0 .. Len(had) |->
         IF k = 0 THEN [cur |-> want[1], out |-> <<>>] ELSE PastRange(f[k - 1], had[k], want)]

(* uncovered is a walk over the ranges that are had, one step for each,    *)
(* and what is left at its end.                                            *)
LEMMA UncoveredWalks ==
  ASSUME NEW had \in Seq(Pairs), NEW want \in Pairs
  PROVE  \E f \in [0 .. Len(had) -> Gaps] :
           /\ f[0] = [cur |-> want[1], out |-> <<>>]
           /\ \A k \in 1 .. Len(had) : f[k] = PastRange(f[k - 1], had[k], want)
           /\ Uncovered(had, want) = IF f[Len(had)].cur < want[2]
                                     THEN Append(f[Len(had)].out, <<f[Len(had)].cur, want[2]>>)
                                     ELSE f[Len(had)].out
<1> DEFINE n == Len(had)
           a == [cur |-> want[1], out |-> <<>>]
           F == [x \in Gaps \X (1 .. n) |-> PastRange(x[1], had[x[2]], want)]
           g == CHOOSE f : UncoveredWalk(f, had, want)
<1>1. n \in Nat /\ \A k \in 1 .. n : had[k] \in Pairs
  OBVIOUS
<1>2. a \in Gaps
  BY DEF Gaps, Pairs
<1>3. F \in [Gaps \X (1 .. n) -> Gaps]
  <2> SUFFICES ASSUME NEW x \in Gaps \X (1 .. n) PROVE PastRange(x[1], had[x[2]], want) \in Gaps
    OBVIOUS
  <2> QED BY <1>1, PastRangeType
<1>4. \A w \in Gaps, k \in 1 .. n : F[<<w, k>>] = PastRange(w, had[k], want)
  OBVIOUS
<1>5. Uncovered(had, want) = IF g[n].cur < want[2] THEN Append(g[n].out, <<g[n].cur, want[2]>>) ELSE g[n].out
  BY DEF Uncovered, UncoveredWalk
<1> HIDE DEF n, a, F
<1>6. PICK f \in [0 .. n -> Gaps] : IsWalk(f, a, F, n)
  BY <1>1, <1>2, <1>3, WalkExists
<1>7. f[0] = a /\ \A k \in 1 .. n : f[k] = PastRange(f[k - 1], had[k], want)
  <2>1. \A k \in 1 .. n : f[k - 1] \in Gaps
    BY <1>1, <1>6
  <2> QED BY <1>4, <1>6, <2>1 DEF IsWalk
<1>8. UncoveredWalk(f, had, want)
  <2>1. \A k \in 0 .. n : f[k] = IF k = 0 THEN a ELSE PastRange(f[k - 1], had[k], want)
    BY <1>1, <1>7
  <2>2. f = [k \in 0 .. n |-> IF k = 0 THEN a ELSE PastRange(f[k - 1], had[k], want)]
    BY <1>6, <2>1
  <2> QED BY <2>2 DEF UncoveredWalk, n, a
<1>9. UncoveredWalk(g, had, want)
  BY <1>8
<1> HIDE DEF g
<1>10. DOMAIN g = 0 .. n /\ \A k \in 0 .. n : g[k] = IF k = 0 THEN a ELSE PastRange(g[k - 1], had[k], want)
  BY <1>9 DEF UncoveredWalk, n, a
<1>11. g[0] = a /\ \A k \in 1 .. n : g[k] = PastRange(g[k - 1], had[k], want)
  <2>1. 0 \in 0 .. n /\ \A k \in 1 .. n : k \in 0 .. n /\ k # 0
    BY <1>1
  <2> QED BY <1>10, <2>1
<1>12. g \in [0 .. n -> Gaps]
  <2>1. IsMapUpTo(g, n)
    BY <1>9 DEF UncoveredWalk, IsMapUpTo, n, a
  <2>2. WalksIn(Gaps, g, a, F, n)
    BY <1>4, <1>11 DEF WalksIn
  <2>3. n \in Nat
    BY <1>1
  <2> QED BY <1>2, <1>3, <2>1, <2>2, <2>3, WalkTyped
<1> QED BY <1>5, <1>11, <1>12 DEF n, a
AddWalks == [r : Pairs, out : Seq(Pairs), placed : BOOLEAN]

(* A step of addRange keeps a range, a list of ranges and whether the      *)
(* range is placed (merge.go addRange).                                    *)
LEMMA PutRangeType ==
  ASSUME NEW w \in AddWalks, NEW h \in Pairs
  PROVE  PutRange(w, h) \in AddWalks
<1>1. Absorbed(w.r, h) \in Pairs
  BY DEF Absorbed, AtMost, AtLeast, AddWalks, Pairs
<1>2. /\ Append(w.out, h) \in Seq(Pairs)
      /\ Append(Append(w.out, w.r), h) \in Seq(Pairs)
  BY DEF AddWalks
<1>3. CASE h[2] < w.r[1]
  BY <1>2, <1>3 DEF PutRange, AddWalks, Pairs
<1> QED BY <1>1, <1>2 DEF PutRange, AddWalks

AddRangeWalk(f, had, r) ==
  f = [k \in 0 .. Len(had) |->
         IF k = 0 THEN [r |-> r, out |-> <<>>, placed |-> FALSE] ELSE PutRange(f[k - 1], had[k])]

(* addRange is a walk over the ranges that are had, one step for each, and *)
(* the range last if no step placed it.                                    *)
LEMMA AddRangeWalks ==
  ASSUME NEW had \in Seq(Pairs), NEW r \in Pairs
  PROVE  \E f \in [0 .. Len(had) -> AddWalks] :
           /\ f[0] = [r |-> r, out |-> <<>>, placed |-> FALSE]
           /\ \A k \in 1 .. Len(had) : f[k] = PutRange(f[k - 1], had[k])
           /\ AddRange(had, r) = IF f[Len(had)].placed THEN f[Len(had)].out
                                 ELSE Append(f[Len(had)].out, f[Len(had)].r)
<1> DEFINE n == Len(had)
           a == [r |-> r, out |-> <<>>, placed |-> FALSE]
           F == [x \in AddWalks \X (1 .. n) |-> PutRange(x[1], had[x[2]])]
           g == CHOOSE f : AddRangeWalk(f, had, r)
<1>1. n \in Nat /\ \A k \in 1 .. n : had[k] \in Pairs
  OBVIOUS
<1>2. a \in AddWalks
  BY DEF AddWalks, Pairs
<1>3. F \in [AddWalks \X (1 .. n) -> AddWalks]
  <2> SUFFICES ASSUME NEW x \in AddWalks \X (1 .. n) PROVE PutRange(x[1], had[x[2]]) \in AddWalks
    OBVIOUS
  <2> QED BY <1>1, PutRangeType
<1>4. \A w \in AddWalks, k \in 1 .. n : F[<<w, k>>] = PutRange(w, had[k])
  OBVIOUS
<1>5. AddRange(had, r) = IF g[n].placed THEN g[n].out ELSE Append(g[n].out, g[n].r)
  BY DEF AddRange, AddRangeWalk
<1> HIDE DEF n, a, F
<1>6. PICK f \in [0 .. n -> AddWalks] : IsWalk(f, a, F, n)
  BY <1>1, <1>2, <1>3, WalkExists
<1>7. f[0] = a /\ \A k \in 1 .. n : f[k] = PutRange(f[k - 1], had[k])
  <2>1. \A k \in 1 .. n : f[k - 1] \in AddWalks
    BY <1>1, <1>6
  <2> QED BY <1>4, <1>6, <2>1 DEF IsWalk
<1>8. AddRangeWalk(f, had, r)
  <2>1. \A k \in 0 .. n : f[k] = IF k = 0 THEN a ELSE PutRange(f[k - 1], had[k])
    BY <1>1, <1>7
  <2>2. f = [k \in 0 .. n |-> IF k = 0 THEN a ELSE PutRange(f[k - 1], had[k])]
    BY <1>6, <2>1
  <2> QED BY <2>2 DEF AddRangeWalk, n, a
<1>9. AddRangeWalk(g, had, r)
  BY <1>8
<1> HIDE DEF g
<1>10. \A k \in 0 .. n : g[k] = IF k = 0 THEN a ELSE PutRange(g[k - 1], had[k])
  BY <1>9 DEF AddRangeWalk, n, a
<1>11. g[0] = a /\ \A k \in 1 .. n : g[k] = PutRange(g[k - 1], had[k])
  <2>1. 0 \in 0 .. n /\ \A k \in 1 .. n : k \in 0 .. n /\ k # 0
    BY <1>1
  <2> QED BY <1>10, <2>1
<1>12. g \in [0 .. n -> AddWalks]
  <2>1. IsMapUpTo(g, n)
    BY <1>9 DEF AddRangeWalk, IsMapUpTo, n, a
  <2>2. WalksIn(AddWalks, g, a, F, n)
    BY <1>4, <1>11 DEF WalksIn
  <2>3. n \in Nat
    BY <1>1
  <2> QED BY <1>2, <1>3, <2>1, <2>2, <2>3, WalkTyped
<1> QED BY <1>5, <1>11, <1>12 DEF n, a
(* The loops of uncovered and addRange take one range more: the first k    *)
(* have what the first k - 1 have, and the k-th.                           *)
LEMMA HasStep ==
  ASSUME NEW rs, NEW n
  PROVE  /\ ~HasIn(rs, 0, n)
         /\ \A k \in Nat \ {0} : HasIn(rs, k, n) <=> HasIn(rs, k - 1, n) \/ Within(n, rs[k])
<1>1. ASSUME NEW k \in Nat \ {0}
      PROVE  HasIn(rs, k, n) <=> HasIn(rs, k - 1, n) \/ Within(n, rs[k])
  <2>1. 1 .. k = (1 .. k - 1) \cup {k}
    OBVIOUS
  <2> QED BY <2>1, Zenon DEF HasIn
<1>2. ~HasIn(rs, 0, n)
  BY DEF HasIn
<1> QED BY <1>1, <1>2

(* A range that uncovered or addRange appends adds its own counters.       *)
LEMMA HasAppend ==
  ASSUME NEW rs \in Seq(Pairs), NEW r \in Pairs, NEW n
  PROVE  /\ Append(rs, r) \in Seq(Pairs) /\ Len(Append(rs, r)) = Len(rs) + 1
         /\ Has(Append(rs, r), n) <=> Has(rs, n) \/ Within(n, r)
<1> DEFINE t == Append(rs, r)
<1>1. t \in Seq(Pairs) /\ Len(t) = Len(rs) + 1 /\ Len(rs) \in Nat
  OBVIOUS
<1>2. t[Len(rs) + 1] = r /\ \A j \in 1 .. Len(rs) : t[j] = rs[j]
  OBVIOUS
<1> HIDE DEF t
<1>3. HasIn(t, Len(rs), n) <=> HasIn(rs, Len(rs), n)
  BY <1>2 DEF HasIn
<1>4. HasIn(t, Len(rs) + 1, n) <=> HasIn(t, Len(rs), n) \/ Within(n, r)
  <2>1. Len(rs) + 1 \in Nat \ {0} /\ (Len(rs) + 1) - 1 = Len(rs)
    BY <1>1
  <2> QED BY <1>2, <2>1, HasStep
<1> QED BY <1>1, <1>3, <1>4 DEF t, Has

(* What the gaps have: they are in want and apart, up to cur.              *)
GapsOf(out, want, top) ==
  /\ \A i \in 1 .. Len(out) :
       want[1] <= out[i][1] /\ out[i][1] < out[i][2] /\ out[i][2] <= want[2] /\ out[i][2] <= top
  /\ \A i, j \in 1 .. Len(out) : i < j => out[i][2] <= out[j][1]

(* A gap that uncovered appends lies after the others, so they stay apart. *)
LEMMA GapsAppend ==
  ASSUME NEW out \in Seq(Pairs), NEW want \in Pairs, NEW top \in Int, NEW r \in Pairs, NEW next \in Int,
         GapsOf(out, want, top), want[1] <= top, top <= r[1], r[1] < r[2], r[2] <= want[2], r[2] <= next
  PROVE  GapsOf(Append(out, r), want, next)
<1> DEFINE t == Append(out, r)
<1>1. t \in Seq(Pairs) /\ Len(t) = Len(out) + 1 /\ Len(out) \in Nat
  OBVIOUS
<1>2. t[Len(out) + 1] = r /\ \A j \in 1 .. Len(out) : t[j] = out[j] /\ out[j] \in Pairs
  OBVIOUS
<1> HIDE DEF t
<1>3. ASSUME NEW i \in 1 .. Len(t)
      PROVE  want[1] <= t[i][1] /\ t[i][1] < t[i][2] /\ t[i][2] <= want[2] /\ t[i][2] <= next
  <2>1. CASE i = Len(out) + 1
    BY <1>2, <2>1 DEF Pairs
  <2>2. CASE i \in 1 .. Len(out)
    <3>1. t[i] = out[i] /\ out[i] \in Pairs
      BY <1>2, <2>2
    <3>2. /\ want[1] <= out[i][1] /\ out[i][1] < out[i][2] /\ out[i][2] <= want[2]
          /\ out[i][2] <= top
      BY <2>2 DEF GapsOf
    <3>3. out[i][2] \in Int /\ r[1] \in Int /\ r[2] \in Int
      BY <3>1 DEF Pairs
    <3> QED BY <3>1, <3>2, <3>3
  <2> QED BY <1>1, <2>1, <2>2
<1>4. ASSUME NEW i \in 1 .. Len(t), NEW j \in 1 .. Len(t), i < j
      PROVE  t[i][2] <= t[j][1]
  <2>1. i \in 1 .. Len(out)
    BY <1>1, <1>4
  <2>2. CASE j = Len(out) + 1
    <3>1. t[i] = out[i] /\ out[i] \in Pairs /\ out[i][2] <= top /\ t[j] = r
      BY <1>2, <2>1, <2>2 DEF GapsOf
    <3>2. out[i][2] \in Int /\ r[1] \in Int
      BY <3>1 DEF Pairs
    <3> QED BY <3>1, <3>2
  <2>3. CASE j \in 1 .. Len(out)
    <3>1. t[i] = out[i] /\ t[j] = out[j]
      BY <1>2, <2>1, <2>3
    <3>2. out[i][2] <= out[j][1]
      BY <1>4, <2>1, <2>3 DEF GapsOf
    <3> QED BY <3>1, <3>2
  <2> QED BY <1>1, <2>2, <2>3
<1> QED BY <1>3, <1>4 DEF GapsOf, t

(* w has the gaps in want before its cur that the first k ranges leave.    *)
Passed(w, had, k, want) ==
  /\ want[1] <= w.cur
  /\ w.cur = want[1] \/ \A j \in k + 1 .. Len(had) : w.cur < had[j][1]
  /\ GapsOf(w.out, want, w.cur)
  /\ \A n \in Int : want[1] <= n /\ n < want[2] =>
       IF n < w.cur THEN Has(w.out, n) <=> ~HasIn(had, k, n) ELSE ~HasIn(had, k, n)

(* A step of uncovered over one more range keeps what the loop says: up to *)
(* its counter the gaps are what the ranges so far leave.                  *)
LEMMA PastRangePasses ==
  ASSUME NEW had, Apart(had), NEW want \in Pairs, NEW k \in 1 .. Len(had),
         NEW w \in Gaps, Passed(w, had, k - 1, want)
  PROVE  Passed(PastRange(w, had[k], want), had, k, want)
<1> DEFINE r == had[k]
           v == PastRange(w, r, want)
<1>1. r \in Pairs /\ r[1] < r[2] /\ Len(had) \in Nat /\ \A j \in k + 1 .. Len(had) : r[2] < had[j][1]
  <2>1. had \in Seq(Pairs) /\ Len(had) \in Nat
    BY DEF Apart
  <2>2. \A j \in k + 1 .. Len(had) : j \in 1 .. Len(had) /\ k < j
    BY <2>1
  <2> QED BY <2>1, <2>2 DEF Apart
<1>2. \A n : HasIn(had, k, n) <=> HasIn(had, k - 1, n) \/ Within(n, r)
  <2>1. k \in Nat \ {0}
    BY <1>1
  <2> QED BY <2>1, HasStep
<1>3. w.cur = want[1] \/ (w.cur < r[1] /\ \A j \in k + 1 .. Len(had) : w.cur < had[j][1])
  <2>1. k \in (k - 1) + 1 .. Len(had) /\ k + 1 .. Len(had) \subseteq (k - 1) + 1 .. Len(had)
    BY <1>1
  <2> QED BY <2>1 DEF Passed
<1>4. w.cur \in Int /\ w.out \in Seq(Pairs) /\ w.out = w.out
  BY DEF Gaps
<1> HIDE DEF r
<1>5. CASE r[2] <= w.cur \/ r[1] >= want[2]
  <2>1. v = w
    BY <1>5 DEF PastRange
  <2>2. ASSUME NEW n \in Int, want[1] <= n, n < want[2]
        PROVE  ~Within(n, r)
    BY <1>1, <1>3, <1>4, <1>5, <2>2 DEF Within, Pairs
  <2> HIDE DEF v
  <2>3. w.cur = want[1] \/ \A j \in k + 1 .. Len(had) : w.cur < had[j][1]
    BY <1>3
  <2>4. \A n \in Int : want[1] <= n /\ n < want[2] => (HasIn(had, k, n) <=> HasIn(had, k - 1, n))
    BY <1>2, <2>2
  <2>5. Passed(w, had, k, want)
    BY <2>3, <2>4 DEF Passed
  <2> QED BY <2>1, <2>5 DEF v, r
<1>6. CASE ~(r[2] <= w.cur \/ r[1] >= want[2])
  <2>1. w.cur < r[2] /\ r[1] < want[2]
    BY <1>1, <1>4, <1>6 DEF Pairs
  <2>2. want[1] <= w.cur /\ GapsOf(w.out, want, w.cur)
    BY DEF Passed
  <2>3. \A n \in Int : want[1] <= n /\ n < want[2] =>
          IF n < w.cur THEN Has(w.out, n) <=> ~HasIn(had, k - 1, n) ELSE ~HasIn(had, k - 1, n)
    BY DEF Passed
  <2>4. \A n \in Int : ~(n < w.cur) => ~Has(w.out, n)
    <3>1. \A i \in 1 .. Len(w.out) : w.out[i] \in Pairs /\ w.out[i][2] <= w.cur
      BY <1>4, <2>2 DEF GapsOf
    <3>2. ASSUME NEW n \in Int, NEW i \in 1 .. Len(w.out), Within(n, w.out[i]) PROVE n < w.cur
      <4>1. w.out[i][2] \in Int /\ w.out[i][2] <= w.cur /\ n < w.out[i][2]
        BY <3>1, <3>2 DEF Within, Pairs
      <4> QED BY <1>4, <4>1
    <3> QED BY <3>2 DEF Has, HasIn
  <2>5. CASE r[1] > w.cur
    <3> DEFINE gap == <<w.cur, r[1]>>
               out == Append(w.out, gap)
    <3>1. v = [cur |-> r[2], out |-> out]
      BY <1>6, <2>5 DEF PastRange
    <3>2. gap \in Pairs
      BY <1>1, <1>4 DEF Pairs
    <3>3. gap[1] = w.cur /\ gap[2] = r[1]
      OBVIOUS
    <3>4. \A n : Has(out, n) <=> Has(w.out, n) \/ Within(n, gap)
      <4> HIDE DEF gap
      <4> QED BY <1>4, <3>2, HasAppend
    <3>5. GapsOf(out, want, r[2])
      <4> HIDE DEF gap
      <4>1. r[2] \in Int /\ r[1] \in Int /\ want[2] \in Int
        BY <1>1 DEF Pairs
      <4>2. w.cur <= gap[1] /\ gap[1] < gap[2] /\ gap[2] <= want[2] /\ gap[2] <= r[2]
        BY <1>1, <1>4, <2>1, <2>5, <3>3, <4>1
      <4> QED BY <1>4, <2>2, <3>2, <4>1, <4>2, GapsAppend
    <3> HIDE DEF out, gap
    <3>6. v.cur = r[2] /\ v.out = out
      BY <3>1
    <3> HIDE DEF v
    <3>7. ASSUME NEW n \in Int, want[1] <= n, n < want[2]
          PROVE  IF n < r[2] THEN Has(out, n) <=> ~HasIn(had, k, n) ELSE ~HasIn(had, k, n)
      <4>1. r[1] \in Int /\ r[2] \in Int /\ w.cur \in Int
        BY <1>1, <1>4 DEF Pairs
      <4>2. Within(n, r) <=> r[1] <= n /\ n < r[2]
        BY DEF Within
      <4>3. Within(n, gap) <=> w.cur <= n /\ n < r[1]
        BY <3>3 DEF Within
      <4>4. IF n < w.cur THEN Has(w.out, n) <=> ~HasIn(had, k - 1, n)
            ELSE ~HasIn(had, k - 1, n) /\ ~Has(w.out, n)
        BY <2>3, <2>4, <3>7
      <4>5. /\ HasIn(had, k, n) <=> HasIn(had, k - 1, n) \/ Within(n, r)
            /\ Has(out, n) <=> Has(w.out, n) \/ Within(n, gap)
        BY <1>2, <3>4
      <4> QED BY <1>1, <2>1, <2>5, <4>1, <4>2, <4>3, <4>4, <4>5
    <3>8. want[1] <= r[2]
      BY <1>1, <1>4, <2>1, <2>2 DEF Pairs
    <3>9. Passed(v, had, k, want)
      BY <1>1, <3>5, <3>6, <3>7, <3>8 DEF Passed
    <3> QED BY <3>9 DEF v, r
  <2>6. CASE ~(r[1] > w.cur)
    <3>1. v = [cur |-> r[2], out |-> w.out]
      BY <1>6, <2>6 DEF PastRange
    <3>2. v.cur = r[2] /\ v.out = w.out
      BY <3>1
    <3> HIDE DEF v
    <3>3. w.cur = want[1]
      BY <1>1, <1>3, <1>4, <2>6 DEF Pairs
    <3>4. GapsOf(w.out, want, r[2])
      <4>1. ASSUME NEW i \in 1 .. Len(w.out) PROVE w.out[i][2] <= r[2]
        <5>1. w.out[i] \in Pairs /\ w.out[i][2] <= w.cur
          BY <1>4, <2>2 DEF GapsOf
        <5>2. w.out[i][2] \in Int /\ r[2] \in Int
          BY <1>1, <5>1 DEF Pairs
        <5> QED BY <1>4, <2>1, <5>1, <5>2
      <4> QED BY <2>2, <4>1 DEF GapsOf
    <3>5. ASSUME NEW n \in Int, want[1] <= n, n < want[2]
          PROVE  IF n < r[2] THEN Has(w.out, n) <=> ~HasIn(had, k, n) ELSE ~HasIn(had, k, n)
      <4>1. r[1] \in Int /\ r[2] \in Int /\ w.cur \in Int /\ want[1] \in Int
        BY <1>1, <1>4 DEF Pairs
      <4>2. Within(n, r) <=> r[1] <= n /\ n < r[2]
        BY DEF Within
      <4>3. ~HasIn(had, k - 1, n) /\ ~Has(w.out, n)
        BY <2>3, <2>4, <3>3, <3>5, <4>1
      <4>4. HasIn(had, k, n) <=> HasIn(had, k - 1, n) \/ Within(n, r)
        BY <1>2
      <4> QED BY <1>1, <2>6, <3>3, <3>5, <4>1, <4>2, <4>3, <4>4
    <3>6. want[1] <= r[2]
      BY <1>1, <1>4, <2>1, <2>2 DEF Pairs
    <3>7. Passed(v, had, k, want)
      BY <1>1, <3>2, <3>4, <3>5, <3>6 DEF Passed
    <3> QED BY <3>7 DEF v, r
  <2> QED BY <2>5, <2>6
<1> QED BY <1>5, <1>6
(* The gaps are what the ranges leave of want.                             *)
Leaves(gaps, had, want) ==
  /\ gaps \in Seq(Pairs)
  /\ GapsOf(gaps, want, want[2])
  /\ \A n \in Int : Has(gaps, n) <=> Within(n, want) /\ ~Has(had, n)

(* uncovered returns the parts of a range that the ranges had leave, in    *)
(* order and apart, and each with a counter in it.                         *)
LEMMA UncoveredLeaves ==
  ASSUME NEW had, Apart(had), NEW want \in Pairs, want[1] < want[2]
  PROVE  Leaves(Uncovered(had, want), had, want)
<1>1. had \in Seq(Pairs) /\ Len(had) \in Nat
  BY DEF Apart
<1> DEFINE n == Len(had)
           a == [cur |-> want[1], out |-> <<>>]
<1>2. PICK f \in [0 .. n -> Gaps] :
        /\ f[0] = a
        /\ \A k \in 1 .. n : f[k] = PastRange(f[k - 1], had[k], want)
        /\ Uncovered(had, want) = IF f[n].cur < want[2] THEN Append(f[n].out, <<f[n].cur, want[2]>>)
                                  ELSE f[n].out
  BY <1>1, UncoveredWalks
<1>3. Passed(a, had, 0, want)
  <2>1. a.cur = want[1] /\ a.out = <<>> /\ want[1] \in Int /\ want[2] \in Int
    BY DEF Pairs
  <2>2. \A i : ~(i \in 1 .. Len(<<>>))
    OBVIOUS
  <2>3. GapsOf(a.out, want, a.cur)
    BY <2>1, <2>2 DEF GapsOf
  <2>4. \A m : ~HasIn(had, 0, m)
    BY HasStep
  <2> HIDE DEF a
  <2> QED BY <2>1, <2>3, <2>4 DEF Passed
<1>4. f[n] \in Gaps /\ Passed(f[n], had, n, want)
  <2> DEFINE S == {k \in 0 .. n : Passed(f[k], had, k, want)}
  <2>1. 0 \in S
    BY <1>1, <1>2, <1>3
  <2>2. ASSUME NEW k \in 1 .. n, k - 1 \in S PROVE k \in S
    <3>1. Passed(f[k - 1], had, k - 1, want)
      BY <2>2
    <3>2. k \in 0 .. n /\ k - 1 \in 0 .. n
      <4>1. n \in Nat
        BY <1>1
      <4> HIDE DEF n
      <4> QED BY <2>2, <4>1
    <3>3. f[k - 1] \in Gaps
      BY <1>2, <3>2
    <3>4. Passed(PastRange(f[k - 1], had[k], want), had, k, want)
      BY <2>2, <3>1, <3>3, PastRangePasses
    <3> QED BY <1>2, <2>2, <3>2, <3>4
  <2> HIDE DEF S
  <2>3. n \in Nat
    BY <1>1
  <2> HIDE DEF n
  <2>4. \A k \in 0 .. n : k \in S
    BY <2>1, <2>2, <2>3, UpTo
  <2>5. n \in 0 .. n
    BY <2>3
  <2> QED BY <1>2, <2>4, <2>5 DEF S
<1> DEFINE w == f[n]
           p == Uncovered(had, want)
           rest == <<w.cur, want[2]>>
<1>5. p = IF w.cur < want[2] THEN Append(w.out, rest) ELSE w.out
  BY <1>2
<1> HIDE DEF a, w, p, rest
<1>6. /\ w.cur \in Int /\ w.out \in Seq(Pairs) /\ want[1] \in Int /\ want[2] \in Int
      /\ want[1] <= w.cur /\ GapsOf(w.out, want, w.cur)
  BY <1>4 DEF Gaps, Pairs, Passed, w
<1>7. \A m \in Int : want[1] <= m /\ m < want[2] =>
        IF m < w.cur THEN Has(w.out, m) <=> ~Has(had, m) ELSE ~Has(had, m)
  BY <1>4 DEF Passed, w, Has, n
<1>8. \A m \in Int : Has(w.out, m) => want[1] <= m /\ m < want[2] /\ m < w.cur
  <2>1. ASSUME NEW m \in Int, NEW i \in 1 .. Len(w.out), Within(m, w.out[i])
        PROVE  want[1] <= m /\ m < want[2] /\ m < w.cur
    <3>1. w.out[i] \in Pairs /\ want[1] <= w.out[i][1] /\ w.out[i][2] <= want[2] /\ w.out[i][2] <= w.cur
      BY <1>6 DEF GapsOf
    <3>2. w.out[i][1] \in Int /\ w.out[i][2] \in Int
      BY <3>1 DEF Pairs
    <3>3. w.out[i][1] <= m /\ m < w.out[i][2]
      BY <2>1 DEF Within
    <3> QED BY <1>6, <3>1, <3>2, <3>3
  <2> QED BY <2>1 DEF Has, HasIn
<1>9. CASE w.cur < want[2]
  <2>1. p = Append(w.out, rest) /\ rest \in Pairs /\ rest[1] = w.cur /\ rest[2] = want[2]
    BY <1>5, <1>6, <1>9 DEF rest, Pairs
  <2>2. p \in Seq(Pairs) /\ \A m : Has(p, m) <=> Has(w.out, m) \/ Within(m, rest)
    BY <1>6, <2>1, HasAppend
  <2>3. GapsOf(p, want, want[2])
    <3>1. w.cur <= rest[1] /\ rest[1] < rest[2] /\ rest[2] <= want[2]
      BY <1>6, <1>9, <2>1
    <3> QED BY <1>6, <2>1, <3>1, GapsAppend
  <2>4. ASSUME NEW m \in Int
        PROVE  Has(p, m) <=> Within(m, want) /\ ~Has(had, m)
    <3>1. Within(m, rest) <=> w.cur <= m /\ m < want[2]
      BY <2>1 DEF Within
    <3>2. Within(m, want) <=> want[1] <= m /\ m < want[2]
      BY DEF Within
    <3> QED BY <1>6, <1>7, <1>8, <1>9, <2>2, <3>1, <3>2
  <2> QED BY <2>2, <2>3, <2>4 DEF Leaves, p
<1>10. CASE ~(w.cur < want[2])
  <2>1. p = w.out
    BY <1>5, <1>10
  <2>2. GapsOf(p, want, want[2])
    BY <1>6, <2>1 DEF GapsOf
  <2>3. ASSUME NEW m \in Int
        PROVE  Has(p, m) <=> Within(m, want) /\ ~Has(had, m)
    <3>1. Within(m, want) <=> want[1] <= m /\ m < want[2]
      BY DEF Within
    <3> QED BY <1>6, <1>7, <1>8, <1>10, <2>1, <3>1
  <2> QED BY <1>6, <2>1, <2>2, <2>3 DEF Leaves, p
<1> QED BY <1>9, <1>10

EndBefore(rs, n) == \A i \in 1 .. Len(rs) : rs[i][2] < n

(* A range that begins after all others end is sorted and apart from them  *)
(* when addRange appends it.                                               *)
LEMMA ApartAppend ==
  ASSUME NEW rs, Apart(rs), NEW r \in Pairs, r[1] < r[2], EndBefore(rs, r[1])
  PROVE  /\ Apart(Append(rs, r))
         /\ \A n : EndBefore(rs, n) /\ r[2] < n => EndBefore(Append(rs, r), n)
<1> DEFINE t == Append(rs, r)
<1>1. rs \in Seq(Pairs) /\ t \in Seq(Pairs) /\ Len(t) = Len(rs) + 1 /\ Len(rs) \in Nat
  BY DEF Apart
<1>2. t[Len(rs) + 1] = r /\ \A j \in 1 .. Len(rs) : t[j] = rs[j]
  BY <1>1
<1> HIDE DEF t
<1>3. \A i \in 1 .. Len(t) : i = Len(rs) + 1 \/ i \in 1 .. Len(rs)
  BY <1>1
<1>4. ASSUME NEW i \in 1 .. Len(t)
      PROVE  t[i][1] < t[i][2]
  BY <1>2, <1>3 DEF Apart
<1>5. ASSUME NEW i \in 1 .. Len(t), NEW j \in 1 .. Len(t), i < j
      PROVE  t[i][2] < t[j][1]
  <2>1. i \in 1 .. Len(rs)
    BY <1>1, <1>5
  <2>2. CASE j = Len(rs) + 1
    BY <1>2, <2>1, <2>2 DEF EndBefore
  <2>3. CASE j \in 1 .. Len(rs)
    BY <1>2, <1>5, <2>1, <2>3 DEF Apart
  <2> QED BY <1>3, <2>2, <2>3
<1>6. ASSUME NEW n, EndBefore(rs, n), r[2] < n
      PROVE  EndBefore(t, n)
  BY <1>2, <1>3, <1>6 DEF EndBefore
<1> QED BY <1>1, <1>4, <1>5, <1>6 DEF Apart, t

(* w has the first k ranges, with r that may be placed among them or not.  *)
Placing(w, had, k, r) ==
  /\ w.r[1] < w.r[2]
  /\ Apart(w.out)
  /\ \A j \in k + 1 .. Len(had) : EndBefore(w.out, had[j][1])
  /\ IF w.placed
     THEN /\ \A j \in k + 1 .. Len(had) : w.r[2] < had[j][1]
          /\ \A n \in Int : Has(w.out, n) <=> HasIn(had, k, n) \/ Within(n, r)
     ELSE /\ EndBefore(w.out, w.r[1])
          /\ \A n \in Int : Has(w.out, n) \/ Within(n, w.r) <=> HasIn(had, k, n) \/ Within(n, r)

(* A step of addRange over one more range keeps what the loop says: what   *)
(* is out, with the range as it has grown, has the ranges so far and the   *)
(* new one.                                                                *)
LEMMA PutRangePlaces ==
  ASSUME NEW had, Apart(had), NEW r \in Pairs, NEW k \in 1 .. Len(had),
         NEW w \in AddWalks, Placing(w, had, k - 1, r)
  PROVE  Placing(PutRange(w, had[k]), had, k, r)
<1> DEFINE h == had[k]
           v == PutRange(w, h)
<1>1. h \in Pairs /\ h[1] < h[2] /\ Len(had) \in Nat /\ \A j \in k + 1 .. Len(had) : h[2] < had[j][1]
  <2>1. had \in Seq(Pairs) /\ Len(had) \in Nat
    BY DEF Apart
  <2>2. \A j \in k + 1 .. Len(had) : j \in 1 .. Len(had) /\ k < j
    BY <2>1
  <2> QED BY <2>1, <2>2 DEF Apart
<1>2. \A n : HasIn(had, k, n) <=> HasIn(had, k - 1, n) \/ Within(n, h)
  <2>1. k \in Nat \ {0}
    BY <1>1
  <2> QED BY <2>1, HasStep
<1>3. k \in (k - 1) + 1 .. Len(had) /\ \A j \in k + 1 .. Len(had) : j \in (k - 1) + 1 .. Len(had)
  BY <1>1
<1>4. w.r \in Pairs /\ w.out \in Seq(Pairs) /\ w.placed \in BOOLEAN
  BY DEF AddWalks
<1>5. w.r[1] \in Int /\ w.r[2] \in Int /\ h[1] \in Int /\ h[2] \in Int
  BY <1>1, <1>4 DEF Pairs
<1>6. w.r[1] < w.r[2] /\ Apart(w.out)
  BY DEF Placing
<1>7. EndBefore(w.out, h[1]) /\ \A j \in k + 1 .. Len(had) : EndBefore(w.out, had[j][1])
  BY <1>3 DEF Placing
<1>8. \A n \in Int : /\ Within(n, h) <=> h[1] <= n /\ n < h[2]
                     /\ Within(n, w.r) <=> w.r[1] <= n /\ n < w.r[2]
  BY DEF Within
<1>9. /\ Apart(Append(w.out, h)) /\ \A n : Has(Append(w.out, h), n) <=> Has(w.out, n) \/ Within(n, h)
      /\ \A j \in k + 1 .. Len(had) : EndBefore(Append(w.out, h), had[j][1])
      /\ \A n : EndBefore(w.out, n) /\ h[2] < n => EndBefore(Append(w.out, h), n)
  <2>1. /\ Apart(Append(w.out, h))
        /\ \A n : EndBefore(w.out, n) /\ h[2] < n => EndBefore(Append(w.out, h), n)
    BY <1>1, <1>6, <1>7, ApartAppend
  <2>2. \A n : Has(Append(w.out, h), n) <=> Has(w.out, n) \/ Within(n, h)
    BY <1>1, <1>4, HasAppend
  <2> QED BY <1>1, <1>7, <2>1, <2>2
<1> HIDE DEF h
<1>10. CASE h[2] < w.r[1]
  <2>1. ~w.placed
    BY <1>1, <1>3, <1>5, <1>6, <1>10 DEF Placing, h
  <2>2. v = [w EXCEPT !.out = Append(@, h)]
    <3>1. ~(h[1] > w.r[2])
      BY <1>1, <1>5, <1>6, <1>10
    <3> QED BY <1>10, <3>1 DEF PutRange
  <2>3. v.r = w.r /\ v.out = Append(w.out, h) /\ v.placed = w.placed
    BY <2>2 DEF AddWalks
  <2> HIDE DEF v
  <2>4. EndBefore(w.out, w.r[1])
    BY <2>1 DEF Placing
  <2>5. \A n \in Int : Has(w.out, n) \/ Within(n, w.r) <=> HasIn(had, k - 1, n) \/ Within(n, r)
    BY <2>1 DEF Placing
  <2>6. \A n \in Int : Has(v.out, n) \/ Within(n, v.r) <=> HasIn(had, k, n) \/ Within(n, r)
    BY <1>2, <1>9, <2>3, <2>5, Zenon
  <2>7. EndBefore(v.out, v.r[1])
    BY <1>9, <1>10, <2>3, <2>4
  <2>8. Placing(v, had, k, r)
    BY <1>6, <1>9, <2>1, <2>3, <2>6, <2>7 DEF Placing
  <2> QED BY <2>8 DEF v, h
<1>11. CASE h[1] > w.r[2]
  <2>1. ~(h[2] < w.r[1])
    BY <1>1, <1>5, <1>6, <1>11
  <2>2. v = [w EXCEPT !.out = IF w.placed THEN Append(@, h) ELSE Append(Append(@, w.r), h),
                      !.placed = TRUE]
    BY <1>11, <2>1 DEF PutRange
  <2>3. v.r = w.r /\ v.out = (IF w.placed THEN Append(w.out, h) ELSE Append(Append(w.out, w.r), h)) /\ v.placed = TRUE
    BY <2>2 DEF AddWalks
  <2> HIDE DEF v
  <2>4. \A j \in k + 1 .. Len(had) : v.r[2] < had[j][1]
    <3> SUFFICES ASSUME NEW j \in k + 1 .. Len(had) PROVE w.r[2] < had[j][1]
      BY <2>3
    <3>1. had \in Seq(Pairs) /\ j \in 1 .. Len(had)
      BY <1>1 DEF Apart
    <3>2. had[j] \in Pairs
      BY <3>1
    <3>3. had[j][1] \in Int
      BY <3>2 DEF Pairs
    <3>4. h[2] < had[j][1]
      BY <1>1
    <3> QED BY <1>1, <1>5, <1>11, <3>3, <3>4
  <2>5. CASE w.placed
    <3>1. v.out = Append(w.out, h)
      BY <2>3, <2>5
    <3>2. \A n \in Int : Has(w.out, n) <=> HasIn(had, k - 1, n) \/ Within(n, r)
      BY <2>5 DEF Placing
    <3>3. \A n \in Int : Has(v.out, n) <=> HasIn(had, k, n) \/ Within(n, r)
      BY <1>2, <1>9, <3>1, <3>2, Zenon
    <3>4. Placing(v, had, k, r)
      BY <1>6, <1>9, <2>3, <2>4, <3>1, <3>3 DEF Placing
    <3> QED BY <3>4 DEF v, h
  <2>6. CASE ~w.placed
    <3> DEFINE o == Append(w.out, w.r)
    <3>1. v.out = Append(o, h)
      BY <2>3, <2>6
    <3>2. EndBefore(w.out, w.r[1])
      BY <2>6 DEF Placing
    <3>3. \A n \in Int : Has(w.out, n) \/ Within(n, w.r) <=> HasIn(had, k - 1, n) \/ Within(n, r)
      BY <2>6 DEF Placing
    <3>4. o \in Seq(Pairs) /\ \A n : Has(o, n) <=> Has(w.out, n) \/ Within(n, w.r)
      BY <1>4, HasAppend
    <3>5. Apart(o) /\ \A n : EndBefore(w.out, n) /\ w.r[2] < n => EndBefore(o, n)
      BY <1>4, <1>6, <3>2, ApartAppend
    <3> HIDE DEF o
    <3>6. EndBefore(o, h[1]) /\ \A j \in k + 1 .. Len(had) : EndBefore(o, had[j][1])
      BY <1>7, <1>11, <2>3, <2>4, <3>5
    <3>7. Apart(v.out) /\ \A n : EndBefore(o, n) /\ h[2] < n => EndBefore(v.out, n)
      BY <1>1, <3>1, <3>5, <3>6, ApartAppend
    <3>8. \A j \in k + 1 .. Len(had) : EndBefore(v.out, had[j][1])
      BY <1>1, <3>6, <3>7
    <3>9. \A n : Has(v.out, n) <=> Has(o, n) \/ Within(n, h)
      BY <1>1, <3>1, <3>4, HasAppend
    <3>10. \A n \in Int : Has(v.out, n) <=> HasIn(had, k, n) \/ Within(n, r)
      BY <1>2, <3>3, <3>4, <3>9, Zenon
    <3>11. Placing(v, had, k, r)
      BY <1>6, <2>3, <2>4, <3>7, <3>8, <3>10 DEF Placing
    <3> QED BY <3>11 DEF v, h
  <2> QED BY <1>4, <2>5, <2>6
<1>12. CASE ~(h[2] < w.r[1]) /\ ~(h[1] > w.r[2])
  <2>1. v = [w EXCEPT !.r = Absorbed(@, h)]
    BY <1>12 DEF PutRange
  <2>2. v.r = Absorbed(w.r, h) /\ v.out = w.out /\ v.placed = w.placed
    BY <2>1 DEF AddWalks
  <2> HIDE DEF v
  <2>3. ~w.placed
    BY <1>3, <1>5, <1>12 DEF Placing, h
  <2>4. v.r[1] = AtMost(w.r[1], h[1]) /\ v.r[2] = AtLeast(w.r[2], h[2])
    BY <2>2 DEF Absorbed
  <2>5. v.r[1] \in Int /\ v.r[2] \in Int /\ v.r[1] < v.r[2]
    BY <1>1, <1>5, <1>6, <2>4 DEF AtMost, AtLeast
  <2>6. ASSUME NEW n \in Int PROVE Within(n, v.r) <=> Within(n, w.r) \/ Within(n, h)
    <3> DEFINE a == w.r[1]
               b == w.r[2]
               c == h[1]
               d == h[2]
    <3>1. Within(n, v.r) <=> AtMost(a, c) <= n /\ n < AtLeast(b, d)
      BY <2>4 DEF Within
    <3>2. Within(n, w.r) <=> a <= n /\ n < b
      BY DEF Within
    <3>3. Within(n, h) <=> c <= n /\ n < d
      BY DEF Within
    <3>4. a \in Int /\ b \in Int /\ c \in Int /\ d \in Int /\ ~(d < a) /\ ~(c > b)
      BY <1>1, <1>5, <1>6, <1>12
    <3>5. a < b /\ c < d
      BY <1>1, <1>6
    <3> HIDE DEF a, b, c, d
    <3> QED BY <3>1, <3>2, <3>3, <3>4, <3>5 DEF AtMost, AtLeast
  <2>7. EndBefore(w.out, w.r[1])
    BY <2>3 DEF Placing
  <2>8. \A n \in Int : Has(w.out, n) \/ Within(n, w.r) <=> HasIn(had, k - 1, n) \/ Within(n, r)
    BY <2>3 DEF Placing
  <2>9. \A n \in Int : Has(v.out, n) \/ Within(n, v.r) <=> HasIn(had, k, n) \/ Within(n, r)
    BY <1>2, <2>2, <2>6, <2>8, Zenon
  <2>10. EndBefore(v.out, v.r[1])
    BY <1>7, <2>2, <2>4, <2>7 DEF AtMost
  <2>11. Placing(v, had, k, r)
    BY <1>6, <1>7, <2>2, <2>3, <2>5, <2>9, <2>10 DEF Placing
  <2> QED BY <2>11 DEF v, h
<1> QED BY <1>10, <1>11, <1>12
(* addRange returns ranges sorted and apart that have what was had and the *)
(* new range, and nothing else.                                            *)
LEMMA AddRangeAdds ==
  ASSUME NEW had, Apart(had), NEW r \in Pairs, r[1] < r[2]
  PROVE  /\ Apart(AddRange(had, r))
         /\ \A n \in Int : Has(AddRange(had, r), n) <=> Has(had, n) \/ Within(n, r)
<1>1. had \in Seq(Pairs) /\ Len(had) \in Nat
  BY DEF Apart
<1> DEFINE n == Len(had)
           a == [r |-> r, out |-> <<>>, placed |-> FALSE]
<1>2. PICK f \in [0 .. n -> AddWalks] :
        /\ f[0] = a
        /\ \A k \in 1 .. n : f[k] = PutRange(f[k - 1], had[k])
        /\ AddRange(had, r) = IF f[n].placed THEN f[n].out ELSE Append(f[n].out, f[n].r)
  BY <1>1, AddRangeWalks
<1>3. Placing(a, had, 0, r)
  <2>1. a.r = r /\ a.out = <<>> /\ a.placed = FALSE
    OBVIOUS
  <2>2. \A i : ~(i \in 1 .. Len(<<>>))
    OBVIOUS
  <2>3. Apart(<<>>) /\ \A m : EndBefore(<<>>, m) /\ ~Has(<<>>, m)
    BY <2>2 DEF Apart, EndBefore, Has, HasIn
  <2>4. \A m : ~HasIn(had, 0, m)
    BY HasStep
  <2> HIDE DEF a
  <2> QED BY <2>1, <2>3, <2>4 DEF Placing
<1>4. f[n] \in AddWalks /\ Placing(f[n], had, n, r)
  <2> DEFINE S == {k \in 0 .. n : Placing(f[k], had, k, r)}
  <2>1. 0 \in S
    <3> HIDE DEF a
    <3> QED BY <1>1, <1>2, <1>3
  <2>2. ASSUME NEW k \in 1 .. n, k - 1 \in S PROVE k \in S
    <3>1. Placing(f[k - 1], had, k - 1, r) /\ f[k - 1] \in AddWalks /\ k \in 0 .. n
      BY <1>1, <1>2, <2>2
    <3>2. Placing(PutRange(f[k - 1], had[k]), had, k, r)
      BY <3>1, PutRangePlaces
    <3> QED BY <1>2, <3>1, <3>2
  <2> HIDE DEF S
  <2>3. n \in Nat
    BY <1>1
  <2> HIDE DEF n
  <2>4. \A k \in 0 .. n : k \in S
    BY <2>1, <2>2, <2>3, UpTo
  <2>5. n \in 0 .. n
    BY <2>3
  <2> QED BY <1>2, <2>4, <2>5 DEF S
<1> DEFINE w == f[n]
           p == AddRange(had, r)
<1>5. p = IF w.placed THEN w.out ELSE Append(w.out, w.r)
  BY <1>2
<1>6. Placing(w, had, n, r) /\ w.r \in Pairs /\ w.out \in Seq(Pairs)
  BY <1>4 DEF AddWalks
<1> HIDE DEF a, w, p
<1>7. CASE w.placed
  BY <1>5, <1>6, <1>7 DEF Placing, Has, p
<1>8. CASE ~w.placed
  <2>1. p = Append(w.out, w.r)
    BY <1>5, <1>8
  <2>2. Apart(w.out) /\ w.r[1] < w.r[2] /\ EndBefore(w.out, w.r[1])
    BY <1>6, <1>8 DEF Placing
  <2>3. Apart(p)
    BY <1>6, <2>1, <2>2, ApartAppend
  <2>4. \A m : Has(p, m) <=> Has(w.out, m) \/ Within(m, w.r)
    BY <1>6, <2>1, HasAppend
  <2>5. \A m \in Int : Has(w.out, m) \/ Within(m, w.r) <=> Has(had, m) \/ Within(m, r)
    BY <1>6, <1>8 DEF Placing, Has
  <2> QED BY <2>3, <2>4, <2>5 DEF p
<1> QED BY <1>7, <1>8

-----------------------------------------------------------------------------
(* Ops and their parts.                                                    *)

(* The fields of an op of a copy (merge.go Op).                            *)
LEMMA OpFields ==
  ASSUME NEW op \in Ops
  PROVE  /\ op.kind \in {"ins", "del"} /\ op.id \in Docs \X Nat /\ op.id[1] \in Docs /\ op.id[2] \in Nat
         /\ op.id = <<op.id[1], op.id[2]>> /\ op.len \in Nat \ {0} /\ op.lam \in Nat /\ op.pos \in Int
         /\ op.kind = "del" => /\ op.span \in [first : Docs \X Nat, len : Int]
                               /\ op.span.first[1] \in Docs /\ op.span.first[2] \in Nat
                               /\ Abs(op.span.len) = op.len
BY DEF Ops

(* Counters as counted, with an op's own lamports and positions.           *)
LEMMA ClipFields ==
  ASSUME NEW op \in Ops, NEW k \in Nat, NEW n \in Nat \ {0}, k + n <= op.len
  PROVE  /\ Clip(op, k, n) \in Ops
         /\ Clip(op, k, n).kind = op.kind
         /\ Clip(op, k, n).id = <<op.id[1], op.id[2] + k>>
         /\ Clip(op, k, n).len = n
         /\ Clip(op, k, n).lam = op.lam + k
         /\ op.kind = "ins" => Clip(op, k, n).pos = op.pos + k
         /\ op.kind = "del" /\ op.span.len > 0 =>
              /\ Clip(op, k, n).pos = op.pos
              /\ Clip(op, k, n).span.first = <<op.span.first[1], op.span.first[2] + k>>
              /\ Clip(op, k, n).span.len = n
         /\ op.kind = "del" /\ op.span.len < 0 =>
              /\ Clip(op, k, n).pos = op.pos - k
              /\ Clip(op, k, n).span.first = <<op.span.first[1], op.span.first[2] + (op.len - k - n)>>
              /\ Clip(op, k, n).span.len = -n
<1> DEFINE c == Clip(op, k, n)
<1>1. op.len \in Nat /\ op.lam \in Nat /\ op.pos \in Int /\ op.id[2] \in Nat
  BY OpFields
<1>2. CASE n = op.len
  <2>1. k = 0 /\ c = op
    BY <1>1, <1>2 DEF Clip
  <2>2. op.id = <<op.id[1], op.id[2]>> /\ op.id[2] \in Nat
    BY OpFields
  <2>3. op.kind = "del" => /\ op.span.first = <<op.span.first[1], op.span.first[2]>>
                           /\ op.span.first[2] \in Nat /\ op.span.len \in Int
                           /\ Abs(op.span.len) = op.len
    BY OpFields
  <2> HIDE DEF c
  <2>4. op.kind = "del" => (op.span.len > 0 => op.span.len = n) /\ (op.span.len < 0 => op.span.len = -n)
    BY <1>2, <2>3 DEF Abs
  <2> QED BY <1>1, <1>2, <2>1, <2>2, <2>3, <2>4 DEF c
<1>3. CASE n # op.len /\ op.kind = "ins"
  <2>1. n < op.len
    BY <1>1, <1>3
  <2>2. op \in [kind : {"ins"}, id : Docs \X Nat, len : Nat \ {0}, lam : Nat, pos : Int]
    BY <1>3 DEF Ops
  <2>3. c = [op EXCEPT !.id = After(op.id, k), !.len = n, !.lam = op.lam + k, !.pos = op.pos + k]
    BY <1>3, <2>1, <2>2 DEF Clip
  <2>4. After(op.id, k) = <<op.id[1], op.id[2] + k>> /\ After(op.id, k) \in Docs \X Nat
    BY <2>2 DEF After
  <2>5. c \in [kind : {"ins"}, id : Docs \X Nat, len : Nat \ {0}, lam : Nat, pos : Int]
    <3>1. c = [kind |-> "ins", id |-> After(op.id, k), len |-> n, lam |-> op.lam + k, pos |-> op.pos + k]
      <4> HIDE DEF c
      <4> QED BY <2>2, <2>3
    <3> HIDE DEF c
    <3> QED BY <1>1, <2>4, <3>1
  <2>6. /\ c.kind = op.kind /\ c.id = After(op.id, k) /\ c.len = n /\ c.lam = op.lam + k
        /\ c.pos = op.pos + k
    BY <2>2, <2>3
  <2>7. c \in Ops
    BY <2>5 DEF Ops
  <2> HIDE DEF c
  <2> QED BY <1>3, <2>4, <2>6, <2>7 DEF c
<1>4. CASE n # op.len /\ op.kind = "del"
  <2> DEFINE D == [kind : {"del"}, id : Docs \X Nat, len : Nat \ {0}, lam : Nat, pos : Int,
                   span : [first : Docs \X Nat, len : Int]]
  <2>1. n < op.len
    BY <1>1, <1>4
  <2>2. op \in D /\ Abs(op.span.len) = op.len
    BY <1>4 DEF Ops
  <2>3. op.span.len \in Int /\ op.span.first \in Docs \X Nat
    BY <2>2
  <2>4. After(op.id, k) = <<op.id[1], op.id[2] + k>> /\ After(op.id, k) \in Docs \X Nat
    BY <2>2 DEF After
  <2>5. CASE op.span.len > 0
    <3> DEFINE s == [first |-> After(op.span.first, k), len |-> n]
    <3>1. c = [op EXCEPT !.id = After(op.id, k), !.len = n, !.lam = op.lam + k, !.span = s]
      BY <1>4, <2>1, <2>2, <2>5 DEF Clip
    <3>2. /\ After(op.span.first, k) = <<op.span.first[1], op.span.first[2] + k>>
          /\ After(op.span.first, k) \in Docs \X Nat
      BY <2>3 DEF After
    <3>3. s \in [first : Docs \X Nat, len : Int] /\ s.len = n /\ s.first = After(op.span.first, k) /\ Abs(s.len) = n
      BY <3>2 DEF Abs
    <3> HIDE DEF s
    <3>4. c \in D
      <4>1. c = [kind |-> "del", id |-> After(op.id, k), len |-> n, lam |-> op.lam + k,
                 pos |-> op.pos, span |-> s]
        <5> HIDE DEF c
        <5> QED BY <2>2, <3>1
      <4> HIDE DEF c
      <4> QED BY <1>1, <2>4, <3>3, <4>1
    <3>5. /\ c.kind = op.kind /\ c.id = After(op.id, k) /\ c.len = n /\ c.lam = op.lam + k
          /\ c.pos = op.pos /\ c.span = s
      BY <2>2, <3>1
    <3>6. c \in Ops
      BY <3>3, <3>4, <3>5 DEF Ops
    <3> HIDE DEF c
    <3>7. ~(op.span.len < 0) /\ op.kind # "ins"
      BY <1>4, <2>3, <2>5
    <3> QED BY <2>4, <3>2, <3>3, <3>5, <3>6, <3>7 DEF c
  <2>6. CASE ~(op.span.len > 0)
    <3> DEFINE s == [first |-> After(op.span.first, op.len - k - n), len |-> -n]
    <3>1. op.span.len < 0
      BY <1>1, <2>1, <2>2, <2>3, <2>6 DEF Abs
    <3>2. c = [op EXCEPT !.id = After(op.id, k), !.len = n, !.lam = op.lam + k,
                         !.pos = op.pos - k, !.span = s]
      BY <1>4, <2>1, <2>2, <2>6, <3>1 DEF Clip
    <3>3. /\ After(op.span.first, op.len - k - n) = <<op.span.first[1], op.span.first[2] + (op.len - k - n)>>
          /\ After(op.span.first, op.len - k - n) \in Docs \X Nat
      BY <1>1, <2>3 DEF After
    <3>4. /\ s \in [first : Docs \X Nat, len : Int] /\ s.len = -n /\ Abs(s.len) = n
          /\ s.first = After(op.span.first, op.len - k - n)
      BY <3>3 DEF Abs
    <3> HIDE DEF s
    <3>5. c \in D
      <4>1. c = [kind |-> "del", id |-> After(op.id, k), len |-> n, lam |-> op.lam + k,
                 pos |-> op.pos - k, span |-> s]
        <5> HIDE DEF c
        <5> QED BY <2>2, <3>2
      <4> HIDE DEF c
      <4> QED BY <1>1, <2>4, <3>4, <4>1
    <3>6. /\ c.kind = op.kind /\ c.id = After(op.id, k) /\ c.len = n /\ c.lam = op.lam + k
          /\ c.pos = op.pos - k /\ c.span = s
      BY <2>2, <3>2
    <3>7. c \in Ops
      BY <3>4, <3>5, <3>6 DEF Ops
    <3> HIDE DEF c
    <3>8. ~(op.span.len > 0) /\ op.kind # "ins"
      BY <1>4, <2>6
    <3> QED BY <2>4, <3>3, <3>4, <3>6, <3>7, <3>8 DEF c
  <2> QED BY <2>5, <2>6
<1>5. op.kind \in {"ins", "del"}
  BY OpFields
<1> QED BY <1>2, <1>3, <1>4, <1>5

(* A part of an op says of its atoms what the op does.                     *)
LEMMA ClipKeepsAtoms ==
  ASSUME NEW op \in Ops, NEW k \in Nat, NEW n \in Nat \ {0}, k + n <= op.len
  PROVE  AtomsIn(Clip(op, k, n)) \subseteq AtomsIn(op)
<1> DEFINE c == Clip(op, k, n)
<1>1. c \in Ops /\ c.kind = op.kind /\ c.id = <<op.id[1], op.id[2] + k>> /\ c.len = n /\ c.lam = op.lam + k
  BY ClipFields
<1>2. op.kind = "ins" => c.pos = op.pos + k
  BY ClipFields
<1>3. op.kind = "del" /\ op.span.len > 0 =>
        /\ c.pos = op.pos /\ c.span.first = <<op.span.first[1], op.span.first[2] + k>> /\ c.span.len = n
  BY ClipFields
<1>4. op.kind = "del" /\ op.span.len < 0 =>
        /\ c.pos = op.pos - k /\ c.span.len = -n
        /\ c.span.first = <<op.span.first[1], op.span.first[2] + (op.len - k - n)>>
  BY ClipFields
<1>5. op.len \in Nat \ {0} /\ op.lam \in Nat /\ op.pos \in Int /\ op.id[2] \in Nat /\ op.kind \in {"ins", "del"}
  BY OpFields
<1>6. op.kind = "del" => /\ op.span.len \in Int /\ op.span.first[2] \in Nat
                         /\ op.span.len > 0 \/ op.span.len < 0
  BY <1>5, OpFields DEF Abs
<1> HIDE DEF c
<1>7. ASSUME NEW m \in c.id[2] .. c.id[2] + c.len - 1
      PROVE  m \in op.id[2] .. op.id[2] + op.len - 1 /\ Atom(c, m) = Atom(op, m)
  <2>1. c.id[2] = op.id[2] + k /\ m \in Int
    BY <1>1, <1>5
  <2>2. m \in op.id[2] .. op.id[2] + op.len - 1
    BY <1>1, <1>5, <2>1
  <2> DEFINE i == m - c.id[2]
             j == m - op.id[2]
             x == Clip(c, i, 1)
             y == Clip(op, j, 1)
  <2>3. i \in Nat /\ j \in Nat /\ i + 1 <= c.len /\ j + 1 <= op.len /\ j = i + k
    BY <1>1, <1>5, <2>1
  <2>4. /\ Atom(c, m) = [id |-> x.id, kind |-> x.kind, lam |-> x.lam, pos |-> x.pos,
                         of |-> IF x.kind = "del" THEN x.span.first ELSE None]
        /\ Atom(op, m) = [id |-> y.id, kind |-> y.kind, lam |-> y.lam, pos |-> y.pos,
                          of |-> IF y.kind = "del" THEN y.span.first ELSE None]
    BY DEF Atom
  <2> HIDE DEF i, j
  <2>5. /\ x.kind = c.kind /\ x.id = <<c.id[1], c.id[2] + i>> /\ x.lam = c.lam + i
        /\ c.kind = "ins" => x.pos = c.pos + i
        /\ c.kind = "del" /\ c.span.len > 0 =>
             x.pos = c.pos /\ x.span.first = <<c.span.first[1], c.span.first[2] + i>>
        /\ c.kind = "del" /\ c.span.len < 0 =>
             x.pos = c.pos - i /\ x.span.first = <<c.span.first[1], c.span.first[2] + (c.len - i - 1)>>
    BY <1>1, <2>3, ClipFields
  <2>6. /\ y.kind = op.kind /\ y.id = <<op.id[1], op.id[2] + j>> /\ y.lam = op.lam + j
        /\ op.kind = "ins" => y.pos = op.pos + j
        /\ op.kind = "del" /\ op.span.len > 0 =>
             y.pos = op.pos /\ y.span.first = <<op.span.first[1], op.span.first[2] + j>>
        /\ op.kind = "del" /\ op.span.len < 0 =>
             y.pos = op.pos - j /\ y.span.first = <<op.span.first[1], op.span.first[2] + (op.len - j - 1)>>
    BY <2>3, ClipFields
  <2> HIDE DEF x, y
  <2>7. x.kind = y.kind /\ x.id = y.id /\ x.lam = y.lam
    BY <1>1, <1>5, <2>3, <2>5, <2>6
  <2>8. x.pos = y.pos /\ (x.kind = "del" => x.span.first = y.span.first)
    <3>1. CASE op.kind = "ins"
      BY <1>1, <1>2, <1>5, <2>3, <2>5, <2>6, <3>1
    <3>2. CASE op.kind = "del" /\ op.span.len > 0
      <4>1. c.span.len > 0
        BY <1>3, <3>2
      <4>2. x.pos = op.pos /\ y.pos = op.pos
        BY <1>1, <1>3, <2>5, <2>6, <3>2, <4>1
      <4>3. /\ x.span.first = <<op.span.first[1], (op.span.first[2] + k) + i>>
            /\ y.span.first = <<op.span.first[1], op.span.first[2] + j>>
        BY <1>1, <1>3, <2>5, <2>6, <3>2, <4>1
      <4>4. (op.span.first[2] + k) + i = op.span.first[2] + j
        BY <1>6, <2>3, <3>2
      <4> QED BY <4>2, <4>3, <4>4
    <3>3. CASE op.kind = "del" /\ op.span.len < 0
      <4>1. c.span.len < 0
        BY <1>4, <3>3
      <4>2. x.pos = (op.pos - k) - i /\ y.pos = op.pos - j
        BY <1>1, <1>4, <2>5, <2>6, <3>3, <4>1
      <4>3. /\ x.span.first = <<op.span.first[1], (op.span.first[2] + (op.len - k - n)) + (n - i - 1)>>
            /\ y.span.first = <<op.span.first[1], op.span.first[2] + (op.len - j - 1)>>
        BY <1>1, <1>4, <2>5, <2>6, <3>3, <4>1
      <4>4. /\ (op.pos - k) - i = op.pos - j
            /\ (op.span.first[2] + (op.len - k - n)) + (n - i - 1) = op.span.first[2] + (op.len - j - 1)
        BY <1>5, <1>6, <2>3, <3>3
      <4> QED BY <4>2, <4>3, <4>4
    <3> QED BY <1>5, <1>6, <3>1, <3>2, <3>3
  <2> QED BY <2>2, <2>4, <2>7, <2>8
<1> QED BY <1>7 DEF AtomsIn, c
-----------------------------------------------------------------------------
(* What is taken of an op.                                                 *)

(* The ids of an op's atoms, with its kind.                                *)
Keys(op) == {op.kind} \X OpIds(op)

KeysIn(ops, k) == UNION {Keys(ops[i]) : i \in 1 .. k}

KeysOf(ops) == KeysIn(ops, Len(ops))

(* No two of the ops have an atom in common.                               *)
OnceOnly(ops) == \A i, j \in 1 .. Len(ops) : Keys(ops[i]) \cap Keys(ops[j]) # {} => i = j

AtomsOfOps(ops) == UNION {AtomsIn(ops[i]) : i \in 1 .. Len(ops)}

(* The parts that collect takes of two ops with no atom in common have the *)
(* atoms of both, each once.                                               *)
LEMMA OpsJoined ==
  ASSUME NEW s \in Seq(Ops), NEW t \in Seq(Ops), OnceOnly(s), OnceOnly(t),
         KeysOf(s) \cap KeysOf(t) = {}
  PROVE  /\ s \o t \in Seq(Ops)
         /\ KeysOf(s \o t) = KeysOf(s) \cup KeysOf(t)
         /\ OnceOnly(s \o t)
         /\ AtomsOfOps(s \o t) = AtomsOfOps(s) \cup AtomsOfOps(t)
<1> DEFINE u == s \o t
           m == Len(s)
           n == Len(t)
<1>1. u \in Seq(Ops) /\ Len(u) = m + n /\ m \in Nat /\ n \in Nat
  OBVIOUS
<1>2. /\ \A i \in 1 .. m : u[i] = s[i]
      /\ \A i \in 1 .. n : u[m + i] = t[i]
  OBVIOUS
<1> HIDE DEF u, m, n
<1>3. \A i \in 1 .. m : i \in 1 .. Len(u)
  BY <1>1
<1>4. \A i \in 1 .. n : m + i \in 1 .. Len(u)
  BY <1>1
<1>5. \A i \in 1 .. Len(u) : i \in 1 .. m \/ \E j \in 1 .. n : i = m + j
  <2> SUFFICES ASSUME NEW i \in 1 .. Len(u), i \notin 1 .. m PROVE \E j \in 1 .. n : i = m + j
    OBVIOUS
  <2>1. i - m \in 1 .. n /\ i = m + (i - m)
    BY <1>1
  <2> QED BY <2>1
<1>6. KeysOf(u) = KeysOf(s) \cup KeysOf(t)
  <2>1. ASSUME NEW i \in 1 .. Len(u)
        PROVE  Keys(u[i]) \subseteq KeysOf(s) \cup KeysOf(t)
    <3>1. CASE i \in 1 .. m
      BY <1>2, <3>1 DEF KeysOf, KeysIn, m
    <3>2. CASE \E j \in 1 .. n : i = m + j
      BY <1>2, <3>2 DEF KeysOf, KeysIn, n
    <3> QED BY <1>5, <3>1, <3>2
  <2>2. \A i \in 1 .. m : Keys(s[i]) \subseteq KeysOf(u)
    BY <1>2, <1>3, Zenon DEF KeysOf, KeysIn
  <2>3. \A i \in 1 .. n : Keys(t[i]) \subseteq KeysOf(u)
    BY <1>2, <1>4, Zenon DEF KeysOf, KeysIn
  <2>4. KeysOf(u) \subseteq KeysOf(s) \cup KeysOf(t)
    <3>1. KeysOf(u) = UNION {Keys(u[i]) : i \in 1 .. Len(u)}
      BY DEF KeysOf, KeysIn
    <3> HIDE DEF u
    <3> QED BY <2>1, <3>1
  <2>5. KeysOf(s) \subseteq KeysOf(u)
    <3>1. KeysOf(s) = UNION {Keys(s[i]) : i \in 1 .. m}
      BY DEF KeysOf, KeysIn, m
    <3> QED BY <2>2, <3>1
  <2>6. KeysOf(t) \subseteq KeysOf(u)
    <3>1. KeysOf(t) = UNION {Keys(t[i]) : i \in 1 .. n}
      BY DEF KeysOf, KeysIn, n
    <3> QED BY <2>3, <3>1
  <2> QED BY <2>4, <2>5, <2>6
<1>7. AtomsOfOps(u) = AtomsOfOps(s) \cup AtomsOfOps(t)
  <2>1. ASSUME NEW i \in 1 .. Len(u)
        PROVE  AtomsIn(u[i]) \subseteq AtomsOfOps(s) \cup AtomsOfOps(t)
    <3>1. CASE i \in 1 .. m
      BY <1>2, <3>1 DEF AtomsOfOps, m
    <3>2. CASE \E j \in 1 .. n : i = m + j
      BY <1>2, <3>2 DEF AtomsOfOps, n
    <3> QED BY <1>5, <3>1, <3>2
  <2>2. \A i \in 1 .. m : AtomsIn(s[i]) \subseteq AtomsOfOps(u)
    BY <1>2, <1>3, Zenon DEF AtomsOfOps
  <2>3. \A i \in 1 .. n : AtomsIn(t[i]) \subseteq AtomsOfOps(u)
    BY <1>2, <1>4, Zenon DEF AtomsOfOps
  <2>4. AtomsOfOps(u) \subseteq AtomsOfOps(s) \cup AtomsOfOps(t)
    BY <2>1, Zenon DEF AtomsOfOps
  <2>5. AtomsOfOps(s) \subseteq AtomsOfOps(u) /\ AtomsOfOps(t) \subseteq AtomsOfOps(u)
    BY <2>2, <2>3 DEF AtomsOfOps, m, n
  <2> QED BY <2>4, <2>5
<1>8. ASSUME NEW i \in 1 .. Len(u), NEW j \in 1 .. Len(u), NEW x \in Keys(u[i]) \cap Keys(u[j])
      PROVE  i = j
  <2>1. \A k \in 1 .. m : x \in Keys(u[k]) => x \in KeysOf(s) /\ x \in Keys(s[k])
    BY <1>2, Zenon DEF KeysOf, KeysIn, m
  <2>2. \A k \in 1 .. n : x \in Keys(u[m + k]) => x \in KeysOf(t) /\ x \in Keys(t[k])
    BY <1>2, Zenon DEF KeysOf, KeysIn, n
  <2>3. ~(x \in KeysOf(s) /\ x \in KeysOf(t))
    OBVIOUS
  <2>4. CASE i \in 1 .. m /\ j \in 1 .. m
    BY <2>1, <2>4 DEF OnceOnly, m
  <2>5. CASE i \in 1 .. m /\ j \notin 1 .. m
    BY <1>5, <2>1, <2>2, <2>3, <2>5
  <2>6. CASE i \notin 1 .. m /\ j \in 1 .. m
    BY <1>5, <2>1, <2>2, <2>3, <2>6
  <2>7. CASE i \notin 1 .. m /\ j \notin 1 .. m
    <3>1. PICK a \in 1 .. n : i = m + a
      BY <1>5, <2>7
    <3>2. PICK b \in 1 .. n : j = m + b
      BY <1>5, <2>7
    <3>3. x \in Keys(t[a]) /\ x \in Keys(t[b])
      BY <2>2, <3>1, <3>2
    <3>4. a = b
      BY <3>3 DEF OnceOnly, n
    <3> QED BY <3>1, <3>2, <3>4
  <2> QED BY <2>4, <2>5, <2>6, <2>7
<1>9. OnceOnly(u)
  BY <1>8 DEF OnceOnly
<1> QED BY <1>1, <1>6, <1>7, <1>9 DEF u

Kinds == {"ins", "del"}

(* The ranges that are had of each peer and kind, and the keys they have.  *)
Hads == [Docs \X Kinds -> {rs \in Seq(Pairs) : Apart(rs)}]

HadKeys(had) == {x \in Kinds \X (Docs \X Int) : Has(had[<<x[2][1], x[1]>>], x[2][2])}

Span(op) == <<op.id[2], op.id[2] + op.len>>

(* The range of an op that collect asks for is not empty, and has the      *)
(* counters of the op's atoms.                                             *)
LEMMA KeysAreWithin ==
  ASSUME NEW op \in Ops
  PROVE  /\ Span(op) \in Pairs /\ Span(op)[1] = op.id[2] /\ Span(op)[2] = op.id[2] + op.len
         /\ Span(op)[1] < Span(op)[2]
         /\ Keys(op) = {x \in Kinds \X (Docs \X Int) :
                          x[1] = op.kind /\ x[2][1] = op.id[1] /\ Within(x[2][2], Span(op))}
<1>1. op.id[2] \in Nat /\ op.len \in Nat \ {0} /\ op.kind \in Kinds /\ op.id[1] \in Docs
  BY OpFields DEF Kinds
<1>2. /\ Span(op) \in Pairs /\ Span(op)[1] = op.id[2] /\ Span(op)[2] = op.id[2] + op.len
      /\ Span(op)[1] < Span(op)[2]
  BY <1>1 DEF Span, Pairs
<1>3. \A n \in Int : n \in op.id[2] .. op.id[2] + op.len - 1 <=> Within(n, Span(op))
  <2> SUFFICES ASSUME NEW n \in Int
               PROVE  n \in op.id[2] .. op.id[2] + op.len - 1 <=> Within(n, Span(op))
    OBVIOUS
  <2>1. Within(n, Span(op)) <=> op.id[2] <= n /\ n < op.id[2] + op.len
    BY <1>2 DEF Within
  <2> QED BY <1>1, <2>1
<1>4. \A n : n \in op.id[2] .. op.id[2] + op.len - 1 => n \in Int
  OBVIOUS
<1> QED BY <1>1, <1>2, <1>3, <1>4 DEF Keys, OpIds

Takes == [had : Hads, fresh : Seq(Ops)]

(* v has what w had and the op; what it took of it is what w had not.      *)
TakesOf(w, v, op, new) ==
  /\ v \in Takes
  /\ HadKeys(v.had) = HadKeys(w.had) \cup Keys(op)
  /\ v.fresh = w.fresh \o new
  /\ new \in Seq(Ops)
  /\ KeysOf(new) = Keys(op) \ HadKeys(w.had)
  /\ OnceOnly(new)
  /\ AtomsOfOps(new) \subseteq AtomsIn(op)

(* collect takes of one op the atoms that are not had, each once and as    *)
(* the op has them, and has all of them then (merge.go collect, its inner  *)
(* loop).                                                                  *)
LEMMA TakeOpTakes ==
  ASSUME NEW w \in Takes, NEW op \in Ops
  PROVE  \E new : TakesOf(w, TakeOp(w, op), op, new)
<1> DEFINE key == <<op.id[1], op.kind>>
           span == Span(op)
           gaps == Uncovered(w.had[key], span)
           had == [w.had EXCEPT ![key] = AddRange(@, span)]
           part(i) == Clip(op, gaps[i][1] - span[1], gaps[i][2] - gaps[i][1])
           new == [i \in DOMAIN gaps |-> part(i)]
           v == TakeOp(w, op)
<1>1. w.had \in Hads /\ w.fresh \in Seq(Ops)
  BY DEF Takes
<1>2. op.id[2] \in Nat /\ op.len \in Nat \ {0} /\ op.kind \in Kinds /\ op.id[1] \in Docs
  BY OpFields DEF Kinds
<1>3. /\ span \in Pairs /\ span[1] = op.id[2] /\ span[2] = op.id[2] + op.len /\ span[1] < span[2]
      /\ Keys(op) = {x \in Kinds \X (Docs \X Int) :
                       x[1] = op.kind /\ x[2][1] = op.id[1] /\ Within(x[2][2], span)}
  BY KeysAreWithin
<1>4. key \in Docs \X Kinds /\ Apart(w.had[key])
  BY <1>1, <1>2 DEF Hads
<1>5. v = [had |-> had, fresh |-> w.fresh \o new]
  BY DEF TakeOp, Span
<1>6. Leaves(gaps, w.had[key], span)
  <2> HIDE DEF key, span
  <2> QED BY <1>3, <1>4, UncoveredLeaves
<1>7. /\ Apart(AddRange(w.had[key], span))
      /\ \A n \in Int : Has(AddRange(w.had[key], span), n) <=> Has(w.had[key], n) \/ Within(n, span)
  <2> HIDE DEF key, span
  <2> QED BY <1>3, <1>4, AddRangeAdds
<1>8. AddRange(w.had[key], span) \in Seq(Pairs)
  BY <1>7 DEF Apart
<1> HIDE DEF span
<1>9. had \in Hads /\ had[key] = AddRange(w.had[key], span) /\ \A k \in (Docs \X Kinds) \ {key} : had[k] = w.had[k]
  <2> HIDE DEF key
  <2> QED BY <1>1, <1>4, <1>7, <1>8 DEF Hads
<1> HIDE DEF had
<1>10. HadKeys(had) = HadKeys(w.had) \cup Keys(op)
  <2>1. ASSUME NEW x \in Kinds \X (Docs \X Int)
        PROVE  x \in HadKeys(had) <=> x \in HadKeys(w.had) \/ x \in Keys(op)
    <3>1. x[2][2] \in Int /\ x[2][1] \in Docs /\ x[1] \in Kinds
      OBVIOUS
    <3>2. CASE <<x[2][1], x[1]>> = key
      <4>1. x[2][1] = op.id[1] /\ x[1] = op.kind
        BY <3>2
      <4>2. x \in Keys(op) <=> Within(x[2][2], span)
        BY <1>3, <4>1
      <4> HIDE DEF key
      <4> QED BY <1>7, <1>9, <3>1, <3>2, <4>2 DEF HadKeys
    <3>3. CASE <<x[2][1], x[1]>> # key
      <4>1. x \notin Keys(op)
        BY <1>3, <3>3
      <4>2. had[<<x[2][1], x[1]>>] = w.had[<<x[2][1], x[1]>>]
        BY <1>9, <3>1, <3>3
      <4> QED BY <4>1, <4>2 DEF HadKeys
    <3> QED BY <3>2, <3>3
  <2>2. /\ HadKeys(had) \subseteq Kinds \X (Docs \X Int)
        /\ HadKeys(w.had) \subseteq Kinds \X (Docs \X Int)
        /\ Keys(op) \subseteq Kinds \X (Docs \X Int)
    BY <1>3 DEF HadKeys
  <2> QED BY <2>1, <2>2
<1> HIDE DEF gaps
<1>11. gaps \in Seq(Pairs) /\ DOMAIN gaps = 1 .. Len(gaps) /\ Len(gaps) \in Nat
  BY <1>6 DEF Leaves
<1>12. ASSUME NEW i \in 1 .. Len(gaps)
       PROVE  /\ part(i) \in Ops /\ AtomsIn(part(i)) \subseteq AtomsIn(op)
              /\ Keys(part(i)) = {x \in Kinds \X (Docs \X Int) :
                                   x[1] = op.kind /\ x[2][1] = op.id[1] /\ Within(x[2][2], gaps[i])}
  <2> DEFINE k == gaps[i][1] - span[1]
             n == gaps[i][2] - gaps[i][1]
  <2>1. /\ gaps[i] \in Pairs /\ span[1] <= gaps[i][1] /\ gaps[i][1] < gaps[i][2]
        /\ gaps[i][2] <= span[2]
    BY <1>6, <1>11 DEF Leaves, GapsOf
  <2>2. gaps[i][1] \in Int /\ gaps[i][2] \in Int
    BY <2>1 DEF Pairs
  <2>3. k \in Nat /\ n \in Nat \ {0} /\ k + n <= op.len /\ op.id[2] + k = gaps[i][1] /\ (op.id[2] + k) + n = gaps[i][2]
    <3> DEFINE a == op.id[2]
               l == op.len
               b == gaps[i][1]
               c == gaps[i][2]
    <3>1. span[1] = a /\ span[2] = a + l
      BY <1>3
    <3>2. a \in Int /\ l \in Int /\ b \in Int /\ c \in Int
      BY <1>2, <2>2
    <3>3. a <= b /\ b < c /\ c <= a + l
      BY <2>1, <3>1
    <3>4. k = b - a /\ n = c - b
      BY <3>1
    <3> HIDE DEF a, l, b, c, k, n
    <3>5. k \in Nat /\ n \in Nat \ {0} /\ k + n <= l /\ a + k = b /\ (a + k) + n = c
      BY <3>2, <3>3, <3>4
    <3> QED BY <3>5 DEF a, l, b, c
  <2>4. part(i) = Clip(op, k, n)
    OBVIOUS
  <2> HIDE DEF k, n, part
  <2>5. /\ part(i) \in Ops /\ part(i).kind = op.kind /\ part(i).id = <<op.id[1], op.id[2] + k>>
        /\ part(i).len = n
    BY <2>3, <2>4, ClipFields
  <2>6. AtomsIn(part(i)) \subseteq AtomsIn(op)
    BY <2>3, <2>4, ClipKeepsAtoms
  <2>7. Keys(part(i)) = {x \in Kinds \X (Docs \X Int) :
                          /\ x[1] = part(i).kind /\ x[2][1] = part(i).id[1]
                          /\ Within(x[2][2], Span(part(i)))}
    BY <2>5, KeysAreWithin
  <2>8. \A m : Within(m, Span(part(i))) <=> Within(m, gaps[i])
    <3>1. Span(part(i))[1] = gaps[i][1] /\ Span(part(i))[2] = gaps[i][2]
      <4>1. Span(part(i))[1] = part(i).id[2] /\ Span(part(i))[2] = part(i).id[2] + part(i).len
        BY <2>5, KeysAreWithin
      <4>2. part(i).id[2] = op.id[2] + k
        BY <2>5
      <4> QED BY <2>3, <2>5, <4>1, <4>2
    <3> QED BY <3>1 DEF Within
  <2>9. part(i).id[1] = op.id[1]
    BY <2>5
  <2> QED BY <2>5, <2>6, <2>7, <2>8, <2>9
<1>13. new \in Seq(Ops) /\ Len(new) = Len(gaps) /\ \A i \in 1 .. Len(gaps) : new[i] = part(i)
  <2> HIDE DEF part
  <2> QED BY <1>11, <1>12
<1> HIDE DEF new, part
<1>14. KeysOf(new) = Keys(op) \ HadKeys(w.had)
  <2>1. ASSUME NEW x
        PROVE  x \in KeysOf(new) <=> /\ x \in Kinds \X (Docs \X Int)
                                     /\ x[1] = op.kind /\ x[2][1] = op.id[1] /\ Has(gaps, x[2][2])
    <3>1. x \in KeysOf(new) <=> \E i \in 1 .. Len(gaps) : x \in Keys(part(i))
      BY <1>13, Zenon DEF KeysOf, KeysIn
    <3> QED BY <1>12, <3>1 DEF Has, HasIn
  <2>2. ASSUME NEW x \in Kinds \X (Docs \X Int), x[1] = op.kind, x[2][1] = op.id[1]
        PROVE  Has(gaps, x[2][2]) <=> x \in Keys(op) /\ x \notin HadKeys(w.had)
    <3>1. x[2][2] \in Int /\ <<x[2][1], x[1]>> = key
      BY <2>2
    <3>2. Has(gaps, x[2][2]) <=> Within(x[2][2], span) /\ ~Has(w.had[key], x[2][2])
      BY <1>6, <3>1 DEF Leaves
    <3>3. x \in HadKeys(w.had) <=> Has(w.had[key], x[2][2])
      BY <3>1 DEF HadKeys
    <3>4. x \in Keys(op) <=> Within(x[2][2], span)
      BY <1>3, <2>2
    <3> QED BY <3>2, <3>3, <3>4
  <2>3. \A x \in Keys(op) : x \in Kinds \X (Docs \X Int) /\ x[1] = op.kind /\ x[2][1] = op.id[1]
    BY <1>3
  <2> QED BY <2>1, <2>2, <2>3
<1>15. OnceOnly(new)
  <2> SUFFICES ASSUME NEW i \in 1 .. Len(gaps), NEW j \in 1 .. Len(gaps), NEW x \in Keys(part(i)) \cap Keys(part(j)),
                      i < j
               PROVE  FALSE
    <3>1. \A i, j \in 1 .. Len(gaps) : i = j \/ i < j \/ j < i
      OBVIOUS
    <3> QED BY <1>13, <3>1, Zenon DEF OnceOnly
  <2>1. Within(x[2][2], gaps[i]) /\ Within(x[2][2], gaps[j]) /\ x[2][2] \in Int
    BY <1>12
  <2>2. gaps[i][2] <= gaps[j][1] /\ gaps[i] \in Pairs /\ gaps[j] \in Pairs
    BY <1>6, <1>11 DEF Leaves, GapsOf
  <2>3. gaps[i][2] \in Int /\ gaps[j][1] \in Int
    BY <2>2 DEF Pairs
  <2> QED BY <2>1, <2>2, <2>3 DEF Within
<1>16. AtomsOfOps(new) \subseteq AtomsIn(op)
  <2>1. \A i \in 1 .. Len(new) : AtomsIn(new[i]) \subseteq AtomsIn(op)
    BY <1>12, <1>13
  <2> QED BY <2>1, Zenon DEF AtomsOfOps
<1>17. v \in Takes /\ v.had = had /\ v.fresh = w.fresh \o new
  <2>1. w.fresh \o new \in Seq(Ops)
    BY <1>1, <1>13
  <2> HIDE DEF v
  <2> QED BY <1>5, <1>9, <2>1 DEF Takes
<1> HIDE DEF v
<1>18. TakesOf(w, v, op, new)
  BY <1>10, <1>13, <1>14, <1>15, <1>16, <1>17 DEF TakesOf
<1> QED BY <1>18 DEF v
(* The first k ops have the atoms of the first k - 1 and of the k-th.      *)
LEMMA KeysStep ==
  ASSUME NEW ops
  PROVE  KeysIn(ops, 0) = {} /\ \A k \in Nat \ {0} : KeysIn(ops, k) = KeysIn(ops, k - 1) \cup Keys(ops[k])
<1>1. ASSUME NEW k \in Nat \ {0}
      PROVE  KeysIn(ops, k) = KeysIn(ops, k - 1) \cup Keys(ops[k])
  <2>1. 1 .. k = (1 .. k - 1) \cup {k}
    OBVIOUS
  <2> QED BY <2>1 DEF KeysIn
<1>2. KeysIn(ops, 0) = {}
  BY DEF KeysIn
<1> QED BY <1>1, <1>2

-----------------------------------------------------------------------------
(* What is taken of a change.                                              *)

(* v has what had has and the first k ops; it took what had has not.       *)
TakenOf(v, had, ops, k) ==
  /\ HadKeys(v.had) = HadKeys(had) \cup KeysIn(ops, k)
  /\ KeysOf(v.fresh) = KeysIn(ops, k) \ HadKeys(had)
  /\ OnceOnly(v.fresh)
  /\ AtomsOfOps(v.fresh) \subseteq AtomsOfOps(ops)

(* After one more op of a change collect has the ops so far, and has taken *)
(* what was not had before the change.                                     *)
LEMMA TakeOpFollows ==
  ASSUME NEW had \in Hads, NEW ops \in Seq(Ops), NEW k \in 1 .. Len(ops),
         NEW w \in Takes, TakenOf(w, had, ops, k - 1)
  PROVE  TakenOf(TakeOp(w, ops[k]), had, ops, k)
<1> DEFINE v == TakeOp(w, ops[k])
<1>1. ops[k] \in Ops /\ k \in Nat \ {0}
  OBVIOUS
<1>2. PICK new : TakesOf(w, v, ops[k], new)
  BY <1>1, TakeOpTakes
<1> HIDE DEF v
<1>3. /\ HadKeys(v.had) = HadKeys(w.had) \cup Keys(ops[k])
      /\ v.fresh = w.fresh \o new /\ new \in Seq(Ops)
      /\ KeysOf(new) = Keys(ops[k]) \ HadKeys(w.had)
      /\ OnceOnly(new) /\ AtomsOfOps(new) \subseteq AtomsIn(ops[k])
  BY <1>2 DEF TakesOf
<1>4. /\ HadKeys(w.had) = HadKeys(had) \cup KeysIn(ops, k - 1)
      /\ KeysOf(w.fresh) = KeysIn(ops, k - 1) \ HadKeys(had)
      /\ OnceOnly(w.fresh) /\ AtomsOfOps(w.fresh) \subseteq AtomsOfOps(ops)
      /\ w.fresh \in Seq(Ops)
  BY DEF TakenOf, Takes
<1>5. KeysIn(ops, k) = KeysIn(ops, k - 1) \cup Keys(ops[k])
  BY <1>1, KeysStep
<1>6. KeysOf(w.fresh) \cap KeysOf(new) = {}
  BY <1>3, <1>4
<1>7. /\ KeysOf(v.fresh) = KeysOf(w.fresh) \cup KeysOf(new) /\ OnceOnly(v.fresh)
      /\ AtomsOfOps(v.fresh) = AtomsOfOps(w.fresh) \cup AtomsOfOps(new)
  BY <1>3, <1>4, <1>6, OpsJoined
<1>8. AtomsIn(ops[k]) \subseteq AtomsOfOps(ops)
  BY DEF AtomsOfOps
<1>9. HadKeys(v.had) = HadKeys(had) \cup KeysIn(ops, k)
  BY <1>3, <1>4, <1>5
<1>10. KeysOf(v.fresh) = KeysIn(ops, k) \ HadKeys(had)
  BY <1>3, <1>4, <1>5, <1>7
<1>11. AtomsOfOps(v.fresh) \subseteq AtomsOfOps(ops)
  BY <1>3, <1>4, <1>7, <1>8
<1>12. TakenOf(v, had, ops, k)
  BY <1>7, <1>9, <1>10, <1>11 DEF TakenOf
<1> QED BY <1>12 DEF v

TakeWalk(f, had, ops) ==
  f = [k \in 0 .. Len(ops) |->
         IF k = 0 THEN [had |-> had, fresh |-> <<>>] ELSE TakeOp(f[k - 1], ops[k])]

(* collect takes of a copy the atoms that are not had, each once (merge.go *)
(* collect, sc.fresh).                                                     *)
LEMMA TakeChangeTakes ==
  ASSUME NEW w, w.had \in Hads, NEW c, c.ops \in Seq(Ops)
  PROVE  \E v \in Takes :
           /\ TakenOf(v, w.had, c.ops, Len(c.ops))
           /\ TakeChange(w, c) = [had |-> v.had,
                                  units |-> IF v.fresh = <<>> THEN w.units
                                            ELSE Append(w.units, [of |-> c, ops |-> v.fresh])]
<1> DEFINE had == w.had
           ops == c.ops
           n == Len(ops)
           a == [had |-> had, fresh |-> <<>>]
           F == [x \in Takes \X (1 .. n) |-> TakeOp(x[1], ops[x[2]])]
           g == CHOOSE f : TakeWalk(f, had, ops)
<1>1. n \in Nat /\ \A k \in 1 .. n : ops[k] \in Ops
  OBVIOUS
<1>2. a \in Takes
  BY DEF Takes
<1>3. \A v \in Takes, k \in 1 .. n : TakeOp(v, ops[k]) \in Takes
  BY <1>1, TakeOpTakes DEF TakesOf
<1>4. F \in [Takes \X (1 .. n) -> Takes]
  <2> SUFFICES ASSUME NEW x \in Takes \X (1 .. n) PROVE TakeOp(x[1], ops[x[2]]) \in Takes
    OBVIOUS
  <2> QED BY <1>3
<1>5. \A v \in Takes, k \in 1 .. n : F[<<v, k>>] = TakeOp(v, ops[k])
  OBVIOUS
<1>6. TakeChange(w, c) = [had |-> g[n].had,
                          units |-> IF g[n].fresh = <<>> THEN w.units
                                    ELSE Append(w.units, [of |-> c, ops |-> g[n].fresh])]
  BY DEF TakeChange, TakeWalk
<1>7. TakenOf(a, had, ops, 0)
  <2>1. a.had = had /\ a.fresh = <<>>
    OBVIOUS
  <2>2. KeysIn(ops, 0) = {} /\ KeysOf(<<>>) = {} /\ AtomsOfOps(<<>>) = {} /\ OnceOnly(<<>>)
    <3>1. \A i : ~(i \in 1 .. Len(<<>>))
      OBVIOUS
    <3> QED BY <3>1, KeysStep DEF KeysOf, KeysIn, AtomsOfOps, OnceOnly
  <2> HIDE DEF a
  <2> QED BY <2>1, <2>2 DEF TakenOf
<1> HIDE DEF n, a, F
<1>8. PICK f \in [0 .. n -> Takes] : IsWalk(f, a, F, n)
  BY <1>1, <1>2, <1>4, WalkExists
<1>9. f[0] = a /\ \A k \in 1 .. n : f[k] = TakeOp(f[k - 1], ops[k])
  <2>1. \A k \in 1 .. n : f[k - 1] \in Takes
    BY <1>1, <1>8
  <2> QED BY <1>5, <1>8, <2>1 DEF IsWalk
<1>10. TakeWalk(f, had, ops)
  <2>1. \A k \in 0 .. n : f[k] = IF k = 0 THEN a ELSE TakeOp(f[k - 1], ops[k])
    BY <1>1, <1>9
  <2>2. f = [k \in 0 .. n |-> IF k = 0 THEN a ELSE TakeOp(f[k - 1], ops[k])]
    BY <1>8, <2>1
  <2> QED BY <2>2 DEF TakeWalk, n, a
<1>11. TakeWalk(g, had, ops)
  BY <1>10
<1> HIDE DEF g
<1>12. \A k \in 0 .. n : g[k] = IF k = 0 THEN a ELSE TakeOp(g[k - 1], ops[k])
  BY <1>11 DEF TakeWalk, n, a
<1>13. g[0] = a /\ \A k \in 1 .. n : g[k] = TakeOp(g[k - 1], ops[k])
  <2>1. 0 \in 0 .. n /\ \A k \in 1 .. n : k \in 0 .. n /\ k # 0
    BY <1>1
  <2> QED BY <1>12, <2>1
<1>14. g \in [0 .. n -> Takes]
  <2>1. IsMapUpTo(g, n)
    BY <1>11 DEF TakeWalk, IsMapUpTo, n, a
  <2>2. WalksIn(Takes, g, a, F, n)
    BY <1>5, <1>13 DEF WalksIn
  <2>3. n \in Nat
    BY <1>1
  <2> QED BY <1>2, <1>4, <2>1, <2>2, <2>3, WalkTyped
<1>15. TakenOf(g[n], had, ops, n)
  <2> DEFINE S == {k \in 0 .. n : TakenOf(g[k], had, ops, k)}
  <2>1. 0 \in S
    BY <1>1, <1>7, <1>13
  <2>2. ASSUME NEW k \in 1 .. n, k - 1 \in S PROVE k \in S
    <3>1. TakenOf(g[k - 1], had, ops, k - 1) /\ g[k - 1] \in Takes /\ k \in 0 .. n
      BY <1>1, <1>14, <2>2
    <3>2. k \in 1 .. Len(ops)
      BY DEF n
    <3>3. TakenOf(TakeOp(g[k - 1], ops[k]), had, ops, k)
      BY <3>1, <3>2, TakeOpFollows
    <3> QED BY <1>13, <3>1, <3>3
  <2> HIDE DEF S
  <2>3. n \in Nat
    BY <1>1
  <2>4. \A k \in 0 .. n : k \in S
    BY <2>1, <2>2, <2>3, UpTo
  <2>5. n \in 0 .. n
    BY <2>3
  <2> QED BY <2>4, <2>5 DEF S
<1>16. g[n] \in Takes
  BY <1>1, <1>14
<1> QED BY <1>6, <1>15, <1>16 DEF n

-----------------------------------------------------------------------------
(* What is taken of the copies.                                            *)

KeysInAll(cs, k) == UNION {KeysOf(cs[i].ops) : i \in 1 .. k}

KeysOfAll(cs) == KeysInAll(cs, Len(cs))

AtomsOfAll(cs) == UNION {AtomsOfOps(cs[i].ops) : i \in 1 .. Len(cs)}

(* No two ops of all the units have an atom in common.                     *)
OnceInAll(units) ==
  /\ \A i \in 1 .. Len(units) : OnceOnly(units[i].ops)
  /\ \A i, j \in 1 .. Len(units) : KeysOf(units[i].ops) \cap KeysOf(units[j].ops) # {} => i = j

UnitsOf(S) == [of : S, ops : Seq(Ops)]

(* A unit whose atoms no other unit has leaves every atom in one op of one *)
(* unit.                                                                   *)
LEMMA UnitAdded ==
  ASSUME NEW S, NEW units \in Seq(UnitsOf(S)), NEW u \in UnitsOf(S),
         OnceInAll(units), OnceOnly(u.ops), KeysOf(u.ops) \cap KeysOfAll(units) = {}
  PROVE  /\ OnceInAll(Append(units, u))
         /\ KeysOfAll(Append(units, u)) = KeysOfAll(units) \cup KeysOf(u.ops)
         /\ AtomsOfAll(Append(units, u)) = AtomsOfAll(units) \cup AtomsOfOps(u.ops)
<1> DEFINE t == Append(units, u)
           n == Len(units)
<1>1. t \in Seq(UnitsOf(S)) /\ Len(t) = n + 1 /\ n \in Nat
  OBVIOUS
<1>2. t[n + 1] = u /\ \A i \in 1 .. n : t[i] = units[i]
  OBVIOUS
<1> HIDE DEF t, n
<1>3. 1 .. Len(t) = (1 .. n) \cup {n + 1}
  BY <1>1
<1>4. KeysOfAll(t) = KeysOfAll(units) \cup KeysOf(u.ops)
  <2>1. KeysOfAll(t) = UNION {KeysOf(t[i].ops) : i \in (1 .. n) \cup {n + 1}}
    BY <1>3 DEF KeysOfAll, KeysInAll
  <2>2. KeysOfAll(units) = UNION {KeysOf(units[i].ops) : i \in 1 .. n}
    BY DEF KeysOfAll, KeysInAll, n
  <2> QED BY <1>2, <2>1, <2>2
<1>5. AtomsOfAll(t) = AtomsOfAll(units) \cup AtomsOfOps(u.ops)
  <2>1. AtomsOfAll(t) = UNION {AtomsOfOps(t[i].ops) : i \in (1 .. n) \cup {n + 1}}
    BY <1>3 DEF AtomsOfAll
  <2>2. AtomsOfAll(units) = UNION {AtomsOfOps(units[i].ops) : i \in 1 .. n}
    BY DEF AtomsOfAll, n
  <2> QED BY <1>2, <2>1, <2>2
<1>6. ASSUME NEW i \in 1 .. Len(t)
      PROVE  OnceOnly(t[i].ops)
  BY <1>2, <1>3 DEF OnceInAll, n
<1>7. \A i \in 1 .. n : KeysOf(t[i].ops) \cap KeysOf(u.ops) = {}
  <2>1. \A i \in 1 .. n : KeysOf(units[i].ops) \subseteq KeysOfAll(units)
    BY Zenon DEF KeysOfAll, KeysInAll, n
  <2> QED BY <1>2, <2>1
<1>8. ASSUME NEW i \in 1 .. Len(t), NEW j \in 1 .. Len(t), KeysOf(t[i].ops) \cap KeysOf(t[j].ops) # {}
      PROVE  i = j
  <2>1. CASE i \in 1 .. n /\ j \in 1 .. n
    BY <1>2, <1>8, <2>1 DEF OnceInAll, n
  <2>2. CASE i = n + 1 \/ j = n + 1
    BY <1>2, <1>3, <1>7, <1>8, <2>2
  <2> QED BY <1>3, <2>1, <2>2
<1> QED BY <1>4, <1>5, <1>6, <1>8 DEF OnceInAll, t

Collects(S) == [had : Hads, units : Seq(UnitsOf(S))]

(* w has the first k copies, and took of them each atom once.              *)
CollectedOf(w, copies, k) ==
  /\ HadKeys(w.had) = KeysInAll(copies, k)
  /\ KeysOfAll(w.units) = KeysInAll(copies, k)
  /\ OnceInAll(w.units)
  /\ AtomsOfAll(w.units) \subseteq AtomsOfAll(copies)

(* After one more copy collect has the copies so far, and its units have   *)
(* each of their atoms once (merge.go collect, its outer loop).            *)
LEMMA TakeChangeFollows ==
  ASSUME NEW S, NEW copies \in Seq(S), \A c \in S : c.ops \in Seq(Ops), NEW k \in 1 .. Len(copies),
         NEW w \in Collects(S)
  PROVE  /\ TakeChange(w, copies[k]) \in Collects(S)
         /\ CollectedOf(w, copies, k - 1) => CollectedOf(TakeChange(w, copies[k]), copies, k)
<1> DEFINE c == copies[k]
           v == TakeChange(w, c)
<1>1. c \in S /\ c.ops \in Seq(Ops)
  OBVIOUS
<1>2. w.had \in Hads /\ w.units \in Seq(UnitsOf(S))
  BY DEF Collects
<1>3. PICK t \in Takes :
        /\ TakenOf(t, w.had, c.ops, Len(c.ops))
        /\ v = [had |-> t.had, units |-> IF t.fresh = <<>> THEN w.units
                                         ELSE Append(w.units, [of |-> c, ops |-> t.fresh])]
  BY <1>1, <1>2, TakeChangeTakes
<1> HIDE DEF v
<1> DEFINE u == [of |-> c, ops |-> t.fresh]
<1>4. t.had \in Hads /\ t.fresh \in Seq(Ops)
  BY DEF Takes
<1>5. u \in UnitsOf(S) /\ u.ops = t.fresh
  BY <1>1, <1>4 DEF UnitsOf
<1>6. v.had = t.had /\ v.units = IF t.fresh = <<>> THEN w.units ELSE Append(w.units, u)
  BY <1>3
<1> HIDE DEF u
<1>7. v \in Collects(S)
  <2>1. v.units \in Seq(UnitsOf(S))
    BY <1>2, <1>5, <1>6
  <2>2. v = [had |-> v.had, units |-> v.units]
    BY <1>3
  <2> QED BY <1>4, <1>6, <2>1, <2>2 DEF Collects
<1>8. ASSUME CollectedOf(w, copies, k - 1)
      PROVE  CollectedOf(v, copies, k)
  <2>1. /\ HadKeys(v.had) = HadKeys(w.had) \cup KeysOf(c.ops)
        /\ KeysOf(t.fresh) = KeysOf(c.ops) \ HadKeys(w.had)
        /\ OnceOnly(t.fresh) /\ AtomsOfOps(t.fresh) \subseteq AtomsOfOps(c.ops)
    BY <1>3, <1>6 DEF TakenOf, KeysOf
  <2>2. KeysInAll(copies, k) = KeysInAll(copies, k - 1) \cup KeysOf(c.ops)
    <3>1. 1 .. k = (1 .. k - 1) \cup {k}
      OBVIOUS
    <3> QED BY <3>1 DEF KeysInAll
  <2>3. /\ HadKeys(w.had) = KeysInAll(copies, k - 1) /\ KeysOfAll(w.units) = KeysInAll(copies, k - 1)
        /\ OnceInAll(w.units) /\ AtomsOfAll(w.units) \subseteq AtomsOfAll(copies)
    BY <1>8 DEF CollectedOf
  <2>4. HadKeys(v.had) = KeysInAll(copies, k)
    BY <2>1, <2>2, <2>3
  <2>5. CASE t.fresh = <<>>
    <3>1. v.units = w.units
      BY <1>6, <2>5
    <3>2. KeysOf(t.fresh) = {}
      <4>1. \A i : ~(i \in 1 .. Len(<<>>))
        OBVIOUS
      <4> QED BY <2>5, <4>1 DEF KeysOf, KeysIn
    <3>3. KeysOfAll(v.units) = KeysInAll(copies, k)
      BY <2>1, <2>2, <2>3, <3>1, <3>2
    <3> QED BY <2>3, <2>4, <3>1, <3>3 DEF CollectedOf
  <2>6. CASE t.fresh # <<>>
    <3>1. v.units = Append(w.units, u)
      BY <1>6, <2>6
    <3>2. KeysOf(u.ops) \cap KeysOfAll(w.units) = {}
      BY <1>5, <2>1, <2>3
    <3>3. /\ OnceInAll(v.units) /\ KeysOfAll(v.units) = KeysOfAll(w.units) \cup KeysOf(u.ops)
          /\ AtomsOfAll(v.units) = AtomsOfAll(w.units) \cup AtomsOfOps(u.ops)
      BY <1>2, <1>5, <2>1, <2>3, <3>1, <3>2, UnitAdded
    <3>4. KeysOfAll(v.units) = KeysInAll(copies, k)
      BY <1>5, <2>1, <2>2, <2>3, <3>3
    <3>5. AtomsOfOps(c.ops) \subseteq AtomsOfAll(copies)
      BY DEF AtomsOfAll
    <3>6. AtomsOfAll(v.units) \subseteq AtomsOfAll(copies)
      BY <1>5, <2>1, <2>3, <3>3, <3>5
    <3> QED BY <2>4, <3>3, <3>4, <3>6 DEF CollectedOf
  <2> QED BY <2>5, <2>6
<1> QED BY <1>7, <1>8 DEF v
CollectWalk(f, copies) ==
  f = [k \in 0 .. Len(copies) |->
         IF k = 0 THEN [had |-> [key \in Docs \X {"ins", "del"} |-> <<>>], units |-> <<>>]
         ELSE TakeChange(f[k - 1], copies[k])]

(* The units of collect have the atoms of the copies, each in one op, and  *)
(* say of it what a copy does.                                             *)
LEMMA UnitsCollected ==
  ASSUME NEW S, NEW copies \in Seq(S), \A c \in S : c.ops \in Seq(Ops)
  PROVE  /\ Units(copies) \in Seq(UnitsOf(S))
         /\ OnceInAll(Units(copies))
         /\ KeysOfAll(Units(copies)) = KeysOfAll(copies)
         /\ AtomsOfAll(Units(copies)) \subseteq AtomsOfAll(copies)
<1> DEFINE n == Len(copies)
           a == [had |-> [key \in Docs \X {"ins", "del"} |-> <<>>], units |-> <<>>]
           W == Collects(S)
           F == [x \in W \X (1 .. n) |-> TakeChange(x[1], copies[x[2]])]
           g == CHOOSE f : CollectWalk(f, copies)
<1>1. n \in Nat
  OBVIOUS
<1>2. a \in W /\ CollectedOf(a, copies, 0)
  <2> DEFINE had == [key \in Docs \X {"ins", "del"} |-> <<>>]
  <2>1. \A i : ~(i \in 1 .. Len(<<>>))
    OBVIOUS
  <2>2. Apart(<<>>) /\ \A m : ~Has(<<>>, m)
    BY <2>1 DEF Apart, Has, HasIn
  <2>3. <<>> \in Seq(Pairs)
    OBVIOUS
  <2>4. had \in Hads /\ \A key \in Docs \X Kinds : had[key] = <<>>
    BY <2>2, <2>3 DEF Hads, Kinds
  <2>5. a.had = had /\ a.units = <<>>
    OBVIOUS
  <2>6. <<>> \in Seq(UnitsOf(S))
    OBVIOUS
  <2>7. a = [had |-> had, units |-> <<>>]
    OBVIOUS
  <2> HIDE DEF had, a
  <2>8. HadKeys(had) = {}
    <3> SUFFICES ASSUME NEW x \in Kinds \X (Docs \X Int) PROVE ~Has(had[<<x[2][1], x[1]>>], x[2][2])
      BY DEF HadKeys
    <3>1. <<x[2][1], x[1]>> \in Docs \X Kinds
      OBVIOUS
    <3> QED BY <2>2, <2>4, <3>1
  <2>9. KeysInAll(copies, 0) = {}
    BY DEF KeysInAll
  <2>10. KeysOfAll(<<>>) = {} /\ AtomsOfAll(<<>>) = {} /\ OnceInAll(<<>>)
    BY <2>1 DEF KeysOfAll, KeysInAll, AtomsOfAll, OnceInAll
  <2> QED BY <2>4, <2>5, <2>6, <2>7, <2>8, <2>9, <2>10 DEF Collects, CollectedOf
<1>3. \A w \in W, k \in 1 .. n : TakeChange(w, copies[k]) \in W
  BY TakeChangeFollows
<1>4. F \in [W \X (1 .. n) -> W]
  <2> SUFFICES ASSUME NEW x \in W \X (1 .. n) PROVE TakeChange(x[1], copies[x[2]]) \in W
    OBVIOUS
  <2> QED BY <1>3
<1>5. \A w \in W, k \in 1 .. n : F[<<w, k>>] = TakeChange(w, copies[k])
  OBVIOUS
<1>6. Units(copies) = g[n].units
  BY DEF Units, CollectWalk
<1> HIDE DEF n, a, F, W
<1>7. PICK f \in [0 .. n -> W] : IsWalk(f, a, F, n)
  BY <1>1, <1>2, <1>4, WalkExists
<1>8. f[0] = a /\ \A k \in 1 .. n : f[k] = TakeChange(f[k - 1], copies[k])
  <2>1. \A k \in 1 .. n : f[k - 1] \in W
    BY <1>1, <1>7
  <2> QED BY <1>5, <1>7, <2>1 DEF IsWalk
<1>9. CollectWalk(f, copies)
  <2>1. \A k \in 0 .. n : f[k] = IF k = 0 THEN a ELSE TakeChange(f[k - 1], copies[k])
    BY <1>1, <1>8
  <2>2. f = [k \in 0 .. n |-> IF k = 0 THEN a ELSE TakeChange(f[k - 1], copies[k])]
    BY <1>7, <2>1
  <2> QED BY <2>2 DEF CollectWalk, n, a
<1>10. CollectWalk(g, copies)
  BY <1>9
<1> HIDE DEF g
<1>11. \A k \in 0 .. n : g[k] = IF k = 0 THEN a ELSE TakeChange(g[k - 1], copies[k])
  BY <1>10 DEF CollectWalk, n, a
<1>12. g[0] = a /\ \A k \in 1 .. n : g[k] = TakeChange(g[k - 1], copies[k])
  <2>1. 0 \in 0 .. n /\ \A k \in 1 .. n : k \in 0 .. n /\ k # 0
    BY <1>1
  <2> QED BY <1>11, <2>1
<1>13. g \in [0 .. n -> W]
  <2>1. IsMapUpTo(g, n)
    BY <1>10 DEF CollectWalk, IsMapUpTo, n, a
  <2>2. WalksIn(W, g, a, F, n)
    BY <1>5, <1>12 DEF WalksIn
  <2>3. n \in Nat /\ a \in W
    BY <1>1, <1>2
  <2> QED BY <1>4, <2>1, <2>2, <2>3, WalkTyped
<1>14. CollectedOf(g[n], copies, n)
  <2> DEFINE T == {k \in 0 .. n : CollectedOf(g[k], copies, k)}
  <2>1. 0 \in T
    BY <1>1, <1>2, <1>12
  <2>2. ASSUME NEW k \in 1 .. n, k - 1 \in T PROVE k \in T
    <3>1. CollectedOf(g[k - 1], copies, k - 1) /\ g[k - 1] \in Collects(S) /\ k \in 0 .. n
      BY <1>1, <1>13, <2>2 DEF W
    <3>2. k \in 1 .. Len(copies)
      BY DEF n
    <3>3. CollectedOf(TakeChange(g[k - 1], copies[k]), copies, k)
      BY <3>1, <3>2, TakeChangeFollows
    <3> QED BY <1>12, <3>1, <3>3
  <2> HIDE DEF T
  <2>3. n \in Nat
    BY <1>1
  <2>4. \A k \in 0 .. n : k \in T
    BY <2>1, <2>2, <2>3, UpTo
  <2>5. n \in 0 .. n
    BY <2>3
  <2> QED BY <2>4, <2>5 DEF T
<1>15. g[n].units \in Seq(UnitsOf(S))
  BY <1>1, <1>13 DEF W, Collects
<1> QED BY <1>6, <1>14, <1>15 DEF CollectedOf, KeysOfAll, n

-----------------------------------------------------------------------------
(* Each id once.                                                           *)

(* The ids of a change are those of its ops.                               *)
LEMMA RowHasItsIds ==
  ASSUME NEW c, IsRow(c)
  PROVE  IdsIn(c) = UNION {OpIds(c.ops[i]) : i \in 1 .. Len(c.ops)}
<1> DEFINE ops == c.ops
           n == Len(ops)
           p == ops[1].id[1]
           ids(k) == UNION {OpIds(ops[i]) : i \in 1 .. k}
           top(k) == ops[k].id[2] + ops[k].len
           Row(k) == /\ ops[k].id[1] = p /\ c.start <= ops[k].id[2]
                     /\ ids(k) = {p} \X (c.start .. top(k) - 1)
           S == {k \in 0 .. n : k = 0 \/ Row(k)}
<1>1. ops \in Seq(Ops) /\ n \in Nat \ {0} /\ c.start = ops[1].id[2]
  <2>1. ops \in Seq(Ops) /\ ops # <<>> /\ c.start = ops[1].id[2]
    BY DEF IsRow
  <2> QED BY <2>1
<1>2. \A k \in 1 .. n : ops[k].id[2] \in Nat /\ ops[k].len \in Nat \ {0}
  <2> SUFFICES ASSUME NEW k \in 1 .. n PROVE ops[k].id[2] \in Nat /\ ops[k].len \in Nat \ {0}
    OBVIOUS
  <2>1. ops[k] \in Ops
    BY <1>1
  <2> QED BY <2>1, OpFields
<1>3. \A k \in 2 .. n : ops[k].id = <<ops[k - 1].id[1], ops[k - 1].id[2] + ops[k - 1].len>>
  BY DEF IsRow, After
<1> HIDE DEF ops, n, p
<1>4. \A k \in 1 .. n : OpIds(ops[k]) = {ops[k].id[1]} \X (ops[k].id[2] .. top(k) - 1)
  <2> SUFFICES ASSUME NEW k \in 1 .. n
               PROVE  ops[k].id[2] + (ops[k].len - 1) = (ops[k].id[2] + ops[k].len) - 1
    BY DEF OpIds
  <2> QED BY <1>2
<1>5. \A k \in 1 .. n : top(k) \in Nat /\ ops[k].id[2] < top(k)
  BY <1>2
<1> HIDE DEF top
<1>6. ASSUME NEW k \in 1 .. n, k - 1 \in S PROVE k \in S
  <2>1. ids(k) = ids(k - 1) \cup OpIds(ops[k])
    <3>1. 1 .. k = (1 .. k - 1) \cup {k}
      OBVIOUS
    <3> QED BY <3>1
  <2> HIDE DEF ids
  <2>2. CASE k = 1
    <3>1. ids(0) = {}
      BY DEF ids
    <3>2. ids(1) = {p} \X (c.start .. top(1) - 1)
      BY <1>1, <1>4, <2>1, <2>2, <3>1 DEF p
    <3>3. Row(1)
      <4>1. c.start \in Nat
        BY <1>1, <1>2, <2>2
      <4> QED BY <1>1, <3>2, <4>1 DEF p
    <3> QED BY <2>2, <3>3
  <2>3. CASE k # 1
    <3>1. k - 1 \in 1 .. n /\ k \in 2 .. n
      BY <1>1, <2>3
    <3>2. Row(k - 1)
      BY <1>6, <3>1
    <3>3. ops[k].id[1] = p /\ ops[k].id[2] = top(k - 1)
      BY <1>3, <3>1, <3>2 DEF top
    <3>4. c.start \in Int /\ top(k - 1) \in Nat /\ top(k) \in Nat /\ c.start < top(k - 1) /\ top(k - 1) < top(k)
      <4>1. c.start \in Nat
        BY <1>1, <1>2
      <4>2. ops[k - 1].id[2] \in Nat /\ c.start <= ops[k - 1].id[2] /\ ops[k - 1].id[2] < top(k - 1)
        BY <1>2, <1>5, <3>1, <3>2
      <4> QED BY <1>5, <3>1, <3>3, <4>1, <4>2
    <3>5. (c.start .. top(k - 1) - 1) \cup (top(k - 1) .. top(k) - 1) = c.start .. top(k) - 1
      BY <3>4
    <3>6. ids(k) = ({p} \X (c.start .. top(k - 1) - 1)) \cup ({p} \X (top(k - 1) .. top(k) - 1))
      BY <1>4, <2>1, <3>1, <3>2, <3>3
    <3>7. ids(k) = {p} \X (c.start .. top(k) - 1)
      BY <3>5, <3>6
    <3>8. Row(k)
      BY <3>3, <3>4, <3>7
    <3> QED BY <3>8
  <2> QED BY <2>2, <2>3
<1>7. 0 \in S /\ n \in Nat
  BY <1>1
<1>8. n \in S
  <2> HIDE DEF S
  <2>1. \A k \in 0 .. n : k \in S
    BY <1>6, <1>7, UpTo
  <2> QED BY <1>1, <2>1
<1>9. ids(n) = {p} \X (c.start .. top(n) - 1)
  BY <1>1, <1>8
<1>10. PeerOfChange(c) = p /\ EndOf(c) = top(n)
  BY DEF PeerOfChange, EndOf, Last, After, p, ops, n, top
<1>11. IdsIn(c) = {p} \X (c.start .. top(n) - 1)
  BY <1>10 DEF IdsIn
<1> QED BY <1>9, <1>11 DEF ops, n

(* The atoms of a list of changes, counted by position or as a set, are    *)
(* the same.                                                               *)
LEMMA AtomsOfSequence ==
  ASSUME NEW S, NEW cs \in Seq(S), \A c \in S : c.ops \in Seq(Ops)
  PROVE  AtomsOf(ToSet(cs)) = AtomsOfAll(cs)
<1>1. \A c \in S : UNION {AtomsIn(op) : op \in ToSet(c.ops)} = AtomsOfOps(c.ops)
  <2> SUFFICES ASSUME NEW c \in S
               PROVE  UNION {AtomsIn(op) : op \in ToSet(c.ops)} = AtomsOfOps(c.ops)
    OBVIOUS
  <2>1. DOMAIN c.ops = 1 .. Len(c.ops)
    OBVIOUS
  <2> QED BY <2>1 DEF ToSet, AtomsOfOps
<1>2. DOMAIN cs = 1 .. Len(cs) /\ \A i \in 1 .. Len(cs) : cs[i] \in S
  OBVIOUS
<1>3. AtomsOf(ToSet(cs)) = UNION {AtomsOfOps(c.ops) : c \in ToSet(cs)}
  <2>1. ToSet(cs) \subseteq S
    BY <1>2 DEF ToSet
  <2> QED BY <1>1, <2>1 DEF AtomsOf
<1> QED BY <1>2, <1>3 DEF ToSet, AtomsOfAll

(* The ops with an atom are those that have its id.                        *)
LEMMA AtomOfId ==
  ASSUME NEW op \in Ops, NEW id \in OpIds(op)
  PROVE  \E x \in AtomsIn(op) : x.id = id /\ x.kind = op.kind
<1>1. op.id[2] \in Nat /\ op.len \in Nat \ {0}
  BY OpFields
<1>2. PICK n \in op.id[2] .. op.id[2] + op.len - 1 : id = <<op.id[1], n>>
  BY DEF OpIds
<1> DEFINE k == n - op.id[2]
           x == Clip(op, k, 1)
<1>3. k \in Nat /\ k + 1 <= op.len /\ op.id[2] + k = n /\ 1 \in Nat \ {0}
  BY <1>1
<1>4. Atom(op, n).id = x.id /\ Atom(op, n).kind = x.kind
  BY DEF Atom
<1> HIDE DEF k
<1>5. x.id = <<op.id[1], op.id[2] + k>> /\ x.kind = op.kind
  BY <1>3, ClipFields
<1>6. Atom(op, n) \in AtomsIn(op)
  BY DEF AtomsIn
<1> HIDE DEF x
<1> QED BY <1>2, <1>3, <1>4, <1>5, <1>6

(* collect takes each atom of the copies once (merge.go collect, uncovered, *)
(* addRange, clipOp): whatever the copies a reader has, overlapping, cut   *)
(* or repeated, in any number and order, if the ops of each are in a row   *)
(* and they agree on what an id says, then each id of theirs is in one op  *)
(* of one unit, and that op says of it what the copies say.                *)
THEOREM UnitsTakeOnce ==
  ASSUME NEW S, NEW copies \in Seq(S), AreCopies(copies)
  PROVE  TakesOnce(Units(copies), copies)
<1> DEFINE T == ToSet(copies)
           units == Units(copies)
<1>1. copies \in Seq(T) /\ DOMAIN copies = 1 .. Len(copies) /\ \A i \in 1 .. Len(copies) : copies[i] \in T
  BY DEF ToSet
<1>2. \A c \in T : IsRow(c) /\ c.ops \in Seq(Ops)
  BY DEF AreCopies, IsRow
<1> HIDE DEF T
<1>3. /\ units \in Seq(UnitsOf(T)) /\ OnceInAll(units) /\ KeysOfAll(units) = KeysOfAll(copies)
      /\ AtomsOfAll(units) \subseteq AtomsOfAll(copies)
  BY <1>1, <1>2, UnitsCollected
<1> HIDE DEF units
<1>4. DOMAIN units = 1 .. Len(units) /\ \A i \in 1 .. Len(units) : units[i] \in UnitsOf(T) /\ units[i].ops \in Seq(Ops)
  <2>1. \A u \in UnitsOf(T) : u.ops \in Seq(Ops)
    BY DEF UnitsOf
  <2> QED BY <1>3, <2>1
<1>5. AtomsOf(ToSet(units)) = AtomsOfAll(units) /\ AtomsOf(ToSet(copies)) = AtomsOfAll(copies)
  <2>1. \A u \in UnitsOf(T) : u.ops \in Seq(Ops)
    BY DEF UnitsOf
  <2> QED BY <1>1, <1>2, <1>3, <2>1, AtomsOfSequence
<1> DEFINE places == UNION {{i} \X DOMAIN units[i].ops : i \in DOMAIN units}
           at(x) == units[x[1]].ops[x[2]]
<1>6. \A x : x \in places <=> \E i \in 1 .. Len(units) : \E j \in 1 .. Len(units[i].ops) : x = <<i, j>>
  <2>1. \A i \in 1 .. Len(units) : DOMAIN units[i].ops = 1 .. Len(units[i].ops)
    BY <1>4
  <2> QED BY <1>4, <2>1
<1>7. \A x \in places : at(x) \in Ops /\ x[1] \in 1 .. Len(units) /\ x[2] \in 1 .. Len(units[x[1]].ops) /\ x = <<x[1], x[2]>>
  BY <1>4, <1>6
<1>8. \A x \in places : Keys(at(x)) \subseteq KeysOf(units[x[1]].ops)
  BY <1>7 DEF KeysOf, KeysIn
<1>9. UNION {OpIds(at(x)) : x \in places} = AllIds(copies)
  <2> HIDE DEF places
  <2>1. ASSUME NEW id
        PROVE  (\E x \in places : id \in OpIds(at(x))) <=> \E kind : <<kind, id>> \in KeysOfAll(units)
    <3>1. ASSUME NEW x \in places, id \in OpIds(at(x))
          PROVE  \E kind : <<kind, id>> \in KeysOfAll(units)
      <4>1. <<at(x).kind, id>> \in Keys(at(x))
        BY <3>1 DEF Keys
      <4>2. <<at(x).kind, id>> \in KeysOf(units[x[1]].ops) /\ x[1] \in 1 .. Len(units)
        BY <1>7, <1>8, <4>1
      <4> QED BY <4>2 DEF KeysOfAll, KeysInAll
    <3>2. ASSUME NEW kind, <<kind, id>> \in KeysOfAll(units)
          PROVE  \E x \in places : id \in OpIds(at(x))
      <4>1. PICK i \in 1 .. Len(units) : <<kind, id>> \in KeysOf(units[i].ops)
        BY <3>2 DEF KeysOfAll, KeysInAll
      <4>2. PICK j \in 1 .. Len(units[i].ops) : <<kind, id>> \in Keys(units[i].ops[j])
        BY <4>1 DEF KeysOf, KeysIn
      <4>3. <<i, j>> \in places /\ at(<<i, j>>) = units[i].ops[j]
        BY <1>6
      <4>4. id \in OpIds(at(<<i, j>>))
        BY <4>2, <4>3 DEF Keys
      <4> QED BY <4>3, <4>4
    <3> QED BY <3>1, <3>2
  <2>2. ASSUME NEW id
        PROVE  id \in AllIds(copies) <=> \E kind : <<kind, id>> \in KeysOfAll(copies)
    <3>1. \A i \in 1 .. Len(copies) :
            id \in IdsIn(copies[i]) <=> \E kind : <<kind, id>> \in KeysOf(copies[i].ops)
      <4> SUFFICES ASSUME NEW i \in 1 .. Len(copies)
                   PROVE  id \in IdsIn(copies[i]) <=> \E kind : <<kind, id>> \in KeysOf(copies[i].ops)
        OBVIOUS
      <4>1. IdsIn(copies[i]) = UNION {OpIds(copies[i].ops[j]) : j \in 1 .. Len(copies[i].ops)}
        BY <1>1, <1>2, RowHasItsIds
      <4>2. ASSUME NEW j \in 1 .. Len(copies[i].ops), id \in OpIds(copies[i].ops[j])
            PROVE  <<copies[i].ops[j].kind, id>> \in KeysOf(copies[i].ops)
        <5>1. <<copies[i].ops[j].kind, id>> \in Keys(copies[i].ops[j])
          BY <4>2 DEF Keys
        <5> QED BY <5>1 DEF KeysOf, KeysIn
      <4>3. ASSUME NEW kind, <<kind, id>> \in KeysOf(copies[i].ops)
            PROVE  \E j \in 1 .. Len(copies[i].ops) : id \in OpIds(copies[i].ops[j])
        <5>1. PICK j \in 1 .. Len(copies[i].ops) : <<kind, id>> \in Keys(copies[i].ops[j])
          BY <4>3 DEF KeysOf, KeysIn
        <5> QED BY <5>1 DEF Keys
      <4> QED BY <4>1, <4>2, <4>3
    <3>2. id \in AllIds(copies) <=> \E i \in 1 .. Len(copies) : id \in IdsIn(copies[i])
      BY <1>1 DEF AllIds, ToSet
    <3> QED BY <3>1, <3>2 DEF KeysOfAll, KeysInAll
  <2> QED BY <1>3, <2>1, <2>2
<1>10. ASSUME NEW x \in places, NEW y \in places, NEW id \in OpIds(at(x)) \cap OpIds(at(y))
       PROVE  x = y
  <2>1. at(x).kind = at(y).kind
    <3>1. \A z \in places : AtomsIn(at(z)) \subseteq AtomsOfAll(copies)
      <4> SUFFICES ASSUME NEW z \in places PROVE AtomsIn(at(z)) \subseteq AtomsOfAll(units)
        BY <1>3
      <4>1. AtomsIn(at(z)) \subseteq AtomsOfOps(units[z[1]].ops)
        BY <1>7 DEF AtomsOfOps
      <4>2. AtomsOfOps(units[z[1]].ops) \subseteq AtomsOfAll(units)
        BY <1>7 DEF AtomsOfAll
      <4> QED BY <4>1, <4>2
    <3>2. PICK a \in AtomsIn(at(x)) : a.id = id /\ a.kind = at(x).kind
      BY <1>7, AtomOfId
    <3>3. PICK b \in AtomsIn(at(y)) : b.id = id /\ b.kind = at(y).kind
      BY <1>7, AtomOfId
    <3>4. a \in AtomsOfAll(copies) /\ b \in AtomsOfAll(copies)
      BY <3>1
    <3>5. a = b
      BY <1>5, <3>2, <3>3, <3>4 DEF AreCopies
    <3> QED BY <3>2, <3>3, <3>5
  <2> DEFINE key == <<at(x).kind, id>>
  <2>2. key \in Keys(at(x)) /\ key \in Keys(at(y))
    BY <2>1 DEF Keys
  <2> HIDE DEF key
  <2>3. key \in KeysOf(units[x[1]].ops) /\ key \in KeysOf(units[y[1]].ops)
    BY <1>8, <2>2
  <2>4. x[1] = y[1]
    BY <1>3, <1>7, <2>3 DEF OnceInAll
  <2>5. x[2] = y[2]
    <3>1. OnceOnly(units[x[1]].ops)
      BY <1>3, <1>7 DEF OnceInAll
    <3> QED BY <1>7, <2>2, <2>4, <3>1 DEF OnceOnly
  <2> QED BY <1>7, <2>4, <2>5
<1>11. TakesOnce(units, copies)
  BY <1>3, <1>5, <1>9, <1>10 DEF TakesOnce
<1> QED BY <1>11 DEF units

=============================================================================
