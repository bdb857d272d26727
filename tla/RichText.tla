------------------------------ MODULE RichText ------------------------------
(***************************************************************************)
(* Documents that edit one Text with styles and import each other's        *)
(* changes (loro/handles.go, loro/richtext.go, loro/delta.go).             *)
(*                                                                         *)
(* A mark is two ops, each an anchor among the characters: positions that  *)
(* users give count characters, those of ops count anchors too.  Text is   *)
(* styled between the anchors of a mark.  A style has a key and a value;   *)
(* asked holds the characters a user saw with their attributes.            *)
(*                                                                         *)
(* A definition whose comment starts with "Variant:" is not the code.      *)
(***************************************************************************)
EXTENDS SharedSeq

CONSTANTS
  TextStyles, \* Document.textStyles: for each document, how its keys expand
  Values,     \* bound: what a key is marked with
  KnownMarks, \* bound: <<start, end>> of what is marked from the start; none if equal
  MaxInsert   \* bound: the characters that one call inserts

ASSUME StylesAssumption ==
  /\ ~Movable
  /\ \A d \in Docs : \A key \in DOMAIN TextStyles[d] :
       TextStyles[d][key] \in {"after", "before", "both", "none"}

Null == "null"   \* what an unmark writes
Off == "false"   \* the value false

-----------------------------------------------------------------------------
(* Styles.                                                                 *)

IsAnchor(n) == n.elem # None

IsStart(n) == n.id = n.elem

Live(s) == SelectSeq(s.nodes, IsLive)

(* The indexes of the characters among the live nodes.                     *)
Chars(live) == SelectSeq([i \in DOMAIN live |-> i], LAMBDA i : ~IsAnchor(live[i]))

(* completeMarks: the marks with both anchors there, the start first, that *)
(* lie over the i-th live node, their anchors included.                    *)
MarksOver(live, i) ==
  {live[a].id : a \in {a \in 1 .. i : IsAnchor(live[a]) /\ IsStart(live[a])
                         /\ \E b \in i .. Len(live) : a < b /\ live[b].id = After(live[a].id, 1)}}

(* Of marks of one key the latest decides.                                 *)
Decides(s, m, others) ==
  \A x \in others : x = m \/ Later(WriterOf(s.elems[m]), WriterOf(s.elems[x]))

(* The value of each key that one of these marks has.                      *)
StylesOf(s, marks) ==
  LET of(key) == {m \in marks : s.elems[m].key = key}
  IN  [key \in {s.elems[m].key : m \in marks} |->
         s.elems[CHOOSE m \in of(key) : Decides(s, m, of(key))].value]

(* The attributes: a null value is left out.                               *)
Attributes(styles) == [key \in {k \in DOMAIN styles : styles[k] # Null} |-> styles[key]]

(* delta: the characters with their attributes.                            *)
DeltaOf(s, live) ==
  LET chars == Chars(live)
  IN  [k \in DOMAIN chars |->
         <<live[chars[k]].id, Attributes(StylesOf(s, MarksOver(live, chars[k])))>>]

Delta(s) == DeltaOf(s, Live(s))

(* styleOver: of the live nodes after the first es, up to the ee-th,       *)
(* whether each has the key with this value, and whether any has the key.  *)
StyledAt(s, live, i, key) == key \in DOMAIN StylesOf(s, MarksOver(live, i))

AllStyled(s, live, es, ee, key, value) ==
  /\ es < ee
  /\ \A i \in es + 1 .. ee : /\ StyledAt(s, live, i, key)
                             /\ StylesOf(s, MarksOver(live, i))[key] = value

Present(s, live, es, ee, key) == \E i \in es + 1 .. ee : StyledAt(s, live, i, key)

-----------------------------------------------------------------------------
(* Positions.                                                              *)

(* ExpandType.reverse, for an unmark, and the two flags of a mark.         *)
Reversed(expand) == CASE expand = "both" -> "none" [] expand = "none" -> "both" [] OTHER -> expand

ExpandOf(d, key, value) ==
  IF value = Null THEN Reversed(TextStyles[d][key]) ELSE TextStyles[d][key]

ExpandsBefore(mark) == mark.expand \in {"before", "both"}
ExpandsAfter(mark) == mark.expand \in {"after", "both"}

(* preferInsertBefore, staysBeforeAnchor: whether new text goes before an  *)
(* anchor, and whether it never goes past it.                              *)
Prefers(s, n) ==
  IF IsStart(n) THEN ~ExpandsBefore(s.elems[n.elem]) ELSE ExpandsAfter(s.elems[n.elem])

StaysBefore(s, n) == (IsStart(n) /\ s.elems[n.elem].value \in {Null, Off}) \/ Prefers(s, n)

(* textInsertIndex: where text goes that is inserted after pos characters, *)
(* past the anchors there up to one it stays before, and back before those *)
(* it prefers to be before.                                                *)
PlaceAmong(s, live, at, last) ==
  LET stays  == {i \in at + 1 .. last : StaysBefore(s, live[i])}
      stop   == CHOOSE i \in stays \cup {last} : \A j \in stays : i <= j
      passed == IF stays = {} THEN last ELSE stop - 1
      back   == {i \in at + 1 .. stop : \A k \in i .. stop : Prefers(s, live[k])}
  IN  IF back = {} THEN passed ELSE (CHOOSE i \in back : \A j \in back : i <= j) - 1

TextInsertIndex(s, live, pos) ==
  LET at == IF pos = 0 THEN 0 ELSE Chars(live)[pos]
      last == CHOOSE i \in at .. Len(live) :
                /\ \A k \in at + 1 .. i : IsAnchor(live[k])
                /\ i = Len(live) \/ ~IsAnchor(live[i + 1])
  IN  PlaceAmong(s, live, at, last)

(* Variant: characters with an anchor between them are one run             *)
(* (StylesAsAsked).                                                        *)
FollowsInIds(r, i, id) == After(r.span.first, r.len) = id

Extends(r, i, id) == r.pos + r.len + 1 = i /\ After(r.span.first, r.len) = id

WithChar(runs, i, id) ==
  IF runs # <<>> /\ Extends(runs[1], i, id)
  THEN [runs EXCEPT ![1].len = @ + 1, ![1].span.len = @ + 1]
  ELSE <<[kind |-> "del", pos |-> i - 1, len |-> 1, span |-> [first |-> id, len |-> 1]]>> \o runs

(* textDeleteRanges: n characters from pos on, in runs that lie together   *)
(* and whose ids follow each other, the rightmost first.                   *)
TextDeletes(live, pos, n) ==
  FoldLeft(LAMBDA runs, i : WithChar(runs, i, live[i].id), <<>>, SubSeq(Chars(live), pos + 1, pos + n))

-----------------------------------------------------------------------------
(* The operations of a Text.                                               *)

(* Mark, and Unmark when value is Null: nothing is done when it is so      *)
(* already.                                                                *)
MarkBetween(d, s, live, es, ee, key, value) ==
  IF \/ AllStyled(s, live, es, ee, key, value)
     \/ value = Null /\ ~Present(s, live, es, ee, key)
  THEN <<>>
  ELSE <<[kind |-> "mark", pos |-> es, end |-> ee + 1, key |-> key, value |-> value,
          expand |-> ExpandOf(d, key, value)],
         [kind |-> "end"]>>

MarkOps(d, s, live, start, end, key, value) ==
  MarkBetween(d, s, live, TextInsertIndex(s, live, start), TextInsertIndex(s, live, end), key, value)

(* The history that documents start with: the first items and, in a Text,  *)
(* what Author has marked of them.                                         *)
MarkedHistory(ops) ==
  FoldLeft(LAMBDA w, op : Applied(w, Author, op, FALSE),
           [h |-> FirstHistory, s |-> Replay(FirstHistory), ix |-> NoIndex], ops).h

RichInit ==
  /\ \E m \in KnownMarks, key \in DOMAIN TextStyles[Author], value \in Values :
       LET s == Replay(FirstHistory)
       IN  Loaded(MarkedHistory(IF m[1] = m[2] THEN <<>>
                                ELSE MarkOps(Author, s, Live(s), m[1], m[2], key, value)))
  /\ asked = [d \in Docs |-> Delta(seq[d])]

Fits(d, n) == EndOfAll(hist[d][d]) + n <= Budget[d]

(* The live nodes between the pos-th character and the next one.           *)
Gap(live, pos) ==
  LET chars == Chars(live)
  IN  {i \in DOMAIN live : /\ pos > 0 => chars[pos] < i
                           /\ pos < Len(chars) => i < chars[pos + 1]}

(* Whether text can go in past all the anchors of a gap that it is to pass *)
(* and before all the others.                                              *)
Agree(s, live, gap) ==
  \A i, j \in gap : i <= j /\ StaysBefore(s, live[i]) => Prefers(s, live[j])

(* What a user expects of text that goes in after pos characters: a mark   *)
(* that begins there styles it if it expands before, one that ends there   *)
(* if it expands after, and so does every mark around it.                  *)
ExpectedStyles(s, live, pos, gap) ==
  LET before(i) == pos > 0 /\ i <= Chars(live)[pos]
  IN  Attributes(StylesOf(s,
        {m \in DOMAIN s.elems : \E i, j \in DOMAIN live :
           /\ live[i].id = m /\ (before(i) \/ (i \in gap /\ ExpandsBefore(s.elems[m])))
           /\ live[j].id = After(m, 1) /\ ~before(j) /\ (j \in gap => ExpandsAfter(s.elems[m]))
           /\ i < j}))

InsertText(d, pos, n) ==
  LET live == Live(seq[d])
      styles == IF Agree(seq[d], live, Gap(live, pos))
                THEN ExpectedStyles(seq[d], live, pos, Gap(live, pos))
                ELSE Delta(seq'[d])[pos + 1][2]
      new == [k \in 1 .. n |-> <<<<d, EndOfAll(hist[d][d]) + k - 1>>, styles>>]
  IN  /\ Fits(d, n)
      /\ Edited(d, <<[kind |-> "ins", pos |-> TextInsertIndex(seq[d], live, pos), len |-> n]>>, FALSE)
      /\ asked' = [asked EXCEPT ![d] = SubSeq(@, 1, pos) \o new \o SubSeq(@, pos + 1, Len(@))]

DeleteText(d, pos, n) ==
  /\ Fits(d, n)
  /\ Edited(d, TextDeletes(Live(seq[d]), pos, n), FALSE)
  /\ asked' = [asked EXCEPT ![d] = SubSeq(@, 1, pos) \o SubSeq(@, pos + n + 1, Len(@))]

MarkText(d, start, end, key, value) ==
  LET styled(a) == IF value = Null THEN [k \in DOMAIN a \ {key} |-> a[k]]
                   ELSE [k \in DOMAIN a \cup {key} |-> IF k = key THEN value ELSE a[k]]
  IN  /\ Edited(d, MarkOps(d, seq[d], Live(seq[d]), start, end, key, value), FALSE)
      /\ asked' = [asked EXCEPT ![d] =
                     [i \in DOMAIN @ |-> IF i \in start + 1 .. end THEN <<@[i][1], styled(@[i][2])>> ELSE @[i]]]

ImportText(d, e, grow) == Take(d, e, grow) /\ asked' = [asked EXCEPT ![d] = Delta(seq'[d])]

EditText(d) ==
  LET n == Len(Delta(seq[d]))
  IN  \/ \E pos \in 0 .. n, k \in 1 .. MaxInsert : InsertText(d, pos, k)
      \/ \E pos \in 0 .. n - 1, k \in 1 .. MaxDelete : pos + k <= n /\ DeleteText(d, pos, k)
      \/ \E start \in 0 .. n - 1, end \in 1 .. n, key \in DOMAIN TextStyles[d], value \in Values \cup {Null} :
           start < end /\ MarkText(d, start, end, key, value)

RichNext ==
  \/ \E d \in Docs : EditText(d)
  \/ \E d, e \in Docs, grow \in Grows : ImportText(d, e, grow)

RichSpec == RichInit /\ [][RichNext]_vars

-----------------------------------------------------------------------------
(* Properties.                                                             *)

(* Every call does to the text its user sees what it was asked to: a mark  *)
(* styles the characters it names and no others, whether or not it makes   *)
(* ops, a deletion takes those it names and leaves the styles of the rest, *)
(* and inserted text takes the styles that spread to where it goes, unless *)
(* the anchors that lie there leave  it no such place (Text.Insert,       *)
(* Delete, Mark, Unmark; the marks skipped as done already).               *)
StylesAsAsked == \A d \in Docs : Delta(seq[d]) = asked[d]
=============================================================================
