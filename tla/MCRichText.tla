----------------------------- MODULE MCRichText -----------------------------
(* Instances of RichText for TLC: two keys, which each document expands in *)
(* a way of its own.                                                       *)
EXTENDS RichText

TwoDocs == {1, 2}

Styles ==
  [d \in TwoDocs |-> IF d = 1 THEN [bold |-> "after", link |-> "none"]
                     ELSE [bold |-> "before", link |-> "both"]]

(* Two known characters and a mark on them, then one op and two.           *)
OneAndTwo == <<5, 2>>
Ranges == {<<0, 1>>, <<1, 2>>, <<0, 2>>}
=============================================================================
