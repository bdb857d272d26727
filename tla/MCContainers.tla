---------------------------- MODULE MCContainers ----------------------------
(* Instances of Containers for TLC.  A scene's budget is a sequence: its   *)
(* d-th entry bounds the ops that document d makes.                        *)
EXTENDS Containers

TwoDocs == {1, 2}

Root(kind) == RootKey(<<"r">>, kind)

Base ==
  [roots |-> {}, taken |-> TRUE, keys |-> {<<"k">>}, kinds |-> {}, plain |-> {},
   ensured |-> {}, copied |-> {}, budget |-> <<3, 1>>]

(* Children of a map, written over and deleted while edited elsewhere.     *)
Maps == [Base EXCEPT !.roots = {Root("Map")}, !.kinds = {"Map"}]

Counters == [Base EXCEPT !.roots = {Root("Map")}, !.kinds = {"Counter"}, !.budget = <<4, 1>>]

Lists == [Base EXCEPT !.roots = {Root("List")}, !.kinds = {"List"}]

Movables == [Base EXCEPT !.roots = {Root("MovableList")}, !.kinds = {"Map"}, !.keys = {}]

Trees == [Base EXCEPT !.roots = {Root("Tree")}, !.plain = {"x"}, !.budget = <<3, 1>>]

(* A map whose name and key hold the characters that names escape.         *)
Odd == RootKey(<<">">>, "Map")
Mergeables ==
  [Base EXCEPT !.roots = {Odd}, !.keys = {<<"\\", ">">>}, !.plain = {"null"}, !.ensured = {"Map", "Counter"},
               !.copied = {Marker(Odd, <<">">>, "Map")}, !.budget = <<3, 1>>]

(* Roots of one name and three kinds, as handles are taken on them.        *)
Named ==
  [Base EXCEPT !.roots = {Root("Map"), Root("List"), Root("Counter")}, !.plain = {"x"}, !.taken = FALSE,
               !.budget = <<1, 1>>]

AllScenes == {Maps, Counters, Lists, Movables, Trees, Mergeables, Named}
=============================================================================
