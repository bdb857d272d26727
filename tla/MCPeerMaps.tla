----------------------------- MODULE MCPeerMaps -----------------------------
(* Instances of PeerMaps for TLC.                                          *)
EXTENDS PeerMaps

(* Five probes that start at one bucket, so that some entry is in another  *)
(* group of a small table than its first, and that run over its end.       *)
SixPeers == 1 .. 6
Starts == <<7, 7, 7, 7, 7, 4>>
Tags == <<1, 1, 2, 3, 2, 1>>
CountersOfSix == [p \in SixPeers |-> IF p = 1 THEN {1, 2} ELSE {1}]

(* With groups of four a table of eight has two and fills up; with groups  *)
(* of eight the smallest table is half a group.                            *)
ItemsByGroup == [g \in {4, 8} |-> IF g = 4 THEN 5 ELSE 4]
=============================================================================
