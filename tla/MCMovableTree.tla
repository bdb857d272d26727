---------------------------- MODULE MCMovableTree ----------------------------
(***************************************************************************)
(* Instances of MovableTree for TLC.                                       *)
(***************************************************************************)
EXTENDS MovableTree

TwoDocs == {1, 2}

(* One document makes two nodes and moves one, or puts one between two of  *)
(* equal index; the other one moves or deletes what it has seen meanwhile. *)
OpsOfTwo == <<3, 1>>
=============================================================================
