---------------------------- MODULE MCSharedSeq ----------------------------
(* Instances of SharedSeq for TLC.  Budget is a sequence: its d-th entry   *)
(* is document d's, the items Known from the start counted with Author's.  *)
EXTENDS SharedSeq

TwoDocs == {1, 2}
ThreeDocs == {1, 2, 3}

OneAndTwo == <<3, 2>>    \* one op and two, after two known items
TwoOneOne == <<2, 1, 1>> \* from an empty list
=============================================================================
