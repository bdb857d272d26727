------------------------------- MODULE MCRoom -------------------------------
(* Instances of Room for TLC.  Budget is a sequence: its d-th entry is     *)
(* document d's, the items Known from the start counted with Author's.     *)
EXTENDS Room

TwoDocs == {1, 2}
TwoAndOne == <<3, 1>>   \* two ops and one, after one known item

Events == [s \in {"plain", "honest", "other"} |-> IF s = "honest" THEN 3 ELSE 2]
=============================================================================
