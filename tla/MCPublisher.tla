----------------------------- MODULE MCPublisher -----------------------------
(* Two files: one is edited and put back, the other is deleted and created  *)
(* again with the contents of the first.                                    *)
EXTENDS Publisher

CONSTANTS a, b

MCHistory == <<<<a, Absent>>, <<b, a>>>>
OneHistory == <<<<a, b>>>>
Strict == [incremental |-> TRUE, dev |-> FALSE, floor |-> 1]
Full == [incremental |-> FALSE, dev |-> FALSE, floor |-> 1]
DevCache == [incremental |-> TRUE, dev |-> TRUE, floor |-> 1]
Raised == [incremental |-> TRUE, dev |-> FALSE, floor |-> 3]
AllModes == {Strict, Full, DevCache, Raised}
IncrementalModes == {Strict, DevCache}
===============================================================================
