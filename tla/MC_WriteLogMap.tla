--------------------------- MODULE MC_WriteLogMap ---------------------------
(* Model-checking instance of WriteLogMap: three log entries over a four-  *)
(* block image, enough for full occlusion, both adjustments and a split,   *)
(* and for an entry to be split and then partly occluded again.            *)
EXTENDS WriteLogMap

CONSTANTS e1, e2, e3

MCLogEntries == {e1, e2, e3}

=============================================================================
