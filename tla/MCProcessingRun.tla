--------------------------- MODULE MCProcessingRun ---------------------------
(* Small instances of ProcessingRun for TLC. *)
EXTENDS ProcessingRefinement

CONSTANT s1

OneSource == {s1}
OneRank   == {0}
TwoRanks  == {0, 1}
=============================================================================
