------------------------ MODULE MCHistoryRefinement ------------------------
(* Instances of HistoryRefinement for TLC. *)
EXTENDS HistoryRefinement, MCReferenceHistory

=============================================================================
