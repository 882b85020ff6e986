------------------------- MODULE MCRetrievalReply -------------------------
(* Instances of RetrievalReply for TLC. *)
EXTENDS RetrievalReply

CONSTANTS h1, h2

\* One harvester with something to report, and one that only starts and ends.
UpToThree == [h \in {h1, h2} |-> IF h = h1 THEN 3 ELSE 2]

=============================================================================
