------------------------- MODULE MCEvidencePipeline -------------------------
(* A RAC host of two nodes, and two versions of the media.                 *)
EXTENDS EvidencePipelineProperties

TwoNodes     == <<"n1", "n2">>
SecondUnfit  == {<<"n2", 2>>}
PrimaryOnly  == [n \in {"n1", "n2"} |-> IF n = "n1" THEN 1 ELSE 0]
=============================================================================
