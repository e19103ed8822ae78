------------------------------- MODULE MCRing -------------------------------
(***************************************************************************)
(* Instances of RingGeneric for TLC.                                       *)
(***************************************************************************)
EXTENDS RingGeneric

CONSTANTS i1, i2, e1, e2, v1, v2, v3

OneInserter   == {i1}
TwoInserters  == {i1, i2}
OneExtractor  == {e1}
TwoExtractors == {e1, e2}
TwoValues     == {v1, v2}
ThreeValues   == {v1, v2, v3}
=============================================================================
