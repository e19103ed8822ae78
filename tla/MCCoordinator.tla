--------------------------- MODULE MCCoordinator ---------------------------
(***************************************************************************)
(* Instances of OutputCoordinator for TLC.                                 *)
(***************************************************************************)
EXTENDS OutputCoordinator

CONSTANTS a1, v1

NoStream   == {}
OneStream  == {v1}
TwoStreams == {a1, v1}
Back         == {-1}
BackAndForth == {-1, 1}
=============================================================================
