----------------------------- MODULE MCReorder ------------------------------
(***************************************************************************)
(* Instances of FrameReorder for TLC.                                      *)
(***************************************************************************)
EXTENDS FrameReorder
=============================================================================
