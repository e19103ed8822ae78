----------------------------- MODULE MCStreams -----------------------------
(***************************************************************************)
(* Instances of StreamProcesses for TLC.                                   *)
(***************************************************************************)
EXTENDS StreamProcesses
=============================================================================
