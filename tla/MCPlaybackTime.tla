--------------------------- MODULE MCPlaybackTime ---------------------------
(***************************************************************************)
(* An instance of PlaybackTime for TLC.                                    *)
(***************************************************************************)
EXTENDS PlaybackTime

CONSTANTS audio, video

TwoStreams == {audio, video}
=============================================================================
