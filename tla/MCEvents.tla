------------------------------ MODULE MCEvents ------------------------------
(***************************************************************************)
(* Instances of PlayerEvents for TLC.                                      *)
(***************************************************************************)
EXTENDS PlayerEvents

CONSTANTS s1, s2, g1, w1, k1, k2

OneSignaller  == {s1}
TwoSignallers == {s1, s2}
OneGetter     == {g1}
OneWatcher    == {w1}
TwoKinds      == {k1, k2}
OneAndAll     == {{k1}, {k1, k2}}
=============================================================================
