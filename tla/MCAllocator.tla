---------------------------- MODULE MCAllocator ----------------------------
(***************************************************************************)
(* Small instances of AllocatorSimple: six segments at address 13, *)
(* with a physical boundary at the offset 3.                               *)
(***************************************************************************)
EXTENDS AllocatorSimple

CONSTANTS t1, t2, t3

ThreeThreads == {t1, t2, t3}
Allocating == {t1}
Freeing == {t2}
Deleting == {t3}
TwoFreeing == {t2, t3}
Nobody == {}
SmallSizes == {1, 2, 3}
=============================================================================
