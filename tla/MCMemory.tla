------------------------------- MODULE MCMemory -------------------------------
(***************************************************************************)
(* Small instances of PoolMemory: four or six units of memory, unsigned    *)
(* ints of three bits, up to three buffers.                                *)
(***************************************************************************)
EXTENDS PoolMemory, TLC

CONSTANTS t1, t2, d1, d2, d3

OneThread == {t1}
TwoThreads == {t1, t2}
TwoBuffers == {d1, d2}
ThreeBuffers == {d1, d2, d3}
Nothing == {}
OnlyZero == {0}
ZeroAndTwo == {0, 2}
OneToThree == {1, 2, 3}
OneAndFour == {1, 4}
ZeroAndThree == {0, 3}
ZeroToThree == 0 .. 3
ZeroToFive == 0 .. 5
ZeroToSix == 0 .. 6
Exactly == {FALSE}
Either == {FALSE, TRUE}

BufferSymmetry == Permutations(Buffers)
=============================================================================
