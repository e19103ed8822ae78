------------------------------- MODULE MCPool -------------------------------
(***************************************************************************)
(* Small instances of BufferPool: coded frames, to which the buffers that  *)
(* hold their parameters are attached.                                     *)
(***************************************************************************)
EXTENDS BufferPool, TLC

CONSTANTS frames, params, f1, f2, p1, p2, t1, t2, t3, h1, h2, h3

TwoPools == {frames, params}
TwoThreads == {t1, t2}
TwoHolders == {h1, h2}
ThreeHolders == {h1, h2, h3}
FrameAndParameter == {f1, p1}
FrameAndTwoParameters == {f1, p1, p2}
PoolOfBuffers == [x \in Buffers |-> IF x \in {f1, f2} THEN frames ELSE params]
ParametersToFrames == {<<frames, params>>}
NoPool == {}
ParamsPool == {params}
FramesPool == {frames}
EveryoneGets == [p \in TwoPools |-> Threads]
OneGetsEach == [p \in TwoPools |-> IF p = frames THEN {t1} ELSE {t2}]
Blocking == {FALSE}
BothModes == {TRUE, FALSE}

ThreadAndHolderSymmetry == Permutations(Threads) \cup Permutations(Holders)
=============================================================================
