------------------------ MODULE Presentation_proofs ------------------------
(***************************************************************************)
(* Proofs about what decides when frames are presented: how native times   *)
(* are translated (PlaybackTime), how the streams of a playback agree on a *)
(* mapping to system time (OutputCoordinator), and the order in which      *)
(* frames leave a stream (FrameReorder).                                   *)
(*                                                                         *)
(* PlaybackTime, for every set of parsers and every range of native times: *)
(* the streams of a playback agree on the wraps, and each moves with its   *)
(* clock.                                                                  *)
(*                                                                         *)
(* OutputCoordinator, for every set of streams and every limit of waits:   *)
(* whoever makes the mapping between playback and system time waited for   *)
(* every stream that is registered, or long enough. The code compares two  *)
(* counters; the proof shows that each counts what it is to count whenever *)
(* the lock is free. A context may be deleted only when its processes are  *)
(* out of it (Prompt), which the code leaves to its callers. From the same *)
(* invariant, no context is deleted under a stream that synchronizes, and  *)
(* whoever awaits a window of an old mapping is woken.                     *)
(*                                                                         *)
(* FrameReorder, for every number of frames, jumps and drains: calls in    *)
(* sequence wait for the frames before them, although frames go out of the *)
(* order in which they were coded, and frames go out in the order in which *)
(* they are displayed.                                                     *)
(***************************************************************************)
EXTENDS PlaybackTime, OutputCoordinator, FrameReorder, FiniteSetTheorems,
        WellFoundedInduction, TLAPS

(* A stream that has a time to share has a time.                           *)
SharesATime == \A s \in Parsers : stage[s] = "share" => used[s] # None

TimeIInv == TimeTypeOK /\ SharesATime /\ StreamsAgree
-----------------------------------------------------------------------------
(* A first time within half of the range of the time shared is given the   *)
(* baseline that differs from its wraps as the shared time's does.         *)
LEMMA NearestAgrees ==
  ASSUME NEW t \in Times, NEW m \in Native, NEW v \in Int, NEW w \in Int,
         w - v \in {-1, 0, 1},
         Apart(w, m, v, t.native) \in 1 - 2 * Quarter .. 2 * Quarter
  PROVE  /\ Nearest(t, m) \in Int
         /\ Nearest(t, m) - w = t.baseline - v
<1> DEFINE n == t.native
           b == t.baseline
<1>1. /\ n \in Int /\ n >= 0 /\ n < 4 * Quarter
      /\ m \in Int /\ m >= 0 /\ m < 4 * Quarter
      /\ b \in Int /\ Quarter \in Nat /\ Quarter > 0
  BY TimeAssumption DEF Times, Native
<1>2. w = v - 1 \/ w = v \/ w = v + 1
  OBVIOUS
<1>3. 4 * Quarter * (w - v) + (m - n) \in 1 - 2 * Quarter .. 2 * Quarter
  BY DEF Apart
<1>4. Nearest(t, m) = b + (IF n - m >= 2 * Quarter THEN 1
                           ELSE IF n - m < -(2 * Quarter) THEN -1 ELSE 0)
  BY DEF Nearest
<1> HIDE DEF n, b
<1>5. CASE w = v - 1
  <2>1. w - v = -1
    BY <1>5
  <2>2. m - n > 2 * Quarter
    BY <1>1, <1>3, <2>1
  <2>. QED
    BY <1>1, <1>4, <1>5, <2>2 DEF b
<1>6. CASE w = v
  <2>1. w - v = 0
    BY <1>6
  <2>2. m - n <= 2 * Quarter /\ n - m < 2 * Quarter
    BY <1>1, <1>3, <2>1
  <2>. QED
    BY <1>1, <1>4, <1>6, <2>2 DEF b
<1>7. CASE w = v + 1
  <2>1. w - v = 1
    BY <1>7
  <2>2. n - m >= 2 * Quarter
    BY <1>1, <1>3, <2>1
  <2>. QED
    BY <1>1, <1>4, <1>7, <2>2 DEF b
<1>. QED
  BY <1>2, <1>5, <1>6, <1>7

(* A time within a quarter of the range of the one before it: the test of  *)
(* the two top bits finds the wrap, if there is one, and its direction.    *)
LEMMA WrappedIsTheWrap ==
  ASSUME NEW n \in Native, NEW m \in Native, NEW v \in Int, NEW w \in Int,
         w - v \in {-1, 0, 1},
         Apart(w, m, v, n) \in -Quarter .. Quarter
  PROVE  Wrapped(n, m) = w - v
<1>1. /\ n \in Int /\ n >= 0 /\ n < 4 * Quarter
      /\ m \in Int /\ m >= 0 /\ m < 4 * Quarter
      /\ Quarter \in Nat /\ Quarter > 0
  BY TimeAssumption DEF Native
<1>2. w - v = -1 \/ w - v = 0 \/ w - v = 1
  OBVIOUS
<1>3. 4 * Quarter * (w - v) + (m - n) \in -Quarter .. Quarter
  BY DEF Apart
<1>5. CASE w - v = -1
  <2>1. m - n >= 3 * Quarter
    BY <1>1, <1>3, <1>5
  <2>. QED
    BY <1>1, <1>5, <2>1 DEF Wrapped, InTopQuarter, InBottomQuarter
<1>6. CASE w - v = 0
  <2>1. m - n <= Quarter /\ n - m <= Quarter
    BY <1>1, <1>3, <1>6
  <2>. QED
    BY <1>1, <1>6, <2>1 DEF Wrapped, InTopQuarter, InBottomQuarter
<1>7. CASE w - v = 1
  <2>1. n - m >= 3 * Quarter
    BY <1>1, <1>3, <1>7
  <2>. QED
    BY <1>1, <1>7, <2>1 DEF Wrapped, InTopQuarter, InBottomQuarter
<1>. QED
  BY <1>2, <1>5, <1>6, <1>7
-----------------------------------------------------------------------------
(* A first translation keeps the invariant: with a time shared it takes    *)
(* the offset of that time, without one it is the first or begins blind.   *)
LEMMA TranslateFirstKeepsIInv ==
  ASSUME TimeIInv, NEW s \in Parsers, NEW m \in Native, NEW w \in 0 .. MaxWraps,
         TranslateFirst(s, m, w)
  PROVE  TimeIInv'
<1>1. w \in Int /\ sharedWraps \in Int /\ baseline \in [Parsers -> Int]
      /\ \A o \in Parsers : wraps[o] \in Int /\ baseline[o] \in Int
  BY TimeAssumption DEF TimeIInv, TimeTypeOK
<1>2. CASE shared = None
  <2>1. baseline'[s] = 0 /\ TimeTypeOK' /\ SharesATime'
    <3>1. /\ baseline' = [baseline EXCEPT ![s] = 0]
          /\ wraps' = [wraps EXCEPT ![s] = w]
          /\ used' = [used EXCEPT ![s] = m]
          /\ stage' = [stage EXCEPT ![s] = "share"]
          /\ startedBlind' = startedBlind \/ startedBlind' = startedBlind \cup {s}
          /\ shared' = shared /\ sharedWraps' = sharedWraps
      BY <1>2 DEF TranslateFirst
    <3>. QED
      BY <3>1, TimeAssumption DEF TimeIInv, TimeTypeOK, SharesATime, Native
  <2>2. CASE \E o \in Parsers : used[o] # None
    <3>1. s \in startedBlind'
      BY <1>2, <2>2 DEF TranslateFirst
    <3>. QED
      BY <2>1, <3>1 DEF TimeIInv, StreamsAgree
  <2>3. CASE ~ \E o \in Parsers : used[o] # None
    <3>1. \A o \in Parsers : used'[o] # None => o = s
      BY <2>3 DEF TranslateFirst, TimeIInv, TimeTypeOK
    <3>2. shared' = None
      BY <1>2 DEF TranslateFirst
    <3>. QED
      BY <2>1, <3>1, <3>2 DEF TimeIInv, StreamsAgree, Started
  <2>. QED
    BY <2>2, <2>3
<1>3. CASE shared # None
  <2>1. shared \in Times
    BY <1>3 DEF TimeIInv, TimeTypeOK
  <2>2. /\ Nearest(shared, m) \in Int
        /\ Nearest(shared, m) - w = shared.baseline - sharedWraps
    BY <1>1, <1>3, <2>1, NearestAgrees DEF TranslateFirst, FirstTime
  <2>3. /\ baseline' = [baseline EXCEPT ![s] = Nearest(shared, m)]
        /\ wraps' = [wraps EXCEPT ![s] = w]
        /\ used' = [used EXCEPT ![s] = m]
        /\ stage' = [stage EXCEPT ![s] = "share"]
        /\ startedBlind' = startedBlind
        /\ shared' = shared /\ sharedWraps' = sharedWraps
    BY <1>3 DEF TranslateFirst
  <2> HIDE DEF Nearest
  <2>4. TimeTypeOK' /\ SharesATime'
    BY <2>2, <2>3, TimeAssumption DEF TimeIInv, TimeTypeOK, SharesATime, Native
  <2>5. ASSUME startedBlind' = {}
        PROVE  \A o \in Parsers : Started(o)' =>
                 baseline'[o] - wraps'[o] = shared.baseline - sharedWraps
    BY <1>1, <1>3, <2>2, <2>3, <2>5 DEF TimeIInv, TimeTypeOK, StreamsAgree, Started
  <2>. QED
    BY <2>3, <2>4, <2>5 DEF TimeIInv, StreamsAgree
<1>. QED
  BY <1>2, <1>3

(* A next translation moves the baseline by what the true time wraps.      *)
LEMMA TranslateNextMoves ==
  ASSUME TimeIInv, NEW s \in Parsers, NEW m \in Native, NEW w \in 0 .. MaxWraps,
         TranslateNext(s, m, w)
  PROVE  /\ baseline' = [baseline EXCEPT ![s] = baseline[s] + (w - wraps[s])]
         /\ w - wraps[s] \in Int
<1>1. /\ used[s] \in Native /\ wraps[s] \in Int /\ w \in Int
      /\ NextTime(s, m, w)
  BY TimeAssumption DEF TimeIInv, TimeTypeOK, TranslateNext
<1>2. Wrapped(used[s], m) = w - wraps[s]
  BY <1>1, WrappedIsTheWrap DEF NextTime
<1>. QED
  BY <1>1, <1>2 DEF TranslateNext

LEMMA TranslateNextKeepsIInv ==
  ASSUME TimeIInv, NEW s \in Parsers, NEW m \in Native, NEW w \in 0 .. MaxWraps,
         TranslateNext(s, m, w)
  PROVE  TimeIInv'
<1>1. /\ baseline' = [baseline EXCEPT ![s] = baseline[s] + (w - wraps[s])]
      /\ wraps' = [wraps EXCEPT ![s] = w]
      /\ used' = [used EXCEPT ![s] = m]
      /\ stage' = [stage EXCEPT ![s] = "share"]
      /\ startedBlind' = startedBlind
      /\ shared' = shared /\ sharedWraps' = sharedWraps
  BY TranslateNextMoves DEF TranslateNext
<1>2. /\ used[s] # None /\ w \in Int
      /\ \A o \in Parsers : wraps[o] \in Int /\ baseline[o] \in Int
  BY TimeAssumption DEF TimeIInv, TimeTypeOK, TranslateNext
<1>3. TimeTypeOK' /\ SharesATime'
  BY <1>1, <1>2, TimeAssumption DEF TimeIInv, TimeTypeOK, SharesATime, Native
<1>4. \A o \in Parsers : /\ Started(o)' <=> Started(o)
                         /\ baseline'[o] - wraps'[o] = baseline[o] - wraps[o]
  BY <1>1, <1>2, TimeAssumption DEF TimeIInv, TimeTypeOK, Started, Native
<1>. QED
  BY <1>1, <1>3, <1>4 DEF TimeIInv, StreamsAgree

LEMMA SetLastKeepsIInv ==
  ASSUME TimeIInv, NEW s \in Parsers, SetLastNativeTime(s)
  PROVE  TimeIInv'
<1>1. /\ used[s] \in Native /\ Started(s)
      /\ baseline[s] \in Int /\ wraps[s] \in 0 .. MaxWraps
  BY DEF TimeIInv, TimeTypeOK, SharesATime, SetLastNativeTime, Started
<1>2. /\ shared' = [baseline |-> baseline[s], native |-> used[s]]
      /\ sharedWraps' = wraps[s]
      /\ stage' = [stage EXCEPT ![s] = "parse"]
      /\ used' = used /\ baseline' = baseline /\ wraps' = wraps
      /\ startedBlind' = startedBlind
  BY DEF SetLastNativeTime
<1>3. TimeTypeOK' /\ SharesATime'
  BY <1>1, <1>2 DEF TimeIInv, TimeTypeOK, SharesATime, Times
<1>4. /\ shared'.baseline = baseline[s]
      /\ \A o \in Parsers : Started(o)' <=> Started(o)
  BY <1>2 DEF Started
<1>. QED
  BY <1>1, <1>2, <1>3, <1>4 DEF TimeIInv, StreamsAgree

LEMMA ResetKeepsIInv ==
  ASSUME TimeIInv, NEW s \in Parsers, Reset(s)
  PROVE  TimeIInv'
<1>1. /\ used' = [used EXCEPT ![s] = None]
      /\ baseline' = [baseline EXCEPT ![s] = 0]
      /\ shared' = shared /\ sharedWraps' = sharedWraps
      /\ stage' = stage /\ wraps' = wraps /\ startedBlind' = startedBlind
      /\ stage[s] = "parse"
  BY DEF Reset
<1>2. TimeTypeOK' /\ SharesATime'
  BY <1>1 DEF TimeIInv, TimeTypeOK, SharesATime
<1>3. \A o \in Parsers : Started(o)' =>
        Started(o) /\ baseline'[o] = baseline[o]
  BY <1>1 DEF TimeIInv, TimeTypeOK, Started
<1>. QED
  BY <1>1, <1>2, <1>3 DEF TimeIInv, StreamsAgree

LEMMA NextKeepsTimeIInv == TimeIInv /\ [TimeNext]_timeVars => TimeIInv'
<1> SUFFICES ASSUME TimeIInv, [TimeNext]_timeVars PROVE TimeIInv'
  OBVIOUS
<1>1. ASSUME NEW s \in Parsers, NEW m \in Native, NEW w \in 0 .. MaxWraps,
             TranslateFirst(s, m, w)
      PROVE  TimeIInv'
  BY <1>1, TranslateFirstKeepsIInv
<1>2. ASSUME NEW s \in Parsers, NEW m \in Native, NEW w \in 0 .. MaxWraps,
             TranslateNext(s, m, w)
      PROVE  TimeIInv'
  BY <1>2, TranslateNextKeepsIInv
<1>3. ASSUME NEW s \in Parsers, SetLastNativeTime(s)
      PROVE  TimeIInv'
  BY <1>3, SetLastKeepsIInv
<1>4. ASSUME NEW s \in Parsers, Reset(s)
      PROVE  TimeIInv'
  BY <1>4, ResetKeepsIInv
<1>5. CASE UNCHANGED timeVars
  BY <1>5 DEF TimeIInv, TimeTypeOK, SharesATime, StreamsAgree, Started, timeVars
<1>. QED
  BY <1>1, <1>2, <1>3, <1>4, <1>5 DEF TimeNext

LEMMA InitIsTimeIInv == TimeInit => TimeIInv
  BY TimeAssumption
     DEF TimeInit, TimeIInv, TimeTypeOK, SharesATime, StreamsAgree, Started

LEMMA TimeIInvAlways == TimeSpec => []TimeIInv
  BY InitIsTimeIInv, NextKeepsTimeIInv, PTL DEF TimeSpec
-----------------------------------------------------------------------------
(* Baselines, native times and the shared time keep their types.           *)
THEOREM TimesTypeCorrect == TimeSpec => []TimeTypeOK
<1>1. TimeIInv => TimeTypeOK
  BY DEF TimeIInv
<1>. QED
  BY <1>1, TimeIInvAlways, PTL

(* The streams of a playback agree on the number of wraps.                 *)
THEOREM StreamsAlwaysAgree == TimeSpec => []StreamsAgree
<1>1. TimeIInv => StreamsAgree
  BY DEF TimeIInv
<1>. QED
  BY <1>1, TimeIInvAlways, PTL

(* Every step of a stream's translated time is that of its true time,      *)
(* whether or not the streams agree.                                       *)
THEOREM StreamsMoveWithTheClock == TimeSpec => MovesWithTheClock
<1> DEFINE Moves == \A s \in Parsers : Started(s) /\ Started(s)' =>
                      Apart(baseline'[s], used'[s], baseline[s], used[s])
                        = Apart(wraps'[s], used'[s], wraps[s], used[s])
<1>1. ASSUME TimeIInv, [TimeNext]_timeVars PROVE [Moves]_timeVars
  <2>1. ASSUME NEW r \in Parsers, NEW m \in Native, NEW w \in 0 .. MaxWraps,
               TranslateFirst(r, m, w)
        PROVE  Moves
    <3>1. \A s \in Parsers : Started(s) => s # r
      BY <2>1 DEF TranslateFirst, Started
    <3>2. \A s \in Parsers : s # r =>
            baseline'[s] = baseline[s] /\ wraps'[s] = wraps[s]
      BY <1>1, <2>1 DEF TranslateFirst, TimeIInv, TimeTypeOK
    <3>. QED
      <4>1. \A s \in Parsers : Started(s) =>
              baseline'[s] - baseline[s] = wraps'[s] - wraps[s]
        BY <1>1, <3>1, <3>2, TimeAssumption DEF TimeIInv, TimeTypeOK
      <4>. QED
        BY <4>1 DEF Apart
  <2>2. ASSUME NEW r \in Parsers, NEW m \in Native, NEW w \in 0 .. MaxWraps,
               TranslateNext(r, m, w)
        PROVE  Moves
    <3>1. \A s \in Parsers :
            baseline'[s] - baseline[s] = wraps'[s] - wraps[s]
      <4>1. /\ baseline' = [baseline EXCEPT ![r] =
                              baseline[r] + (w - wraps[r])]
            /\ wraps' = [wraps EXCEPT ![r] = w]
        BY <1>1, <2>2, TranslateNextMoves DEF TranslateNext
      <4>. QED
        BY <1>1, <4>1, TimeAssumption DEF TimeIInv, TimeTypeOK
    <3>. QED
      BY <3>1 DEF Apart
  <2>3. ASSUME NEW r \in Parsers, SetLastNativeTime(r) \/ UNCHANGED timeVars
        PROVE  Moves
    <3>1. baseline' = baseline /\ wraps' = wraps
      BY <2>3 DEF SetLastNativeTime, timeVars
    <3>2. \A s \in Parsers :
            baseline'[s] - baseline[s] = wraps'[s] - wraps[s]
      BY <1>1, <3>1, TimeAssumption DEF TimeIInv, TimeTypeOK
    <3>. QED
      BY <3>2 DEF Apart
  <2>4. ASSUME NEW r \in Parsers, Reset(r)
        PROVE  Moves
    <3>1. \A s \in Parsers : Started(s)' => s # r
      BY <1>1, <2>4 DEF Reset, Started, TimeIInv, TimeTypeOK
    <3>2. \A s \in Parsers : s # r =>
            baseline'[s] = baseline[s] /\ wraps'[s] = wraps[s]
      BY <1>1, <2>4 DEF Reset, TimeIInv, TimeTypeOK
    <3>3. \A s \in Parsers : Started(s)' =>
            baseline'[s] - baseline[s] = wraps'[s] - wraps[s]
      BY <1>1, <3>1, <3>2, TimeAssumption DEF TimeIInv, TimeTypeOK
    <3>. QED
      BY <3>3 DEF Apart
  <2>. QED
    BY <1>1, <2>1, <2>2, <2>3, <2>4 DEF TimeNext
<1>. QED
  BY <1>1, TimeIInvAlways, PTL DEF TimeSpec, MovesWithTheClock
-----------------------------------------------------------------------------
(* OutputCoordinator                                                       *)

InSync == {c \in Streams : inSync[c]}

(* What the counters count, and what the flags say of the processes.       *)
CountsAgree ==
  /\ streamCount = Cardinality(Registered)
  /\ inSyncCount = Cardinality(InSync)

FlagsAgree ==
  \A c \in Streams :
    /\ inSync[c] <=> At(c, "wait")
    /\ inDelay[c] <=> pc[c] \in {"alternate", "delay"}
    /\ ~Resting(c) => c \in Registered

IInv == TypeOK /\ CountsAgree /\ FlagsAgree
-----------------------------------------------------------------------------
LEMMA StreamsAreFinite ==
  /\ IsFiniteSet(Registered) /\ IsFiniteSet(InSync)
  /\ Cardinality(Registered) \in Nat /\ Cardinality(InSync) \in Nat
<1>1. Registered \in SUBSET Streams /\ InSync \in SUBSET Streams
  BY DEF Registered, InSync
<1>. QED
  BY <1>1, FS_Subset, FS_CardinalityType, CoordinatorAssumption

LEMMA Bounds ==
  /\ FollowBy \in 0 .. FollowBy /\ 0 \in 0 .. FollowBy
  /\ 0 \in 0 .. MaxSynchronizeWaits
BY CoordinatorAssumption

(* What no count depends on: a step of a process outside the part that is  *)
(* counted.                                                                *)
LEMMA SameCounts ==
  ASSUME CountsAgree, UNCHANGED countVars
  PROVE  CountsAgree' /\ Registered' = Registered /\ InSync' = InSync
BY DEF CountsAgree, countVars, Registered, InSync

LEMMA GotoKeepsFlags ==
  ASSUME TypeOK, CountsAgree, FlagsAgree, UNCHANGED countVars,
         NEW c \in Streams, NEW l, Goto(c, l),
         ~Synchronizing(c), l \notin {"alternate", "delay", "wait"},
         c \in Registered
  PROVE  CountsAgree' /\ FlagsAgree'
<1>1. CountsAgree' /\ Registered' = Registered
  BY SameCounts
<1>2. /\ inSync' = inSync /\ inDelay' = inDelay
      /\ pc'[c] = l /\ \A s \in Streams \ {c} : pc'[s] = pc[s]
  BY DEF countVars, Goto, TypeOK
<1>3. FlagsAgree'
  BY <1>1, <1>2 DEF FlagsAgree, At, Resting, Synchronizing
<1>. QED
  BY <1>1, <1>3

LEMMA StayKeepsFlags ==
  ASSUME CountsAgree, FlagsAgree, UNCHANGED <<countVars, pc>>
  PROVE  CountsAgree' /\ FlagsAgree'
<1>1. CountsAgree' /\ Registered' = Registered
  BY SameCounts
<1>2. inSync' = inSync /\ inDelay' = inDelay /\ pc' = pc
  BY DEF countVars
<1>. QED
  BY <1>1, <1>2 DEF FlagsAgree, At, Resting
-----------------------------------------------------------------------------
(* Both counters against their sets, when one stream enters or leaves.     *)
LEMMA RegisterKeepsIInv ==
  ASSUME IInv, NEW c \in Streams, RegisterStream(c)
  PROVE  IInv'
<1>1. TypeOK'
  BY DEF IInv, TypeOK, RegisterStream, masterVars, frameVars, windowVars
<1>2. Registered' = Registered \cup {c} /\ c \notin Registered
  BY DEF IInv, TypeOK, RegisterStream, Registered
<1>3. inSync' = inSync /\ inDelay' = inDelay /\ pc' = pc
      /\ inSyncCount' = inSyncCount /\ streamCount' = streamCount + 1
  BY DEF RegisterStream
<1>4. CountsAgree'
  BY <1>2, <1>3, StreamsAreFinite, FS_AddElement DEF IInv, CountsAgree, InSync
<1>5. FlagsAgree'
  BY <1>2, <1>3 DEF IInv, FlagsAgree, At, Resting
<1>. QED
  BY <1>1, <1>4, <1>5 DEF IInv

LEMMA HaltKeepsIInv ==
  ASSUME IInv, NEW c \in Streams, Halt(c)
  PROVE  IInv'
<1>1. TypeOK'
  BY DEF IInv, TypeOK, Halt, masterVars, mapVars, frameVars, windowVars
<1>2. Registered' = Registered
  BY DEF IInv, TypeOK, Halt, Registered
<1>3. inSync' = inSync /\ inDelay' = inDelay /\ pc' = pc
      /\ inSyncCount' = inSyncCount /\ streamCount' = streamCount
  BY DEF Halt
<1>4. CountsAgree' /\ FlagsAgree'
  BY <1>2, <1>3 DEF IInv, CountsAgree, InSync, FlagsAgree, At, Resting
<1>. QED
  BY <1>1, <1>4 DEF IInv

LEMMA DeRegisterKeepsIInv ==
  ASSUME IInv, Prompt, NEW c \in Streams, DeRegisterStream(c)
  PROVE  IInv'
<1>1. Registered' = Registered \ {c} /\ c \in Registered
  BY DEF IInv, TypeOK, DeRegisterStream, Registered
<1>2. inSync' = inSync /\ inDelay' = inDelay /\ pc' = pc
      /\ inSyncCount' = inSyncCount /\ streamCount' = streamCount - 1
  BY DEF DeRegisterStream
<1>3. Cardinality(Registered) \in Nat
      /\ Cardinality(Registered') = Cardinality(Registered) - 1
      /\ Cardinality(Registered') \in Nat
  BY <1>1, StreamsAreFinite, FS_RemoveElement, FS_CardinalityType
<1>4. CountsAgree'
  BY <1>2, <1>3 DEF IInv, CountsAgree, InSync
<1>5. streamCount' \in Nat
  BY <1>3, <1>4 DEF CountsAgree
<1>6. TypeOK'
  BY <1>5 DEF IInv, TypeOK, DeRegisterStream, masterVars, frameVars, windowVars
<1>7. Resting(c)
  BY DEF IInv, FlagsAgree, DeRegisterStream, Unprotected, Synchronizing, At
<1>8. FlagsAgree'
  BY <1>1, <1>2, <1>7 DEF IInv, FlagsAgree, At, Resting
<1>. QED
  BY <1>4, <1>6, <1>8 DEF IInv
-----------------------------------------------------------------------------
(* The part of SynchronizeStreams that is under the lock, entered with n   *)
(* streams counted, this one among them.                                   *)
LEMMA AdoptTypes ==
  ASSUME TypeOK, NEW c \in Streams, NEW a \in Int,
         NEW seen \in [Streams -> 0 .. FollowBy], Adopt(c, a, seen)
  PROVE  /\ masterJumps' \in Int
         /\ behind' \in [Streams -> 0 .. FollowBy]
         /\ jumps' \in [Streams -> Int]
BY CoordinatorAssumption DEF TypeOK, Adopt

LEMMA SynchronizeKeepsIInv ==
  ASSUME TypeOK, CountsAgree, FlagsAgree, NEW c \in Streams,
         NEW n, NEW w \in Nat, n = Cardinality(InSync \cup {c}),
         c \in Registered, Synchronize(c, n, w),
         UNCHANGED <<life, streamCount, delta, windowVars>>,
         inDelay' \in [Streams -> BOOLEAN],
         \A s \in Streams : inDelay'[s] <=> s # c /\ inDelay[s]
  PROVE  IInv'
<1>1. IsFiniteSet(InSync \cup {c}) /\ n \in Nat
  BY StreamsAreFinite, FS_AddElement, FS_CardinalityType
<1>2. Registered' = Registered /\ streamCount' = Cardinality(Registered')
  BY DEF Registered, CountsAgree
<1>3. CASE Wait(c, n, w)
  <2>1. /\ inSync' = [inSync EXCEPT ![c] = TRUE] /\ inSyncCount' = n
        /\ waits' = [waits EXCEPT ![c] = w] /\ w < MaxSynchronizeWaits
        /\ pc' = [pc EXCEPT ![c] = "wait"]
    BY <1>3 DEF Wait, Goto
  <2>2. InSync' = InSync \cup {c}
    BY <2>1 DEF TypeOK, InSync
  <2>3. TypeOK'
    BY <1>1, <1>3, <2>1, CoordinatorAssumption
    DEF TypeOK, Places, Wait, masterVars, mapVars, windowVars
  <2>4. FlagsAgree'
    BY <1>2, <2>1 DEF TypeOK, FlagsAgree, At, Resting
  <2>. QED
    BY <1>2, <2>1, <2>2, <2>3, <2>4 DEF IInv, CountsAgree
<1>4. CASE PickUp(c, n) \/ Establish(c, n, w)
  <2>1. /\ inSync' = [inSync EXCEPT ![c] = FALSE] /\ inSyncCount' = n - 1
        /\ waits' = [waits EXCEPT ![c] = 0]
        /\ established' = [established EXCEPT ![c] = TRUE]
        /\ pc' = [pc EXCEPT ![c] = "idle"]
    BY <1>4 DEF PickUp, Establish, Leave, Goto
  <2>2. InSync' = (InSync \cup {c}) \ {c}
    BY <2>1 DEF TypeOK, InSync
  <2>3. Cardinality(InSync') = n - 1 /\ Cardinality(InSync') \in Nat
    BY <1>1, <2>2, FS_RemoveElement, FS_CardinalityType
  <2>4. /\ masterJumps' \in Int
        /\ behind' \in [Streams -> 0 .. FollowBy]
        /\ jumps' \in [Streams -> Int]
    <3>1. CASE PickUp(c, n)
      BY <3>1, AdoptTypes DEF PickUp, TypeOK
    <3>2. CASE Establish(c, n, w)
      <4>1. [s \in Streams |-> FollowBy] \in [Streams -> 0 .. FollowBy]
        BY CoordinatorAssumption
      <4>. QED
        BY <3>2, <4>1, AdoptTypes DEF Establish
    <3>. QED
      BY <1>4, <3>1, <3>2
  <2>5. master' \in BOOLEAN /\ unmade' \in BOOLEAN
        /\ current' \in [Streams -> BOOLEAN]
    BY <1>4 DEF PickUp, Establish, TypeOK
  <2>6. TypeOK'
    <3>1. /\ inSync' \in [Streams -> BOOLEAN] /\ inSyncCount' \in Nat
          /\ waits' \in [Streams -> 0 .. MaxSynchronizeWaits]
          /\ established' \in [Streams -> BOOLEAN]
          /\ pc' \in [Streams -> Places]
      BY <2>1, <2>3, Bounds DEF TypeOK, Places
    <3>. QED
      BY <2>4, <2>5, <3>1 DEF TypeOK, windowVars
  <2>7. FlagsAgree'
    BY <1>2, <2>1 DEF TypeOK, FlagsAgree, At, Resting
  <2>. QED
    BY <1>2, <2>1, <2>3, <2>6, <2>7 DEF IInv, CountsAgree
<1>. QED
  BY <1>3, <1>4 DEF Synchronize

LEMMA JoinKeepsIInv ==
  ASSUME IInv, NEW c \in Streams, Join(c)
  PROVE  IInv'
<1>1. c \notin InSync /\ c \in Registered
  BY DEF IInv, FlagsAgree, InSync, Join, At, Resting
<1>2. inSyncCount + 1 = Cardinality(InSync \cup {c})
  BY <1>1, StreamsAreFinite, FS_AddElement DEF IInv, CountsAgree
<1>3. inDelay' = [inDelay EXCEPT ![c] = FALSE]
  BY DEF Join
<1>4. inDelay' \in [Streams -> BOOLEAN]
      /\ \A s \in Streams : inDelay'[s] <=> s # c /\ inDelay[s]
  BY <1>3 DEF IInv, TypeOK
<1>. QED
  BY <1>1, <1>2, <1>4, SynchronizeKeepsIInv DEF IInv, Join

LEMMA SyncAgainKeepsIInv ==
  ASSUME IInv, NEW c \in Streams, SyncAgain(c)
  PROVE  IInv'
<1>1. c \in InSync /\ c \in Registered /\ ~inDelay[c]
  BY DEF IInv, FlagsAgree, InSync, SyncAgain, At, Resting
<1>2. inSyncCount = Cardinality(InSync \cup {c})
  BY <1>1, StreamsAreFinite, FS_AddElement DEF IInv, CountsAgree
<1>3. inDelay' \in [Streams -> BOOLEAN]
      /\ \A s \in Streams : inDelay'[s] <=> s # c /\ inDelay[s]
  BY <1>1 DEF IInv, TypeOK, SyncAgain
<1>4. waits[c] + 1 \in Nat
  BY CoordinatorAssumption DEF IInv, TypeOK
<1>. QED
  BY <1>1, <1>2, <1>3, <1>4, SynchronizeKeepsIInv DEF IInv, SyncAgain
-----------------------------------------------------------------------------
(* What a reset of all mappings leaves of the types.                       *)
LEMMA ResetTypes ==
  ASSUME TypeOK, ResetAll
  PROVE  /\ UNCHANGED countVars
         /\ pc' \in [Streams -> Places] => TypeOK'
<1>1. UNCHANGED countVars
  BY DEF ResetAll
<1>2. /\ behind' = [c \in Streams |-> FollowBy]
      /\ established' = [c \in Streams |-> FALSE]
      /\ abort' \in [Streams -> BOOLEAN] /\ outdated' \in [Streams -> BOOLEAN]
      /\ window' = window
  BY DEF ResetAll, Outdate
<1>3. /\ behind' \in [Streams -> 0 .. FollowBy]
      /\ established' \in [Streams -> BOOLEAN]
  BY <1>2, Bounds
<1>4. master' \in BOOLEAN
  BY Zenon DEF ResetAll
<1>5. /\ UNCHANGED <<unmade, current, jumps, countVars, delta, waits>>
      /\ masterJumps' \in Int
  BY DEF ResetAll
<1>. QED
  BY <1>2, <1>3, <1>4, <1>5 DEF TypeOK, countVars

(* The steps of a frame before SynchronizeStreams.                         *)
LEMMA FrameKeepsIInv ==
  ASSUME IInv, NEW c \in Streams,
         \/ FirstFrame(c) \/ \E d \in Deltas \cup {0} : NextFrame(c, d)
         \/ InitiateJump(c) \/ PartialCatchup(c) \/ CompleteCatchup(c)
         \/ Follow(c) \/ FollowReset(c) \/ Match(c) \/ MatchReset(c)
  PROVE  IInv'
<1>1. c \in Registered /\ ~Synchronizing(c)
  BY DEF IInv, FlagsAgree, Registered, Synchronizing, At, Resting, FirstFrame,
         NextFrame, InitiateJump, PartialCatchup, CompleteCatchup, Follow,
         FollowReset, Match, MatchReset
<1>2. UNCHANGED countVars
  BY ResetTypes
  DEF IInv, countVars, FirstFrame, NextFrame, InitiateJump, PartialCatchup,
      CompleteCatchup, Follow, FollowReset, Match, MatchReset
<1>3. PICK l \in {"jump", "follow", "unfollowed", "match", "unmatched",
                  "translate"} : Goto(c, l)
  BY DEF FirstFrame, NextFrame, InitiateJump, PartialCatchup, CompleteCatchup,
         Follow, FollowReset, Match, MatchReset
<1>4. CountsAgree' /\ FlagsAgree'
  BY <1>1, <1>2, <1>3, GotoKeepsFlags DEF IInv
<1>5. pc' \in [Streams -> Places]
  BY <1>3 DEF IInv, TypeOK, Places, Goto
<1>6. CASE FollowReset(c) \/ MatchReset(c)
  BY <1>4, <1>5, <1>6, ResetTypes DEF IInv, FollowReset, MatchReset
<1>7. CASE FirstFrame(c) \/ Match(c)
  BY <1>4, <1>5, <1>7 DEF IInv, TypeOK, FirstFrame, Match, masterVars, mapVars,
                          countVars, frameVars, windowVars
<1>8. ASSUME NEW d \in Deltas \cup {0}, NextFrame(c, d)
      PROVE  IInv'
  BY <1>4, <1>5, <1>8, CoordinatorAssumption
  DEF IInv, TypeOK, NextFrame, masterVars, mapVars, countVars, windowVars
<1>9. CASE InitiateJump(c)
  BY <1>4, <1>5, <1>9, CoordinatorAssumption
  DEF IInv, TypeOK, InitiateJump, countVars, windowVars
<1>10. CASE PartialCatchup(c) \/ CompleteCatchup(c)
  BY <1>4, <1>5, <1>10
  DEF IInv, TypeOK, PartialCatchup, CompleteCatchup, masterVars, countVars,
      frameVars, windowVars
<1>11. CASE Follow(c)
  <2>1. behind' \in [Streams -> 0 .. FollowBy]
    BY <1>11, CoordinatorAssumption DEF Follow, IInv, TypeOK
  <2>. QED
    BY <1>4, <1>5, <1>11, <2>1
    DEF IInv, TypeOK, Follow, masterVars, mapVars, countVars, windowVars
<1>. QED
  BY <1>6, <1>7, <1>8, <1>9, <1>10, <1>11

LEMMA TranslateKeepsIInv ==
  ASSUME IInv, NEW c \in Streams, TranslatePlaybackTimeToSystem(c)
  PROVE  IInv'
<1>1. c \in Registered
  BY DEF IInv, FlagsAgree, TranslatePlaybackTimeToSystem, Resting
<1>2. TypeOK'
  <2>1. \/ pc' = [pc EXCEPT ![c] = "idle"] /\ inDelay' = inDelay
        \/ /\ pc' = [pc EXCEPT ![c] = "alternate"]
           /\ inDelay' = [inDelay EXCEPT ![c] = TRUE]
    BY Zenon DEF TranslatePlaybackTimeToSystem, Goto
  <2>2. /\ pc' \in [Streams -> Places]
        /\ inDelay' \in [Streams -> BOOLEAN]
    BY <2>1 DEF IInv, TypeOK, Places
  <2>3. delta' \in [Streams -> Int]
    BY DEF IInv, TypeOK, TranslatePlaybackTimeToSystem
  <2>. QED
    BY <2>2, <2>3 DEF IInv, TypeOK, TranslatePlaybackTimeToSystem, masterVars,
                mapVars, windowVars
<1>3. /\ Registered' = Registered /\ inSync' = inSync
      /\ streamCount' = streamCount /\ inSyncCount' = inSyncCount
  BY DEF TranslatePlaybackTimeToSystem, Registered
<1>4. CountsAgree'
  BY <1>3 DEF IInv, CountsAgree, InSync
<1>5. FlagsAgree'
  BY <1>1, <1>3 DEF IInv, TypeOK, FlagsAgree, At, Resting, Goto,
                    TranslatePlaybackTimeToSystem
<1>. QED
  BY <1>2, <1>4, <1>5 DEF IInv

LEMMA AlternateKeepsIInv ==
  ASSUME IInv, NEW c \in Streams, TakeAlternate(c) \/ NoAlternate(c)
  PROVE  IInv'
<1>1. c \in Registered
  BY DEF IInv, FlagsAgree, TakeAlternate, NoAlternate, At, Resting
<1>2. TypeOK'
  <2>1. pc' \in [Streams -> Places]
    BY DEF IInv, TypeOK, Places, TakeAlternate, NoAlternate, Goto
  <2>2. CASE TakeAlternate(c)
    BY <2>1, <2>2 DEF IInv, TypeOK, TakeAlternate, masterVars, frameVars,
                      windowVars
  <2>3. CASE NoAlternate(c)
    BY <2>1, <2>3 DEF IInv, TypeOK, NoAlternate, mapVars, countVars, frameVars,
                      windowVars
  <2>. QED
    BY <2>2, <2>3
<1>3. /\ Registered' = Registered /\ inSync' = inSync
      /\ streamCount' = streamCount /\ inSyncCount' = inSyncCount
  BY DEF TakeAlternate, NoAlternate, Registered, countVars
<1>4. CountsAgree'
  BY <1>3 DEF IInv, CountsAgree, InSync
<1>5. FlagsAgree'
  BY <1>1, <1>3 DEF IInv, TypeOK, FlagsAgree, At, Resting, Goto, TakeAlternate,
                    NoAlternate, countVars
<1>. QED
  BY <1>2, <1>4, <1>5 DEF IInv

(* A reset of one stream's mapping, between frames.                        *)
LEMMA ResetStreamKeepsIInv ==
  ASSUME IInv, NEW c \in Streams, ResetStream(c)
  PROVE  IInv'
<1>1. c \in Registered /\ ~Synchronizing(c) /\ Goto(c, "first")
      /\ UNCHANGED countVars
  BY DEF ResetStream, Registered, Resting, Synchronizing
<1>2. CountsAgree' /\ FlagsAgree'
  BY <1>1, GotoKeepsFlags DEF IInv
<1>3. TypeOK'
  BY DEF IInv, TypeOK, Places, ResetStream, Outdate, Goto, masterVars, countVars,
         frameVars
<1>. QED
  BY <1>2, <1>3 DEF IInv

(* A mapping imposed by the application, which may send streams that read  *)
(* MasterTimeMappingEstablished meanwhile to SynchronizeStreams.           *)
LEMMA EstablishKeepsIInv ==
  ASSUME IInv, EstablishTimeMapping
  PROVE  IInv'
<1>1. PICK misled \in SUBSET {c \in Streams : pc[c] \in {"match", "translate"}} :
        /\ pc' = [c \in Streams |-> IF c \in misled THEN "alternate" ELSE pc[c]]
        /\ delta' = [c \in Streams |-> IF c \in misled THEN 0 ELSE delta[c]]
        /\ inDelay' = [c \in Streams |-> inDelay[c] \/ c \in misled]
        /\ UNCHANGED <<life, streamCount, inSyncCount, inSync, waits>>
  BY DEF EstablishTimeMapping
<1>2. Registered' = Registered /\ CountsAgree'
  BY <1>1 DEF IInv, CountsAgree, Registered, InSync
<1>3. FlagsAgree'
  BY <1>1, <1>2 DEF IInv, TypeOK, FlagsAgree, At, Resting
<1>4. /\ behind' = [c \in Streams |-> FollowBy]
      /\ established' \in [Streams -> BOOLEAN]
      /\ current' \in [Streams -> BOOLEAN]
      /\ jumps' \in [Streams -> Int]
      /\ masterJumps' \in Int
  BY DEF IInv, TypeOK, EstablishTimeMapping
<1>5. master' \in BOOLEAN /\ unmade' \in BOOLEAN
  BY Zenon DEF EstablishTimeMapping
<1>6. behind' \in [Streams -> 0 .. FollowBy]
  BY <1>4, Bounds
<1>7. /\ abort' \in [Streams -> BOOLEAN] /\ outdated' \in [Streams -> BOOLEAN]
      /\ window' = window
  BY DEF EstablishTimeMapping, Outdate
<1>8. /\ pc' \in [Streams -> Places] /\ delta' \in [Streams -> Int]
      /\ inDelay' \in [Streams -> BOOLEAN]
  BY <1>1 DEF IInv, TypeOK, Places
<1>. QED
  BY <1>1, <1>2, <1>3, <1>4, <1>5, <1>6, <1>7, <1>8 DEF IInv, TypeOK

(* The rest touches neither counters nor pc.                               *)
LEMMA OthersKeepIInv ==
  ASSUME IInv,
         \/ ClientReset \/ SetPlaybackSpeed
         \/ \E c \in Streams : AwaitWindow(c) \/ WindowRead(c) \/ WindowEnd(c)
  PROVE  IInv'
<1>1. UNCHANGED <<countVars, pc>>
  BY ResetTypes
  DEF IInv, ClientReset, SetPlaybackSpeed, AwaitWindow, WindowRead, WindowEnd
<1>2. CountsAgree' /\ FlagsAgree'
  BY <1>1, StayKeepsFlags DEF IInv
<1>3. CASE ClientReset
  BY <1>1, <1>2, <1>3, ResetTypes DEF IInv, ClientReset, TypeOK
<1>4. CASE SetPlaybackSpeed
  BY <1>2, <1>4 DEF IInv, TypeOK, SetPlaybackSpeed, Outdate, masterVars,
                    mapVars, countVars, frameVars
<1>5. ASSUME NEW c \in Streams, AwaitWindow(c) \/ WindowRead(c) \/ WindowEnd(c)
      PROVE  IInv'
  BY <1>2, <1>5 DEF IInv, TypeOK, AwaitWindow, WindowRead, WindowEnd,
                    masterVars, mapVars, countVars, frameVars
<1>. QED
  BY <1>3, <1>4, <1>5
-----------------------------------------------------------------------------
LEMMA InitIInv == Init => IInv
<1>. SUFFICES ASSUME Init PROVE IInv
  OBVIOUS
<1>1. TypeOK
  <2>1. /\ streamCount \in Nat /\ inSyncCount \in Nat
        /\ life \in [Streams -> {"new", "running", "halting", "gone"}]
        /\ inDelay \in [Streams -> BOOLEAN] /\ inSync \in [Streams -> BOOLEAN]
        /\ pc \in [Streams -> Places]
    BY DEF Init, Places
  <2>2. master \in BOOLEAN /\ unmade \in BOOLEAN
    BY Zenon DEF Init
  <2>3. /\ masterJumps \in Int
        /\ established \in [Streams -> BOOLEAN]
        /\ current \in [Streams -> BOOLEAN] /\ jumps \in [Streams -> Int]
        /\ delta \in [Streams -> Int]
    BY DEF Init
  <2>4. /\ behind \in [Streams -> 0 .. FollowBy]
        /\ waits \in [Streams -> 0 .. MaxSynchronizeWaits]
    BY Bounds DEF Init
  <2>5. /\ abort \in [Streams -> BOOLEAN] /\ outdated \in [Streams -> BOOLEAN]
        /\ window \in [Streams -> {"idle", "read", "sleep"}]
    BY DEF Init
  <2>. QED
    BY <2>1, <2>2, <2>3, <2>4, <2>5 DEF TypeOK
<1>2. Registered = {} /\ InSync = {}
  BY DEF Init, Registered, InSync
<1>3. CountsAgree
  BY <1>2, FS_EmptySet DEF Init, CountsAgree
<1>4. FlagsAgree
  BY DEF Init, FlagsAgree, At, Resting
<1>. QED
  BY <1>1, <1>3, <1>4 DEF IInv

LEMMA StepKeepsIInv ==
  ASSUME IInv, Prompt, [Next]_vars
  PROVE  IInv'
<1>1. ASSUME NEW c \in Streams, FrameStep(c)
      PROVE  IInv'
  BY <1>1, FrameKeepsIInv, TranslateKeepsIInv, AlternateKeepsIInv,
     JoinKeepsIInv, SyncAgainKeepsIInv DEF FrameStep
<1>2. ASSUME NEW c \in Streams,
             \/ RegisterStream(c) \/ Halt(c) \/ DeRegisterStream(c)
             \/ ResetStream(c)
      PROVE  IInv'
  BY <1>2, RegisterKeepsIInv, HaltKeepsIInv, DeRegisterKeepsIInv,
     ResetStreamKeepsIInv
<1>3. CASE UNCHANGED vars
  <2>1. CountsAgree' /\ FlagsAgree'
    BY <1>3, StayKeepsFlags DEF IInv, vars
  <2>2. TypeOK'
    BY <1>3 DEF IInv, TypeOK, vars, masterVars, mapVars, countVars, frameVars,
                windowVars
  <2>. QED
    BY <2>1, <2>2 DEF IInv
<1>. QED
  BY <1>1, <1>2, <1>3, FrameKeepsIInv, EstablishKeepsIInv, OthersKeepIInv DEF Next

(* Whoever makes the mapping goes by counters that are right.              *)
LEMMA EstablishedTogether ==
  ASSUME IInv, NEW c \in Streams, [Next]_vars, Synchronizing(c),
         At(c, "idle")', master', ~master
  PROVE  \/ waits[c] + 1 >= MaxSynchronizeWaits
         \/ \A s \in Registered : s = c \/ inSync[s]
<1>1. master' # master /\ master' # FALSE
  BY Zenon
<1>2. PICK d \in Streams : Join(d) \/ SyncAgain(d)
  <2>1. pc'[c] # pc[c] /\ pc'[c] # "alternate"
    BY DEF At, Synchronizing
  <2>2. ~ UNCHANGED vars /\ ~ ClientReset /\ ~ SetPlaybackSpeed
    BY <2>1 DEF vars, ClientReset, SetPlaybackSpeed
  <2>3. ~ EstablishTimeMapping
    BY <2>1 DEF EstablishTimeMapping
  <2>4. ASSUME NEW d \in Streams
        PROVE  /\ ~ RegisterStream(d) /\ ~ Halt(d) /\ ~ DeRegisterStream(d)
               /\ ~ ResetStream(d) /\ ~ FirstFrame(d)
               /\ \A x \in Deltas \cup {0} : ~ NextFrame(d, x)
               /\ ~ AwaitWindow(d) /\ ~ WindowRead(d) /\ ~ WindowEnd(d)
    BY <1>1 DEF masterVars, RegisterStream, Halt, DeRegisterStream, ResetStream,
                FirstFrame, NextFrame, AwaitWindow, WindowRead, WindowEnd
  <2>5. ASSUME NEW d \in Streams, FrameStep(d)
        PROVE  Join(d) \/ SyncAgain(d)
    BY <1>1, <2>5
    DEF FrameStep, masterVars, InitiateJump, PartialCatchup, CompleteCatchup,
        Follow, FollowReset, Match, MatchReset, ResetAll, TakeAlternate,
        TranslatePlaybackTimeToSystem, NoAlternate
  <2>. QED
    BY <2>2, <2>3, <2>4, <2>5 DEF Next
<1>3. PICK n, w :
        /\ Establish(d, n, w)
        /\ \/ At(d, "delay") /\ n = inSyncCount + 1 /\ w = 0
           \/ At(d, "wait") /\ n = inSyncCount /\ w = waits[d] + 1
  BY <1>1, <1>2 DEF Join, SyncAgain, Synchronize, PickUp, Wait, masterVars
<1>4. d = c
  BY <1>3 DEF Establish, Leave, Goto, At, Synchronizing, IInv, TypeOK
<1>5. c \in Registered /\ InSync \in SUBSET Registered
  BY <1>3, <1>4 DEF IInv, FlagsAgree, At, Resting, InSync
<1>6. CASE w >= MaxSynchronizeWaits
  BY <1>3, <1>4, <1>6, CoordinatorAssumption
<1>7. CASE n = streamCount
  <2>1. n = Cardinality(InSync \cup {c})
    <3>1. inSyncCount = Cardinality(InSync)
          /\ Cardinality(InSync \cup {c}) =
               IF c \in InSync THEN Cardinality(InSync)
                                ELSE Cardinality(InSync) + 1
      BY StreamsAreFinite, FS_AddElement DEF IInv, CountsAgree
    <3>2. c \in InSync <=> At(c, "wait")
      BY DEF IInv, FlagsAgree, InSync
    <3>. QED
      BY <1>3, <1>4, <3>1, <3>2 DEF At
  <2>2. InSync \cup {c} = Registered
    BY <1>5, <1>7, <2>1, StreamsAreFinite, FS_Subset DEF IInv, CountsAgree
  <2>. QED
    BY <2>2 DEF InSync
<1>. QED
  BY <1>3, <1>6, <1>7 DEF Establish

(* Nobody's mapping starts without a stream that could have been waited    *)
(* for: StartsTogether, provided that contexts are deleted in time.        *)
THEOREM StreamsStartTogether == Prompt => (Spec => StartsTogether)
<1>. SUFFICES ASSUME Prompt PROVE Spec => StartsTogether
  OBVIOUS
<1>1. IInv /\ [Next]_vars => IInv'
  BY StepKeepsIInv
<1>2. IInv /\ [Next]_vars
        => [\A c \in Streams :
              Synchronizing(c) /\ At(c, "idle")' /\ master' /\ ~master =>
                \/ waits[c] + 1 >= MaxSynchronizeWaits
                \/ \A s \in Registered : s = c \/ inSync[s]]_vars
  BY EstablishedTogether
<1>. QED
  BY <1>1, <1>2, InitIInv, PTL DEF Spec, StartsTogether

(* Every reachable state is well typed, under the same condition.          *)
THEOREM TypeCorrect == Prompt => (Spec => []TypeOK)
<1>. SUFFICES ASSUME Prompt PROVE Spec => []TypeOK
  OBVIOUS
<1>1. IInv /\ [Next]_vars => IInv'
  BY StepKeepsIInv
<1>2. IInv => TypeOK
  BY DEF IInv
<1>. QED
  BY <1>1, <1>2, InitIInv, PTL DEF Spec
-----------------------------------------------------------------------------
(* Decode windows: only a registered stream's process awaits one, and it   *)
(* is outdated only while it does and with the abort set.                  *)
WindowsAgree ==
  \A c \in Streams :
    /\ window[c] # "idle" => c \in Registered
    /\ outdated[c] => window[c] # "idle" /\ abort[c]

LEMMA OutdateKeepsWindows ==
  ASSUME WindowsAgree, NEW S, Outdate(S), UNCHANGED life
  PROVE  WindowsAgree'
BY DEF WindowsAgree, Outdate, Registered

LEMMA SameWindows ==
  ASSUME WindowsAgree, UNCHANGED <<life, windowVars>>
  PROVE  WindowsAgree'
BY DEF WindowsAgree, windowVars, Registered

LEMMA StepKeepsWindows ==
  ASSUME TypeOK, Prompt, WindowsAgree, [Next]_vars
  PROVE  WindowsAgree'
<1>1. CASE UNCHANGED vars
  BY <1>1, SameWindows DEF vars, countVars
<1>2. CASE ClientReset \/ EstablishTimeMapping \/ SetPlaybackSpeed
  BY <1>2, OutdateKeepsWindows
  DEF ClientReset, ResetAll, EstablishTimeMapping, SetPlaybackSpeed, countVars
<1>3. ASSUME NEW c \in Streams, RegisterStream(c) \/ Halt(c)
      PROVE  WindowsAgree'
  <2>1. Registered \in SUBSET Registered' /\ UNCHANGED windowVars
    BY <1>3 DEF RegisterStream, Halt, TypeOK, Registered
  <2>. QED
    BY <2>1 DEF WindowsAgree, windowVars
<1>4. ASSUME NEW c \in Streams, DeRegisterStream(c)
      PROVE  WindowsAgree'
  <2>1. /\ window[c] = "idle" /\ UNCHANGED windowVars
        /\ \A s \in Registered : s # c => s \in Registered'
    BY <1>4 DEF DeRegisterStream, Unprotected, TypeOK, Registered
  <2>. QED
    BY <2>1 DEF WindowsAgree, windowVars
<1>5. ASSUME NEW c \in Streams, ResetStream(c)
      PROVE  WindowsAgree'
  BY <1>5, OutdateKeepsWindows DEF ResetStream, countVars
<1>6. ASSUME NEW c \in Streams,
             AwaitWindow(c) \/ WindowRead(c) \/ WindowEnd(c)
      PROVE  WindowsAgree'
  <2>1. /\ life' = life
        /\ \A s \in Streams \ {c} : /\ window'[s] = window[s]
                                   /\ outdated'[s] = outdated[s]
                                   /\ abort'[s] = abort[s]
    BY <1>6 DEF AwaitWindow, WindowRead, WindowEnd, TypeOK, countVars
  <2>2. Registered' = Registered /\ (window'[c] # "idle" => c \in Registered)
    BY <1>6, <2>1
    DEF WindowsAgree, AwaitWindow, WindowRead, WindowEnd, TypeOK, Registered
  <2>3. CASE AwaitWindow(c) \/ WindowEnd(c)
    <3>1. ~ outdated'[c]
      BY <2>3 DEF WindowsAgree, AwaitWindow, WindowEnd, TypeOK
    <3>. QED
      BY <2>1, <2>2, <3>1 DEF WindowsAgree
  <2>4. CASE WindowRead(c)
    <3>1. /\ outdated'[c] = (outdated[c] /\ window'[c] # "idle")
          /\ abort'[c] = (abort[c] /\ window'[c] # "idle")
      BY <2>4, Zenon DEF WindowRead, TypeOK
    <3>2. outdated'[c] => window'[c] # "idle" /\ abort'[c]
      BY <3>1 DEF WindowsAgree
    <3>. QED
      BY <2>1, <2>2, <3>2 DEF WindowsAgree
  <2>. QED
    BY <1>6, <2>3, <2>4
<1>7. ASSUME NEW c \in Streams,
             FirstFrame(c) \/ \E d \in Deltas \cup {0} : NextFrame(c, d)
      PROVE  WindowsAgree'
  BY <1>7, SameWindows DEF FirstFrame, NextFrame, countVars
<1>8. ASSUME NEW c \in Streams, FrameStep(c)
      PROVE  WindowsAgree'
  <2>1. CASE FollowReset(c) \/ MatchReset(c)
    BY <2>1, OutdateKeepsWindows DEF FollowReset, MatchReset, ResetAll, countVars
  <2>2. CASE ~ FollowReset(c) /\ ~ MatchReset(c)
    BY <1>8, <2>2, SameWindows
    DEF FrameStep, InitiateJump, PartialCatchup, CompleteCatchup, Follow, Match,
        TranslatePlaybackTimeToSystem, TakeAlternate, NoAlternate, Join,
        SyncAgain, countVars
  <2>. QED
    BY <2>1, <2>2
<1>. QED
  BY <1>1, <1>2, <1>3, <1>4, <1>5, <1>6, <1>7, <1>8 DEF Next

LEMMA WindowsAlwaysAgree == Prompt => (Spec => [](IInv /\ WindowsAgree))
<1>. SUFFICES ASSUME Prompt PROVE Spec => [](IInv /\ WindowsAgree)
  OBVIOUS
<1>1. Init => WindowsAgree
  BY DEF Init, WindowsAgree
<1>2. IInv /\ WindowsAgree /\ [Next]_vars => IInv' /\ WindowsAgree'
  BY StepKeepsIInv, StepKeepsWindows DEF IInv
<1>. QED
  BY <1>1, <1>2, InitIInv, PTL DEF Spec

(* Whoever awaits a window of a mapping that was reset, replaced or        *)
(* re-scaled since it began is woken: WindowWaitAborted.                   *)
THEOREM OutdatedWaitsEnd == Prompt => (Spec => []WindowWaitAborted)
<1>1. IInv /\ WindowsAgree => WindowWaitAborted
  BY DEF WindowsAgree, WindowWaitAborted
<1>. QED
  BY <1>1, WindowsAlwaysAgree, PTL

(* Whoever synchronizes has a context: NobodyInside.                       *)
THEOREM ContextsAreKept == Prompt => (Spec => []NobodyInside)
<1>1. IInv /\ WindowsAgree => NobodyInside
  BY DEF IInv, FlagsAgree, WindowsAgree, NobodyInside, Registered
<1>. QED
  BY <1>1, WindowsAlwaysAgree, PTL
-----------------------------------------------------------------------------
(* The line from the parser to the re-ordering loop.  A marker's number is *)
(* above those of the frames before it, and not above that of the next;    *)
(* there is one at most, since a client drains once at a time.             *)
Elements(s)  == {s[i] : i \in 1 .. Len(s)}
Before(a, b) ==
  /\ a.kind = "frame" /\ b.kind \in {"frame", "marker"} => a.n < b.n
  /\ a.kind = "marker" /\ b.kind = "frame" => a.n <= b.n
  /\ ~(a.kind = "marker" /\ b.kind = "marker")
Ordered(s)   == \A i, j \in 1 .. Len(s) : i < j => Before(s[i], s[j])
All(S, T)    == \A a \in S, b \in T : Before(a, b)

Coming == Elements(decoded) \cup Elements(decoding) \cup Elements(parsed)
InLine ==
  /\ Ordered(decoded) /\ Ordered(decoding) /\ Ordered(parsed)
  /\ All(Elements(decoded), Elements(decoding))
  /\ All(Elements(decoded), Elements(parsed))
  /\ All(Elements(decoding), Elements(parsed))

(* What the calls need to know of the line and of the loop.                *)
Types ==
  /\ parsed \in Seq(Items) /\ decoding \in Seq(Items) /\ decoded \in Seq(Items)
  /\ last \in 0 .. MaxFrames /\ deferred \in 0 .. last
  /\ nextIndex \in Nat /\ index \in [Frames -> Nat \cup {InvalidIndex}]
  /\ references \in Seq(Frames) /\ breaks \in Nat
  /\ draining \in {"no", "discard", "marker"}
  /\ table \subseteq 1 .. last /\ hand \in 0 .. last
  /\ held \in 0 .. last + 1 /\ maximum \in 0 .. last + 1 /\ called \in 0 .. last + 1
  /\ minimum \in 0 .. Infinite
  /\ place \in {"scan", "skip", "next", "out"}

Taken     == table \cup ({hand} \ {NoFrame})
Closed(m) == \A f \in 1 .. last : f < m => index[f] # InvalidIndex

Indexed  == \A f \in 1 .. last : f # deferred => index[f] # InvalidIndex
Numbered ==
  \A a \in Coming :
    /\ a.kind = "frame" => a.n \in 1 .. last
    /\ a.kind = "marker" => a.n \in 1 .. last + 1 /\ Closed(a.n)
Ahead ==
  \A a \in Coming :
    /\ a.kind = "frame" => maximum <= a.n /\ called <= a.n /\ held <= a.n
    /\ a.kind \in {"frame", "marker"} => \A f \in Taken : f < a.n
Waiting ==
  /\ \A f \in Taken : called <= f
  /\ held # NoFrame => Closed(held) /\ \A f \in Taken : f < held
Looping ==
  /\ place # "scan" => \A f \in table : minimum <= f
  /\ place = "out" <=> hand # NoFrame
  /\ place \in {"skip", "next"} /\ held # NoFrame => table = {}

Marked ==
  /\ held # NoFrame \/ draining # "marker" => \A a \in Coming : a.kind # "marker"
  /\ held # NoFrame => draining = "marker"

ReorderIInv ==
  /\ Types /\ InLine /\ Indexed /\ Numbered /\ Ahead /\ Waiting /\ Looping /\ Marked
-----------------------------------------------------------------------------
(* Sequences of items.                                                     *)
LEMMA TailItems ==
  ASSUME NEW s \in Seq(Items), s # << >>
  PROVE  /\ Head(s) \in Items /\ Head(s) \in Elements(s) /\ Tail(s) \in Seq(Items)
         /\ \A a \in Elements(Tail(s)) : a \in Elements(s)
         /\ Ordered(s) => Ordered(Tail(s)) /\ All({Head(s)}, Elements(Tail(s)))
<1>1. /\ Len(s) \in Nat /\ Len(s) >= 1 /\ Head(s) = s[1] /\ Head(s) \in Items
      /\ Tail(s) \in Seq(Items) /\ Len(Tail(s)) = Len(s) - 1
      /\ \A i \in 1 .. Len(s) - 1 : Tail(s)[i] = s[i + 1] /\ i + 1 \in 1 .. Len(s)
  OBVIOUS
<1>2. Head(s) \in Elements(s) /\ \A a \in Elements(Tail(s)) : a \in Elements(s)
  BY <1>1 DEF Elements
<1>3. ASSUME Ordered(s) PROVE Ordered(Tail(s))
  <2>1. ASSUME NEW i \in 1 .. Len(Tail(s)), NEW j \in 1 .. Len(Tail(s)), i < j
        PROVE  Before(Tail(s)[i], Tail(s)[j])
    <3>1. /\ i + 1 \in 1 .. Len(s) /\ j + 1 \in 1 .. Len(s) /\ i + 1 < j + 1
          /\ Tail(s)[i] = s[i + 1] /\ Tail(s)[j] = s[j + 1]
      BY <1>1, <2>1
    <3>. QED
      BY <1>3, <3>1 DEF Ordered
  <2>. QED
    BY <2>1 DEF Ordered
<1>4. ASSUME Ordered(s), NEW b \in Elements(Tail(s)) PROVE Before(Head(s), b)
  <2>1. PICK i \in 1 .. Len(s) - 1 : b = s[i + 1]
    BY <1>1 DEF Elements
  <2>2. 1 \in 1 .. Len(s) /\ i + 1 \in 1 .. Len(s) /\ 1 < i + 1
    BY <1>1
  <2>. QED
    BY <1>1, <1>4, <2>1, <2>2 DEF Ordered
<1>. QED
  BY <1>1, <1>2, <1>3, <1>4 DEF All

LEMMA ConcatItems ==
  ASSUME NEW s \in Seq(Items), NEW t \in Seq(Items)
  PROVE  /\ s \o t \in Seq(Items)
         /\ Elements(s \o t) = Elements(s) \cup Elements(t)
         /\ Ordered(s) /\ Ordered(t) /\ All(Elements(s), Elements(t)) => Ordered(s \o t)
<1> DEFINE m == Len(s)
           n == Len(t)
           u == s \o t
<1>1. /\ m \in Nat /\ n \in Nat /\ u \in Seq(Items) /\ Len(u) = m + n
      /\ \A i \in 1 .. m : u[i] = s[i]
      /\ \A i \in m + 1 .. m + n : u[i] = t[i - m]
  OBVIOUS
<1>2. \A i \in 1 .. n : u[m + i] = t[i]
  BY <1>1
<1> HIDE DEF u
<1>3. Elements(u) = Elements(s) \cup Elements(t)
  <2>1. ASSUME NEW a \in Elements(u) PROVE a \in Elements(s) \cup Elements(t)
    <3>1. PICK i \in 1 .. m + n : a = u[i]
      BY <1>1 DEF Elements
    <3>2. CASE i <= m
      BY <1>1, <3>1, <3>2 DEF Elements
    <3>3. CASE i > m
      <4>1. i \in m + 1 .. m + n /\ i - m \in 1 .. n
        BY <1>1, <3>3
      <4>. QED
        BY <1>1, <3>1, <4>1 DEF Elements
    <3>. QED
      BY <1>1, <3>2, <3>3
  <2>2. ASSUME NEW a \in Elements(s) PROVE a \in Elements(u)
    <3>1. PICK i \in 1 .. m : a = s[i]
      BY DEF Elements
    <3>. QED
      BY <1>1, <3>1 DEF Elements
  <2>3. ASSUME NEW a \in Elements(t) PROVE a \in Elements(u)
    <3>1. PICK i \in 1 .. n : a = t[i]
      BY DEF Elements
    <3>2. m + i \in 1 .. m + n /\ u[m + i] = a
      BY <1>1, <1>2, <3>1
    <3>. QED
      BY <1>1, <3>2 DEF Elements
  <2>. QED
    BY <2>1, <2>2, <2>3
<1>4. ASSUME Ordered(s), Ordered(t), All(Elements(s), Elements(t)) PROVE Ordered(u)
  <2>1. ASSUME NEW i \in 1 .. m + n, NEW j \in 1 .. m + n, i < j
        PROVE  Before(u[i], u[j])
    <3>1. CASE j <= m
      BY <1>1, <1>4, <2>1, <3>1 DEF Ordered
    <3>2. CASE i <= m /\ j > m
      <4>1. u[i] \in Elements(s) /\ u[j] \in Elements(t)
        <5>1. i \in 1 .. m /\ j \in m + 1 .. m + n /\ j - m \in 1 .. n
          BY <1>1, <3>2
        <5>. QED
          BY <1>1, <5>1 DEF Elements
      <4>. QED
        BY <1>4, <4>1 DEF All
    <3>3. CASE i > m
      <4>1. /\ i \in m + 1 .. m + n /\ j \in m + 1 .. m + n
            /\ i - m \in 1 .. n /\ j - m \in 1 .. n /\ i - m < j - m
        BY <1>1, <2>1, <3>3
      <4>. QED
        BY <1>1, <1>4, <4>1 DEF Ordered
    <3>. QED
      BY <1>1, <2>1, <3>1, <3>2, <3>3
  <2>. QED
    BY <1>1, <2>1 DEF Ordered
<1>. QED
  BY <1>1, <1>3, <1>4 DEF u

LEMMA OneItem ==
  ASSUME NEW x \in Items
  PROVE  /\ <<x>> \in Seq(Items) /\ Elements(<<x>>) = {x} /\ Ordered(<<x>>)
         /\ \A s \in Seq(Items) : Append(s, x) = s \o <<x>>
<1>1. <<x>> \in Seq(Items) /\ Len(<<x>>) = 1 /\ <<x>>[1] = x
  OBVIOUS
<1>2. Elements(<<x>>) = {x} /\ Ordered(<<x>>)
  BY <1>1 DEF Elements, Ordered
<1>3. ASSUME NEW s \in Seq(Items) PROVE Append(s, x) = s \o <<x>>
  BY <1>3
<1>. QED
  BY <1>1, <1>2, <1>3

LEMMA AppendItem ==
  ASSUME NEW s \in Seq(Items), NEW x \in Items
  PROVE  /\ Append(s, x) \in Seq(Items)
         /\ Elements(Append(s, x)) = Elements(s) \cup {x}
         /\ Ordered(s) /\ All(Elements(s), {x}) => Ordered(Append(s, x))
BY OneItem, ConcatItems

(* What gives back frames of reference, and pokes, have no place in order. *)
LEMMA Unordered ==
  /\ \A a, b : a.kind \in {"release", "poke"} \/ b.kind \in {"release", "poke"} =>
       Before(a, b)
  /\ \A s : (\A a \in Elements(s) : a.kind \in {"release", "poke"}) => Ordered(s)
<1>1. \A a, b : a.kind \in {"release", "poke"} \/ b.kind \in {"release", "poke"} =>
        Before(a, b)
  BY DEF Before
<1>. QED
  BY <1>1 DEF Ordered, Elements

LEMMA ReleasedItems ==
  ASSUME NEW l \in Seq(Frames)
  PROVE  /\ Released(l) \in Seq(Items)
         /\ \A a \in Elements(Released(l)) : a.kind = "release"
<1>1. /\ Len(l) \in Nat
      /\ \A i \in 1 .. Len(l) : l[i] \in 1 .. MaxFrames
      /\ MaxFrames \in Nat
  BY ReorderAssumption DEF Frames
<1>2. \A i \in 1 .. Len(l) : Item("release", l[i]) \in Items
  BY <1>1 DEF Item, Items, Infinite
<1> DEFINE g(i) == Item("release", l[i])
<1>3. \A i \in 1 .. Len(l) : g(i) \in Items /\ g(i).kind = "release"
  BY <1>2 DEF Item
<1>4. Released(l) = [i \in 1 .. Len(l) |-> g(i)]
  BY DEF Released
<1> HIDE DEF g
<1>5. /\ Released(l) \in Seq(Items) /\ Len(Released(l)) = Len(l)
      /\ \A i \in 1 .. Len(l) : Released(l)[i] = g(i)
  BY <1>1, <1>3, <1>4
<1>. QED
  BY <1>3, <1>5 DEF Elements
-----------------------------------------------------------------------------
(* Steps before the loop.  What comes is what came, or what has no place,  *)
(* or is new and has the next number.                                      *)
LEMMA SimpleTypes ==
  ASSUME Types
  PROVE  /\ MaxFrames \in Nat /\ last \in Nat /\ InvalidIndex \notin Int /\ 1 .. last \subseteq Frames
         /\ table \subseteq Nat /\ hand \in Nat /\ deferred \in Nat
         /\ held \in Nat /\ maximum \in Nat /\ called \in Nat /\ minimum \in Nat
         /\ \A f \in Taken : f \in 1 .. last
BY ReorderAssumption DEF Types, Frames, Infinite, Taken, NoFrame

LEMMA ComingItems ==
  ASSUME Types
  PROVE  Coming \subseteq Items /\ \A a \in Coming : a.n \in Nat
<1>1. ASSUME NEW s \in Seq(Items) PROVE Elements(s) \subseteq Items
  BY DEF Elements
<1>2. \A a \in Items : a.n \in Nat
  BY ReorderAssumption DEF Items, Infinite
<1>. QED
  BY <1>1, <1>2 DEF Types, Coming

LEMMA LineMoves ==
  ASSUME ReorderIInv, Types', InLine', Indexed', last' \in {last, last + 1},
         UNCHANGED <<table, held, place, hand, maximum, minimum, called>>,
         \A f \in 1 .. last : index[f] # InvalidIndex => index'[f] # InvalidIndex,
         \A a \in Coming' :
           \/ a \in Coming
           \/ a.kind \in {"release", "poke"}
           \/ a.kind = "frame" /\ a.n = last + 1 /\ last' = last + 1
           \/ /\ a.kind = "marker" /\ a.n = last + 1 /\ last' = last
              /\ \A f \in 1 .. last : index'[f] # InvalidIndex
              /\ draining # "marker" /\ draining' = "marker",
         UNCHANGED draining \/ draining # "marker"
  PROVE  ReorderIInv'
<1>0. Types /\ last \in Nat /\ last' \in Nat /\ last <= last'
  BY SimpleTypes DEF ReorderIInv
<1>1. ASSUME NEW m \in 0 .. last + 1, Closed(m) PROVE Closed(m)'
  BY <1>0, <1>1 DEF Closed
<1>2. Numbered'
  <2>1. ASSUME NEW a \in Coming'
        PROVE  /\ a.kind = "frame" => a.n \in 1 .. last'
               /\ a.kind = "marker" => a.n \in 1 .. last' + 1 /\ Closed(a.n)'
    <3>1. CASE a \in Coming
      <4>1. a.kind = "frame" => a.n \in 1 .. last'
        BY <1>0, <3>1 DEF ReorderIInv, Numbered
      <4>2. a.kind = "marker" => a.n \in 1 .. last + 1 /\ Closed(a.n)
        BY <3>1 DEF ReorderIInv, Numbered
      <4>. QED
        BY <1>0, <1>1, <4>1, <4>2
    <3>2. CASE a \notin Coming
      <4>1. a.kind = "frame" => a.n = last + 1 /\ last' = last + 1
        BY <3>2
      <4>2. a.kind = "marker" =>
              a.n = last + 1 /\ last' = last /\ \A f \in 1 .. last : index'[f] # InvalidIndex
        BY <3>2
      <4>3. a.kind = "marker" => Closed(a.n)'
        BY <4>2 DEF Closed
      <4>. QED
        BY <1>0, <4>1, <4>2, <4>3
    <3>. QED
      BY <3>1, <3>2
  <2>. QED
    BY <2>1 DEF Numbered
<1>3. Taken' = Taken /\ \A f \in Taken : f \in 1 .. last
  BY <1>0, SimpleTypes DEF Taken
<1>4. Ahead'
  <2>1. ASSUME NEW a \in Coming'
        PROVE  /\ a.kind = "frame" => maximum <= a.n /\ called <= a.n /\ held <= a.n
               /\ a.kind \in {"frame", "marker"} => \A f \in Taken : f < a.n
    <3>1. CASE a \in Coming
      BY <3>1 DEF ReorderIInv, Ahead
    <3>2. CASE a \notin Coming
      <4>1. /\ maximum \in 0 .. last + 1 /\ called \in 0 .. last + 1
            /\ held \in 0 .. last + 1
        BY <1>0 DEF Types
      <4>2. a.kind \in {"frame", "marker"} => a.n = last + 1
        BY <3>2
      <4>. QED
        BY <1>0, <1>3, <4>1, <4>2
    <3>. QED
      BY <3>1, <3>2
  <2>. QED
    BY <1>3, <2>1 DEF Ahead
<1>5. Waiting'
  <2>1. held # NoFrame => Closed(held)'
    BY <1>1 DEF ReorderIInv, Waiting, Types
  <2>. QED
    BY <1>3, <2>1 DEF ReorderIInv, Waiting
<1>6. Looping'
  BY DEF ReorderIInv, Looping
<1>7. Marked'
  BY DEF ReorderIInv, Marked
<1>. QED
  BY <1>2, <1>4, <1>5, <1>6, <1>7 DEF ReorderIInv

LEMMA ParsedGrows ==
  ASSUME ReorderIInv, UNCHANGED <<decoding, decoded>>, Ordered(parsed'),
         \A b \in Elements(parsed') :
           b \in Elements(parsed) \/ \A a \in Coming : Before(a, b)
  PROVE  InLine'
BY DEF ReorderIInv, InLine, All, Coming

LEMMA IndexGrows ==
  ASSUME Types, NEW f \in 0 .. MaxFrames, CalculateFrameIndex(f)
  PROVE  /\ index' \in [Frames -> Nat \cup {InvalidIndex}] /\ nextIndex' \in Nat
         /\ \A g \in Frames : index[g] # InvalidIndex => index'[g] # InvalidIndex
         /\ f # NoFrame => index'[f] # InvalidIndex
<1>0. MaxFrames \in Nat /\ \A n \in Nat : n # InvalidIndex
  BY ReorderAssumption
<1>1. CASE f = NoFrame
  BY <1>1 DEF CalculateFrameIndex, Types
<1>2. CASE f # NoFrame
  <2>1. f \in Frames /\ nextIndex \in Nat
    BY <1>0, <1>2 DEF Frames, NoFrame, Types
  <2>2. index' = [index EXCEPT ![f] = nextIndex] /\ nextIndex' = nextIndex + 1
    BY <1>2 DEF CalculateFrameIndex
  <2>. QED
    BY <1>0, <2>1, <2>2 DEF Types
<1>. QED
  BY <1>1, <1>2

LEMMA FrameFits ==
  ASSUME Types, MayParse
  PROVE  last + 1 \in Frames
<1>1. last \in Nat /\ MaxFrames \in Nat /\ breaks \in Nat /\ BreakCost \in Nat
  BY SimpleTypes, ReorderAssumption DEF Types
<1> DEFINE c == BreakCost * breaks
<1>2. c >= 0 /\ c \in Int
  BY <1>1
<1>3. last + c < MaxFrames
  BY DEF MayParse
<1> HIDE DEF c
<1>. QED
  BY <1>1, <1>2, <1>3 DEF Frames

(* A new frame, and a frame of reference that is given back.               *)
LEMMA FrameParsed ==
  ASSUME ReorderIInv, MayParse, last' = last + 1, NEW l \in Seq(Frames),
         parsed' = Append(parsed, Item("frame", last + 1)) \o Released(l),
         UNCHANGED <<decoding, decoded, table, held, place, hand, maximum, minimum,
                     called, draining, breaks>>,
         deferred' \in 0 .. last', references' \in Seq(Frames),
         index' \in [Frames -> Nat \cup {InvalidIndex}], nextIndex' \in Nat,
         \A g \in Frames : index[g] # InvalidIndex => index'[g] # InvalidIndex,
         Indexed'
  PROVE  ReorderIInv'
<1> DEFINE x == Item("frame", last + 1)
<1>0. Types /\ last \in Nat /\ MaxFrames \in Nat /\ breaks \in Nat /\ 1 .. last \subseteq Frames
  BY SimpleTypes DEF ReorderIInv, Types
<1>1. last + 1 <= MaxFrames
  BY <1>0, FrameFits DEF Frames
<1>2. x \in Items /\ x.kind = "frame" /\ x.n = last + 1
  BY <1>0, <1>1 DEF Items, Item, Infinite
<1>3. \A a \in Coming : Before(a, x)
  BY <1>0, <1>2, ComingItems DEF ReorderIInv, Numbered, Before
<1> HIDE DEF x
<1>4. /\ parsed' \in Seq(Items) /\ Ordered(parsed')
      /\ Elements(parsed') = Elements(parsed) \cup {x} \cup Elements(Released(l))
  <2>1. parsed' = Append(parsed, x) \o Released(l)
    BY DEF x
  <2>2. parsed \in Seq(Items) /\ Ordered(parsed) /\ All(Elements(parsed), {x})
    BY <1>3 DEF ReorderIInv, Types, InLine, All, Coming
  <2>3. /\ Append(parsed, x) \in Seq(Items) /\ Ordered(Append(parsed, x))
        /\ Elements(Append(parsed, x)) = Elements(parsed) \cup {x}
    BY <1>2, <2>2, AppendItem
  <2>4. /\ Released(l) \in Seq(Items) /\ Ordered(Released(l))
        /\ All(Elements(Append(parsed, x)), Elements(Released(l)))
    BY ReleasedItems, Unordered DEF All
  <2>. QED
    BY <2>1, <2>3, <2>4, ConcatItems
<1>5. \A a \in Elements(Released(l)) : a.kind = "release"
  BY ReleasedItems
<1>6. InLine'
  BY <1>3, <1>4, <1>5, ParsedGrows, Unordered
<1>7. Types'
  <2>1. /\ table \subseteq 1 .. last' /\ hand \in 0 .. last' /\ held \in 0 .. last' + 1
        /\ maximum \in 0 .. last' + 1 /\ called \in 0 .. last' + 1
        /\ last' \in 0 .. MaxFrames
    BY <1>0, <1>1 DEF Types
  <2>. QED
    BY <1>0, <1>4, <2>1 DEF Types
<1>8. \A a \in Coming' : \/ a \in Coming \/ a.kind = "release" \/ a = x
  BY <1>4, <1>5 DEF Coming
<1>. QED
  BY <1>0, <1>2, <1>6, <1>7, <1>8, LineMoves

LEMMA ParseKeepsIInv ==
  ASSUME ReorderIInv, ParseReference \/ ParseOther
  PROVE  ReorderIInv'
<1>0. /\ Types /\ Indexed /\ last \in Nat /\ MaxFrames \in Nat /\ deferred \in 0 .. last
      /\ last \in 0 .. MaxFrames /\ 1 .. last \subseteq Frames
  BY SimpleTypes DEF ReorderIInv, Types
<1>1. CASE ParseReference
  <2> DEFINE oldest == IF Len(references) = 2 THEN <<Head(references)>> ELSE << >>
  <2>1. /\ CalculateFrameIndex(deferred) /\ deferred' = last + 1 /\ last' = last + 1
        /\ references' = Append(IF oldest = << >> THEN references
                                ELSE Tail(references), last + 1)
        /\ parsed' = Append(parsed, Item("frame", last + 1)) \o Released(oldest)
        /\ UNCHANGED <<decoding, decoded, table, held, place, hand, maximum, minimum,
                       called, draining, breaks>>
        /\ MayParse
    BY <1>1 DEF ParseReference, loopVars, clientVars
  <2>2. deferred \in 0 .. MaxFrames
    BY <1>0
  <2>3. /\ index' \in [Frames -> Nat \cup {InvalidIndex}] /\ nextIndex' \in Nat
        /\ \A g \in Frames : index[g] # InvalidIndex => index'[g] # InvalidIndex
        /\ deferred # NoFrame => index'[deferred] # InvalidIndex
    BY <1>0, <2>1, <2>2, IndexGrows
  <2>4. Indexed'
    BY <1>0, <2>1, <2>3 DEF Indexed, NoFrame
  <2>5. oldest \in Seq(Frames) /\ references' \in Seq(Frames)
    <3>1. references \in Seq(Frames) /\ Len(references) \in Nat
      BY <1>0 DEF Types
    <3>2. Len(references) = 2 => Head(references) \in Frames /\ Tail(references) \in Seq(Frames)
      BY <3>1
    <3>3. last + 1 \in Frames
      BY <1>0, <2>1, FrameFits
    <3>4. Append(references, last + 1) \in Seq(Frames)
      BY <3>1, <3>3
    <3>5. oldest # << >> => Append(Tail(references), last + 1) \in Seq(Frames)
      BY <3>1, <3>2, <3>3
    <3>. QED
      BY <2>1, <3>1, <3>2, <3>4, <3>5
  <2>6. deferred' \in 0 .. last'
    BY <1>0, <2>1
  <2> HIDE DEF oldest
  <2>. QED
    BY <2>1, <2>3, <2>4, <2>5, <2>6, FrameParsed
<1>2. CASE ParseOther
  <2>1. /\ CalculateFrameIndex(last + 1) /\ deferred' = deferred /\ last' = last + 1
        /\ references' = references
        /\ parsed' = Append(parsed, Item("frame", last + 1))
        /\ UNCHANGED <<decoding, decoded, table, held, place, hand, maximum, minimum,
                       called, draining, breaks>>
        /\ MayParse
    BY <1>2 DEF ParseOther, loopVars, clientVars
  <2>2. last + 1 \in 0 .. MaxFrames /\ last + 1 # NoFrame /\ last + 1 \in Frames
    BY <1>0, <2>1, FrameFits DEF Frames, NoFrame
  <2>3. /\ index' \in [Frames -> Nat \cup {InvalidIndex}] /\ nextIndex' \in Nat
        /\ \A g \in Frames : index[g] # InvalidIndex => index'[g] # InvalidIndex
        /\ index'[last + 1] # InvalidIndex
    BY <1>0, <2>1, <2>2, IndexGrows
  <2>4. Indexed'
    BY <1>0, <2>1, <2>3 DEF Indexed
  <2>5. << >> \in Seq(Frames) /\ deferred' \in 0 .. last' /\ references' \in Seq(Frames)
    BY <1>0, <2>1 DEF Types
  <2>6. parsed' = Append(parsed, Item("frame", last + 1)) \o Released(<< >>)
    <3>1. parsed \in Seq(Items) /\ Item("frame", last + 1) \in Items
      BY <1>0, <2>2 DEF Types, Item, Items, Infinite, Frames
    <3>2. Released(<< >>) = << >>
      BY DEF Released
    <3>3. Append(parsed, Item("frame", last + 1)) \in Seq(Items)
      BY <3>1
    <3>. QED
      BY <2>1, <3>2, <3>3
  <2>. QED
    BY <2>1, <2>3, <2>4, <2>5, <2>6, FrameParsed
<1>. QED
  BY <1>1, <1>2

LEMMA DiscontinuityIndexes ==
  ASSUME Types, Indexed, Discontinuity
  PROVE  /\ index' \in [Frames -> Nat \cup {InvalidIndex}] /\ nextIndex' \in Nat
         /\ deferred' = NoFrame /\ references' \in Seq(Frames) /\ last' = last
         /\ \A g \in Frames : index[g] # InvalidIndex => index'[g] # InvalidIndex
         /\ \A f \in 1 .. last : index'[f] # InvalidIndex
<1>0. /\ deferred \in 0 .. last /\ 1 .. last \subseteq Frames
      /\ last \in Nat /\ \A n \in Nat : n # InvalidIndex
  BY SimpleTypes, ReorderAssumption DEF Types
<1>1. CASE deferred = NoFrame
  BY <1>0, <1>1 DEF Discontinuity, Types, Indexed, NoFrame
<1>2. CASE deferred # NoFrame
  <2>1. deferred \in Frames /\ nextIndex \in Nat
    BY <1>0, <1>2 DEF NoFrame, Types
  <2>2. index' = [index EXCEPT ![deferred] = nextIndex] /\ nextIndex' = nextIndex + 1
    BY <1>2 DEF Discontinuity
  <2>. QED
    BY <1>0, <2>1, <2>2 DEF Discontinuity, Types, Indexed
<1>. QED
  BY <1>1, <1>2

LEMMA JumpKeepsIInv ==
  ASSUME ReorderIInv, InputJump
  PROVE  ReorderIInv'
<1>0. Types /\ Indexed /\ last \in Nat
  BY SimpleTypes DEF ReorderIInv
<1>1. /\ Discontinuity /\ parsed' = parsed \o Released(references) /\ breaks' = breaks + 1
      /\ UNCHANGED <<decoding, decoded, table, held, place, hand, maximum, minimum, called,
                     draining>>
  BY DEF InputJump, loopVars
<1>2. /\ index' \in [Frames -> Nat \cup {InvalidIndex}] /\ nextIndex' \in Nat
      /\ deferred' = NoFrame /\ references' \in Seq(Frames) /\ last' = last
      /\ \A f \in 1 .. last : index'[f] # InvalidIndex
  BY <1>0, <1>1, DiscontinuityIndexes
<1>3. /\ Released(references) \in Seq(Items)
      /\ \A a \in Elements(Released(references)) : a.kind = "release"
  BY <1>0, ReleasedItems DEF Types
<1>4. parsed \in Seq(Items) /\ Ordered(parsed) /\ Ordered(Released(references))
      /\ All(Elements(parsed), Elements(Released(references)))
  BY <1>0, <1>3, Unordered DEF ReorderIInv, InLine, Types, All
<1>5. /\ parsed' \in Seq(Items) /\ Ordered(parsed')
      /\ Elements(parsed') = Elements(parsed) \cup Elements(Released(references))
  BY <1>1, <1>3, <1>4, ConcatItems
<1>6. InLine'
  BY <1>1, <1>3, <1>5, ParsedGrows, Unordered
<1>7. Types'
  BY <1>0, <1>1, <1>2, <1>5 DEF Types, NoFrame
<1>8. \A a \in Coming' : a \in Coming \/ a.kind = "release"
  BY <1>1, <1>3, <1>5 DEF Coming
<1>9. Indexed'
  BY <1>2 DEF Indexed
<1>. QED
  BY <1>1, <1>2, <1>6, <1>7, <1>8, <1>9, LineMoves

LEMMA MarkerKeepsIInv ==
  ASSUME ReorderIInv, InsertMarker
  PROVE  ReorderIInv'
<1> DEFINE x == Item("marker", last + 1)
           r == Released(references)
<1>0. Types /\ Indexed /\ last \in Nat /\ MaxFrames \in Nat /\ last \in 0 .. MaxFrames
  BY SimpleTypes DEF ReorderIInv, Types
<1>1. /\ Discontinuity /\ parsed' = Append(parsed \o r, x)
      /\ draining = "discard" /\ draining' = "marker"
      /\ UNCHANGED <<decoding, decoded, table, held, place, hand, maximum, minimum, called,
                     breaks>>
  BY <1>0 DEF InsertMarker, loopVars, Types
<1>2. /\ index' \in [Frames -> Nat \cup {InvalidIndex}] /\ nextIndex' \in Nat
      /\ deferred' = NoFrame /\ references' \in Seq(Frames) /\ last' = last
      /\ \A f \in 1 .. last : index'[f] # InvalidIndex
  BY <1>0, <1>1, DiscontinuityIndexes
<1>3. r \in Seq(Items) /\ \A a \in Elements(r) : a.kind = "release"
  BY <1>0, ReleasedItems DEF Types
<1>4. x \in Items /\ x.kind = "marker" /\ x.n = last + 1
  BY <1>0 DEF Items, Item, Infinite
<1>5. \A a \in Coming : Before(a, x)
  BY <1>0, <1>1, <1>4, ComingItems DEF ReorderIInv, Numbered, Marked, Before
<1> HIDE DEF x, r
<1>6. /\ parsed' \in Seq(Items) /\ Ordered(parsed')
      /\ Elements(parsed') = Elements(parsed) \cup Elements(r) \cup {x}
  <2>1. /\ parsed \in Seq(Items) /\ Ordered(parsed) /\ Ordered(r)
        /\ All(Elements(parsed), Elements(r)) /\ All(Elements(parsed), {x})
    BY <1>0, <1>3, <1>5, Unordered DEF ReorderIInv, InLine, Types, All, Coming
  <2>2. /\ parsed \o r \in Seq(Items) /\ Ordered(parsed \o r)
        /\ Elements(parsed \o r) = Elements(parsed) \cup Elements(r)
    BY <1>3, <2>1, ConcatItems
  <2>3. All(Elements(parsed \o r), {x})
    BY <1>3, <2>1, <2>2, Unordered DEF All
  <2>. QED
    BY <1>1, <1>4, <2>2, <2>3, AppendItem
<1>7. InLine'
  BY <1>1, <1>3, <1>5, <1>6, ParsedGrows, Unordered
<1>8. Types'
  BY <1>0, <1>1, <1>2, <1>6 DEF Types, NoFrame
<1>9. \A a \in Coming' : a \in Coming \/ a.kind = "release" \/ a = x
  BY <1>1, <1>3, <1>6 DEF Coming
<1>10. Indexed'
  BY <1>2 DEF Indexed
<1>. QED
  BY <1>1, <1>2, <1>4, <1>7, <1>8, <1>9, <1>10, LineMoves

LEMMA DrainKeepsIInv ==
  ASSUME ~PlaysOut, ReorderIInv, NEW mode \in {"discard", "playout"}, Drain(mode)
  PROVE  ReorderIInv'
<1>1. /\ draining = "no" /\ draining' = "discard" /\ breaks' = breaks + 1
      /\ UNCHANGED <<parsed, decoding, decoded, last, deferred, nextIndex, index, references,
                     table, held, place, hand, maximum, minimum, called>>
  BY DEF Drain, parserVars, loopVars
<1>2. Types' /\ InLine' /\ Indexed'
  BY <1>1 DEF ReorderIInv, Types, InLine, Indexed
<1>3. Coming' = Coming
  BY <1>1 DEF Coming
<1>. QED
  BY <1>1, <1>2, <1>3, LineMoves

(* An item goes to the next stage, or is lost between the two.             *)
LEMMA StagesMove ==
  ASSUME ReorderIInv, TakeControl \/ Decode \/ RecordNonDecodedFrame \/ DecodeComplete \/ Manifested
  PROVE  /\ parsed' \in Seq(Items) /\ decoding' \in Seq(Items) /\ decoded' \in Seq(Items)
         /\ InLine'
         /\ \A a \in Coming' : a \in Coming \/ a.kind = "poke"
<1>0. /\ Types /\ InLine /\ parsed \in Seq(Items) /\ decoding \in Seq(Items)
      /\ decoded \in Seq(Items)
  BY DEF ReorderIInv, Types
<1>1. \/ /\ parsed # << >> /\ parsed' = Tail(parsed) /\ decoded' = decoded
         /\ decoding' = decoding \/ decoding' = Append(decoding, Head(parsed))
      \/ /\ parsed # << >> /\ parsed' = Tail(parsed) /\ decoding' = decoding
         /\ decoded' = decoded \/ decoded' = Append(decoded, Item("poke", 0))
      \/ /\ decoding # << >> /\ decoding' = Tail(decoding) /\ parsed' = parsed
         /\ decoded' = decoded \/ decoded' = Append(decoded, Head(decoding))
      \/ UNCHANGED <<parsed, decoding, decoded>>
  BY DEF TakeControl, Decode, RecordNonDecodedFrame, DecodeComplete, Manifested
<1>2. CASE /\ parsed # << >> /\ parsed' = Tail(parsed) /\ decoded' = decoded
           /\ decoding' = decoding \/ decoding' = Append(decoding, Head(parsed))
  <2> DEFINE x == Head(parsed)
  <2>1. /\ x \in Items /\ x \in Elements(parsed) /\ parsed' \in Seq(Items)
        /\ \A a \in Elements(parsed') : a \in Elements(parsed)
        /\ Ordered(parsed') /\ All({x}, Elements(parsed'))
    BY <1>0, <1>2, TailItems DEF InLine
  <2> HIDE DEF x
  <2>2. All(Elements(decoding), {x})
    BY <1>0, <2>1 DEF InLine, All
  <2>3. /\ decoding' \in Seq(Items) /\ Ordered(decoding')
        /\ \A a \in Elements(decoding') : a \in Elements(decoding) \/ a = x
    <3>1. CASE decoding' = decoding
      BY <1>0, <3>1 DEF InLine
    <3>2. CASE decoding' = Append(decoding, x)
      BY <1>0, <2>1, <2>2, <3>2, AppendItem DEF InLine
    <3>. QED
      BY <1>2, <3>1, <3>2 DEF x
  <2>4. InLine'
    BY <1>0, <1>2, <2>1, <2>3 DEF InLine, All
  <2>. QED
    BY <1>0, <1>2, <2>1, <2>3, <2>4 DEF Coming
<1>3. CASE /\ parsed # << >> /\ parsed' = Tail(parsed) /\ decoding' = decoding
           /\ decoded' = decoded \/ decoded' = Append(decoded, Item("poke", 0))
  <2> DEFINE x == Item("poke", 0)
  <2>1. /\ parsed' \in Seq(Items) /\ Ordered(parsed')
        /\ \A a \in Elements(parsed') : a \in Elements(parsed)
    BY <1>0, <1>3, TailItems DEF InLine
  <2>2. x \in Items /\ x.kind = "poke"
    BY ReorderAssumption DEF Items, Item, Infinite
  <2> HIDE DEF x
  <2>3. /\ decoded' \in Seq(Items) /\ Ordered(decoded')
        /\ \A a \in Elements(decoded') : a \in Elements(decoded) \/ a = x
    <3>1. CASE decoded' = decoded
      BY <1>0, <3>1 DEF InLine
    <3>2. CASE decoded' = Append(decoded, x)
      BY <1>0, <2>2, <3>2, AppendItem, Unordered DEF InLine, All
    <3>. QED
      BY <1>3, <3>1, <3>2 DEF x
  <2>4. InLine'
    BY <1>0, <1>3, <2>1, <2>2, <2>3, Unordered DEF InLine, All
  <2>. QED
    BY <1>0, <1>3, <2>1, <2>2, <2>3, <2>4 DEF Coming
<1>4. CASE /\ decoding # << >> /\ decoding' = Tail(decoding) /\ parsed' = parsed
           /\ decoded' = decoded \/ decoded' = Append(decoded, Head(decoding))
  <2> DEFINE x == Head(decoding)
  <2>1. /\ x \in Items /\ x \in Elements(decoding) /\ decoding' \in Seq(Items)
        /\ \A a \in Elements(decoding') : a \in Elements(decoding)
        /\ Ordered(decoding') /\ All({x}, Elements(decoding'))
    BY <1>0, <1>4, TailItems DEF InLine
  <2> HIDE DEF x
  <2>2. All(Elements(decoded), {x})
    BY <1>0, <2>1 DEF InLine, All
  <2>3. /\ decoded' \in Seq(Items) /\ Ordered(decoded')
        /\ \A a \in Elements(decoded') : a \in Elements(decoded) \/ a = x
    <3>1. CASE decoded' = decoded
      BY <1>0, <3>1 DEF InLine
    <3>2. CASE decoded' = Append(decoded, x)
      BY <1>0, <2>1, <2>2, <3>2, AppendItem DEF InLine
    <3>. QED
      BY <1>4, <3>1, <3>2 DEF x
  <2>4. InLine'
    BY <1>0, <1>4, <2>1, <2>3 DEF InLine, All
  <2>. QED
    BY <1>0, <1>4, <2>1, <2>3, <2>4 DEF Coming
<1>5. CASE UNCHANGED <<parsed, decoding, decoded>>
  BY <1>0, <1>5 DEF InLine, Coming
<1>. QED
  BY <1>1, <1>2, <1>3, <1>4, <1>5

LEMMA StagesKeepIInv ==
  ASSUME ReorderIInv, TakeControl \/ Decode \/ RecordNonDecodedFrame \/ DecodeComplete \/ Manifested
  PROVE  ReorderIInv'
<1>1. UNCHANGED <<last, deferred, nextIndex, index, references, table, held, place, hand,
                  maximum, minimum, called, draining, breaks>>
  BY DEF TakeControl, Decode, RecordNonDecodedFrame, DecodeComplete, Manifested,
         parserVars, loopVars, clientVars
<1>2. Types' /\ Indexed'
  BY <1>1, StagesMove DEF Types, ReorderIInv, Indexed
<1>. QED
  BY <1>1, <1>2, StagesMove, LineMoves
-----------------------------------------------------------------------------
(* The loop.                                                               *)
LEMMA LeastExists ==
  ASSUME NEW S \in SUBSET Nat, S # {}
  PROVE  \E m \in S : \A j \in S : m <= j
<1> DEFINE Below == {0 .. n : n \in S}
<1>1. \A n \in S : 0 .. n \in FiniteSubsetsOf(Nat)
  BY FS_Interval DEF FiniteSubsetsOf
<1>2. Below \subseteq FiniteSubsetsOf(Nat) /\ Below # {}
  BY <1>1
<1>3. PICK I \in Below : \A J \in Below : <<J, I>> \notin StrictSubsetOrdering(Nat)
  BY <1>2, FS_StrictSubsetOrderingWellFounded, WFMin
<1>4. PICK m \in S : I = 0 .. m
  BY <1>3
<1>5. ASSUME NEW j \in S, j < m PROVE FALSE
  <2>1. /\ 0 .. j \in Below /\ 0 .. j \subseteq 0 .. m
        /\ m \in 0 .. m /\ m \notin 0 .. j
    BY <1>5
  <2>2. <<0 .. j, 0 .. m>> \in StrictSubsetOrdering(Nat)
    BY <2>1 DEF StrictSubsetOrdering
  <2>. QED
    BY <1>3, <1>4, <2>1, <2>2
<1>. QED
  BY <1>5

LEMMA LowestIsLeast ==
  ASSUME Types, Known # {}
  PROVE  Lowest \in Known /\ \A g \in Known : index[Lowest] <= index[g]
<1> DEFINE S == {index[f] : f \in Known}
<1>1. \A f \in Known : index[f] \in Nat
  BY SimpleTypes DEF Types, Known
<1>2. PICK m \in S : \A j \in S : m <= j
  BY <1>1, LeastExists
<1>3. \E f \in Known : \A g \in Known : index[f] <= index[g]
  BY <1>2
<1>. QED
  BY <1>3 DEF Lowest

LEMMA LeastOfTheTable ==
  ASSUME Types, table # {}
  PROVE  Least(table) \in 0 .. last /\ \A f \in table : Least(table) <= f
<1>1. \E m \in table : \A j \in table : m <= j
  BY SimpleTypes, LeastExists
<1>2. Least(table) \in table /\ \A f \in table : Least(table) <= f
  BY <1>1 DEF Least
<1>3. table \subseteq 1 .. last /\ 1 .. last \subseteq 0 .. last
  BY SimpleTypes DEF Types
<1>. QED
  BY <1>2, <1>3

(* A step of the loop that takes nothing from the line.                    *)
LEMMA LineStays ==
  ASSUME ReorderIInv,
         UNCHANGED <<parsed, decoding, decoded, last, deferred, nextIndex, index,
                     references, breaks>>
  PROVE  /\ InLine' /\ Indexed' /\ Numbered' /\ Coming' = Coming
         /\ \A m : Closed(m)' <=> Closed(m)
<1>1. \A m : Closed(m)' <=> Closed(m)
  BY DEF Closed
<1>2. Coming' = Coming
  BY DEF Coming
<1>. QED
  BY <1>1, <1>2 DEF ReorderIInv, InLine, Indexed, Numbered

LEMMA ScanKeepsIInv ==
  ASSUME ReorderIInv, Scan
  PROVE  ReorderIInv'
<1>0. Types /\ place = "scan" /\ hand = NoFrame
  BY DEF ReorderIInv, Looping, Scan
<1>1. /\ minimum' = IF table = {} THEN Infinite ELSE Least(table)
      /\ UNCHANGED <<parsed, decoding, decoded, last, deferred, nextIndex, index,
                     references, breaks, draining, held, maximum, called>>
  BY DEF Scan, parserVars, clientVars
<1>2. minimum' \in 0 .. Infinite /\ \A f \in table : minimum' <= f
  BY <1>0, <1>1, LeastOfTheTable, SimpleTypes DEF Infinite, Types
<1>3. \/ /\ Lowest \in table /\ table' = table \ {Lowest} /\ hand' = Lowest /\ place' = "out"
      \/ /\ ~ScanTakes /\ table' = table /\ hand' = NoFrame /\ place' = "skip"
  <2>1. ScanTakes => Lowest \in table
    BY <1>0, LowestIsLeast DEF ScanTakes, Known
  <2>. QED
    BY <1>0, <2>1 DEF Scan
<1>4. table \subseteq 1 .. last /\ last \in Nat
  BY <1>0, SimpleTypes DEF Types
<1>5. Types' /\ Taken' = Taken /\ (place' = "out" <=> hand' # NoFrame)
  <2>1. CASE Lowest \in table /\ table' = table \ {Lowest} /\ hand' = Lowest /\ place' = "out"
    <3>1. hand' \in 1 .. last /\ hand' # NoFrame
      BY <1>4, <2>1 DEF NoFrame
    <3>2. Taken' = Taken
      BY <1>0, <2>1, <3>1 DEF Taken
    <3>. QED
      BY <1>0, <1>1, <1>2, <1>4, <2>1, <3>1, <3>2 DEF Types
  <2>2. CASE ~ScanTakes /\ table' = table /\ hand' = NoFrame /\ place' = "skip"
    BY <1>0, <1>1, <1>2, <1>4, <2>2 DEF Types, Taken
  <2>. QED
    BY <1>3, <2>1, <2>2
<1>6. ASSUME place' = "skip", held # NoFrame PROVE table = {}
  <2>1. ~ScanTakes
    BY <1>3, <1>6
  <2>2. \A f \in table : index[f] = InvalidIndex
    BY <1>6, <2>1 DEF ScanTakes, Known
  <2>3. \A f \in table : f < held /\ f \in 1 .. last
    BY <1>4, <1>6 DEF ReorderIInv, Waiting, Taken, NoFrame
  <2>4. \A f \in 1 .. last : f < held => index[f] # InvalidIndex
    BY <1>6 DEF ReorderIInv, Waiting, Closed
  <2>. QED
    BY <2>2, <2>3, <2>4
<1>7. Looping'
  BY <1>1, <1>2, <1>3, <1>5, <1>6 DEF Looping
<1>8. Ahead' /\ Waiting' /\ Marked'
  BY <1>1, <1>5, LineStays DEF ReorderIInv, Ahead, Waiting, Marked
<1>. QED
  BY <1>1, <1>5, <1>7, <1>8, LineStays DEF ReorderIInv

LEMMA SkipKeepsIInv ==
  ASSUME ReorderIInv, Skip
  PROVE  ReorderIInv'
<1>1. /\ place = "skip" /\ place' = "next"
      /\ UNCHANGED <<parsed, decoding, decoded, last, deferred, nextIndex, index,
                     references, breaks, draining, table, held, hand, maximum, minimum,
                     called>>
  BY DEF Skip, parserVars, clientVars
<1>2. Types' /\ Looping' /\ Taken' = Taken
  BY <1>1 DEF ReorderIInv, Types, Looping, Taken
<1>3. Ahead' /\ Waiting' /\ Marked'
  BY <1>1, <1>2, LineStays DEF ReorderIInv, Ahead, Waiting, Marked
<1>. QED
  BY <1>1, <1>2, <1>3, LineStays DEF ReorderIInv

LEMMA PassMarkerKeepsIInv ==
  ASSUME ReorderIInv, PassMarker
  PROVE  ReorderIInv'
<1>0. /\ Types /\ held # NoFrame /\ table = {} /\ hand = NoFrame /\ last \in Nat
      /\ maximum \in 0 .. last + 1 /\ called \in 0 .. last + 1 /\ held \in 0 .. last + 1
  BY SimpleTypes DEF ReorderIInv, PassMarker, Looping, Types
<1>1. /\ place' = "scan" /\ held' = NoFrame /\ draining' = "no"
      /\ maximum' = Higher(maximum, held) /\ called' = Higher(called, held)
      /\ UNCHANGED <<parsed, decoding, decoded, last, deferred, nextIndex, index,
                     references, breaks, table, hand, minimum>>
  BY DEF PassMarker, parserVars
<1>2. maximum' \in {maximum, held} /\ called' \in {called, held}
  BY <1>1 DEF Higher
<1>3. Types' /\ Taken' = {}
  BY <1>0, <1>1, <1>2 DEF Types, Taken, NoFrame
<1>4. Looping' /\ Waiting'
  BY <1>0, <1>1, <1>3 DEF Looping, Waiting
<1>5. Ahead'
  <2>1. ASSUME NEW a \in Coming, a.kind = "frame"
        PROVE  maximum' <= a.n /\ called' <= a.n /\ held' <= a.n
    <3>1. maximum <= a.n /\ called <= a.n /\ held <= a.n /\ a.n \in Nat
      BY <1>0, <2>1, ComingItems DEF ReorderIInv, Ahead
    <3>. QED
      BY <1>1, <1>2, <3>1 DEF NoFrame
  <2>. QED
    BY <1>1, <1>3, <2>1, LineStays DEF Ahead
<1>6. Marked'
  BY <1>0, <1>1, LineStays DEF ReorderIInv, Marked
<1>. QED
  BY <1>1, <1>3, <1>4, <1>5, <1>6, LineStays DEF ReorderIInv

LEMMA OutKeepsIInv ==
  ASSUME ReorderIInv, Out
  PROVE  ReorderIInv'
<1>0. /\ Types /\ last \in Nat /\ place = "out" /\ hand # NoFrame
      /\ maximum \in 0 .. last + 1 /\ called \in 0 .. last + 1 /\ hand \in 0 .. last
      /\ minimum \in Nat /\ table \subseteq 1 .. last
  BY SimpleTypes DEF ReorderIInv, Out, Looping, Types
<1>1. /\ place' = "scan" /\ hand' = NoFrame
      /\ maximum' = Higher(maximum, hand) /\ called' = Higher(called, SequenceNumber)
      /\ UNCHANGED <<parsed, decoding, decoded, last, deferred, nextIndex, index,
                     references, breaks, draining, table, held, minimum>>
  BY DEF Out, parserVars, clientVars
<1>2. /\ maximum' \in {maximum, hand} /\ maximum' \in Nat
      /\ SequenceNumber \in Nat
      /\ SequenceNumber <= maximum' /\ SequenceNumber <= minimum
  BY <1>0, <1>1 DEF Higher, SequenceNumber, Lower
<1>3. called' \in {called, SequenceNumber}
  BY <1>1 DEF Higher
<1>4. Types' /\ Taken' = table /\ table \subseteq Taken
  <2>1. maximum' \in 0 .. last + 1 /\ called' \in 0 .. last + 1
    BY <1>0, <1>2, <1>3
  <2>2. Taken' = table /\ table \subseteq Taken
    BY <1>0, <1>1 DEF Taken, NoFrame
  <2>. QED
    BY <1>0, <1>1, <2>1, <2>2 DEF Types, NoFrame
<1>5. \A f \in table : f \in Nat /\ called' <= f
  BY <1>0, <1>2, <1>3, <1>4 DEF ReorderIInv, Waiting, Looping
<1>6. Waiting' /\ Looping' /\ Marked'
  BY <1>1, <1>4, <1>5, LineStays DEF ReorderIInv, Waiting, Looping, Marked
<1>7. Ahead'
  <2>1. ASSUME NEW a \in Coming, a.kind = "frame"
        PROVE  maximum' <= a.n /\ called' <= a.n /\ held <= a.n
    <3>1. maximum <= a.n /\ called <= a.n /\ held <= a.n /\ a.n \in Nat /\ hand < a.n
      BY <1>0, <2>1, ComingItems DEF ReorderIInv, Ahead, Taken
    <3>. QED
      BY <1>0, <1>2, <1>3, <3>1
  <2>2. \A a \in Coming : a.kind \in {"frame", "marker"} => \A f \in table : f < a.n
    BY <1>4 DEF ReorderIInv, Ahead
  <2>. QED
    BY <1>1, <1>4, <2>1, <2>2, LineStays DEF Ahead
<1>. QED
  BY <1>1, <1>4, <1>6, <1>7, LineStays DEF ReorderIInv

LEMMA GetKeepsIInv ==
  ASSUME ReorderIInv, Get
  PROVE  ReorderIInv'
<1> DEFINE in == IF decoded = << >> THEN Item("poke", 0) ELSE Head(decoded)
           direct == in.kind = "frame" /\ index[in.n] # InvalidIndex /\ index[in.n] <= desired
<1>0. /\ Types /\ InLine /\ last \in Nat /\ place = "next" /\ hand = NoFrame /\ held = NoFrame
      /\ decoded \in Seq(Items) /\ table \subseteq 1 .. last
  BY SimpleTypes DEF ReorderIInv, Types, Get, Looping
<1>1. /\ decoded' = IF decoded = << >> THEN decoded ELSE Tail(decoded)
      /\ held' = IF in.kind = "marker" THEN in.n ELSE NoFrame
      /\ table' = IF in.kind = "frame" /\ ~direct THEN table \cup {in.n} ELSE table
      /\ hand' = IF direct THEN in.n ELSE NoFrame
      /\ place' = IF direct THEN "out" ELSE "scan"
      /\ UNCHANGED <<parsed, decoding, last, deferred, nextIndex, index, references,
                     breaks, draining, maximum, minimum, called>>
  BY DEF Get, parserVars, clientVars
<1>2. /\ decoded' \in Seq(Items) /\ Ordered(decoded')
      /\ \A a \in Elements(decoded') : a \in Elements(decoded)
      /\ in \in Elements(decoded) \/ in.kind = "poke"
      /\ \A a \in Elements(decoded') : Before(in, a)
  <2>1. CASE decoded = << >>
    <3>1. in.kind = "poke" /\ decoded' = decoded
      BY <1>1, <2>1 DEF Item
    <3>. QED
      BY <1>0, <3>1, Unordered DEF InLine
  <2>2. CASE decoded # << >>
    <3>1. in = Head(decoded) /\ decoded' = Tail(decoded)
      BY <1>1, <2>2
    <3>. QED
      BY <1>0, <2>2, <3>1, TailItems DEF InLine, All
  <2>. QED
    BY <2>1, <2>2
<1> HIDE DEF in
<1>3. InLine' /\ Coming' \subseteq Coming /\ \A a \in Coming' : Before(in, a)
  <2>1. InLine'
    BY <1>0, <1>1, <1>2 DEF InLine, All
  <2>2. \A a \in Elements(decoding) \cup Elements(parsed) : Before(in, a)
    BY <1>0, <1>2, Unordered DEF InLine, All
  <2>. QED
    BY <1>1, <1>2, <2>1, <2>2 DEF Coming
<1>4. /\ in.kind = "frame" => /\ in.n \in 1 .. last /\ called <= in.n
      /\ in.kind = "marker" => /\ in.n \in 1 .. last + 1 /\ Closed(in.n)
      /\ in.kind \in {"frame", "marker"} => \A f \in Taken : f < in.n
      /\ in.kind \in {"frame", "marker"} => in \in Coming
  BY <1>2 DEF ReorderIInv, Numbered, Ahead, Coming
<1>5. Numbered' /\ Indexed' /\ (\A m : Closed(m)' <=> Closed(m))
  <2>1. \A m : Closed(m)' <=> Closed(m)
    BY <1>1 DEF Closed
  <2>. QED
    BY <1>1, <1>3, <2>1 DEF ReorderIInv, Numbered, Indexed
<1>6. direct => in.kind = "frame"
  OBVIOUS
<1> HIDE DEF direct
<1>7. Taken' = Taken \cup (IF in.kind = "frame" THEN {in.n} ELSE {})
  <2>1. CASE in.kind = "frame"
    BY <1>0, <1>1, <1>4, <2>1 DEF Taken, NoFrame
  <2>2. CASE in.kind # "frame"
    BY <1>0, <1>1, <1>6, <2>2 DEF Taken
  <2>. QED
    BY <2>1, <2>2
<1>8. held' \in 0 .. last + 1 /\ hand' \in 0 .. last /\ table' \subseteq 1 .. last
  <2>1. held' \in 0 .. last + 1
    BY <1>0, <1>1, <1>4 DEF NoFrame
  <2>2. hand' \in 0 .. last
    BY <1>0, <1>1, <1>4, <1>6 DEF NoFrame
  <2>3. table' \subseteq 1 .. last
    BY <1>0, <1>1, <1>4
  <2>. QED
    BY <2>1, <2>2, <2>3
<1>9. Types'
  BY <1>0, <1>1, <1>2, <1>8 DEF Types
<1>10. Ahead'
  <2>1. ASSUME NEW a \in Coming'
        PROVE  /\ a.kind = "frame" => maximum <= a.n /\ called <= a.n /\ held' <= a.n
               /\ a.kind \in {"frame", "marker"} => \A f \in Taken' : f < a.n
    <3>1. a \in Coming /\ Before(in, a) /\ a.n \in Nat
      BY <1>0, <1>3, ComingItems
    <3>2. a.kind = "frame" => maximum <= a.n /\ called <= a.n
      BY <3>1 DEF ReorderIInv, Ahead
    <3>3. a.kind = "frame" => held' <= a.n
      BY <1>1, <3>1 DEF Before, NoFrame
    <3>4. a.kind \in {"frame", "marker"} => \A f \in Taken : f < a.n
      BY <3>1 DEF ReorderIInv, Ahead
    <3>5. a.kind \in {"frame", "marker"} /\ in.kind = "frame" => in.n < a.n
      BY <3>1 DEF Before
    <3>. QED
      BY <1>7, <3>2, <3>3, <3>4, <3>5
  <2>. QED
    BY <1>1, <2>1 DEF Ahead
<1>11. Waiting'
  <2>1. \A f \in Taken' : called <= f
    BY <1>4, <1>7 DEF ReorderIInv, Waiting
  <2>2. ASSUME held' # NoFrame PROVE Closed(held') /\ \A f \in Taken' : f < held'
    <3>1. in.kind = "marker" /\ held' = in.n
      BY <1>1, <2>2
    <3>. QED
      BY <1>4, <1>7, <3>1
  <2>. QED
    BY <1>1, <2>1, <2>2, <1>5 DEF Waiting, Closed
<1>12. Looping'
  <2>1. direct => in.n # NoFrame
    BY <1>4, <1>6 DEF NoFrame
  <2>2. \A f \in table : minimum <= f
    BY <1>0 DEF ReorderIInv, Looping
  <2>3. direct => table' = table
    BY <1>1
  <2>. QED
    BY <1>1, <2>1, <2>2, <2>3 DEF Looping
<1>13. Marked'
  <2>1. in.kind = "marker" => draining = "marker" /\ \A a \in Coming' : a.kind # "marker"
    BY <1>3, <1>4 DEF ReorderIInv, Marked, Before
  <2>. QED
    BY <1>0, <1>1, <1>3, <2>1 DEF ReorderIInv, Marked
<1>. QED
  BY <1>3, <1>5, <1>9, <1>10, <1>11, <1>12, <1>13 DEF ReorderIInv
-----------------------------------------------------------------------------
LEMMA InitIsIInv == ReorderInit => ReorderIInv
<1> SUFFICES ASSUME ReorderInit PROVE ReorderIInv
  OBVIOUS
<1>1. /\ << >> \in Seq(Items) /\ << >> \in Seq(Frames) /\ Len(<< >>) = 0
      /\ MaxFrames \in Nat
  BY ReorderAssumption
<1>2. Coming = {} /\ InLine
  BY <1>1 DEF ReorderInit, Coming, InLine, Elements, Ordered, All
<1>3. Types
  BY <1>1 DEF ReorderInit, Types, NoFrame, Infinite
<1>4. Indexed /\ Numbered /\ Ahead /\ Waiting /\ Looping /\ Marked
  BY <1>2 DEF ReorderInit, Indexed, Numbered, Ahead, Waiting, Looping, Marked, Taken, NoFrame
<1>. QED
  BY <1>2, <1>3, <1>4 DEF ReorderIInv

LEMMA NextKeepsIInv ==
  ASSUME ~PlaysOut, ReorderIInv, [ReorderNext]_reorderVars
  PROVE  ReorderIInv'
<1>1. ASSUME UNCHANGED reorderVars PROVE ReorderIInv'
  <2>1. UNCHANGED <<parsed, decoding, decoded, last, deferred, nextIndex, index, references,
                    breaks, draining, table, held, hand, maximum, minimum, called, place>>
    BY <1>1 DEF reorderVars, parserVars, skipVars, loopVars, clientVars
  <2>2. Types' /\ Looping' /\ Taken' = Taken
    BY <2>1 DEF ReorderIInv, Types, Looping, Taken
  <2>3. Ahead' /\ Waiting' /\ Marked'
    BY <2>1, <2>2, LineStays DEF ReorderIInv, Ahead, Waiting, Marked
  <2>. QED
    BY <2>1, <2>2, <2>3, LineStays DEF ReorderIInv
<1>2. ASSUME ReorderNext PROVE ReorderIInv'
  BY <1>2, ParseKeepsIInv, JumpKeepsIInv, DrainKeepsIInv, MarkerKeepsIInv,
     StagesKeepIInv, ScanKeepsIInv, SkipKeepsIInv, PassMarkerKeepsIInv,
     GetKeepsIInv, OutKeepsIInv DEF ReorderNext, Loop
<1>. QED
  BY <1>1, <1>2

(* Without drains that play out: a call in sequence is made when no frame  *)
(* with a lower number is left in the stream, for any number of frames,    *)
(* jumps and drains, any number of decode buffers and whatever is dropped, *)
(* though frames leave the loop in another order than they were coded in.  *)
THEOREM CallsWaitForFrames ==
  ASSUME ~PlaysOut
  PROVE  ReorderSpec => []CallsWait
<1>1. ReorderIInv => CallsWait
  <2> SUFFICES ASSUME ReorderIInv PROVE CallsWait
    OBVIOUS
  <2>1. \A f \in FramesOf(parsed) \cup FramesOf(decoding) \cup FramesOf(decoded) :
          \E a \in Coming : a.kind = "frame" /\ a.n = f
    BY DEF FramesOf, Coming, Elements, ReorderIInv, Types
  <2>2. ASSUME NEW f \in FramesOf(parsed) \cup FramesOf(decoding) \cup FramesOf(decoded)
        PROVE  f >= called
    <3>1. PICK a \in Coming : a.kind = "frame" /\ a.n = f
      BY <2>1
    <3>2. called <= a.n /\ a.n \in Nat /\ called \in Nat
      BY <3>1, ComingItems, SimpleTypes DEF ReorderIInv, Ahead
    <3>. QED
      BY <3>1, <3>2
  <2>3. ASSUME NEW f \in Taken PROVE f >= called
    BY SimpleTypes DEF ReorderIInv, Waiting
  <2>. QED
    BY <2>2, <2>3 DEF CallsWait, Taken
<1>. QED
  BY <1>1, InitIsIInv, NextKeepsIInv, PTL DEF ReorderSpec
-----------------------------------------------------------------------------
(* The order of display.  What the parser knows: a frame of reference has  *)
(* no index until the next one, and the first after a discontinuity gets   *)
(* its index before all that follow.                                       *)
Parsing ==
  /\ isReference \subseteq 1 .. last /\ collapses \subseteq isReference
  /\ collapseNext \in BOOLEAN
  /\ nextIndex = IF deferred = NoFrame THEN last ELSE last - 1
  /\ deferred # NoFrame =>
       /\ deferred \in isReference /\ index[deferred] = InvalidIndex
       /\ \A r \in isReference : r <= deferred
  /\ collapseNext => \/ deferred = NoFrame /\ Len(references) = 0
                     \/ deferred # NoFrame /\ deferred = last /\ Len(references) = 1
  /\ \A f \in collapses : index[f] # InvalidIndex
  /\ \A f \in Frames : f > last => index[f] = InvalidIndex

Marks == {a.n : a \in {c \in Coming : c.kind = "marker"}} \cup ({held} \ {NoFrame})

(* A frame is displayed before one that was coded before it only if that   *)
(* is a frame of reference, and no other and no marker lies between.       *)
Given(f)        == index[f] # InvalidIndex
Overtakes(g, f) == f < g /\ Given(f) /\ Given(g) /\ index[g] < index[f]
Displaying ==
  /\ \A f \in 1 .. last : Given(f) => index[f] < nextIndex
  /\ \A f, g \in 1 .. last : Given(f) /\ index[f] = index[g] => f = g
  /\ \A f, g \in 1 .. last : Overtakes(g, f) =>
       /\ f \in isReference \ collapses
       /\ \A r \in isReference \cup Marks : ~(f < r /\ r <= g)

(* Frames that will be manifested or dropped; while a drain lasts, those   *)
(* before its marker are dropped.                                          *)
Pending   == Taken \cup {a.n : a \in {c \in Coming : c.kind = "frame"}}
Doomed(f) == draining # "no" /\ \A m \in Marks : f < m

Flags ==
  /\ discarding \in [{"PtoD", "DtoM"} -> BOOLEAN]
  /\ discarding["DtoM"] <=> draining # "no"
  /\ discarding["PtoD"] =>
       /\ draining # "no" /\ held = NoFrame
       /\ \A a \in Elements(decoding) \cup Elements(decoded) : a.kind # "marker"

(* Frames that are not decoded are indexed, or before the marker of a      *)
(* drain, and are indexed when the loop has that.                          *)
Dropping ==
  /\ nonDecoded \subseteq [frame : 1 .. last, index : Nat \cup {InvalidIndex}]
  /\ \A e \in nonDecoded :
       /\ e.frame \notin Pending
       /\ e.index = InvalidIndex => Doomed(e.frame)
       /\ e.index # InvalidIndex => e.index = index[e.frame]
  /\ place = "next" /\ held # NoFrame => \A e \in nonDecoded : e.index # InvalidIndex

(* What is pending comes after what was manifested, and what is not doomed *)
(* after what the loop has passed or will pass over.                       *)
Beyond(n) == \A g \in Pending : Given(g) /\ ~Doomed(g) => index[g] >= n
Ordering ==
  /\ shown \in Int /\ desired \in Nat /\ collapse \in Nat
  /\ shown < nextIndex /\ desired <= nextIndex /\ collapse <= nextIndex
  /\ \A g \in Pending : Given(g) => index[g] > shown
  /\ Beyond(desired) /\ Beyond(collapse)
  /\ place = "out" =>
       /\ hand \notin table /\ Given(hand)
       /\ ~discarding["DtoM"] =>
            \A g \in Pending : g # hand /\ Given(g) => index[hand] < index[g]

OInv == Parsing /\ Displaying /\ Flags /\ Dropping /\ Ordering
-----------------------------------------------------------------------------
LEMMA OrderFacts ==
  ASSUME ReorderIInv
  PROVE  /\ Types /\ last \in Nat /\ MaxFrames \in Nat /\ last <= MaxFrames
         /\ 1 .. last \subseteq Frames /\ \A n \in Int : n # InvalidIndex
         /\ \A f \in 1 .. last : Given(f) => index[f] \in Nat
         /\ Pending \subseteq 1 .. last /\ Taken \subseteq Pending
         /\ \A m \in Marks : m \in 1 .. last + 1 /\ Closed(m)
<1>1. /\ Types /\ last \in Nat /\ MaxFrames \in Nat /\ last <= MaxFrames
      /\ 1 .. last \subseteq Frames /\ \A n \in Int : n # InvalidIndex
  BY SimpleTypes, ReorderAssumption DEF ReorderIInv, Types
<1>2. \A f \in 1 .. last : Given(f) => index[f] \in Nat
  BY <1>1 DEF Types, Given
<1>3. Pending \subseteq 1 .. last /\ Taken \subseteq Pending
  BY <1>1, SimpleTypes DEF ReorderIInv, Numbered, Pending
<1>4. ASSUME NEW m \in Marks PROVE m \in 1 .. last + 1 /\ Closed(m)
  <2>1. CASE \E a \in Coming : a.kind = "marker" /\ m = a.n
    BY <2>1 DEF ReorderIInv, Numbered
  <2>2. CASE m = held /\ held # NoFrame
    BY <1>1, <2>2 DEF ReorderIInv, Waiting, Types, NoFrame
  <2>. QED
    BY <2>1, <2>2 DEF Marks
<1>. QED
  BY <1>1, <1>2, <1>3, <1>4

LEMMA NextIndexFacts ==
  ASSUME ReorderIInv, OInv
  PROVE  /\ nextIndex \in Nat /\ nextIndex <= last
         /\ deferred # NoFrame => \A m \in Marks : m <= deferred
<1>1. nextIndex \in Nat
  BY OrderFacts DEF Types
<1>2. nextIndex <= last
  BY OrderFacts DEF OInv, Parsing
<1>3. ASSUME deferred # NoFrame, NEW m \in Marks PROVE m <= deferred
  <2>1. deferred \in 1 .. last /\ index[deferred] = InvalidIndex
    BY <1>3 DEF OInv, Parsing
  <2>2. m \in Nat /\ ~(deferred < m)
    BY OrderFacts, <2>1 DEF Closed
  <2>. QED
    BY OrderFacts, <2>1, <2>2
<1>. QED
  BY <1>1, <1>2, <1>3

(* Steps before the loop: what is new to it is the next frame, or a marker *)
(* above all frames.                                                       *)
Upstream ==
  /\ last' \in {last, last + 1}
  /\ UNCHANGED <<table, hand, held>>
  /\ \A a \in Coming' :
       \/ a \in Coming \/ a.kind \in {"release", "poke"}
       \/ a.kind = "frame" /\ a.n = last + 1 /\ last' = last + 1
       \/ a.kind = "marker" /\ a.n = last + 1
  /\ draining # "no" => draining' # "no"

LEMMA UpstreamMoves ==
  ASSUME ReorderIInv, Upstream
  PROVE  /\ Pending' \subseteq Pending \cup {last + 1}
         /\ Pending' \subseteq 1 .. last'
         /\ Marks' \subseteq Marks \cup {last + 1}
         /\ \A f \in 1 .. last : Doomed(f) => Doomed(f)'
<1>1. Taken' = Taken
  BY DEF Upstream, Taken
<1>2. Pending' \subseteq Pending \cup {last + 1}
  BY <1>1 DEF Upstream, Pending
<1>3. Marks' \subseteq Marks \cup {last + 1}
  BY DEF Upstream, Marks
<1>4. ASSUME NEW f \in 1 .. last, Doomed(f) PROVE Doomed(f)'
  BY <1>3, <1>4, OrderFacts DEF Upstream, Doomed
<1>5. Pending' \subseteq 1 .. last'
  <2>1. last \in Nat /\ last' \in {last, last + 1} /\ Pending \subseteq 1 .. last
    BY OrderFacts DEF Upstream
  <2>2. last + 1 \in Pending' => last' = last + 1
    BY <1>1, <2>1, OrderFacts DEF Upstream, Pending
  <2>. QED
    BY <1>2, <2>1, <2>2
<1>. QED
  BY <1>2, <1>3, <1>4, <1>5

(* Indices once given stay, and new ones are the next.                     *)
IndexesNext ==
  /\ nextIndex' \in Nat /\ nextIndex <= nextIndex'
  /\ \A f \in 1 .. last : Given(f) => index'[f] = index[f]
  /\ \A f \in 1 .. last' : Given(f)' =>
       index'[f] = nextIndex \/ (f \in 1 .. last /\ index'[f] = index[f])

LEMMA OrderingStays ==
  ASSUME ReorderIInv, OInv, Upstream, IndexesNext,
         UNCHANGED <<place, desired, shown>>,
         discarding["DtoM"] => discarding'["DtoM"],
         collapse' = collapse \/
           (collapse' \in Nat /\ collapse' <= nextIndex /\ Beyond(collapse)')
  PROVE  Ordering'
<1>0. /\ nextIndex \in Nat /\ nextIndex' \in Nat /\ nextIndex <= nextIndex'
      /\ shown \in Int /\ desired \in Nat /\ collapse' \in Nat /\ collapse' <= nextIndex
      /\ shown < nextIndex /\ desired <= nextIndex
      /\ Beyond(desired) /\ ((collapse' = collapse /\ Beyond(collapse)) \/ Beyond(collapse)')
  BY NextIndexFacts DEF IndexesNext, OInv, Ordering
<1>1. /\ last \in Nat /\ Pending \subseteq 1 .. last
      /\ \A f \in 1 .. last : Given(f) => index[f] \in Nat
  BY OrderFacts
<1>2. ASSUME NEW g \in Pending', Given(g)'
      PROVE  \/ index'[g] = nextIndex
             \/ g \in Pending /\ Given(g) /\ index'[g] = index[g] /\ (Doomed(g) => Doomed(g)')
  <2>1. Pending' \subseteq 1 .. last'
    BY UpstreamMoves
  <2>2. CASE index'[g] = nextIndex
    BY <2>2
  <2>3. CASE g \in 1 .. last /\ index'[g] = index[g]
    BY <1>1, <1>2, <2>3, UpstreamMoves DEF Given
  <2>. QED
    BY <1>2, <2>1, <2>2, <2>3 DEF IndexesNext
<1>3. \A g \in Pending' : Given(g)' => index'[g] > shown'
  BY <1>0, <1>1, <1>2 DEF OInv, Ordering
<1>4. Beyond(desired)' /\ Beyond(collapse)'
  BY <1>0, <1>1, <1>2 DEF Beyond
<1>5. ASSUME place = "out"
      PROVE  /\ hand' \notin table' /\ Given(hand)'
             /\ ~discarding'["DtoM"] =>
                  \A g \in Pending' : g # hand' /\ Given(g)' => index'[hand'] < index'[g]
  <2>1. hand' = hand /\ hand \in Pending /\ Given(hand) /\ hand \in 1 .. last
    BY <1>1, <1>5, OrderFacts DEF ReorderIInv, Looping, Taken, Upstream, OInv, Ordering
  <2>2. index'[hand] = index[hand] /\ index[hand] < nextIndex /\ index[hand] \in Nat
    BY <1>1, <2>1 DEF IndexesNext, OInv, Displaying
  <2>3. hand' \notin table' /\ Given(hand)'
    BY <1>5, <2>1, <2>2 DEF Given, Upstream, OInv, Ordering
  <2>. QED
    BY <1>0, <1>2, <1>5, <2>1, <2>2, <2>3 DEF OInv, Ordering
<1>. QED
  BY <1>0, <1>3, <1>4, <1>5 DEF Ordering

LEMMA DroppingStays ==
  ASSUME ReorderIInv, OInv, Upstream, IndexesNext, UNCHANGED <<place, nonDecoded>>
  PROVE  Dropping'
<1>1. last \in Nat /\ last' \in Nat /\ last <= last' /\ Pending' \subseteq Pending \cup {last + 1}
  BY OrderFacts, UpstreamMoves DEF Upstream
<1>2. nonDecoded \subseteq [frame : 1 .. last', index : Nat \cup {InvalidIndex}]
  BY <1>1 DEF OInv, Dropping
<1>3. ASSUME NEW e \in nonDecoded
      PROVE  /\ e.frame \notin Pending'
             /\ e.index = InvalidIndex => Doomed(e.frame)'
             /\ e.index # InvalidIndex => e.index = index'[e.frame]
  <2>1. /\ e.frame \in 1 .. last /\ e.frame \notin Pending
        /\ e.index = InvalidIndex => Doomed(e.frame)
        /\ e.index # InvalidIndex => e.index = index[e.frame]
    BY DEF OInv, Dropping
  <2>2. e.frame # last + 1
    BY <1>1, <2>1
  <2>. QED
    BY <1>1, <2>1, <2>2, UpstreamMoves DEF IndexesNext, Given
<1>. QED
  BY <1>2, <1>3 DEF Upstream, OInv, Dropping

LEMMA ParserStays ==
  ASSUME ReorderIInv, OInv, UNCHANGED parserVars, Marks' \subseteq Marks \cup {last + 1}
  PROVE  Parsing' /\ Displaying' /\ IndexesNext
<1>1. UNCHANGED <<last, isReference, deferred, nextIndex, collapseNext, references, index,
                  collapses>>
  BY DEF parserVars
<1>2. Parsing'
  BY <1>1 DEF OInv, Parsing
<1>3. IndexesNext
  BY <1>1, NextIndexFacts DEF IndexesNext
<1>4. ASSUME NEW f \in 1 .. last, NEW g \in 1 .. last, Overtakes(g, f)
      PROVE  \A r \in isReference \cup Marks' : ~(f < r /\ r <= g)
  BY <1>4, OrderFacts DEF OInv, Displaying
<1>5. Displaying'
  BY <1>1, <1>4 DEF OInv, Displaying, Given, Overtakes
<1>. QED
  BY <1>2, <1>3, <1>5
-----------------------------------------------------------------------------
(* The parser gives no index, or the next to one frame: the new one or the *)
(* one deferred.                                                           *)
NewFrame ==
  /\ last' \in {last, last + 1} /\ last' <= MaxFrames
  /\ isReference' \in {isReference, isReference \cup {last + 1}}
  /\ Marks' \subseteq Marks \cup {last + 1}

NoNewIndex == NewFrame /\ UNCHANGED <<index, nextIndex, collapses>>

NewIndex(d) ==
  /\ NewFrame
  /\ d \in 1 .. last' /\ (d = last + 1 \/ d = deferred)
  /\ index' = [index EXCEPT ![d] = nextIndex] /\ nextIndex' = nextIndex + 1
  /\ collapses' = IF collapseNext THEN collapses \cup {d} ELSE collapses

LEMMA NewFrameFacts ==
  ASSUME ReorderIInv, OInv, NewFrame
  PROVE  /\ last \in Nat /\ last' \in Nat /\ last <= last' /\ MaxFrames \in Nat
         /\ nextIndex \in Nat /\ 1 .. last' \subseteq Frames
         /\ \A f \in 1 .. last' : index[f] # InvalidIndex => f \in 1 .. last
         /\ \A f \in 1 .. last, g \in 1 .. last, r \in isReference' \cup Marks' :
              Overtakes(g, f) => ~(f < r /\ r <= g)
<1>0. /\ last \in Nat /\ last' \in Nat /\ last <= last' /\ MaxFrames \in Nat
      /\ nextIndex \in Nat /\ last' <= MaxFrames
      /\ \A f \in Frames : f > last => index[f] = InvalidIndex
  BY OrderFacts, NextIndexFacts DEF NewFrame, OInv, Parsing
<1>1. 1 .. last' \subseteq Frames
  BY <1>0 DEF Frames
<1>2. \A f \in 1 .. last' : index[f] # InvalidIndex => f \in 1 .. last
  BY <1>0, <1>1
<1>3. ASSUME NEW f \in 1 .. last, NEW g \in 1 .. last, NEW r \in isReference' \cup Marks',
             Overtakes(g, f)
      PROVE  ~(f < r /\ r <= g)
  <2>1. r \in isReference \cup Marks \/ r = last + 1
    BY DEF NewFrame
  <2>2. CASE r \in isReference \cup Marks
    BY <1>3, <2>2 DEF OInv, Displaying
  <2>. QED
    BY <1>0, <2>1, <2>2
<1>. QED
  BY <1>0, <1>1, <1>2, <1>3

LEMMA NoNewIndexKeeps ==
  ASSUME ReorderIInv, OInv, NoNewIndex
  PROVE  /\ Displaying' /\ IndexesNext
         /\ \A f \in collapses' : index'[f] # InvalidIndex
         /\ \A f \in Frames : f > last' => index'[f] = InvalidIndex
<1>0. /\ NewFrame /\ last \in Nat /\ last' \in Nat /\ last <= last' /\ nextIndex \in Nat
      /\ UNCHANGED <<index, nextIndex, collapses>> /\ isReference \subseteq isReference'
      /\ \A f \in 1 .. last' : index[f] # InvalidIndex => f \in 1 .. last
  BY NewFrameFacts DEF NoNewIndex, NewFrame
<1>1. ASSUME NEW f \in 1 .. last', NEW g \in 1 .. last', Overtakes(g, f)'
      PROVE  /\ f \in isReference' \ collapses'
             /\ \A r \in isReference' \cup Marks' : ~(f < r /\ r <= g)
  <2>1. f \in 1 .. last /\ g \in 1 .. last /\ Overtakes(g, f)
    BY <1>0, <1>1 DEF Overtakes, Given
  <2>. QED
    BY <1>0, <2>1, NewFrameFacts DEF OInv, Displaying
<1>2. Displaying'
  BY <1>0, <1>1 DEF OInv, Displaying, Given
<1>3. IndexesNext
  BY <1>0 DEF IndexesNext, Given
<1>4. \A f \in Frames : f > last' => index'[f] = InvalidIndex
  BY <1>0 DEF OInv, Parsing, Frames
<1>. QED
  BY <1>0, <1>2, <1>3, <1>4 DEF OInv, Parsing

LEMMA NewIndexKeeps ==
  ASSUME ReorderIInv, OInv, NEW d, NewIndex(d)
  PROVE  /\ Displaying' /\ IndexesNext
         /\ \A f \in collapses' : index'[f] # InvalidIndex
         /\ \A f \in Frames : f > last' => index'[f] = InvalidIndex
<1>a. /\ NewFrame /\ nextIndex' = nextIndex + 1 /\ isReference \subseteq isReference'
      /\ d \in 1 .. last' /\ (d = last + 1 \/ d = deferred)
  BY DEF NewIndex, NewFrame
<1>b. /\ \A f \in 1 .. last : Given(f) => index[f] \in Nat
      /\ index \in [Frames -> Nat \cup {InvalidIndex}] /\ \A n \in Int : n # InvalidIndex
  BY OrderFacts DEF Types
<1>0. /\ last \in Nat /\ last' \in Nat /\ last <= last' /\ nextIndex \in Nat
      /\ 1 .. last' \subseteq Frames
      /\ \A f \in 1 .. last' : index[f] # InvalidIndex => f \in 1 .. last
      /\ d \in Frames /\ nextIndex # InvalidIndex
  BY <1>a, <1>b, NewFrameFacts
<1>1. index[d] = InvalidIndex
  <2>1. CASE d = last + 1
    BY <1>a, <1>0, <2>1
  <2>2. CASE d = deferred
    BY <1>a, <1>0, <2>2 DEF OInv, Parsing, NoFrame
  <2>. QED
    BY <1>a, <2>1, <2>2
<1>2. /\ index'[d] = nextIndex
      /\ \A f \in Frames : f # d => index'[f] = index[f]
  BY <1>a, <1>b, <1>0 DEF NewIndex, Types
<1>3. /\ \A f \in 1 .. last' : Given(f)' => f = d \/ (f \in 1 .. last /\ Given(f))
      /\ \A f \in 1 .. last : Given(f) => f # d /\ index'[f] = index[f] /\ index[f] < nextIndex
  BY <1>a, <1>b, <1>0, <1>1, <1>2 DEF Given, OInv, Displaying
<1>4. ASSUME d \notin collapses', d = deferred, NEW g \in 1 .. last', d < g, Given(g)'
      PROVE  /\ d \in isReference'
             /\ \A r \in isReference' \cup Marks' : ~(d < r /\ r <= g)
  <2>1. d \in isReference /\ (\A r \in isReference : r <= d) /\ (\A m \in Marks : m <= d)
    BY <1>a, <1>b, <1>0, <1>4, NextIndexFacts DEF OInv, Parsing, NoFrame
  <2>2. g \in 1 .. last
    BY <1>a, <1>b, <1>0, <1>3, <1>4
  <2>3. ASSUME NEW r \in isReference' \cup Marks' PROVE ~(d < r /\ r <= g)
    <3>1. r \in isReference \cup Marks \/ r = last + 1
      BY <1>a, <1>b, <1>0 DEF NewFrame
    <3>2. r \in isReference \cup Marks => r \in Int
      BY OrderFacts DEF OInv, Parsing
    <3>. QED
      BY <1>a, <1>b, <1>0, <2>1, <2>2, <3>1, <3>2
  <2>. QED
    BY <1>a, <1>b, <1>0, <2>1, <2>3
<1>5. ASSUME NEW g \in 1 .. last', d < g, Given(g)' PROVE d = deferred /\ d \notin collapses'
  <2>1. g \in 1 .. last /\ d # last + 1
    BY <1>a, <1>b, <1>0, <1>3, <1>5
  <2>2. ~collapseNext
    BY <1>a, <1>b, <1>0, <1>5, <2>1 DEF NewIndex, OInv, Parsing, NoFrame
  <2>. QED
    BY <1>1, <2>1, <2>2 DEF NewIndex, OInv, Parsing
<1>6. ASSUME NEW f \in 1 .. last', NEW g \in 1 .. last', Overtakes(g, f)'
      PROVE  /\ f \in isReference' \ collapses'
             /\ \A r \in isReference' \cup Marks' : ~(f < r /\ r <= g)
  <2>0. Given(f)' /\ Given(g)' /\ f < g /\ index'[g] < index'[f]
    BY <1>6 DEF Overtakes
  <2>1. g # d
    BY <1>a, <1>b, <1>0, <1>2, <1>3, <2>0
  <2>2. CASE f = d
    BY <1>4, <1>5, <2>0, <2>2
  <2>3. CASE f # d
    <3>1. f \in 1 .. last /\ g \in 1 .. last /\ Overtakes(g, f)
      BY <1>3, <2>0, <2>1, <2>3 DEF Overtakes
    <3>2. f \in isReference' /\ f \notin collapses'
      BY <1>a, <1>b, <1>0, <2>3, <3>1 DEF OInv, Displaying, NewIndex
    <3>. QED
      BY <1>a, <1>b, <1>0, <3>1, <3>2, NewFrameFacts
  <2>. QED
    BY <2>2, <2>3
<1>7. Displaying'
  <2>1. \A f \in 1 .. last' : Given(f)' => index'[f] < nextIndex'
    BY <1>a, <1>b, <1>0, <1>2, <1>3
  <2>2. ASSUME NEW f \in 1 .. last', NEW g \in 1 .. last', Given(f)', index'[f] = index'[g]
        PROVE  f = g
    <3>1. Given(g)'
      BY <2>2 DEF Given
    <3>. QED
      BY <1>a, <1>b, <1>0, <1>2, <1>3, <2>2, <3>1 DEF OInv, Displaying
  <2>. QED
    BY <1>6, <2>1, <2>2 DEF Displaying
<1>8. IndexesNext
  <2>1. nextIndex' \in Nat /\ nextIndex <= nextIndex'
    BY <1>a, <1>0
  <2>2. \A f \in 1 .. last : Given(f) => index'[f] = index[f]
    BY <1>3
  <2>3. \A f \in 1 .. last' : Given(f)' =>
          index'[f] = nextIndex \/ (f \in 1 .. last /\ index'[f] = index[f])
    BY <1>2, <1>3
  <2>. QED
    BY <2>1, <2>2, <2>3 DEF IndexesNext
<1>9. \A f \in collapses' : index'[f] # InvalidIndex
  <2>1. \A f \in collapses : f \in Frames /\ index[f] # InvalidIndex
    BY OrderFacts DEF OInv, Parsing
  <2>. QED
    BY <1>a, <1>b, <1>0, <1>2, <2>1 DEF NewIndex
<1>10. \A f \in Frames : f > last' => index'[f] = InvalidIndex
  <2>1. \A f \in Frames : f > last => index[f] = InvalidIndex
    BY DEF OInv, Parsing
  <2>. QED
    BY <1>a, <1>b, <1>0, <1>2, <2>1 DEF Frames
<1>. QED
  BY <1>7, <1>8, <1>9, <1>10

LEMMA ParsedAdds ==
  ASSUME Types, NEW x \in Items, NEW l \in Seq(Frames)
  PROVE  /\ \A a \in Elements(Append(parsed, x)) : a \in Elements(parsed) \/ a = x
         /\ \A a \in Elements(Append(parsed, x) \o Released(l)) :
              a \in Elements(parsed) \/ a = x \/ a.kind = "release"
         /\ \A a \in Elements(parsed \o Released(l)) :
              a \in Elements(parsed) \/ a.kind = "release"
         /\ \A a \in Elements(Append(parsed \o Released(l), x)) :
              a \in Elements(parsed) \/ a = x \/ a.kind = "release"
<1>1. /\ parsed \in Seq(Items) /\ Released(l) \in Seq(Items)
      /\ \A a \in Elements(Released(l)) : a.kind = "release"
  BY ReleasedItems DEF Types
<1>2. /\ Append(parsed, x) \in Seq(Items)
      /\ Elements(Append(parsed, x)) = Elements(parsed) \cup {x}
  BY <1>1, AppendItem
<1>3. /\ parsed \o Released(l) \in Seq(Items)
      /\ Elements(parsed \o Released(l)) = Elements(parsed) \cup Elements(Released(l))
  BY <1>1, ConcatItems
<1>4. Elements(Append(parsed, x) \o Released(l)) =
        Elements(Append(parsed, x)) \cup Elements(Released(l))
  BY <1>1, <1>2, ConcatItems
<1>5. Elements(Append(parsed \o Released(l), x)) = Elements(parsed \o Released(l)) \cup {x}
  BY <1>3, AppendItem
<1>. QED
  BY <1>1, <1>2, <1>3, <1>4, <1>5

LEMMA ParserKeepsOInv ==
  ASSUME ReorderIInv, OInv, Upstream, IndexesNext, Parsing', Displaying',
         UNCHANGED <<decoding, decoded, place, desired, shown, nonDecoded, collapse, discarding>>,
         (draining = "no") <=> (draining' = "no")
  PROVE  OInv'
<1>1. Ordering' /\ Dropping'
  BY OrderingStays, DroppingStays
<1>2. Flags'
  BY DEF OInv, Flags, Upstream
<1>. QED
  BY <1>1, <1>2 DEF OInv

LEMMA ParseKeepsOInv ==
  ASSUME ReorderIInv, OInv, ParseReference \/ ParseOther
  PROVE  OInv'
<1> DEFINE x == Item("frame", last + 1)
<1>0. /\ MayParse /\ last' = last + 1
      /\ UNCHANGED <<decoding, decoded, table, hand, held, place, desired, shown, nonDecoded,
                     collapse, discarding, draining>>
  BY DEF ParseReference, ParseOther, loopVars, skipVars, clientVars
<1>1. /\ Types /\ last \in Nat /\ MaxFrames \in Nat /\ last + 1 \in Frames
      /\ nextIndex \in Nat /\ x \in Items /\ x.kind = "frame" /\ x.n = last + 1
  <2>1. Types /\ last \in Nat /\ MaxFrames \in Nat /\ last + 1 \in Frames /\ nextIndex \in Nat
    BY <1>0, OrderFacts, FrameFits, NextIndexFacts
  <2>. QED
    BY <2>1 DEF Item, Items, Infinite, Frames
<1>2. ASSUME \A a \in Elements(parsed') :
                a \in Elements(parsed) \/ a = x \/ a.kind = "release"
      PROVE  /\ Upstream
             /\ isReference' \in {isReference, isReference \cup {last + 1}} => NewFrame
  <2>1. Upstream
    BY <1>0, <1>1, <1>2 DEF Upstream, Coming
  <2>. QED
    BY <1>0, <1>1, <2>1, UpstreamMoves DEF NewFrame, Frames
<1> HIDE DEF x
<1>3. CASE ParseReference
  <2> DEFINE oldest == IF Len(references) = 2 THEN <<Head(references)>> ELSE << >>
  <2>1. /\ CalculateFrameIndex(deferred) /\ deferred' = last + 1
        /\ isReference' = isReference \cup {last + 1}
        /\ references' = Append(IF oldest = << >> THEN references
                                ELSE Tail(references), last + 1)
        /\ parsed' = Append(parsed, x) \o Released(oldest)
    BY <1>3 DEF ParseReference, x
  <2>2. oldest \in Seq(Frames)
    <3>1. references \in Seq(Frames)
      BY <1>1 DEF Types
    <3>2. Len(references) = 2 => Head(references) \in Frames
      BY <3>1
    <3>. QED
      BY <3>2
  <2>3. Upstream /\ NewFrame
    BY <1>1, <1>2, <2>1, <2>2, ParsedAdds
  <2>4. /\ Displaying' /\ IndexesNext
        /\ \A f \in collapses' : index'[f] # InvalidIndex
        /\ \A f \in Frames : f > last' => index'[f] = InvalidIndex
    <3>1. CASE deferred = NoFrame
      BY <2>1, <2>3, <3>1, NoNewIndexKeeps DEF CalculateFrameIndex, NoNewIndex
    <3>2. CASE deferred # NoFrame
      <4>1. deferred \in 1 .. last'
        <5>1. deferred \in 1 .. last
          BY <3>2 DEF OInv, Parsing
        <5>. QED
          BY <1>0, <1>1, <5>1
      <4>2. NewIndex(deferred)
        BY <2>1, <2>3, <3>2, <4>1 DEF CalculateFrameIndex, NewIndex
      <4>. QED
        BY <4>2, NewIndexKeeps
    <3>. QED
      BY <3>1, <3>2
  <2>5. isReference' \subseteq 1 .. last' /\ collapses' \subseteq isReference'
    <3>1. isReference \subseteq 1 .. last /\ collapses \subseteq isReference
      BY DEF OInv, Parsing
    <3>2. \/ collapses' = collapses
          \/ deferred \in isReference /\ collapses' = collapses \cup {deferred}
      BY <2>1 DEF CalculateFrameIndex, OInv, Parsing
    <3>3. 1 .. last \subseteq 1 .. last' /\ last + 1 \in 1 .. last'
      BY <1>0, <1>1
    <3>. QED
      BY <2>1, <3>1, <3>2, <3>3
  <2>6. nextIndex' = last' - 1 /\ deferred' # NoFrame
    BY <1>0, <1>1, <2>1 DEF OInv, Parsing, CalculateFrameIndex, NoFrame
  <2>7. /\ deferred' \in isReference' /\ index'[deferred'] = InvalidIndex
        /\ \A r \in isReference' : r <= deferred'
    <3>1. index[last + 1] = InvalidIndex /\ deferred # last + 1 /\ isReference \subseteq 1 .. last
      BY <1>1 DEF OInv, Parsing, Types
    <3>2. index'[last + 1] = InvalidIndex
      BY <1>1, <2>1, <3>1 DEF CalculateFrameIndex, Types
    <3>. QED
      BY <1>1, <2>1, <3>1, <3>2
  <2>8. collapseNext' \in BOOLEAN /\ (collapseNext' => deferred' = last' /\ Len(references') = 1)
    <3>1. collapseNext' => collapseNext /\ deferred = NoFrame /\ collapseNext' = collapseNext
      BY <2>1 DEF CalculateFrameIndex, OInv, Parsing
    <3>2. collapseNext' => Len(references) = 0
      BY <3>1 DEF OInv, Parsing
    <3>3. references \in Seq(Frames) /\ last + 1 \in Frames
      BY <1>1 DEF Types
    <3>4. collapseNext' => references' = Append(references, last + 1)
      BY <2>1, <3>2
    <3>5. collapseNext' => Len(references') = 1
      BY <3>2, <3>3, <3>4
    <3>6. collapseNext' \in BOOLEAN
      BY <2>1 DEF CalculateFrameIndex, OInv, Parsing
    <3>. QED
      BY <1>0, <2>1, <3>5, <3>6
  <2>9. Parsing'
    BY <2>4, <2>5, <2>6, <2>7, <2>8 DEF Parsing
  <2>. QED
    BY <1>0, <2>3, <2>4, <2>9, ParserKeepsOInv
<1>4. CASE ParseOther
  <2>1. /\ CalculateFrameIndex(last + 1) /\ Len(references) = 2
        /\ UNCHANGED <<isReference, deferred, references>>
        /\ parsed' = Append(parsed, x)
    BY <1>4 DEF ParseOther, x
  <2>2. Upstream /\ NewFrame
    <3>1. << >> \in Seq(Frames)
      OBVIOUS
    <3>. QED
      BY <1>1, <1>2, <2>1, <3>1, ParsedAdds
  <2>3. ~collapseNext /\ last + 1 # NoFrame /\ last + 1 \in 1 .. last'
    BY <1>0, <1>1, <2>1 DEF OInv, Parsing, NoFrame
  <2>4. NewIndex(last + 1)
    BY <2>1, <2>2, <2>3 DEF CalculateFrameIndex, NewIndex
  <2>5. /\ Displaying' /\ IndexesNext
        /\ \A f \in collapses' : index'[f] # InvalidIndex
        /\ \A f \in Frames : f > last' => index'[f] = InvalidIndex
    BY <2>4, NewIndexKeeps
  <2>6. nextIndex' = nextIndex + 1 /\ collapses' = collapses /\ collapseNext' = FALSE
    BY <2>1, <2>3 DEF CalculateFrameIndex
  <2>7. deferred' # NoFrame => index'[deferred'] = InvalidIndex
    <3>1. deferred # NoFrame => deferred \in Frames /\ deferred # last + 1 /\ index[deferred] = InvalidIndex
      <4>1. deferred # NoFrame => deferred \in 1 .. last /\ index[deferred] = InvalidIndex
        BY DEF OInv, Parsing
      <4>. QED
        BY <1>1, <4>1, OrderFacts
    <3>2. index \in [Frames -> Nat \cup {InvalidIndex}] /\ index' = [index EXCEPT ![last + 1] = nextIndex]
      BY <1>1, <2>4 DEF NewIndex, Types
    <3>. QED
      BY <2>1, <3>1, <3>2
  <2>8. isReference' \subseteq 1 .. last' /\ collapses' \subseteq isReference'
    <3>1. 1 .. last \subseteq 1 .. last'
      BY <1>0, <1>1
    <3>. QED
      BY <2>1, <2>6, <3>1 DEF OInv, Parsing
  <2>9. nextIndex' = IF deferred' = NoFrame THEN last' ELSE last' - 1
    BY <1>0, <1>1, <2>1, <2>6 DEF OInv, Parsing
  <2>10. deferred' # NoFrame =>
           deferred' \in isReference' /\ \A r \in isReference' : r <= deferred'
    BY <2>1 DEF OInv, Parsing
  <2>11. Parsing'
    BY <2>5, <2>6, <2>7, <2>8, <2>9, <2>10 DEF Parsing
  <2>. QED
    BY <1>0, <2>2, <2>5, <2>11, ParserKeepsOInv
<1>. QED
  BY <1>3, <1>4

LEMMA DiscontinuityKeeps ==
  ASSUME ReorderIInv, OInv, Discontinuity, Marks' \subseteq Marks \cup {last + 1}
  PROVE  Parsing' /\ Displaying' /\ IndexesNext
<1>1. /\ UNCHANGED <<last, isReference>>
      /\ deferred' = NoFrame /\ references' = << >> /\ collapseNext' = TRUE
  BY DEF Discontinuity
<1>2. NewFrame
  BY <1>1, OrderFacts DEF NewFrame
<1>3. /\ Displaying' /\ IndexesNext
      /\ \A f \in collapses' : index'[f] # InvalidIndex
      /\ \A f \in Frames : f > last' => index'[f] = InvalidIndex
  <2>1. CASE deferred = NoFrame
    BY <1>2, <2>1, NoNewIndexKeeps DEF Discontinuity, NoNewIndex
  <2>2. CASE deferred # NoFrame
    <3>1. deferred \in 1 .. last
      BY <2>2 DEF OInv, Parsing
    <3>2. NewIndex(deferred)
      BY <1>1, <1>2, <2>2, <3>1 DEF Discontinuity, NewIndex
    <3>. QED
      BY <3>2, NewIndexKeeps
  <2>. QED
    BY <2>1, <2>2
<1>4. collapses' \subseteq isReference' /\ nextIndex' = last'
  <2>1. \/ collapses' = collapses
        \/ deferred \in isReference /\ collapses' = collapses \cup {deferred}
    BY DEF Discontinuity, OInv, Parsing
  <2>2. nextIndex' = last
    BY OrderFacts DEF Discontinuity, OInv, Parsing
  <2>. QED
    BY <1>1, <2>1, <2>2 DEF OInv, Parsing
<1>5. Len(references') = 0
  BY <1>1
<1>6. Parsing'
  BY <1>1, <1>3, <1>4, <1>5 DEF OInv, Parsing
<1>. QED
  BY <1>3, <1>6

LEMMA JumpKeepsOInv ==
  ASSUME ReorderIInv, OInv, InputJump
  PROVE  OInv'
<1>1. /\ Discontinuity /\ last' = last /\ parsed' = parsed \o Released(references)
      /\ UNCHANGED <<decoding, decoded, table, hand, held, place, desired, shown, nonDecoded,
                     collapse, discarding, draining>>
  BY DEF InputJump, Discontinuity, loopVars, skipVars
<1>2. Item("release", 0) \in Items /\ Types /\ references \in Seq(Frames)
  BY OrderFacts DEF Types, Item, Items, Infinite
<1>3. \A a \in Elements(parsed') : a \in Elements(parsed) \/ a.kind = "release"
  BY <1>1, <1>2, ParsedAdds
<1>4. Upstream
  BY <1>1, <1>3 DEF Upstream, Coming
<1>. QED
  BY <1>1, <1>4, UpstreamMoves, DiscontinuityKeeps, ParserKeepsOInv

LEMMA MarkerKeepsOInv ==
  ASSUME ReorderIInv, OInv, InsertMarker
  PROVE  OInv'
<1> DEFINE x == Item("marker", last + 1)
<1>1. /\ Discontinuity /\ last' = last /\ parsed' = Append(parsed \o Released(references), x)
      /\ draining # "no" /\ draining' = "marker"
      /\ UNCHANGED <<decoding, decoded, table, hand, held, place, desired, shown, nonDecoded,
                     collapse, discarding>>
  BY OrderFacts DEF InsertMarker, Discontinuity, loopVars, skipVars, Types
<1>2. x \in Items /\ x.kind = "marker" /\ x.n = last + 1 /\ Types /\ references \in Seq(Frames)
  BY OrderFacts DEF Types, Item, Items, Infinite
<1> HIDE DEF x
<1>3. \A a \in Elements(parsed') : a \in Elements(parsed) \/ a = x \/ a.kind = "release"
  BY <1>1, <1>2, ParsedAdds
<1>4. Upstream
  BY <1>1, <1>2, <1>3 DEF Upstream, Coming
<1>. QED
  BY <1>1, <1>4, UpstreamMoves, DiscontinuityKeeps, ParserKeepsOInv

LEMMA DrainKeepsOInv ==
  ASSUME ~PlaysOut, ReorderIInv, OInv, NEW mode \in {"discard", "playout"}, Drain(mode)
  PROVE  OInv'
<1>1. /\ UNCHANGED parserVars /\ last' = last
      /\ UNCHANGED <<parsed, decoding, decoded, table, hand, held, place, desired, shown,
                     nonDecoded, collapse>>
      /\ draining = "no" /\ draining' = "discard"
      /\ discarding' = [p \in DOMAIN discarding |-> TRUE]
  BY DEF Drain, parserVars, loopVars, skipVars
<1>2. discarding' = [p \in {"PtoD", "DtoM"} |-> TRUE]
  BY <1>1 DEF OInv, Flags
<1>3. Upstream
  BY <1>1 DEF Upstream, Coming
<1>4. Parsing' /\ Displaying' /\ IndexesNext
  BY <1>1, <1>3, UpstreamMoves, ParserStays
<1>5. Ordering' /\ Dropping'
  BY <1>1, <1>2, <1>3, <1>4, OrderingStays, DroppingStays
<1>6. Flags'
  BY <1>1, <1>2 DEF Flags, ReorderIInv, Marked, Coming
<1>. QED
  BY <1>4, <1>5, <1>6 DEF OInv

(* The codec, and frames that are not decoded.                             *)
LEMMA StagesKeepOInv ==
  ASSUME ReorderIInv, OInv, TakeControl \/ Decode \/ DecodeComplete \/ Manifested
  PROVE  OInv'
<1>0. Types /\ InLine
  BY DEF ReorderIInv
<1>1. /\ UNCHANGED <<last, table, hand, held, place, desired, shown, nonDecoded, collapse,
                     draining>>
      /\ UNCHANGED parserVars
      /\ discarding' = discarding \/ discarding' = [discarding EXCEPT !["PtoD"] = FALSE]
  BY DEF TakeControl, Decode, DecodeComplete, Manifested, parserVars, loopVars, skipVars,
         clientVars
<1>2. Upstream
  BY <1>1, StagesMove DEF Upstream
<1>3. Parsing' /\ Displaying' /\ IndexesNext
  BY <1>1, <1>2, UpstreamMoves, ParserStays
<1>4. /\ discarding' \in [{"PtoD", "DtoM"} -> BOOLEAN]
      /\ discarding'["DtoM"] = discarding["DtoM"]
      /\ discarding'["PtoD"] => discarding' = discarding
  BY <1>1 DEF OInv, Flags
<1>5. Ordering' /\ Dropping'
  BY <1>1, <1>2, <1>3, <1>4, OrderingStays, DroppingStays
<1>6. ASSUME discarding'["PtoD"], NEW a \in Elements(decoding') \cup Elements(decoded')
      PROVE  a \in Elements(decoding) \cup Elements(decoded) \/ a.kind # "marker"
  <2>1. CASE TakeControl
    <3>1. decoding' = decoding /\ decoded' = decoded
      BY <1>4, <1>6, <2>1 DEF TakeControl, OInv, Flags
    <3>. QED
      BY <1>6, <3>1
  <2>2. CASE Decode
    <3>1. FALSE
      BY <1>4, <1>6, <2>2 DEF Decode
    <3>. QED
      BY <3>1
  <2>3. CASE DecodeComplete
    <3>1. /\ decoding \in Seq(Items) /\ decoded \in Seq(Items) /\ decoding # << >>
          /\ decoding' = Tail(decoding)
          /\ decoded' = decoded \/ decoded' = Append(decoded, Head(decoding))
      BY <1>0, <2>3 DEF DecodeComplete, Types
    <3>2. /\ Head(decoding) \in Items /\ Head(decoding) \in Elements(decoding)
          /\ \A b \in Elements(decoding') : b \in Elements(decoding)
      BY <3>1, TailItems
    <3>3. Elements(Append(decoded, Head(decoding))) = Elements(decoded) \cup {Head(decoding)}
      BY <3>1, <3>2, AppendItem
    <3>. QED
      BY <1>6, <3>1, <3>2, <3>3
  <2>4. CASE Manifested
    BY <1>6, <2>4 DEF Manifested
  <2>. QED
    BY <2>1, <2>2, <2>3, <2>4
<1>7. Flags'
  BY <1>1, <1>4, <1>6 DEF OInv, Flags
<1>. QED
  BY <1>3, <1>5, <1>7 DEF OInv

(* The frame at the head of the line: those before it and after it.        *)
LEMMA HeadOfTheLine ==
  ASSUME ReorderIInv, parsed # << >>, Head(parsed).kind = "frame",
         UNCHANGED <<decoding, table, hand, held>>, parsed' = Tail(parsed),
         decoded' = decoded \/ decoded' = Append(decoded, Item("poke", 0))
  PROVE  /\ Head(parsed).n \in 1 .. last /\ Head(parsed).n \notin Pending'
         /\ Pending' \subseteq Pending /\ Marks' \subseteq Marks
         /\ \A a \in Elements(decoded') : a \in Elements(decoded) \/ a.kind = "poke"
         /\ \A a \in Elements(parsed') : a.kind = "marker" => Head(parsed).n < a.n
<1> DEFINE x == Head(parsed)
<1>0. Types /\ InLine /\ parsed \in Seq(Items) /\ decoded \in Seq(Items)
  BY DEF ReorderIInv, Types
<1>1. /\ x \in Elements(parsed) /\ x \in Coming /\ x.kind = "frame"
      /\ \A a \in Elements(parsed') : a \in Elements(parsed) /\ Before(x, a)
  BY <1>0, TailItems DEF InLine, All, Coming
<1>2. \A a \in Elements(decoded') : a \in Elements(decoded) \/ a.kind = "poke"
  <2>1. PICK p \in Items : p = Item("poke", 0) /\ p.kind = "poke"
    BY ReorderAssumption DEF Items, Item, Infinite
  <2>2. Elements(Append(decoded, p)) = Elements(decoded) \cup {p}
    BY <1>0, AppendItem
  <2>. QED
    BY <2>1, <2>2
<1> HIDE DEF x
<1>3. x.n \in 1 .. last /\ \A f \in Taken : f < x.n
  BY <1>1 DEF ReorderIInv, Numbered, Ahead
<1>4. \A a \in Elements(decoded) \cup Elements(decoding) : Before(a, x)
  BY <1>0, <1>1 DEF InLine, All
<1>5. ASSUME NEW a \in Coming', a.kind = "frame" PROVE a \in Coming /\ a.n # x.n
  <2>1. a \in Coming /\ a.n \in Nat
    BY <1>0, <1>1, <1>2, <1>5, ComingItems DEF Coming
  <2>2. CASE a \in Elements(parsed')
    BY <1>1, <1>3, <1>5, <2>1, <2>2 DEF Before
  <2>3. CASE a \notin Elements(parsed')
    <3>1. a \in Elements(decoded) \cup Elements(decoding)
      BY <1>2, <1>5, <2>3 DEF Coming
    <3>. QED
      BY <1>1, <1>3, <1>4, <1>5, <2>1, <3>1 DEF Before
  <2>. QED
    BY <2>2, <2>3
<1>6. Taken' = Taken /\ x.n \notin Taken
  BY <1>0, <1>3, SimpleTypes DEF Taken
<1>7. x.n \notin Pending' /\ Pending' \subseteq Pending
  BY <1>5, <1>6 DEF Pending
<1>8. Marks' \subseteq Marks
  BY <1>1, <1>2 DEF Marks, Coming
<1>9. \A a \in Elements(parsed') : a.kind = "marker" => x.n < a.n
  BY <1>1 DEF Before
<1>. QED
  BY <1>2, <1>3, <1>7, <1>8, <1>9 DEF x

LEMMA RecordKeepsOInv ==
  ASSUME ~DropsReferences, ReorderIInv, OInv, RecordNonDecodedFrame
  PROVE  OInv'
<1>0. PICK f : f = Head(parsed).n
  OBVIOUS
<1> DEFINE counts == index[f] # InvalidIndex /\ (discarding["PtoD"] \/ f \in collapses)
<1>1. /\ parsed # << >> /\ Head(parsed).kind = "frame" /\ parsed' = Tail(parsed)
      /\ ~discarding["PtoD"] => f \notin isReference
      /\ nonDecoded' \in {nonDecoded, nonDecoded \cup {Entry(f)}}
      /\ collapse' = collapse \/ (counts /\ collapse' = Higher(collapse, index[f]))
      /\ decoded' = decoded \/ decoded' = Append(decoded, Item("poke", 0))
      /\ UNCHANGED <<decoding, table, hand, held, place, desired, shown, discarding, draining, last>>
      /\ UNCHANGED parserVars
  BY <1>0 DEF RecordNonDecodedFrame, parserVars, loopVars, clientVars
<1>2. /\ f \in 1 .. last /\ f \notin Pending'
      /\ Pending' \subseteq Pending /\ Marks' \subseteq Marks
      /\ \A a \in Elements(decoded') : a \in Elements(decoded) \/ a.kind = "poke"
      /\ \A a \in Elements(parsed') : a.kind = "marker" => f < a.n
  BY <1>0, <1>1, HeadOfTheLine
<1>3. Upstream
  BY <1>1, StagesMove DEF Upstream
<1>4. Parsing' /\ Displaying' /\ IndexesNext
  BY <1>1, <1>3, UpstreamMoves, ParserStays
<1>5. Flags'
  BY <1>1, <1>2 DEF OInv, Flags
<1>6. ASSUME discarding["PtoD"] PROVE draining # "no" /\ \A m \in Marks' : f < m
  <2>1. /\ draining # "no" /\ held = NoFrame
        /\ \A a \in Elements(decoding) \cup Elements(decoded') : a.kind # "marker"
    BY <1>2, <1>6 DEF OInv, Flags
  <2>. QED
    BY <1>1, <1>2, <2>1 DEF Marks, Coming
<1>7. Dropping'
  <2>1. Entry(f).frame = f /\ Entry(f).index = index[f]
    BY DEF Entry
  <2>2. index[f] = InvalidIndex => discarding["PtoD"]
    <3>1. index[f] = InvalidIndex => f = deferred /\ deferred # NoFrame
      BY <1>2 DEF ReorderIInv, Indexed, NoFrame
    <3>. QED
      BY <1>1, <3>1 DEF OInv, Parsing
  <2>3. index[f] = InvalidIndex => Doomed(f)'
    BY <1>1, <1>6, <2>2 DEF Doomed
  <2>4. place = "next" /\ held # NoFrame => index[f] # InvalidIndex
    BY <2>2 DEF OInv, Flags
  <2>5. Entry(f) \in [frame : 1 .. last, index : Nat \cup {InvalidIndex}]
    BY <1>2, OrderFacts DEF Entry, Given
  <2>6. ASSUME NEW e \in nonDecoded
        PROVE  /\ e.frame \notin Pending'
               /\ e.index = InvalidIndex => Doomed(e.frame)'
               /\ e.index # InvalidIndex => e.index = index[e.frame]
    <3>1. e.frame \in 1 .. last
      BY DEF OInv, Dropping
    <3>. QED
      BY <1>2, <1>3, <3>1, UpstreamMoves DEF OInv, Dropping
  <2>7. UNCHANGED <<index, last>>
    BY <1>1 DEF parserVars
  <2>8. nonDecoded' \subseteq [frame : 1 .. last', index : Nat \cup {InvalidIndex}]
    BY <1>1, <2>5, <2>7 DEF OInv, Dropping
  <2>. QED
    BY <1>1, <1>2, <2>1, <2>3, <2>4, <2>6, <2>7, <2>8 DEF OInv, Dropping
<1>8. Ordering'
  <2>1. CASE collapse' = collapse
    BY <1>1, <1>3, <1>4, <2>1, OrderingStays
  <2>2. CASE counts /\ collapse' = Higher(collapse, index[f])
    <3>1. discarding["PtoD"]
      BY <1>1, <2>2 DEF OInv, Parsing
    <3>2. /\ Given(f) /\ index[f] \in Nat /\ index[f] <= nextIndex /\ nextIndex \in Nat
          /\ collapse \in Nat /\ collapse <= nextIndex /\ index' = index
      BY <1>1, <1>2, <2>2, OrderFacts, NextIndexFacts
      DEF Given, OInv, Displaying, Ordering, parserVars
    <3>3. collapse' \in {collapse, index[f]}
      BY <2>2 DEF Higher
    <3>4. ASSUME NEW g \in Pending', Given(g), ~Doomed(g)' PROVE index[g] >= index[f]
      <4>1. PICK m \in Marks' : ~(g < m)
        BY <1>1, <1>6, <3>1, <3>4 DEF Doomed
      <4>2. m \in Marks /\ m \in Nat /\ f < m /\ g \in 1 .. last /\ last \in Nat
        BY <1>2, <1>6, <3>1, <4>1, OrderFacts
      <4>3. m <= g /\ f < g
        BY <1>2, <4>1, <4>2
      <4>4. ~Overtakes(g, f)
        BY <1>2, <4>2, <4>3 DEF OInv, Displaying
      <4>. QED
        BY <1>2, <3>2, <3>4, <4>2, <4>3, <4>4, OrderFacts DEF Overtakes
    <3>5. ASSUME NEW g \in Pending', Given(g), ~Doomed(g)' PROVE index[g] >= collapse
      BY <1>2, <1>3, <3>5, UpstreamMoves, OrderFacts DEF OInv, Ordering, Beyond
    <3>6. Beyond(collapse)'
      BY <3>2, <3>3, <3>4, <3>5 DEF Beyond, Given
    <3>. QED
      BY <1>1, <1>3, <1>4, <3>2, <3>3, <3>6, OrderingStays
  <2>. QED
    BY <1>1, <2>1, <2>2
<1>. QED
  BY <1>4, <1>5, <1>7, <1>8 DEF OInv
-----------------------------------------------------------------------------
(* The loop takes what is displayed next.                                  *)
LEMMA OneOfTwo ==
  ASSUME NEW S, Cardinality(S) >= 2, NEW h \in S
  PROVE  \E k \in S : k # h
<1>1. S = {h} => Cardinality(S) = 1
  BY FS_Singleton
<1>. QED
  BY <1>1

(* Two frames may wait in the table.  So it is in the code, where Working  *)
(* is 3 and Limit 16 (class_definitions/player_types.h:59,                 *)
(* player/player_generic.h:65).                                            *)
TwoWait == MaxDecodesOutOfOrder >= 2

LEMMA ScanTakesTheNext ==
  ASSUME TwoWait, ReorderIInv, OInv, place = "scan", ScanTakes, ~discarding["DtoM"],
         NEW g \in Pending, g # Lowest, Given(g)
  PROVE  index[Lowest] < index[g]
<1> DEFINE h == Lowest
<1>0. /\ Types /\ last \in Nat /\ draining = "no" /\ held = NoFrame /\ hand = NoFrame
      /\ Pending \subseteq 1 .. last /\ Taken \subseteq Pending
      /\ \A f \in 1 .. last : Given(f) => index[f] \in Nat
  BY OrderFacts DEF OInv, Flags, ReorderIInv, Marked, Looping
<1>1. /\ h \in table /\ Given(h) /\ h \in 1 .. last /\ h # g
      /\ \A f \in table : Given(f) => index[h] <= index[f]
  <2>1. h \in Known /\ \A f \in Known : index[h] <= index[f]
    BY <1>0, LowestIsLeast DEF ScanTakes
  <2>. QED
    BY <1>0, <2>1 DEF Known, Given, Taken
<1> HIDE DEF h
<1>2. \A f \in table : f \in 1 .. last
  BY <1>0 DEF Taken
<1>3. g \in 1 .. last /\ index[h] # index[g] /\ index[h] \in Nat /\ index[g] \in Nat
  BY <1>0, <1>1 DEF OInv, Displaying
<1>4. CASE g \in table
  BY <1>1, <1>3, <1>4 DEF h
<1>5. CASE g \notin table
  <2>1. \A f \in table : f < g
    <3>1. PICK a \in Coming : a.kind = "frame" /\ a.n = g
      BY <1>0, <1>5 DEF Pending, Taken
    <3>. QED
      BY <3>1 DEF ReorderIInv, Ahead, Taken
  <2>2. SUFFICES ASSUME index[g] < index[h] PROVE FALSE
    BY <1>3 DEF h
  <2>3. /\ h \in isReference \ collapses
        /\ \A r \in isReference : ~(h < r /\ r <= g)
    BY <1>1, <1>3, <2>1, <2>2 DEF Overtakes, OInv, Displaying
  <2>4. index[h] # desired
    BY <1>0, <1>3, <2>2 DEF OInv, Ordering, Beyond, Doomed
  <2>5. Cardinality(table) >= MaxDecodesOutOfOrder
    BY <1>0, <2>3, <2>4 DEF ScanTakes, h
  <2>6. Cardinality(table) >= 2
    <3>1. MaxDecodesOutOfOrder \in Int
      BY ReorderAssumption DEF MaxDecodesOutOfOrder, Lower
    <3>2. table \subseteq 1 .. last
      BY <1>2
    <3>3. IsFiniteSet(table)
      <4>1. IsFiniteSet(1 .. last)
        BY <1>0, FS_Interval
      <4>. QED
        BY <3>2, <4>1, FS_Subset
    <3>4. Cardinality(table) \in Nat
      BY <3>3, FS_CardinalityType
    <3>. QED
      BY <2>5, <3>1, <3>4 DEF TwoWait
  <2>7. PICK k \in table : k # h
    BY <1>1, <2>6, OneOfTwo
  <2>8. k \in 1 .. last /\ k < g
    BY <1>2, <2>1, <2>7
  <2>9. CASE ~Given(k)
    <3>1. k = deferred /\ deferred # NoFrame
      BY <2>8, <2>9 DEF ReorderIInv, Indexed, Given, NoFrame
    <3>2. k \in isReference /\ h <= k
      BY <2>3, <3>1 DEF OInv, Parsing
    <3>. QED
      BY <1>0, <1>1, <1>3, <2>3, <2>7, <2>8, <3>2
  <2>10. CASE Given(k)
    <3>1. index[h] < index[k] /\ index[k] \in Nat
      BY <1>0, <1>1, <1>3, <2>7, <2>8, <2>10 DEF OInv, Displaying
    <3>2. Overtakes(g, k)
      BY <1>3, <2>2, <2>8, <2>10, <3>1 DEF Overtakes
    <3>3. k \in isReference /\ \A r \in isReference : ~(k < r /\ r <= g)
      BY <1>3, <2>8, <3>2 DEF OInv, Displaying
    <3>. QED
      BY <1>0, <1>1, <1>3, <2>1, <2>3, <2>7, <2>8, <3>3
  <2>. QED
    BY <2>9, <2>10
<1>. QED
  BY <1>4, <1>5 DEF h

LEMMA ScanKeepsOInv ==
  ASSUME TwoWait, ReorderIInv, OInv, Scan
  PROVE  OInv'
<1>0. /\ Types /\ place = "scan" /\ hand = NoFrame /\ NoFrame \notin table
  BY SimpleTypes DEF ReorderIInv, Looping, Scan, Types, NoFrame
<1>1. /\ UNCHANGED <<parsed, decoding, decoded, held, desired, shown, nonDecoded, collapse,
                     discarding, draining>>
      /\ UNCHANGED parserVars
      /\ \/ /\ ScanTakes /\ table' = table \ {Lowest} /\ hand' = Lowest /\ place' = "out"
         \/ /\ table' = table /\ hand' = hand /\ place' = "skip"
  BY DEF Scan, parserVars, skipVars, clientVars
<1>2. ScanTakes => Lowest \in table /\ Given(Lowest)
  BY <1>0, LowestIsLeast DEF ScanTakes, Known, Given
<1>3. Taken' = Taken
  BY <1>0, <1>1, <1>2 DEF Taken
<1>4. Pending' = Pending /\ Marks' = Marks
  BY <1>1, <1>3 DEF Pending, Marks, Coming
<1>5. \A f : (Doomed(f)' <=> Doomed(f)) /\ (Given(f)' <=> Given(f))
  BY <1>1, <1>4 DEF Doomed, Given, parserVars
<1>6. UNCHANGED <<last, index, nextIndex>>
  BY <1>1 DEF parserVars
<1>7. Parsing' /\ Displaying'
  BY <1>1, <1>4, ParserStays
<1>8. Flags'
  BY <1>1 DEF OInv, Flags
<1>9. Dropping'
  BY <1>1, <1>4, <1>5, <1>6 DEF OInv, Dropping
<1>10. ASSUME place' = "out"
       PROVE  /\ hand' \notin table' /\ Given(hand)'
              /\ ~discarding'["DtoM"] =>
                   \A g \in Pending' : g # hand' /\ Given(g)' => index'[hand'] < index'[g]
  <2>1. ScanTakes /\ hand' = Lowest /\ table' = table \ {Lowest}
    BY <1>1, <1>10
  <2>2. Given(hand)'
    BY <1>2, <1>6, <2>1 DEF Given
  <2>. QED
    BY <1>0, <1>1, <1>4, <1>5, <1>6, <2>1, <2>2, ScanTakesTheNext
<1>11. Ordering'
  BY <1>1, <1>4, <1>5, <1>6, <1>10 DEF OInv, Ordering, Beyond
<1>. QED
  BY <1>7, <1>8, <1>9, <1>11 DEF OInv

(* What lies before the marker of a drain is displayed before what lies    *)
(* behind it.                                                              *)
LEMMA DoomedComeBefore ==
  ASSUME ReorderIInv, OInv, NEW f \in 1 .. last, Given(f), Doomed(f),
         NEW g \in Pending, Given(g), ~Doomed(g)
  PROVE  index[f] <= index[g]
<1>1. PICK m \in Marks : f < m /\ ~(g < m)
  BY DEF Doomed
<1>2. m \in Nat /\ g \in 1 .. last /\ last \in Nat /\ index[f] \in Nat /\ index[g] \in Nat
  BY OrderFacts
<1>3. f < g /\ f < m /\ m <= g
  BY <1>1, <1>2
<1>4. ~Overtakes(g, f)
  BY <1>1, <1>2, <1>3 DEF OInv, Displaying
<1>. QED
  BY <1>2, <1>3, <1>4 DEF Overtakes

LEMMA GreatestExists ==
  ASSUME NEW n \in Nat, NEW S \in SUBSET (0 .. n), S # {}
  PROVE  \E m \in S : \A j \in S : j <= m
<1> DEFINE T == {n - j : j \in S}
<1>1. T \in SUBSET Nat /\ T # {}
  <2>1. \A j \in S : n - j \in Nat
    OBVIOUS
  <2>. QED
    BY <2>1
<1>2. PICK k \in T : \A j \in T : k <= j
  BY <1>1, LeastExists
<1>3. PICK m \in S : k = n - m
  BY <1>2
<1>4. \A j \in S : n - m <= n - j
  BY <1>2, <1>3
<1>. QED
  BY <1>4

(* The loop passes over the indices of frames that are not decoded.        *)
Raising == {index[e.frame] : e \in
              {r \in Resolving : discarding["DtoM"] \/ r.frame \in collapses}}
Ends(d) ==
  /\ \A e \in Resolved : e.index # d
  /\ \/ d >= collapse'
     \/ \A e \in Resolved : e.index # InvalidIndex /\ e.index < d

LEMMA ResolvedFacts ==
  ASSUME ReorderIInv, OInv, NEW e \in nonDecoded
  PROVE  /\ e.frame \in 1 .. last /\ e.frame \notin Pending
         /\ Entry(e.frame).frame = e.frame /\ Entry(e.frame).index = index[e.frame]
         /\ Entry(e.frame) \in [frame : 1 .. last, index : Nat \cup {InvalidIndex}]
         /\ index[e.frame] # InvalidIndex => index[e.frame] \in Nat /\ index[e.frame] < nextIndex
         /\ e.index = InvalidIndex \/ index[e.frame] = InvalidIndex => Doomed(e.frame)
<1>1. /\ e.frame \in 1 .. last /\ e.frame \notin Pending
      /\ e.index = InvalidIndex => Doomed(e.frame)
      /\ e.index # InvalidIndex => e.index = index[e.frame]
  BY DEF OInv, Dropping
<1>2. index[e.frame] # InvalidIndex => index[e.frame] \in Nat /\ index[e.frame] < nextIndex
  BY <1>1, OrderFacts DEF Given, OInv, Displaying
<1>. QED
  BY <1>1, <1>2 DEF Entry

LEMMA CollapseRises ==
  ASSUME ReorderIInv, OInv, Skip
  PROVE  /\ collapse' \in Nat /\ collapse' <= nextIndex /\ Beyond(collapse')
<1> DEFINE S == Raising \cup {collapse}
<1>1. collapse' = CHOOSE c \in S : \A r \in S : r <= c
  BY DEF Skip, Raising
<1>2. nextIndex \in Nat /\ collapse \in Nat /\ collapse <= nextIndex /\ Beyond(collapse)
  BY NextIndexFacts DEF OInv, Ordering
<1>3. ASSUME NEW n \in Raising
      PROVE  n \in 0 .. nextIndex /\ \A g \in Pending : Given(g) /\ ~Doomed(g) => n <= index[g]
  <2>1. PICK e \in nonDecoded : n = index[e.frame] /\ e.index = InvalidIndex /\ index[e.frame] # InvalidIndex
    BY DEF Raising, Resolving
  <2>2. e.frame \in 1 .. last /\ Given(e.frame) /\ Doomed(e.frame) /\ n \in Nat /\ n < nextIndex
    BY <2>1, ResolvedFacts DEF Given
  <2>. QED
    BY <1>2, <2>1, <2>2, DoomedComeBefore
<1>4. S \in SUBSET (0 .. nextIndex) /\ S # {}
  BY <1>2, <1>3
<1>5. collapse' \in S
  <2>1. \E c \in S : \A r \in S : r <= c
    BY <1>2, <1>4, GreatestExists
  <2>. QED
    BY <1>1, <2>1
<1>6. ASSUME NEW g \in Pending, Given(g), ~Doomed(g) PROVE index[g] >= collapse'
  BY <1>2, <1>3, <1>5, <1>6 DEF Beyond
<1>. QED
  BY <1>2, <1>4, <1>5, <1>6 DEF Beyond

LEMMA DesiredAdvances ==
  ASSUME ReorderIInv, OInv, Skip
  PROVE  desired' \in Nat /\ desired' <= nextIndex /\ Beyond(desired')
<1> DEFINE S == {d \in desired .. desired + Infinite : Ends(d)}
<1>1. desired' = Least(S)
  BY DEF Skip, Ends
<1>2. /\ collapse' \in Nat /\ collapse' <= nextIndex /\ Beyond(collapse')
      /\ nextIndex \in Nat /\ nextIndex <= MaxFrames /\ MaxFrames \in Nat
      /\ desired \in Nat /\ desired <= nextIndex /\ Beyond(desired)
  BY CollapseRises, NextIndexFacts, OrderFacts DEF OInv, Ordering
<1>3. ASSUME NEW d \in Nat, d >= desired, d <= nextIndex, d >= collapse',
             \A e \in nonDecoded : index[e.frame] # d
      PROVE  d \in S
  <2>1. \A e \in Resolved : e.index # d
    BY <1>3, ResolvedFacts DEF Resolved
  <2>2. Ends(d)
    BY <1>3, <2>1 DEF Ends
  <2>. QED
    BY <1>2, <1>3, <2>2 DEF Infinite
<1>4. nextIndex \in S
  <2>1. \A e \in nonDecoded : index[e.frame] # nextIndex
    BY <1>2, ResolvedFacts, ReorderAssumption
  <2>. QED
    BY <1>2, <1>3, <2>1
<1>5. ASSUME NEW g \in Pending, Given(g), ~Doomed(g) PROVE index[g] \in S
  <2>1. g \in 1 .. last /\ index[g] \in Nat /\ index[g] < nextIndex
    BY <1>5, OrderFacts DEF OInv, Displaying
  <2>2. \A e \in nonDecoded : index[e.frame] # index[g]
    BY <1>5, <2>1, ResolvedFacts DEF OInv, Displaying
  <2>. QED
    BY <1>2, <1>3, <1>5, <2>1, <2>2 DEF Beyond
<1>6. S \in SUBSET Nat
  BY <1>2 DEF Infinite
<1> HIDE DEF S
<1>7. Least(S) \in S /\ \A d \in S : Least(S) <= d
  <2>1. \E n \in S : \A m \in S : n <= m
    BY <1>4, <1>6, LeastExists
  <2>. QED
    BY <2>1 DEF Least
<1>8. desired' \in Nat /\ desired' <= nextIndex
  BY <1>1, <1>4, <1>6, <1>7
<1>9. \A g \in Pending : Given(g) /\ ~Doomed(g) => index[g] >= desired'
  BY <1>1, <1>5, <1>6, <1>7
<1>. QED
  BY <1>8, <1>9 DEF Beyond

LEMMA SkipKeepsOInv ==
  ASSUME ReorderIInv, OInv, Skip
  PROVE  OInv'
<1>1. /\ UNCHANGED <<parsed, decoding, decoded, held, table, hand, shown, discarding, draining>>
      /\ UNCHANGED parserVars
      /\ nonDecoded' = {e \in Resolved : e.index # InvalidIndex => e.index > desired'}
      /\ place' = "next"
  BY DEF Skip, parserVars, clientVars
<1>2. Pending' = Pending /\ Marks' = Marks
  BY <1>1 DEF Pending, Marks, Coming, Taken
<1>3. \A f : (Doomed(f)' <=> Doomed(f)) /\ (Given(f)' <=> Given(f))
  BY <1>1, <1>2 DEF Doomed, Given, parserVars
<1>4. UNCHANGED <<last, index, nextIndex>>
  BY <1>1 DEF parserVars
<1>5. Parsing' /\ Displaying'
  BY <1>1, <1>2, ParserStays
<1>6. Flags'
  BY <1>1 DEF OInv, Flags
<1>7. ASSUME NEW e \in nonDecoded'
      PROVE  /\ e \in [frame : 1 .. last, index : Nat \cup {InvalidIndex}]
             /\ e.frame \notin Pending /\ e.index = index[e.frame]
             /\ e.index = InvalidIndex => Doomed(e.frame)
             /\ held # NoFrame => e.index # InvalidIndex
  <2>1. PICK d \in nonDecoded : e = Entry(d.frame)
    BY <1>1 DEF Resolved
  <2>2. /\ e \in [frame : 1 .. last, index : Nat \cup {InvalidIndex}] /\ e.frame = d.frame
        /\ e.frame \in 1 .. last /\ e.frame \notin Pending /\ e.index = index[e.frame]
        /\ e.index = InvalidIndex => Doomed(e.frame)
    BY <2>1, ResolvedFacts
  <2>3. ASSUME held # NoFrame, e.index = InvalidIndex PROVE FALSE
    <3>1. held \in Marks /\ e.frame < held
      BY <2>2, <2>3 DEF Marks, Doomed
    <3>2. Closed(held)
      BY <3>1, OrderFacts
    <3>. QED
      BY <2>2, <2>3, <3>1, <3>2 DEF Closed
  <2>. QED
    BY <2>2, <2>3
<1>8. Dropping'
  <2>1. nonDecoded' \subseteq [frame : 1 .. last', index : Nat \cup {InvalidIndex}]
    BY <1>4, <1>7
  <2>. QED
    BY <1>1, <1>2, <1>3, <1>4, <1>7, <2>1 DEF Dropping
<1>9. Beyond(desired)' /\ Beyond(collapse)'
  BY <1>2, <1>3, <1>4, CollapseRises, DesiredAdvances DEF Beyond
<1>10. Ordering'
  BY <1>1, <1>2, <1>3, <1>4, <1>9, CollapseRises, DesiredAdvances DEF OInv, Ordering
<1>. QED
  BY <1>5, <1>6, <1>8, <1>10 DEF OInv

LEMMA PassMarkerKeepsOInv ==
  ASSUME ReorderIInv, OInv, PassMarker
  PROVE  OInv'
<1>0. /\ Types /\ table = {} /\ hand = NoFrame /\ held # NoFrame /\ place = "next"
      /\ \A a \in Coming : a.kind # "marker"
  BY DEF ReorderIInv, PassMarker, Looping, Marked
<1>1. /\ UNCHANGED <<parsed, decoding, decoded, table, hand, desired, shown, nonDecoded, collapse>>
      /\ UNCHANGED parserVars
      /\ held' = NoFrame /\ draining' = "no" /\ place' = "scan"
      /\ discarding' = [discarding EXCEPT !["DtoM"] = FALSE]
  BY DEF PassMarker, parserVars, skipVars
<1>2. Pending' = Pending /\ Marks' = {} /\ Coming' = Coming
  BY <1>0, <1>1 DEF Pending, Marks, Coming, Taken
<1>3. Marks = {held}
  BY <1>0 DEF Marks
<1>4. ASSUME NEW g \in Pending PROVE ~Doomed(g)
  <2>1. PICK a \in Coming : a.kind = "frame" /\ a.n = g
    BY <1>0, <1>4 DEF Pending, Taken
  <2>2. held <= g
    BY <2>1 DEF ReorderIInv, Ahead
  <2>3. g \in Nat /\ held \in Nat
    BY <1>0, <2>1, ComingItems, SimpleTypes
  <2>. QED
    BY <1>3, <2>2, <2>3 DEF Doomed
<1>5. UNCHANGED <<last, index, nextIndex>> /\ \A f : Given(f)' <=> Given(f)
  BY <1>1 DEF parserVars, Given
<1>6. Parsing' /\ Displaying'
  BY <1>1, <1>2, ParserStays
<1>7. Flags'
  BY <1>0, <1>1 DEF OInv, Flags
<1>8. Dropping'
  <2>1. \A e \in nonDecoded : e.index # InvalidIndex
    BY <1>0 DEF OInv, Dropping
  <2>. QED
    BY <1>1, <1>2, <1>5, <2>1 DEF OInv, Dropping
<1>9. Ordering'
  <2>1. Beyond(desired)' /\ Beyond(collapse)'
    BY <1>1, <1>2, <1>4, <1>5 DEF OInv, Ordering, Beyond
  <2>. QED
    BY <1>1, <1>2, <1>5, <2>1 DEF OInv, Ordering
<1>. QED
  BY <1>6, <1>7, <1>8, <1>9 DEF OInv

LEMMA GetKeepsOInv ==
  ASSUME ReorderIInv, OInv, Get
  PROVE  OInv'
<1>0. PICK in : in = IF decoded = << >> THEN Item("poke", 0) ELSE Head(decoded)
  OBVIOUS
<1> DEFINE direct == in.kind = "frame" /\ index[in.n] # InvalidIndex /\ index[in.n] <= desired
<1>1. /\ UNCHANGED <<parsed, decoding, desired, shown, nonDecoded, collapse, discarding, draining>>
      /\ UNCHANGED parserVars
      /\ decoded' = IF decoded = << >> THEN decoded ELSE Tail(decoded)
      /\ held' = IF in.kind = "marker" THEN in.n ELSE NoFrame
      /\ table' = IF in.kind = "frame" /\ ~direct THEN table \cup {in.n} ELSE table
      /\ hand' = IF direct THEN in.n ELSE NoFrame
      /\ place' = IF direct THEN "out" ELSE "scan"
  BY <1>0 DEF Get, parserVars, skipVars, clientVars
<1>2. /\ Types /\ InLine /\ hand = NoFrame /\ held = NoFrame /\ decoded \in Seq(Items)
  BY DEF ReorderIInv, Get, Looping, Types
<1>3. /\ in \in Coming \/ in.kind = "poke"
      /\ in \in Elements(decoded) \/ in.kind = "poke"
      /\ \A a \in Elements(decoded') : a \in Elements(decoded)
  <2>1. CASE decoded = << >>
    BY <1>0, <1>1, <2>1 DEF Item
  <2>2. CASE decoded # << >>
    BY <1>0, <1>1, <1>2, <2>2, TailItems DEF Coming
  <2>. QED
    BY <2>1, <2>2
<1>4. Coming' \subseteq Coming
  BY <1>1, <1>3 DEF Coming
<1>5. in.kind = "frame" => in.n \in Pending /\ in.n \notin table /\ in.n # NoFrame
  <2>1. ASSUME in.kind = "frame" PROVE in.n \in Pending /\ in.n \in Nat
    BY <1>2, <1>3, <2>1, ComingItems DEF Pending
  <2>2. ASSUME in.kind = "frame" PROVE \A f \in Taken : f < in.n
    BY <1>3, <2>2 DEF ReorderIInv, Ahead
  <2>3. table \subseteq Nat /\ \A n \in Pending : n \in Nat /\ n # NoFrame
    BY <1>2, SimpleTypes, OrderFacts DEF NoFrame
  <2>. QED
    BY <2>1, <2>2, <2>3 DEF Taken
<1> HIDE DEF direct
<1>6. direct => /\ in.kind = "frame" /\ index[in.n] # InvalidIndex /\ index[in.n] <= desired
  BY DEF direct
<1>7. Pending' \subseteq Pending
  <2>1. Taken' \subseteq Taken \cup (IF in.kind = "frame" THEN {in.n} ELSE {})
    BY <1>1, <1>6 DEF Taken
  <2>. QED
    BY <1>4, <1>5, <2>1, OrderFacts DEF Pending
<1>8. Marks' \subseteq Marks
  BY <1>1, <1>3, <1>4 DEF Marks
<1>9. /\ \A f : Doomed(f) => Doomed(f)'
      /\ \A f : Given(f)' <=> Given(f)
      /\ UNCHANGED <<last, index, nextIndex>>
  BY <1>1, <1>8 DEF Doomed, Given, parserVars
<1>10. Parsing' /\ Displaying'
  BY <1>1, <1>8, ParserStays
<1>11. Flags'
  <2>1. discarding["PtoD"] => held' = NoFrame
    BY <1>1, <1>3 DEF OInv, Flags
  <2>. QED
    BY <1>1, <1>3, <2>1 DEF OInv, Flags
<1>12. Dropping'
  <2>1. place' # "next"
    BY <1>1
  <2>. QED
    BY <1>1, <1>7, <1>9, <2>1 DEF OInv, Dropping
<1>13. ASSUME place' = "out"
       PROVE  /\ hand' \notin table' /\ Given(hand)'
              /\ ~discarding["DtoM"] =>
                   \A g \in Pending' : g # hand' /\ Given(g) => index[hand'] < index[g]
  <2>1. direct /\ hand' = in.n /\ table' = table /\ in.kind = "frame" /\ index[in.n] <= desired
    BY <1>1, <1>6, <1>13
  <2>2. Given(in.n) /\ in.n \in Pending /\ in.n \notin table
    BY <1>5, <1>6, <2>1 DEF Given
  <2>3. Given(hand)'
    BY <1>9, <2>1, <2>2 DEF Given
  <2>4. ASSUME ~discarding["DtoM"], NEW g \in Pending', g # in.n, Given(g)
        PROVE  index[in.n] < index[g]
    <3>1. g \in Pending /\ ~Doomed(g) /\ ~Doomed(in.n)
      BY <1>7, <2>4 DEF OInv, Flags, Doomed
    <3>2. index[g] >= desired /\ index[in.n] >= desired
      BY <2>2, <2>4, <3>1 DEF OInv, Ordering, Beyond
    <3>3. index[g] # index[in.n]
      BY <2>2, <2>4, <3>1, OrderFacts DEF OInv, Displaying
    <3>4. index[g] \in Nat /\ index[in.n] \in Nat /\ desired \in Nat
      BY <2>2, <2>4, <3>1, OrderFacts DEF OInv, Ordering
    <3>. QED
      BY <2>1, <3>2, <3>3, <3>4
  <2>. QED
    BY <2>1, <2>2, <2>3, <2>4
<1>14. Beyond(desired)' /\ Beyond(collapse)'
  BY <1>1, <1>7, <1>9 DEF OInv, Ordering, Beyond
<1>15. Ordering'
  BY <1>1, <1>7, <1>9, <1>13, <1>14 DEF OInv, Ordering
<1>. QED
  BY <1>10, <1>11, <1>12, <1>15 DEF OInv

LEMMA OutKeepsOInv ==
  ASSUME ReorderIInv, OInv, Out
  PROVE  OInv' /\ shown' >= shown
<1>0. /\ Types /\ place = "out" /\ hand # NoFrame /\ hand \in Taken /\ hand \in Pending
      /\ hand \in 1 .. last /\ hand \notin table /\ Given(hand) /\ index[hand] \in Nat
      /\ index[hand] < nextIndex /\ nextIndex \in Nat /\ shown \in Int /\ index[hand] > shown
  <2>1. /\ Types /\ place = "out" /\ hand # NoFrame /\ hand \in Taken /\ hand \in Pending
        /\ hand \in 1 .. last /\ hand \notin table /\ Given(hand)
    BY OrderFacts DEF ReorderIInv, Out, Looping, Taken, OInv, Ordering
  <2>. QED
    BY <2>1, OrderFacts, NextIndexFacts DEF OInv, Displaying, Ordering
<1>1. /\ UNCHANGED <<parsed, decoding, decoded, held, table, nonDecoded, collapse, discarding,
                     draining>>
      /\ UNCHANGED parserVars
      /\ desired' = index[hand] + 1 /\ hand' = NoFrame /\ place' = "scan"
      /\ shown' = IF discarding["DtoM"] THEN shown ELSE index[hand]
  BY DEF Out, parserVars, skipVars, clientVars
<1>2. Marks' = Marks /\ Coming' = Coming
  BY <1>1 DEF Marks, Coming
<1>3. \A g \in Pending' : g \in Pending /\ g # hand
  <2>1. Taken' = table
    BY <1>1 DEF Taken
  <2>2. \A a \in Coming : a.kind = "frame" => a.n # hand
    BY <1>0, ComingItems DEF ReorderIInv, Ahead
  <2>. QED
    BY <1>0, <1>2, <2>1, <2>2 DEF Pending, Taken
<1>4. /\ \A f : (Doomed(f)' <=> Doomed(f)) /\ (Given(f)' <=> Given(f))
      /\ UNCHANGED <<last, index, nextIndex>>
  BY <1>1, <1>2 DEF Doomed, Given, parserVars
<1>5. Parsing' /\ Displaying'
  BY <1>1, <1>2, ParserStays
<1>6. Flags'
  BY <1>1 DEF OInv, Flags
<1>7. Dropping'
  BY <1>1, <1>3, <1>4 DEF OInv, Dropping
<1>8. ASSUME NEW g \in Pending', Given(g), ~discarding["DtoM"] \/ ~Doomed(g)
      PROVE  index[g] > index[hand]
  <2>1. g \in 1 .. last /\ index[g] \in Nat /\ g # hand /\ g \in Pending
    BY <1>3, <1>8, OrderFacts
  <2>2. CASE ~discarding["DtoM"]
    BY <1>0, <1>8, <2>1, <2>2 DEF OInv, Ordering
  <2>3. CASE discarding["DtoM"] /\ ~Doomed(g)
    <3>1. Doomed(hand)
      <4>1. \A m \in Marks : hand < m
        BY <1>0 DEF Marks, ReorderIInv, Ahead, Waiting
      <4>. QED
        BY <2>3, <4>1 DEF Doomed, OInv, Flags
    <3>2. index[hand] <= index[g]
      BY <1>0, <1>8, <2>1, <2>3, <3>1, DoomedComeBefore
    <3>3. index[hand] # index[g]
      BY <1>0, <2>1 DEF OInv, Displaying
    <3>. QED
      BY <1>0, <2>1, <3>2, <3>3
  <2>. QED
    BY <1>8, <2>2, <2>3
<1>9. Beyond(desired)' /\ Beyond(collapse)'
  <2>1. ASSUME NEW g \in Pending', Given(g), ~Doomed(g)
        PROVE  index[g] >= index[hand] + 1 /\ index[g] >= collapse
    <3>1. g \in Pending /\ g \in 1 .. last /\ index[g] \in Nat
      BY <1>3, <2>1, OrderFacts
    <3>. QED
      BY <1>0, <1>8, <2>1, <3>1 DEF OInv, Ordering, Beyond
  <2>. QED
    BY <1>1, <1>4, <2>1 DEF Beyond
<1>10. \A g \in Pending' : Given(g) => index[g] > shown'
  BY <1>1, <1>3, <1>8 DEF OInv, Ordering
<1>11. /\ shown' \in Int /\ desired' \in Nat /\ shown' < nextIndex /\ desired' <= nextIndex
       /\ shown' >= shown
  BY <1>0, <1>1 DEF OInv, Ordering
<1>12. Ordering'
  BY <1>1, <1>4, <1>9, <1>10, <1>11 DEF OInv, Ordering
<1>. QED
  BY <1>5, <1>6, <1>7, <1>11, <1>12 DEF OInv
-----------------------------------------------------------------------------
LEMMA InitIsOInv == ReorderInit => OInv
<1> SUFFICES ASSUME ReorderInit PROVE OInv
  OBVIOUS
<1>1. Coming = {} /\ Marks = {} /\ Pending = {} /\ Len(<< >>) = 0 /\ 1 .. 0 = {}
  BY DEF ReorderInit, Coming, Elements, Marks, Pending, Taken
<1>2. Parsing
  BY <1>1 DEF ReorderInit, Parsing
<1>3. Displaying
  BY <1>1 DEF ReorderInit, Displaying
<1>4. Flags /\ Dropping
  BY <1>1 DEF ReorderInit, Flags, Dropping, Elements
<1>5. Ordering
  BY <1>1 DEF ReorderInit, Ordering, Beyond
<1>. QED
  BY <1>2, <1>3, <1>4, <1>5 DEF OInv

LEMMA StutterKeepsOInv ==
  ASSUME OInv, UNCHANGED reorderVars
  PROVE  OInv'
<1>1. UNCHANGED <<parsed, decoding, decoded, last, isReference, deferred, nextIndex,
                  collapseNext, references, index, collapses, nonDecoded, collapse, table,
                  held, desired, place, hand, shown, discarding, draining>>
  BY DEF reorderVars, parserVars, skipVars, loopVars, clientVars
<1>2. Pending' = Pending /\ Marks' = Marks
  BY <1>1 DEF Pending, Marks, Coming, Taken
<1>3. \A f : (Doomed(f)' <=> Doomed(f)) /\ (Given(f)' <=> Given(f))
  BY <1>1, <1>2 DEF Doomed, Given
<1>4. Parsing' /\ Flags'
  BY <1>1 DEF OInv, Parsing, Flags
<1>5. Displaying'
  BY <1>1, <1>2 DEF OInv, Displaying, Overtakes, Given
<1>6. Dropping'
  BY <1>1, <1>2, <1>3 DEF OInv, Dropping
<1>7. Ordering'
  BY <1>1, <1>2, <1>3 DEF OInv, Ordering, Beyond
<1>. QED
  BY <1>4, <1>5, <1>6, <1>7 DEF OInv

LEMMA NextKeepsOInv ==
  ASSUME ~PlaysOut, ~DropsReferences, TwoWait, ReorderIInv, OInv, [ReorderNext]_reorderVars
  PROVE  OInv' /\ (shown' >= shown \/ UNCHANGED reorderVars)
<1>1. CASE UNCHANGED reorderVars
  BY <1>1, StutterKeepsOInv
<1>2. CASE ReorderNext
  <2>1. OInv'
    BY <1>2, ParseKeepsOInv, JumpKeepsOInv, DrainKeepsOInv, MarkerKeepsOInv,
       StagesKeepOInv, RecordKeepsOInv, ScanKeepsOInv, SkipKeepsOInv,
       PassMarkerKeepsOInv, GetKeepsOInv, OutKeepsOInv DEF ReorderNext, Loop
  <2>2. Out \/ shown' = shown
    BY <1>2 DEF ReorderNext, Loop, ParseReference, ParseOther, InputJump, Drain, InsertMarker,
       TakeControl, Decode, RecordNonDecodedFrame, DecodeComplete, Manifested, Scan,
       Skip, PassMarker, Get, loopVars
  <2>3. shown \in Int
    BY DEF OInv, Ordering
  <2>. QED
    BY <2>1, <2>2, <2>3, OutKeepsOInv
<1>. QED
  BY <1>1, <1>2

(* Frames go to the manifestor in display order, for any numbers of        *)
(* frames, jumps, drains, decode contexts and decode buffers and whatever  *)
(* frames that are not of reference are dropped, if drains discard and the *)
(* table may hold two frames: a frame that the loop takes is displayed     *)
(* before all that are left, those that have no index yet included.        *)
THEOREM FramesAreInOrder ==
  ASSUME ~PlaysOut, ~DropsReferences, TwoWait
  PROVE  ReorderSpec => InDisplayOrder
<1>1. ReorderIInv /\ OInv /\ [ReorderNext]_reorderVars => [shown' >= shown]_reorderVars
  BY NextKeepsOInv
<1>. QED
  BY <1>1, InitIsIInv, NextKeepsIInv, InitIsOInv, NextKeepsOInv, PTL DEF ReorderSpec, InDisplayOrder
=============================================================================
