------------------------- MODULE OutputCoordinator -------------------------
(***************************************************************************)
(* How the streams of a playback agree on a mapping from playback time to  *)
(* system time (output_coordinator/output_coordinator_base.cpp), as the    *)
(* output timers use it.  The first time a stream is to be shown its       *)
(* decode-to-manifest process calls SynchronizeStreams, which waits for    *)
(* the other streams for a while, makes a mapping or picks up the one that *)
(* somebody else made.  Jumps in the playback times move the mapping; the  *)
(* other streams have to make the same jump, or everything is reset.       *)
(*                                                                         *)
(* A section under Lock is one step; what is read or set without it is a   *)
(* step of its own.  Times are abstract: of a mapping the model keeps      *)
(* whether it is established, whether it is the master's newest one, and   *)
(* by which jumps it was moved, so that two mappings of one version are    *)
(* the same if their jumps are; whether times are in some range is open,   *)
(* unless a property depends on it.  SynchronizeMayHaveCompleted only      *)
(* shortens waits that may end at any time and is left out.                *)
(* One process of a stream generates its timing: re-timing of queued       *)
(* frames by the post-manifest process is not modelled.                    *)
(***************************************************************************)
EXTENDS Integers, FiniteSets

CONSTANTS
  Streams,
  MaxSynchronizeWaits,  \* MAX_SYNCHRONIZE_WAITS
  FollowBy,    \* frames until OTHER_STREAMS_MUST_FOLLOW_JUMP_BY has passed
  Deltas,      \* the sizes of jumps in playback times
  MaxJumps,    \* bound: how far jumps take a mapping
  Windowed,    \* the streams whose parse-to-decode process is modelled
  Prompt       \* a stream that is taken down has no frame on its way but
               \* one that waits in SynchronizeStreams

ASSUME CoordinatorAssumption ==
  /\ IsFiniteSet(Streams)
  /\ MaxSynchronizeWaits \in Nat \ {0} /\ FollowBy \in Nat \ {0}
  /\ Deltas \subseteq Int \ {0} /\ MaxJumps \in Nat
  /\ Prompt \in BOOLEAN

VARIABLES
  life,        \* "new"; "running": registered; "halting": the timer is
               \* halted, DeRegisterStream called; "gone": context deleted
  streamCount, \* StreamCount
  inSyncCount, \* StreamsInSynchronize
  master,      \* MasterTimeMappingEstablished
  masterJumps, \* AccumulatedPlaybackTimeJumpsSinceSynchronization
  unmade,      \* MasterTimeMappingVersion is 0
  established, \* TimeMappingEstablished of a context
  current,     \* BasedOnMasterMappingVersion = MasterTimeMappingVersion
  jumps,       \* Accumulated... of a context
  inDelay,     \* InStartupDelay
  inSync,      \* InSynchronizeFn
  abort,       \* the Valid flag of AbortPerformEntryIntoDecodeWindowWait,
               \* while somebody is to wait for it
  pc,          \* the decode-to-manifest process, in GenerateFrameTiming or
               \* between frames: "first" if NextExpectedPlaybackTime is
               \* invalid, otherwise "idle"
  delta,       \* DeltaPlaybackTime of the frame, if it is large; else 0
  behind,      \* frames since JumpSeenAtPlaybackTime, up to FollowBy
  waits,       \* WaitCount
  window,      \* the parse-to-decode process, in AwaitEntryIntoDecodeWindow
  outdated     \* history: a mapping was reset or replaced since it began

masterVars == <<master, masterJumps, unmade>>
mapVars    == <<established, current, jumps>>
countVars  == <<life, streamCount, inSyncCount, inDelay, inSync>>
frameVars  == <<delta, behind, waits>>
windowVars == <<abort, window, outdated>>
vars == <<masterVars, mapVars, countVars, frameVars, windowVars, pc>>

Registered == {c \in Streams : life[c] \in {"running", "halting"}}
At(c, l)   == pc[c] = l
Resting(c) == pc[c] \in {"first", "idle"}
Synchronizing(c) == pc[c] \in {"alternate", "delay", "wait"}
Goto(c, l) == pc' = [pc EXCEPT ![c] = l]

Init ==
  /\ life = [c \in Streams |-> "new"]
  /\ streamCount = 0 /\ inSyncCount = 0
  /\ inDelay = [c \in Streams |-> FALSE] /\ inSync = [c \in Streams |-> FALSE]
  /\ master = FALSE /\ masterJumps = 0 /\ unmade = TRUE
  /\ established = [c \in Streams |-> FALSE]
  /\ current = [c \in Streams |-> FALSE]
  /\ jumps = [c \in Streams |-> 0]
  /\ abort = [c \in Streams |-> FALSE]
  /\ window = [c \in Streams |-> "idle"]
  /\ outdated = [c \in Streams |-> FALSE]
  /\ pc = [c \in Streams |-> "first"]
  /\ delta = [c \in Streams |-> 0]
  /\ behind = [c \in Streams |-> FollowBy] /\ waits = [c \in Streams |-> 0]

(***************************************************************************)
(* ResetTimeMapping for the playback, by whomever, and what it leaves to   *)
(* say of the processes                                                    *)
(***************************************************************************)
Outdate(S) ==
  /\ abort' = [c \in Streams |-> abort[c] \/ (c \in S /\ window[c] # "idle")]
  /\ outdated' = [c \in Streams |-> outdated[c] \/ (c \in S /\ window[c] # "idle")]
  /\ UNCHANGED window

ResetAll ==
  /\ master' = FALSE /\ masterJumps' = 0
  /\ behind' = [c \in Streams |-> FollowBy]
  /\ established' = [c \in Streams |-> FALSE]
  /\ Outdate(Registered)
  /\ UNCHANGED <<unmade, current, jumps, countVars,
                 delta, waits>>

(***************************************************************************)
(* RegisterStream, DeRegisterStream                                        *)
(***************************************************************************)
RegisterStream(c) ==
  /\ life[c] = "new"
  /\ life' = [life EXCEPT ![c] = "running"]
  /\ streamCount' = streamCount + 1
  /\ current' = [current EXCEPT ![c] = unmade]
  /\ UNCHANGED <<masterVars, established, jumps, inSyncCount, inDelay,
                 inSync, frameVars, windowVars, pc>>

Halt(c) ==
  /\ life[c] = "running"
  /\ life' = [life EXCEPT ![c] = "halting"]
  /\ UNCHANGED <<masterVars, mapVars, streamCount, inSyncCount, inDelay,
                 inSync, frameVars, windowVars, pc>>

(* Where a process uses its context without telling DeRegisterStream.      *)
Unprotected(c) == \/ ~Resting(c) /\ ~Synchronizing(c)
                  \/ window[c] # "idle"

\* Mutant: the startup delay is not waited for
DeRegisterAtOnce(c) ==
  /\ life[c] = "halting"
  /\ ~inSync[c]
  /\ Prompt => ~Unprotected(c)
  /\ life' = [life EXCEPT ![c] = "gone"]
  /\ streamCount' = streamCount - 1
  /\ established' = [established EXCEPT ![c] = FALSE]
  /\ current' = [current EXCEPT ![c] = FALSE]
  /\ jumps' = [jumps EXCEPT ![c] = 0]
  /\ UNCHANGED <<masterVars, inSyncCount, inDelay, inSync, frameVars,
                 windowVars, pc>>

(* The loop looks again every 5 ms.                                        *)
DeRegisterStream(c) ==
  /\ life[c] = "halting"
  /\ ~inDelay[c] /\ ~inSync[c]
  /\ Prompt => ~Unprotected(c)
  /\ life' = [life EXCEPT ![c] = "gone"]
  /\ streamCount' = streamCount - 1
  /\ established' = [established EXCEPT ![c] = FALSE]
  /\ current' = [current EXCEPT ![c] = FALSE]
  /\ jumps' = [jumps EXCEPT ![c] = 0]
  /\ UNCHANGED <<masterVars, inSyncCount, inDelay, inSync, frameVars,
                 windowVars, pc>>

(***************************************************************************)
(* The application: a mapping imposed or reset, a pause ended, the speed   *)
(* changed (which moves all mappings to the same instant)                  *)
(***************************************************************************)
ClientReset == ResetAll /\ UNCHANGED pc

(* MasterTimeMappingEstablished is false for a moment, and streams that    *)
(* translate a time in it go on to SynchronizeStreams.                     *)
EstablishTimeMapping ==
  \E misled \in SUBSET {c \in Streams : pc[c] \in {"match", "translate"}} :
    /\ Registered # {}
    /\ master' = TRUE /\ masterJumps' = 0 /\ unmade' = FALSE
    /\ behind' = [c \in Streams |-> FollowBy]
    /\ established' = [c \in Streams |-> established[c] \/ c \in Registered]
    /\ current' = [c \in Streams |-> c \in Registered]
    /\ jumps' = [c \in Streams |-> IF c \in Registered THEN 0 ELSE jumps[c]]
    /\ Outdate(Registered)
    /\ pc' = [c \in Streams |-> IF c \in misled THEN "alternate" ELSE pc[c]]
    /\ delta' = [c \in Streams |-> IF c \in misled THEN 0 ELSE delta[c]]
    /\ inDelay' = [c \in Streams |-> inDelay[c] \/ c \in misled]
    /\ UNCHANGED <<life, streamCount, inSyncCount, inSync, waits>>

SetPlaybackSpeed ==
  /\ Outdate(Registered)
  /\ UNCHANGED <<masterVars, mapVars, countVars, frameVars, pc>>

(***************************************************************************)
(* GenerateFrameTiming up to SynchronizeStreams.  A frame may be preceded  *)
(* by a reset of its stream's mapping: a drain, or synchronization         *)
(* switched on.                                                            *)
(***************************************************************************)
ResetStream(c) ==
  /\ life[c] = "running" /\ Resting(c)
  /\ established' = [established EXCEPT ![c] = FALSE]
  /\ Outdate({c})
  /\ Goto(c, "first")
  /\ UNCHANGED <<masterVars, current, jumps, countVars, frameVars>>

FirstFrame(c) ==
  /\ life[c] = "running" /\ At(c, "first")
  /\ Goto(c, "translate")
  /\ UNCHANGED <<masterVars, mapVars, countVars, frameVars, windowVars>>

NextFrame(c, d) ==
  /\ life[c] = "running" /\ At(c, "idle")
  /\ jumps[c] - d \in -MaxJumps .. MaxJumps
  /\ delta' = [delta EXCEPT ![c] = d]
  /\ Goto(c, IF ~master THEN "translate" ELSE IF d # 0 THEN "jump" ELSE "follow")
  /\ UNCHANGED <<masterVars, mapVars, countVars, behind, waits, windowVars>>

(* How far what is accumulated differs after this jump.                    *)
JumpError(c) == masterJumps - (jumps[c] - delta[c])

InitiateJump(c) ==
  /\ At(c, "jump") /\ jumps[c] = masterJumps
  /\ masterJumps' = masterJumps - delta[c]
  /\ jumps' = [jumps EXCEPT ![c] = masterJumps']
  /\ behind' = [s \in Streams |-> 0]
  /\ Goto(c, "follow")
  /\ UNCHANGED <<master, unmade, established, current, countVars, delta,
                 waits, windowVars>>

PartialCatchup(c) ==
  /\ At(c, "jump") /\ jumps[c] # masterJumps /\ JumpError(c) # 0
  /\ jumps' = [jumps EXCEPT ![c] = @ - delta[c]]
  /\ Goto(c, "follow")
  /\ UNCHANGED <<masterVars, established, current, countVars, frameVars,
                 windowVars>>

(* Errors up to the threshold for forward jumps are accepted.              *)
CompleteCatchup(c) ==
  /\ At(c, "jump") /\ jumps[c] # masterJumps /\ JumpError(c) >= 0
  /\ jumps' = [jumps EXCEPT ![c] = masterJumps]
  /\ Goto(c, "follow")
  /\ UNCHANGED <<masterVars, established, current, countVars, frameVars,
                 windowVars>>

\* Mutant: nobody checks that a stream follows a jump
FollowNever(c) ==
  /\ At(c, "follow")
  /\ Goto(c, "match")
  /\ UNCHANGED <<masterVars, mapVars, frameVars, countVars, windowVars>>

(* A stream that has jumped, but not enough, may be far from where the     *)
(* others jumped.                                                          *)
Follow(c) ==
  /\ At(c, "follow")
  /\ IF jumps[c] = masterJumps THEN Goto(c, "match") /\ UNCHANGED behind
     ELSE /\ behind' = [behind EXCEPT ![c] = IF @ < FollowBy THEN @ + 1 ELSE @]
          /\ \/ behind[c] = FollowBy /\ Goto(c, "unfollowed")
             \/ behind[c] < FollowBy /\ Goto(c, "match")
             \/ delta[c] # 0 /\ Goto(c, "unfollowed")
  /\ UNCHANGED <<masterVars, mapVars, countVars, delta, waits,
                 windowVars>>

FollowReset(c) == At(c, "unfollowed") /\ ResetAll /\ Goto(c, "match")

(* Whether the frame is far from the start of the master's mapping is open *)
(* when the stream's is another one.                                       *)
Match(c) ==
  /\ At(c, "match") /\ ~current[c]
  /\ Goto(c, "unmatched")
  /\ UNCHANGED <<masterVars, mapVars, countVars, frameVars, windowVars>>

MatchReset(c) == At(c, "unmatched") /\ ResetAll /\ Goto(c, "translate")

(* Whether SynchronizeStreams is needed; if so it says so at once.         *)
TranslatePlaybackTimeToSystem(c) ==
  /\ pc[c] \in {"match", "translate"}
  /\ delta' = [delta EXCEPT ![c] = 0]
  /\ IF master /\ established[c] THEN Goto(c, "idle") /\ UNCHANGED inDelay
     ELSE inDelay' = [inDelay EXCEPT ![c] = TRUE] /\ Goto(c, "alternate")
  /\ UNCHANGED <<masterVars, mapVars, life, streamCount, inSyncCount, inSync,
                 behind, waits, windowVars>>

(***************************************************************************)
(* SynchronizeStreams                                                      *)
(***************************************************************************)
(* The master's mapping, if this stream has not used it and if it is       *)
(* reasonable for this frame.                                              *)
TakeAlternate(c) ==
  /\ At(c, "alternate") /\ master /\ ~current[c]
  /\ jumps' = [jumps EXCEPT ![c] = 0]
  /\ established' = [established EXCEPT ![c] = TRUE]
  /\ current' = [current EXCEPT ![c] = TRUE]
  /\ inDelay' = [inDelay EXCEPT ![c] = FALSE]
  /\ Goto(c, "idle")
  /\ UNCHANGED <<masterVars, life, streamCount, inSyncCount, inSync,
                 frameVars, windowVars>>

NoAlternate(c) ==
  /\ At(c, "alternate")
  /\ master' = FALSE
  /\ Goto(c, "delay")
  /\ UNCHANGED <<masterJumps, unmade, mapVars, countVars,
                 frameVars, windowVars>>

\* Mutant: the count is not lowered again
LeaveUncounted(c, n) ==
  /\ inSync' = [inSync EXCEPT ![c] = FALSE]
  /\ inSyncCount' = n
  /\ waits' = [waits EXCEPT ![c] = 0]
  /\ established' = [established EXCEPT ![c] = TRUE]
  /\ Goto(c, "idle")

Leave(c, n) ==
  /\ inSync' = [inSync EXCEPT ![c] = FALSE]
  /\ inSyncCount' = n - 1
  /\ waits' = [waits EXCEPT ![c] = 0]
  /\ established' = [established EXCEPT ![c] = TRUE]
  /\ Goto(c, "idle")

(* The mapping is taken as it was before any jumps, or, when the stream is *)
(* too far from it, as if the stream had jumped.                           *)
Adopt(c, accumulated, seen) ==
  \/ /\ masterJumps' = accumulated /\ behind' = seen
     /\ jumps' = [jumps EXCEPT ![c] = 0]
  \/ \E offset \in Deltas :
       /\ accumulated - offset \in -MaxJumps .. MaxJumps
       /\ masterJumps' = accumulated - offset
       /\ behind' = [s \in Streams |-> 0]
       /\ jumps' = [jumps EXCEPT ![c] = masterJumps']

PickUp(c, n) ==
  /\ master
  /\ Adopt(c, masterJumps, behind)
  /\ current' = [current EXCEPT ![c] = TRUE]
  /\ Leave(c, n)
  /\ UNCHANGED <<master, unmade>>

(* Everybody is here, or the wait was long enough: a mapping is made, and  *)
(* adopted before the lock is given back.                                  *)
Establish(c, n, w) ==
  /\ ~master
  /\ n = streamCount \/ w >= MaxSynchronizeWaits
  /\ master' = TRUE /\ unmade' = FALSE
  /\ Adopt(c, 0, [s \in Streams |-> FollowBy])
  /\ current' = [s \in Streams |-> s = c]
  /\ Leave(c, n)

Wait(c, n, w) ==
  /\ ~master
  /\ n # streamCount /\ w < MaxSynchronizeWaits
  /\ inSync' = [inSync EXCEPT ![c] = TRUE]
  /\ inSyncCount' = n
  /\ waits' = [waits EXCEPT ![c] = w]
  /\ Goto(c, "wait")
  /\ UNCHANGED <<masterVars, mapVars, behind>>

Synchronize(c, n, w) == PickUp(c, n) \/ Establish(c, n, w) \/ Wait(c, n, w)

Join(c) ==
  /\ At(c, "delay")
  /\ inDelay' = [inDelay EXCEPT ![c] = FALSE]
  /\ Synchronize(c, inSyncCount + 1, 0)
  /\ UNCHANGED <<life, streamCount, delta, windowVars>>

\* Mutant: WaitCount is not raised
SyncAgainUncounted(c) ==
  /\ At(c, "wait")
  /\ Synchronize(c, inSyncCount, waits[c])
  /\ UNCHANGED <<life, streamCount, inDelay, delta, windowVars>>

SyncAgain(c) ==
  /\ At(c, "wait")
  /\ Synchronize(c, inSyncCount, waits[c] + 1)
  /\ UNCHANGED <<life, streamCount, inDelay, delta, windowVars>>

(***************************************************************************)
(* PerformEntryIntoDecodeWindowWait                                        *)
(***************************************************************************)
AwaitWindow(c) ==
  /\ c \in Windowed /\ life[c] = "running" /\ window[c] = "idle"
  /\ abort' = [abort EXCEPT ![c] = FALSE]
  /\ window' = [window EXCEPT ![c] = "read"]
  /\ UNCHANGED <<masterVars, mapVars, countVars, frameVars, outdated, pc>>

\* Mutant: the event is reset after the mapping was read
WindowReadThenReset(c) ==
  /\ window[c] = "read"
  /\ \/ master /\ window' = [window EXCEPT ![c] = "sleep"]
     \/ window' = [window EXCEPT ![c] = "idle"]
  /\ abort' = [abort EXCEPT ![c] = FALSE]
  /\ outdated' = [outdated EXCEPT ![c] = @ /\ window'[c] # "idle"]
  /\ UNCHANGED <<masterVars, mapVars, countVars, frameVars, pc>>

(* The context's mapping or the master's; there may be nothing to wait for.*)
WindowRead(c) ==
  /\ window[c] = "read"
  /\ \/ master /\ window' = [window EXCEPT ![c] = "sleep"]
     \/ window' = [window EXCEPT ![c] = "idle"]
  /\ abort' = [abort EXCEPT ![c] = @ /\ window'[c] # "idle"]
  /\ outdated' = [outdated EXCEPT ![c] = @ /\ window'[c] # "idle"]
  /\ UNCHANGED <<masterVars, mapVars, countVars, frameVars, pc>>

WindowEnd(c) ==
  /\ window[c] = "sleep"
  /\ window' = [window EXCEPT ![c] = "idle"]
  /\ abort' = [abort EXCEPT ![c] = FALSE]
  /\ outdated' = [outdated EXCEPT ![c] = FALSE]
  /\ UNCHANGED <<masterVars, mapVars, countVars, frameVars, pc>>

FrameStep(c) ==
  \/ InitiateJump(c) \/ PartialCatchup(c) \/ CompleteCatchup(c)
  \/ Follow(c) \/ FollowReset(c) \/ Match(c) \/ MatchReset(c)
  \/ TranslatePlaybackTimeToSystem(c)
  \/ TakeAlternate(c) \/ NoAlternate(c)
  \/ Join(c) \/ SyncAgain(c)

Next ==
  \/ \E c \in Streams :
       \/ RegisterStream(c) \/ Halt(c) \/ DeRegisterStream(c)
       \/ ResetStream(c)
       \/ FirstFrame(c) \/ \E d \in Deltas \cup {0} : NextFrame(c, d)
       \/ FrameStep(c)
       \/ AwaitWindow(c) \/ WindowRead(c) \/ WindowEnd(c)
  \/ ClientReset \/ EstablishTimeMapping \/ SetPlaybackSpeed

Spec == Init /\ [][Next]_vars

(***************************************************************************)
(* The processes keep running.  A stream need not have another frame.      *)
(***************************************************************************)
Fairness == \A c \in Streams : WF_vars(FrameStep(c))

FairSpec == Spec /\ Fairness
-----------------------------------------------------------------------------
(***************************************************************************)
(* Properties                                                              *)
(***************************************************************************)

Places == {"first", "idle", "jump", "follow", "unfollowed", "match",
           "unmatched", "translate", "alternate", "delay", "wait"}

(* The type invariant. *)
TypeOK ==
  /\ life \in [Streams -> {"new", "running", "halting", "gone"}]
  /\ streamCount \in Nat /\ inSyncCount \in Nat
  /\ master \in BOOLEAN /\ masterJumps \in Int
  /\ unmade \in BOOLEAN
  /\ established \in [Streams -> BOOLEAN] /\ current \in [Streams -> BOOLEAN]
  /\ jumps \in [Streams -> Int]
  /\ inDelay \in [Streams -> BOOLEAN] /\ inSync \in [Streams -> BOOLEAN]
  /\ abort \in [Streams -> BOOLEAN]
  /\ pc \in [Streams -> Places]
  /\ delta \in [Streams -> Int]
  /\ behind \in [Streams -> 0 .. FollowBy]
  /\ waits \in [Streams -> 0 .. MaxSynchronizeWaits]
  /\ window \in [Streams -> {"idle", "read", "sleep"}]
  /\ outdated \in [Streams -> BOOLEAN]

(* Lines 418-430: a context is deleted only when no process uses it.       *)
NobodyInside ==
  \A c \in Streams :
    life[c] = "gone" => Resting(c) /\ window[c] = "idle"

(* Lines 1085-1086: whoever makes the mapping waited for every stream that *)
(* is registered, or long enough; the counters that it goes by are those   *)
(* of streams that come and go meanwhile.                                  *)
StartsTogether ==
  [][\A c \in Streams :
       Synchronizing(c) /\ At(c, "idle")' /\ master' /\ ~master =>
         \/ waits[c] + 1 >= MaxSynchronizeWaits
         \/ \A s \in Registered : s = c \/ inSync[s]]_vars

(* Lines 637-646, 726-728, 592: whoever waits for a decode window of a     *)
(* mapping that was reset or replaced since is woken.                      *)
WindowWaitAborted ==
  \A c \in Streams : window[c] = "sleep" /\ outdated[c] => abort[c]

(* Nobody is kept in SynchronizeStreams, whatever others do to the mapping.*)
SynchronizeEnds ==
  \A c \in Streams : []<>~Synchronizing(c)

Unsettled(c) == /\ life[c] = "running" /\ master /\ current[c]
                /\ jumps[c] # masterJumps

(* output_coordinator.h:385-388: a jump of one stream is made by the other *)
(* streams, or the mapping is reset; for a stream that goes on having      *)
(* frames, once jumps have moved the master's mapping for the last time.   *)
JumpsEnd == <>[][master /\ master' => masterJumps' = masterJumps]_vars
JumpIsSettled ==
  JumpsEnd => \A c \in Streams : []<>~Resting(c) => []<>~Unsettled(c)

(* output_coordinator.h:385-388, again: synchronization is lost over a     *)
(* jump only if a stream fails to make it; so a stream that takes the      *)
(* master's mapping takes its jumps as made.                               *)
AlternateIsSettled ==
  [][\A c \in Streams :
       At(c, "alternate") /\ At(c, "idle")' => jumps'[c] = masterJumps']_vars

(* output_coordinator.h:362-365: whoever waits for a decode window when    *)
(* the mapping is lost is woken.                                           *)
LossAborts ==
  \A c \in Streams : window[c] = "sleep" /\ ~master => abort[c]
=============================================================================
