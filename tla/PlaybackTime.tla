---------------------------- MODULE PlaybackTime ----------------------------
(***************************************************************************)
(* Native times, which wrap, made into times that do not: the baseline     *)
(* that each stream's frame parser keeps, and the last native time that    *)
(* the streams of a playback share so that a parser that starts late       *)
(* counts the same wraps as the others.  (parser/frame_parser_base.cpp,    *)
(* player/player_time.cpp.)                                                *)
(*                                                                         *)
(* A native time counts 0 .. 4 * Quarter - 1; in the code Quarter is 2^31. *)
(* A baseline is a number of wraps (the code keeps it times 2^33) and the  *)
(* time that is shared is kept as its two parts.  The parsers run in the   *)
(* collate to parse processes and take no lock.  The final scaling from    *)
(* 90kHz to microseconds is left out.                                      *)
(***************************************************************************)
EXTENDS Integers

CONSTANTS
  Parsers,     \* the frame parsers of one playback, one to a stream
  Quarter,     \* a quarter of the range of a native time
  MaxWraps,    \* bound: true times wrap 0 .. MaxWraps times
  None         \* INVALID_TIME

ASSUME TimeAssumption ==
  /\ Quarter \in Nat \ {0} /\ MaxWraps \in Nat
  /\ None \notin Int

VARIABLES
  used,        \* LastNativeTimeUsedInBaseline of each stream
  baseline,    \* NativeTimeBaseLine of each stream, in wraps
  shared,      \* LastNativeTime of the playback
  stage,       \* whether a stream has translated and not yet shared
  wraps,       \* history: how often the true time of a stream has wrapped
  sharedWraps, \* history: the same of the time that is shared
  startedBlind \* history: the streams that first translated with no time
               \* shared, while another had begun

timeVars == <<used, baseline, shared, stage, wraps, sharedWraps, startedBlind>>

Native == 0 .. 4 * Quarter - 1
Times  == [baseline : Int, native : Native]

TimeTypeOK ==
  /\ used \in [Parsers -> Native \cup {None}]
  /\ baseline \in [Parsers -> Int]
  /\ shared \in Times \cup {None}
  /\ stage \in [Parsers -> {"parse", "share"}]
  /\ wraps \in [Parsers -> 0 .. MaxWraps]
  /\ sharedWraps \in 0 .. MaxWraps
  /\ startedBlind \subseteq Parsers

TimeInit ==
  /\ used = [s \in Parsers |-> None]
  /\ baseline = [s \in Parsers |-> 0]
  /\ shared = None
  /\ stage = [s \in Parsers |-> "parse"]
  /\ wraps = [s \in Parsers |-> 0]
  /\ sharedWraps = 0
  /\ startedBlind = {}
-----------------------------------------------------------------------------
(* What a true time is: streams follow one clock, and neither a stream's   *)
(* next time nor a jump takes it further than a quarter of the range (six  *)
(* hours); a parser starts within half of the range of the others.         *)

Apart(w, m, v, n) == 4 * Quarter * (w - v) + (m - n)

NextTime(s, m, w) ==
  /\ w - wraps[s] \in {-1, 0, 1}
  /\ Apart(w, m, wraps[s], used[s]) \in -Quarter .. Quarter

FirstTime(m, w) ==
  shared # None =>
    /\ w - sharedWraps \in {-1, 0, 1}
    /\ Apart(w, m, sharedWraps, shared.native)
         \in 1 - 2 * Quarter .. 2 * Quarter
-----------------------------------------------------------------------------
\* Mutant: the difference is rounded down
NearestNotRounded(t, m) ==
  t.baseline + (IF t.native - m < 0 THEN -1 ELSE 0)

(* The wraps that bring native time m nearest to the time that is shared:  *)
(* their difference rounded, as by adding 2^32 and masking off 33 bits.    *)
Nearest(t, m) ==
  t.baseline + (IF t.native - m >= 2 * Quarter THEN 1
                ELSE IF t.native - m < -(2 * Quarter) THEN -1 ELSE 0)

(* Both bits of WrapMask set, and both clear.                              *)
InTopQuarter(n)    == n >= 3 * Quarter
InBottomQuarter(n) == n < Quarter

\* Mutant: only wraps forward are seen
WrappedForwardOnly(n, m) ==
  IF InTopQuarter(n) /\ InBottomQuarter(m) THEN 1 ELSE 0

Wrapped(n, m) ==
  IF InTopQuarter(n) /\ InBottomQuarter(m) THEN 1
  ELSE IF InBottomQuarter(n) /\ InTopQuarter(m) THEN -1 ELSE 0

(* The translation of a first time reads the time that is shared.          *)
TranslateFirst(s, m, w) ==
  /\ stage[s] = "parse" /\ used[s] = None
  /\ FirstTime(m, w)
  /\ baseline' = [baseline EXCEPT ![s] =
                    IF shared = None THEN 0 ELSE Nearest(shared, m)]
  /\ used' = [used EXCEPT ![s] = m]
  /\ stage' = [stage EXCEPT ![s] = "share"]
  /\ wraps' = [wraps EXCEPT ![s] = w]
  /\ startedBlind' =
       IF shared = None /\ \E o \in Parsers : used[o] # None
       THEN startedBlind \cup {s} ELSE startedBlind
  /\ UNCHANGED <<shared, sharedWraps>>

TranslateNext(s, m, w) ==
  /\ stage[s] = "parse" /\ used[s] # None
  /\ NextTime(s, m, w)
  /\ baseline' = [baseline EXCEPT ![s] = @ + Wrapped(used[s], m)]
  /\ used' = [used EXCEPT ![s] = m]
  /\ stage' = [stage EXCEPT ![s] = "share"]
  /\ wraps' = [wraps EXCEPT ![s] = w]
  /\ UNCHANGED <<shared, sharedWraps, startedBlind>>

(* The translation ends with SetLastNativeTime.                            *)
SetLastNativeTime(s) ==
  /\ stage[s] = "share"
  /\ shared' = [baseline |-> baseline[s], native |-> used[s]]
  /\ sharedWraps' = wraps[s]
  /\ stage' = [stage EXCEPT ![s] = "parse"]
  /\ UNCHANGED <<used, baseline, wraps, startedBlind>>

(* The stream ends or its frame parser is switched; the playback stays.    *)
Reset(s) ==
  /\ stage[s] = "parse" /\ used[s] # None
  /\ used' = [used EXCEPT ![s] = None]
  /\ baseline' = [baseline EXCEPT ![s] = 0]
  /\ UNCHANGED <<shared, sharedWraps, stage, wraps, startedBlind>>

TimeNext ==
  \E s \in Parsers :
    \/ \E m \in Native, w \in 0 .. MaxWraps :
         TranslateFirst(s, m, w) \/ TranslateNext(s, m, w)
    \/ SetLastNativeTime(s)
    \/ Reset(s)

TimeSpec == TimeInit /\ [][TimeNext]_timeVars
-----------------------------------------------------------------------------
Started(s) == used[s] # None

(* Streams of one playback that follow one clock translate equal times to  *)
(* equal times: they have all counted the same wraps more than have come,  *)
(* however late each began and however often each wrapped, and so has the  *)
(* time that the next one will begin with.  Only when two streams begin    *)
(* together, neither having shared a time yet, may they differ.            *)
StreamsAgree ==
  startedBlind = {} =>
    /\ \A s, o \in Parsers : Started(s) /\ Started(o) =>
         baseline[s] - wraps[s] = baseline[o] - wraps[o]
    /\ \A s \in Parsers : shared # None /\ Started(s) =>
         baseline[s] - wraps[s] = shared.baseline - sharedWraps

(* From one time of a stream to its next the translated time moves by what *)
(* the true time has moved, through wraps in both directions.              *)
MovesWithTheClock ==
  [][\A s \in Parsers : Started(s) /\ Started(s)' =>
       Apart(baseline'[s], used'[s], baseline[s], used[s])
         = Apart(wraps'[s], used'[s], wraps[s], used[s])]_timeVars
=============================================================================
