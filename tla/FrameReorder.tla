---------------------------- MODULE FrameReorder ----------------------------
(***************************************************************************)
(* Frames of video from decode order to display order: the display frame   *)
(* indices that the parser gives late, the list of frames that will not be *)
(* decoded, and the re-ordering loop of the decode to manifest process.    *)
(* (parser/frame_parser_video.cpp, player/player_process_parse_to_         *)
(* decode.cpp, player_process_decode_to_manifest.cpp.)                     *)
(*                                                                         *)
(* Playing forward, whole frames, two frames of reference (MPEG-2).  A     *)
(* reference frame is given its index when the next one comes, all others  *)
(* at once.  Frames are numbered in decode order; the number is also the   *)
(* sequence number.  The codec decodes in order and keeps the frames of    *)
(* reference; the manifestor keeps the frame on display until it has the   *)
(* next one.  A drain discards or plays out.                               *)
(*                                                                         *)
(* Left out: fields, reverse play, PolicyManifestFirstFrameEarly, frames   *)
(* dropped after decode, pause, control messages other than those that     *)
(* give back a frame of reference.  CalculateFrameIndexAndPts and          *)
(* CheckForNonDecodedFrame with its loop are one step each.  The names of  *)
(* the specification begin with Reorder, because Presentation_proofs       *)
(* extends other specifications too.                                       *)
(***************************************************************************)
EXTENDS Integers, Sequences, FiniteSets, SequencesExt

CONSTANTS
  MaxFrames, MaxBreaks,  \* bounds: frames; jumps and drains, each of which
  BreakCost,       \* takes the place of this many frames
  MaxParsed,       \* bound: how far the parser is ahead
  DecodeContextCount, NumberOfDecodeBuffers,
  Working,         \* PLAYER_MINIMUM_NUMBER_OF_WORKING_DECODE_BUFFERS
  Limit,           \* PLAYER_LIMIT_ON_OUT_OF_ORDER_DECODES
  DiscardedFrames, \* PLAYER_MAX_DISCARDED_FRAMES
  PlaysOut,        \* a drain may play out what is queued
  DropsReferences, \* the output timer also drops frames of reference
  InvalidIndex     \* INVALID_INDEX

ASSUME ReorderAssumption ==
  /\ {MaxFrames, MaxBreaks, BreakCost, Working, Limit, DiscardedFrames} \subseteq Nat
  /\ MaxParsed \in Nat \ {0} /\ DecodeContextCount \in Nat \ {0}
  /\ NumberOfDecodeBuffers \in Nat /\ NumberOfDecodeBuffers > Working + 1
       \* with one more than Working a frame of reference goes out at once
  /\ PlaysOut \in BOOLEAN /\ DropsReferences \in BOOLEAN
  /\ InvalidIndex \notin Int

VARIABLES
  parsed,        \* ParsedFrameRing
  decoding,      \* the codec, frames and a marker in order
  drop,          \* how many of those are to be discarded
  decoded,       \* DecodedFrameRing
  display,       \* frames at the manifestor, the first on display
  last, isReference,  \* last number given; the frames of reference
  deferred,      \* DeferredCodedFrameBuffer
  nextIndex,     \* NextDisplayFrameIndex
  collapseNext,  \* CollapseHolesInDisplayIndices of the parser
  references,    \* ReferenceFrameList
  index,         \* DisplayFrameIndex of each frame
  collapses,     \* frames whose CollapseHolesInDisplayIndices is set
  kept,          \* frames that the codec keeps for reference
  nonDecoded,    \* NonDecodedBuffers: a frame, and its index when released
  collapse,      \* DisplayIndicesCollapse
  table,         \* AccumulatedBufferTable
  held,          \* MarkerFrameBuffer
  desired,       \* DesiredFrameIndex
  place, hand,   \* place and Buffer of the decode to manifest process
  maximum,       \* MaximumActualSequenceNumberSeen
  minimum,       \* MinumumSequenceNumberAccumulated
  discarding,    \* DiscardingUntilMarkerFrame, PtoD and DtoM
  draining,      \* the client's drain: its marker is to be inserted
  breaks,        \* jumps and drains made
  shown, called  \* history: the last index manifested; the number for which
                 \* calls in sequence were made

parserVars == <<last, isReference, deferred, nextIndex, collapseNext,
                references, index, collapses>>
skipVars   == <<nonDecoded, collapse>>
loopVars   == <<table, held, desired, place, hand, maximum, minimum, shown, called>>
clientVars == <<draining, breaks>>
reorderVars ==
  <<parsed, decoding, drop, decoded, display, parserVars, kept,
    skipVars, loopVars, discarding, clientVars>>

Frames      == 1 .. MaxFrames
Infinite    == MaxFrames + 1
NoFrame     == 0
Item(k, n)  == [kind |-> k, n |-> n]

ReorderInit ==
  /\ parsed = << >> /\ decoding = << >> /\ drop = 0 /\ decoded = << >>
  /\ display = << >>
  /\ last = 0 /\ isReference = {} /\ deferred = NoFrame /\ nextIndex = 0
  /\ collapseNext = TRUE /\ references = << >>
  /\ index = [f \in Frames |-> InvalidIndex] /\ collapses = {}
  /\ kept = {} /\ nonDecoded = {} /\ collapse = 0
  /\ table = {} /\ held = NoFrame /\ desired = 0
  /\ place = "scan" /\ hand = NoFrame /\ maximum = 0 /\ minimum = Infinite
  /\ discarding = [p \in {"PtoD", "DtoM"} |-> FALSE]
  /\ draining = "no" /\ breaks = 0
  /\ shown = -1 /\ called = 0

(***************************************************************************)
(* The parser                                                              *)
(***************************************************************************)
CalculateFrameIndex(f) ==
  IF f = NoFrame THEN UNCHANGED <<index, nextIndex, collapses, collapseNext>>
  ELSE /\ index' = [index EXCEPT ![f] = nextIndex]
       /\ nextIndex' = nextIndex + 1
       /\ collapses' = IF collapseNext THEN collapses \cup {f} ELSE collapses
       /\ collapseNext' = FALSE

Released(list) == [i \in 1 .. Len(list) |-> Item("release", list[i])]

MayParse == last + BreakCost * breaks < MaxFrames /\ Len(parsed) < MaxParsed
MayBreak == breaks < MaxBreaks /\ last + BreakCost * (breaks + 1) <= MaxFrames

(* ForPlayProcessFrame: a frame of reference has the one before it indexed *)
(* and takes its place in a list of two.                                   *)
ParseReference ==
  /\ MayParse
  /\ last' = last + 1 /\ isReference' = isReference \cup {last + 1}
  /\ CalculateFrameIndex(deferred)
  /\ deferred' = last + 1
  /\ LET oldest == IF Len(references) = 2 THEN <<Head(references)>> ELSE << >>
     IN /\ references' = Append(IF oldest = << >> THEN references
                                ELSE Tail(references), last + 1)
        /\ parsed' = Append(parsed, Item("frame", last + 1)) \o Released(oldest)
  /\ UNCHANGED <<decoding, drop, decoded, display, kept, skipVars, loopVars,
                 discarding, clientVars>>

ParseOther ==
  /\ MayParse /\ Len(references) = 2
  /\ last' = last + 1
  /\ CalculateFrameIndex(last + 1)
  /\ parsed' = Append(parsed, Item("frame", last + 1))
  /\ UNCHANGED <<isReference, deferred, references, decoding, drop, decoded,
                 display, kept, skipVars, loopVars, discarding, clientVars>>

(* A discontinuity: ProcessBuffer purges the frame deferred.               *)
Discontinuity ==
  /\ IF deferred = NoFrame
     THEN collapseNext' = TRUE /\ UNCHANGED <<index, nextIndex, collapses>>
     ELSE /\ index' = [index EXCEPT ![deferred] = nextIndex]
          /\ nextIndex' = nextIndex + 1
          /\ collapses' = IF collapseNext THEN collapses \cup {deferred} ELSE collapses
          /\ collapseNext' = TRUE
  /\ deferred' = NoFrame /\ references' = << >>
  /\ UNCHANGED <<last, isReference>>

InputJump ==
  /\ MayBreak /\ last > 0
  /\ breaks' = breaks + 1
  /\ Discontinuity
  /\ parsed' = parsed \o Released(references)
  /\ UNCHANGED <<decoding, drop, decoded, display, kept, skipVars, loopVars,
                 discarding, draining>>

(***************************************************************************)
(* The client drains: the flags, the codec; a jump; the marker, whose      *)
(* number is above those of the frames before it.                          *)
(***************************************************************************)
\* Mutant: the codec discards one decode more than it has
DrainOneMore(mode) ==
  /\ draining = "no" /\ MayBreak
  /\ mode = "playout" => PlaysOut
  /\ breaks' = breaks + 1 /\ draining' = mode
  /\ IF mode = "discard"
     THEN /\ discarding' = [p \in DOMAIN discarding |-> TRUE]
          /\ drop' = Len(decoding) + 1
     ELSE UNCHANGED <<discarding, drop>>
  /\ UNCHANGED <<parsed, decoding, decoded, display, parserVars, kept,
                 skipVars, loopVars>>

Drain(mode) ==
  /\ draining = "no" /\ MayBreak
  /\ mode = "playout" => PlaysOut
  /\ breaks' = breaks + 1 /\ draining' = mode
  /\ IF mode = "discard"
     THEN /\ discarding' = [p \in DOMAIN discarding |-> TRUE]
          /\ drop' = Len(decoding)
     ELSE UNCHANGED <<discarding, drop>>
  /\ UNCHANGED <<parsed, decoding, decoded, display, parserVars, kept,
                 skipVars, loopVars>>

InsertMarker ==
  /\ draining \in {"discard", "playout"}
  /\ IF draining = "discard" THEN Discontinuity ELSE UNCHANGED parserVars
  /\ LET given == IF draining = "discard" THEN Released(references) ELSE << >>
     IN parsed' = Append(parsed \o given, Item("marker", last + 1))
  /\ draining' = "marker"
  /\ UNCHANGED <<decoding, drop, decoded, display, kept, skipVars, loopVars,
                 discarding, breaks>>

(***************************************************************************)
(* Parse to decode                                                         *)
(***************************************************************************)
FramesOf(s) == {s[i].n : i \in {j \in DOMAIN s : s[j].kind = "frame"}}
InUse == kept \cup FramesOf(decoding) \cup FramesOf(decoded) \cup table
           \cup ({hand} \ {NoFrame}) \cup {display[i] : i \in DOMAIN display}

TakeControl ==
  /\ parsed # << >> /\ Head(parsed).kind # "frame"
  /\ parsed' = Tail(parsed)
  /\ IF Head(parsed).kind = "release"
     THEN kept' = kept \ {Head(parsed).n} /\ UNCHANGED <<decoding, discarding>>
     ELSE /\ decoding' = Append(decoding, Head(parsed))
          /\ discarding' = [discarding EXCEPT !["PtoD"] = FALSE]
          /\ UNCHANGED kept
  /\ UNCHANGED <<drop, decoded, display, parserVars, skipVars, loopVars, clientVars>>

Decode ==
  /\ parsed # << >> /\ Head(parsed).kind = "frame" /\ ~discarding["PtoD"]
  /\ Cardinality(InUse) < NumberOfDecodeBuffers
  /\ Len(decoding) < DecodeContextCount
  /\ parsed' = Tail(parsed)
  /\ decoding' = Append(decoding, Head(parsed))
  /\ kept' = kept \cup ({Head(parsed).n} \cap isReference)
  /\ UNCHANGED <<drop, decoded, display, parserVars, skipVars, loopVars,
                 discarding, clientVars>>

Full == Cardinality(nonDecoded) = DiscardedFrames

Entry(f) == [frame |-> f, index |-> index[f]]

Higher(a, b) == IF a > b THEN a ELSE b

(* RecordNonDecodedFrame: the frame is kept as long as it has no index; in *)
(* a full table it is lost.  An empty buffer pokes the next process.       *)
RecordNonDecodedFrame ==
  /\ parsed # << >> /\ Head(parsed).kind = "frame"
  /\ LET f == Head(parsed).n
         counts == index[f] # InvalidIndex /\ (discarding["PtoD"] \/ f \in collapses)
         poked == ~Full /\ Cardinality(nonDecoded) + 1 > DiscardedFrames - 2
     IN /\ ~discarding["PtoD"] /\ f \in isReference => DropsReferences
        /\ nonDecoded' = IF Full THEN nonDecoded ELSE nonDecoded \cup {Entry(f)}
        /\ collapse' = IF ~Full /\ counts THEN Higher(collapse, index[f]) ELSE collapse
        /\ decoded' = IF poked THEN Append(decoded, Item("poke", 0)) ELSE decoded
  /\ parsed' = Tail(parsed)
  /\ UNCHANGED <<decoding, drop, display, parserVars, kept, loopVars,
                 discarding, clientVars>>

(***************************************************************************)
(* The codec and the manifestor                                            *)
(***************************************************************************)
DecodeComplete ==
  /\ decoding # << >>
  /\ decoding' = Tail(decoding)
  /\ drop' = IF drop > 0 THEN drop - 1 ELSE 0
  /\ decoded' = IF drop > 0 THEN decoded ELSE Append(decoded, Head(decoding))
  /\ UNCHANGED <<parsed, display, parserVars, kept, skipVars, loopVars,
                 discarding, clientVars>>

Manifested ==
  /\ display # << >>
  /\ display' = Tail(display)
  /\ UNCHANGED <<parsed, decoding, drop, decoded, parserVars, kept, skipVars,
                 loopVars, discarding, clientVars>>

(***************************************************************************)
(* Decode to manifest: the scan, the indices that will not come, the next  *)
(* buffer, and what has been chosen                                        *)
(***************************************************************************)
Lower(a, b) == IF a < b THEN a ELSE b

Least(S) == CHOOSE n \in S : \A m \in S : n <= m

Known  == {f \in table : index[f] # InvalidIndex}
Lowest == CHOOSE f \in Known : \A g \in Known : index[f] <= index[g]

\* Mutant: no decode buffers are left to work with
MaxDecodesOutOfOrderAll == NumberOfDecodeBuffers

MaxDecodesOutOfOrder ==
  Lower(Limit, Lower(NumberOfDecodeBuffers - Working, NumberOfDecodeBuffers \div 2))

\* Mutant: the lowest need not be the one desired
ScanTakesLowest == Known # {}

ScanTakes ==
  /\ Known # {}
  /\ \/ index[Lowest] = desired
     \/ Cardinality(table) >= MaxDecodesOutOfOrder
     \/ Lowest \in collapses
     \/ held # NoFrame

Scan ==
  /\ place = "scan"
  /\ minimum' = IF table = {} THEN Infinite ELSE Least(table)
  /\ IF ScanTakes
     THEN table' = table \ {Lowest} /\ hand' = Lowest /\ place' = "out"
     ELSE place' = "skip" /\ UNCHANGED <<table, hand>>
  /\ UNCHANGED <<parsed, decoding, drop, decoded, display, parserVars, kept,
                 skipVars, held, desired, maximum, shown, called, discarding,
                 clientVars>>

(* CheckForNonDecodedFrame until it fails.  The table counts as empty when *)
(* all that are left are below the index.                                  *)
Resolved == {Entry(e.frame) : e \in nonDecoded}
Resolving == {e \in nonDecoded : e.index = InvalidIndex /\ index[e.frame] # InvalidIndex}

Skip ==
  /\ place = "skip"
  /\ place' = "next"
  /\ LET raising == {index[e.frame] : e \in
                       {r \in Resolving : discarding["DtoM"] \/ r.frame \in collapses}}
         Ends(d) == /\ \A e \in Resolved : e.index # d
                    /\ \/ d >= collapse'
                       \/ \A e \in Resolved : e.index # InvalidIndex /\ e.index < d
     IN /\ collapse' = (CHOOSE c \in raising \cup {collapse} :
                          \A r \in raising \cup {collapse} : r <= c)
        /\ desired' = Least({d \in desired .. desired + Infinite : Ends(d)})
        /\ nonDecoded' = {e \in Resolved : e.index # InvalidIndex => e.index > desired'}
  /\ UNCHANGED <<parsed, decoding, drop, decoded, display, parserVars, kept,
                 table, held, hand, maximum, minimum, shown, called,
                 discarding, clientVars>>

PassMarker ==
  /\ place = "next" /\ held # NoFrame
  /\ maximum' = Higher(maximum, held) /\ called' = Higher(called, held)
  /\ held' = NoFrame
  /\ discarding' = [discarding EXCEPT !["DtoM"] = FALSE]
  /\ draining' = "no"
  /\ place' = "scan"
  /\ UNCHANGED <<parsed, decoding, drop, decoded, display, parserVars, kept,
                 skipVars, table, desired, hand, minimum, shown, breaks>>

(* The next buffer, or none in time.                                       *)
Get ==
  /\ place = "next" /\ held = NoFrame
  /\ LET in == IF decoded = << >> THEN Item("poke", 0) ELSE Head(decoded)
         direct == in.kind = "frame" /\ index[in.n] # InvalidIndex /\ index[in.n] <= desired
     IN /\ decoded' = IF decoded = << >> THEN decoded ELSE Tail(decoded)
        /\ held' = IF in.kind = "marker" THEN in.n ELSE NoFrame
        /\ table' = IF in.kind = "frame" /\ ~direct THEN table \cup {in.n} ELSE table
        /\ hand' = IF direct THEN in.n ELSE NoFrame
        /\ place' = IF direct THEN "out" ELSE "scan"
  /\ UNCHANGED <<parsed, decoding, drop, display, parserVars, kept, skipVars,
                 desired, maximum, minimum, shown, called, discarding, clientVars>>

\* Mutant: calls are made for the highest number seen
SequenceNumberMaximum == Higher(maximum, hand)

SequenceNumber == Lower(Higher(maximum, hand), minimum)

Out ==
  /\ place = "out"
  /\ maximum' = Higher(maximum, hand)
  /\ called' = Higher(called, SequenceNumber)
  /\ desired' = index[hand] + 1
  /\ IF discarding["DtoM"] THEN UNCHANGED <<display, shown>>
     ELSE display' = Append(display, hand) /\ shown' = index[hand]
  /\ hand' = NoFrame /\ place' = "scan"
  /\ UNCHANGED <<parsed, decoding, drop, decoded, parserVars, kept, skipVars,
                 table, held, minimum, discarding, clientVars>>

Loop == Scan \/ Skip \/ PassMarker \/ Get \/ Out

ReorderNext ==
  \/ ParseReference \/ ParseOther \/ InputJump
  \/ (\E mode \in {"discard", "playout"} : Drain(mode)) \/ InsertMarker
  \/ TakeControl \/ Decode \/ RecordNonDecodedFrame
  \/ DecodeComplete \/ Manifested \/ Loop

ReorderSpec == ReorderInit /\ [][ReorderNext]_reorderVars

(***************************************************************************)
(* The processes, the codec and a drain that has begun run; the manifestor *)
(* gives back every frame but the last.  No frame need come or be dropped. *)
(***************************************************************************)
ReorderFairness ==
  /\ WF_reorderVars(InsertMarker)
  /\ WF_reorderVars(TakeControl \/ Decode \/ (discarding["PtoD"] /\ RecordNonDecodedFrame))
  /\ WF_reorderVars(DecodeComplete)
  /\ WF_reorderVars(Len(display) > 1 /\ Manifested)
  /\ WF_reorderVars(Loop)

ReorderFairSpec == ReorderSpec /\ ReorderFairness
-----------------------------------------------------------------------------
(***************************************************************************)
(* Properties                                                              *)
(***************************************************************************)
Items == [kind : {"frame", "marker", "release", "poke"}, n : 0 .. Infinite]

(* Every variable has its type; the decode buffers suffice, so that the    *)
(* table of accumulated buffers always has room (player_process_decode_to_ *)
(* manifest.cpp:331, "Unable to insert buffer in table").                  *)
ReorderTypeOK ==
  /\ {parsed, decoding, decoded} \subseteq Seq(Items)
  /\ drop \in 0 .. Len(decoding) /\ display \in Seq(Frames)
  /\ last \in 0 .. MaxFrames /\ isReference \subseteq 1 .. last
  /\ deferred \in isReference \cup {NoFrame} /\ nextIndex \in 0 .. MaxFrames
  /\ collapseNext \in BOOLEAN
  /\ references \in Seq(isReference) /\ Len(references) <= 2
  /\ index \in [Frames -> Nat \cup {InvalidIndex}] /\ collapses \subseteq 1 .. last
  /\ kept \subseteq isReference
  /\ nonDecoded \subseteq [frame : Frames, index : Nat \cup {InvalidIndex}]
  /\ Cardinality(nonDecoded) <= DiscardedFrames
  /\ collapse \in Nat /\ table \subseteq Frames
  /\ held \in 0 .. Infinite /\ desired \in Nat
  /\ place \in {"scan", "skip", "next", "out"} /\ hand \in Frames \cup {NoFrame}
  /\ {maximum, minimum, called} \subseteq 0 .. Infinite
  /\ discarding \in [{"PtoD", "DtoM"} -> BOOLEAN]
  /\ Cardinality(InUse) <= NumberOfDecodeBuffers
  /\ Cardinality(table) < NumberOfDecodeBuffers

(* Frames go to the manifestor in display order, with drops, jumps and     *)
(* drains ("Frame re-ordering failure ... Implementation error",           *)
(* player_process_decode_to_manifest.cpp:369).  With DropsReferences it    *)
(* fails: DisplayIndicesCollapse goes beyond frames still being decoded.   *)
InDisplayOrder == [][shown' >= shown]_reorderVars

(* A call in sequence is made when no frame with a lower number is left to *)
(* be manifested or dropped, although frames go out of decode order (the   *)
(* comment at player_process_decode_to_manifest.cpp:344); a marker goes    *)
(* on after all the frames before it (203, "we have emptied our            *)
(* accumulated list").                                                     *)
CallsWait ==
  \A f \in FramesOf(parsed) \cup FramesOf(decoding) \cup FramesOf(decoded)
             \cup table \cup ({hand} \ {NoFrame}) : f >= called

(* The codec gets a decode buffer in the end: the frames that wait for     *)
(* their turn or their index, those kept for reference and the one on      *)
(* display leave one (MaxDecodesOutOfOrder).                               *)
DecodeGoesOn == []<>(parsed = << >>)

(* A drain's marker gets through the codec and the re-ordering loop.       *)
MarkerLeaves == []<>(draining = "no")
=============================================================================
