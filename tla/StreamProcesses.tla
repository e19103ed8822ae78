-------------------------- MODULE StreamProcesses --------------------------
(***************************************************************************)
(* The four processes of a stream and what is said to them: markers of     *)
(* InternalDrainStream, calls in sequence, SwitchStream.                   *)
(* (player/player: player_process_*.cpp, player_in_sequence.cpp,           *)
(* player_playback.cpp, player_switch.cpp; codec/codec_mme_base.cpp.)      *)
(*                                                                         *)
(* Coded frames go from the collator through                               *)
(*   CtoP (parser)  PtoD (codec)  DtoM (manifestor)  PostM                 *)
(* each of which reads a ring.  Frames leave in the order in which they    *)
(* come: this is a stream that is not re-ordered.  A process takes a       *)
(* buffer and makes the calls due before it, passes it on or discards it,  *)
(* and makes the calls due after it.  The codec's accelerator completes    *)
(* decodes in order.  The manifestor may keep the last frame that it was   *)
(* given.  One client drains and switches the stream (the lock of the      *)
(* device), another thread injects.                                        *)
(*                                                                         *)
(* Left out: buffers without data for InputJump, which end in the parser;  *)
(* frames that the output timer drops; ManifestorFnQueueEventSignal, which *)
(* goes the way of OutputTimerFnResetTimeMapping; CodecReset, by which      *)
(* PostM knows how to give a buffer back; streams marked unplayable;       *)
(* errors and time-outs.                                                   *)
(***************************************************************************)
EXTENDS Integers, Sequences, FiniteSets, SequencesExt

CONSTANTS
  MaxFrames, MaxCalls,  \* bounds: frames injected, and drains and switches
  RingSize,       \* PLAYER_MAX_RING_SIZE
  TableSize,      \* PLAYER_MAX_xTOy_MESSAGES
  DecodeBuffers,  \* NumberOfDecodeBuffers
  Patient,        \* the client drains only when its last drain is complete
  Still,          \* nothing is injected during a call of the client
  None            \* INVALID_INDEX

Processes == {"CtoP", "PtoD", "DtoM", "PostM"}
Client    == "client"
Following == [CtoP |-> "PtoD", PtoD |-> "DtoM", DtoM |-> "PostM"]

(* The functions that are called in sequence and who performs them.        *)
Functions == {"ResetTimeMapping", "SetDrained", "SwitchFrameParser",
              "SwitchCodec", "SwitchOutputTimer", "SwitchComplete"}
Destination(fn) ==
  CASE fn = "SwitchFrameParser" -> "CtoP"
    [] fn = "SwitchCodec" -> "PtoD"
    [] fn \in {"ResetTimeMapping", "SwitchOutputTimer"} -> "DtoM"
    [] fn \in {"SetDrained", "SwitchComplete"} -> "PostM"
Befores == {"ResetTimeMapping", "SwitchComplete"}

ASSUME StreamAssumption ==
  /\ MaxFrames \in Nat /\ MaxCalls \in Nat
  /\ RingSize \in Nat /\ RingSize >= MaxFrames
  /\ TableSize \in Nat \ {0} /\ DecodeBuffers \in Nat \ {0, 1}
  /\ Patient \in BOOLEAN /\ Still \in BOOLEAN
  /\ None \notin Int
  /\ Patient \/ MaxCalls <= 2  \* a third marker might disown the second
                               \* in CtoP

VARIABLES
  ring,         \* CollatedFrameRing, ParsedFrameRing, DecodedFrameRing and
                \* ManifestedBufferRing, by the process that reads it
  pc, hand,     \* each process's place and Buffer
  keep,         \* ~DiscardBuffer
  seen,         \* MaximumActualSequenceNumberSeen; -1 before the first
  before, after,\* the tables of accumulated control messages
  next,         \* NextBufferSequenceNumber
  marker,       \* MarkerInCodedFrameIndex: the drain whose marker it is
  discarding,   \* DiscardingUntilMarkerFrame{CtoP,PtoD,DtoM,PostM}
  drained,      \* the Valid flag of Drained
  inflight,     \* the codec's decodes prepared and not complete
  held, ahead,  \* MarkerBuffer; decodes that PassOnMarkerBufferAt awaits
  drop,         \* decodes in flight below DiscardDecodesUntil
  display,      \* frames queued to the manifestor
  lastOut,      \* the Valid flag of SwitchStreamLastOneOutOfTheCodec
  switching,    \* SwitchStreamInProgress
  collator, parser, codec,  \* which of the successive ones is the stream's
  drain,        \* the client's call: its value of DrainSequenceNumber, and
                \* whether it blocks, returns at once or switches
  sent,         \* history: of each injected frame, the drains whose marker
                \* was inserted before, and its collator
  launched, marked, \* history: drains begun, drains whose marker is inserted
  resets        \* history: ResetTimeMappings made

processVars == <<pc, hand, keep, seen, before, after>>
codecVars   == <<inflight, held, ahead, drop>>
switchVars  == <<lastOut, switching, collator, parser, codec>>
clientVars  == <<drain, launched, marked>>
vars == <<ring, processVars, next, marker, discarding, drained, codecVars,
          display, switchVars, clientVars, sent, resets>>

Frame(n) == [kind |-> "frame", n |-> n, seq |-> -1]

Marker(d) == [kind |-> "marker", n |-> d, seq |-> drain.seq]

\* Mutant: calls are made for the number after the marker's
CallNextNumber(fn) == [kind |-> fn, n |-> launched, seq |-> drain.seq + 1]

Call(fn) == [kind |-> fn, n |-> launched,
               seq |-> IF fn = "SwitchComplete" THEN drain.seq + 1 ELSE drain.seq]

IsFrame(b)  == b.kind = "frame"
IsMarker(b) == b.kind = "marker"
IsCall(b)   == b.kind \in Functions

NoDrain == [mode |-> "return", seq |-> 0]
Nothing == [kind |-> "nothing", n |-> 0, seq |-> -1]

Init ==
  /\ ring = [p \in Processes |-> << >>]
  /\ pc = [t \in Processes \cup {Client} |-> "idle"]
  /\ hand = [p \in Processes |-> Nothing]
  /\ keep = [p \in Processes |-> TRUE]
  /\ seen = [p \in Processes |-> -1]
  /\ before = [p \in Processes |-> {}] /\ after = [p \in Processes |-> {}]
  /\ next = 0 /\ marker = None
  /\ discarding = [p \in Processes |-> FALSE]
  /\ drained = FALSE
  /\ inflight = << >> /\ held = Nothing /\ ahead = 0 /\ drop = 0
  /\ display = << >>
  /\ lastOut = FALSE /\ switching = FALSE
  /\ collator = 0 /\ parser = 0 /\ codec = 0
  /\ drain = NoDrain
  /\ sent = << >> /\ launched = 0 /\ marked = 0
  /\ resets = 0

Goto(t, l)   == pc' = [pc EXCEPT ![t] = l]
At(t, l)     == pc[t] = l
Insert(p, b) == ring' = [ring EXCEPT ![p] = Append(@, b)]

(***************************************************************************)
(* PerformInSequenceCall, for a set of calls.  A switch of the parser or   *)
(* of the codec waits for the last decode to come out of the codec.        *)
(***************************************************************************)
Named(calls, fn) == \E c \in calls : c.kind = fn

Perform(calls) ==
  /\ Named(calls, "SwitchFrameParser") \/ Named(calls, "SwitchCodec") => lastOut
  /\ parser' = IF Named(calls, "SwitchFrameParser") THEN collator ELSE parser
  /\ codec' = IF Named(calls, "SwitchCodec") THEN collator ELSE codec
  /\ lastOut' = (lastOut \/ Named(calls, "SwitchOutputTimer"))
  /\ switching' = (switching /\ ~Named(calls, "SwitchComplete"))
  /\ drained' = (drained \/ Named(calls, "SetDrained"))
  /\ resets' = resets + Cardinality({c \in calls : c.kind = "ResetTimeMapping"})
  /\ UNCHANGED collator

\* Mutant: the comparison is the wrong way round
DueSooner(table, seq) == {c \in table : c.seq >= seq}

Due(table, seq) == {c \in table : c.seq <= seq}

(***************************************************************************)
(* The processes                                                           *)
(***************************************************************************)
Raised(p, seq) == [seen EXCEPT ![p] = IF seq > @ THEN seq ELSE @]

(* The buffer leaves the process, at once if nothing is left to be done.   *)
Left(p, b) ==
  \/ Due(after[p], b.seq) # {}
  \/ p = "DtoM" /\ IsMarker(b)

Passed(p, b) ==
  /\ Goto(p, IF Left(p, b) THEN "finish" ELSE "idle")
  /\ hand' = [hand EXCEPT ![p] = IF Left(p, b) THEN b ELSE Nothing]

(* ProcessCollateToParse gives frames their numbers; a marker has brought  *)
(* its own.  FrameParser->Input.                                           *)
CollateToParse ==
  /\ At("CtoP", "idle") /\ ring["CtoP"] # << >> /\ ~IsCall(Head(ring["CtoP"]))
  /\ LET in == Head(ring["CtoP"])
         b  == IF IsFrame(in) THEN [in EXCEPT !.seq = next] ELSE in
         stops == discarding["CtoP"] /\ ~IsMarker(b)
     IN
       /\ ring' = [ring EXCEPT !["CtoP"] = Tail(@),
                               !["PtoD"] = IF stops THEN @ ELSE Append(@, b)]
       /\ next' = b.seq + 1
       /\ marker' = IF IsMarker(b) THEN None ELSE marker
       /\ discarding' = [discarding EXCEPT !["CtoP"] = stops]
       /\ seen' = Raised("CtoP", b.seq)
       /\ before' = [before EXCEPT !["CtoP"] = @ \ Due(@, b.seq)]
       /\ Perform(Due(before["CtoP"], b.seq))
       /\ Passed("CtoP", b)
  /\ UNCHANGED <<keep, after, codecVars, display, clientVars, sent>>

(* The two that may have to wait with a buffer in hand decide first.       *)
(* DtoM makes all calls before it passes a marker.                         *)
Take(p) ==
  /\ p \in {"PtoD", "DtoM"}
  /\ At(p, "idle") /\ ring[p] # << >> /\ ~IsCall(Head(ring[p]))
  /\ LET b == Head(ring[p])
         stops == discarding[p] /\ ~(p = "PtoD" /\ IsMarker(b))
         early == Due(before[p], b.seq)
         late  == IF p = "DtoM" /\ IsMarker(b) THEN Due(after[p], b.seq) ELSE {}
     IN
       /\ ring' = [ring EXCEPT ![p] = Tail(@)]
       /\ hand' = [hand EXCEPT ![p] = b]
       /\ discarding' = [discarding EXCEPT ![p] = stops]
       /\ keep' = [keep EXCEPT ![p] = ~stops \/ IsMarker(b)]
       /\ seen' = Raised(p, b.seq)
       /\ before' = [before EXCEPT ![p] = @ \ early]
       /\ after' = [after EXCEPT ![p] = @ \ late]
       /\ Perform(early \cup late)
  /\ Goto(p, "pass")
  /\ UNCHANGED <<next, marker, codecVars, display, clientVars, sent>>

Held == IF held = Nothing THEN 0 ELSE 1
Buffers(p) == Cardinality({i \in DOMAIN ring[p] : ~IsCall(ring[p][i])})

DecodeBuffersInUse ==
  Len(inflight) + Held + Len(display) + Buffers("DtoM") + Buffers("PostM")
    + (IF At("DtoM", "pass") THEN 1 ELSE 0)

\* Mutant: one decode buffer is kept spare
PassToCodecSpare ==
  /\ At("PtoD", "pass")
  /\ keep["PtoD"] => DecodeBuffersInUse < DecodeBuffers - 1
  /\ LET b == hand["PtoD"] IN
       IF ~keep["PtoD"] THEN UNCHANGED <<ring, codecVars>>
       ELSE IF IsFrame(b)
       THEN inflight' = Append(inflight, b) /\ UNCHANGED <<ring, held, ahead, drop>>
       ELSE IF inflight = << >>
       THEN Insert("DtoM", b) /\ held' = Nothing /\ UNCHANGED <<inflight, ahead, drop>>
       ELSE /\ held' = b /\ ahead' = Len(inflight)
            /\ UNCHANGED <<ring, inflight, drop>>
  /\ keep' = [keep EXCEPT !["PtoD"] = TRUE]
  /\ Passed("PtoD", hand["PtoD"])
  /\ UNCHANGED <<seen, before, after, next, marker, discarding, drained,
                 display, switchVars, clientVars, sent, resets>>

(* Codec->Input and its TestMarkerFramePassOn.  A second marker replaces   *)
(* one that the codec still holds.                                         *)
PassToCodec ==
  /\ At("PtoD", "pass")
  /\ keep["PtoD"] => DecodeBuffersInUse < DecodeBuffers
  /\ LET b == hand["PtoD"] IN
       IF ~keep["PtoD"] THEN UNCHANGED <<ring, codecVars>>
       ELSE IF IsFrame(b)
       THEN inflight' = Append(inflight, b) /\ UNCHANGED <<ring, held, ahead, drop>>
       ELSE IF inflight = << >>
       THEN Insert("DtoM", b) /\ held' = Nothing /\ UNCHANGED <<inflight, ahead, drop>>
       ELSE /\ held' = b /\ ahead' = Len(inflight)
            /\ UNCHANGED <<ring, inflight, drop>>
  /\ keep' = [keep EXCEPT !["PtoD"] = TRUE]
  /\ Passed("PtoD", hand["PtoD"])
  /\ UNCHANGED <<seen, before, after, next, marker, discarding, drained,
                 display, switchVars, clientVars, sent, resets>>

(* CallbackFromMME, ReleaseDecodeContext, TestMarkerFramePassOn.           *)
DecodeComplete ==
  /\ inflight # << >>
  /\ LET out == IF drop > 0 THEN << >> ELSE <<Head(inflight)>>
         passes == held # Nothing /\ ahead = 1
     IN /\ ring' = [ring EXCEPT !["DtoM"] =
                      @ \o out \o (IF passes THEN <<held>> ELSE << >>)]
        /\ held' = IF passes THEN Nothing ELSE held
  /\ inflight' = Tail(inflight)
  /\ ahead' = IF ahead > 0 THEN ahead - 1 ELSE 0
  /\ drop' = IF drop > 0 THEN drop - 1 ELSE 0
  /\ UNCHANGED <<processVars, next, marker, discarding, drained, display,
                 switchVars, clientVars, sent, resets>>

(* Manifestor->QueueDecodeBuffer, or the marker goes on its way.           *)
PassToManifestor ==
  /\ At("DtoM", "pass")
  /\ LET b == hand["DtoM"] IN
       IF IsMarker(b) THEN Insert("PostM", b) /\ UNCHANGED display
       ELSE /\ display' = IF keep["DtoM"] THEN Append(display, b) ELSE display
            /\ UNCHANGED ring
  /\ keep' = [keep EXCEPT !["DtoM"] = TRUE]
  /\ Passed("DtoM", hand["DtoM"])
  /\ UNCHANGED <<seen, before, after, next, marker, discarding, drained,
                 codecVars, switchVars, clientVars, sent, resets>>

\* Mutant: DtoM goes on discarding
FinishDiscarding(p) ==
  /\ At(p, "finish")
  /\ Perform(Due(after[p], hand[p].seq))
  /\ after' = [after EXCEPT ![p] = @ \ Due(@, hand[p].seq)]
  /\ discarding' = [discarding EXCEPT ![p] = @]
  /\ hand' = [hand EXCEPT ![p] = Nothing]
  /\ Goto(p, "idle")
  /\ UNCHANGED <<ring, keep, seen, before, next, marker, codecVars, display,
                 clientVars, sent>>

Finish(p) ==
  /\ At(p, "finish")
  /\ Perform(Due(after[p], hand[p].seq))
  /\ after' = [after EXCEPT ![p] = @ \ Due(@, hand[p].seq)]
  /\ discarding' = [discarding EXCEPT ![p] = @ /\ ~(p = "DtoM" /\ IsMarker(hand[p]))]
  /\ hand' = [hand EXCEPT ![p] = Nothing]
  /\ Goto(p, "idle")
  /\ UNCHANGED <<ring, keep, seen, before, next, marker, codecVars, display,
                 clientVars, sent>>

(* ProcessPostManifest releases the buffer between the calls.              *)
PostManifest ==
  /\ ring["PostM"] # << >> /\ ~IsCall(Head(ring["PostM"]))
  /\ LET b == Head(ring["PostM"])
         early == Due(before["PostM"], b.seq)
         late  == Due(after["PostM"], b.seq)
     IN
       /\ ring' = [ring EXCEPT !["PostM"] = Tail(@)]
       /\ discarding' = [discarding EXCEPT !["PostM"] = @ /\ ~IsMarker(b)]
       /\ seen' = Raised("PostM", b.seq)
       /\ before' = [before EXCEPT !["PostM"] = @ \ early]
       /\ after' = [after EXCEPT !["PostM"] = @ \ late]
       /\ Perform(early \cup late)
  /\ UNCHANGED <<pc, hand, keep, next, marker, codecVars, display, clientVars,
                 sent>>

\* Mutant: a call for the number just seen waits
TakeCallLate(p) ==
  /\ At(p, "idle") /\ ring[p] # << >> /\ IsCall(Head(ring[p]))
  /\ LET c == Head(ring[p])
         now == c.seq < seen[p]
         Accumulated(table) ==
           IF now \/ Cardinality(table) >= TableSize THEN table ELSE table \cup {c}
     IN
       /\ ring' = [ring EXCEPT ![p] = Tail(@)]
       /\ Perform(IF now THEN {c} ELSE {})
       /\ IF c.kind \in Befores
          THEN before' = [before EXCEPT ![p] = Accumulated(@)] /\ UNCHANGED after
          ELSE after' = [after EXCEPT ![p] = Accumulated(@)] /\ UNCHANGED before
  /\ UNCHANGED <<pc, hand, keep, seen, next, marker, discarding, codecVars,
                 display, clientVars, sent>>

(* ProcessNow, or AccumulateControlMessage: in a full table it is lost.    *)
TakeCall(p) ==
  /\ At(p, "idle") /\ ring[p] # << >> /\ IsCall(Head(ring[p]))
  /\ LET c == Head(ring[p])
         now == c.seq <= seen[p]
         Accumulated(table) ==
           IF now \/ Cardinality(table) >= TableSize THEN table ELSE table \cup {c}
     IN
       /\ ring' = [ring EXCEPT ![p] = Tail(@)]
       /\ Perform(IF now THEN {c} ELSE {})
       /\ IF c.kind \in Befores
          THEN before' = [before EXCEPT ![p] = Accumulated(@)] /\ UNCHANGED after
          ELSE after' = [after EXCEPT ![p] = Accumulated(@)] /\ UNCHANGED before
  /\ UNCHANGED <<pc, hand, keep, seen, next, marker, discarding, codecVars,
                 display, clientVars, sent>>

(* The manifestor gives a frame back.                                      *)
Manifested ==
  /\ display # << >>
  /\ Insert("PostM", Head(display))
  /\ display' = Tail(display)
  /\ UNCHANGED <<processVars, next, marker, discarding, drained, codecVars,
                 switchVars, clientVars, sent, resets>>

(***************************************************************************)
(* The client and the thread that injects                                  *)
(***************************************************************************)
\* Mutant: a switch is not refused while another one is in progress
LaunchAnyway(mode, discard) ==
  /\ At(Client, "idle")
  /\ Patient => (launched = 0 \/ drained)
  /\ launched < MaxCalls
  /\ drain' = [drain EXCEPT !.mode = mode]
  /\ launched' = launched + 1
  /\ discarding' = [p \in Processes |-> discarding[p] \/ discard]
  /\ Goto(Client, IF discard THEN "drop" ELSE "number")
  /\ UNCHANGED <<ring, hand, keep, seen, before, after, next, marker, drained,
                 codecVars, display, switchVars, sent, marked, resets>>

(* InternalDrainStream sets the flags if the drain discards; InputJump is  *)
(* left to the collator.  SwitchStream refuses to start twice.             *)
Launch(mode, discard) ==
  /\ At(Client, "idle")
  /\ Patient => (launched = 0 \/ drained)
  /\ launched < MaxCalls /\ (mode = "switch" => ~switching)
  /\ drain' = [drain EXCEPT !.mode = mode]
  /\ launched' = launched + 1
  /\ discarding' = [p \in Processes |-> discarding[p] \/ discard]
  /\ Goto(Client, IF discard THEN "drop" ELSE "number")
  /\ UNCHANGED <<ring, hand, keep, seen, before, after, next, marker, drained,
                 codecVars, display, switchVars, sent, marked, resets>>

(* Codec->DiscardQueuedDecodes                                             *)
DiscardQueuedDecodes ==
  /\ At(Client, "drop")
  /\ drop' = Len(inflight)
  /\ Goto(Client, "flush")
  /\ UNCHANGED <<ring, hand, keep, seen, before, after, next, marker,
                 discarding, drained, inflight, held, ahead, display,
                 switchVars, clientVars, sent, resets>>

(* Manifestor->ReleaseQueuedDecodeBuffers, all but what is on display.     *)
ReleaseQueuedDecodeBuffers ==
  /\ At(Client, "flush")
  /\ \E shown \in {0, 1} :
       /\ shown <= Len(display)
       /\ display' = SubSeq(display, 1, shown)
       /\ ring' = [ring EXCEPT !["PostM"] =
                     @ \o SubSeq(display, shown + 1, Len(display))]
  /\ Goto(Client, "number")
  /\ UNCHANGED <<hand, keep, seen, before, after, next, marker, discarding,
                 drained, codecVars, switchVars, clientVars, sent, resets>>

(* A marker that CtoP has not met yet is waited for; the number.           *)
MarkerNumber ==
  /\ At(Client, "number")
  /\ marker # None => drained
  /\ drain' = [drain EXCEPT !.seq = next + RingSize]
  /\ Goto(Client, "insert")
  /\ UNCHANGED <<ring, hand, keep, seen, before, after, next, marker,
                 discarding, drained, codecVars, display, switchVars,
                 launched, marked, sent, resets>>

\* Mutant: Drained is not reset
MarkerInsertDrained ==
  /\ At(Client, "insert")
  /\ marker' = launched
  /\ Insert("CtoP", Marker(launched))
  /\ marked' = launched
  /\ Goto(Client, "ResetTimeMapping")
  /\ UNCHANGED <<hand, keep, seen, before, after, next, discarding, drained, codecVars,
                 display, switchVars, drain, launched, sent, resets>>

MarkerInsert ==
  /\ At(Client, "insert")
  /\ drained' = FALSE
  /\ marker' = launched
  /\ Insert("CtoP", Marker(launched))
  /\ marked' = launched
  /\ Goto(Client, "ResetTimeMapping")
  /\ UNCHANGED <<hand, keep, seen, before, after, next, discarding, codecVars,
                 display, switchVars, drain, launched, sent, resets>>

(* The calls that follow, in the order in which they are made.             *)
NextCall(fn) ==
  CASE fn = "ResetTimeMapping"   -> "SetDrained"
    [] fn = "SetDrained"         -> [switch |-> "collator", block |-> "wait",
                                     return |-> "idle"][drain.mode]
    [] fn = "SwitchFrameParser"  -> "SwitchCodec"
    [] fn = "SwitchCodec"        -> "SwitchOutputTimer"
    [] fn = "SwitchOutputTimer"  -> "SwitchComplete"
    [] fn = "SwitchComplete"     -> "idle"

CallInSequence(fn) ==
  /\ At(Client, fn)
  /\ Insert(Destination(fn), Call(fn))
  /\ Goto(Client, NextCall(fn))
  /\ drain' = IF NextCall(fn) = "idle" THEN NoDrain ELSE drain
  /\ UNCHANGED <<hand, keep, seen, before, after, next, marker, discarding,
                 drained, codecVars, display, switchVars, launched, marked,
                 sent, resets>>

(* SwitchStream after its drain, SwitchCollator.                           *)
SwitchCollator ==
  /\ At(Client, "collator")
  /\ switching' = TRUE /\ lastOut' = FALSE
  /\ collator' = collator + 1
  /\ Goto(Client, "SwitchFrameParser")
  /\ UNCHANGED <<ring, hand, keep, seen, before, after, next, marker,
                 discarding, drained, codecVars, display, parser, codec,
                 clientVars, sent, resets>>

WaitForDrainCompletion ==
  /\ At(Client, "wait") /\ drained
  /\ drain' = NoDrain
  /\ Goto(Client, "idle")
  /\ UNCHANGED <<ring, hand, keep, seen, before, after, next, marker,
                 discarding, drained, codecVars, display, switchVars,
                 launched, marked, sent, resets>>

(* A frame leaves the collator.                                            *)
Collate ==
  /\ Len(sent) < MaxFrames
  /\ Still => At(Client, "idle")
  /\ Insert("CtoP", Frame(Len(sent) + 1))
  /\ sent' = Append(sent, [drains |-> marked, collator |-> collator])
  /\ UNCHANGED <<processVars, next, marker, discarding, drained, codecVars,
                 display, switchVars, clientVars, resets>>

ProcessStep(p) ==
  \/ TakeCall(p) \/ Finish(p) \/ Take(p)
  \/ p = "CtoP" /\ CollateToParse
  \/ p = "PtoD" /\ PassToCodec
  \/ p = "DtoM" /\ PassToManifestor
  \/ p = "PostM" /\ PostManifest
ClientStep ==
  \/ DiscardQueuedDecodes \/ ReleaseQueuedDecodeBuffers
  \/ MarkerNumber \/ MarkerInsert
  \/ \E fn \in Functions : CallInSequence(fn)
  \/ SwitchCollator \/ WaitForDrainCompletion

Next ==
  \/ \E p \in Processes : ProcessStep(p)
  \/ DecodeComplete \/ Manifested
  \/ \E mode \in {"block", "return", "switch"}, discard \in BOOLEAN :
       Launch(mode, discard)
  \/ ClientStep \/ Collate

Spec == Init /\ [][Next]_vars

(***************************************************************************)
(* The processes, the client in its calls and the accelerator run; the     *)
(* manifestor gives back every frame but the last.                         *)
(***************************************************************************)
Fairness ==
  /\ \A p \in Processes : WF_vars(ProcessStep(p))
  /\ WF_vars(DecodeComplete)
  /\ WF_vars(Len(display) > 1 /\ Manifested)
  /\ WF_vars(ClientStep)

FairSpec == Spec /\ Fairness
-----------------------------------------------------------------------------
(***************************************************************************)
(* Properties                                                              *)
(***************************************************************************)
(* Every variable has its type; what the codec counts agrees with what it  *)
(* holds: PassOnMarkerBufferAt and DiscardDecodesUntil name decodes still  *)
(* to come, a marker is kept exactly while decodes are ahead of it, and    *)
(* the decode buffers handed out exist (codec_mme_base.cpp:758-806).       *)
Buffer == [kind : {"frame", "marker", "nothing"} \cup Functions,
           n : 0 .. MaxFrames + MaxCalls, seq : Int]

TypeOK ==
  /\ ring \in [Processes -> Seq(Buffer)]
  /\ pc \in [Processes \cup {Client} -> Functions \cup
              {"idle", "pass", "finish", "drop", "flush", "number",
               "insert", "collator", "wait"}]
  /\ hand \in [Processes -> Buffer] /\ keep \in [Processes -> BOOLEAN]
  /\ seen \in [Processes -> Int]
  /\ \A p \in Processes : \A table \in {before[p], after[p]} :
       table \subseteq Buffer /\ Cardinality(table) <= TableSize
  /\ next \in Nat /\ marker \in Nat \cup {None}
  /\ discarding \in [Processes -> BOOLEAN] /\ drained \in BOOLEAN
  /\ inflight \in Seq(Buffer) /\ display \in Seq(Buffer)
  /\ held \in Buffer /\ ahead \in 0 .. Len(inflight)
  /\ drop \in 0 .. Len(inflight)
  /\ (held # Nothing) <=> (ahead > 0)
  /\ DecodeBuffersInUse <= DecodeBuffers
  /\ {collator, parser, codec} \subseteq 0 .. MaxCalls

InHand(p) == IF At(p, "pass") THEN <<hand[p]>> ELSE << >>

Frames(s) == {s[i].n : i \in {j \in DOMAIN s : IsFrame(s[j])}}
NotManifested ==
  Frames(inflight)
    \cup UNION {Frames(ring[p] \o InHand(p)) : p \in {"CtoP", "PtoD", "DtoM"}}

(* Drained says that what was before the marker has left the stream: the   *)
(* blocking drain on which RemoveStream relies ("we should now be able to  *)
(* shutdown the stream cleanly", player_playback.cpp:649) does not return  *)
(* on account of an earlier marker.                                        *)
DrainedMeansPassed ==
  drained => \A n \in NotManifested : sent[n].drains = marked

(* What a drain discards is what came before its marker: no process and    *)
(* no decode throws a frame injected after the marker of the last drain    *)
(* (the flags of player_playback.cpp:981-984, reset by each process at the *)
(* marker; DiscardQueuedDecodes).                                          *)
BehindMarkerIsKept ==
  /\ \A p \in Processes :
       At(p, "pass") /\ ~keep[p] => sent[hand[p].n].drains < launched
  /\ \A i \in 1 .. drop : sent[inflight[i].n].drains < launched

(* A frame is timed after the time mapping was reset by every drain before *)
(* it and by none after it (OutputTimerFnResetTimeMapping is called in     *)
(* sequence, player_playback.cpp:1060), whichever comes to the decode to   *)
(* manifest process first, the call or the marker.                         *)
ResetOnTime ==
  At("DtoM", "pass") /\ IsFrame(hand["DtoM"]) =>
    resets = sent[hand["DtoM"].n].drains

(* A frame is parsed and decoded by the parser and the codec that belong   *)
(* to the collator it was collected with (player_switch.cpp:68, "Insert    *)
(* the appropriate switch calls into the flow").                           *)
PartsMatch ==
  [][/\ Len(ring'["PtoD"]) > Len(ring["PtoD"]) /\ IsFrame(Last(ring'["PtoD"])) =>
          sent[Last(ring'["PtoD"]).n].collator = parser
     /\ Len(inflight') > Len(inflight) =>
          sent[Last(inflight').n].collator = codec]_vars

(* When a switch is followed by another, what the first one replaced is in *)
(* nobody's hands: HavanaStream_c::Switch deletes it ("The previous        *)
(* classes are now definitely no longer in use", havana_stream.cpp:1259)   *)
(* although it does not wait for the switch, which goes on in four         *)
(* processes; SwitchStreamInProgress has to keep the two apart.            *)
OldPartsUnused == {parser, codec} \subseteq {collator - 1, collator}

(* A drain ends, whatever state it finds the stream in and although a      *)
(* switch has the parser wait for the codec (WaitForDrainCompletion).      *)
DrainEnds == []<>(launched = 0 \/ drained)

(* Every frame gets to the manifestor or is thrown away: the processes do  *)
(* not come to wait for each other, for a decode buffer or for a switch.   *)
FrameLeaves == []<>(NotManifested = {})
=============================================================================
