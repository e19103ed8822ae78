------------------------- MODULE StreamCalls_proofs -------------------------
(***************************************************************************)
(* Theorems about StreamProcesses: where the calls of drains and switches  *)
(* take effect among the frames, if the client drains only when its last   *)
(* drain is complete and injects nothing while it drains, for any numbers  *)
(* of frames and calls, any sizes of rings and tables and any number of    *)
(* decode buffers.                                                         *)
(*                                                                         *)
(* RInv: resets are made one by one, each before the frames behind it.     *)
(* SInv: a call that replaces the parser or the codec keeps its place      *)
(* among what was injected. MInv: each frame still has its part before it. *)
(***************************************************************************)
EXTENDS StreamProcesses_proofs, FiniteSetTheorems, TLAPS

(* Resets of the time mapping, if nothing is injected during a call of the *)
(* client: they are made one by one, each before the frames behind it.     *)
StillFrames == pc[Client] # "idle" => \A i \in 1 .. Len(sent) : sent[i].drains < launched

IsReset(c) == c.kind = "ResetTimeMapping"
Resets == {c \in Pending("DtoM") : IsReset(c)}
Made   == IF At(Client, "ResetTimeMapping") THEN marked - 1 ELSE marked

ResetsHeld == \A c \in before["DtoM"] : c.seq > seen["DtoM"]
ResetsQueued ==
  \A i, j \in 1 .. Len(ring["DtoM"]) :
    i < j /\ IsFrame(ring["DtoM"][i]) /\ IsReset(ring["DtoM"][j]) =>
      Behind(ring["DtoM"][i]) < ring["DtoM"][j].n
ResetsAhead ==
  At("DtoM", "pass") /\ IsFrame(hand["DtoM"]) =>
    \A c \in Resets : Behind(hand["DtoM"]) < c.n
ResetsCounted ==
  /\ resets <= Made
  /\ \A c \in Resets : c.n > resets
  /\ \A n \in resets + 1 .. Made : \E c \in Resets : c.n = n
  /\ \A f \in From(Line, 1) : IsFrame(f) => Behind(f) >= resets

RInv == /\ PInv /\ StillFrames
        /\ ResetsHeld /\ ResetsQueued /\ ResetsAhead /\ ResetsCounted
-----------------------------------------------------------------------------
LEMMA ClientSteps ==
  ASSUME Types, [Next]_vars
  PROVE  \/ \E mode \in {"block", "return", "switch"}, discard \in BOOLEAN : Launch(mode, discard)
         \/ Collate
         \/ UNCHANGED <<sent, launched>> /\ (pc'[Client] # "idle" => pc[Client] # "idle")
<1>0. pc \in [Processes \cup {Client} -> Places]
  BY FnTypes
<1>1. ASSUME NEW p \in Processes, NEW l, Goto(p, l)  PROVE UNCHANGED pc[Client]
  BY <1>1, ProcessIs DEF Goto
<1>2. CASE \/ \E p \in Processes : ProcessStep(p)
           \/ DecodeComplete \/ Manifested \/ UNCHANGED vars
  <2>1. UNCHANGED pc[Client]
    BY ZenonT(40), <1>1, <1>2, ProcessIs
     DEF ProcessStep, TakeCall, Finish, Take, CollateToParse, PassToCodec, PassToManifestor,
         PostManifest, DecodeComplete, Manifested, Passed, processVars, vars
  <2>2. UNCHANGED <<sent, launched>>
    BY ZenonT(40), <1>2 DEF ProcessStep, TakeCall, Finish, Take, CollateToParse, PassToCodec, PassToManifestor,
         PostManifest, DecodeComplete, Manifested, clientVars, vars
  <2>3. QED  BY <2>1, <2>2
<1>3. CASE ClientStep
  <2>1. UNCHANGED <<sent, launched>>
    BY <1>3 DEF ClientStep, DiscardQueuedDecodes, ReleaseQueuedDecodeBuffers, MarkerNumber,
         MarkerInsert, CallInSequence, SwitchCollator, WaitForDrainCompletion, clientVars
  <2>2. pc[Client] # "idle"
    BY <1>3 DEF ClientStep, DiscardQueuedDecodes, ReleaseQueuedDecodeBuffers, MarkerNumber,
         MarkerInsert, CallInSequence, SwitchCollator, WaitForDrainCompletion, At, Functions
  <2>3. QED  BY <2>1, <2>2
<1>4. QED  BY <1>2, <1>3 DEF Next

LEMMA StillFramesNext ==
  ASSUME Still, Types, Types', Contents, StillFrames, [Next]_vars  PROVE StillFrames'
<1>0. /\ Len(sent) \in Nat /\ marked \in Nat /\ launched \in Nat
      /\ \A i \in 1 .. Len(sent) : sent[i].drains \in 0 .. marked /\ marked <= launched
  BY CountTypes DEF Counts, Contents
<1>1. CASE Collate
  <2>1. pc[Client] = "idle" /\ pc' = pc
    BY <1>1 DEF Collate, At, processVars
  <2>2. QED  BY <2>1 DEF StillFrames
<1>2. ASSUME NEW mode \in {"block", "return", "switch"}, NEW discard \in BOOLEAN,
             Launch(mode, discard)
      PROVE  StillFrames'
  <2>1. sent' = sent /\ launched' = launched + 1
    BY <1>2 DEF Launch
  <2>2. \A i \in 1 .. Len(sent) : sent[i].drains < launched + 1
    BY <1>0
  <2>3. QED  BY <2>1, <2>2 DEF StillFrames
<1>3. CASE UNCHANGED <<sent, launched>> /\ (pc'[Client] # "idle" => pc[Client] # "idle")
  BY <1>3 DEF StillFrames
<1>4. QED  BY <1>1, <1>2, <1>3, ClientSteps

LEMMA NoResets ==
  ASSUME Contents
  PROVE  /\ \A p \in Processes : \A c \in after[p] : ~IsReset(c)
         /\ \A p \in Processes \ {"DtoM"} : \A c \in before[p] : ~IsReset(c)
         /\ \A p \in Processes \ {"DtoM"} : \A c \in Items(ring[p]) : ~IsReset(c)
         /\ \A c \in before["DtoM"] : IsReset(c)
<1>1. Destination("ResetTimeMapping") = "DtoM"
  BY DEF Destination
<1>2. \A c, p : IsReset(c) /\ ACall(c, p) => p = "DtoM"
  BY <1>1 DEF IsReset, ACall
<1>3. \A c : IsReset(c) => c.kind \in Befores /\ IsCall(c)
  BY DEF IsReset, Befores, IsCall, Functions
<1>4. \A p \in Processes : \A c \in after[p] : ~IsReset(c)
  BY <1>3 DEF Contents
<1>5. \A p \in Processes \ {"DtoM"} : \A c \in before[p] : ~IsReset(c)
  BY <1>2 DEF Contents
<1>6. \A p \in Processes \ {"DtoM"} : \A c \in Items(ring[p]) : ~IsReset(c)
  <2>1. \A c : AFrame(c) \/ AMarker(c) => ~IsReset(c)
    BY <1>3, NoCalls
  <2>2. QED  BY <1>2, <2>1 DEF Contents
<1>7. \A c \in before["DtoM"] : IsReset(c)
  <2>1. \A k \in Befores : Destination(k) = "DtoM" => k = "ResetTimeMapping"
    BY DEF Befores, Destination
  <2>2. QED  BY <2>1, ProcessIs DEF Contents, ACall, IsReset
<1>8. QED  BY <1>4, <1>5, <1>6, <1>7

(* Which resets there are, and which a process may still hold back.        *)
LEMMA ResetsAre ==
  /\ Types /\ Contents => \A c : c \in Resets <=>
       (c \in Items(ring["DtoM"]) /\ IsReset(c)) \/ c \in before["DtoM"]
  /\ Types /\ Contents => \A c \in Resets : /\ c \in Buffer /\ IsCall(c) /\ IsReset(c)
                                            /\ c.n \in 1 .. marked /\ c.seq \in Int
                                            /\ <<c.n, c.seq>> \in Known
<1>1. SUFFICES ASSUME Types, Contents
      PROVE  /\ \A c : c \in Resets <=>
                  (c \in Items(ring["DtoM"]) /\ IsReset(c)) \/ c \in before["DtoM"]
             /\ \A c \in Resets : /\ c \in Buffer /\ IsCall(c) /\ IsReset(c)
                                  /\ c.n \in 1 .. marked /\ c.seq \in Int
                                  /\ <<c.n, c.seq>> \in Known
  OBVIOUS
<1>2. \A c \in before["DtoM"] : IsReset(c)
  BY <1>1, NoResets
<1>3. \A c \in after["DtoM"] : ~IsReset(c)
  BY <1>1, NoResets, ProcessIs
<1>4. \A c : IsReset(c) => IsCall(c) /\ Base(c) = c.seq
  BY DEF IsReset, IsCall, Functions, Base
<1>5. ASSUME NEW c
      PROVE  c \in Resets <=> (c \in Items(ring["DtoM"]) /\ IsReset(c)) \/ c \in before["DtoM"]
  BY <1>2, <1>3, <1>4 DEF Resets, Pending, Tables
<1>6. ASSUME NEW c \in Resets
      PROVE  /\ c \in Buffer /\ IsCall(c) /\ IsReset(c)
             /\ c.n \in 1 .. marked /\ c.seq \in Int /\ <<c.n, c.seq>> \in Known
  <2>1. c \in Pending("DtoM") /\ IsReset(c)
    BY <1>6 DEF Resets
  <2>2. c \in Buffer /\ IsCall(c) /\ c.n \in 1 .. marked
    BY <1>1, <2>1, PendingAre, ProcessIs
  <2>3. c.seq \in Int
    BY <2>2 DEF Buffer
  <2>4. <<c.n, c.seq>> \in Known
    BY <1>4, <2>1, KnownIs, ProcessIs
  <2>5. QED  BY <2>1, <2>2, <2>3, <2>4
<1>7. QED  BY <1>5, <1>6

ResetsFit == \A c : c \in Resets <=>
               (c \in Items(ring["DtoM"]) /\ IsReset(c)) \/ c \in before["DtoM"]
LEMMA ResetsFitThen == Types' /\ Contents' => ResetsFit'
<1>1. Types /\ Contents => ResetsFit
  BY ResetsAre DEF ResetsFit
<1>2. QED  BY <1>1, PTL

LEMMA ResetsThenAre ==
  ASSUME Types', Contents', NEW c
  PROVE  c \in Resets' <=> (c \in Items(ring'["DtoM"]) /\ IsReset(c)) \/ c \in before'["DtoM"]
BY ResetsFitThen DEF ResetsFit, Items, IsReset

LEMMA HeldReset ==
  ASSUME Types, Contents, OneMarker, Agree, NEW c \in Resets, c.seq > seen["DtoM"]
  PROVE  c.n = marked /\ \E m \in From(Line, 2) : IsMarker(m) /\ m.n = marked
<1>1. <<c.n, c.seq>> \in Known /\ c.seq \in Int /\ c.n \in 1 .. marked
  BY ResetsAre
<1>2. Ahead(<<c.n, c.seq>>)
  BY <1>1 DEF Agree
<1>3. MarkerFrom(2, c.n)
  <2>1. seen["DtoM"] < c.seq
    BY <1>1, FnTypes, ProcessIs
  <2>2. QED  BY <1>2, <2>1, PlaceIs DEF Ahead, Readers
<1>4. PICK m \in From(Line, 2) : IsMarker(m) /\ m.n = c.n
  BY <1>3 DEF MarkerFrom, MarkerIn
<1>5. m \in From(Line, 1)
  <2>1. PICK h \in Parts : h >= 2 /\ m \in Items(Line[h])
    BY <1>4, FromPart
  <2>2. h >= 1
    BY <2>1, PartsAreNumbers
  <2>3. QED  BY <2>1, <2>2, FromPart
<1>6. m.n = marked
  BY <1>4, <1>5 DEF OneMarker, MarkersLast, Markers
<1>7. QED  BY <1>4, <1>6

LEMMA OneReset ==
  ASSUME Types, Contents, OneMarker, Agree, ResetsHeld,
         NEW c \in before["DtoM"], NEW d \in before["DtoM"]
  PROVE  c = d /\ c.n = marked
<1>1. c \in Resets /\ d \in Resets
  BY ResetsAre
<1>2. c.n = marked /\ d.n = marked
  BY <1>1, HeldReset DEF ResetsHeld
<1>3. c.seq = d.seq
  <2>1. <<c.n, c.seq>> \in Known /\ <<d.n, d.seq>> \in Known
    BY <1>1, ResetsAre
  <2>2. \A k, l \in Known : k[1] = l[1] => k[2] = l[2]
    BY DEF Agree
  <2>3. QED  BY <1>2, <2>1, <2>2
<1>4. c \in Buffer /\ d \in Buffer /\ c.kind = d.kind
  BY <1>1, ResetsAre DEF IsReset
<1>5. QED  BY <1>2, <1>3, <1>4 DEF Buffer

(* A reset that waits is made when the marker of its drain comes.          *)
LEMMA ResetAtMarker ==
  ASSUME Types, Types', Contents, InOrder(sent, Line), OneMarker, Numbers, Agree, ResetsHeld,
         Take("DtoM"), NEW b, b = Head(ring["DtoM"]), NEW c \in Due(before["DtoM"], b.seq)
  PROVE  IsMarker(b) /\ b.n = marked
<1>0. c \in before["DtoM"] /\ c.seq <= b.seq
  BY DEF Due
<1>1. c \in Resets /\ c.seq > seen["DtoM"]
  BY <1>0, ResetsAre DEF ResetsHeld
<1>2. c.n = marked
  BY <1>1, HeldReset
<1>3. PICK m \in From(Line, 2) : IsMarker(m) /\ m.n = marked
  BY <1>1, HeldReset
<1>4. Line[2] # << >> /\ Line[2][1] = b /\ (AFrame(b) \/ AMarker(b)) /\ Line \in Lines
  BY TakeLine, LinesNow, PlaceIs, ProcessIs
<1>5. b \in Items(Line[2])
  BY <1>4, LineFacts, PartIs, ItemsTail
<1>6. CASE IsMarker(b)
  <2>1. b \in Markers
    BY <1>5, <1>6, FromPart, PartIs DEF Markers
  <2>2. QED  BY <1>6, <2>1 DEF OneMarker, MarkersLast
<1>7. CASE AFrame(b)
  <2>1. b \in Numbered
    <3>1. b \in Lower(Line)
      BY <1>5, LowerIs, PartIs
    <3>2. QED  BY <1>7, <3>1, NumberedAre DEF AFrame
  <2>2. Behind(b) >= marked
    <3>1. Apart(<<c.n, c.seq>>)
      BY <1>1, ResetsAre DEF Agree
    <3>2. Behind(b) >= c.n \/ b.seq < c.seq
      BY <2>1, <3>1 DEF Apart
    <3>3. b.seq \in Int /\ c.seq \in Int
      BY <1>1, <2>1, ResetsAre, NumberedTyped
    <3>4. QED  BY <1>0, <1>2, <3>2, <3>3
  <2>3. m # b
    BY <1>3, <1>7, Kinds DEF AFrame
  <2>4. Precedes(sent, b, m)
    <3>1. PICK h \in Parts : h >= 2 /\ m \in Items(Line[h])
      BY <1>3, FromPart
    <3>2. CASE h = 2
      <4>1. m \in Items(Tail(Line[2]))
        BY <1>4, <2>3, <3>1, <3>2, LineFacts, PartIs, ItemsTail
      <4>2. QED  BY ONLY <1>4, <4>1, HeadPrecedes, PartIs, InOrder(sent, Line)
    <3>3. CASE h # 2
      <4>1. h > 2
        BY <3>1, <3>3, PartsAreNumbers
      <4>2. QED  BY ONLY <1>4, <3>1, <4>1, HeadPrecedes, PartIs, InOrder(sent, Line)
    <3>4. QED  BY <3>2, <3>3
  <2>5. Behind(b) < marked
    BY <1>3, <1>7, <2>4 DEF Precedes, AFrame, Behind
  <2>6. Behind(b) \in Int /\ marked \in Int
    BY <1>7, BehindIs, CountTypes DEF Counts
  <2>7. QED  BY <2>2, <2>5, <2>6
<1>8. QED  BY <1>4, <1>6, <1>7 DEF AMarker

(* Only calls of the decode to manifest process reset the time mapping.    *)
LEMMA PerformResets ==
  ASSUME Types, NEW calls, Perform(calls)
  PROVE  /\ (\A c \in calls : ~IsReset(c)) => resets' = resets
         /\ \A c \in calls : IsReset(c) /\ (\A d \in calls : IsReset(d) => d = c) =>
              resets' = resets + 1
<1>1. /\ resets' = resets + Cardinality({c \in calls : c.kind = "ResetTimeMapping"})
      /\ resets \in Nat
  <2>1. resets \in Nat
    BY TypesAre DEF SwitchTypes
  <2>2. QED  BY <2>1 DEF Perform
<1>2. ASSUME \A c \in calls : ~IsReset(c)  PROVE resets' = resets
  <2>1. {c \in calls : c.kind = "ResetTimeMapping"} = {}
    BY <1>2 DEF IsReset
  <2>2. QED  BY <1>1, <2>1, FS_EmptySet
<1>3. ASSUME NEW c \in calls, IsReset(c), \A d \in calls : IsReset(d) => d = c
      PROVE  resets' = resets + 1
  <2>1. {x \in calls : x.kind = "ResetTimeMapping"} = {c}
    BY <1>3 DEF IsReset
  <2>2. QED  BY <1>1, <2>1, FS_Singleton
<1>4. QED  BY <1>2, <1>3

(* A call stays in its ring until its process takes it.                    *)
LEMMA CallsStay ==
  ASSUME Types, Types', Contents, [Next]_vars, \A fn \in Functions : ~CallInSequence(fn),
         NEW p \in Processes, NEW c \in Items(ring[p]), IsCall(c),
         ~(TakeCall(p) /\ c = Head(ring[p]))
  PROVE  c \in Items(ring'[p])
<1>0. ring[p] \in Seq(Buffer)
  BY FnTypes
<1>1. RingStep(p)
  BY RingSteps
<1>2. CASE ring[p] # << >> /\ ring'[p] = Tail(ring[p]) /\ (IsCall(Head(ring[p])) => TakeCall(p))
  <2>1. c # Head(ring[p])
    BY <1>2
  <2>2. QED  BY <1>0, <1>2, <2>1, ItemsTail
<1>3. CASE Extends(ring[p], ring'[p])
  <2>1. PICK t \in Seq(Buffer) : ring'[p] = ring[p] \o t
    BY <1>3 DEF Extends
  <2>2. QED  BY <1>0, <2>1, ItemsConcat
<1>4. QED  BY <1>1, <1>2, <1>3 DEF RingStep

LEMMA SameResetCalls ==
  ASSUME Types, Types', Contents, [Next]_vars, \A fn \in Functions : ~CallInSequence(fn),
         ~TakeCall("DtoM"), NEW c, IsReset(c)
  PROVE  c \in Items(ring'["DtoM"]) <=> c \in Items(ring["DtoM"])
<1>1. IsCall(c)
  BY DEF IsReset, IsCall, Functions
<1>2. QED  BY <1>1, CallsStay, RingCalls, ProcessIs

(* The other steps leave the resets alone.                                 *)
LEMMA OtherResets ==
  ASSUME Types, Contents, [Next]_vars, ~TakeCall("DtoM"), ~Take("DtoM")
  PROVE  resets' = resets /\ UNCHANGED before["DtoM"]
<1>0. before \in [Processes -> SUBSET Buffer]
  BY FnTypes
<1>1. ASSUME NEW calls, Perform(calls), \A c \in calls : ~IsReset(c)
      PROVE  resets' = resets
  BY <1>1, PerformResets
<1>2. ASSUME NEW p \in Processes, TakeCall(p)
      PROVE  resets' = resets /\ UNCHANGED before["DtoM"]
  <2>1. PICK c : c = Head(ring[p])
    OBVIOUS
  <2>2. p # "DtoM"
    BY <1>2
  <2>3. ~IsReset(c)
    BY <1>2, <2>1, <2>2, NoResets, TakeCallIs
  <2>4. Perform(IF c.seq <= seen[p] THEN {c} ELSE {})
    BY <1>2, <2>1 DEF TakeCall
  <2>5. resets' = resets
    BY <1>1, <2>3, <2>4
  <2>6. UNCHANGED before["DtoM"]
    BY <1>0, <1>2, <2>2, ProcessIs DEF TakeCall
  <2>7. QED  BY <2>5, <2>6
<1>3. ASSUME NEW p \in Processes, Finish(p)
      PROVE  resets' = resets /\ UNCHANGED before["DtoM"]
  <2>1. Perform(Due(after[p], hand[p].seq)) /\ before' = before
    BY <1>3 DEF Finish
  <2>2. \A c \in Due(after[p], hand[p].seq) : ~IsReset(c)
    BY NoResets DEF Due
  <2>3. QED  BY <1>1, <2>1, <2>2
<1>4. ASSUME NEW p \in Processes, Take(p)
      PROVE  resets' = resets /\ UNCHANGED before["DtoM"]
  <2>1. PICK b : b = Head(ring[p])
    OBVIOUS
  <2>2. p = "PtoD"
    BY <1>4 DEF Take
  <2>3. /\ Perform(Due(before["PtoD"], b.seq) \cup {})
        /\ before' = [before EXCEPT !["PtoD"] = @ \ Due(before["PtoD"], b.seq)]
    BY <1>4, <2>1, <2>2 DEF Take
  <2>4. \A c \in Due(before["PtoD"], b.seq) \cup {} : ~IsReset(c)
    BY NoResets, ProcessIs DEF Due
  <2>5. resets' = resets
    BY <1>1, <2>3, <2>4
  <2>6. QED  BY <1>0, <2>3, <2>5, ProcessIs
<1>5. CASE CollateToParse
  <2>1. PICK s : /\ Perform(Due(before["CtoP"], s))
                 /\ before' = [before EXCEPT !["CtoP"] = @ \ Due(@, s)]
    BY <1>5 DEF CollateToParse
  <2>2. \A c \in Due(before["CtoP"], s) : ~IsReset(c)
    BY NoResets, ProcessIs DEF Due
  <2>3. resets' = resets
    BY <1>1, <2>1, <2>2
  <2>4. QED  BY <1>0, <2>1, <2>3, ProcessIs
<1>6. CASE PostManifest
  <2>1. PICK s : /\ Perform(Due(before["PostM"], s) \cup Due(after["PostM"], s))
                 /\ before' = [before EXCEPT !["PostM"] = @ \ Due(before["PostM"], s)]
    BY <1>6 DEF PostManifest
  <2>2. \A c \in Due(before["PostM"], s) \cup Due(after["PostM"], s) : ~IsReset(c)
    BY NoResets, ProcessIs DEF Due
  <2>3. resets' = resets
    BY <1>1, <2>1, <2>2
  <2>4. QED  BY <1>0, <2>1, <2>3, ProcessIs
<1>7. CASE PassToCodec \/ PassToManifestor \/ DecodeComplete \/ Manifested \/ Collate
           \/ ClientStep \/ UNCHANGED vars
           \/ \E mode \in {"block", "return", "switch"}, discard \in BOOLEAN : Launch(mode, discard)
  BY <1>7, ZenonT(60) DEF PassToCodec, PassToManifestor, DecodeComplete, Manifested, Collate, ClientStep,
       Launch, DiscardQueuedDecodes, ReleaseQueuedDecodeBuffers, MarkerNumber, MarkerInsert,
       CallInSequence, SwitchCollator, WaitForDrainCompletion, processVars, vars
<1>8. QED  BY <1>2, <1>3, <1>4, <1>5, <1>6, <1>7 DEF Next, ProcessStep

ResetsSame == resets' = resets /\ \A c : c \in Resets' <=> c \in Resets

LEMMA OtherResetsSame ==
  ASSUME Types, Types', Contents, Contents', [Next]_vars, ~TakeCall("DtoM"), ~Take("DtoM"),
         \A fn \in Functions : ~CallInSequence(fn)
  PROVE  ResetsSame
<1>1. resets' = resets /\ UNCHANGED before["DtoM"]
  BY OtherResets
<1>2. ASSUME NEW c  PROVE c \in Resets' <=> c \in Resets
  <2>1. IsReset(c) => (c \in Items(ring'["DtoM"]) <=> c \in Items(ring["DtoM"]))
    BY SameResetCalls
  <2>2. c \in Resets <=> (c \in Items(ring["DtoM"]) /\ IsReset(c)) \/ c \in before["DtoM"]
    BY ResetsAre
  <2>3. c \in Resets' <=> (c \in Items(ring'["DtoM"]) /\ IsReset(c)) \/ c \in before'["DtoM"]
    BY ResetsThenAre
  <2>4. QED  BY <1>1, <2>1, <2>2, <2>3
<1>3. QED  BY <1>1, <1>2 DEF ResetsSame

ResetCalled ==
  /\ CallInSequence("ResetTimeMapping") /\ resets' = resets
  /\ \A c : c \in Resets' <=> c \in Resets \/ c = Call("ResetTimeMapping")

LEMMA CallResets ==
  ASSUME Types, Types', Contents, Contents', NEW fn \in Functions, CallInSequence(fn)
  PROVE  IF fn = "ResetTimeMapping" THEN ResetCalled ELSE ResetsSame
<1>1. PICK b : b = Call(fn)
  OBVIOUS
<1>2. /\ b.kind = fn
      /\ \A x : x \in Items(ring["DtoM"])' <=> x \in Items(ring["DtoM"]) \/ ("DtoM" = Destination(fn) /\ x = b)
  BY <1>1, CallInSequenceIs, ProcessIs
<1>3. resets' = resets /\ UNCHANGED before["DtoM"]
  BY DEF CallInSequence
<1>4. Destination("ResetTimeMapping") = "DtoM"
  BY DEF Destination
<1>5. \A x : x \in Items(ring'["DtoM"]) <=> x \in Items(ring["DtoM"])'
  BY DEF Items
<1>6. ASSUME NEW x
      PROVE  x \in Resets' <=> x \in Resets \/ (fn = "ResetTimeMapping" /\ x = b)
  <2>1. x \in Resets <=> (x \in Items(ring["DtoM"]) /\ IsReset(x)) \/ x \in before["DtoM"]
    BY ResetsAre
  <2>2. x \in Resets' <=> (x \in Items(ring'["DtoM"]) /\ IsReset(x)) \/ x \in before'["DtoM"]
    BY ResetsThenAre
  <2>3. IsReset(b) <=> fn = "ResetTimeMapping"
    BY <1>2 DEF IsReset
  <2>4. QED  BY <1>2, <1>3, <1>4, <1>5, <2>1, <2>2, <2>3
<1>7. CASE fn = "ResetTimeMapping"
  BY <1>1, <1>3, <1>6, <1>7 DEF ResetCalled
<1>8. CASE fn # "ResetTimeMapping"
  BY <1>3, <1>6, <1>8 DEF ResetsSame
<1>9. QED  BY <1>7, <1>8

ResetMade(c) ==
  /\ c \in Resets /\ resets' = resets + 1
  /\ \A d : d \in Resets' <=> d \in Resets /\ d # c

(* A reset that is taken from the ring is made, or waits and is the only   *)
(* one that does.                                                          *)
LEMMA TakeCallResets ==
  ASSUME Types, Types', Contents, Contents', OneMarker, Agree, CallsOnce, ResetsHeld,
         [Next]_vars, TakeCall("DtoM"), NEW c, c = Head(ring["DtoM"])
  PROVE  /\ IF IsReset(c) /\ c.seq <= seen["DtoM"] THEN ResetMade(c) ELSE ResetsSame
         /\ IF IsReset(c) /\ ~(c.seq <= seen["DtoM"]) THEN before'["DtoM"] = {c}
            ELSE before'["DtoM"] = before["DtoM"]
         /\ UNCHANGED seen
<1>0. /\ ring["DtoM"] \in Seq(Buffer) /\ ring["DtoM"] # << >> /\ IsCall(c)
      /\ ring'["DtoM"] = Tail(ring["DtoM"]) /\ c \in Items(ring["DtoM"])
      /\ before \in [Processes -> SUBSET Buffer] /\ TableSize \in Nat \ {0}
  BY TakeCallIs, FnTypes, ProcessIs, StreamAssumption
<1>1. /\ Perform(IF c.seq <= seen["DtoM"] THEN {c} ELSE {})
      /\ c.kind \in Befores =>
           before' = [before EXCEPT !["DtoM"] =
                        IF c.seq <= seen["DtoM"] \/ Cardinality(@) >= TableSize THEN @
                        ELSE @ \cup {c}]
      /\ c.kind \notin Befores => before' = before
      /\ UNCHANGED seen
  BY DEF TakeCall
<1>2. \A x \in Items(ring["DtoM"]) : x = c \/ x \in Items(ring'["DtoM"])
  BY <1>0, ItemsTail
<1>3. Items(ring'["DtoM"]) \subseteq Items(ring["DtoM"])
  BY <1>0, ItemsTail
<1>4. \A d : /\ d \in Resets <=> (d \in Items(ring["DtoM"]) /\ IsReset(d)) \/ d \in before["DtoM"]
             /\ d \in Resets' <=> (d \in Items(ring'["DtoM"]) /\ IsReset(d)) \/ d \in before'["DtoM"]
  BY ResetsAre, ResetsThenAre
<1>5. CASE ~IsReset(c)
  <2>1. resets' = resets
    BY <1>1, <1>5, PerformResets
  <2>2. c.kind \notin Befores
    <3>1. Destination(c.kind) = "DtoM"
      BY <1>0, NoCalls, ProcessIs DEF Contents, ACall
    <3>2. \A k \in Befores : Destination(k) = "DtoM" => k = "ResetTimeMapping"
      BY DEF Befores, Destination
    <3>3. QED  BY <1>5, <3>1, <3>2 DEF IsReset
  <2>3. before' = before
    BY <1>1, <2>2
  <2>4. ResetsSame
    BY <1>2, <1>3, <1>4, <1>5, <2>1, <2>3 DEF ResetsSame
  <2>5. QED  BY <1>1, <1>5, <2>3, <2>4
<1>6. CASE IsReset(c)
  <2>0. c \in Resets /\ c.kind \in Befores /\ c.n \in 1 .. marked
    BY <1>0, <1>6, ResetsAre DEF IsReset, Befores
  <2>1. \A d \in before["DtoM"] : d \in Resets /\ d.n < c.n /\ d.n \in Int /\ d # c
    <3>1. TAKE d \in before["DtoM"]
    <3>2. d \in Resets /\ d \in Tables("DtoM")
      BY ResetsAre DEF Tables
    <3>3. d.kind = c.kind /\ d.n \in 1 .. marked
      BY <1>6, <3>2, ResetsAre DEF IsReset
    <3>4. d.n < c.n
      BY <1>0, <3>2, <3>3, ProcessIs DEF CallsOnce
    <3>5. QED  BY <2>0, <3>2, <3>3, <3>4
  <2>2. CASE c.seq <= seen["DtoM"]
    <3>1. resets' = resets + 1
      <4>1. Perform({c})
        BY <1>1, <2>2
      <4>2. QED  BY <1>6, <4>1, PerformResets
    <3>2. before'["DtoM"] = before["DtoM"]
      BY <1>0, <1>1, <2>0, <2>2, ProcessIs
    <3>3. c \notin Items(ring'["DtoM"])
      <4>1. CallsOrdered(ring["DtoM"])
        BY ProcessIs DEF CallsOnce
      <4>2. \A x \in Items(Tail(ring["DtoM"])) : x.kind = c.kind => c.n < x.n
        BY <1>0, <4>1, OrderedCallsTail
      <4>3. QED  BY <1>0, <2>0, <4>2
    <3>4. c \notin before["DtoM"]
      BY <2>1
    <3>5. ResetMade(c)
      BY <1>2, <1>3, <1>4, <2>0, <3>1, <3>2, <3>3, <3>4 DEF ResetMade
    <3>6. QED  BY <1>1, <1>6, <2>2, <3>2, <3>5
  <2>3. CASE ~(c.seq <= seen["DtoM"])
    <3>1. before["DtoM"] = {}
      <4>1. ASSUME NEW d \in before["DtoM"]  PROVE FALSE
        <5>1. d.n = marked
          BY <2>1, HeldReset DEF ResetsHeld
        <5>2. marked \in Int
          BY CountTypes DEF Counts
        <5>3. QED  BY <2>0, <2>1, <5>1, <5>2
      <4>2. QED  BY <4>1
    <3>2. before'["DtoM"] = {c}
      BY <1>0, <1>1, <2>0, <2>3, <3>1, FS_EmptySet, ProcessIs
    <3>3. resets' = resets
      BY <1>1, <2>3, PerformResets
    <3>4. ResetsSame
      BY <1>2, <1>3, <1>4, <1>6, <3>1, <3>2, <3>3, <1>0 DEF ResetsSame
    <3>5. QED  BY <1>1, <1>6, <2>3, <3>2, <3>4
  <2>4. QED  BY <2>2, <2>3
<1>7. QED  BY <1>5, <1>6

(* A buffer that is taken makes the reset that waits for it, if any.       *)
LEMMA TakeResets ==
  ASSUME Types, Types', Contents, Contents', InOrder(sent, Line), OneMarker, Numbers, Agree,
         CallsOnce, ResetsHeld, [Next]_vars, Take("DtoM"), NEW b, b = Head(ring["DtoM"])
  PROVE  /\ \/ ResetsSame
            \/ \E c \in before["DtoM"] : ResetMade(c) /\ IsMarker(b) /\ b.n = marked
         /\ \A c \in before'["DtoM"] : c \in before["DtoM"] /\ ~(c.seq <= b.seq)
         /\ seen' = Raised("DtoM", b.seq)
<1>0. /\ ring["DtoM"] \in Seq(Buffer) /\ ring["DtoM"] # << >> /\ ~IsCall(b)
      /\ ring'["DtoM"] = Tail(ring["DtoM"])
      /\ before \in [Processes -> SUBSET Buffer] /\ ring \in [Processes -> Seq(Buffer)]
  BY FnTypes, ProcessIs DEF Take
<1>1. PICK late \in SUBSET after["DtoM"] :
        /\ Perform(Due(before["DtoM"], b.seq) \cup late)
        /\ before' = [before EXCEPT !["DtoM"] = @ \ Due(before["DtoM"], b.seq)]
        /\ seen' = Raised("DtoM", b.seq)
  <2>1. PICK late : late = IF "DtoM" = "DtoM" /\ IsMarker(b) THEN Due(after["DtoM"], b.seq) ELSE {}
    OBVIOUS
  <2>2. late \in SUBSET after["DtoM"]
    BY <2>1 DEF Due
  <2>3. /\ Perform(Due(before["DtoM"], b.seq) \cup late)
        /\ before' = [before EXCEPT !["DtoM"] = @ \ Due(before["DtoM"], b.seq)]
        /\ seen' = Raised("DtoM", b.seq)
    BY <2>1 DEF Take
  <2>4. QED  BY <2>2, <2>3
<1>2. \A c \in late : ~IsReset(c)
  BY NoResets, ProcessIs
<1>3. before'["DtoM"] = before["DtoM"] \ Due(before["DtoM"], b.seq)
  BY <1>0, <1>1, ProcessIs
<1>4. \A c \in before'["DtoM"] : c \in before["DtoM"] /\ ~(c.seq <= b.seq)
  BY <1>3 DEF Due
<1>5. \A x : IsReset(x) => (x \in Items(ring["DtoM"]) <=> x \in Items(ring'["DtoM"]))
  <2>1. ~IsReset(b)
    BY <1>0 DEF IsReset, IsCall, Functions
  <2>2. QED  BY <1>0, <2>1, ItemsTail
<1>6. \A d : /\ d \in Resets <=> (d \in Items(ring["DtoM"]) /\ IsReset(d)) \/ d \in before["DtoM"]
             /\ d \in Resets' <=> (d \in Items(ring'["DtoM"]) /\ IsReset(d)) \/ d \in before'["DtoM"]
  BY ResetsAre, ResetsThenAre
<1>7. CASE Due(before["DtoM"], b.seq) = {}
  <2>1. resets' = resets
    BY <1>1, <1>2, <1>7, PerformResets
  <2>2. before'["DtoM"] = before["DtoM"]
    BY <1>3, <1>7
  <2>3. ResetsSame
    BY <1>5, <1>6, <2>1, <2>2 DEF ResetsSame
  <2>4. QED  BY <1>1, <1>4, <2>3
<1>8. ASSUME NEW c \in Due(before["DtoM"], b.seq)
      PROVE  \E d \in before["DtoM"] : ResetMade(d) /\ IsMarker(b) /\ b.n = marked
  <2>1. IsMarker(b) /\ b.n = marked
    BY <1>8, ResetAtMarker
  <2>2. c \in before["DtoM"] /\ c \in Resets /\ IsReset(c) /\ c \notin before'["DtoM"]
    BY <1>3, <1>8, ResetsAre DEF Due
  <2>3. \A d \in before["DtoM"] : d = c
    BY <2>2, OneReset
  <2>4. resets' = resets + 1
    <3>1. \A d \in Due(before["DtoM"], b.seq) \cup late : IsReset(d) => d = c
      BY <1>2, <2>3 DEF Due
    <3>2. QED  BY <1>1, <1>8, <2>2, <3>1, PerformResets
  <2>5. c \notin Items(ring["DtoM"])
    <3>1. CASE c \in Items(ring["DtoM"])
      <4>0. c.n \in 1 .. marked
        BY <2>2, ResetsAre
      <4>1. c \in Tables("DtoM") /\ c.kind = c.kind /\ c.n \in Int
        BY <2>2, <4>0 DEF Tables
      <4>3. c.n < c.n
        BY <3>1, <4>1, ProcessIs DEF CallsOnce
      <4>2. QED  BY <4>1, <4>3
    <3>2. QED  BY <3>1
  <2>6. ResetMade(c)
    BY <1>4, <1>5, <1>6, <2>2, <2>3, <2>4, <2>5 DEF ResetMade
  <2>7. QED  BY <2>1, <2>2, <2>6
<1>9. QED  BY <1>1, <1>4, <1>7, <1>8

(* What a step does to the resets: nothing, a call, or one of them is made. *)
RParts == InOrder(sent, Line) /\ OneMarker /\ CallsOnce /\ Numbers /\ Agree /\ ResetsHeld

LEMMA ResetSteps ==
  ASSUME Types, Types', Contents, Contents', RParts, [Next]_vars
  PROVE  \/ ResetsSame \/ ResetCalled
         \/ /\ TakeCall("DtoM") /\ ResetMade(Head(ring["DtoM"]))
            /\ Head(ring["DtoM"]).seq <= seen["DtoM"]
         \/ /\ Take("DtoM") /\ \E c \in before["DtoM"] : ResetMade(c)
            /\ IsMarker(Head(ring["DtoM"])) /\ Head(ring["DtoM"]).n = marked
<1>1. CASE TakeCall("DtoM")
  BY <1>1, TakeCallResets DEF RParts
<1>2. CASE Take("DtoM")
  BY <1>2, TakeResets DEF RParts
<1>3. CASE \E fn \in Functions : CallInSequence(fn)
  BY <1>3, CallResets
<1>4. CASE /\ ~TakeCall("DtoM") /\ ~Take("DtoM")
           /\ \A fn \in Functions : ~CallInSequence(fn)
  BY <1>4, OtherResetsSame
<1>5. QED  BY <1>1, <1>2, <1>3, <1>4

LEMMA ResetsHeldNext ==
  ASSUME Types, Types', Contents, Contents', RParts, [Next]_vars
  PROVE  ResetsHeld'
<1>0. \A c \in before["DtoM"] : c.seq > seen["DtoM"]
  BY DEF RParts, ResetsHeld
<1>a. SUFFICES ASSUME NEW c \in before'["DtoM"]  PROVE c.seq > seen'["DtoM"]
  BY DEF ResetsHeld
<1>1. CASE TakeCall("DtoM")
  <2>1. PICK b : b = Head(ring["DtoM"])
    OBVIOUS
  <2>2. /\ IF IsReset(b) /\ ~(b.seq <= seen["DtoM"]) THEN before'["DtoM"] = {b}
           ELSE before'["DtoM"] = before["DtoM"]
        /\ UNCHANGED seen
    BY <1>1, <2>1, TakeCallResets DEF RParts
  <2>3. b \in Buffer /\ seen["DtoM"] \in Int
    BY <1>1, <2>1, TakeCallIs, HeadTypes, FnTypes, ProcessIs
  <2>4. b.seq \in Int
    BY <2>3, BufferFacts
  <2>5. QED  BY <1>0, <2>2, <2>3, <2>4
<1>2. CASE Take("DtoM")
  <2>1. PICK b : b = Head(ring["DtoM"])
    OBVIOUS
  <2>2. c \in before["DtoM"] /\ ~(c.seq <= b.seq) /\ seen' = Raised("DtoM", b.seq)
    BY <1>2, <2>1, TakeResets DEF RParts
  <2>3. seen'["DtoM"] \in {b.seq, seen["DtoM"]}
    BY <2>2, FnTypes, ProcessIs DEF Raised
  <2>4. c.seq \in Int /\ b.seq \in Int
    <3>1. c \in Buffer
      BY <2>2, FnTypes, ProcessIs
    <3>2. b \in Buffer
      BY <1>2, <2>1, HeadTypes, ProcessIs DEF Take
    <3>3. QED  BY <3>1, <3>2, BufferFacts
  <2>5. QED  BY <1>0, <2>2, <2>3, <2>4
<1>3. CASE ~TakeCall("DtoM") /\ ~Take("DtoM")
  <2>1. before'["DtoM"] = before["DtoM"]
    BY <1>3, OtherResets
  <2>2. seen'["DtoM"] = seen["DtoM"]
    <3>1. ~\E b : Sees("DtoM", b)
      BY <1>3 DEF Sees
    <3>2. QED  BY <3>1, SeenBy DEF Readers
  <2>3. QED  BY <1>0, <2>1, <2>2
<1>4. QED  BY <1>1, <1>2, <1>3

(* Two places of the ring stem from two places before, in the same order,  *)
(* unless the second holds what has just come.                             *)
Stems(q, r, i, j) ==
  \E k, l \in 1 .. Len(q) : k < l /\ q[k] = r[i] /\ q[l] = r[j]

LEMMA StemsTail ==
  ASSUME NEW B, NEW q \in Seq(B), q # << >>, NEW i \in 1 .. Len(Tail(q)),
         NEW j \in 1 .. Len(Tail(q)), i < j
  PROVE  Stems(q, Tail(q), i, j)
<1>1. /\ Len(Tail(q)) = Len(q) - 1 /\ Len(q) \in Nat
      /\ \A k \in 1 .. Len(q) - 1 : Tail(q)[k] = q[k + 1]
  BY TailFacts
<1>2. i + 1 \in 1 .. Len(q) /\ j + 1 \in 1 .. Len(q) /\ i + 1 < j + 1
  BY <1>1
<1>3. QED  BY <1>1, <1>2 DEF Stems

LEMMA StemsConcat ==
  ASSUME NEW B, NEW q \in Seq(B), NEW t \in Seq(B), NEW i \in 1 .. Len(q \o t),
         NEW j \in 1 .. Len(q \o t), i < j
  PROVE  \/ Stems(q, q \o t, i, j) \/ (q \o t)[j] \in Items(t)
<1>1. /\ Len(q \o t) = Len(q) + Len(t) /\ Len(q) \in Nat /\ Len(t) \in Nat
      /\ \A k \in 1 .. Len(q) : (q \o t)[k] = q[k]
      /\ \A k \in 1 .. Len(t) : (q \o t)[Len(q) + k] = t[k]
  OBVIOUS
<1>2. CASE j <= Len(q)
  <2>1. i \in 1 .. Len(q) /\ j \in 1 .. Len(q)
    BY <1>1, <1>2
  <2>2. QED  BY <1>1, <2>1 DEF Stems
<1>3. CASE ~(j <= Len(q))
  <2>1. PICK k \in 1 .. Len(t) : j = Len(q) + k
    <3>1. j - Len(q) \in 1 .. Len(t) /\ j = Len(q) + (j - Len(q))
      BY <1>1, <1>3
    <3>2. QED  BY <3>1
  <2>2. t[k] \in Items(t)
    BY DEF Items
  <2>3. QED  BY <1>1, <2>1, <2>2
<1>4. QED  BY <1>2, <1>3

LEMMA StemsAppend ==
  ASSUME NEW B, NEW q \in Seq(B), NEW b \in B, NEW i \in 1 .. Len(Append(q, b)),
         NEW j \in 1 .. Len(Append(q, b)), i < j
  PROVE  \/ Stems(q, Append(q, b), i, j)
         \/ Append(q, b)[j] = b /\ Append(q, b)[i] \in Items(q)
<1>1. /\ Len(Append(q, b)) = Len(q) + 1 /\ Len(q) \in Nat
      /\ \A k \in 1 .. Len(q) : Append(q, b)[k] = q[k]
      /\ Append(q, b)[Len(q) + 1] = b
  BY AppendFacts
<1>2. i \in 1 .. Len(q)
  BY <1>1
<1>3. CASE j \in 1 .. Len(q)
  BY <1>1, <1>2, <1>3 DEF Stems
<1>4. CASE j = Len(q) + 1
  BY <1>1, <1>2, <1>4 DEF Items
<1>5. QED  BY <1>1, <1>3, <1>4

LEMMA RingStems ==
  ASSUME Types, Types', Contents, [Next]_vars, NEW p \in Processes,
         NEW i \in 1 .. Len(ring'[p]), NEW j \in 1 .. Len(ring'[p]), i < j,
         IsCall(ring'[p][j])
  PROVE  \/ Stems(ring[p], ring'[p], i, j)
         \/ \E fn \in Functions : /\ CallInSequence(fn) /\ Destination(fn) = p
                                  /\ ring'[p][j] = Call(fn) /\ ring'[p][i] \in Items(ring[p])
<1>0. ring[p] \in Seq(Buffer) /\ Len(ring[p]) \in Nat
  BY FnTypes
<1>1. CASE ring'[p] = ring[p]
  BY <1>0, <1>1 DEF Stems
<1>2. ASSUME NEW fn \in Functions, CallInSequence(fn), Destination(fn) = p
      PROVE  \/ Stems(ring[p], ring'[p], i, j)
             \/ ring'[p][j] = Call(fn) /\ ring'[p][i] \in Items(ring[p])
  <2>1. PICK b : b = Call(fn)
    OBVIOUS
  <2>2. b \in Buffer /\ ring'[p] = Append(ring[p], b)
    BY <1>2, <2>1, CallInSequenceIs
  <2>3. QED  BY <1>0, <2>1, <2>2, StemsAppend
<1>3. ASSUME NEW fn \in Functions, CallInSequence(fn), Destination(fn) # p
      PROVE  ring'[p] = ring[p]
  <2>1. PICK b : b = Call(fn)
    OBVIOUS
  <2>2. QED  BY <1>3, <2>1, CallInSequenceIs
<1>4. CASE \A fn \in Functions : ~CallInSequence(fn)
  <2>1. RingStep(p)
    BY <1>4, RingSteps
  <2>2. CASE ring[p] # << >> /\ ring'[p] = Tail(ring[p])
    BY <1>0, <2>2, StemsTail
  <2>3. CASE Extends(ring[p], ring'[p])
    <3>1. PICK t \in Seq(Buffer) : ring'[p] = ring[p] \o t /\ \A x \in Items(t) : ~IsCall(x)
      BY <2>3 DEF Extends
    <3>2. Stems(ring[p], ring'[p], i, j) \/ ring'[p][j] \in Items(t)
      BY <1>0, <3>1, StemsConcat
    <3>3. QED  BY <3>1, <3>2
  <2>4. QED  BY <1>1, <2>1, <2>2, <2>3 DEF RingStep
<1>5. QED  BY <1>1, <1>2, <1>3, <1>4

(* How many resets were called.                                            *)
LEMMA ClientCalls ==
  ASSUME Types, [Next]_vars, ~MarkerInsert, \A fn \in Functions : ~CallInSequence(fn)
  PROVE  pc'[Client] = "ResetTimeMapping" <=> pc[Client] = "ResetTimeMapping"
<1>0. pc \in [Processes \cup {Client} -> Places]
  BY FnTypes
<1>1. ASSUME NEW p \in Processes, NEW l, Goto(p, l)  PROVE UNCHANGED pc[Client]
  BY <1>1, ProcessIs DEF Goto
<1>2. CASE \/ \E p \in Processes : ProcessStep(p)
           \/ DecodeComplete \/ Manifested \/ Collate \/ UNCHANGED vars
  BY <1>1, <1>2, ProcessIs, ZenonT(60)
     DEF ProcessStep, TakeCall, Finish, Take, CollateToParse, PassToCodec, PassToManifestor,
         PostManifest, DecodeComplete, Manifested, Collate, Passed, processVars, vars
<1>3. CASE ClientStep
  <2>1. ASSUME NEW l, NEW m, At(Client, l), Goto(Client, m)
        PROVE  pc[Client] = l /\ pc'[Client] = m
    BY <1>0, <2>1 DEF At, Goto
  <2>2. CASE DiscardQueuedDecodes
    BY <2>1, <2>2 DEF DiscardQueuedDecodes
  <2>3. CASE ReleaseQueuedDecodeBuffers
    BY <2>1, <2>3 DEF ReleaseQueuedDecodeBuffers
  <2>4. CASE MarkerNumber
    BY <2>1, <2>4 DEF MarkerNumber
  <2>5. CASE SwitchCollator
    BY <2>1, <2>5 DEF SwitchCollator
  <2>6. CASE WaitForDrainCompletion
    BY <2>1, <2>6 DEF WaitForDrainCompletion
  <2>7. QED  BY <1>3, <2>2, <2>3, <2>4, <2>5, <2>6 DEF ClientStep
<1>4. ASSUME NEW mode \in {"block", "return", "switch"}, NEW discard \in BOOLEAN,
             Launch(mode, discard)
      PROVE  pc[Client] = "idle" /\ pc'[Client] \in {"drop", "number"}
  BY <1>0, <1>4 DEF Launch, At, Goto
<1>5. QED  BY <1>2, <1>3, <1>4 DEF Next

LEMMA MadeStep ==
  ASSUME Types, Types', Contents, Contents', [Next]_vars
  PROVE  /\ Made \in Int /\ Made <= marked
         /\ IF CallInSequence("ResetTimeMapping")
            THEN Made' = marked /\ marked = Made + 1 /\ marked' = marked /\ launched = marked
                 /\ pc[Client] = "ResetTimeMapping"
            ELSE Made' = Made
<1>0. marked \in Nat /\ marked' \in Nat /\ pc \in [Processes \cup {Client} -> Places]
  BY CountTypes, CountTypesThen, FnTypes DEF Counts
<1>1. IF MarkerInsert THEN marked' = marked + 1 ELSE marked' = marked
  BY BehindStep
<1>2. Made \in Int /\ Made <= marked
  BY <1>0 DEF Made
<1>3. ASSUME NEW fn \in Functions, CallInSequence(fn)
      PROVE  /\ pc[Client] = fn /\ pc'[Client] # "ResetTimeMapping"
             /\ marked' = marked /\ launched = marked /\ ~MarkerInsert
  <2>1. pc[Client] = fn /\ pc'[Client] = NextCall(fn)
    BY <1>0, <1>3 DEF CallInSequence, At, Goto
  <2>2. NextCall(fn) # "ResetTimeMapping"
    <3>1. drain.mode \in {"block", "return", "switch"}
      BY TypesAre DEF ClientTypes
    <3>2. QED  BY <3>1 DEF NextCall, Functions
  <2>3. ~MarkerInsert
    BY <2>1 DEF MarkerInsert, At, Functions
  <2>4. launched = marked
    <3>1. PICK b : b = Call(fn)
      OBVIOUS
    <3>2. QED  BY <1>3, <3>1, CallInSequenceIs, ProcessIs
  <2>5. QED  BY <1>1, <2>1, <2>2, <2>3, <2>4
<1>4. CASE CallInSequence("ResetTimeMapping")
  <2>1. /\ pc[Client] = "ResetTimeMapping" /\ pc'[Client] # "ResetTimeMapping"
        /\ marked' = marked /\ launched = marked
    BY <1>3, <1>4 DEF Functions
  <2>2. Made = marked - 1 /\ Made' = marked
    BY <2>1 DEF Made, At
  <2>3. QED  BY <1>0, <1>2, <1>4, <2>1, <2>2
<1>5. ASSUME NEW fn \in Functions, CallInSequence(fn), ~CallInSequence("ResetTimeMapping")
      PROVE  Made' = Made
  <2>1. pc[Client] # "ResetTimeMapping"
    BY <1>3, <1>5
  <2>2. QED  BY <1>3, <1>5, <2>1 DEF Made, At
<1>6. CASE MarkerInsert
  <2>1. pc[Client] = "insert" /\ pc'[Client] = "ResetTimeMapping"
    BY <1>0, <1>6 DEF MarkerInsert, At, Goto
  <2>2. Made = marked /\ Made' = marked' - 1
    BY <2>1 DEF Made, At
  <2>3. Made' = Made
    BY <1>0, <1>1, <1>6, <2>2
  <2>4. ~CallInSequence("ResetTimeMapping")
    BY <2>1 DEF CallInSequence, At
  <2>5. QED  BY <1>2, <2>3, <2>4
<1>7. CASE ~MarkerInsert /\ \A fn \in Functions : ~CallInSequence(fn)
  <2>1. pc'[Client] = "ResetTimeMapping" <=> pc[Client] = "ResetTimeMapping"
    BY <1>7, ClientCalls
  <2>2. Made' = Made
    BY <1>1, <1>7, <2>1 DEF Made, At
  <2>3. ~CallInSequence("ResetTimeMapping")
    BY <1>7 DEF Functions
  <2>4. QED  BY <1>2, <2>2, <2>3
<1>8. QED  BY <1>2, <1>4, <1>5, <1>6, <1>7

(* What is injected before a reset is called comes before it in the ring.  *)
LEMMA ResetsQueuedNext ==
  ASSUME Types, Types', Contents, Contents', StillFrames, ResetsQueued, [Next]_vars
  PROVE  ResetsQueued'
<1>0. ring["DtoM"] \in Seq(Buffer) /\ ring'["DtoM"] \in Seq(Buffer)
  BY FnTypes, ProcessIs DEF Types
<1>1. SUFFICES ASSUME NEW i \in 1 .. Len(ring'["DtoM"]), NEW j \in 1 .. Len(ring'["DtoM"]), i < j,
                      IsFrame(ring'["DtoM"][i]), IsReset(ring'["DtoM"][j])
               PROVE  sent'[ring'["DtoM"][i].n].drains < ring'["DtoM"][j].n
  BY DEF ResetsQueued, Behind
<1>2. PICK f : f = ring'["DtoM"][i]
  OBVIOUS
<1>3. PICK c : c = ring'["DtoM"][j]
  OBVIOUS
<1>4. IsCall(c) /\ IsFrame(f) /\ IsReset(c)
  BY <1>1, <1>2, <1>3 DEF IsReset, IsCall, Functions
<1>5. \A b \in Items(ring["DtoM"]) : IsFrame(b) => AFrame(b)
  BY ProcessIs, Kinds DEF Contents, AMarker, ACall
<1>6. \A b : AFrame(b) => sent'[b.n].drains = Behind(b)
  BY BehindStep
<1>7. CASE Stems(ring["DtoM"], ring'["DtoM"], i, j)
  <2>1. PICK k, l \in 1 .. Len(ring["DtoM"]) : k < l /\ ring["DtoM"][k] = f /\ ring["DtoM"][l] = c
    BY <1>2, <1>3, <1>7 DEF Stems
  <2>2. Behind(f) < c.n
    BY <1>4, <2>1 DEF ResetsQueued
  <2>3. AFrame(f)
    BY <1>0, <1>4, <1>5, <2>1, ItemsAre
  <2>4. QED  BY <1>2, <1>3, <1>6, <2>2, <2>3
<1>8. ASSUME NEW fn \in Functions, CallInSequence(fn), c = Call(fn), f \in Items(ring["DtoM"])
      PROVE  sent'[f.n].drains < c.n
  <2>1. AFrame(f) /\ f.n \in 1 .. Len(sent)
    BY <1>4, <1>5, <1>8 DEF AFrame
  <2>2. c.n = launched
    BY <1>8, CallInSequenceIs, ProcessIs
  <2>3. pc[Client] # "idle"
    BY <1>8 DEF CallInSequence, At, Functions
  <2>4. Behind(f) < launched
    BY <2>1, <2>3 DEF StillFrames, Behind
  <2>5. QED  BY <1>6, <2>1, <2>2, <2>4
<1>9. QED  BY <1>1, <1>2, <1>3, <1>4, <1>7, <1>8, RingStems, ProcessIs

LEMMA HandStep ==
  ASSUME Types, [Next]_vars, pc'["DtoM"] = "pass"
  PROVE  \/ Take("DtoM") /\ hand'["DtoM"] = Head(ring["DtoM"])
         \/ pc["DtoM"] = "pass" /\ hand'["DtoM"] = hand["DtoM"]
<1>0. /\ pc \in [Processes \cup {Client} -> Places] /\ hand \in [Processes -> Buffer]
      /\ Client # "DtoM"
  BY FnTypes, ProcessIs
<1>1. ASSUME NEW t, NEW l, Goto(t, l), t # "DtoM"  PROVE pc'["DtoM"] = pc["DtoM"]
  BY <1>1, <1>0, ProcessIs DEF Goto
<1>2. ASSUME NEW l, Goto("DtoM", l)  PROVE l = "pass"
  BY <1>0, <1>2, ProcessIs DEF Goto
<1>3. ASSUME NEW p \in Processes, Take(p)
      PROVE  \/ Take("DtoM") /\ hand'["DtoM"] = Head(ring["DtoM"])
             \/ pc["DtoM"] = "pass" /\ hand'["DtoM"] = hand["DtoM"]
  <2>1. Goto(p, "pass") /\ hand' = [hand EXCEPT ![p] = Head(ring[p])]
    BY <1>3 DEF Take
  <2>2. CASE p = "DtoM"
    BY <1>0, <1>3, <2>1, <2>2, ProcessIs
  <2>3. CASE p # "DtoM"
    BY <1>0, <1>1, <2>1, <2>3, ProcessIs
  <2>4. QED  BY <2>2, <2>3
<1>4. ASSUME NEW p \in Processes, Finish(p)
      PROVE  pc["DtoM"] = "pass" /\ hand'["DtoM"] = hand["DtoM"]
  <2>1. Goto(p, "idle") /\ hand' = [hand EXCEPT ![p] = Nothing]
    BY <1>4 DEF Finish
  <2>2. p # "DtoM"
    BY <1>2, <2>1
  <2>3. QED  BY <1>0, <1>1, <2>1, <2>2, ProcessIs
<1>5. ASSUME NEW p \in Readers, NEW b, Passed(p, b)
      PROVE  pc["DtoM"] = "pass" /\ hand'["DtoM"] = hand["DtoM"]
  <2>1. /\ Goto(p, IF Left(p, b) THEN "finish" ELSE "idle")
        /\ hand' = [hand EXCEPT ![p] = IF Left(p, b) THEN b ELSE Nothing]
    BY <1>5 DEF Passed
  <2>2. p # "DtoM"
    BY <1>2, <2>1
  <2>3. p \in Processes
    BY PlaceIs
  <2>4. QED  BY <1>0, <1>1, <2>1, <2>2, <2>3, ProcessIs
<1>6. CASE CollateToParse \/ PassToCodec \/ PassToManifestor
  <2>1. \E p \in Readers : \E b : Passed(p, b)
    BY <1>6 DEF CollateToParse, PassToCodec, PassToManifestor, Readers
  <2>2. QED  BY <1>5, <2>1
<1>7. CASE \/ \E p \in Processes : TakeCall(p)
           \/ PostManifest \/ DecodeComplete \/ Manifested \/ Collate \/ UNCHANGED vars
  <2>1. UNCHANGED <<pc, hand>>
    BY <1>7, ZenonT(60) DEF TakeCall, PostManifest, DecodeComplete, Manifested, Collate, processVars, vars
  <2>2. QED  BY <2>1
<1>8. CASE ClientStep \/ \E mode \in {"block", "return", "switch"}, discard \in BOOLEAN : Launch(mode, discard)
  <2>1. UNCHANGED hand /\ \E l : Goto(Client, l)
    BY <1>8, ZenonT(60) DEF ClientStep, Launch, DiscardQueuedDecodes, ReleaseQueuedDecodeBuffers,
         MarkerNumber, MarkerInsert, CallInSequence, SwitchCollator, WaitForDrainCompletion
  <2>2. QED  BY <1>0, <1>1, <2>1
<1>9. QED  BY <1>3, <1>4, <1>6, <1>7, <1>8 DEF Next, ProcessStep

(* What waits to be reset, or is taken and is not, has been behind fewer   *)
(* markers.                                                                *)
LEMMA ResetBehind ==
  ASSUME Types, Types', Contents, Contents', RParts, ResetsQueued, [Next]_vars, Take("DtoM"),
         NEW b, b = Head(ring["DtoM"]), IsFrame(b), NEW c \in Resets'
  PROVE  Behind(b) < c.n
<1>0. /\ ring["DtoM"] \in Seq(Buffer) /\ ring["DtoM"] # << >>
      /\ ring'["DtoM"] = Tail(ring["DtoM"])
      /\ InOrder(sent, Line) /\ OneMarker /\ CallsOnce /\ Numbers /\ Agree /\ ResetsHeld
  BY FnTypes, ProcessIs DEF Take, RParts
<1>1. (c \in Items(ring'["DtoM"]) /\ IsReset(c)) \/ c \in before'["DtoM"]
  BY ResetsThenAre
<1>2. CASE c \in Items(ring'["DtoM"]) /\ IsReset(c)
  <2>1. PICK k \in 1 .. Len(Tail(ring["DtoM"])) : Tail(ring["DtoM"])[k] = c
    BY <1>0, <1>2 DEF Items
  <2>2. /\ k + 1 \in 1 .. Len(ring["DtoM"]) /\ 1 \in 1 .. Len(ring["DtoM"]) /\ 1 < k + 1
        /\ ring["DtoM"][k + 1] = c /\ ring["DtoM"][1] = b
    BY <1>0, <2>1, TailFacts
  <2>3. QED  BY <1>2, <2>2 DEF ResetsQueued
<1>3. CASE c \in before'["DtoM"]
  <2>1. c \in before["DtoM"]
    BY <1>0, <1>3, TakeResets
  <2>2. c \in Resets /\ c.seq > seen["DtoM"]
    BY <1>0, <2>1, ResetsAre DEF ResetsHeld
  <2>3. c.n = marked
    BY <1>0, <2>2, HeldReset
  <2>4. PICK m \in From(Line, 2) : IsMarker(m) /\ m.n = marked
    BY <1>0, <2>2, HeldReset
  <2>5. Line[2] # << >> /\ Line[2][1] = b /\ Line \in Lines
    BY TakeLine, LinesNow, PlaceIs, ProcessIs
  <2>6. m # b
    BY <2>4, Kinds
  <2>7. PICK h \in Parts : h >= 2 /\ m \in Items(Line[h])
    BY <2>4, FromPart
  <2>8. Precedes(sent, b, m)
    <3>1. CASE h = 2
      <4>1. m \in Items(Tail(Line[2]))
        BY <2>5, <2>6, <2>7, <3>1, LineFacts, PartIs, ItemsTail
      <4>2. QED  BY ONLY <1>0, <2>5, <4>1, HeadPrecedes, PartIs
    <3>2. CASE h # 2
      <4>1. h > 2
        BY <2>7, <3>2, PartsAreNumbers
      <4>2. QED  BY ONLY <1>0, <2>5, <2>7, <4>1, HeadPrecedes, PartIs
    <3>3. QED  BY <3>1, <3>2
  <2>9. QED  BY <2>3, <2>4, <2>8 DEF Precedes, Behind
<1>4. QED  BY <1>1, <1>2, <1>3

LEMMA ResetsAheadNext ==
  ASSUME Types, Types', Contents, Contents', RParts, StillFrames, ResetsQueued, ResetsAhead,
         [Next]_vars
  PROVE  ResetsAhead'
<1>1. SUFFICES ASSUME pc'["DtoM"] = "pass", IsFrame(hand'["DtoM"]), NEW c \in Resets'
               PROVE  sent'[hand'["DtoM"].n].drains < c.n
  BY DEF ResetsAhead, Behind, At
<1>2. \A f : AFrame(f) => sent'[f.n].drains = Behind(f)
  BY BehindStep
<1>3. CASE Take("DtoM") /\ hand'["DtoM"] = Head(ring["DtoM"])
  <2>1. PICK b : b = Head(ring["DtoM"])
    OBVIOUS
  <2>2. Behind(b) < c.n
    BY <1>1, <1>3, <2>1, ResetBehind
  <2>3. AFrame(b)
    BY <1>1, <1>3, <2>1, TakeLine, ProcessIs, Kinds DEF AMarker
  <2>4. QED  BY <1>2, <1>3, <2>1, <2>2, <2>3
<1>4. CASE pc["DtoM"] = "pass" /\ hand'["DtoM"] = hand["DtoM"]
  <2>0. PICK f : f = hand["DtoM"]
    OBVIOUS
  <2>1. AFrame(f)
    BY <1>1, <1>4, <2>0, Kinds DEF Contents, At, AMarker
  <2>2. \A d \in Resets : Behind(f) < d.n
    BY <1>1, <1>4, <2>0 DEF ResetsAhead, At
  <2>3. c \in Resets \/ (ResetCalled /\ c = Call("ResetTimeMapping"))
    BY <1>1, ResetSteps DEF ResetsSame, ResetCalled, ResetMade
  <2>4. CASE ResetCalled /\ c = Call("ResetTimeMapping")
    <3>0. CallInSequence("ResetTimeMapping") /\ "ResetTimeMapping" \in Functions
      BY <2>4 DEF ResetCalled, Functions
    <3>1. c.n = launched
      BY <2>4, <3>0, CallInSequenceIs, ProcessIs
    <3>2. pc[Client] # "idle"
      BY <3>0 DEF CallInSequence, At
    <3>3. Behind(f) < launched
      BY <2>1, <3>2 DEF StillFrames, Behind, AFrame
    <3>4. QED  BY <1>2, <1>4, <2>0, <2>1, <3>1, <3>3
  <2>5. QED  BY <1>2, <1>4, <2>0, <2>1, <2>2, <2>3, <2>4
<1>5. QED  BY <1>1, <1>3, <1>4, HandStep

LEMMA FramesFrom ==
  ASSUME Types, Types', Contents, InOrder(sent, Line), Discards, OneMarker, [Next]_vars,
         NEW h \in Reads, NEW f \in From(Line', h), IsFrame(f)
  PROVE  \/ \E g \in From(Line, h) : IsFrame(g) /\ g.n = f.n
         \/ Collate /\ f.n = Len(sent) + 1
<1>0. Line \in Lines /\ Line' \in Lines /\ h \in Parts /\ 6 \in Parts
  BY LinesNow, PartIs, ReadsAreParts
<1>1. ASSUME NEW k, NEW g, Kept(Line, Line', k, g)
      PROVE  \E y \in From(Line, h) : IsFrame(y) /\ y.n = f.n
  BY <1>0, <1>1 DEF Kept
<1>2. CASE PassToManifestor
  BY <1>1, <1>2, KeptPassToManifestor
<1>3. CASE Queuing
  BY <1>1, <1>3, QueuingKept DEF OneMarker
<1>4. CASE MarkerInsert
  <2>1. PICK b : b = Marker(launched)
    OBVIOUS
  <2>2. Adds(Line, Line', 6, b) /\ IsMarker(b)
    BY <1>4, <2>1, MarkerInsertLine
  <2>3. f # b
    BY <2>2, Kinds
  <2>4. f \in From(Line, h)
    BY <1>0, <2>2, <2>3, FromAdded
  <2>5. QED  BY <2>4
<1>5. CASE Collate
  <2>1. PICK b : b = Frame(Len(sent) + 1)
    OBVIOUS
  <2>2. Adds(Line, Line', 6, b) /\ b.n = Len(sent) + 1
    BY <1>5, <2>1, CollateLine
  <2>3. f \in From(Line, h) \/ f = b
    BY <1>0, <2>2, FromAdded
  <2>4. QED  BY <1>5, <2>2, <2>3
<1>6. QED  BY <1>2, <1>3, <1>4, <1>5, StepsAre

LEMMA FramesStay ==
  ASSUME Types, Types', Contents, InOrder(sent, Line), Discards, OneMarker, [Next]_vars,
         NEW f \in From(Line', 1), IsFrame(f)
  PROVE  \/ \E g \in From(Line, 1) : IsFrame(g) /\ g.n = f.n
         \/ Collate /\ f.n = Len(sent) + 1
<1>1. 1 \in Reads
  BY DEF Reads
<1>2. QED  BY <1>1, FramesFrom

FramesBehind(r) == \A f \in From(Line, 1) : IsFrame(f) => Behind(f) >= r

LEMMA FramesBehindNext ==
  ASSUME Types, Types', Contents, InOrder(sent, Line), Discards, OneMarker, [Next]_vars,
         NEW r, FramesBehind(r), r <= marked, NEW f \in From(Line', 1), IsFrame(f)
  PROVE  sent'[f.n].drains >= r
<1>1. CASE Collate /\ f.n = Len(sent) + 1
  <2>1. sent'[f.n] = [drains |-> marked, collator |-> collator]
    <3>1. PICK b : b = Frame(Len(sent) + 1)
      OBVIOUS
    <3>2. QED  BY <1>1, <3>1, CollateLine
  <2>2. QED  BY <2>1
<1>2. ASSUME NEW g \in From(Line, 1), IsFrame(g), g.n = f.n
      PROVE  sent'[f.n].drains >= r
  <2>1. AFrame(g)
    BY <1>2, LineHolds, Kinds DEF AMarker
  <2>2. sent'[g.n].drains = Behind(g)
    BY <2>1, BehindStep
  <2>3. QED  BY <1>2, <2>2 DEF FramesBehind
<1>3. QED  BY <1>1, <1>2, FramesStay

(* The resets are made in the order in which they were called.             *)
Firstly(c) == \A d \in Resets : d = c \/ c.n < d.n

LEMMA HeadFirst ==
  ASSUME Types, Contents, RParts, TakeCall("DtoM"), NEW c, c = Head(ring["DtoM"]), c \in Resets
  PROVE  Firstly(c)
<1>0. /\ ring["DtoM"] \in Seq(Buffer) /\ ring["DtoM"] # << >>
      /\ IsCall(c) /\ c \in Items(ring["DtoM"]) /\ IsReset(c) /\ c.n \in 1 .. marked
  BY TakeCallIs, FnTypes, ResetsAre, ProcessIs
<1>1. SUFFICES ASSUME NEW d \in Resets  PROVE d = c \/ c.n < d.n
  BY DEF Firstly
<1>2. d.kind = c.kind /\ d.n \in 1 .. marked
  BY <1>0, ResetsAre DEF IsReset
<1>3. CASE d \in Items(ring["DtoM"])
  <2>1. CallsOrdered(ring["DtoM"])
    BY ProcessIs DEF RParts, CallsOnce
  <2>2. d = c \/ d \in Items(Tail(ring["DtoM"]))
    BY <1>0, <1>3, ItemsTail
  <2>3. QED  BY <1>0, <1>2, <2>1, <2>2, OrderedCallsTail
<1>4. CASE d \in before["DtoM"]
  <2>1. d.n < c.n
    BY <1>0, <1>2, <1>4, ProcessIs DEF RParts, CallsOnce, Tables
  <2>2. d.n = marked
    BY <1>4, HeldReset DEF RParts, ResetsHeld
  <2>3. marked \in Int
    BY CountTypes DEF Counts
  <2>4. QED  BY <1>0, <2>1, <2>2, <2>3
<1>5. QED  BY <1>3, <1>4, ResetsAre

LEMMA WaitsFirst ==
  ASSUME Types, Contents, RParts, NEW c \in before["DtoM"]
  PROVE  Firstly(c)
<1>0. /\ OneMarker /\ Agree /\ ResetsHeld /\ CallsOnce /\ c \in Resets /\ IsReset(c)
      /\ c \in Tables("DtoM")
  BY ResetsAre DEF RParts, Tables
<1>1. SUFFICES ASSUME NEW d \in Resets  PROVE d = c \/ c.n < d.n
  BY DEF Firstly
<1>2. CASE d \in before["DtoM"]
  BY <1>0, <1>2, OneReset
<1>3. CASE d \in Items(ring["DtoM"])
  <2>1. d.kind = c.kind
    BY <1>0, ResetsAre DEF IsReset
  <2>2. QED  BY <1>0, <1>3, <2>1, ProcessIs DEF CallsOnce
<1>4. QED  BY <1>2, <1>3, ResetsAre

LEMMA NextReset ==
  ASSUME Types, Contents, CallsOnce, ResetsCounted, NEW c \in Resets, Firstly(c)
  PROVE  c.n = resets + 1 /\ c.n <= Made /\ resets \in Nat /\ Made \in Int
<1>0. /\ c.n \in 1 .. marked /\ c.n > resets /\ resets \in Nat /\ marked \in Nat /\ IsReset(c)
      /\ c \in Pending("DtoM")
  BY ResetsAre, TypesAre, CountTypes DEF ResetsCounted, SwitchTypes, Counts, Resets
<1>1. c.n <= Made /\ Made \in Int
  <2>1. CASE At(Client, "ResetTimeMapping")
    <3>1. launched = marked
      BY <2>1 DEF Contents, At, Entering
    <3>2. c.n # launched
      BY <1>0, <2>1, ProcessIs DEF CallsOnce, At, IsReset, Afterwards
    <3>3. QED  BY <1>0, <2>1, <3>1, <3>2 DEF Made
  <2>2. CASE ~At(Client, "ResetTimeMapping")
    BY <1>0, <2>2 DEF Made
  <2>3. QED  BY <2>1, <2>2
<1>2. resets + 1 \in resets + 1 .. Made
  BY <1>0, <1>1
<1>3. PICK d \in Resets : d.n = resets + 1
  BY <1>2 DEF ResetsCounted
<1>4. d = c \/ c.n < d.n
  BY <1>3 DEF Firstly
<1>5. QED  BY <1>0, <1>1, <1>3, <1>4

(* When a reset is made, the frames before its marker are gone.            *)
LEMMA CallFrames ==
  ASSUME Types, Contents, RParts, TakeCall("DtoM"), NEW c, c = Head(ring["DtoM"]), c \in Resets,
         c.seq <= seen["DtoM"]
  PROVE  FramesBehind(c.n)
<1>0. OneMarker /\ Agree /\ marked \in Nat /\ c.n \in 1 .. marked /\ <<c.n, c.seq>> \in Known
  BY ResetsAre, CountTypes DEF RParts, Counts
<1>1. Line[1] = << >>
  BY LineIs DEF TakeCall, At, InHand
<1>2. SUFFICES ASSUME NEW f \in From(Line, 1), IsFrame(f)  PROVE Behind(f) >= c.n
  BY DEF FramesBehind
<1>3. Behind(f) >= marked - 1 /\ (SomeMarker(1) \/ Behind(f) = marked) /\ Behind(f) \in Int
  <2>1. AFrame(f)
    BY <1>2, LineHolds, Kinds DEF AMarker
  <2>2. Behind(f) \in Nat
    BY <2>1, BehindIs
  <2>3. QED  BY <1>0, <1>2, <2>2 DEF OneMarker, LineBehind
<1>4. CASE c.n = marked
  <2>1. ~SomeMarker(2)
    <3>1. Met(<<c.n, c.seq>>)
      BY <1>0 DEF Agree
    <3>2. seen["DtoM"] >= c.seq
      <4>1. c.seq \in Int /\ seen["DtoM"] \in Int
        BY ResetsAre, FnTypes, ProcessIs
      <4>2. QED  BY <4>1
    <3>3. QED  BY <1>4, <3>1, <3>2, PlaceIs DEF Met, Readers
  <2>2. ~SomeMarker(1)
    <3>1. ASSUME NEW m \in From(Line, 1), IsMarker(m)  PROVE m \in From(Line, 2)
      <4>1. PICK h \in Parts : h >= 1 /\ m \in Items(Line[h])
        BY FromPart
      <4>2. h # 1
        BY <1>1, <4>1 DEF Items
      <4>3. h >= 2
        BY <4>1, <4>2, PartsAreNumbers
      <4>4. QED  BY <4>1, <4>3, FromPart
    <3>2. QED  BY <2>1, <3>1 DEF SomeMarker
  <2>3. QED  BY <1>0, <1>3, <1>4, <2>2
<1>5. CASE c.n # marked
  BY <1>0, <1>3, <1>5
<1>6. QED  BY <1>4, <1>5

LEMMA MarkerFrames ==
  ASSUME Types, Types', Contents, RParts, Take("DtoM"), NEW b, b = Head(ring["DtoM"]),
         IsMarker(b)
  PROVE  FramesBehind(b.n)
<1>0. InOrder(sent, Line) /\ Line[2] # << >> /\ Line[2][1] = b /\ Line \in Lines /\ Line[1] = << >>
  BY TakeLine, LinesNow, PlaceIs, ProcessIs DEF RParts
<1>1. SUFFICES ASSUME NEW f \in From(Line, 1), IsFrame(f)  PROVE Behind(f) >= b.n
  BY DEF FramesBehind
<1>2. PICK h \in Parts : h >= 1 /\ f \in Items(Line[h])
  BY FromPart
<1>3. h # 1 /\ f # b
  BY <1>0, <1>1, <1>2, Kinds DEF Items
<1>4. Precedes(sent, b, f)
  <2>1. CASE h = 2
    <3>1. f \in Items(Tail(Line[2]))
      BY <1>0, <1>2, <1>3, <2>1, LineFacts, PartIs, ItemsTail
    <3>2. QED  BY ONLY <1>0, <3>1, HeadPrecedes, PartIs
  <2>2. CASE h # 2
    <3>1. h > 2
      BY <1>2, <1>3, <2>2, PartsAreNumbers
    <3>2. QED  BY ONLY <1>0, <1>2, <3>1, HeadPrecedes, PartIs
  <2>3. QED  BY <2>1, <2>2
<1>5. b.n <= Behind(f)
  BY <1>1, <1>4 DEF Precedes, Behind
<1>6. b.n \in Int /\ Behind(f) \in Int
  <2>1. AFrame(f) /\ b \in Buffer
    BY <1>1, LineHolds, Kinds, TakeLine, ProcessIs DEF AMarker
  <2>2. QED  BY <2>1, BehindIs, BufferFacts
<1>7. QED  BY <1>5, <1>6

LEMMA ResetsCountedNext ==
  ASSUME Types, Types', Contents, Contents', Discards, RParts, StillFrames, ResetsCounted,
         [Next]_vars
  PROVE  ResetsCounted'
<1>0. /\ resets \in Nat /\ resets' \in Nat /\ Made \in Int /\ Made <= marked /\ marked \in Nat
      /\ InOrder(sent, Line) /\ OneMarker /\ CallsOnce
      /\ resets <= Made /\ FramesBehind(resets)
      /\ \A c \in Resets : c.n > resets /\ c.n \in Int
      /\ \A n \in resets + 1 .. Made : \E c \in Resets : c.n = n
  <2>1. \A c \in Resets : c.n \in 1 .. marked
    BY ResetsAre
  <2>2. resets \in Nat /\ resets' \in Nat /\ marked \in Nat
    BY TypesAre, TypesThenAre, CountTypes DEF SwitchTypes, Counts
  <2>3. QED  BY <2>1, <2>2, MadeStep DEF RParts, ResetsCounted, FramesBehind
<1>1. SUFFICES /\ resets' <= Made'
               /\ \A c \in Resets' : c.n > resets'
               /\ \A n \in resets' + 1 .. Made' : \E c \in Resets' : c.n = n
               /\ resets' <= marked /\ FramesBehind(resets')
  <2>1. ASSUME NEW f \in From(Line', 1), IsFrame(f), resets' <= marked, FramesBehind(resets')
        PROVE  sent'[f.n].drains >= resets'
    BY <1>0, <2>1, FramesBehindNext
  <2>2. QED  BY <2>1 DEF ResetsCounted, Behind, From, Items
<1>2. CASE CallInSequence("ResetTimeMapping")
  <2>1. ResetCalled
    BY <1>2, CallResets DEF Functions
  <2>2. PICK c : c = Call("ResetTimeMapping")
    OBVIOUS
  <2>3. c.n = launched
    BY <1>2, <2>2, CallInSequenceIs, ProcessIs DEF Functions
  <2>4. Made' = marked /\ marked = Made + 1 /\ launched = marked
    BY <1>2, MadeStep
  <2>5. resets' = resets /\ \A d : d \in Resets' <=> d \in Resets \/ d = c
    BY <2>1, <2>2 DEF ResetCalled
  <2>6. ASSUME NEW n \in resets' + 1 .. Made'  PROVE \E d \in Resets' : d.n = n
    <3>1. n \in resets + 1 .. Made \/ n = marked
      BY <1>0, <2>4, <2>5, <2>6
    <3>2. QED  BY <1>0, <2>3, <2>4, <2>5, <3>1
  <2>7. \A d \in Resets' : d.n > resets'
    BY <1>0, <2>3, <2>4, <2>5
  <2>8. resets' <= Made' /\ resets' <= marked /\ FramesBehind(resets')
    BY <1>0, <2>4, <2>5
  <2>9. QED  BY <2>6, <2>7, <2>8
<1>3. ASSUME ~CallInSequence("ResetTimeMapping"), ResetsSame
      PROVE  /\ resets' <= Made'
             /\ \A c \in Resets' : c.n > resets'
             /\ \A n \in resets' + 1 .. Made' : \E c \in Resets' : c.n = n
             /\ resets' <= marked /\ FramesBehind(resets')
  <2>1. Made' = Made
    BY <1>3, MadeStep
  <2>2. QED  BY <1>0, <1>3, <2>1 DEF ResetsSame
<1>4. ASSUME ~CallInSequence("ResetTimeMapping"), NEW c, ResetMade(c), Firstly(c),
             FramesBehind(c.n)
      PROVE  /\ resets' <= Made'
             /\ \A d \in Resets' : d.n > resets'
             /\ \A n \in resets' + 1 .. Made' : \E d \in Resets' : d.n = n
             /\ resets' <= marked /\ FramesBehind(resets')
  <2>1. Made' = Made
    BY <1>4, MadeStep
  <2>2. /\ c \in Resets /\ resets' = resets + 1
        /\ \A d : d \in Resets' <=> d \in Resets /\ d # c
    BY <1>4 DEF ResetMade
  <2>3. c.n = resets + 1 /\ c.n <= Made
    BY <1>0, <1>4, <2>2, NextReset
  <2>4. \A d \in Resets' : d.n > resets'
    BY <1>0, <1>4, <2>2, <2>3 DEF Firstly
  <2>5. ASSUME NEW n \in resets' + 1 .. Made'  PROVE \E d \in Resets' : d.n = n
    <3>1. n \in resets + 1 .. Made /\ n # resets + 1
      BY <1>0, <2>1, <2>2, <2>5
    <3>2. PICK d \in Resets : d.n = n
      BY <1>0, <3>1
    <3>3. d # c
      BY <2>3, <3>1, <3>2
    <3>4. QED  BY <2>2, <3>2, <3>3
  <2>6. QED  BY <1>0, <1>4, <2>1, <2>2, <2>3, <2>4, <2>5
<1>5. CASE ~CallInSequence("ResetTimeMapping")
  <2>1. CASE TakeCall("DtoM") /\ ResetMade(Head(ring["DtoM"])) /\ Head(ring["DtoM"]).seq <= seen["DtoM"]
    <3>1. PICK c : c = Head(ring["DtoM"])
      OBVIOUS
    <3>2. c \in Resets /\ ResetMade(c)
      BY <2>1, <3>1 DEF ResetMade
    <3>3. Firstly(c) /\ FramesBehind(c.n)
      BY <2>1, <3>1, <3>2, HeadFirst, CallFrames
    <3>4. QED  BY <1>4, <1>5, <3>2, <3>3
  <2>2. ASSUME Take("DtoM"), NEW c \in before["DtoM"], ResetMade(c),
               IsMarker(Head(ring["DtoM"])), Head(ring["DtoM"]).n = marked
        PROVE  Firstly(c) /\ FramesBehind(c.n)
    <3>1. c.n = marked
      BY <2>2, ResetsAre, HeldReset DEF RParts, ResetsHeld
    <3>2. FramesBehind(marked)
      BY <2>2, MarkerFrames
    <3>3. QED  BY <2>2, <3>1, <3>2, WaitsFirst
  <2>3. ~ResetCalled
    BY <1>5 DEF ResetCalled
  <2>4. QED  BY <1>3, <1>4, <1>5, <2>1, <2>2, <2>3, ResetSteps
<1>6. QED  BY <1>2, <1>5

LEMMA RInit ==
  ASSUME StreamAssumption, Init  PROVE RInv
<1>1. PInv
  BY PInit
<1>2. Types /\ Contents
  BY <1>1 DEF PInv, KInv
<1>3. /\ before["DtoM"] = {} /\ ring["DtoM"] = << >> /\ pc["DtoM"] = "idle"
      /\ pc[Client] = "idle" /\ resets = 0 /\ marked = 0
  BY ProcessIs DEF Init
<1>4. Resets = {}
  BY <1>2, <1>3, ResetsAre DEF Items
<1>5. \A f \in From(Line, 1) : IsFrame(f) => Behind(f) >= 0
  <2>1. TAKE f \in From(Line, 1)
  <2>2. IsFrame(f) => AFrame(f)
    BY <1>2, LineHolds, Kinds DEF AMarker
  <2>3. AFrame(f) => Behind(f) \in Nat
    BY <1>2, BehindIs
  <2>4. QED  BY <2>2, <2>3
<1>6. Made = 0
  BY <1>3 DEF Made, At
<1>7. StillFrames /\ ResetsHeld /\ ResetsQueued /\ ResetsAhead
  BY <1>3 DEF StillFrames, ResetsHeld, ResetsQueued, ResetsAhead, At
<1>8. ResetsCounted
  BY <1>3, <1>4, <1>5, <1>6 DEF ResetsCounted
<1>9. QED  BY <1>1, <1>7, <1>8 DEF RInv

LEMMA RNext ==
  ASSUME StreamAssumption, Patient, Still, RInv, [Next]_vars  PROVE RInv'
<1>1. PInv /\ PInv'
  BY PNext DEF RInv
<1>2. Types /\ Types' /\ Contents /\ Contents' /\ Discards /\ InOrder(sent, Line) /\ OneMarker
      /\ CallsOnce /\ Numbers /\ Agree
  BY <1>1 DEF PInv, KInv
<1>3. StillFrames /\ ResetsHeld /\ ResetsQueued /\ ResetsAhead /\ ResetsCounted
  BY DEF RInv
<1>4. RParts
  BY <1>2, <1>3 DEF RParts
<1>5. StillFrames'
  BY <1>2, <1>3, StillFramesNext
<1>6. ResetsHeld'
  BY <1>2, <1>4, ResetsHeldNext
<1>7. ResetsQueued'
  BY <1>2, <1>3, ResetsQueuedNext
<1>8. ResetsAhead'
  BY <1>2, <1>3, <1>4, ResetsAheadNext
<1>9. ResetsCounted'
  BY <1>2, <1>3, <1>4, ResetsCountedNext
<1>10. QED  BY <1>1, <1>5, <1>6, <1>7, <1>8, <1>9 DEF RInv

LEMMA RAlways == Patient /\ Still => (Spec => []RInv)
<1>1. Init => RInv
  BY RInit, StreamAssumption
<1>2. Patient /\ Still /\ RInv /\ [Next]_vars => RInv'
  BY RNext, StreamAssumption
<1>3. CASE Patient /\ Still
  <2>1. RInv /\ [Next]_vars => RInv'
    BY <1>2, <1>3
  <2>2. QED  BY <1>1, <2>1, PTL DEF Spec
<1>4. QED  BY <1>3

LEMMA ResetsAreOnTime ==
  ASSUME RInv, pc["DtoM"] = "pass", IsFrame(hand["DtoM"])
  PROVE  resets = sent[hand["DtoM"].n].drains
<1>0. /\ Types /\ Contents /\ StillFrames /\ ResetsAhead /\ ResetsCounted
      /\ resets \in Nat /\ marked \in Nat
  <2>1. Types /\ Contents /\ StillFrames /\ ResetsAhead /\ ResetsCounted
    BY DEF RInv, PInv, KInv
  <2>2. QED  BY <2>1, TypesAre, CountTypes DEF SwitchTypes, Counts
<1>1. PICK f : f = hand["DtoM"]
  OBVIOUS
<1>2. AFrame(f) /\ Behind(f) \in 0 .. marked
  <2>1. AFrame(f)
    BY <1>0, <1>1, Kinds DEF Contents, At, AMarker
  <2>2. QED  BY <1>0, <2>1, BehindIs
<1>3. Behind(f) >= resets
  <2>1. Line[1] = <<f>>
    BY <1>1, LineIs DEF InHand, At
  <2>2. f \in Items(Line[1])
    BY <2>1 DEF Items
  <2>3. f \in From(Line, 1)
    BY <2>2, FromPart, PartIs
  <2>4. QED  BY <1>0, <1>1, <2>3 DEF ResetsCounted
<1>4. CASE Behind(f) > resets
  <2>1. Behind(f) <= Made /\ Made \in Int
    <3>1. CASE At(Client, "ResetTimeMapping")
      <4>1. launched = marked
        BY <1>0, <3>1 DEF Contents, At, Entering
      <4>2. Behind(f) < launched
        BY <1>0, <1>2, <3>1 DEF StillFrames, At, AFrame, Behind
      <4>3. QED  BY <1>0, <1>2, <3>1, <4>1, <4>2 DEF Made
    <3>2. CASE ~At(Client, "ResetTimeMapping")
      BY <1>0, <1>2, <3>2 DEF Made
    <3>3. QED  BY <3>1, <3>2
  <2>2. Behind(f) \in resets + 1 .. Made
    BY <1>0, <1>2, <1>4, <2>1
  <2>3. PICK c \in Resets : c.n = Behind(f)
    BY <1>0, <2>2 DEF ResetsCounted
  <2>4. Behind(f) < c.n
    BY <1>0, <1>1 DEF ResetsAhead, At
  <2>5. QED  BY <1>2, <2>3, <2>4
<1>5. QED  BY <1>0, <1>1, <1>2, <1>3, <1>4 DEF Behind

(* A patient client that stops injecting while it drains: every frame that *)
(* gets to the manifestor is timed by a mapping that was reset by each     *)
(* drain before the frame and by none after it, though the call and the    *)
(* marker come to the process by different ways (OutputTimerFnReset-       *)
(* TimeMapping, player_playback.cpp:1060).                                 *)
THEOREM ResetsInTime == Patient /\ Still => (Spec => []ResetOnTime)
<1>1. RInv => ResetOnTime
  BY ResetsAreOnTime DEF ResetOnTime, At
<1>2. QED  BY <1>1, RAlways, PTL

-----------------------------------------------------------------------------
(* A switch, if nothing is injected during it: the calls that switch the   *)
(* parser and the codec keep their place among what was injected.          *)
Switched == {"CtoP", "PtoD"}
Early(b, c) == /\ IsFrame(b) => Behind(b) < c.n
               /\ IsMarker(b) => b.n <= c.n
Beneath(Q, h) == UNION {Items(Q[k]) : k \in {i \in Parts : i < h}}
Beyond(p) == Beneath(Line, Place(p)) \cup Queued

CallingSeen == Calling => seen["PostM"] <= drain.seq
Tabled ==
  \A p \in Switched : \A c \in after[p] :
    c.seq > seen[p] \/ (~At(p, "idle") /\ c.seq <= hand[p].seq)
CallsInTime ==
  \A p \in Switched : \A c \in Pending(p) :
    /\ \A b \in Beyond(p) : Early(b, c)
    /\ seen["PostM"] <= c.seq
CallsInPlace ==
  \A p \in Switched : \A i, j \in 1 .. Len(ring[p]) :
    i < j /\ IsCall(ring[p][j]) => Early(ring[p][i], ring[p][j])

SwitchCalls == {c \in Pending("CtoP") \cup Pending("PtoD") \cup Pending("PostM") :
                  c.kind # "SetDrained"}
Switching == pc[Client] \in {"SwitchFrameParser", "SwitchCodec",
                             "SwitchOutputTimer", "SwitchComplete"}
Draining == pc[Client] \in Entering \cup {"ResetTimeMapping", "SetDrained", "collator"}

PartOf(p) == IF p = "CtoP" THEN parser ELSE codec
Until(p)  == {"SwitchFrameParser"} \cup (IF p = "CtoP" THEN {} ELSE {"SwitchCodec"})
Lags(p)   == Pending(p) # {} \/ pc[Client] \in Until(p)

SwitchFlag  == /\ ~switching => SwitchCalls = {} /\ ~Switching
               /\ drain.mode = "switch" /\ Draining => ~switching
               /\ At(Client, "collator") \/ Switching => drain.mode = "switch"
SwitchNumber == /\ \A c, d \in SwitchCalls : c.n = d.n
                /\ Switching => \A c \in SwitchCalls : c.n = launched
SwitchParts == \A p \in Switched : PartOf(p) = IF Lags(p) THEN collator - 1 ELSE collator

SInv == /\ PInv /\ StillFrames
        /\ CallingSeen /\ Tabled /\ CallsInTime /\ CallsInPlace
        /\ SwitchFlag /\ SwitchNumber /\ SwitchParts
-----------------------------------------------------------------------------

LEMMA Destinations ==
  \A fn \in Functions :
    /\ Destination(fn) = "CtoP" <=> fn = "SwitchFrameParser"
    /\ Destination(fn) = "PtoD" <=> fn = "SwitchCodec"
    /\ Destination(fn) = "PostM" <=> fn \in {"SetDrained", "SwitchComplete"}
BY DEF Destination, Functions

LEMMA SwitchedIs ==
  ASSUME NEW p \in Switched
  PROVE  /\ p \in Processes /\ p \in Readers /\ p # "PostM" /\ p # "DtoM"
         /\ Place(p) \in Parts /\ Place(p) \in Int /\ Place(p) > 1 /\ Line[Place(p)] = ring[p]
BY PlaceIs, ProcessIs DEF Switched, Readers

LEMMA SwitchCallIs ==
  ASSUME Types, Contents, NEW p \in Switched, NEW c \in Pending(p)
  PROVE  /\ c \in Buffer /\ IsCall(c) /\ c.n \in 1 .. marked /\ c.n <= launched /\ c.seq \in Int
         /\ <<c.n, c.seq>> \in Known
         /\ p = "CtoP" => c.kind = "SwitchFrameParser"
         /\ p = "PtoD" => c.kind = "SwitchCodec"
         /\ c \in Items(ring[p]) \/ c \in after[p]
         /\ c \in SwitchCalls
<1>1. /\ c \in Buffer /\ IsCall(c) /\ c.n \in 1 .. marked /\ c.n <= launched
      /\ Destination(c.kind) = p /\ p \in Processes
  BY PendingAre, SwitchedIs
<1>2. c.kind \in Functions
  BY <1>1 DEF IsCall
<1>3. /\ p = "CtoP" => c.kind = "SwitchFrameParser"
      /\ p = "PtoD" => c.kind = "SwitchCodec"
  BY <1>1, <1>2, Destinations
<1>4. Base(c) = c.seq
  BY <1>3 DEF Base, Switched
<1>5. <<c.n, c.seq>> \in Known
  BY <1>1, <1>4, KnownIs
<1>6. c.seq \in Int
  BY <1>1, BufferFacts
<1>7. c \in Items(ring[p]) \/ c \in after[p]
  <2>1. ASSUME c \in before[p]  PROVE FALSE
    <3>1. c.kind \in Befores
      BY <1>1, <2>1 DEF Contents
    <3>2. QED  BY <1>3, <3>1 DEF Befores, Switched
  <2>2. QED  BY <2>1 DEF Pending, Tables
<1>8. c \in SwitchCalls
  BY <1>3 DEF SwitchCalls, Switched
<1>9. QED  BY <1>1, <1>3, <1>5, <1>6, <1>7, <1>8

LEMMA AfterIsPending ==
  ASSUME NEW p  PROVE after[p] \subseteq Pending(p)
BY DEF Pending, Tables

(* What a process sees is no later than the calls that wait in it.         *)
LEMMA SeenEarly ==
  ASSUME Types, Types', Contents, InOrder(sent, Line), OneMarker, Numbers, Agree, CallsInPlace,
         Tabled, NEW p \in Switched, NEW b, Sees(p, b), NEW c \in Pending(p),
         NEW q, q = Line[Place(p)], c \in Items(Tail(q)) \/ c \in after[p]
  PROVE  Early(b, c)
<1>0. /\ p \in Readers /\ p \in Processes /\ q # << >> /\ q = ring[p] /\ q \in Seq(Buffer)
      /\ Line \in Lines /\ Place(p) \in Parts
  BY SwitchedIs, SeesIs, FnTypes, LineTyped
<1>1. PICK h : h = q[1]
  OBVIOUS
<1>2. b.kind = h.kind /\ b.n = h.n
  <2>1. b.kind = Line[Place(p)][1].kind /\ b.n = Line[Place(p)][1].n
    BY <1>0, SeesIs
  <2>2. QED  BY <1>1, <2>1
<1>3. SUFFICES Early(h, c)
  BY <1>2 DEF Early, IsFrame, IsMarker, Behind
<1>4. CASE c \in Items(Tail(q))
  <2>1. PICK k \in 1 .. Len(Tail(q)) : Tail(q)[k] = c
    BY <1>4 DEF Items
  <2>2. /\ k + 1 \in 1 .. Len(q) /\ 1 \in 1 .. Len(q) /\ 1 < k + 1 /\ q[k + 1] = c
    BY <1>0, <2>1, TailFacts
  <2>3. IsCall(c)
    BY SwitchCallIs
  <2>4. QED  BY <1>0, <1>1, <2>2, <2>3 DEF CallsInPlace
<1>5. CASE c \in after[p]
  <2>1. At(p, "idle")
    BY DEF Sees, CollateToParse, Take
  <2>2. c.seq > seen[p]
    BY <1>5, <2>1 DEF Tabled
  <2>3. <<c.n, c.seq>> \in Known /\ c.seq \in Int /\ seen[p] \in Int
    BY <1>0, SwitchCallIs, FnTypes
  <2>4. MarkerFrom(Place(p), c.n)
    BY <1>0, <2>2, <2>3 DEF Agree, Ahead
  <2>5. PICK m \in From(Line, Place(p)) : IsMarker(m) /\ m.n = c.n
    BY <2>4 DEF MarkerFrom, MarkerIn
  <2>6. PICK j \in Parts : j >= Place(p) /\ m \in Items(Line[j])
    BY <2>5, FromPart
  <2>7. m = h \/ Precedes(sent, h, m)
    <3>1. CASE j = Place(p)
      <4>1. m = h \/ m \in Items(Tail(Line[Place(p)]))
        BY <1>0, <1>1, <2>6, <3>1, ItemsTail, TailFacts
      <4>2. QED  BY ONLY <1>0, <1>1, <4>1, HeadPrecedes, InOrder(sent, Line), q = Line[Place(p)]
    <3>2. CASE j # Place(p)
      <4>1. j > Place(p)
        BY <1>0, <2>6, <3>2, PartsAreNumbers
      <4>2. QED  BY ONLY <1>0, <1>1, <2>6, <4>1, HeadPrecedes, InOrder(sent, Line), q = Line[Place(p)]
    <3>3. QED  BY <3>1, <3>2
  <2>8. IsFrame(h) => Behind(h) < c.n
    BY <2>5, <2>7, Kinds DEF Precedes, Behind
  <2>9. IsMarker(h) => h.n <= c.n
    <3>1. h.n \in Int /\ c.n \in Int
      <4>1. h \in Buffer /\ c \in Buffer
        BY <1>0, <1>1, TailFacts, SwitchCallIs
      <4>2. QED  BY <4>1, BufferFacts
    <3>2. IsMarker(h) => h.n = c.n \/ h.n < c.n
      BY <2>5, <2>7 DEF Precedes
    <3>3. QED  BY <3>1, <3>2
  <2>10. QED  BY <2>8, <2>9 DEF Early
<1>6. QED  BY <1>4, <1>5

(* What comes to the last process before a call is made has no later       *)
(* number than the call.                                                   *)
LEMMA EarlyNumber ==
  ASSUME Types, Contents, OneMarker, Agree, NEW b \in Items(ring["PostM"]), ~IsCall(b),
         NEW k \in Known, IsFrame(b) => Behind(b) < k[1], IsMarker(b) => b.n <= k[1]
  PROVE  b.seq <= k[2] /\ b.seq \in Int /\ k[2] \in Int
<1>0. /\ k[2] \in Int /\ k[1] \in 1 .. marked /\ b \in Buffer /\ ring["PostM"] \in Seq(Buffer)
      /\ marked \in Nat
  <2>1. k[2] \in Int /\ k[1] \in 1 .. marked
    BY KnownTyped DEF Agree
  <2>2. ring["PostM"] \in Seq(Buffer)
    BY FnTypes, ProcessIs
  <2>3. b \in Buffer
    BY <2>2, ItemsAre
  <2>4. marked \in Nat
    BY CountTypes DEF Counts
  <2>5. QED  BY <2>1, <2>2, <2>3, <2>4
<1>1. b.seq \in Int /\ b.n \in Int
  BY <1>0, BufferFacts
<1>2. AFrame(b) \/ AMarker(b)
  BY ProcessIs DEF Contents, ACall
<1>3. CASE AFrame(b)
  <2>1. b \in Numbered
    BY <1>3 DEF Numbered, Queued, AFrame
  <2>2. Behind(b) < k[1] /\ Behind(b) \in Nat
    BY <1>3, BehindIs DEF AFrame
  <2>3. \/ Behind(b) >= k[1] /\ b.seq > k[2]
        \/ Behind(b) < k[1] /\ b.seq < k[2]
    BY <2>1 DEF Agree, Apart
  <2>4. k[1] \in Int
    BY <1>0
  <2>5. b.seq < k[2]
    BY ONLY <2>2, <2>3, <2>4
  <2>6. QED  BY <1>0, <1>1, <2>5
<1>4. CASE AMarker(b)
  <2>1. b \in Markers
    BY <1>4 DEF Markers, AMarker
  <2>2. b.n = marked
    BY <2>1 DEF OneMarker, MarkersLast
  <2>3. b.n <= k[1]
    BY <1>4 DEF AMarker
  <2>4. b.n = k[1]
    BY <1>0, <2>2, <2>3
  <2>5. b.seq = k[2]
    BY <1>4, <2>4, MarkerNumbered DEF AMarker
  <2>6. QED  BY <1>0, <1>1, <2>5
<1>5. QED  BY <1>2, <1>3, <1>4

LEMMA PostSeen ==
  ASSUME Types, [Next]_vars, seen'["PostM"] # seen["PostM"]
  PROVE  /\ PostManifest /\ ring["PostM"] # << >>
         /\ Head(ring["PostM"]) \in Items(ring["PostM"]) /\ ~IsCall(Head(ring["PostM"]))
         /\ seen'["PostM"] = Head(ring["PostM"]).seq
<1>0. seen \in [Processes -> Int] /\ "PostM" \in Processes
  BY FnTypes, ProcessIs
<1>1. ASSUME NEW p \in Processes, p # "PostM", NEW s, seen' = Raised(p, s)  PROVE FALSE
  BY <1>0, <1>1 DEF Raised
<1>2. PostManifest
  <2>1. ~UNCHANGED seen
    OBVIOUS
  <2>2. CASE \/ \E p \in Processes : TakeCall(p) \/ Finish(p)
             \/ PassToCodec \/ PassToManifestor
             \/ DecodeComplete \/ Manifested \/ Collate \/ UNCHANGED vars
             \/ \E mode \in {"block", "return", "switch"}, discard \in BOOLEAN :
                  Launch(mode, discard)
             \/ ClientStep
    BY <2>1, <2>2, ZenonT(60)
     DEF TakeCall, Finish, PassToCodec, PassToManifestor, DecodeComplete, Manifested, Collate,
         Launch, ClientStep, DiscardQueuedDecodes, ReleaseQueuedDecodeBuffers, MarkerNumber,
         MarkerInsert, CallInSequence, SwitchCollator, WaitForDrainCompletion, processVars, vars
  <2>3. ASSUME NEW p \in Processes, Take(p)  PROVE FALSE
    <3>1. p # "PostM" /\ \E s : seen' = Raised(p, s)
      BY <2>3 DEF Take
    <3>2. QED  BY <1>1, <3>1
  <2>4. CASE CollateToParse
    <3>1. \E s : seen' = Raised("CtoP", s)
      BY <2>4 DEF CollateToParse
    <3>2. QED  BY <1>1, <3>1, ProcessIs
  <2>5. QED  BY <2>2, <2>3, <2>4 DEF Next, ProcessStep
<1>3. /\ ring["PostM"] # << >> /\ ~IsCall(Head(ring["PostM"]))
      /\ seen' = Raised("PostM", Head(ring["PostM"]).seq)
  BY <1>2 DEF PostManifest
<1>4. seen'["PostM"] = Head(ring["PostM"]).seq
  BY <1>0, <1>3 DEF Raised
<1>5. QED  BY <1>0, <1>2, <1>3, <1>4, HeadTypes

LEMMA CallingSeenNext ==
  ASSUME Types, Types', Contents, OneMarker, Numbers, Agree, StillFrames, CallingSeen,
         [Next]_vars
  PROVE  CallingSeen'
<1>1. SUFFICES ASSUME Calling'  PROVE seen'["PostM"] <= drain'.seq
  BY DEF CallingSeen
<1>2. CASE ~MarkerInsert
  <2>1. Calling /\ launched' = launched /\ drain' = drain
    BY <1>1, <1>2, CallingStep
  <2>2. CASE seen'["PostM"] = seen["PostM"]
    BY <2>1, <2>2 DEF CallingSeen
  <2>3. CASE seen'["PostM"] # seen["PostM"]
    <3>1. PICK b : b = Head(ring["PostM"])
      OBVIOUS
    <3>2. b \in Items(ring["PostM"]) /\ ~IsCall(b) /\ seen'["PostM"] = b.seq
      BY <2>3, <3>1, PostSeen
    <3>3. PICK k : k = <<launched, drain.seq>>
      OBVIOUS
    <3>4. k \in Known /\ k[1] = launched /\ k[2] = drain.seq
      BY <2>1, <3>3, KnownIs
    <3>5. pc[Client] # "idle" /\ launched = marked
      BY <2>1 DEF Calling, Contents
    <3>6. AFrame(b) \/ AMarker(b)
      BY <3>2, ProcessIs DEF Contents, ACall
    <3>7. IsFrame(b) => Behind(b) < k[1]
      BY <3>4, <3>5, <3>6, Kinds DEF StillFrames, Behind, AFrame, AMarker
    <3>8. IsMarker(b) => b.n <= k[1]
      <4>1. marked \in Nat
        BY CountTypes DEF Counts
      <4>2. QED  BY <3>4, <3>5, <3>6, <4>1, Kinds DEF AFrame, AMarker
    <3>9. b.seq <= k[2]
      BY <3>2, <3>4, <3>7, <3>8, EarlyNumber
    <3>10. QED  BY <2>1, <3>2, <3>4, <3>9
  <2>4. QED  BY <2>2, <2>3
<1>3. CASE MarkerInsert
  <2>1. UNCHANGED <<seen, drain>> /\ At(Client, "insert")
    BY <1>3 DEF MarkerInsert
  <2>2. Room(drain.seq) /\ seen["PostM"] < next
    BY <2>1, ProcessIs DEF Numbers
  <2>3. drain.seq >= next + MaxFrames - Len(sent)
    BY <2>2 DEF Room
  <2>4. /\ next \in Int /\ MaxFrames \in Int /\ Len(sent) \in Int /\ Len(sent) <= MaxFrames
        /\ drain.seq \in Int /\ seen["PostM"] \in Int
    BY StreamAssumption, ProcessIs DEF Types
  <2>5. QED  BY ONLY <2>1, <2>2, <2>3, <2>4
<1>4. QED  BY <1>2, <1>3

(* What a step does to the place, the buffer and the tables of a process.  *)
Own(p) == <<pc[p], hand[p], seen[p], before[p], after[p]>>

LEMMA OtherProcess ==
  ASSUME Types, NEW q \in Processes, ProcessStep(q), NEW p \in Processes, p # q
  PROVE  UNCHANGED Own(p)
<1>0. /\ pc \in [Processes \cup {Client} -> Places] /\ hand \in [Processes -> Buffer]
      /\ seen \in [Processes -> Int]
      /\ before \in [Processes -> SUBSET Buffer] /\ after \in [Processes -> SUBSET Buffer]
  BY FnTypes
<1>1. ASSUME NEW l, Goto(q, l)  PROVE UNCHANGED pc[p]
  BY <1>0, <1>1 DEF Goto
<1>2. CASE TakeCall(q)
  BY <1>0, <1>2 DEF TakeCall, Own
<1>3. CASE Finish(q)
  BY <1>0, <1>1, <1>3 DEF Finish, Own
<1>4. CASE Take(q)
  <2>1. UNCHANGED <<hand[p], before[p], after[p]>>
    BY <1>0, <1>4 DEF Take
  <2>2. UNCHANGED seen[p]
    BY <1>0, <1>4 DEF Take, Raised
  <2>3. UNCHANGED pc[p]
    BY <1>1, <1>4 DEF Take
  <2>4. QED  BY <2>1, <2>2, <2>3 DEF Own
<1>5. CASE q = "CtoP" /\ CollateToParse
  <2>1. UNCHANGED <<before[p], after[p]>>
    BY <1>0, <1>5 DEF CollateToParse
  <2>2. UNCHANGED seen[p]
    BY <1>0, <1>5 DEF CollateToParse, Raised
  <2>3. UNCHANGED <<pc[p], hand[p]>>
    BY <1>0, <1>1, <1>5 DEF CollateToParse, Passed
  <2>4. QED  BY <2>1, <2>2, <2>3 DEF Own
<1>6. CASE (q = "PtoD" /\ PassToCodec) \/ (q = "DtoM" /\ PassToManifestor)
  <2>1. UNCHANGED <<seen, before, after>>
    BY <1>6 DEF PassToCodec, PassToManifestor
  <2>2. \E b : Passed(q, b)
    BY <1>6 DEF PassToCodec, PassToManifestor
  <2>3. UNCHANGED <<pc[p], hand[p]>>
    BY <1>0, <1>1, <2>2 DEF Passed
  <2>4. QED  BY <2>1, <2>3 DEF Own
<1>7. CASE q = "PostM" /\ PostManifest
  <2>1. UNCHANGED <<pc, hand>>
    BY <1>7 DEF PostManifest
  <2>2. UNCHANGED <<before[p], after[p]>>
    BY <1>0, <1>7 DEF PostManifest
  <2>3. UNCHANGED seen[p]
    BY <1>0, <1>7 DEF PostManifest, Raised
  <2>4. QED  BY <2>1, <2>2, <2>3 DEF Own
<1>8. QED  BY <1>2, <1>3, <1>4, <1>5, <1>6, <1>7 DEF ProcessStep

LEMMA SwitchedSteps ==
  ASSUME Types, [Next]_vars, NEW p \in Switched
  PROVE  \/ TakeCall(p) \/ Finish(p) \/ \E b : Sees(p, b)
         \/ p = "PtoD" /\ PassToCodec
         \/ UNCHANGED Own(p)
<1>0. p \in Processes /\ p # "PostM" /\ p # "DtoM"
  BY SwitchedIs
<1>1. ASSUME NEW q \in Processes, ProcessStep(q)
      PROVE  \/ TakeCall(p) \/ Finish(p) \/ \E b : Sees(p, b)
             \/ p = "PtoD" /\ PassToCodec
             \/ UNCHANGED Own(p)
  <2>1. CASE q # p
    BY <1>0, <1>1, <2>1, OtherProcess
  <2>2. CASE q = p
    BY <1>0, <1>1, <2>2 DEF ProcessStep, Sees
  <2>3. QED  BY <2>1, <2>2
<1>2. CASE DecodeComplete \/ Manifested \/ Collate \/ UNCHANGED vars
  BY <1>2 DEF DecodeComplete, Manifested, Collate, processVars, vars, Own
<1>3. CASE \/ \E mode \in {"block", "return", "switch"}, discard \in BOOLEAN :
                Launch(mode, discard)
           \/ ClientStep
  <2>1. UNCHANGED <<hand, seen, before, after>>
    BY <1>3, ZenonT(60)
     DEF Launch, ClientStep, DiscardQueuedDecodes, ReleaseQueuedDecodeBuffers, MarkerNumber,
         MarkerInsert, CallInSequence, SwitchCollator, WaitForDrainCompletion
  <2>2. \E l : Goto(Client, l)
    BY <1>3, ZenonT(60)
     DEF Launch, ClientStep, DiscardQueuedDecodes, ReleaseQueuedDecodeBuffers, MarkerNumber,
         MarkerInsert, CallInSequence, SwitchCollator, WaitForDrainCompletion
  <2>3. UNCHANGED pc[p]
    BY <1>0, <2>2, FnTypes, ProcessIs DEF Goto
  <2>4. QED  BY <2>1, <2>3 DEF Own
<1>4. QED  BY <1>1, <1>2, <1>3 DEF Next

(* A process that sees a buffer keeps it until it has made the calls that  *)
(* are due after it.                                                       *)
LEMMA SeesThen ==
  ASSUME Types, Contents, NEW p \in Switched, NEW b, Sees(p, b)
  PROVE  /\ pc[p] = "idle" /\ after'[p] = after[p] /\ seen'[p] = (IF b.seq > seen[p] THEN b.seq ELSE seen[p])
         /\ Due(after[p], b.seq) # {} => pc'[p] # "idle" /\ hand'[p] = b
<1>0. /\ p \in Processes /\ p # "DtoM" /\ p \in Processes \cup {Client}
      /\ pc \in [Processes \cup {Client} -> Places] /\ hand \in [Processes -> Buffer]
      /\ seen \in [Processes -> Int] /\ after \in [Processes -> SUBSET Buffer]
  BY SwitchedIs, FnTypes
<1>1. CASE CollateToParse /\ p = "CtoP" /\ b = Parsed
  <2>1. /\ pc[p] = "idle" /\ after'[p] = after[p] /\ seen' = Raised(p, b.seq) /\ Passed(p, b)
    BY <1>1 DEF CollateToParse, Parsed, At
  <2>2. ASSUME Due(after[p], b.seq) # {}
        PROVE  pc'[p] # "idle" /\ hand'[p] = b
    <3>1. Left(p, b)
      BY <2>2 DEF Left
    <3>2. QED  BY <1>0, <2>1, <3>1 DEF Passed, Goto
  <2>3. QED  BY <1>0, <2>1, <2>2 DEF Raised
<1>2. CASE Take(p) /\ b = Head(ring[p])
  <2>1. /\ pc[p] = "idle" /\ seen' = Raised(p, b.seq) /\ Goto(p, "pass")
        /\ hand' = [hand EXCEPT ![p] = b]
    BY <1>2 DEF Take, At
  <2>2. after'[p] = after[p]
    BY <1>0, <1>2 DEF Take
  <2>3. pc'[p] = "pass" /\ hand'[p] = b
    BY <1>0, <2>1 DEF Goto
  <2>4. QED  BY <1>0, <2>1, <2>2, <2>3 DEF Raised
<1>3. QED  BY <1>1, <1>2 DEF Sees

LEMMA TakeCallThen ==
  ASSUME Types, NEW p \in Processes, TakeCall(p), NEW c, c = Head(ring[p])
  PROVE  /\ UNCHANGED <<pc, hand, seen>> /\ pc[p] = "idle"
         /\ c.seq <= seen[p] =>
              UNCHANGED <<before, after>> /\ Perform({c})
         /\ ~(c.seq <= seen[p]) =>
              /\ Perform({})
              /\ before'[p] \subseteq before[p] \cup {c} /\ after'[p] \subseteq after[p] \cup {c}
              /\ before[p] \subseteq before'[p] /\ after[p] \subseteq after'[p]
              /\ c.kind \notin Befores /\ after[p] = {} => after'[p] = {c}
<1>0. /\ before \in [Processes -> SUBSET Buffer] /\ after \in [Processes -> SUBSET Buffer]
      /\ before = [q \in Processes |-> before[q]] /\ after = [q \in Processes |-> after[q]]
  BY FnTypes
<1>1. UNCHANGED <<pc, hand, seen>> /\ pc[p] = "idle"
  BY DEF TakeCall, At
<1>2. ASSUME c.seq <= seen[p]
      PROVE  UNCHANGED <<before, after>> /\ Perform({c})
  <2>1. Perform({c})
    BY <1>2 DEF TakeCall
  <2>2. /\ \/ before' = [before EXCEPT ![p] = @] /\ UNCHANGED after
           \/ after' = [after EXCEPT ![p] = @] /\ UNCHANGED before
    BY <1>2 DEF TakeCall
  <2>3. QED  BY <1>0, <2>1, <2>2
<1>3. ASSUME ~(c.seq <= seen[p])
      PROVE  /\ Perform({})
             /\ before'[p] \subseteq before[p] \cup {c} /\ after'[p] \subseteq after[p] \cup {c}
             /\ before[p] \subseteq before'[p] /\ after[p] \subseteq after'[p]
             /\ c.kind \notin Befores /\ after[p] = {} => after'[p] = {c}
  <2>1. Perform({})
    BY <1>3 DEF TakeCall
  <2>2. CASE c.kind \in Befores
    <3>1. /\ before' = [before EXCEPT ![p] =
               IF Cardinality(@) >= TableSize THEN @ ELSE @ \cup {c}]
          /\ UNCHANGED after
      BY <1>3, <2>2 DEF TakeCall
    <3>2. QED  BY <1>0, <2>1, <2>2, <3>1
  <2>3. CASE c.kind \notin Befores
    <3>1. /\ after' = [after EXCEPT ![p] =
               IF Cardinality(@) >= TableSize THEN @ ELSE @ \cup {c}]
          /\ UNCHANGED before
      BY <1>3, <2>3 DEF TakeCall
    <3>2. after[p] = {} => after'[p] = {c}
      <4>1. Cardinality({}) = 0
        BY FS_EmptySet
      <4>2. ~(0 >= TableSize)
        BY StreamAssumption
      <4>3. QED  BY <1>0, <3>1, <4>1, <4>2
    <3>3. QED  BY <1>0, <2>1, <3>1, <3>2
  <2>4. QED  BY <2>2, <2>3
<1>4. QED  BY <1>1, <1>2, <1>3

LEMMA FinishThen ==
  ASSUME Types, NEW p \in Processes, Finish(p)
  PROVE  /\ pc[p] = "finish" /\ UNCHANGED <<seen, before, ring>>
         /\ after'[p] = after[p] \ Due(after[p], hand[p].seq)
         /\ Perform(Due(after[p], hand[p].seq))
  BY FnTypes DEF Finish, At

LEMMA TabledNext ==
  ASSUME Types, Types', Contents, Contents', Numbers, Tabled, [Next]_vars
  PROVE  Tabled'
<1>1. SUFFICES ASSUME NEW p \in Switched, NEW c \in after'[p]
               PROVE  c.seq > seen'[p] \/ (pc'[p] # "idle" /\ c.seq <= hand'[p].seq)
  BY DEF Tabled, At
<1>2. p \in Processes /\ p # "DtoM"
  BY SwitchedIs
<1>3. \A d \in after[p] : d.seq > seen[p] \/ (pc[p] # "idle" /\ d.seq <= hand[p].seq)
  BY DEF Tabled, At
<1>4. c \in Buffer /\ c.seq \in Int /\ seen[p] \in Int
  <2>1. after' \in [Processes -> SUBSET Buffer]
    BY DEF Types
  <2>2. QED  BY <1>2, <2>1, FnTypes, BufferFacts
<1>5. CASE TakeCall(p)
  <2>1. PICK h : h = Head(ring[p])
    OBVIOUS
  <2>2. CASE h.seq <= seen[p]
    BY <1>2, <1>3, <1>5, <2>1, <2>2, TakeCallThen
  <2>3. CASE ~(h.seq <= seen[p])
    <3>1. /\ c \in after[p] \/ c = h
          /\ seen' = seen /\ pc[p] = "idle"
      BY <1>2, <1>5, <2>1, <2>3, TakeCallThen
    <3>2. QED  BY <1>3, <1>4, <2>3, <3>1
  <2>4. QED  BY <2>2, <2>3
<1>6. CASE Finish(p)
  <2>1. c \in after[p] /\ ~(c.seq <= hand[p].seq) /\ seen' = seen
    BY <1>2, <1>6, FinishThen DEF Due
  <2>2. QED  BY <1>3, <2>1
<1>7. ASSUME NEW b, Sees(p, b)
      PROVE  c.seq > seen'[p] \/ (pc'[p] # "idle" /\ c.seq <= hand'[p].seq)
  <2>1. /\ pc[p] = "idle" /\ c \in after[p]
        /\ seen'[p] = (IF b.seq > seen[p] THEN b.seq ELSE seen[p])
        /\ Due(after[p], b.seq) # {} => pc'[p] # "idle" /\ hand'[p] = b
    BY <1>7, SeesThen
  <2>2. CASE c.seq <= b.seq
    BY <2>1, <2>2 DEF Due
  <2>3. CASE ~(c.seq <= b.seq)
    <3>1. b.seq \in Int
      BY <1>7, SwitchedIs, SeesIs
    <3>2. c.seq > seen[p]
      BY <1>3, <2>1
    <3>3. QED  BY <1>4, <2>1, <2>3, <3>1, <3>2
  <2>4. QED  BY <2>2, <2>3
<1>8. CASE p = "PtoD" /\ PassToCodec
  <2>1. /\ UNCHANGED <<seen, after>> /\ Passed(p, hand[p])
    BY <1>8 DEF PassToCodec
  <2>2. CASE c.seq > seen[p]
    BY <2>1, <2>2
  <2>3. CASE c.seq <= hand[p].seq
    <3>1. Left(p, hand[p])
      BY <2>1, <2>3 DEF Left, Due
    <3>2. pc'[p] = "finish" /\ hand'[p] = hand[p]
      BY <1>2, <2>1, <3>1, FnTypes DEF Passed, Goto
    <3>3. QED  BY <2>3, <3>2
  <2>4. QED  BY <1>3, <2>1, <2>2, <2>3
<1>9. CASE UNCHANGED Own(p)
  BY <1>3, <1>9 DEF Own
<1>10. QED  BY <1>5, <1>6, <1>7, <1>8, <1>9, SwitchedSteps

(* What is beyond a process was there before, or has just been seen by it. *)
Alike(x, y) == x.kind = y.kind /\ x.n = y.n

LEMMA BeneathIs ==
  ASSUME NEW Q, NEW h, NEW x
  PROVE  x \in Beneath(Q, h) <=> \E k \in Parts : k < h /\ x \in Items(Q[k])
BY DEF Beneath

LEMMA BeneathRemoved ==
  ASSUME NEW Q \in Lines, NEW R \in Lines, NEW k \in Parts, NEW j, Removes(Q, R, k, j), NEW h
  PROVE  Beneath(R, h) \subseteq Beneath(Q, h)
<1>1. \A i \in Parts : Items(R[i]) \subseteq Items(Q[i])
  BY RemovedItems
<1>2. QED  BY <1>1, BeneathIs

LEMMA BeneathMoved ==
  ASSUME NEW Q \in Lines, NEW R \in Lines, NEW k \in Parts, NEW l \in Parts, NEW b,
         Moves(Q, R, k, l, b), NEW h
  PROVE  /\ \A x \in Beneath(R, h) : x \in Beneath(Q, h) \/ (x = b /\ l < h)
         /\ k < h => Q[k][1] \in Beneath(Q, h)
         /\ Alike(Q[k][1], b)
<1>1. /\ l < k /\ b \in Buffer /\ Q[k] # << >> /\ R[k] = Tail(Q[k]) /\ R[l] = Append(Q[l], b)
      /\ \A i \in Parts : i # k /\ i # l => R[i] = Q[i]
      /\ Alike(Q[k][1], b)
  BY DEF Moves, Alike
<1>2. Q[k] \in Seq(Buffer) /\ Q[l] \in Seq(Buffer)
  BY LineFacts
<1>3. Items(R[k]) \subseteq Items(Q[k]) /\ Q[k][1] \in Items(Q[k])
  BY <1>1, <1>2, ItemsTail, TailFacts
<1>4. Items(R[l]) = Items(Q[l]) \cup {b}
  BY <1>1, <1>2, ItemsAppend
<1>5. ASSUME NEW x \in Beneath(R, h)
      PROVE  x \in Beneath(Q, h) \/ (x = b /\ l < h)
  <2>1. PICK i \in Parts : i < h /\ x \in Items(R[i])
    BY BeneathIs
  <2>2. x \in Items(Q[i]) \/ (x = b /\ i = l)
    BY <1>1, <1>3, <1>4, <2>1
  <2>3. QED  BY <2>1, <2>2, BeneathIs
<1>6. QED  BY <1>1, <1>3, <1>5, BeneathIs

LEMMA BeneathAdded ==
  ASSUME NEW Q \in Lines, NEW R \in Lines, NEW k \in Parts, NEW b, Adds(Q, R, k, b), NEW h
  PROVE  \A x \in Beneath(R, h) : x \in Beneath(Q, h) \/ (x = b /\ k < h)
<1>1. /\ b \in Buffer /\ R[k] = Append(Q[k], b)
      /\ \A i \in Parts : i # k => R[i] = Q[i]
  BY DEF Adds
<1>2. Items(R[k]) = Items(Q[k]) \cup {b}
  <2>1. Q[k] \in Seq(Buffer)
    BY LineFacts
  <2>2. QED  BY <1>1, <2>1, ItemsAppend
<1>3. ASSUME NEW x \in Beneath(R, h)
      PROVE  x \in Beneath(Q, h) \/ (x = b /\ k < h)
  <2>1. PICK i \in Parts : i < h /\ x \in Items(R[i])
    BY BeneathIs
  <2>2. x \in Items(Q[i]) \/ (x = b /\ i = k)
    BY <1>1, <1>2, <2>1
  <2>3. QED  BY <2>1, <2>2, BeneathIs
<1>4. QED  BY <1>3

(* A line whose moves do not cross the place brings nothing beneath it.    *)
Sunk(Q, R, h) == \A x \in Beneath(R, h) : \E y \in Beneath(Q, h) : Alike(y, x)

LEMMA SunkRules ==
  ASSUME NEW h
  PROVE  /\ \A Q : Sunk(Q, Q, h)
         /\ \A Q, M, R : Sunk(Q, M, h) /\ Sunk(M, R, h) => Sunk(Q, R, h)
         /\ \A Q \in Lines, R \in Lines, k \in Parts : \A j : Removes(Q, R, k, j) => Sunk(Q, R, h)
         /\ \A Q \in Lines, R \in Lines, k \in Parts, l \in Parts : \A b :
              Moves(Q, R, k, l, b) /\ (k < h \/ ~(l < h)) => Sunk(Q, R, h)
         /\ \A Q \in Lines, R \in Lines, k \in Parts : \A b :
              Adds(Q, R, k, b) /\ ~(k < h) => Sunk(Q, R, h)
<1>1. \A x : Alike(x, x)
  BY DEF Alike
<1>2. \A x, y, z : Alike(x, y) /\ Alike(y, z) => Alike(x, z)
  BY DEF Alike
<1>3. \A Q : Sunk(Q, Q, h)
  BY <1>1 DEF Sunk
<1>4. \A Q, M, R : Sunk(Q, M, h) /\ Sunk(M, R, h) => Sunk(Q, R, h)
  BY <1>2 DEF Sunk
<1>5. ASSUME NEW Q \in Lines, NEW R \in Lines, NEW k \in Parts, NEW j, Removes(Q, R, k, j)
      PROVE  Sunk(Q, R, h)
  BY <1>1, <1>5, BeneathRemoved DEF Sunk
<1>6. ASSUME NEW Q \in Lines, NEW R \in Lines, NEW k \in Parts, NEW l \in Parts, NEW b,
             Moves(Q, R, k, l, b), k < h \/ ~(l < h)
      PROVE  Sunk(Q, R, h)
  BY <1>1, <1>6, BeneathMoved DEF Sunk
<1>7. ASSUME NEW Q \in Lines, NEW R \in Lines, NEW k \in Parts, NEW b,
             Adds(Q, R, k, b), ~(k < h)
      PROVE  Sunk(Q, R, h)
  BY <1>1, <1>7, BeneathAdded DEF Sunk
<1>8. QED  BY <1>3, <1>4, <1>5, <1>6, <1>7

LEMMA LineSunk ==
  ASSUME Types, Types', Contents, [Next]_vars, NEW p \in Switched, \A b : ~Sees(p, b),
         \A fn \in Functions : ~CallInSequence(fn)
  PROVE  Sunk(Line, Line', Place(p))
<1> PICK h : h = Place(p)
  OBVIOUS
<1>0. /\ Line \in Lines /\ Line' \in Lines /\ h \in {5, 6}
      /\ p = "CtoP" => h = 6
      /\ p = "PtoD" => h = 5
      /\ 1 \in Parts /\ 2 \in Parts /\ 3 \in Parts /\ 4 \in Parts /\ 5 \in Parts /\ 6 \in Parts
  BY LinesNow, PlaceIs, PartIs DEF Switched
<1>r. \A Q \in Lines, R \in Lines, k \in Parts : \A j : Removes(Q, R, k, j) => Sunk(Q, R, h)
  BY SunkRules
<1>m. \A Q \in Lines, R \in Lines, k \in Parts, l \in Parts : \A b :
        Moves(Q, R, k, l, b) /\ (k < h \/ ~(l < h)) => Sunk(Q, R, h)
  BY SunkRules
<1>a. \A Q \in Lines, R \in Lines, k \in Parts : \A b :
        Adds(Q, R, k, b) /\ ~(k < h) => Sunk(Q, R, h)
  BY SunkRules
<1>t. \A Q, M, R : Sunk(Q, M, h) /\ Sunk(M, R, h) => Sunk(Q, R, h)
  BY SunkRules
<1>s. \A Q : Sunk(Q, Q, h)
  BY SunkRules
<1>1. CASE CollateToParse
  <2>1. PICK b : b = Parsed
    OBVIOUS
  <2>2. p # "CtoP" /\ h = 5
    BY <1>0, <1>1, <2>1 DEF Sees, Switched
  <2>3. Removes(Line, Line', 6, 1) \/ Moves(Line, Line', 6, 5, b)
    BY <1>1, <2>1, CollateToParseLine DEF Parsed
  <2>4. QED  BY <1>0, <1>r, <1>m, <2>2, <2>3
<1>2. ASSUME NEW q \in Processes, Take(q)
      PROVE  Sunk(Line, Line', h)
  <2>1. PICK b : b = Head(ring[q])
    OBVIOUS
  <2>2. /\ q \in {"PtoD", "DtoM"}
        /\ q = "PtoD" => Moves(Line, Line', 5, 4, b)
        /\ q = "DtoM" => Moves(Line, Line', 2, 1, b)
    BY <1>2, <2>1, TakeLine
  <2>3. q # p
    BY <1>2, <2>1 DEF Sees
  <2>4. CASE q = "DtoM"
    <3>1. Moves(Line, Line', 2, 1, b) /\ 2 < h
      BY <1>0, <2>2, <2>4
    <3>2. QED  BY <1>0, <1>m, <3>1
  <2>5. CASE q = "PtoD"
    <3>1. Moves(Line, Line', 5, 4, b) /\ 5 < h
      BY <1>0, <2>2, <2>3, <2>5 DEF Switched
    <3>2. QED  BY <1>0, <1>m, <3>1
  <2>6. QED  BY <2>2, <2>4, <2>5
<1>3. ASSUME NEW q \in Processes, TakeCall(q)
      PROVE  Sunk(Line, Line', h)
  <2>1. Line' = Line \/ (q \in Readers /\ Removes(Line, Line', Place(q), 1))
    BY <1>3, TakeCallLine, ProcessIs DEF Readers
  <2>2. q \in Readers => Place(q) \in Parts
    BY PlaceIs
  <2>3. QED  BY <1>0, <1>r, <1>s, <2>1, <2>2
<1>4. CASE PassToManifestor
  <2>1. Removes(Line, Line', 1, 1)
    BY <1>4, PassToManifestorLine
  <2>2. QED  BY <1>0, <1>r, <2>1
<1>5. CASE PassToCodec
  <2>1. PICK b : b = hand["PtoD"]
    OBVIOUS
  <2>2. \/ Removes(Line, Line', 4, 1) \/ Moves(Line, Line', 4, 3, b)
        \/ Moves(Line, Line', 4, 2, b) \/ Moves(Bare, Line', 4, 3, b)
    BY <1>5, <2>1, PassToCodecLine
  <2>3. /\ Bare \in Lines
        /\ Bare = Line \/ (ahead + 1 = ahead + 1 /\ Removes(Line, Bare, 3, ahead + 1))
    BY BareLine
  <2>4. Sunk(Line, Bare, h)
    BY <1>0, <1>r, <1>s, <2>3
  <2>5. 4 < h
    BY <1>0
  <2>6. QED  BY <1>0, <1>r, <1>m, <1>t, <2>2, <2>3, <2>4, <2>5
<1>6. CASE DecodeComplete
  <2>1. /\ Mid \in Lines
        /\ Removes(Line, Mid, 3, 1) \/ Moves(Line, Mid, 3, 2, inflight[1])
        /\ Line' = Mid \/ Moves(Mid, Line', 3, 2, held)
    BY <1>6, DecodeCompleteLine
  <2>2. 3 < h
    BY <1>0
  <2>3. Sunk(Line, Mid, h)
    BY <1>0, <1>r, <1>m, <2>1, <2>2
  <2>4. Sunk(Mid, Line', h)
    BY <1>0, <1>m, <1>s, <2>1, <2>2
  <2>5. QED  BY <1>t, <2>3, <2>4
<1>7. ASSUME NEW b, Adds(Line, Line', 6, b)
      PROVE  Sunk(Line, Line', h)
  BY <1>0, <1>a, <1>7
<1>8. CASE MarkerInsert
  BY <1>7, <1>8, MarkerInsertLine
<1>9. CASE Collate
  BY <1>7, <1>9, CollateLine
<1>10. CASE \/ \E q \in Processes : Finish(q)
            \/ PostManifest \/ Manifested
            \/ \E mode \in {"block", "return", "switch"}, discard \in BOOLEAN :
                 Launch(mode, discard)
            \/ DiscardQueuedDecodes \/ ReleaseQueuedDecodeBuffers \/ MarkerNumber
            \/ SwitchCollator \/ WaitForDrainCompletion
            \/ UNCHANGED vars
  <2>1. Line' = Line
    BY <1>10, OtherLines
  <2>2. QED  BY <1>s, <2>1
<1>11. Sunk(Line, Line', h)
  BY <1>1, <1>2, <1>3, <1>4, <1>5, <1>6, <1>8, <1>9, <1>10
   DEF Next, ProcessStep, ClientStep
<1>12. QED  BY <1>11

LEMMA QueuedStep ==
  ASSUME Types, Types', Contents, QueueOrdered, [Next]_vars, NEW x, x \in Queued'
  PROVE  x \in Queued \/ IsCall(x) \/ x \in Items(Line[1])
<1>1. CASE Queuing
  BY <1>1, QueuingKeeps
<1>2. CASE PassToManifestor
  <2>1. PICK b : b = hand["DtoM"]
    OBVIOUS
  <2>2. x \in Queued \/ x = b
    BY <1>2, <2>1, PassToManifestorQueues
  <2>3. Line[1] = <<b>>
    BY <1>2, <2>1, PassToManifestorLine
  <2>4. b \in Items(Line[1])
    BY <2>3 DEF Items
  <2>5. QED  BY <2>2, <2>4
<1>3. CASE MarkerInsert \/ Collate
  <2>1. display' = display
    BY <1>3 DEF MarkerInsert, Collate
  <2>2. ring'["PostM"] = ring["PostM"]
    BY <1>3, FnTypes, ProcessIs DEF MarkerInsert, Collate, Insert
  <2>3. QED  BY <2>1, <2>2 DEF Queued
<1>4. QED  BY <1>1, <1>2, <1>3, StepsAre

LEMMA BeyondStep ==
  ASSUME Types, Types', Contents, OneMarker, Numbers, [Next]_vars, NEW p \in Switched,
         NEW x, x \in Beyond(p)', ~IsCall(x)
  PROVE  \E y : (y \in Beyond(p) \/ Sees(p, y)) /\ Alike(y, x)
<1> PICK h : h = Place(p)
  OBVIOUS
<1>0. /\ Line \in Lines /\ Line' \in Lines /\ h \in Parts /\ h \in {5, 6} /\ Place(p)' = h
      /\ p = "CtoP" => h = 6
      /\ p = "PtoD" => h = 5
      /\ 1 \in Parts /\ 1 < h /\ 4 \in Parts /\ 5 \in Parts /\ 6 \in Parts
  <2>1. Place(p)' = Place(p)
    BY DEF Place
  <2>2. QED  BY <2>1, LinesNow, PlaceIs, PartIs DEF Switched
<1>1. x \in Beneath(Line', h) \/ x \in Queued'
  BY <1>0 DEF Beyond
<1>2. \A y : y \in Beneath(Line, h) \/ y \in Queued => y \in Beyond(p)
  BY DEF Beyond
<1>3. Alike(x, x)
  BY DEF Alike
<1>4. CASE x \in Queued'
  <2>1. x \in Queued \/ x \in Items(Line[1])
    BY <1>4, QueuedStep DEF OneMarker
  <2>2. Items(Line[1]) \subseteq Beneath(Line, h)
    BY <1>0, BeneathIs
  <2>3. QED  BY <1>2, <1>3, <2>1, <2>2
<1>5. CASE x \in Beneath(Line', h) /\ (\A b : ~Sees(p, b)) /\ (\A fn \in Functions : ~CallInSequence(fn))
  <2>1. Sunk(Line, Line', h)
    BY <1>5, LineSunk
  <2>2. QED  BY <1>2, <1>5, <2>1 DEF Sunk
<1>6. ASSUME x \in Beneath(Line', h), NEW fn \in Functions, CallInSequence(fn)
      PROVE  x \in Beneath(Line, h)
  <2>1. PICK b : b = Call(fn)
    OBVIOUS
  <2>2. /\ IsCall(b)
        /\ Destination(fn) = "PostM" => Line' = Line
        /\ Destination(fn) \in Readers => Adds(Line, Line', Place(Destination(fn)), b)
    BY <1>6, <2>1, CallLine
  <2>3. Destination(fn) \in Processes
    BY DestinationIs
  <2>4. CASE Destination(fn) \in Readers
    <3> PICK k : k = Place(Destination(fn))
      OBVIOUS
    <3>1. k \in Parts /\ Adds(Line, Line', k, b)
      BY <2>2, <2>4, PlaceIs
    <3>2. x \in Beneath(Line, h) \/ (x = b /\ k < h)
      BY <1>0, <1>6, <3>1, BeneathAdded
    <3>3. QED  BY <1>6, <2>2, <3>2
  <2>5. QED  BY <1>6, <2>2, <2>3, <2>4, ProcessIs DEF Readers
<1>7. ASSUME x \in Beneath(Line', h), NEW b, Sees(p, b)
      PROVE  x \in Beneath(Line, h) \/ x = b
  <2>1. CASE CollateToParse /\ p = "CtoP" /\ b = Parsed
    <3>1. Removes(Line, Line', 6, 1) \/ Moves(Line, Line', 6, 5, b)
      BY <2>1, CollateToParseLine DEF Parsed
    <3>2. CASE Removes(Line, Line', 6, 1)
      BY <1>0, <1>7, <3>2, BeneathRemoved
    <3>3. CASE Moves(Line, Line', 6, 5, b)
      BY <1>0, <1>7, <3>3, BeneathMoved
    <3>4. QED  BY <3>1, <3>2, <3>3
  <2>2. CASE Take(p) /\ b = Head(ring[p])
    <3>1. p = "PtoD" /\ Moves(Line, Line', 5, 4, b)
      BY <2>2, TakeLine, SwitchedIs
    <3>2. QED  BY <1>0, <1>7, <3>1, BeneathMoved
  <2>3. QED  BY <1>7, <2>1, <2>2 DEF Sees
<1>8. QED  BY <1>1, <1>2, <1>3, <1>4, <1>5, <1>6, <1>7

LEMMA BeyondHolds ==
  ASSUME Types, Types', Contents, Numbers, NEW p \in Switched, NEW y, y \in Beyond(p) \/ Sees(p, y)
  PROVE  AFrame(y) \/ AMarker(y) \/ IsCall(y)
<1>1. CASE y \in Beneath(Line, Place(p))
  <2>1. PICK k \in Parts : y \in Items(Line[k])
    BY <1>1, BeneathIs
  <2>2. QED  BY <2>1, LineHolds
<1>2. CASE y \in Queued
  BY <1>2, ProcessIs DEF Queued, Contents, ACall
<1>3. CASE Sees(p, y)
  BY <1>3, SwitchedIs, SeesIs
<1>4. QED  BY <1>1, <1>2, <1>3 DEF Beyond

LEMMA EarlyStays ==
  ASSUME Types, Types', Contents, [Next]_vars, NEW c, NEW x, NEW y, Alike(y, x), Early(y, c),
         AFrame(y) \/ AMarker(y) \/ IsCall(y)
  PROVE  Early(x, c)'
<1>1. AFrame(y) => sent'[y.n].drains = Behind(y)
  BY BehindStep
<1>2. /\ IsFrame(x) => IsFrame(y) /\ x.n = y.n
      /\ IsMarker(x) => IsMarker(y) /\ x.n = y.n
  BY DEF Alike, IsFrame, IsMarker
<1>3. ASSUME IsFrame(x)  PROVE sent'[x.n].drains < c.n
  <2>1. AFrame(y)
    BY <1>2, <1>3, Kinds DEF AMarker
  <2>2. Behind(y) < c.n
    BY <1>2, <1>3 DEF Early
  <2>3. QED  BY <1>1, <1>2, <1>3, <2>1, <2>2
<1>4. IsMarker(x) => x.n <= c.n
  BY <1>2 DEF Early
<1>5. QED  BY <1>3, <1>4 DEF Early, Behind

(* A call is made after everything that is in the stream, if nothing is    *)
(* injected meanwhile.                                                     *)
LEMMA CallEarly ==
  ASSUME Types, Types', Contents, StillFrames, NEW fn \in Functions, CallInSequence(fn),
         NEW c, c = Call(fn), NEW y, AFrame(y) \/ AMarker(y) \/ IsCall(y)
  PROVE  Early(y, c)
<1>1. c.n = launched /\ launched = marked
  BY CallInSequenceIs, ProcessIs
<1>2. pc[Client] # "idle"
  BY DEF CallInSequence, At, Functions
<1>3. IsFrame(y) => Behind(y) < c.n
  BY <1>1, <1>2, Kinds DEF StillFrames, Behind, AFrame, AMarker
<1>4. IsMarker(y) => y.n <= c.n
  <2>1. marked \in Nat
    BY CountTypes DEF Counts
  <2>2. QED  BY <1>1, <2>1, Kinds DEF AFrame, AMarker
<1>5. QED  BY <1>3, <1>4 DEF Early

LEMMA CallsInPlaceNext ==
  ASSUME Types, Types', Contents, Contents', StillFrames, CallsInPlace, [Next]_vars
  PROVE  CallsInPlace'
<1>1. SUFFICES ASSUME NEW p \in Switched, NEW i \in 1 .. Len(ring'[p]), NEW j \in 1 .. Len(ring'[p]),
                      i < j, IsCall(ring'[p][j])
               PROVE  /\ IsFrame(ring'[p][i]) => sent'[ring'[p][i].n].drains < ring'[p][j].n
                      /\ IsMarker(ring'[p][i]) => ring'[p][i].n <= ring'[p][j].n
  BY DEF CallsInPlace, Early, Behind, IsFrame, IsMarker
<1>0. p \in Processes /\ ring[p] \in Seq(Buffer)
  BY SwitchedIs, FnTypes
<1>2. PICK f : f = ring'[p][i]
  OBVIOUS
<1>3. PICK c : c = ring'[p][j]
  OBVIOUS
<1>4. \A b \in Items(ring[p]) : AFrame(b) \/ AMarker(b) \/ IsCall(b)
  BY <1>0 DEF Contents, ACall
<1>5. ASSUME f \in Items(ring[p]), Early(f, c)  PROVE Early(f, c)'
  <2>1. AFrame(f) \/ AMarker(f) \/ IsCall(f)
    BY <1>4, <1>5
  <2>2. Alike(f, f)
    BY DEF Alike
  <2>3. QED  BY <1>5, <2>1, <2>2, EarlyStays
<1>6. ASSUME Stems(ring[p], ring'[p], i, j)  PROVE Early(f, c)'
  <2>1. PICK k, l \in 1 .. Len(ring[p]) : k < l /\ ring[p][k] = f /\ ring[p][l] = c
    BY <1>2, <1>3, <1>6 DEF Stems
  <2>2. Early(f, c)
    BY <1>1, <1>3, <2>1 DEF CallsInPlace
  <2>3. f \in Items(ring[p])
    BY <1>0, <2>1, ItemsAre
  <2>4. QED  BY <1>5, <2>2, <2>3
<1>7. ASSUME NEW fn \in Functions, CallInSequence(fn), c = Call(fn), f \in Items(ring[p])
      PROVE  Early(f, c)'
  <2>1. Early(f, c)
    BY <1>4, <1>7, CallEarly
  <2>2. QED  BY <1>5, <1>7, <2>1
<1>8. Early(f, c)'
  BY <1>0, <1>1, <1>2, <1>3, <1>6, <1>7, RingStems
<1>9. /\ IsFrame(f) => sent'[f.n].drains < c.n
      /\ IsMarker(f) => f.n <= c.n
  BY <1>8 DEF Early, Behind
<1>10. QED  BY <1>2, <1>3, <1>9

LEMMA SeenStepEarly ==
  ASSUME Types, Types', Contents, OneMarker, Agree, CallsInTime, [Next]_vars,
         NEW p \in Switched, NEW c \in Pending(p)
  PROVE  seen'["PostM"] <= c.seq
<1>1. CASE seen'["PostM"] = seen["PostM"]
  BY <1>1 DEF CallsInTime
<1>2. CASE seen'["PostM"] # seen["PostM"]
  <2>1. PICK b : b = Head(ring["PostM"])
    OBVIOUS
  <2>2. b \in Items(ring["PostM"]) /\ ~IsCall(b) /\ seen'["PostM"] = b.seq
    BY <1>2, <2>1, PostSeen
  <2>3. b \in Beyond(p)
    BY <2>2 DEF Beyond, Queued
  <2>4. Early(b, c)
    BY <2>3 DEF CallsInTime
  <2>5. PICK k : k = <<c.n, c.seq>>
    OBVIOUS
  <2>6. k \in Known /\ k[1] = c.n /\ k[2] = c.seq
    BY <2>5, SwitchCallIs
  <2>7. b.seq <= k[2]
    BY <2>2, <2>4, <2>6, EarlyNumber DEF Early
  <2>8. QED  BY <2>2, <2>6, <2>7
<1>3. QED  BY <1>1, <1>2

LEMMA OldCallsInTime ==
  ASSUME Types, Types', Contents, Contents', InOrder(sent, Line), OneMarker, Numbers, Agree,
         CallsInPlace, CallsInTime, Tabled, [Next]_vars,
         NEW p \in Switched, NEW c \in Pending(p), NEW b, b \in Beyond(p)'
  PROVE  Early(b, c)'
<1>1. CASE IsCall(b)
  BY <1>1, Kinds DEF Early
<1>2. CASE ~IsCall(b)
  <2>1. PICK y : (y \in Beyond(p) \/ Sees(p, y)) /\ Alike(y, b)
    BY <1>2, BeyondStep
  <2>2. AFrame(y) \/ AMarker(y) \/ IsCall(y)
    BY <2>1, BeyondHolds
  <2>3. CASE y \in Beyond(p)
    <3>1. Early(y, c)
      BY <2>3 DEF CallsInTime
    <3>2. QED  BY <2>1, <2>2, <3>1, EarlyStays
  <2>4. CASE Sees(p, y)
    <3>1. PICK q : q = Line[Place(p)]
      OBVIOUS
    <3>2. q = ring[p] /\ q \in Seq(Buffer)
      BY <3>1, SwitchedIs, FnTypes
    <3>3. q # << >> /\ ~IsCall(Head(q))
      BY <2>4, <3>2 DEF Sees, CollateToParse, Take
    <3>4. c \in Items(Tail(q)) \/ c \in after[p]
      <4>1. IsCall(c) /\ (c \in Items(ring[p]) \/ c \in after[p])
        BY SwitchCallIs
      <4>2. QED  BY <3>2, <3>3, <4>1, ItemsTail
    <3>5. Early(y, c)
      BY <2>4, <3>1, <3>4, SeenEarly
    <3>6. QED  BY <2>1, <2>2, <3>5, EarlyStays
  <2>5. QED  BY <2>1, <2>3, <2>4
<1>3. QED  BY <1>1, <1>2

LEMMA NewCallInTime ==
  ASSUME Types, Types', Contents, Contents', OneMarker, Numbers, StillFrames, CallingSeen,
         [Next]_vars, NEW p \in Switched, NEW fn \in Functions, CallInSequence(fn),
         Destination(fn) = p, NEW c, c = Call(fn)
  PROVE  /\ \A b : b \in Beyond(p)' => Early(b, c)'
         /\ seen'["PostM"] <= c.seq
<1>1. ASSUME NEW b, b \in Beyond(p)'  PROVE Early(b, c)'
  <2>1. CASE IsCall(b)
    BY <2>1, Kinds DEF Early
  <2>2. CASE ~IsCall(b)
    <3>1. PICK y : (y \in Beyond(p) \/ Sees(p, y)) /\ Alike(y, b)
      BY <1>1, <2>2, BeyondStep
    <3>2. AFrame(y) \/ AMarker(y) \/ IsCall(y)
      BY <3>1, BeyondHolds
    <3>3. Early(y, c)
      BY <3>2, CallEarly
    <3>4. QED  BY <3>1, <3>2, <3>3, EarlyStays
  <2>3. QED  BY <2>1, <2>2
<1>2. seen'["PostM"] <= c.seq
  <2>1. seen' = seen /\ pc[Client] = fn
    BY DEF CallInSequence, At
  <2>2. Calling
    BY <2>1 DEF Calling, Functions, Entering
  <2>3. c.seq = drain.seq
    <3>1. fn # "SwitchComplete"
      BY Destinations DEF Switched
    <3>2. QED  BY <3>1, CallLine
  <2>4. QED  BY <2>1, <2>2, <2>3 DEF CallingSeen
<1>3. QED  BY <1>1, <1>2

LEMMA CallsInTimeNext ==
  ASSUME Types, Types', Contents, Contents', InOrder(sent, Line), OneMarker, Numbers, Agree,
         StillFrames, CallingSeen, CallsInPlace, CallsInTime, Tabled, [Next]_vars
  PROVE  CallsInTime'
<1>1. SUFFICES ASSUME NEW p \in Switched, NEW c, c \in Pending(p)'
               PROVE  /\ \A b : b \in Beyond(p)' => Early(b, c)'
                      /\ seen'["PostM"] <= c.seq
  BY DEF CallsInTime
<1>2. CASE c \in Pending(p)
  BY <1>2, OldCallsInTime, SeenStepEarly
<1>3. CASE \E fn \in Functions : CallInSequence(fn) /\ Destination(fn) = p /\ c = Call(fn)
  BY <1>3, NewCallInTime
<1>4. p \in Processes
  BY SwitchedIs
<1>5. QED  BY <1>1, <1>2, <1>3, <1>4, PendingStep

(* A call that waits is made, or it waits on: there is room for one in the *)
(* table, and there is one at most.                                        *)
LEMMA NoneWaits ==
  ASSUME Types, Contents, OneMarker, CallsOnce, Agree, Tabled, NEW p \in Switched, TakeCall(p)
  PROVE  after[p] = {}
<1>1. SUFFICES ASSUME NEW d \in after[p]  PROVE FALSE
  OBVIOUS
<1>2. PICK c : c = Head(ring[p])
  OBVIOUS
<1>3. p \in Processes /\ c \in Items(ring[p]) /\ c \in Pending(p) /\ d \in Pending(p) /\ pc[p] = "idle"
  BY <1>1, <1>2, SwitchedIs, TakeCallIs, TakeCallThen, AfterIsPending
<1>4. d.seq > seen[p]
  BY <1>1, <1>3 DEF Tabled, At
<1>5. /\ <<d.n, d.seq>> \in Known /\ d.seq \in Int /\ seen[p] \in Int /\ c.kind = d.kind
      /\ c.n \in 1 .. marked /\ d.n \in 1 .. marked /\ marked \in Nat
  <2>1. seen[p] \in Int /\ marked \in Nat
    BY <1>3, FnTypes, CountTypes DEF Counts
  <2>2. c.kind = d.kind
    BY <1>3, SwitchCallIs DEF Switched
  <2>3. QED  BY <1>3, <2>1, <2>2, SwitchCallIs
<1>6. MarkerFrom(Place(p), d.n)
  BY <1>4, <1>5, SwitchedIs DEF Agree, Ahead
<1>7. PICK m \in From(Line, Place(p)) : IsMarker(m) /\ m.n = d.n
  BY <1>6 DEF MarkerFrom, MarkerIn
<1>8. m \in From(Line, 1)
  <2>1. PICK j \in Parts : m \in Items(Line[j])
    BY <1>7, FromPart
  <2>2. QED  BY <2>1, FromPart, PartsAreNumbers
<1>9. d.n = marked
  BY <1>7, <1>8 DEF OneMarker, MarkersLast, Markers
<1>10. d.n < c.n
  BY <1>1, <1>3, <1>5 DEF CallsOnce, Tables
<1>11. QED  BY <1>5, <1>9, <1>10

Renews(p)  == collator' = collator /\ PartOf(p)' = collator
Ripe(p, c) == \/ At(p, "idle") /\ c.seq <= seen[p]
              \/ At(p, "finish") /\ c.seq <= hand[p].seq

LEMMA PerformRenews ==
  ASSUME Types, Contents, NEW p \in Switched, NEW calls, Perform(calls),
         NEW c \in Pending(p), c \in calls
  PROVE  Renews(p)
<1>1. /\ p = "CtoP" => Named(calls, "SwitchFrameParser")
      /\ p = "PtoD" => Named(calls, "SwitchCodec")
  BY SwitchCallIs DEF Named
<1>2. QED  BY <1>1 DEF Perform, Renews, PartOf, Switched

LEMMA PendingOrMade ==
  ASSUME Types, Types', Contents, Contents', OneMarker, CallsOnce, Agree, Tabled, [Next]_vars,
         NEW p \in Switched, NEW c \in Pending(p)
  PROVE  c \in Pending(p)' \/ (Renews(p) /\ Ripe(p, c))
<1>1. /\ p \in Processes /\ IsCall(c) /\ c.kind \notin Befores
      /\ c \in Items(ring[p]) \/ c \in after[p]
  BY SwitchedIs, SwitchCallIs DEF Switched, Befores
<1>2. c \in Pending(p)' <=> c \in Items(ring'[p]) \/ c \in before'[p] \/ c \in after'[p]
  <2>1. c \in Pending(p)' <=> c \in Items(ring[p])' \/ c \in before'[p] \/ c \in after'[p]
    BY <1>1 DEF Pending, Tables
  <2>2. QED  BY <2>1 DEF Items
<1>3. ASSUME NEW fn \in Functions, CallInSequence(fn)
      PROVE  c \in Pending(p)'
  <2>1. PICK b : b = Call(fn)
    OBVIOUS
  <2>2. QED  BY <1>1, <1>3, <2>1, CallInSequenceIs
<1>4. CASE TakeCall(p) /\ c = Head(ring[p])
  <2>1. CASE c.seq <= seen[p]
    <3>1. Perform({c})
      BY <1>1, <1>4, <2>1, TakeCallThen
    <3>2. At(p, "idle")
      BY <1>1, <1>4, TakeCallThen DEF At
    <3>3. QED  BY <2>1, <3>1, <3>2, PerformRenews DEF Ripe
  <2>2. CASE ~(c.seq <= seen[p])
    <3>1. after[p] = {}
      BY <1>4, NoneWaits
    <3>2. after'[p] = {c}
      BY <1>1, <1>4, <2>2, <3>1, TakeCallThen
    <3>3. QED  BY <1>2, <3>2
  <2>3. QED  BY <2>1, <2>2
<1>5. CASE /\ c \in Items(ring[p]) /\ ~(TakeCall(p) /\ c = Head(ring[p]))
           /\ \A fn \in Functions : ~CallInSequence(fn)
  BY <1>1, <1>2, <1>5, CallsStay
<1>6. CASE c \in after[p]
  <2>1. CASE TakeCall(p)
    <3>1. PICK h : h = Head(ring[p])
      OBVIOUS
    <3>2. after[p] \subseteq after'[p]
      <4>1. CASE h.seq <= seen[p]
        BY <1>1, <2>1, <3>1, <4>1, TakeCallThen
      <4>2. CASE ~(h.seq <= seen[p])
        BY <1>1, <2>1, <3>1, <4>2, TakeCallThen
      <4>3. QED  BY <4>1, <4>2
    <3>3. QED  BY <1>2, <1>6, <3>2
  <2>2. CASE Finish(p)
    <3>1. /\ after'[p] = after[p] \ Due(after[p], hand[p].seq)
          /\ Perform(Due(after[p], hand[p].seq))
      BY <1>1, <2>2, FinishThen
    <3>2. CASE c \in Due(after[p], hand[p].seq)
      <4>1. At(p, "finish") /\ c.seq <= hand[p].seq
        BY <1>1, <2>2, <3>2, FinishThen DEF Due, At
      <4>2. QED  BY <3>1, <3>2, <4>1, PerformRenews DEF Ripe
    <3>3. CASE c \notin Due(after[p], hand[p].seq)
      BY <1>2, <1>6, <3>1, <3>3
    <3>4. QED  BY <3>2, <3>3
  <2>3. CASE \E b : Sees(p, b)
    BY <1>2, <1>6, <2>3, SeesThen
  <2>4. CASE p = "PtoD" /\ PassToCodec
    <3>1. after' = after
      BY <2>4 DEF PassToCodec
    <3>2. QED  BY <1>2, <1>6, <3>1
  <2>5. CASE UNCHANGED Own(p)
    BY <1>2, <1>6, <2>5 DEF Own
  <2>6. QED  BY <2>1, <2>2, <2>3, <2>4, <2>5, SwitchedSteps
<1>7. QED  BY <1>1, <1>3, <1>4, <1>5, <1>6

LEMMA PartsStep ==
  ASSUME [Next]_vars, ~SwitchCollator
  PROVE  collator' = collator /\ parser' \in {parser, collator} /\ codec' \in {codec, collator}
<1>1. ASSUME NEW calls, Perform(calls)
      PROVE  collator' = collator /\ parser' \in {parser, collator} /\ codec' \in {codec, collator}
  BY <1>1 DEF Perform
<1>2. (\E calls : Perform(calls)) \/ UNCHANGED <<collator, parser, codec>>
  <2>1. CASE CollateToParse \/ \E p \in Processes : TakeCall(p) \/ Finish(p) \/ Take(p)
    BY <2>1, ZenonT(60) DEF CollateToParse, TakeCall, Finish, Take
  <2>2. CASE PostManifest
    BY <2>2 DEF PostManifest
  <2>3. CASE \/ PassToCodec \/ PassToManifestor \/ DecodeComplete \/ Manifested
             \/ \E mode \in {"block", "return", "switch"}, discard \in BOOLEAN :
                  Launch(mode, discard)
             \/ ClientStep \/ Collate \/ UNCHANGED vars
    BY <2>3, ZenonT(60) DEF PassToCodec, PassToManifestor, DecodeComplete, Manifested, Launch,
         ClientStep, DiscardQueuedDecodes, ReleaseQueuedDecodeBuffers, MarkerNumber, MarkerInsert,
         CallInSequence, WaitForDrainCompletion, Collate, switchVars, vars
  <2>4. QED  BY <2>1, <2>2, <2>3 DEF Next, ProcessStep
<1>3. QED  BY <1>1, <1>2

(* The call that completes a switch.                                       *)
LEMMA SwitchCompleteStep ==
  ASSUME Types, Contents, [Next]_vars, switching, ~switching'
  PROVE  \E c :
           /\ IsCall(c) /\ c.kind = "SwitchComplete" /\ c \in Pending("PostM")
           /\ \/ /\ PostManifest /\ c \in before["PostM"]
                 /\ c.seq <= Head(ring["PostM"]).seq
              \/ TakeCall("PostM") /\ c = Head(ring["PostM"]) /\ c.seq <= seen["PostM"]
<1> DEFINE Goal == \E c :
           /\ IsCall(c) /\ c.kind = "SwitchComplete" /\ c \in Pending("PostM")
           /\ \/ /\ PostManifest /\ c \in before["PostM"]
                 /\ c.seq <= Head(ring["PostM"]).seq
              \/ TakeCall("PostM") /\ c = Head(ring["PostM"]) /\ c.seq <= seen["PostM"]
<1>0. /\ switching \in BOOLEAN /\ Destination("SwitchComplete") = "PostM"
      /\ "SwitchComplete" \in Befores
  BY DEF Types, Destination, Befores
<1>1. ASSUME NEW calls, Perform(calls)
      PROVE  \E c \in calls : c.kind = "SwitchComplete"
  BY <1>0, <1>1 DEF Perform, Named
<1>2. ASSUME NEW p \in Processes, NEW c \in Tables(p), c.kind = "SwitchComplete"
      PROVE  p = "PostM" /\ c \in before[p] /\ c \notin after[p] /\ IsCall(c) /\ c \in Pending(p)
  BY <1>0, <1>2 DEF Contents, ACall, Tables, Pending
<1>3. ASSUME NEW p \in Processes, NEW S, NEW T, S \subseteq before[p],
             T \subseteq after[p], Perform(S \cup T)
      PROVE  p = "PostM" /\ \E c \in S : c.kind = "SwitchComplete" /\ IsCall(c) /\ c \in Pending(p)
  <2>1. PICK c \in S \cup T : c.kind = "SwitchComplete"
    BY <1>1, <1>3
  <2>2. c \in Tables(p)
    BY <1>3 DEF Tables
  <2>3. p = "PostM" /\ c \notin after[p] /\ IsCall(c) /\ c \in Pending(p)
    BY <1>2, <2>1, <2>2
  <2>4. c \in S
    BY <1>3, <2>1, <2>3
  <2>5. QED  BY <2>1, <2>3, <2>4
<1>4. ASSUME CollateToParse  PROVE FALSE
  <2>1. PICK b : Perform(Due(before["CtoP"], b.seq))
    BY <1>4 DEF CollateToParse
  <2>2. PICK c \in Due(before["CtoP"], b.seq) : c.kind = "SwitchComplete"
    BY <1>1, <2>1
  <2>3. c \in Tables("CtoP")
    BY <2>2 DEF Due, Tables
  <2>4. QED  BY <1>2, <2>2, <2>3, ProcessIs
<1>5. ASSUME NEW p \in Processes, Take(p)  PROVE FALSE
  <2>1. PICK b : b = Head(ring[p])
    OBVIOUS
  <2>2. Perform(Due(before[p], b.seq)
                 \cup (IF p = "DtoM" /\ IsMarker(b) THEN Due(after[p], b.seq) ELSE {}))
    BY <1>5, <2>1 DEF Take
  <2>3. PICK S, T : /\ S = Due(before[p], b.seq)
                    /\ T = IF p = "DtoM" /\ IsMarker(b) THEN Due(after[p], b.seq) ELSE {}
    OBVIOUS
  <2>4. S \subseteq before[p] /\ T \subseteq after[p]
    BY <2>3 DEF Due
  <2>5. Perform(S \cup T)
    BY <2>2, <2>3
  <2>6. p = "PostM"
    BY <1>3, <2>4, <2>5
  <2>7. QED  BY <1>5, <2>6 DEF Take
<1>6. ASSUME NEW p \in Processes, Finish(p)  PROVE FALSE
  <2>1. Perform(Due(after[p], hand[p].seq))
    BY <1>6 DEF Finish
  <2>2. PICK c \in Due(after[p], hand[p].seq) : c.kind = "SwitchComplete"
    BY <1>1, <2>1
  <2>3. c \in Tables(p) /\ c \in after[p]
    BY <2>2 DEF Due, Tables
  <2>4. QED  BY <1>2, <2>2, <2>3
<1>7. CASE PostManifest
  <2>1. PICK b : b = Head(ring["PostM"])
    OBVIOUS
  <2>2. Perform(Due(before["PostM"], b.seq) \cup Due(after["PostM"], b.seq))
    BY <1>7, <2>1 DEF PostManifest
  <2>3. PICK S, T : S = Due(before["PostM"], b.seq) /\ T = Due(after["PostM"], b.seq)
    OBVIOUS
  <2>4. S \subseteq before["PostM"] /\ T \subseteq after["PostM"]
    BY <2>3 DEF Due
  <2>5. Perform(S \cup T)
    BY <2>2, <2>3
  <2>6. PICK c \in S : c.kind = "SwitchComplete" /\ IsCall(c) /\ c \in Pending("PostM")
    BY <1>3, <2>4, <2>5, ProcessIs
  <2>7. c \in before["PostM"] /\ c.seq <= b.seq
    BY <2>3, <2>6 DEF Due
  <2>8. QED  BY <1>7, <2>1, <2>6, <2>7
<1>8. ASSUME NEW p \in Processes, TakeCall(p)  PROVE Goal
  <2>1. PICK c : c = Head(ring[p])
    OBVIOUS
  <2>2. IsCall(c) /\ c \in Items(ring[p]) /\ c \in Pending(p)
    BY <1>8, <2>1, TakeCallIs
  <2>3. Perform(IF c.seq <= seen[p] THEN {c} ELSE {})
    BY <1>8, <2>1 DEF TakeCall
  <2>4. c.seq <= seen[p] /\ c.kind = "SwitchComplete"
    BY <1>1, <2>3
  <2>5. p = "PostM"
    BY <1>0, <2>2, <2>4, PendingAre
  <2>6. QED  BY <1>8, <2>1, <2>2, <2>4, <2>5
<1>9. CASE UNCHANGED switching \/ SwitchCollator
  BY <1>9 DEF SwitchCollator
<1>10. CASE \/ PassToCodec \/ PassToManifestor \/ DecodeComplete \/ Manifested
            \/ \E mode \in {"block", "return", "switch"}, discard \in BOOLEAN : Launch(mode, discard)
            \/ ClientStep \/ Collate \/ UNCHANGED vars
  <2>1. UNCHANGED switching \/ SwitchCollator
    BY <1>10, ZenonT(60) DEF PassToCodec, PassToManifestor, DecodeComplete, Manifested, Launch,
         ClientStep, DiscardQueuedDecodes, ReleaseQueuedDecodeBuffers, MarkerNumber, MarkerInsert,
         CallInSequence, WaitForDrainCompletion, Collate, switchVars, vars
  <2>2. QED  BY <1>9, <2>1
<1>11. QED
  BY <1>4, <1>5, <1>6, <1>7, <1>8, <1>10 DEF Next, ProcessStep

(* When a switch is complete no call of it waits, and none will be made:   *)
(* the last process has seen what came after the switch, which those of    *)
(* the calls for the parser and the codec that wait have not.              *)
LEMMA SwitchOver ==
  ASSUME Types, Types', Contents, Contents', OneMarker, CallsOnce, Agree, CallsInTime,
         SwitchNumber, [Next]_vars, switching, ~switching'
  PROVE  SwitchCalls' = {} /\ ~Switching'
<1>1. PICK e :
        /\ IsCall(e) /\ e.kind = "SwitchComplete" /\ e \in Pending("PostM")
        /\ \/ /\ PostManifest /\ e \in before["PostM"]
              /\ e.seq <= Head(ring["PostM"]).seq
           \/ TakeCall("PostM") /\ e = Head(ring["PostM"]) /\ e.seq <= seen["PostM"]
  BY SwitchCompleteStep
<1>2. /\ ring \in [Processes -> Seq(Buffer)] /\ seen \in [Processes -> Int]
      /\ after \in [Processes -> SUBSET Buffer] /\ before \in [Processes -> SUBSET Buffer]
      /\ "PostM" \in Processes
  BY FnTypes, ProcessIs
<1>3. Once("PostM")
  BY <1>2, CallsOnceAre
<1>4. e \in Buffer /\ e.seq \in Int /\ e.n \in Int /\ e \in SwitchCalls /\ <<e.n, e.seq - 1>> \in Known
  <2>1. e \in Buffer
    BY <1>1, <1>2, PendingAre
  <2>2. e \in SwitchCalls /\ Base(e) = e.seq - 1
    BY <1>1 DEF SwitchCalls, Base
  <2>3. <<e.n, e.seq - 1>> \in Known
    BY <1>1, <1>2, <2>2, KnownIs
  <2>4. QED  BY <2>1, <2>2, <2>3, BufferFacts
<1>5. UNCHANGED pc[Client] /\ ~MarkerInsert /\ (\A fn \in Functions : ~CallInSequence(fn))
  <2>1. UNCHANGED pc
    BY <1>1 DEF PostManifest, TakeCall
  <2>2. ~MarkerInsert /\ \A fn \in Functions : ~CallInSequence(fn)
    BY DEF MarkerInsert, CallInSequence, switchVars
  <2>3. QED  BY <2>1, <2>2
<1>6. ASSUME NEW p \in Processes, NEW d, d \in Pending(p)'
      PROVE  d \in Pending(p)
  BY <1>5, <1>6, PendingStep
<1>7. seen'["PostM"] >= e.seq
  <2>1. CASE PostManifest /\ e.seq <= Head(ring["PostM"]).seq
    <3>1. PICK b : b = Head(ring["PostM"])
      OBVIOUS
    <3>2. seen' = Raised("PostM", b.seq) /\ ring["PostM"] # << >>
      BY <2>1, <3>1 DEF PostManifest
    <3>3. b.seq \in Int
      BY <1>2, <3>1, <3>2, HeadTypes DEF Buffer
    <3>4. seen'["PostM"] >= b.seq /\ seen'["PostM"] \in Int
      BY <1>2, <3>2, <3>3 DEF Raised
    <3>5. QED  BY <1>4, <2>1, <3>1, <3>3, <3>4
  <2>2. CASE TakeCall("PostM") /\ e.seq <= seen["PostM"]
    <3>1. seen' = seen
      BY <2>2 DEF TakeCall
    <3>2. QED  BY <1>2, <1>4, <2>2, <3>1
  <2>3. QED  BY <1>1, <2>1, <2>2
<1>8. ASSUME NEW p \in Switched, NEW c, c \in Pending(p)'  PROVE FALSE
  <2>1. c \in Pending(p) /\ c \in SwitchCalls /\ <<c.n, c.seq>> \in Known /\ c.seq \in Int
    BY <1>6, <1>8, SwitchedIs, SwitchCallIs
  <2>2. c.n = e.n
    BY <1>4, <2>1 DEF SwitchNumber
  <2>3. \A k, l \in Known : k[1] = l[1] => k[2] = l[2]
    BY DEF Agree
  <2>4. c.seq = e.seq - 1
    BY <1>4, <2>1, <2>2, <2>3
  <2>5. seen'["PostM"] <= c.seq
    BY <2>1, SeenStepEarly
  <2>6. seen'["PostM"] \in Int
    BY <1>2 DEF Types
  <2>7. QED  BY <1>4, <1>7, <2>1, <2>4, <2>5, <2>6
<1>9. ASSUME NEW d, d \in Pending("PostM")', d.kind # "SetDrained"  PROVE FALSE
  <2>1. d \in Pending("PostM") /\ d \in Buffer /\ IsCall(d) /\ Destination(d.kind) = "PostM"
    BY <1>2, <1>6, <1>9, PendingAre
  <2>2. d.kind = "SwitchComplete" /\ d \in SwitchCalls
    BY <1>9, <2>1, Destinations DEF IsCall, SwitchCalls
  <2>3. d.n = e.n /\ d.n \in Int /\ d.seq \in Int
    BY <1>4, <2>1, <2>2, BufferFacts DEF SwitchNumber
  <2>4. d.seq = e.seq
    <3>1. <<d.n, d.seq - 1>> \in Known
      BY <1>2, <2>1, <2>2, KnownIs DEF Base
    <3>2. \A k, l \in Known : k[1] = l[1] => k[2] = l[2]
      BY DEF Agree
    <3>3. d.seq - 1 = e.seq - 1
      BY <1>4, <2>3, <3>1, <3>2
    <3>4. QED  BY <1>4, <2>3, <3>3
  <2>5. d \in Items(ring'["PostM"]) \/ d \in before'["PostM"] \/ d \in after'["PostM"]
    BY <1>9 DEF Pending, Tables, Items
  <2>6. CASE PostManifest /\ e \in before["PostM"] /\ e.seq <= Head(ring["PostM"]).seq
    <3>1. ring["PostM"] # << >> /\ ring'["PostM"] = Tail(ring["PostM"])
      BY <1>2, <2>6 DEF PostManifest
    <3>2. CASE d \in Items(ring'["PostM"])
      <4>1. d \in Items(ring["PostM"])
        BY <1>2, <3>1, <3>2, ItemsTail
      <4>2. e.n < d.n
        BY <1>1, <1>3, <2>2, <2>6, <4>1 DEF Once, Tables
      <4>3. QED  BY <2>3, <4>2
    <3>3. CASE d \in after'["PostM"]
      <4>1. d.kind \notin Befores
        BY <1>2, <3>3 DEF Contents
      <4>2. QED  BY <2>2, <4>1 DEF Befores
    <3>4. CASE d \in before'["PostM"]
      <4>1. PICK b : b = Head(ring["PostM"])
        OBVIOUS
      <4>2. before' = [before EXCEPT !["PostM"] = @ \ Due(before["PostM"], b.seq)]
        BY <2>6, <4>1 DEF PostManifest
      <4>3. d \in before["PostM"] \ Due(before["PostM"], b.seq)
        BY <1>2, <3>4, <4>2
      <4>4. ~(d.seq <= b.seq)
        BY <4>3 DEF Due
      <4>5. QED  BY <2>4, <2>6, <4>1, <4>4
    <3>5. QED  BY <2>5, <3>2, <3>3, <3>4
  <2>7. CASE TakeCall("PostM") /\ e = Head(ring["PostM"]) /\ e.seq <= seen["PostM"]
    <3>1. /\ ring["PostM"] # << >> /\ ring'["PostM"] = Tail(ring["PostM"])
          /\ e \in Items(ring["PostM"])
      BY <1>2, <2>7, TakeCallIs
    <3>2. before' = before /\ after' = after
      BY <1>2, <2>7, TakeCallThen
    <3>3. CASE d \in Items(ring'["PostM"])
      <4>1. CallsOrdered(ring["PostM"])
        BY <1>3 DEF Once
      <4>2. e.n < d.n
        BY <1>1, <1>2, <2>2, <2>7, <3>1, <3>3, <4>1, OrderedCallsTail
      <4>3. QED  BY <2>3, <4>2
    <3>4. CASE d \in Tables("PostM")
      <4>1. d.n < e.n
        BY <1>1, <1>3, <2>2, <3>1, <3>4 DEF Once
      <4>2. QED  BY <2>3, <4>1
    <3>5. d \in Items(ring'["PostM"]) \/ d \in Tables("PostM")
      BY <2>5, <3>2 DEF Tables
    <3>6. QED  BY <3>3, <3>4, <3>5
  <2>8. QED  BY <1>1, <2>6, <2>7
<1>10. SwitchCalls' = {}
  BY <1>8, <1>9 DEF SwitchCalls, Switched
<1>11. ~Switching'
  <2>1. SUFFICES ASSUME Switching  PROVE FALSE
    BY <1>5 DEF Switching
  <2>2. e.n = launched
    BY <1>4, <2>1 DEF SwitchNumber
  <2>3. pc[Client] \in Afterwards("SwitchComplete")
    BY <1>1, <1>3, <2>2 DEF Once
  <2>4. QED  BY <2>1, <2>3 DEF Afterwards, Switching
<1>12. QED  BY <1>10, <1>11

-----------------------------------------------------------------------------
(* Where the client is in a switch.                                        *)
LEMMA ClientPlaceStep ==
  ASSUME Types, [Next]_vars
  PROVE  \/ UNCHANGED <<pc[Client], drain>>
         \/ \E mode \in {"block", "return", "switch"}, discard \in BOOLEAN :
              Launch(mode, discard) /\ pc'[Client] \in {"drop", "number"}
         \/ pc[Client] \in Entering /\ pc'[Client] \in Entering \cup {"ResetTimeMapping"}
              /\ drain'.mode = drain.mode /\ UNCHANGED switching
         \/ SwitchCollator /\ pc[Client] = "collator" /\ pc'[Client] = "SwitchFrameParser"
              /\ UNCHANGED drain
         \/ WaitForDrainCompletion /\ pc'[Client] = "idle"
         \/ \E fn \in Functions : CallInSequence(fn) /\ pc[Client] = fn /\ pc'[Client] = NextCall(fn)
<1>0. pc \in [Processes \cup {Client} -> Places]
  BY FnTypes
<1>1. ASSUME NEW l, Goto(Client, l)  PROVE pc'[Client] = l
  BY <1>0, <1>1 DEF Goto
<1>2. CASE \E mode \in {"block", "return", "switch"}, discard \in BOOLEAN : Launch(mode, discard)
  <2>1. PICK mode \in {"block", "return", "switch"}, discard \in BOOLEAN : Launch(mode, discard)
    BY <1>2
  <2>2. Goto(Client, IF discard THEN "drop" ELSE "number")
    BY <2>1 DEF Launch
  <2>3. pc'[Client] \in {"drop", "number"}
    BY <1>1, <2>2
  <2>4. QED  BY <2>1, <2>3
<1>3. CASE DiscardQueuedDecodes \/ ReleaseQueuedDecodeBuffers \/ MarkerNumber \/ MarkerInsert
  <2>1. /\ pc[Client] \in Entering
        /\ \E l \in Entering \cup {"ResetTimeMapping"} : Goto(Client, l)
    BY <1>3 DEF DiscardQueuedDecodes, ReleaseQueuedDecodeBuffers, MarkerNumber, MarkerInsert, At,
         Entering
  <2>2. UNCHANGED switching
    BY <1>3 DEF DiscardQueuedDecodes, ReleaseQueuedDecodeBuffers, MarkerNumber, MarkerInsert,
         switchVars
  <2>3. drain'.mode = drain.mode
    <3>1. CASE MarkerNumber
      <4>1. drain' = [drain EXCEPT !.seq = next + RingSize]
        BY <3>1 DEF MarkerNumber
      <4>2. drain \in [mode : {"block", "return", "switch"}, seq : Nat]
        BY DEF Types
      <4>3. QED  BY <4>1, <4>2
    <3>2. CASE UNCHANGED drain
      BY <3>2
    <3>3. QED  BY <1>3, <3>1, <3>2 DEF DiscardQueuedDecodes, ReleaseQueuedDecodeBuffers, MarkerInsert,
                 clientVars
  <2>4. QED  BY <1>1, <2>1, <2>2, <2>3
<1>4. CASE SwitchCollator
  BY <1>1, <1>4 DEF SwitchCollator, At, clientVars
<1>5. CASE WaitForDrainCompletion
  BY <1>1, <1>5 DEF WaitForDrainCompletion
<1>6. CASE \E fn \in Functions : CallInSequence(fn)
  BY <1>1, <1>6 DEF CallInSequence, At
<1>7. ASSUME NEW p \in Processes, NEW l, Goto(p, l)
      PROVE  UNCHANGED pc[Client]
  BY <1>7, ProcessIs DEF Goto
<1>8. CASE \/ \E p \in Processes : ProcessStep(p)
           \/ DecodeComplete \/ Manifested \/ Collate \/ UNCHANGED vars
  <2>1. UNCHANGED pc[Client]
    BY <1>7, <1>8, ProcessIs, ZenonT(60)
     DEF ProcessStep, TakeCall, Finish, Take, CollateToParse, PassToCodec, PassToManifestor,
         PostManifest, DecodeComplete, Manifested, Collate, Passed, processVars, vars
  <2>2. UNCHANGED drain
    BY <1>8, ZenonT(60)
     DEF ProcessStep, TakeCall, Finish, Take, CollateToParse, PassToCodec, PassToManifestor,
         PostManifest, DecodeComplete, Manifested, Collate, clientVars, vars
  <2>3. QED  BY <2>1, <2>2
<1>9. QED
  BY <1>2, <1>3, <1>4, <1>5, <1>6, <1>8 DEF Next, ClientStep

LEMMA SwitchingFrom ==
  ASSUME Types, [Next]_vars, pc'[Client] = "collator" \/ Switching'
  PROVE  /\ drain' = drain
         /\ \/ At(Client, "collator") \/ Switching
            \/ pc[Client] = "SetDrained" /\ pc'[Client] = "collator" /\ drain.mode = "switch"
         /\ Switching' => Switching \/ SwitchCollator
<1>0. drain.mode \in {"block", "return", "switch"}
  BY DEF Types
<1>1. CASE UNCHANGED <<pc[Client], drain>>
  BY <1>1 DEF Switching, At
<1>2. CASE SwitchCollator /\ pc[Client] = "collator" /\ UNCHANGED drain
  BY <1>2 DEF At
<1>3. ASSUME NEW fn \in Functions, CallInSequence(fn), pc[Client] = fn, pc'[Client] = NextCall(fn)
      PROVE  /\ drain' = drain
             /\ \/ At(Client, "collator") \/ Switching
                \/ pc[Client] = "SetDrained" /\ pc'[Client] = "collator" /\ drain.mode = "switch"
             /\ Switching' => Switching \/ SwitchCollator
  <2>1. NextCall(fn) # "idle"
    BY <1>3 DEF Switching
  <2>2. drain' = drain
    BY <1>3, <2>1 DEF CallInSequence
  <2>3. fn # "ResetTimeMapping"
    BY <1>3 DEF Switching, NextCall
  <2>4. CASE fn = "SetDrained"
    BY <1>0, <1>3, <2>2, <2>4 DEF Switching, NextCall
  <2>5. CASE fn # "SetDrained"
    BY <1>3, <2>2, <2>3, <2>5 DEF Switching, Functions
  <2>6. QED  BY <2>4, <2>5
<1>4. pc'[Client] \notin {"drop", "number", "idle", "ResetTimeMapping"} \cup Entering
  BY DEF Switching, Entering
<1>5. QED
  BY <1>1, <1>2, <1>3, <1>4, ClientPlaceStep

LEMMA SwitchCallsStep ==
  ASSUME Types, Types', Contents, Contents', [Next]_vars, NEW d, d \in SwitchCalls'
  PROVE  d \in SwitchCalls \/ (Switching /\ d.n = launched)
<1>1. PICK p \in {"CtoP", "PtoD", "PostM"} : d \in Pending(p)' /\ d.kind # "SetDrained"
  BY DEF SwitchCalls
<1>2. CASE d \in Pending(p)
  BY <1>1, <1>2 DEF SwitchCalls
<1>3. CASE \E fn \in Functions : CallInSequence(fn) /\ Destination(fn) = p /\ d = Call(fn)
  <2>1. PICK fn \in Functions : CallInSequence(fn) /\ Destination(fn) = p /\ d = Call(fn)
    BY <1>3
  <2>2. pc[Client] = fn /\ d.n = launched /\ d.kind = fn
    BY <2>1, CallLine DEF CallInSequence, At
  <2>3. fn \in {"SwitchFrameParser", "SwitchCodec", "SwitchComplete"}
    BY <1>1, <2>1, <2>2, Destinations
  <2>4. QED  BY <2>2, <2>3 DEF Switching
<1>4. QED  BY <1>1, <1>2, <1>3, PendingStep, ProcessIs

LEMMA SwitchingOn ==
  ASSUME Types, [Next]_vars, switching'
  PROVE  switching \/ SwitchCollator
<1>1. ASSUME NEW calls, Perform(calls)  PROVE switching
  BY <1>1 DEF Perform
<1>2. (\E calls : Perform(calls)) \/ UNCHANGED switching \/ SwitchCollator
  <2>1. CASE CollateToParse \/ \E p \in Processes : TakeCall(p) \/ Finish(p) \/ Take(p)
    BY <2>1, ZenonT(60) DEF CollateToParse, TakeCall, Finish, Take
  <2>2. CASE PostManifest
    BY <2>2 DEF PostManifest
  <2>3. CASE \/ PassToCodec \/ PassToManifestor \/ DecodeComplete \/ Manifested
             \/ \E mode \in {"block", "return", "switch"}, discard \in BOOLEAN :
                  Launch(mode, discard)
             \/ ClientStep \/ Collate \/ UNCHANGED vars
    BY <2>3, ZenonT(60) DEF PassToCodec, PassToManifestor, DecodeComplete, Manifested, Launch,
         ClientStep, DiscardQueuedDecodes, ReleaseQueuedDecodeBuffers, MarkerNumber, MarkerInsert,
         CallInSequence, WaitForDrainCompletion, Collate, switchVars, vars
  <2>4. QED  BY <2>1, <2>2, <2>3 DEF Next, ProcessStep
<1>3. CASE UNCHANGED switching
  BY <1>3
<1>4. CASE SwitchCollator
  BY <1>4
<1>5. CASE \E calls : Perform(calls)
  BY <1>1, <1>5
<1>6. QED  BY ONLY <1>2, <1>3, <1>4, <1>5

LEMMA CollatorPlace ==
  ASSUME Types, Contents, SwitchFlag, SwitchCollator
  PROVE  /\ pc[Client] = "collator" /\ pc'[Client] = "SwitchFrameParser" /\ switching'
         /\ ~switching /\ SwitchCalls = {} /\ ~Switching /\ drain.mode = "switch"
         /\ UNCHANGED <<parser, codec>> /\ collator' = collator + 1
<1>1. pc[Client] = "collator"
  BY DEF SwitchCollator, At
<1>2. pc'[Client] = "SwitchFrameParser"
  BY FnTypes DEF SwitchCollator, Goto
<1>3. switching' /\ UNCHANGED <<parser, codec>> /\ collator' = collator + 1
  BY DEF SwitchCollator
<1>4. drain.mode = "switch" /\ ~switching
  BY <1>1 DEF SwitchFlag, Draining, At
<1>5. SwitchCalls = {} /\ ~Switching
  BY <1>4 DEF SwitchFlag
<1>6. QED  BY <1>1, <1>2, <1>3, <1>4, <1>5

(* The flag is not set while a drain waits to begin a switch.              *)
LEMMA DrainingNext ==
  ASSUME Types, Types', Contents, SwitchFlag, [Next]_vars, drain'.mode = "switch", Draining'
  PROVE  ~switching'
<1>1. SUFFICES ~switching
  <2>1. ~SwitchCollator
    BY CollatorPlace DEF Draining, Entering
  <2>2. QED  BY <2>1, SwitchingOn
<1>2. Draining /\ drain.mode = "switch" => ~switching
  BY DEF SwitchFlag
<1>3. CASE UNCHANGED <<pc[Client], drain>>
  BY <1>2, <1>3 DEF Draining
<1>4. ASSUME NEW mode \in {"block", "return", "switch"}, NEW discard \in BOOLEAN,
             Launch(mode, discard)
      PROVE  ~switching
  <2>1. drain' = [drain EXCEPT !.mode = mode] /\ (mode = "switch" => ~switching)
    BY <1>4 DEF Launch
  <2>2. drain'.mode = mode
    BY <2>1 DEF Types
  <2>3. QED  BY <2>1, <2>2
<1>5. CASE pc[Client] \in Entering /\ drain'.mode = drain.mode
  BY <1>2, <1>5 DEF Draining
<1>6. CASE pc'[Client] = "SwitchFrameParser" \/ pc'[Client] = "idle"
  BY <1>6 DEF Draining, Entering
<1>7. ASSUME NEW fn \in Functions, CallInSequence(fn), pc[Client] = fn, pc'[Client] = NextCall(fn)
      PROVE  ~switching
  <2>1. drain.mode \in {"block", "return", "switch"}
    BY DEF Types
  <2>2. fn \in {"ResetTimeMapping", "SetDrained"}
    BY <1>7, <2>1 DEF Draining, Entering, NextCall, Functions
  <2>3. NextCall(fn) # "idle"
    BY <1>7 DEF Draining, Entering
  <2>4. drain' = drain
    BY <1>7, <2>3 DEF CallInSequence
  <2>5. QED  BY <1>2, <1>7, <2>2, <2>4 DEF Draining
<1>8. QED  BY <1>3, <1>4, <1>5, <1>6, <1>7, ClientPlaceStep

LEMMA SwitchFlagNext ==
  ASSUME Types, Types', Contents, Contents', OneMarker, CallsOnce, Agree, CallsInTime,
         SwitchNumber, SwitchFlag, [Next]_vars
  PROVE  SwitchFlag'
<1>1. ASSUME ~switching'  PROVE SwitchCalls' = {} /\ ~Switching'
  <2>1. CASE switching
    BY <1>1, <2>1, SwitchOver
  <2>2. CASE ~switching
    <3>1. SwitchCalls = {} /\ ~Switching
      BY <2>2 DEF SwitchFlag
    <3>2. SwitchCalls' = {}
      BY <3>1, SwitchCallsStep
    <3>3. ~SwitchCollator
      BY <1>1, CollatorPlace
    <3>4. QED  BY <3>1, <3>2, <3>3, SwitchingFrom
  <2>3. QED  BY <2>1, <2>2
<1>2. drain'.mode = "switch" /\ Draining' => ~switching'
  BY DrainingNext
<1>3. ASSUME pc'[Client] = "collator" \/ Switching'
      PROVE  drain'.mode = "switch"
  <2>1. CASE At(Client, "collator") \/ Switching
    BY <1>3, <2>1, SwitchingFrom DEF SwitchFlag
  <2>2. QED  BY <1>3, <2>1, SwitchingFrom
<1>4. QED  BY <1>1, <1>2, <1>3 DEF SwitchFlag, At

LEMMA SwitchNumberNext ==
  ASSUME Types, Types', Contents, Contents', SwitchNumber, SwitchFlag, [Next]_vars
  PROVE  SwitchNumber'
<1>1. ASSUME NEW c, c \in SwitchCalls', NEW d, d \in SwitchCalls'  PROVE c.n = d.n
  <2>1. c \in SwitchCalls \/ (Switching /\ c.n = launched)
    BY <1>1, SwitchCallsStep
  <2>2. d \in SwitchCalls \/ (Switching /\ d.n = launched)
    BY <1>1, SwitchCallsStep
  <2>3. CASE Switching
    BY <2>1, <2>2, <2>3 DEF SwitchNumber
  <2>4. CASE ~Switching
    BY <2>1, <2>2, <2>4 DEF SwitchNumber
  <2>5. QED  BY <2>3, <2>4
<1>2. ASSUME Switching', NEW c, c \in SwitchCalls'  PROVE c.n = launched'
  <2>1. Switching \/ SwitchCollator
    BY <1>2, SwitchingFrom
  <2>2. launched' = launched
    <3>1. Calling' /\ ~MarkerInsert
      <4>1. Calling'
        BY <1>2 DEF Switching, Calling, Entering
      <4>2. MarkerInsert => pc'[Client] = "ResetTimeMapping"
        BY FnTypes DEF MarkerInsert, Goto
      <4>3. QED  BY <1>2, <4>1, <4>2 DEF Switching
    <3>2. QED  BY <3>1, CallingStep
  <2>3. CASE Switching
    BY <1>2, <2>2, <2>3, SwitchCallsStep DEF SwitchNumber
  <2>4. CASE SwitchCollator
    <3>1. SwitchCalls = {} /\ ~Switching
      BY <2>4, CollatorPlace
    <3>2. QED  BY <1>2, <3>1, SwitchCallsStep
  <2>5. QED  BY <2>1, <2>3, <2>4
<1>3. QED  BY <1>1, <1>2 DEF SwitchNumber

(* The part of a process is changed by the call that is made to it.        *)
LEMMA PartChanged ==
  ASSUME Types, Contents, [Next]_vars, ~SwitchCollator, NEW p \in Switched,
         PartOf(p)' # PartOf(p)
  PROVE  \E d \in Pending(p) : \/ TakeCall(p) /\ d = Head(ring[p])
                               \/ Finish(p) /\ d \in Due(after[p], hand[p].seq)
<1> PICK fn : fn = IF p = "CtoP" THEN "SwitchFrameParser" ELSE "SwitchCodec"
  OBVIOUS
<1>0. p \in Processes /\ p # "PostM" /\ p # "DtoM" /\ Destination(fn) = p /\ fn \notin Befores
  BY SwitchedIs, Destinations DEF Switched, Befores, Functions
<1>1. ASSUME NEW calls, Perform(calls)  PROVE \E c \in calls : c.kind = fn
  BY <1>1 DEF Perform, Named, PartOf, Switched
<1>2. ASSUME NEW q \in Processes, NEW c, c.kind = fn
      PROVE  /\ c \notin before[q]
             /\ c \in after[q] => q = p /\ c \in Pending(p)
             /\ c \in Items(ring[q]) /\ IsCall(c) => q = p /\ c \in Pending(p)
  <2>1. c \notin before[q]
    BY <1>0, <1>2 DEF Contents
  <2>2. c \in after[q] => q = p
    BY <1>0, <1>2 DEF Contents, ACall
  <2>3. c \in Items(ring[q]) /\ IsCall(c) => q = p
    BY <1>0, <1>2, NoCalls DEF Contents, ACall
  <2>4. QED  BY <2>1, <2>2, <2>3 DEF Pending, Tables
<1>3. ASSUME NEW q \in Processes, NEW S, NEW T, S \subseteq before[q], T \subseteq after[q],
             Perform(S \cup T)
      PROVE  q = p
  <2>1. PICK c \in S \cup T : c.kind = fn
    BY <1>1, <1>3
  <2>2. QED  BY <1>2, <1>3, <2>1
<1>4. ASSUME CollateToParse  PROVE FALSE
  <2>1. PICK b : Perform(Due(before["CtoP"], b.seq))
    BY <1>4 DEF CollateToParse
  <2>2. PICK c \in Due(before["CtoP"], b.seq) : c.kind = fn
    BY <1>1, <2>1
  <2>3. QED  BY <1>2, <2>2, ProcessIs DEF Due
<1>5. ASSUME NEW q \in Processes, Take(q)  PROVE FALSE
  <2>1. PICK b : b = Head(ring[q])
    OBVIOUS
  <2>2. PICK S, T : /\ S = Due(before[q], b.seq)
                    /\ T = IF q = "DtoM" /\ IsMarker(b) THEN Due(after[q], b.seq) ELSE {}
    OBVIOUS
  <2>3. Perform(S \cup T)
    BY <1>5, <2>1, <2>2 DEF Take
  <2>4. S \subseteq before[q] /\ T \subseteq after[q]
    BY <2>2 DEF Due
  <2>5. PICK c \in S \cup T : c.kind = fn
    BY <1>1, <2>3
  <2>6. c \in T
    BY <1>2, <2>4, <2>5
  <2>7. q = "DtoM"
    BY <2>2, <2>6
  <2>8. QED  BY <1>0, <1>3, <2>3, <2>4, <2>7
<1>6. ASSUME PostManifest  PROVE FALSE
  <2>1. PICK b : b = Head(ring["PostM"])
    OBVIOUS
  <2>2. PICK S, T : S = Due(before["PostM"], b.seq) /\ T = Due(after["PostM"], b.seq)
    OBVIOUS
  <2>3. Perform(S \cup T)
    BY <1>6, <2>1, <2>2 DEF PostManifest
  <2>4. S \subseteq before["PostM"] /\ T \subseteq after["PostM"]
    BY <2>2 DEF Due
  <2>5. QED  BY <1>0, <1>3, <2>3, <2>4, ProcessIs
<1>7. ASSUME NEW q \in Processes, Finish(q)
      PROVE  \E d \in Pending(p) : Finish(p) /\ d \in Due(after[p], hand[p].seq)
  <2>1. Perform(Due(after[q], hand[q].seq))
    BY <1>7 DEF Finish
  <2>2. PICK c \in Due(after[q], hand[q].seq) : c.kind = fn
    BY <1>1, <2>1
  <2>3. q = p /\ c \in Pending(p)
    BY <1>2, <2>2 DEF Due
  <2>4. QED  BY <1>7, <2>2, <2>3
<1>8. ASSUME NEW q \in Processes, TakeCall(q)
      PROVE  \E d \in Pending(p) : TakeCall(p) /\ d = Head(ring[p])
  <2>1. PICK d : d = Head(ring[q])
    OBVIOUS
  <2>2. Perform({d}) \/ Perform({})
    BY <1>8, <2>1, TakeCallThen
  <2>3. d.kind = fn
    BY <1>1, <2>2
  <2>4. d \in Items(ring[q]) /\ IsCall(d)
    BY <1>8, <2>1, TakeCallIs
  <2>5. q = p /\ d \in Pending(p)
    BY <1>2, <2>3, <2>4
  <2>6. QED  BY <1>8, <2>1, <2>5
<1>9. CASE \/ PassToCodec \/ PassToManifestor \/ DecodeComplete \/ Manifested
           \/ \E mode \in {"block", "return", "switch"}, discard \in BOOLEAN :
                Launch(mode, discard)
           \/ ClientStep \/ Collate \/ UNCHANGED vars
  <2>1. UNCHANGED <<parser, codec>>
    BY <1>9, ZenonT(60) DEF PassToCodec, PassToManifestor, DecodeComplete, Manifested, Launch,
         ClientStep, DiscardQueuedDecodes, ReleaseQueuedDecodeBuffers, MarkerNumber, MarkerInsert,
         CallInSequence, WaitForDrainCompletion, Collate, switchVars, vars
  <2>2. QED  BY <2>1 DEF PartOf
<1>10. QED  BY <1>4, <1>5, <1>6, <1>7, <1>8, <1>9 DEF Next, ProcessStep

LEMMA UntilStep ==
  ASSUME Types, Types', Contents, [Next]_vars, ~SwitchCollator, NEW p \in Switched
  PROVE  /\ pc'[Client] \in Until(p) => pc[Client] \in Until(p)
         /\ pc[Client] \in Until(p) =>
              \/ pc'[Client] \in Until(p)
              \/ \E fn \in Functions : CallInSequence(fn) /\ Destination(fn) = p
<1>1. Until(p) \subseteq Functions \ {"ResetTimeMapping", "SetDrained"}
  BY DEF Until, Functions
<1>2. CASE UNCHANGED pc[Client]
  BY <1>2
<1>3. ASSUME NEW fn \in Functions, CallInSequence(fn), pc[Client] = fn, pc'[Client] = NextCall(fn)
      PROVE  /\ pc'[Client] \in Until(p) => pc[Client] \in Until(p)
             /\ pc[Client] \in Until(p) =>
                  \/ pc'[Client] \in Until(p)
                  \/ \E g \in Functions : CallInSequence(g) /\ Destination(g) = p
  <2>1. drain.mode \in {"block", "return", "switch"}
    BY DEF Types
  <2>2. NextCall(fn) \in Until(p) => fn = "SwitchFrameParser" /\ p = "PtoD"
    BY <2>1 DEF Until, NextCall, Functions, Switched
  <2>3. fn \in Until(p) => Destination(fn) = p \/ NextCall(fn) \in Until(p)
    BY Destinations DEF Until, NextCall, Functions, Switched
  <2>4. "SwitchFrameParser" \in Until(p)
    BY DEF Until
  <2>5. QED  BY <1>3, <2>2, <2>3, <2>4
<1>4. pc[Client] \in Functions =>
        /\ pc[Client] \notin Entering
        /\ \A mode, discard : ~Launch(mode, discard)
        /\ ~WaitForDrainCompletion
  BY DEF Functions, Entering, Launch, WaitForDrainCompletion, At
<1>5. pc'[Client] \in Until(p) => pc'[Client] \notin Entering \cup {"idle", "ResetTimeMapping"}
  BY <1>1 DEF Functions, Entering
<1>6. "drop" \in Entering /\ "number" \in Entering
  BY DEF Entering
<1>7. QED  BY <1>1, <1>2, <1>3, <1>4, <1>5, <1>6, ClientPlaceStep

(* While a call is still to be made, none has been.                        *)
LEMMA PartKept ==
  ASSUME Types, Types', Contents, Contents', OneMarker, CallsOnce, Agree, Tabled, SwitchNumber,
         [Next]_vars, ~SwitchCollator, NEW p \in Switched, Lags(p)'
  PROVE  Lags(p) /\ PartOf(p)' = PartOf(p)
<1>0. p \in Processes
  BY SwitchedIs
<1>1. \/ pc[Client] \in Until(p)
      \/ \E c \in Pending(p) : c \in Pending(p)'
  <2>1. Lags(p)' <=> (\E c : c \in Pending(p)') \/ pc'[Client] \in Until(p)
    BY DEF Lags, Until
  <2>2. CASE pc'[Client] \in Until(p)
    BY <2>2, UntilStep
  <2>3. ASSUME NEW c, c \in Pending(p)', c \notin Pending(p)
        PROVE  pc[Client] \in Until(p)
    <3>1. PICK fn \in Functions : CallInSequence(fn) /\ Destination(fn) = p
      BY <1>0, <2>3, PendingStep
    <3>2. pc[Client] = fn
      BY <3>1 DEF CallInSequence, At
    <3>3. QED  BY <3>1, <3>2, Destinations DEF Until, Switched
  <2>4. QED  BY <2>1, <2>2, <2>3
<1>2. ASSUME PartOf(p)' # PartOf(p)  PROVE FALSE
  <2>1. PICK d \in Pending(p) : \/ TakeCall(p) /\ d = Head(ring[p])
                                \/ Finish(p) /\ d \in Due(after[p], hand[p].seq)
    BY <1>2, PartChanged
  <2>2. d \in SwitchCalls /\ d.kind = (IF p = "CtoP" THEN "SwitchFrameParser" ELSE "SwitchCodec")
        /\ <<d.n, d.seq>> \in Known /\ d.n \in Int
    BY SwitchCallIs DEF Switched
  <2>3. CASE pc[Client] \in Until(p)
    <3>1. d.n = launched
      BY <2>2, <2>3 DEF SwitchNumber, Switching, Until
    <3>2. pc[Client] \in Afterwards(d.kind)
      BY <1>0, <2>1, <3>1 DEF CallsOnce
    <3>3. QED  BY <2>2, <2>3, <3>2 DEF Afterwards, Until, Switched
  <2>4. ASSUME NEW c \in Pending(p), c \in Pending(p)'  PROVE FALSE
    <3>1. c.kind = d.kind /\ c.n = d.n /\ c.seq = d.seq /\ IsCall(c)
      <4>1. c \in SwitchCalls /\ <<c.n, c.seq>> \in Known /\ c.kind = d.kind /\ IsCall(c)
        BY <2>2, <2>4, SwitchCallIs DEF Switched
      <4>2. c.n = d.n
        BY <2>2, <4>1 DEF SwitchNumber
      <4>3. QED  BY <2>2, <4>1, <4>2 DEF Agree
    <3>2. c \notin before'[p]
      <4>1. c.kind \notin Befores
        BY <2>2, <3>1 DEF Befores
      <4>2. QED  BY <1>0, <4>1 DEF Contents
    <3>3. c \in Items(ring'[p]) \/ c \in after'[p]
      <4>1. c \in Items(ring[p])' \/ c \in before'[p] \/ c \in after'[p]
        BY <2>4 DEF Pending, Tables
      <4>2. QED  BY <3>2, <4>1 DEF Items
    <3>4. CASE TakeCall(p) /\ d = Head(ring[p])
      <4>1. /\ ring[p] \in Seq(Buffer) /\ ring[p] # << >> /\ ring'[p] = Tail(ring[p]) /\ IsCall(d)
        BY <1>0, <3>4, TakeCallIs, FnTypes
      <4>2. c \notin Items(ring'[p])
        <5>1. CallsOrdered(ring[p])
          BY <1>0 DEF CallsOnce
        <5>2. c \in Items(Tail(ring[p])) => d.n < c.n
          BY <3>1, <3>4, <4>1, <5>1, OrderedCallsTail
        <5>3. QED  BY <2>2, <3>1, <4>1, <5>2
      <4>3. after[p] = {}
        BY <3>4, NoneWaits
      <4>4. d.kind \notin Befores
        BY <2>2 DEF Befores
      <4>5. PartOf(p)' = PartOf(p) \/ d.seq <= seen[p]
        <5>1. ASSUME Perform({})  PROVE PartOf(p)' = PartOf(p)
          BY <5>1 DEF Perform, Named, PartOf
        <5>2. QED  BY <1>0, <3>4, <5>1, TakeCallThen
      <4>6. after' = after
        BY <1>0, <1>2, <3>4, <4>5, TakeCallThen
      <4>7. QED  BY <3>3, <4>2, <4>3, <4>6
    <3>5. CASE Finish(p) /\ d \in Due(after[p], hand[p].seq)
      <4>1. ring' = ring /\ after'[p] = after[p] \ Due(after[p], hand[p].seq)
        BY <1>0, <3>5, FinishThen
      <4>2. c \notin after'[p]
        BY <3>1, <3>5, <4>1 DEF Due
      <4>3. c \notin Items(ring[p])
        <5>1. d \in Tables(p)
          BY <3>5 DEF Due, Tables
        <5>2. QED  BY <1>0, <2>2, <3>1, <5>1 DEF CallsOnce
      <4>4. QED  BY <3>3, <4>1, <4>2, <4>3
    <3>6. QED  BY <2>1, <3>4, <3>5
  <2>5. QED  BY <1>1, <2>3, <2>4
<1>3. QED  BY <1>1, <1>2 DEF Lags

LEMMA PartRenewed ==
  ASSUME Types, Types', Contents, Contents', OneMarker, CallsOnce, Agree, Tabled,
         [Next]_vars, ~SwitchCollator, NEW p \in Switched, Lags(p), ~Lags(p)'
  PROVE  PartOf(p)' = collator
<1>1. (\A c : c \notin Pending(p)') /\ pc'[Client] \notin Until(p)
  BY DEF Lags, Until
<1>2. CASE \E c : c \in Pending(p)
  BY <1>1, <1>2, PendingOrMade DEF Renews
<1>3. CASE pc[Client] \in Until(p)
  <2>1. PICK fn \in Functions : CallInSequence(fn) /\ Destination(fn) = p
    BY <1>1, <1>3, UntilStep
  <2>2. PICK b : b = Call(fn)
    OBVIOUS
  <2>3. b \in Pending(p)'
    BY <2>1, <2>2, CallInSequenceIs, SwitchedIs
  <2>4. QED  BY <1>1, <2>3
<1>4. QED  BY <1>2, <1>3 DEF Lags

LEMMA SwitchPartsNext ==
  ASSUME Types, Types', Contents, Contents', OneMarker, CallsOnce, Agree, Tabled,
         SwitchFlag, SwitchNumber, SwitchParts, [Next]_vars
  PROVE  SwitchParts'
<1>1. SUFFICES ASSUME NEW p \in Switched
               PROVE  PartOf(p)' = IF Lags(p)' THEN collator' - 1 ELSE collator'
  BY DEF SwitchParts
<1>2. PartOf(p) = IF Lags(p) THEN collator - 1 ELSE collator
  BY DEF SwitchParts
<1>3. CASE SwitchCollator
  <2>1. /\ pc[Client] = "collator" /\ pc'[Client] = "SwitchFrameParser" /\ SwitchCalls = {}
        /\ UNCHANGED <<parser, codec>> /\ collator' = collator + 1
    BY <1>3, CollatorPlace
  <2>2. ~Lags(p)
    BY <2>1, SwitchCallIs DEF Lags, Until
  <2>3. Lags(p)'
    BY <2>1 DEF Lags, Until
  <2>4. PartOf(p)' = PartOf(p)
    BY <2>1 DEF PartOf
  <2>5. collator \in Nat
    BY DEF Types
  <2>6. QED  BY <1>2, <2>1, <2>2, <2>3, <2>4, <2>5
<1>4. CASE ~SwitchCollator
  <2>1. collator' = collator /\ PartOf(p)' \in {PartOf(p), collator}
    BY <1>4, PartsStep DEF PartOf
  <2>2. CASE Lags(p)'
    BY <1>2, <1>4, <2>1, <2>2, PartKept
  <2>3. CASE ~Lags(p)' /\ Lags(p)
    BY <1>4, <2>1, <2>3, PartRenewed
  <2>4. CASE ~Lags(p)' /\ ~Lags(p)
    BY <1>2, <2>1, <2>4
  <2>5. QED  BY <2>2, <2>3, <2>4
<1>5. QED  BY <1>3, <1>4

LEMMA SInit ==
  ASSUME StreamAssumption, Init  PROVE SInv
<1>1. PInv
  BY PInit
<1>2. Types /\ Contents
  BY <1>1 DEF PInv, KInv
<1>3. /\ pc[Client] = "idle" /\ switching = FALSE
      /\ parser = 0 /\ codec = 0 /\ collator = 0
      /\ \A p \in Processes : ring[p] = << >> /\ before[p] = {} /\ after[p] = {}
  BY ProcessIs DEF Init
<1>4. \A p \in Processes : Pending(p) = {}
  BY <1>3 DEF Pending, Items, Tables
<1>5. StillFrames /\ CallingSeen
  BY <1>3 DEF StillFrames, CallingSeen, Calling, Entering, At
<1>6. Tabled /\ CallsInTime /\ CallsInPlace
  BY <1>3, <1>4, SwitchedIs DEF Tabled, CallsInTime, CallsInPlace
<1>7. SwitchCalls = {}
  BY <1>4, ProcessIs DEF SwitchCalls
<1>8. SwitchFlag /\ SwitchNumber
  BY <1>3, <1>7 DEF SwitchFlag, SwitchNumber, Switching, Draining, Entering, At
<1>9. SwitchParts
  <2>1. \A p \in Switched : ~Lags(p)
    BY <1>3, <1>4, SwitchedIs DEF Lags, Until
  <2>2. QED  BY <1>3, <2>1 DEF SwitchParts, PartOf
<1>10. QED  BY <1>1, <1>5, <1>6, <1>8, <1>9 DEF SInv

LEMMA SNext ==
  ASSUME StreamAssumption, Patient, Still, SInv, [Next]_vars  PROVE SInv'
<1>1. PInv /\ PInv'
  BY PNext DEF SInv
<1>2. Types /\ Types' /\ Contents /\ Contents' /\ InOrder(sent, Line) /\ OneMarker
      /\ CallsOnce /\ Numbers /\ Agree /\ Discards
  BY <1>1 DEF PInv, KInv
<1>3. StillFrames /\ CallingSeen /\ Tabled /\ CallsInTime /\ CallsInPlace
      /\ SwitchFlag /\ SwitchNumber /\ SwitchParts
  BY DEF SInv
<1>4. StillFrames'
  BY <1>2, <1>3, StillFramesNext
<1>5. CallingSeen' /\ Tabled'
  BY <1>2, <1>3, CallingSeenNext, TabledNext
<1>6. CallsInTime'
  BY <1>2, <1>3, CallsInTimeNext
<1>7. CallsInPlace'
  BY <1>2, <1>3, CallsInPlaceNext
<1>8. SwitchFlag' /\ SwitchNumber'
  BY <1>2, <1>3, SwitchFlagNext, SwitchNumberNext
<1>9. SwitchParts'
  BY <1>2, <1>3, SwitchPartsNext
<1>10. QED  BY <1>1, <1>4, <1>5, <1>6, <1>7, <1>8, <1>9 DEF SInv

LEMMA SAlways == Patient /\ Still => (Spec => []SInv)
<1>1. Init => SInv
  BY SInit, StreamAssumption
<1>2. Patient /\ Still /\ SInv /\ [Next]_vars => SInv'
  BY SNext, StreamAssumption
<1>3. CASE Patient /\ Still
  <2>1. SInv /\ [Next]_vars => SInv'
    BY <1>2, <1>3
  <2>2. QED  BY <1>1, <2>1, PTL DEF Spec
<1>4. QED  BY <1>3

(* A patient client that injects nothing while it drains: the parser and   *)
(* the codec in use are the ones the last switch or the one before it      *)
(* brought, so what an earlier one replaced can be deleted, although       *)
(* HavanaStream_c::Switch does not wait for the switch it begins           *)
(* (havana_stream.cpp:1259). SwitchStreamInProgress is enough only because *)
(* the call that clears it comes to the last process behind the calls that *)
(* change the parser and the codec.                                        *)
THEOREM SwitchesApart == Patient /\ Still => (Spec => []OldPartsUnused)
<1>1. SInv => OldPartsUnused
  <2>1. SUFFICES ASSUME SwitchParts  PROVE {parser, codec} \subseteq {collator - 1, collator}
    BY DEF SInv, OldPartsUnused
  <2>2. PartOf("CtoP") = parser /\ PartOf("PtoD") = codec
    BY DEF PartOf
  <2>3. \A p \in Switched : PartOf(p) \in {collator - 1, collator}
    BY <2>1 DEF SwitchParts
  <2>4. QED  BY <2>2, <2>3 DEF Switched
<1>2. QED  BY <1>1, SAlways, PTL

-----------------------------------------------------------------------------
(* Frames and what they are parsed and decoded with: a frame that a        *)
(* process has yet to see is for the old part while the call that replaces *)
(* the part is behind it, or has not been made.                            *)
Old(p, f) == (\E c \in Pending(p) : Behind(f) < c.n) \/ pc[Client] \in Until(p)
FramesMatch ==
  \A p \in Switched : \A f \in From(Line, Place(p)) :
    IsFrame(f) => sent[f.n].collator = IF Old(p, f) THEN collator - 1 ELSE collator
HandMatch ==
  At("PtoD", "pass") /\ IsFrame(hand["PtoD"]) => sent[hand["PtoD"].n].collator = codec
HandSeen == \A p \in Switched : ~At(p, "idle") => hand[p].seq <= seen[p]

MInv == SInv /\ FramesMatch /\ HandMatch /\ HandSeen

LEMMA SeesHand ==
  ASSUME Types, NEW p \in Switched, NEW b, Sees(p, b)
  PROVE  pc'[p] = "idle" \/ hand'[p] = b
<1>0. p \in Processes /\ pc \in [Processes \cup {Client} -> Places]
      /\ hand \in [Processes -> Buffer]
  BY SwitchedIs, FnTypes
<1>1. CASE CollateToParse /\ p = "CtoP" /\ b = Parsed
  <2>1. Passed("CtoP", b)
    BY <1>1 DEF CollateToParse, Parsed
  <2>2. QED  BY <1>0, <1>1, <2>1 DEF Passed, Goto
<1>2. CASE Take(p) /\ b = Head(ring[p])
  BY <1>0, <1>2 DEF Take
<1>3. QED  BY <1>1, <1>2 DEF Sees

LEMMA HandSeenNext ==
  ASSUME Types, Types', Contents, Numbers, HandSeen, [Next]_vars  PROVE HandSeen'
<1>1. SUFFICES ASSUME NEW p \in Switched, pc'[p] # "idle"
               PROVE  hand'[p].seq <= seen'[p]
  BY DEF HandSeen, At
<1>0. p \in Processes /\ p \in Readers /\ pc \in [Processes \cup {Client} -> Places]
      /\ hand \in [Processes -> Buffer]
  BY SwitchedIs, FnTypes
<1>2. CASE TakeCall(p)
  BY <1>0, <1>1, <1>2, TakeCallThen DEF HandSeen, At
<1>3. CASE Finish(p)
  BY <1>0, <1>1, <1>3 DEF Finish, Goto
<1>4. ASSUME NEW b, Sees(p, b)  PROVE hand'[p].seq <= seen'[p]
  <2>1. hand'[p] = b /\ seen'[p] >= b.seq /\ b.seq \in Int
    BY <1>0, <1>1, <1>4, SeesHand, SeesIs
  <2>2. seen'[p] \in Int
    BY <1>0, SeenGrows
  <2>3. QED  BY <2>1, <2>2
<1>5. CASE p = "PtoD" /\ PassToCodec
  <2>1. seen' = seen /\ pc["PtoD"] = "pass" /\ Passed("PtoD", hand["PtoD"])
    BY <1>5 DEF PassToCodec, At
  <2>2. hand'["PtoD"] = hand["PtoD"]
    BY <1>0, <1>1, <1>5, <2>1 DEF Passed, Goto
  <2>3. QED  BY <1>5, <2>1, <2>2 DEF HandSeen, At
<1>6. CASE UNCHANGED Own(p)
  BY <1>1, <1>6 DEF Own, HandSeen, At
<1>7. QED  BY <1>2, <1>3, <1>4, <1>5, <1>6, SwitchedSteps

(* When a call is made, the frames before it have gone.                    *)
LEMMA FramesAfter ==
  ASSUME Types, Contents, InOrder(sent, Line), OneMarker, Agree, HandSeen,
         NEW p \in Switched, NEW c \in Pending(p), Ripe(p, c),
         NEW f \in From(Line, Place(p)), IsFrame(f)
  PROVE  Behind(f) >= c.n
<1> PICK h : h = Place(p)
  OBVIOUS
<1>0. /\ p \in Processes /\ p \in Readers /\ h \in Parts /\ h > 1 /\ h \in Int
      /\ c.n \in 1 .. marked /\ <<c.n, c.seq>> \in Known /\ c.seq \in Int /\ marked \in Nat
      /\ Line \in Lines
  BY SwitchedIs, SwitchCallIs, CountTypes, LineTyped DEF Counts
<1>1. seen[p] >= c.seq
  <2>1. seen[p] \in Int /\ hand[p].seq \in Int
    <3>1. hand[p] \in Buffer /\ seen[p] \in Int
      BY <1>0, FnTypes
    <3>2. QED  BY <3>1, BufferFacts
  <2>2. CASE At(p, "idle") /\ c.seq <= seen[p]
    BY <1>0, <2>1, <2>2
  <2>3. CASE At(p, "finish") /\ c.seq <= hand[p].seq
    <3>1. hand[p].seq <= seen[p]
      BY <2>3 DEF HandSeen, At
    <3>2. QED  BY <1>0, <2>1, <2>3, <3>1
  <2>4. QED  BY <2>2, <2>3 DEF Ripe
<1>2. PICK k \in Parts : k >= h /\ f \in Items(Line[k])
  BY FromPart
<1>3. f \in From(Line, 1) /\ k \in Int /\ k > 1
  <2>1. k \in Int /\ k > 1
    BY <1>0, <1>2, PartsAreNumbers
  <2>2. QED  BY <1>2, <2>1, FromPart
<1>4. /\ AFrame(f) /\ Behind(f) \in Nat /\ Behind(f) >= marked - 1
      /\ SomeMarker(1) \/ Behind(f) = marked
  <2>1. AFrame(f)
    BY <1>3, LineHolds, Kinds DEF AMarker
  <2>2. QED  BY <1>3, <2>1, BehindIs DEF OneMarker, LineBehind
<1>5. CASE c.n # marked
  BY <1>0, <1>4, <1>5
<1>6. ASSUME c.n = marked, SomeMarker(1)
      PROVE  Behind(f) >= marked
  <2>1. ~SomeMarker(h)
    BY <1>0, <1>1, <1>6 DEF Agree, Met
  <2>2. PICK m \in From(Line, 1) : IsMarker(m)
    BY <1>6 DEF SomeMarker
  <2>3. m.n = marked
    BY <2>2 DEF OneMarker, MarkersLast, Markers
  <2>4. PICK j \in Parts : m \in Items(Line[j])
    BY <2>2, FromPart
  <2>5. j < k
    <3>1. ~(j >= h)
      BY <2>1, <2>2, <2>4, FromPart DEF SomeMarker
    <3>2. j \in Int
      BY PartsAreNumbers
    <3>3. QED  BY <1>0, <1>2, <1>3, <3>1, <3>2
  <2>6. Precedes(sent, m, f)
    <3>1. PICK i \in 1 .. Len(Line[j]) : Line[j][i] = m
      BY <2>4 DEF Items
    <3>2. PICK l \in 1 .. Len(Line[k]) : Line[k][l] = f
      BY <1>2 DEF Items
    <3>3. QED  BY <2>5, <3>1, <3>2 DEF InOrder
  <2>7. m.n <= Behind(f)
    BY <2>2, <2>6 DEF Precedes, Behind
  <2>8. QED  BY <1>0, <1>4, <2>3, <2>7
<1>7. QED  BY <1>0, <1>4, <1>5, <1>6

LEMMA OldSame ==
  ASSUME Types, Types', Contents, Contents', InOrder(sent, Line), OneMarker, CallsOnce, Agree,
         Tabled, StillFrames, HandSeen, [Next]_vars, ~SwitchCollator,
         NEW p \in Switched, NEW f \in From(Line, Place(p)), AFrame(f)
  PROVE  Old(p, f) <=> \/ \E c : c \in Pending(p)' /\ Behind(f) < c.n
                       \/ pc'[Client] \in Until(p)
<1>0. p \in Processes /\ Behind(f) \in Nat /\ IsFrame(f)
  BY SwitchedIs, BehindIs DEF AFrame
<1>1. ASSUME NEW c \in Pending(p), Behind(f) < c.n
      PROVE  c \in Pending(p)'
  <2>1. Ripe(p, c) => Behind(f) >= c.n
    BY <1>0, FramesAfter
  <2>2. c.n \in Int
    <3>1. c.n \in 1 .. marked
      BY SwitchCallIs
    <3>2. QED  BY <3>1
  <2>3. ~Ripe(p, c)
    BY <1>0, <1>1, <2>1, <2>2
  <2>4. QED  BY <2>3, PendingOrMade
<1>2. ASSUME pc[Client] \in Until(p)
      PROVE  \/ \E c : c \in Pending(p)' /\ Behind(f) < c.n
             \/ pc'[Client] \in Until(p)
  <2>1. ASSUME NEW fn \in Functions, CallInSequence(fn), Destination(fn) = p
        PROVE  \E c : c \in Pending(p)' /\ Behind(f) < c.n
    <3>1. PICK b : b = Call(fn)
      OBVIOUS
    <3>2. b \in Pending(p)' /\ b.n = launched
      BY <1>0, <2>1, <3>1, CallInSequenceIs
    <3>3. Behind(f) < launched
      <4>1. pc[Client] # "idle"
        BY <1>2 DEF Until
      <4>2. QED  BY <4>1 DEF StillFrames, AFrame, Behind
    <3>4. QED  BY <3>2, <3>3
  <2>2. QED  BY <1>2, <2>1, UntilStep
<1>3. ASSUME NEW c, c \in Pending(p)', Behind(f) < c.n
      PROVE  c \in Pending(p) \/ pc[Client] \in Until(p)
  <2>1. ASSUME NEW fn \in Functions, CallInSequence(fn), Destination(fn) = p
        PROVE  pc[Client] \in Until(p)
    BY <2>1, Destinations DEF CallInSequence, At, Until, Switched
  <2>2. QED  BY <1>0, <1>3, <2>1, PendingStep
<1>4. pc'[Client] \in Until(p) => pc[Client] \in Until(p)
  BY UntilStep
<1>5. QED  BY <1>1, <1>2, <1>3, <1>4 DEF Old

LEMMA SentStays ==
  ASSUME Types, Types', Contents, [Next]_vars, NEW f, AFrame(f)
  PROVE  sent'[f.n] = sent[f.n]
<1>1. CASE \E mode \in {"block", "return", "switch"}, discard \in BOOLEAN : Launch(mode, discard)
  BY <1>1 DEF Launch
<1>2. CASE Collate
  <2>1. PICK b : b = Frame(Len(sent) + 1)
    OBVIOUS
  <2>2. QED  BY <1>2, <2>1, CollateLine DEF AFrame
<1>3. QED  BY <1>1, <1>2, ClientSteps

LEMMA FramesMatchNext ==
  ASSUME Still, Types, Types', Contents, Contents', InOrder(sent, Line), Discards, OneMarker,
         CallsOnce, Agree, Tabled, StillFrames, SwitchFlag, HandSeen, FramesMatch, [Next]_vars
  PROVE  FramesMatch'
<1>1. ASSUME \A p \in Switched : \A f : f \in From(Line', Place(p)) /\ IsFrame(f) =>
               sent'[f.n].collator =
                 IF (\E c : c \in Pending(p)' /\ sent'[f.n].drains < c.n)
                      \/ pc'[Client] \in Until(p)
                 THEN collator' - 1 ELSE collator'
      PROVE  FramesMatch'
  <2>1. \A p \in Switched : Place(p)' = Place(p)
    BY DEF Place
  <2>2. QED  BY <1>1, <2>1 DEF FramesMatch, From, Items, Old, Behind, Until
<1>2. SUFFICES ASSUME NEW p \in Switched, NEW f \in From(Line', Place(p)), IsFrame(f)
               PROVE  sent'[f.n].collator =
                        IF (\E c : c \in Pending(p)' /\ sent'[f.n].drains < c.n)
                             \/ pc'[Client] \in Until(p)
                        THEN collator' - 1 ELSE collator'
  BY <1>1
<1>0. p \in Processes /\ Place(p) \in Reads /\ Place(p) \in Parts
  BY SwitchedIs, PlaceIs DEF Reads, Switched
<1>3. ASSUME Collate, f.n = Len(sent) + 1
      PROVE  sent'[f.n].collator =
               IF (\E c : c \in Pending(p)' /\ sent'[f.n].drains < c.n)
                    \/ pc'[Client] \in Until(p)
               THEN collator' - 1 ELSE collator'
  <2>1. PICK b : b = Frame(Len(sent) + 1)
    OBVIOUS
  <2>2. sent'[f.n] = [drains |-> marked, collator |-> collator]
    BY <1>3, <2>1, CollateLine
  <2>3. collator' = collator /\ marked' = marked /\ pc' = pc /\ marked \in Nat
    BY <1>3, CountTypes DEF Collate, switchVars, clientVars, processVars, Counts
  <2>4. pc[Client] = "idle"
    BY <1>3 DEF Collate, At
  <2>5. ASSUME NEW c, c \in Pending(p)'  PROVE ~(marked < c.n)
    <3>1. c \in Pending(p)
      <4>1. ASSUME NEW fn \in Functions, CallInSequence(fn)  PROVE FALSE
        BY <2>4, <4>1 DEF CallInSequence, At, Functions
      <4>2. QED  BY <1>0, <2>5, <4>1, PendingStep
    <3>2. c.n \in 1 .. marked
      BY <3>1, SwitchCallIs
    <3>3. QED  BY <2>3, <3>2
  <2>6. pc'[Client] \notin Until(p)
    BY <2>3, <2>4 DEF Until
  <2>7. QED  BY <2>2, <2>3, <2>5, <2>6
<1>4. ASSUME NEW g \in From(Line, Place(p)), IsFrame(g), g.n = f.n
      PROVE  sent'[f.n].collator =
               IF (\E c : c \in Pending(p)' /\ sent'[f.n].drains < c.n)
                    \/ pc'[Client] \in Until(p)
               THEN collator' - 1 ELSE collator'
  <2>1. AFrame(g)
    <3>1. g \in From(Line, 1)
      <4>1. PICK k \in Parts : g \in Items(Line[k])
        BY <1>4, FromPart
      <4>2. QED  BY <4>1, FromPart, PartsAreNumbers
    <3>2. QED  BY <1>4, <3>1, LineHolds, Kinds DEF AMarker
  <2>2. sent'[f.n] = sent[g.n] /\ sent'[f.n].drains = Behind(g)
    BY <1>4, <2>1, SentStays DEF Behind
  <2>3. sent[g.n].collator = IF Old(p, g) THEN collator - 1 ELSE collator
    BY <1>4 DEF FramesMatch
  <2>4. CASE SwitchCollator
    <3>1. /\ pc[Client] = "collator" /\ pc'[Client] = "SwitchFrameParser" /\ SwitchCalls = {}
          /\ collator' = collator + 1
      BY <2>4, CollatorPlace
    <3>2. ~Old(p, g)
      BY <3>1, SwitchCallIs DEF Old, Until
    <3>3. pc'[Client] \in Until(p)
      BY <3>1 DEF Until
    <3>4. collator \in Nat
      BY DEF Types
    <3>5. QED  BY <2>2, <2>3, <3>1, <3>2, <3>3, <3>4
  <2>5. CASE ~SwitchCollator
    <3>1. collator' = collator
      BY <2>5, PartsStep
    <3>2. Old(p, g) <=> \/ \E c : c \in Pending(p)' /\ Behind(g) < c.n
                        \/ pc'[Client] \in Until(p)
      BY <2>1, <2>5, OldSame
    <3>3. QED  BY <2>2, <2>3, <3>1, <3>2
  <2>6. QED  BY <2>4, <2>5
<1>5. QED  BY <1>0, <1>3, <1>4, FramesFrom, <1>2

(* A process sees a frame of its part.                                     *)
LEMMA SeenMatches ==
  ASSUME Types, Types', Contents, InOrder(sent, Line), OneMarker, Numbers, Agree, CallsInPlace,
         Tabled, SwitchParts, FramesMatch, NEW p \in Switched, NEW b, Sees(p, b), IsFrame(b)
  PROVE  sent[b.n].collator = PartOf(p)
<1> PICK k : k = Place(p)
  OBVIOUS
<1> PICK h : h = Line[k][1]
  OBVIOUS
<1>0. /\ p \in Readers /\ Line[k] # << >> /\ b.kind = h.kind /\ b.n = h.n
      /\ Line[k] = ring[p] /\ Line[k] \in Seq(Buffer) /\ k \in Parts
  <2>1. p \in Readers /\ k \in Parts /\ Line[k] = ring[p] /\ p \in Processes
    BY SwitchedIs
  <2>2. Line[k] # << >> /\ b.kind = h.kind /\ b.n = h.n
    BY <2>1, SeesIs
  <2>3. QED  BY <2>1, <2>2, FnTypes
<1>1. IsFrame(h) /\ ~IsCall(h)
  BY <1>0, Kinds DEF IsFrame
<1>2. h \in Items(Line[k]) /\ Head(Line[k]) = h
  BY <1>0, TailFacts, ItemsTail
<1>3. h \in From(Line, k)
  <2>1. k \in Int
    BY <1>0, PartsAreNumbers
  <2>2. QED  BY <1>0, <1>2, <2>1, FromPart
<1>4. ASSUME NEW c \in Pending(p)  PROVE Behind(h) < c.n
  <2>1. c \in Items(Line[k]) \/ c \in after[p]
    BY <1>0, SwitchCallIs
  <2>2. c # h
    BY <1>1, SwitchCallIs
  <2>3. c \in Items(Tail(Line[k])) \/ c \in after[p]
    BY <1>0, <1>2, <2>1, <2>2, ItemsTail
  <2>4. Early(b, c)
    BY <2>3, SeenEarly
  <2>5. QED  BY <1>0, <2>4 DEF Early, Behind
<1>5. Old(p, h) <=> Lags(p)
  BY <1>4 DEF Old, Lags
<1>6. QED  BY <1>0, <1>1, <1>3, <1>5 DEF FramesMatch, SwitchParts

LEMMA CodecStays ==
  ASSUME Types, Contents, [Next]_vars, ~TakeCall("PtoD"), ~Finish("PtoD")
  PROVE  codec' = codec
<1>1. "PtoD" \in Switched /\ PartOf("PtoD") = codec /\ PartOf("PtoD")' = codec'
  BY DEF Switched, PartOf
<1>2. CASE SwitchCollator
  BY <1>2 DEF SwitchCollator
<1>3. QED  BY <1>1, <1>2, PartChanged

LEMMA HandMatchNext ==
  ASSUME Types, Types', Contents, InOrder(sent, Line), OneMarker, Numbers, Agree, CallsInPlace,
         Tabled, SwitchParts, FramesMatch, HandMatch, [Next]_vars
  PROVE  HandMatch'
<1>0. "PtoD" \in Switched /\ "PtoD" \in Processes /\ PartOf("PtoD") = codec
      /\ pc \in [Processes \cup {Client} -> Places]
  BY ProcessIs, FnTypes DEF Switched, PartOf
<1>1. SUFFICES ASSUME pc'["PtoD"] = "pass", IsFrame(hand'["PtoD"])
               PROVE  sent'[hand'["PtoD"].n].collator = codec'
  BY DEF HandMatch, At
<1>2. ~Finish("PtoD")
  BY <1>0, <1>1 DEF Finish, Goto
<1>3. CASE TakeCall("PtoD")
  BY <1>0, <1>1, <1>3, TakeCallThen
<1>4. ASSUME NEW b, Sees("PtoD", b)  PROVE sent'[hand'["PtoD"].n].collator = codec'
  <2>1. hand'["PtoD"] = b
    BY <1>0, <1>1, <1>4, SeesHand
  <2>2. sent[b.n].collator = codec
    BY <1>0, <1>1, <1>4, <2>1, SeenMatches
  <2>3. ~TakeCall("PtoD")
    BY <1>4 DEF Sees, Take, TakeCall
  <2>4. codec' = codec
    BY <1>2, <2>3, CodecStays
  <2>5. AFrame(b)
    <3>1. "PtoD" \in Readers
      BY DEF Readers
    <3>2. QED  BY <1>1, <1>4, <2>1, <3>1, SeesIs, Kinds DEF AMarker
  <2>6. sent'[b.n] = sent[b.n]
    BY <2>5, SentStays
  <2>7. QED  BY <2>1, <2>2, <2>4, <2>6
<1>5. CASE PassToCodec
  <2>1. Passed("PtoD", hand["PtoD"])
    BY <1>5 DEF PassToCodec
  <2>2. QED  BY <1>0, <1>1, <2>1 DEF Passed, Goto
<1>6. CASE UNCHANGED Own("PtoD") /\ ~TakeCall("PtoD")
  <2>1. PICK f : f = hand["PtoD"]
    OBVIOUS
  <2>2. hand'["PtoD"] = f /\ pc["PtoD"] = "pass" /\ IsFrame(f)
    BY <1>1, <1>6, <2>1 DEF Own
  <2>3. codec' = codec
    BY <1>2, <1>6, CodecStays
  <2>4. AFrame(f)
    BY <2>1, <2>2, Kinds DEF Contents, At, AMarker
  <2>5. sent'[f.n] = sent[f.n]
    BY <2>4, SentStays
  <2>6. sent[f.n].collator = codec
    BY <2>1, <2>2 DEF HandMatch, At
  <2>7. QED  BY <2>2, <2>3, <2>5, <2>6
<1>7. QED  BY <1>0, <1>2, <1>3, <1>4, <1>5, <1>6, SwitchedSteps

LEMMA ParserGives ==
  ASSUME Types, Types', Contents, [Next]_vars,
         Len(ring'["PtoD"]) > Len(ring["PtoD"]), IsFrame(Last(ring'["PtoD"]))
  PROVE  \E b : Sees("CtoP", b) /\ Last(ring'["PtoD"]) = b
<1>0. /\ ring \in [Processes -> Seq(Buffer)] /\ "PtoD" \in Processes /\ "CtoP" \in Processes
      /\ ring["PtoD"] \in Seq(Buffer) /\ Len(ring["PtoD"]) \in Nat
  BY FnTypes, ProcessIs
<1>1. ASSUME ring'["PtoD"] = ring["PtoD"] \/ (ring["PtoD"] # << >> /\ ring'["PtoD"] = Tail(ring["PtoD"]))
      PROVE  FALSE
  <2>1. ring["PtoD"] # << >> => Len(Tail(ring["PtoD"])) = Len(ring["PtoD"]) - 1
    BY <1>0, TailFacts
  <2>2. QED  BY <1>0, <1>1, <2>1
<1>2. ASSUME NEW q \in Processes, NEW b \in Buffer, Insert(q, b), q # "PtoD"
      PROVE  FALSE
  BY <1>0, <1>1, <1>2 DEF Insert
<1>3. CASE CollateToParse
  <2>1. PICK b : b = Parsed
    OBVIOUS
  <2>2. ring'["PtoD"] = ring["PtoD"] \/ ring'["PtoD"] = Append(ring["PtoD"], b)
    BY <1>0, <1>3, <2>1 DEF CollateToParse, Parsed
  <2>3. ring'["PtoD"] = Append(ring["PtoD"], b)
    BY <1>1, <2>2
  <2>4. b \in Buffer
    BY <1>3, <2>1, CollateToParseLine DEF Parsed
  <2>5. Last(ring'["PtoD"]) = b
    <3>1. /\ Len(Append(ring["PtoD"], b)) = Len(ring["PtoD"]) + 1
          /\ Append(ring["PtoD"], b)[Len(ring["PtoD"]) + 1] = b
      BY <1>0, <2>4, AppendFacts
    <3>2. QED  BY <2>3, <3>1 DEF Last
  <2>6. QED  BY <1>3, <2>1, <2>5 DEF Sees
<1>4. ASSUME NEW q \in Processes, Take(q) \/ TakeCall(q) \/ Finish(q)  PROVE FALSE
  BY <1>0, <1>1, <1>4 DEF Take, TakeCall, Finish
<1>5. ASSUME PostManifest  PROVE FALSE
  BY <1>0, <1>1, <1>5, ProcessIs DEF PostManifest
<1>6. ASSUME PassToCodec  PROVE FALSE
  <2>1. hand["PtoD"] \in Buffer
    BY <1>0, FnTypes
  <2>2. QED  BY <1>1, <1>2, <1>6, <2>1, ProcessIs DEF PassToCodec
<1>7. ASSUME PassToManifestor  PROVE FALSE
  <2>1. hand["DtoM"] \in Buffer
    BY FnTypes, ProcessIs
  <2>2. QED  BY <1>1, <1>2, <1>7, <2>1, ProcessIs DEF PassToManifestor
<1>8. ASSUME DecodeComplete \/ ReleaseQueuedDecodeBuffers  PROVE FALSE
  BY <1>0, <1>1, <1>8 DEF DecodeComplete, ReleaseQueuedDecodeBuffers
<1>9. ASSUME Manifested \/ MarkerInsert \/ Collate  PROVE FALSE
  BY <1>0, <1>1, <1>9 DEF Manifested, MarkerInsert, Collate, Insert
<1>10. ASSUME NEW fn \in Functions, CallInSequence(fn)  PROVE FALSE
  <2>1. PICK b : b = Call(fn)
    OBVIOUS
  <2>2. /\ b \in Buffer /\ IsCall(b)
        /\ ring'["PtoD"] = ring["PtoD"] \/ ring'["PtoD"] = Append(ring["PtoD"], b)
    BY <1>0, <1>10, <2>1, CallInSequenceIs
  <2>3. ring'["PtoD"] = Append(ring["PtoD"], b)
    BY <1>1, <2>2
  <2>4. Last(ring'["PtoD"]) = b
    <3>1. /\ Len(Append(ring["PtoD"], b)) = Len(ring["PtoD"]) + 1
          /\ Append(ring["PtoD"], b)[Len(ring["PtoD"]) + 1] = b
      BY <1>0, <2>2, AppendFacts
    <3>2. QED  BY <2>3, <3>1 DEF Last
  <2>5. QED  BY <2>2, <2>4, Kinds
<1>11. ASSUME UNCHANGED ring  PROVE FALSE
  BY <1>1, <1>11
<1>12. CASE \/ \E mode \in {"block", "return", "switch"}, discard \in BOOLEAN :
                 Launch(mode, discard)
            \/ DiscardQueuedDecodes \/ MarkerNumber \/ SwitchCollator
            \/ WaitForDrainCompletion \/ UNCHANGED vars
  BY <1>11, <1>12
   DEF Launch, DiscardQueuedDecodes, MarkerNumber, SwitchCollator, WaitForDrainCompletion, vars
<1>13. QED
  BY <1>3, <1>4, <1>5, <1>6, <1>7, <1>8, <1>9, <1>10, <1>12
   DEF Next, ProcessStep, ClientStep

LEMMA CodecTakes ==
  ASSUME Types, [Next]_vars, Len(inflight') > Len(inflight)
  PROVE  At("PtoD", "pass") /\ IsFrame(hand["PtoD"]) /\ Last(inflight') = hand["PtoD"]
<1>0. inflight \in Seq(Buffer) /\ Len(inflight) \in Nat /\ hand["PtoD"] \in Buffer
  BY FnTypes, ProcessIs
<1>1. inflight' # inflight /\ (inflight # << >> => inflight' # Tail(inflight))
  <2>1. inflight # << >> => Len(Tail(inflight)) = Len(inflight) - 1
    BY <1>0, TailFacts
  <2>2. QED  BY <1>0, <2>1
<1>2. CASE PassToCodec
  <2>1. At("PtoD", "pass") /\ IsFrame(hand["PtoD"]) /\ inflight' = Append(inflight, hand["PtoD"])
    BY <1>1, <1>2 DEF PassToCodec, codecVars
  <2>2. /\ Len(Append(inflight, hand["PtoD"])) = Len(inflight) + 1
        /\ Append(inflight, hand["PtoD"])[Len(inflight) + 1] = hand["PtoD"]
    BY <1>0, AppendFacts
  <2>3. QED  BY <2>1, <2>2 DEF Last
<1>3. ~DecodeComplete
  BY <1>1 DEF DecodeComplete
<1>4. ASSUME \/ \E p \in Processes : TakeCall(p) \/ Finish(p) \/ Take(p)
             \/ CollateToParse \/ PassToManifestor \/ PostManifest \/ Manifested
             \/ \E mode \in {"block", "return", "switch"}, discard \in BOOLEAN :
                  Launch(mode, discard)
             \/ ClientStep \/ Collate \/ UNCHANGED vars
      PROVE  inflight' = inflight
  BY <1>4, ZenonT(60) DEF TakeCall, Finish, Take, CollateToParse, PassToManifestor, PostManifest,
       Manifested, Launch, ClientStep, DiscardQueuedDecodes, ReleaseQueuedDecodeBuffers,
       MarkerNumber, MarkerInsert, CallInSequence, SwitchCollator, WaitForDrainCompletion, Collate,
       codecVars, vars
<1>5. QED  BY <1>1, <1>2, <1>3, <1>4 DEF Next, ProcessStep

LEMMA MInit ==
  ASSUME StreamAssumption, Init  PROVE MInv
<1>1. SInv
  BY SInit
<1>2. Types
  BY <1>1 DEF SInv, PInv, KInv
<1>3. \A p \in Processes : pc[p] = "idle" /\ ring[p] = << >>
  BY ProcessIs DEF Init
<1>4. HandMatch /\ HandSeen
  BY <1>3, ProcessIs, SwitchedIs DEF HandMatch, HandSeen, At
<1>5. ASSUME NEW p \in Switched, NEW f \in From(Line, Place(p)), IsFrame(f)  PROVE FALSE
  <2>1. PICK k \in Parts : k >= Place(p) /\ f \in Items(Line[k])
    BY FromPart
  <2>2. Place(p) \in {5, 6}
    BY PlaceIs DEF Switched
  <2>3. k \in {5, 6}
    <3>1. k \in Int /\ k <= 6
      BY PartsAreNumbers
    <3>2. QED  BY <2>1, <2>2, <3>1
  <2>4. Line[k] = << >>
    BY <1>3, <2>3, LineIs, ProcessIs
  <2>5. QED  BY <2>1, <2>4 DEF Items
<1>6. QED  BY <1>1, <1>4, <1>5 DEF MInv, FramesMatch

LEMMA MNext ==
  ASSUME StreamAssumption, Patient, Still, MInv, [Next]_vars  PROVE MInv'
<1>1. SInv /\ SInv'
  BY SNext DEF MInv
<1>2. Types /\ Types' /\ Contents /\ Contents' /\ InOrder(sent, Line) /\ OneMarker
      /\ CallsOnce /\ Numbers /\ Agree /\ Discards
  BY <1>1 DEF SInv, PInv, KInv
<1>3. StillFrames /\ CallsInPlace /\ Tabled /\ SwitchFlag /\ SwitchParts
      /\ FramesMatch /\ HandMatch /\ HandSeen
  BY DEF MInv, SInv
<1>4. FramesMatch'
  BY <1>2, <1>3, FramesMatchNext
<1>5. HandMatch'
  BY <1>2, <1>3, HandMatchNext
<1>6. HandSeen'
  BY <1>2, <1>3, HandSeenNext
<1>7. QED  BY <1>1, <1>4, <1>5, <1>6 DEF MInv

LEMMA MAlways == Patient /\ Still => (Spec => []MInv)
<1>1. Init => MInv
  BY MInit, StreamAssumption
<1>2. Patient /\ Still /\ MInv /\ [Next]_vars => MInv'
  BY MNext, StreamAssumption
<1>3. CASE Patient /\ Still
  <2>1. MInv /\ [Next]_vars => MInv'
    BY <1>2, <1>3
  <2>2. QED  BY <1>1, <2>1, PTL DEF Spec
<1>4. QED  BY <1>3

(* A patient client that injects nothing while it drains: every frame is   *)
(* parsed and decoded by the parser and the codec that came with its       *)
(* collator (player_switch.cpp:68), though the calls that replace them     *)
(* come by other ways than the frames, and a frame is seen by a process    *)
(* before the codec takes it.                                              *)
THEOREM PartsMatchFrames == Patient /\ Still => (Spec => PartsMatch)
<1> DEFINE Matches ==
      /\ Len(ring'["PtoD"]) > Len(ring["PtoD"]) /\ IsFrame(Last(ring'["PtoD"])) =>
           sent[Last(ring'["PtoD"]).n].collator = parser
      /\ Len(inflight') > Len(inflight) =>
           sent[Last(inflight').n].collator = codec
<1>1. ASSUME MInv, Next  PROVE Matches
  <2>0. [Next]_vars
    BY <1>1
  <2>1. /\ Types /\ Types' /\ Contents /\ InOrder(sent, Line) /\ OneMarker /\ Numbers /\ Agree
        /\ CallsInPlace /\ Tabled /\ SwitchParts /\ FramesMatch /\ HandMatch
    <3>1. KInv'
      BY <1>1, <2>0, KNext, StreamAssumption DEF MInv, SInv, PInv
    <3>2. QED  BY <1>1, <3>1 DEF MInv, SInv, PInv, KInv
  <2>2. ASSUME Len(ring'["PtoD"]) > Len(ring["PtoD"]), IsFrame(Last(ring'["PtoD"]))
        PROVE  sent[Last(ring'["PtoD"]).n].collator = parser
    <3>1. PICK b : Sees("CtoP", b) /\ Last(ring'["PtoD"]) = b
      BY <2>0, <2>1, <2>2, ParserGives
    <3>2. "CtoP" \in Switched /\ PartOf("CtoP") = parser
      BY DEF Switched, PartOf
    <3>3. sent[b.n].collator = parser
      BY <2>1, <2>2, <3>1, <3>2, SeenMatches
    <3>4. QED  BY <3>1, <3>3
  <2>3. ASSUME Len(inflight') > Len(inflight)
        PROVE  sent[Last(inflight').n].collator = codec
    <3>1. At("PtoD", "pass") /\ IsFrame(hand["PtoD"]) /\ Last(inflight') = hand["PtoD"]
      BY <2>0, <2>1, <2>3, CodecTakes
    <3>2. QED  BY <2>1, <3>1 DEF HandMatch
  <2>4. QED  BY <2>2, <2>3
<1>2. MInv /\ [Next]_vars => [Matches]_vars
  BY <1>1
<1>3. CASE Patient /\ Still
  <2>1. Spec => []MInv
    BY <1>3, MAlways
  <2>2. QED  BY <1>2, <2>1, PTL DEF Spec, PartsMatch
<1>4. QED  BY <1>3
=============================================================================
