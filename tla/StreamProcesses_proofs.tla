----------------------- MODULE StreamProcesses_proofs -----------------------
(***************************************************************************)
(* Theorems about StreamProcesses, for any numbers of frames and calls,    *)
(* any sizes of rings and tables and any number of decode buffers.         *)
(*                                                                         *)
(* KInv: what is in the stream is in order, and whoever discards has the   *)
(* marker of the drain before it. PInv, for a client that drains only when *)
(* its last drain is complete: there is one marker at most, calls are made *)
(* once, and the numbers of a drain tell what was injected before it from  *)
(* what came after it. StreamCalls_proofs goes on from PInv.               *)
(***************************************************************************)
EXTENDS StreamProcesses, FiniteSetTheorems, TLAPS

(***************************************************************************)
(* The line of a stream, from the manifestor back to the collator: what    *)
(* DtoM has in hand and its ring, the codec with the marker that waits in  *)
(* it, what PtoD has in hand and its ring, and the ring of CtoP.           *)
(***************************************************************************)
Codec == [i \in 1 .. Len(inflight) + Held |->
            IF held = Nothing \/ i <= ahead THEN inflight[i]
            ELSE IF i = ahead + 1 THEN held ELSE inflight[i - 1]]

Parts == 1 .. 6
Line == [k \in Parts |->
           CASE k = 1 -> InHand("DtoM") [] k = 2 -> ring["DtoM"]
             [] k = 3 -> Codec
             [] k = 4 -> InHand("PtoD") [] k = 5 -> ring["PtoD"]
             [] k = 6 -> ring["CtoP"]]

(* Frames and markers follow each other as they were injected.             *)
Precedes(s, x, y) ==
  /\ IsFrame(x) /\ IsFrame(y) => x.n < y.n
  /\ IsFrame(x) /\ IsMarker(y) => s[x.n].drains < y.n
  /\ IsMarker(x) /\ IsFrame(y) => x.n <= s[y.n].drains
  /\ IsMarker(x) /\ IsMarker(y) => x.n < y.n

InOrder(s, Q) ==
  \A j, k \in Parts : \A a \in 1 .. Len(Q[j]), b \in 1 .. Len(Q[k]) :
    j < k \/ (j = k /\ a < b) => Precedes(s, Q[j][a], Q[k][b])

Items(s)   == {s[i] : i \in 1 .. Len(s)}
From(Q, k) == UNION {Items(Q[j]) : j \in {i \in Parts : i >= k}}
Place(p)   == CASE p = "CtoP" -> 6 [] p = "PtoD" -> 5 [] p = "DtoM" -> 2
                [] p = "PostM" -> 1
Readers    == {"CtoP", "PtoD", "DtoM"}

Entering == {"drop", "flush", "number", "insert"}
Places == Functions \cup Entering \cup {"idle", "pass", "finish", "collator", "wait"}

Types ==
  /\ ring \in [Processes -> Seq(Buffer)]
  /\ pc \in [Processes \cup {Client} -> Places]
  /\ pc["CtoP"] \in {"idle", "finish"} /\ pc["PostM"] = "idle"
  /\ \A p \in {"PtoD", "DtoM"} : pc[p] \in {"idle", "pass", "finish"}
  /\ pc[Client] \notin {"pass", "finish"}
  /\ hand \in [Processes -> Buffer] /\ keep \in [Processes -> BOOLEAN]
  /\ seen \in [Processes -> Int]
  /\ before \in [Processes -> SUBSET Buffer]
  /\ after \in [Processes -> SUBSET Buffer]
  /\ \A p \in Processes : IsFiniteSet(before[p]) /\ IsFiniteSet(after[p])
  /\ next \in Nat /\ marker \in Nat \cup {None}
  /\ discarding \in [Processes -> BOOLEAN] /\ drained \in BOOLEAN
  /\ inflight \in Seq(Buffer) /\ display \in Seq(Buffer)
  /\ held \in Buffer /\ ahead \in 0 .. Len(inflight)
  /\ drop \in 0 .. Len(inflight)
  /\ (held # Nothing) <=> (ahead > 0)
  /\ lastOut \in BOOLEAN /\ switching \in BOOLEAN
  /\ collator \in Nat /\ parser \in Nat /\ codec \in Nat
  /\ drain \in [mode : {"block", "return", "switch"}, seq : Nat]
  /\ sent \in Seq([drains : Nat, collator : Nat]) /\ Len(sent) <= MaxFrames
  /\ launched \in 0 .. MaxCalls /\ marked \in 0 .. MaxCalls
  /\ resets \in Nat

(* What is where.                                                          *)
AFrame(b)  == IsFrame(b) /\ b.n \in 1 .. Len(sent)
AMarker(b) == IsMarker(b) /\ b.n \in 1 .. marked /\ b.seq \in Nat
ACall(b, p) == /\ IsCall(b) /\ Destination(b.kind) = p
               /\ b.n \in 1 .. marked

Contents ==
  /\ \A p \in Processes : \A b \in Items(ring[p]) : AFrame(b) \/ AMarker(b) \/ ACall(b, p)
  /\ \A p \in Processes : \A b \in before[p] : ACall(b, p) /\ b.kind \in Befores
  /\ \A p \in Processes : \A b \in after[p] : ACall(b, p) /\ b.kind \notin Befores
  /\ \A b \in Items(inflight) \cup Items(display) : AFrame(b)
  /\ held = Nothing \/ AMarker(held)
  /\ \A p \in {"PtoD", "DtoM"} : ~At(p, "idle") => AFrame(hand[p]) \/ AMarker(hand[p])
  /\ At("CtoP", "finish") => AFrame(hand["CtoP"]) \/ AMarker(hand["CtoP"])
  /\ \A i \in 1 .. Len(sent) : sent[i].drains \in 0 .. marked
  /\ launched = IF pc[Client] \in Entering THEN marked + 1 ELSE marked
  /\ pc[Client] # "idle" => launched > 0

Behind(b) == sent[b.n].drains
MarkerIn(Q, k, n) == \E m \in From(Q, k) : IsMarker(m) /\ m.n = n
MarkerFrom(k, n)  == MarkerIn(Line, k, n)
Start(p)  == IF p = "DtoM" THEN 1 ELSE Place(p)

(* What is being discarded was injected before the marker of the last      *)
(* drain.                                                                  *)
Discards ==
  /\ \A p \in Readers : discarding[p] /\ marked = launched =>
       \/ MarkerFrom(Start(p), launched)
       \/ p = "DtoM" /\ At(p, "finish") /\ IsMarker(hand[p])
  /\ \A p \in {"PtoD", "DtoM"} : At(p, "pass") /\ ~keep[p] =>
       IsFrame(hand[p]) /\ Behind(hand[p]) < launched
  /\ \A i \in 1 .. drop : Behind(inflight[i]) < launched

KInv == Types /\ Contents /\ InOrder(sent, Line) /\ Discards
-----------------------------------------------------------------------------
(* Lines, as functions from 1 .. 6 to sequences of buffers, and what steps *)
(* do to them: a buffer leaves the line; the head of one part goes to the  *)
(* end of one before it, perhaps with another number; a buffer is added.   *)
Lines == [Parts -> Seq(Buffer)]

Removes(Q, R, k, j) ==
  /\ j \in 1 .. Len(Q[k]) /\ Len(R[k]) = Len(Q[k]) - 1
  /\ \A i \in 1 .. Len(R[k]) : R[k][i] = IF i < j THEN Q[k][i] ELSE Q[k][i + 1]
  /\ \A i \in Parts : i # k => R[i] = Q[i]

Moves(Q, R, k, l, b) ==
  /\ l < k /\ b \in Buffer /\ Q[k] # << >>
  /\ b.kind = Q[k][1].kind /\ b.n = Q[k][1].n
  /\ R[k] = Tail(Q[k]) /\ R[l] = Append(Q[l], b)
  /\ \A i \in Parts : l < i /\ i < k => Q[i] = << >>
  /\ \A i \in Parts : i # k /\ i # l => R[i] = Q[i]

Adds(Q, R, k, b) ==
  /\ b \in Buffer /\ R[k] = Append(Q[k], b)
  /\ \A i \in Parts : i # k => R[i] = Q[i]

LEMMA Kinds ==
  ASSUME NEW b
  PROVE  /\ IsCall(b) => ~IsFrame(b) /\ ~IsMarker(b)
         /\ ~(IsFrame(b) /\ IsMarker(b))
         /\ b = Nothing => ~IsCall(b) /\ ~IsFrame(b) /\ ~IsMarker(b)
  BY DEF IsCall, IsFrame, IsMarker, Functions, Nothing

LEMMA SameKind ==
  ASSUME NEW s, NEW x, NEW y, NEW z, x.kind = y.kind, x.n = y.n
  PROVE  /\ Precedes(s, x, z) <=> Precedes(s, y, z)
         /\ Precedes(s, z, x) <=> Precedes(s, z, y)
  BY DEF Precedes, IsFrame, IsMarker

LEMMA TailFacts ==
  ASSUME NEW B, NEW s \in Seq(B), s # << >>
  PROVE  /\ Tail(s) \in Seq(B) /\ Len(Tail(s)) = Len(s) - 1 /\ Len(s) \in Nat \ {0}
         /\ Head(s) = s[1] /\ s[1] \in B
         /\ \A i \in 1 .. Len(s) - 1 : Tail(s)[i] = s[i + 1]
  OBVIOUS

LEMMA AppendFacts ==
  ASSUME NEW B, NEW s \in Seq(B), NEW b \in B
  PROVE  /\ Append(s, b) \in Seq(B) /\ Len(Append(s, b)) = Len(s) + 1
         /\ Len(s) \in Nat /\ Append(s, b)[Len(s) + 1] = b
         /\ \A i \in 1 .. Len(s) : Append(s, b)[i] = s[i]
  OBVIOUS

LEMMA LineFacts ==
  ASSUME NEW Q \in Lines, NEW k \in Parts
  PROVE  /\ Q[k] \in Seq(Buffer) /\ Len(Q[k]) \in Nat
         /\ \A i \in 1 .. Len(Q[k]) : Q[k][i] \in Buffer
<1>1. Q[k] \in Seq(Buffer)
  BY DEF Lines
<1>2. QED  BY <1>1

LEMMA PartsAreNumbers == \A k \in Parts : k \in Int /\ k >= 1 /\ k <= 6
  BY DEF Parts

LEMMA FromHas ==
  ASSUME NEW Q, NEW k, NEW h \in Parts, h >= k, NEW a \in 1 .. Len(Q[h])
  PROVE  Q[h][a] \in From(Q, k)
  BY DEF From, Items

LEMMA RemoveKeepsOrder ==
  ASSUME NEW s, NEW Q \in Lines, NEW R \in Lines, InOrder(s, Q),
         NEW k \in Parts, NEW j, Removes(Q, R, k, j)
  PROVE  InOrder(s, R)
<1> DEFINE I(h, a) == IF h = k /\ a >= j THEN a + 1 ELSE a
<1>0. /\ \A h \in Parts : Len(Q[h]) \in Nat /\ Len(R[h]) \in Nat
      /\ j \in 1 .. Len(Q[k])
  BY LineFacts DEF Removes
<1>1. ASSUME NEW h \in Parts, NEW a \in 1 .. Len(R[h])
      PROVE  I(h, a) \in 1 .. Len(Q[h]) /\ R[h][a] = Q[h][I(h, a)]
  <2>1. CASE h = k  BY <1>0, <2>1 DEF Removes
  <2>2. CASE h # k  BY <1>0, <2>2 DEF Removes
  <2>3. QED  BY <2>1, <2>2
<1>2. ASSUME NEW h \in Parts, NEW a \in 1 .. Len(R[h]), NEW b \in 1 .. Len(R[h]), a < b
      PROVE  I(h, a) < I(h, b)
  BY <1>0, <1>2
<1> HIDE DEF I
<1>3. SUFFICES ASSUME NEW h \in Parts, NEW g \in Parts,
                      NEW a \in 1 .. Len(R[h]), NEW c \in 1 .. Len(R[g]),
                      h < g \/ (h = g /\ a < c)
               PROVE  Precedes(s, R[h][a], R[g][c])
  BY DEF InOrder
<1>4. Precedes(s, Q[h][I(h, a)], Q[g][I(g, c)])
  BY <1>1, <1>2, <1>3 DEF InOrder
<1>5. QED  BY <1>1, <1>4

LEMMA MoveKeepsOrder ==
  ASSUME NEW s, NEW Q \in Lines, NEW R \in Lines, InOrder(s, Q),
         NEW k \in Parts, NEW l \in Parts, NEW b, Moves(Q, R, k, l, b)
  PROVE  InOrder(s, R)
<1> DEFINE J(h, a) == IF h = l /\ a = Len(Q[l]) + 1 THEN k ELSE h
           I(h, a) == IF h = l /\ a = Len(Q[l]) + 1 THEN 1
                      ELSE IF h = k THEN a + 1 ELSE a
<1>0. \A h \in Parts : Len(Q[h]) \in Nat /\ Len(R[h]) \in Nat
  BY LineFacts
<1>a. /\ Len(R[k]) = Len(Q[k]) - 1 /\ Len(Q[k]) > 0
      /\ \A a \in 1 .. Len(Q[k]) - 1 : R[k][a] = Q[k][a + 1]
  <2>1. Q[k] \in Seq(Buffer) /\ Q[k] # << >> /\ R[k] = Tail(Q[k])
    BY LineFacts DEF Moves
  <2>2. QED  BY <2>1, TailFacts
<1>b. /\ Len(R[l]) = Len(Q[l]) + 1 /\ R[l][Len(Q[l]) + 1] = b
      /\ \A a \in 1 .. Len(Q[l]) : R[l][a] = Q[l][a]
  <2>1. Q[l] \in Seq(Buffer) /\ b \in Buffer /\ R[l] = Append(Q[l], b)
    BY LineFacts DEF Moves
  <2>2. QED  BY <2>1, AppendFacts
<1>c. /\ l < k /\ \A h \in Parts : l < h /\ h < k => Len(R[h]) = 0
      /\ \A h \in Parts : h # k /\ h # l => R[h] = Q[h]
      /\ b.kind = Q[k][1].kind /\ b.n = Q[k][1].n
  <2>1. /\ l < k /\ b.kind = Q[k][1].kind /\ b.n = Q[k][1].n
        /\ \A h \in Parts : h # k /\ h # l => R[h] = Q[h]
        /\ \A h \in Parts : l < h /\ h < k => Q[h] = << >>
    BY DEF Moves
  <2>2. ASSUME NEW h \in Parts, l < h, h < k  PROVE Len(R[h]) = 0
    <3>1. h # k /\ h # l
      BY <2>2, PartsAreNumbers
    <3>2. QED  BY <2>1, <2>2, <3>1
  <2>3. QED  BY <2>1, <2>2
<1>1. ASSUME NEW h \in Parts, NEW a \in 1 .. Len(R[h])
      PROVE  /\ J(h, a) \in Parts /\ I(h, a) \in 1 .. Len(Q[J(h, a)])
             /\ R[h][a].kind = Q[J(h, a)][I(h, a)].kind
             /\ R[h][a].n = Q[J(h, a)][I(h, a)].n
  <2>1. CASE h = k
    <3>1. a \in 1 .. Len(Q[k]) - 1 /\ J(h, a) = k /\ I(h, a) = a + 1
      BY <1>0, <1>a, <1>c, <2>1
    <3>2. QED  BY SMTT(30), <1>0, <1>a, <2>1, <3>1
  <2>2. CASE h = l
    <3>1. CASE a = Len(Q[l]) + 1
      BY <1>0, <1>a, <1>b, <1>c, <2>2, <3>1
    <3>2. CASE a # Len(Q[l]) + 1
      <4>1. a \in 1 .. Len(Q[l]) /\ J(h, a) = l /\ I(h, a) = a
        BY <1>0, <1>b, <1>c, <2>2, <3>2
      <4>2. QED  BY <1>b, <2>2, <4>1
    <3>3. QED  BY <3>1, <3>2
  <2>3. CASE h # k /\ h # l  BY <1>c, <2>3
  <2>4. QED  BY <2>1, <2>2, <2>3
<1>2. ASSUME NEW h \in Parts, NEW a \in 1 .. Len(R[h]),
             NEW g \in Parts, NEW c \in 1 .. Len(R[g]), h < g \/ (h = g /\ a < c)
      PROVE  \/ J(h, a) < J(g, c)
             \/ J(h, a) = J(g, c) /\ I(h, a) < I(g, c)
  <2>1. ~(l < h /\ h < k) /\ ~(l < g /\ g < k)
    BY <1>0, <1>c
  <2>2. a \in Int /\ c \in Int /\ a >= 1 /\ c >= 1 /\ Len(Q[l]) \in Nat
    BY <1>0
  <2>3. /\ h = l => a <= Len(Q[l]) + 1
        /\ g = l => c <= Len(Q[l]) + 1
    BY <1>0, <1>b
  <2>4. QED  BY <1>2, <1>c, <2>1, <2>2, <2>3 DEF Parts
<1> HIDE DEF J, I
<1>3. SUFFICES ASSUME NEW h \in Parts, NEW g \in Parts,
                      NEW a \in 1 .. Len(R[h]), NEW c \in 1 .. Len(R[g]),
                      h < g \/ (h = g /\ a < c)
               PROVE  Precedes(s, R[h][a], R[g][c])
  BY DEF InOrder
<1>4. Precedes(s, Q[J(h, a)][I(h, a)], Q[J(g, c)][I(g, c)])
  BY <1>1, <1>2, <1>3 DEF InOrder
<1>5. Precedes(s, R[h][a], Q[J(g, c)][I(g, c)])
  BY <1>1, <1>4, SameKind
<1>6. QED  BY <1>1, <1>5, SameKind

LEMMA AddKeepsOrder ==
  ASSUME NEW s, NEW Q \in Lines, NEW R \in Lines, InOrder(s, Q),
         NEW k \in Parts, NEW b, Adds(Q, R, k, b),
         \/ IsCall(b)
         \/ k = 6 /\ \A x \in From(Q, 1) : Precedes(s, x, b)
  PROVE  InOrder(s, R)
<1>0. \A h \in Parts : Len(Q[h]) \in Nat /\ Len(R[h]) \in Nat
  BY LineFacts
<1>b. /\ Len(R[k]) = Len(Q[k]) + 1 /\ R[k][Len(Q[k]) + 1] = b
      /\ \A a \in 1 .. Len(Q[k]) : R[k][a] = Q[k][a]
  <2>1. Q[k] \in Seq(Buffer) /\ b \in Buffer /\ R[k] = Append(Q[k], b)
    BY LineFacts DEF Adds
  <2>2. QED  BY <2>1, AppendFacts
<1>1. ASSUME NEW h \in Parts, NEW a \in 1 .. Len(R[h])
      PROVE  \/ a \in 1 .. Len(Q[h]) /\ R[h][a] = Q[h][a]
             \/ h = k /\ a = Len(Q[k]) + 1 /\ R[h][a] = b
  <2>1. CASE h = k  BY <1>0, <1>b, <2>1
  <2>2. CASE h # k  BY <2>2 DEF Adds
  <2>3. QED  BY <2>1, <2>2
<1>2. \A h \in Parts : \A a \in 1 .. Len(Q[h]) : Q[h][a] \in From(Q, 1)
  BY FromHas, PartsAreNumbers
<1>3. ASSUME IsCall(b)  PROVE \A x : Precedes(s, x, b) /\ Precedes(s, b, x)
  BY <1>3, Kinds DEF Precedes
<1>4. SUFFICES ASSUME NEW h \in Parts, NEW g \in Parts,
                      NEW a \in 1 .. Len(R[h]), NEW c \in 1 .. Len(R[g]),
                      h < g \/ (h = g /\ a < c)
               PROVE  Precedes(s, R[h][a], R[g][c])
  BY DEF InOrder
<1>5. CASE IsCall(b) /\ (R[h][a] = b \/ R[g][c] = b)
  BY <1>3, <1>5
<1>6. CASE ~IsCall(b) /\ R[h][a] = b /\ h = k /\ a = Len(Q[k]) + 1
  <2>1. g = k /\ c > Len(Q[k]) + 1
    BY <1>4, <1>6, PartsAreNumbers
  <2>2. QED  BY <1>0, <1>b, <2>1
<1>7. CASE ~IsCall(b) /\ R[g][c] = b /\ a \in 1 .. Len(Q[h]) /\ R[h][a] = Q[h][a]
  BY <1>2, <1>7
<1>8. CASE /\ a \in 1 .. Len(Q[h]) /\ R[h][a] = Q[h][a]
           /\ c \in 1 .. Len(Q[g]) /\ R[g][c] = Q[g][c]
  BY <1>4, <1>8 DEF InOrder
<1>9. QED  BY <1>1, <1>5, <1>6, <1>7, <1>8

LEMMA SentKeepsOrder ==
  ASSUME NEW s \in Seq([drains : Nat, collator : Nat]), NEW Q \in Lines, InOrder(s, Q),
         NEW e \in [drains : Nat, collator : Nat],
         \A x \in From(Q, 1) : IsFrame(x) => x.n \in 1 .. Len(s)
  PROVE  InOrder(Append(s, e), Q)
<1>1. \A h \in Parts : \A a \in 1 .. Len(Q[h]) : Q[h][a] \in From(Q, 1)
  BY FromHas, PartsAreNumbers
<1>2. \A n \in 1 .. Len(s) : Append(s, e)[n] = s[n]
  OBVIOUS
<1>3. ASSUME NEW x \in From(Q, 1), NEW y \in From(Q, 1), Precedes(s, x, y)
      PROVE  Precedes(Append(s, e), x, y)
  BY <1>2, <1>3 DEF Precedes
<1>4. QED  BY <1>1, <1>3 DEF InOrder

(* The head comes before everything that is left.                          *)
LEMMA HeadPrecedes ==
  ASSUME NEW s, NEW Q \in Lines, InOrder(s, Q), NEW k \in Parts, Q[k] # << >>
  PROVE  /\ \A x \in Items(Tail(Q[k])) : Precedes(s, Q[k][1], x)
         /\ \A j \in Parts : j > k => \A x \in Items(Q[j]) : Precedes(s, Q[k][1], x)
         /\ \A j \in Parts : j < k => \A x \in Items(Q[j]) : Precedes(s, x, Q[k][1])
<1>0. /\ Len(Q[k]) \in Nat /\ Len(Tail(Q[k])) = Len(Q[k]) - 1 /\ 1 \in 1 .. Len(Q[k])
      /\ \A i \in 1 .. Len(Q[k]) - 1 : Tail(Q[k])[i] = Q[k][i + 1]
  BY LineFacts, TailFacts
<1>1. ASSUME NEW x \in Items(Tail(Q[k]))
      PROVE  Precedes(s, Q[k][1], x)
  <2>1. PICK i \in 1 .. Len(Tail(Q[k])) : x = Tail(Q[k])[i]
    BY DEF Items
  <2>2. i + 1 \in 1 .. Len(Q[k]) /\ x = Q[k][i + 1] /\ 1 < i + 1
    BY <1>0, <2>1
  <2>3. QED  BY <1>0, <2>2 DEF InOrder
<1>2. ASSUME NEW j \in Parts, NEW x \in Items(Q[j])
      PROVE  /\ j > k => Precedes(s, Q[k][1], x)
             /\ j < k => Precedes(s, x, Q[k][1])
  <2>1. PICK i \in 1 .. Len(Q[j]) : x = Q[j][i]
    BY DEF Items
  <2>2. QED  BY <1>0, <2>1 DEF InOrder
<1>3. QED  BY <1>1, <1>2

-----------------------------------------------------------------------------
(* What comes from where when a line changes.                              *)
LEMMA ItemsTail ==
  ASSUME NEW B, NEW s \in Seq(B), s # << >>
  PROVE  /\ Items(Tail(s)) \subseteq Items(s) /\ Head(s) \in Items(s)
         /\ \A x \in Items(s) : x = Head(s) \/ x \in Items(Tail(s))
<1>1. \A x \in Items(Tail(s)) : x \in Items(s)
  <2>1. TAKE x \in Items(Tail(s))
  <2>2. PICK i \in 1 .. Len(Tail(s)) : x = Tail(s)[i]
    BY DEF Items
  <2>3. i + 1 \in 1 .. Len(s) /\ x = s[i + 1]
    BY <2>2, TailFacts
  <2>4. QED  BY <2>3 DEF Items
<1>2. \A x \in Items(s) : x = Head(s) \/ x \in Items(Tail(s))
  <2>1. TAKE x \in Items(s)
  <2>2. PICK i \in 1 .. Len(s) : x = s[i]
    BY DEF Items
  <2>3. CASE i # 1
    <3>1. i - 1 \in 1 .. Len(Tail(s)) /\ x = Tail(s)[i - 1]
      BY <2>2, <2>3, TailFacts
    <3>2. QED  BY <3>1 DEF Items
  <2>4. QED  BY <2>2, <2>3, TailFacts
<1>3. Head(s) \in Items(s)
  <2>1. 1 \in 1 .. Len(s) /\ Head(s) = s[1]
    BY TailFacts
  <2>2. QED  BY <2>1 DEF Items
<1>4. QED  BY <1>1, <1>2, <1>3

LEMMA ItemsAppend ==
  ASSUME NEW B, NEW s \in Seq(B), NEW b \in B
  PROVE  Items(Append(s, b)) = Items(s) \cup {b}
<1>1. ASSUME NEW x \in Items(Append(s, b))  PROVE x \in Items(s) \cup {b}
  <2>1. PICK i \in 1 .. Len(Append(s, b)) : x = Append(s, b)[i]
    BY DEF Items
  <2>2. (i = Len(s) + 1 /\ x = b) \/ (i \in 1 .. Len(s) /\ x = s[i])
    BY <2>1, AppendFacts
  <2>3. QED  BY <2>2 DEF Items
<1>2. ASSUME NEW x \in Items(s)  PROVE x \in Items(Append(s, b))
  <2>1. PICK i \in 1 .. Len(s) : x = s[i]
    BY DEF Items
  <2>2. i \in 1 .. Len(Append(s, b)) /\ x = Append(s, b)[i]
    BY <2>1, AppendFacts
  <2>3. QED  BY <2>2 DEF Items
<1>3. b \in Items(Append(s, b))
  <2>1. Len(s) + 1 \in 1 .. Len(Append(s, b)) /\ b = Append(s, b)[Len(s) + 1]
    BY AppendFacts
  <2>2. QED  BY <2>1 DEF Items
<1>4. QED  BY <1>1, <1>2, <1>3

LEMMA ItemsConcat ==
  ASSUME NEW B, NEW s \in Seq(B), NEW t \in Seq(B)
  PROVE  Items(s \o t) = Items(s) \cup Items(t)
<1>0. /\ Len(s \o t) = Len(s) + Len(t) /\ Len(s) \in Nat /\ Len(t) \in Nat
      /\ \A i \in 1 .. Len(s) : (s \o t)[i] = s[i]
      /\ \A i \in 1 .. Len(t) : (s \o t)[Len(s) + i] = t[i]
  OBVIOUS
<1>1. ASSUME NEW x \in Items(s \o t)  PROVE x \in Items(s) \cup Items(t)
  <2>1. PICK i \in 1 .. Len(s \o t) : x = (s \o t)[i]
    BY DEF Items
  <2>2. CASE i \in 1 .. Len(s)
    BY <1>0, <2>1, <2>2 DEF Items
  <2>3. CASE i \notin 1 .. Len(s)
    <3>1. i - Len(s) \in 1 .. Len(t) /\ i = Len(s) + (i - Len(s))
      BY <1>0, <2>3
    <3>2. x = t[i - Len(s)]
      BY <1>0, <2>1, <3>1
    <3>3. QED  BY <3>1, <3>2 DEF Items
  <2>4. QED  BY <2>2, <2>3
<1>2. ASSUME NEW x \in Items(s)  PROVE x \in Items(s \o t)
  <2>1. PICK i \in 1 .. Len(s) : x = s[i]
    BY DEF Items
  <2>2. i \in 1 .. Len(s \o t) /\ x = (s \o t)[i]
    BY <1>0, <2>1
  <2>3. QED  BY <2>2 DEF Items
<1>3. ASSUME NEW x \in Items(t)  PROVE x \in Items(s \o t)
  <2>1. PICK i \in 1 .. Len(t) : x = t[i]
    BY DEF Items
  <2>2. Len(s) + i \in 1 .. Len(s \o t) /\ x = (s \o t)[Len(s) + i]
    BY <1>0, <2>1
  <2>3. QED  BY <2>2 DEF Items
<1>4. QED  BY <1>1, <1>2, <1>3

LEMMA ItemsSubSeq ==
  ASSUME NEW B, NEW s \in Seq(B), NEW i \in 1 .. Len(s) + 1, NEW j \in 0 .. Len(s)
  PROVE  SubSeq(s, i, j) \in Seq(B) /\ Items(SubSeq(s, i, j)) \subseteq Items(s)
<1>1. /\ SubSeq(s, i, j) \in Seq(B) /\ Len(s) \in Nat
      /\ Len(SubSeq(s, i, j)) = IF i <= j THEN j - i + 1 ELSE 0
      /\ \A k \in 1 .. j - i + 1 : SubSeq(s, i, j)[k] = s[i + k - 1]
  OBVIOUS
<1>2. \A x \in Items(SubSeq(s, i, j)) : x \in Items(s)
  <2>1. TAKE x \in Items(SubSeq(s, i, j))
  <2>2. PICK k \in 1 .. Len(SubSeq(s, i, j)) : x = SubSeq(s, i, j)[k]
    BY DEF Items
  <2>3. i + k - 1 \in 1 .. Len(s) /\ x = s[i + k - 1]
    BY <1>1, <2>2
  <2>4. QED  BY <2>3 DEF Items
<1>3. QED  BY <1>1, <1>2

LEMMA ItemsAre ==
  ASSUME NEW B, NEW s \in Seq(B)
  PROVE  /\ \A i \in 1 .. Len(s) : s[i] \in Items(s)
         /\ Items(s) \subseteq B
         /\ s = << >> => Items(s) = {}
  BY DEF Items

LEMMA FromPart ==
  ASSUME NEW Q, NEW k
  PROVE  /\ \A h \in Parts : h >= k => Items(Q[h]) \subseteq From(Q, k)
         /\ \A x \in From(Q, k) : \E h \in Parts : h >= k /\ x \in Items(Q[h])
  BY DEF From

LEMMA RemovedItems ==
  ASSUME NEW Q \in Lines, NEW R \in Lines, NEW k \in Parts, NEW j,
         Removes(Q, R, k, j)
  PROVE  /\ \A i \in Parts : Items(R[i]) \subseteq Items(Q[i])
         /\ \A i \in Parts : \A x \in Items(Q[i]) :
              (i = k /\ x = Q[k][j]) \/ x \in Items(R[i])
<1>0. /\ j \in 1 .. Len(Q[k]) /\ Len(R[k]) = Len(Q[k]) - 1 /\ Len(Q[k]) \in Nat
      /\ \A i \in 1 .. Len(R[k]) : R[k][i] = IF i < j THEN Q[k][i] ELSE Q[k][i + 1]
      /\ \A i \in Parts : i # k => R[i] = Q[i]
  BY LineFacts DEF Removes
<1>1. \A x \in Items(R[k]) : x \in Items(Q[k])
  <2>1. TAKE x \in Items(R[k])
  <2>2. PICK i \in 1 .. Len(R[k]) : x = R[k][i]
    BY DEF Items
  <2>3. i \in 1 .. Len(Q[k]) /\ i + 1 \in 1 .. Len(Q[k])
    BY <1>0
  <2>4. QED  BY <1>0, <2>2, <2>3 DEF Items
<1>2. \A x \in Items(Q[k]) : x = Q[k][j] \/ x \in Items(R[k])
  <2>1. TAKE x \in Items(Q[k])
  <2>2. PICK i \in 1 .. Len(Q[k]) : x = Q[k][i]
    BY DEF Items
  <2>3. CASE i < j
    <3>1. i \in 1 .. Len(R[k]) /\ x = R[k][i]
      BY <1>0, <2>2, <2>3
    <3>2. QED  BY <3>1 DEF Items
  <2>4. CASE i > j
    <3>1. i - 1 \in 1 .. Len(R[k]) /\ x = R[k][i - 1]
      BY <1>0, <2>2, <2>4
    <3>2. QED  BY <3>1 DEF Items
  <2>5. QED  BY <1>0, <2>2, <2>3, <2>4
<1>3. QED  BY <1>0, <1>1, <1>2

LEMMA FromRemoved ==
  ASSUME NEW Q \in Lines, NEW R \in Lines, NEW k \in Parts, NEW j,
         Removes(Q, R, k, j), NEW h
  PROVE  /\ From(R, h) \subseteq From(Q, h)
         /\ \A x \in From(Q, h) : x = Q[k][j] \/ x \in From(R, h)
<1>1. /\ \A i \in Parts : Items(R[i]) \subseteq Items(Q[i])
      /\ \A i \in Parts : \A x \in Items(Q[i]) : x = Q[k][j] \/ x \in Items(R[i])
  BY RemovedItems
<1>2. QED  BY <1>1 DEF From

LEMMA FromMoved ==
  ASSUME NEW Q \in Lines, NEW R \in Lines, NEW k \in Parts, NEW l \in Parts, NEW b,
         Moves(Q, R, k, l, b), NEW h \in Parts
  PROVE  /\ \A x \in From(R, h) : x \in From(Q, h) \/ (x = b /\ h <= l)
         /\ \A x \in From(Q, h) : x = Q[k][1] \/ x \in From(R, h)
         /\ h <= l => b \in From(R, h)
         /\ h <= k => Q[k][1] \in From(Q, h)
<1>0. /\ l < k /\ b \in Buffer /\ Q[k] # << >> /\ Q[k] \in Seq(Buffer)
      /\ Q[l] \in Seq(Buffer)
      /\ R[k] = Tail(Q[k]) /\ R[l] = Append(Q[l], b)
      /\ \A i \in Parts : i # k /\ i # l => R[i] = Q[i]
  BY LineFacts DEF Moves
<1>1. /\ Items(R[k]) \subseteq Items(Q[k]) /\ Q[k][1] \in Items(Q[k])
      /\ \A x \in Items(Q[k]) : x = Q[k][1] \/ x \in Items(R[k])
  BY <1>0, ItemsTail, TailFacts
<1>2. Items(R[l]) = Items(Q[l]) \cup {b}
  BY <1>0, ItemsAppend
<1>3. ASSUME NEW x \in From(R, h)  PROVE x \in From(Q, h) \/ (x = b /\ h <= l)
  <2>1. PICK i \in Parts : i >= h /\ x \in Items(R[i])
    BY FromPart
  <2>2. CASE i = l /\ x = b
    BY <2>1, <2>2, PartsAreNumbers
  <2>3. CASE ~(i = l /\ x = b)
    <3>1. x \in Items(Q[i])
      BY <1>0, <1>1, <1>2, <2>1, <2>3
    <3>2. QED  BY <2>1, <3>1, FromPart
  <2>4. QED  BY <2>2, <2>3
<1>4. ASSUME NEW x \in From(Q, h)  PROVE x = Q[k][1] \/ x \in From(R, h)
  <2>1. PICK i \in Parts : i >= h /\ x \in Items(Q[i])
    BY FromPart
  <2>2. x = Q[k][1] \/ x \in Items(R[i])
    BY <1>0, <1>1, <1>2, <2>1
  <2>3. QED  BY <2>1, <2>2, FromPart
<1>5. (h <= l => l >= h) /\ (h <= k => k >= h)
  BY PartsAreNumbers
<1>6. h <= l => b \in From(R, h)
  BY <1>2, <1>5, FromPart
<1>7. h <= k => Q[k][1] \in From(Q, h)
  BY <1>1, <1>5, FromPart
<1>8. QED  BY <1>3, <1>4, <1>6, <1>7

LEMMA FromAdded ==
  ASSUME NEW Q \in Lines, NEW R \in Lines, NEW k \in Parts, NEW b,
         Adds(Q, R, k, b), NEW h \in Parts
  PROVE  /\ \A x \in From(R, h) : x \in From(Q, h) \/ (x = b /\ h <= k)
         /\ From(Q, h) \subseteq From(R, h)
         /\ h <= k => b \in From(R, h)
<1>0. /\ b \in Buffer /\ Q[k] \in Seq(Buffer) /\ R[k] = Append(Q[k], b)
      /\ \A i \in Parts : i # k => R[i] = Q[i]
  BY LineFacts DEF Adds
<1>1. Items(R[k]) = Items(Q[k]) \cup {b}
  BY <1>0, ItemsAppend
<1>2. ASSUME NEW x \in From(R, h)  PROVE x \in From(Q, h) \/ (x = b /\ h <= k)
  <2>1. PICK i \in Parts : i >= h /\ x \in Items(R[i])
    BY FromPart
  <2>2. CASE i = k /\ x = b
    BY <2>1, <2>2, PartsAreNumbers
  <2>3. CASE ~(i = k /\ x = b)
    <3>1. x \in Items(Q[i])
      BY <1>0, <1>1, <2>1, <2>3
    <3>2. QED  BY <2>1, <3>1, FromPart
  <2>4. QED  BY <2>2, <2>3
<1>3. ASSUME NEW x \in From(Q, h)  PROVE x \in From(R, h)
  <2>1. PICK i \in Parts : i >= h /\ x \in Items(Q[i])
    BY FromPart
  <2>2. x \in Items(R[i])
    BY <1>0, <1>1, <2>1
  <2>3. QED  BY <2>1, <2>2, FromPart
<1>4. h <= k => b \in From(R, h)
  BY <1>1, FromPart, PartsAreNumbers
<1>5. QED  BY <1>2, <1>3, <1>4

-----------------------------------------------------------------------------
(* The line of a stream.                                                   *)
LEMMA LineIs ==
  /\ Line[1] = InHand("DtoM") /\ Line[2] = ring["DtoM"] /\ Line[3] = Codec
  /\ Line[4] = InHand("PtoD") /\ Line[5] = ring["PtoD"] /\ Line[6] = ring["CtoP"]
BY DEF Line, Parts

LEMMA LineThenIs ==
  /\ Line'[1] = InHand("DtoM")' /\ Line'[2] = ring'["DtoM"] /\ Line'[3] = Codec'
  /\ Line'[4] = InHand("PtoD")' /\ Line'[5] = ring'["PtoD"] /\ Line'[6] = ring'["CtoP"]
BY DEF Line, Parts

LEMMA PartIs ==
  /\ 1 \in Parts /\ 2 \in Parts /\ 3 \in Parts /\ 4 \in Parts /\ 5 \in Parts /\ 6 \in Parts
  /\ \A k \in Parts : k \in {1, 2, 3, 4, 5, 6}
BY DEF Parts

LEMMA PlaceIs ==
  /\ Place("CtoP") = 6 /\ Place("PtoD") = 5 /\ Place("DtoM") = 2 /\ Place("PostM") = 1
  /\ \A p \in Readers : Place(p) \in Parts /\ Line[Place(p)] = ring[p] /\ p \in Processes
BY LineIs, PartIs DEF Place, Readers, Processes

CodecFits ==
  /\ Codec \in Seq(Buffer) /\ Len(Codec) = Len(inflight) + Held
  /\ Len(inflight) \in Nat /\ Held \in {0, 1}
  /\ held = Nothing => Codec = inflight
  /\ held # Nothing =>
       /\ ahead \in 1 .. Len(inflight)
       /\ \A i \in 1 .. ahead : Codec[i] = inflight[i]
       /\ Codec[ahead + 1] = held
       /\ \A i \in ahead + 2 .. Len(inflight) + 1 : Codec[i] = inflight[i - 1]

LEMMA CodecIs == Types => CodecFits
<1> SUFFICES ASSUME Types  PROVE CodecFits
  OBVIOUS
<1>1. /\ inflight \in Seq(Buffer) /\ ahead \in 0 .. Len(inflight) /\ held \in Buffer
      /\ (held # Nothing) <=> (ahead > 0)
      /\ Len(inflight) \in Nat
  BY DEF Types
<1>2. CASE held = Nothing
  <2>1. Held = 0 /\ Codec = [i \in 1 .. Len(inflight) |-> inflight[i]]
    BY <1>1, <1>2 DEF Codec, Held
  <2>2. Codec = inflight
    BY <1>1, <2>1
  <2>3. QED  BY <1>1, <1>2, <2>1, <2>2 DEF CodecFits
<1>3. CASE held # Nothing
  <2> DEFINE C == [i \in 1 .. Len(inflight) + 1 |->
                    IF i <= ahead THEN inflight[i]
                    ELSE IF i = ahead + 1 THEN held ELSE inflight[i - 1]]
  <2>1. Held = 1 /\ Codec = C
    BY <1>1, <1>3 DEF Codec, Held
  <2>2. ahead \in 1 .. Len(inflight)
    BY <1>1, <1>3
  <2>3. \A i \in 1 .. Len(inflight) + 1 : C[i] \in Buffer
    <3>1. TAKE i \in 1 .. Len(inflight) + 1
    <3>2. C[i] = IF i <= ahead THEN inflight[i]
                 ELSE IF i = ahead + 1 THEN held ELSE inflight[i - 1]
      OBVIOUS
    <3>3. i <= ahead => i \in 1 .. Len(inflight)
      BY <2>2
    <3>4. i > ahead + 1 => i - 1 \in 1 .. Len(inflight)
      BY <1>1, <2>2
    <3>5. \A k \in 1 .. Len(inflight) : inflight[k] \in Buffer
      BY <1>1
    <3> HIDE DEF C
    <3>6. QED  BY <1>1, <2>2, <3>2, <3>3, <3>4, <3>5
  <2>4. /\ \A i \in 1 .. ahead : C[i] = inflight[i]
        /\ C[ahead + 1] = held
        /\ \A i \in ahead + 2 .. Len(inflight) + 1 : C[i] = inflight[i - 1]
    BY <1>1, <2>2
  <2>5. C \in Seq(Buffer) /\ Len(C) = Len(inflight) + 1
    <3>1. C \in [1 .. Len(inflight) + 1 -> Buffer]
      BY <2>3
    <3>2. Len(inflight) + 1 \in Nat
      BY <1>1
    <3> HIDE DEF C
    <3>3. QED  BY <3>1, <3>2
  <2> HIDE DEF C
  <2>6. QED  BY <1>1, <1>3, <2>1, <2>2, <2>4, <2>5 DEF CodecFits
<1>4. QED  BY <1>2, <1>3

LEMMA CodecThenIs == Types' => CodecFits'
BY CodecIs, PTL

LEMMA LineTyped == Types => Line \in Lines
<1> SUFFICES ASSUME Types  PROVE Line \in Lines
  OBVIOUS
<1>1. \A p \in Processes : ring[p] \in Seq(Buffer)
  BY DEF Types
<1>2. \A p \in Processes : InHand(p) \in Seq(Buffer)
  BY DEF Types, InHand
<1>3. \A k \in Parts : Line[k] \in Seq(Buffer)
  BY <1>1, <1>2, CodecIs, LineIs, PartIs DEF Processes, CodecFits
<1>4. QED  BY <1>3 DEF Line, Lines

LineFits == Line \in Lines
LEMMA LineThenTyped == Types' => Line' \in Lines
<1>1. Types => LineFits
  BY LineTyped DEF LineFits
<1>2. Types' => LineFits'
  BY <1>1, PTL
<1>3. QED  BY <1>2 DEF LineFits

-----------------------------------------------------------------------------
(* Types.                                                                  *)
LEMMA PerformTypes ==
  ASSUME Types, NEW calls, IsFiniteSet(calls), Perform(calls)
  PROVE  /\ collator' \in Nat /\ parser' \in Nat /\ codec' \in Nat
         /\ lastOut' \in BOOLEAN /\ switching' \in BOOLEAN /\ drained' \in BOOLEAN
         /\ resets' \in Nat
<1>1. Cardinality({c \in calls : c.kind = "ResetTimeMapping"}) \in Nat
  BY FS_Subset, FS_CardinalityType
<1>2. /\ collator \in Nat /\ parser \in Nat /\ codec \in Nat /\ resets \in Nat
      /\ lastOut \in BOOLEAN /\ switching \in BOOLEAN /\ drained \in BOOLEAN
  BY DEF Types
<1>3. parser' \in Nat /\ codec' \in Nat /\ collator' \in Nat
  BY <1>2 DEF Perform
<1>4. resets' \in Nat
  BY <1>1, <1>2 DEF Perform
<1>5. lastOut' \in BOOLEAN /\ switching' \in BOOLEAN /\ drained' \in BOOLEAN
  BY <1>2 DEF Perform
<1>6. QED  BY <1>3, <1>4, <1>5

LEMMA DueFinite ==
  ASSUME NEW table, IsFiniteSet(table), NEW seq
  PROVE  /\ Due(table, seq) \subseteq table /\ IsFiniteSet(Due(table, seq))
         /\ IsFiniteSet(table \ Due(table, seq))
BY FS_Subset DEF Due

(* What processes do to their own variables.                               *)
RingTypes == ring \in [Processes -> Seq(Buffer)]
PlaceTypes ==
  /\ pc \in [Processes \cup {Client} -> Places]
  /\ pc["CtoP"] \in {"idle", "finish"} /\ pc["PostM"] = "idle"
  /\ \A p \in {"PtoD", "DtoM"} : pc[p] \in {"idle", "pass", "finish"}
  /\ pc[Client] \notin {"pass", "finish"}
ProcessTypes ==
  /\ hand \in [Processes -> Buffer] /\ keep \in [Processes -> BOOLEAN]
  /\ seen \in [Processes -> Int]
  /\ before \in [Processes -> SUBSET Buffer]
  /\ after \in [Processes -> SUBSET Buffer]
  /\ \A p \in Processes : IsFiniteSet(before[p]) /\ IsFiniteSet(after[p])
  /\ discarding \in [Processes -> BOOLEAN]
MarkTypes == next \in Nat /\ marker \in Nat \cup {None}
CodecTypes ==
  /\ inflight \in Seq(Buffer) /\ display \in Seq(Buffer)
  /\ held \in Buffer /\ ahead \in 0 .. Len(inflight)
  /\ drop \in 0 .. Len(inflight)
  /\ (held # Nothing) <=> (ahead > 0)
SwitchTypes ==
  /\ drained \in BOOLEAN /\ lastOut \in BOOLEAN /\ switching \in BOOLEAN
  /\ collator \in Nat /\ parser \in Nat /\ codec \in Nat /\ resets \in Nat
ClientTypes ==
  /\ drain \in [mode : {"block", "return", "switch"}, seq : Nat]
  /\ sent \in Seq([drains : Nat, collator : Nat]) /\ Len(sent) <= MaxFrames
  /\ launched \in 0 .. MaxCalls /\ marked \in 0 .. MaxCalls

LEMMA TypesAre ==
  Types <=> /\ RingTypes /\ PlaceTypes /\ ProcessTypes /\ MarkTypes
            /\ CodecTypes /\ SwitchTypes /\ ClientTypes
BY DEF Types, RingTypes, PlaceTypes, ProcessTypes, MarkTypes, CodecTypes,
       SwitchTypes, ClientTypes

LEMMA TypesThenAre ==
  Types' <=> /\ RingTypes' /\ PlaceTypes' /\ ProcessTypes' /\ MarkTypes'
             /\ CodecTypes' /\ SwitchTypes' /\ ClientTypes'
BY TypesAre, PTL

LEMMA BufferFacts ==
  ASSUME NEW b \in Buffer
  PROVE  /\ b.n \in Int /\ b.seq \in Int
         /\ \A s \in Int : [b EXCEPT !.seq = s] \in Buffer
                /\ [b EXCEPT !.seq = s].kind = b.kind /\ [b EXCEPT !.seq = s].n = b.n
                /\ [b EXCEPT !.seq = s].seq = s
BY DEF Buffer

LEMMA NothingBuffer == StreamAssumption => Nothing \in Buffer
BY DEF Nothing, Buffer, StreamAssumption

LEMMA ProcessIs ==
  /\ "CtoP" \in Processes /\ "PtoD" \in Processes /\ "DtoM" \in Processes
  /\ "PostM" \in Processes /\ Client \notin Processes
  /\ \A p \in Processes : p \in {"CtoP", "PtoD", "DtoM", "PostM"}
BY DEF Processes, Client

LEMMA PlaceStep ==
  ASSUME PlaceTypes, NEW p \in Readers, NEW l \in {"idle", "finish"}, Goto(p, l)
  PROVE  PlaceTypes'
BY DEF PlaceTypes, Readers, Goto, Places, Client, Processes

LEMMA PassedTypes ==
  ASSUME Types, StreamAssumption, NEW p \in Readers, NEW b \in Buffer, Passed(p, b)
  PROVE  PlaceTypes' /\ hand' \in [Processes -> Buffer]
<1>1. PlaceTypes /\ hand \in [Processes -> Buffer]
  BY TypesAre DEF ProcessTypes
<1>2. PlaceTypes'
  BY <1>1, PlaceStep DEF Passed
<1>3. QED  BY <1>1, <1>2, NothingBuffer DEF Passed

LEMMA RaisedTypes ==
  ASSUME Types, NEW p \in Processes, NEW s \in Int
  PROVE  Raised(p, s) \in [Processes -> Int]
BY DEF Types, Raised

LEMMA TableTypes ==
  ASSUME Types, NEW p \in Processes, NEW s
  PROVE  /\ [before EXCEPT ![p] = @ \ Due(@, s)] \in [Processes -> SUBSET Buffer]
         /\ [after EXCEPT ![p] = @ \ Due(@, s)] \in [Processes -> SUBSET Buffer]
         /\ \A q \in Processes : /\ IsFiniteSet([before EXCEPT ![p] = @ \ Due(@, s)][q])
                                 /\ IsFiniteSet([after EXCEPT ![p] = @ \ Due(@, s)][q])
         /\ IsFiniteSet(Due(before[p], s)) /\ IsFiniteSet(Due(after[p], s))
         /\ IsFiniteSet(Due(before[p], s) \cup Due(after[p], s))
<1>1. /\ before \in [Processes -> SUBSET Buffer] /\ after \in [Processes -> SUBSET Buffer]
      /\ \A q \in Processes : IsFiniteSet(before[q]) /\ IsFiniteSet(after[q])
  BY DEF Types
<1>2. /\ IsFiniteSet(Due(before[p], s)) /\ IsFiniteSet(Due(after[p], s))
      /\ IsFiniteSet(before[p] \ Due(before[p], s))
      /\ IsFiniteSet(after[p] \ Due(after[p], s))
  BY <1>1, DueFinite
<1>3. IsFiniteSet(Due(before[p], s) \cup Due(after[p], s))
  BY <1>2, FS_Union
<1>4. QED  BY <1>1, <1>2, <1>3

LEMMA HeadTypes ==
  ASSUME Types, NEW p \in Processes, ring[p] # << >>
  PROVE  /\ Head(ring[p]) \in Buffer /\ Tail(ring[p]) \in Seq(Buffer)
         /\ Head(ring[p]) = ring[p][1]
         /\ Head(ring[p]) \in Items(ring[p])
<1>1. ring[p] \in Seq(Buffer)
  BY DEF Types
<1>2. QED  BY <1>1, TailFacts, ItemsTail

LEMMA CollateToParseTypes ==
  ASSUME Types, Contents, StreamAssumption, CollateToParse  PROVE Types'
<1> DEFINE in == Head(ring["CtoP"])
           b == IF IsFrame(in) THEN [in EXCEPT !.seq = next] ELSE in
<1>0. /\ ring \in [Processes -> Seq(Buffer)] /\ next \in Nat /\ marker \in Nat \cup {None}
      /\ ProcessTypes
  BY TypesAre DEF RingTypes, MarkTypes
<1>1. /\ in \in Buffer /\ Tail(ring["CtoP"]) \in Seq(Buffer)
      /\ in \in Items(ring["CtoP"]) /\ ~IsCall(in)
  BY HeadTypes, ProcessIs DEF CollateToParse
<1>2. b \in Buffer /\ b.seq \in Nat
  <2>1. AFrame(in) \/ AMarker(in)
    BY <1>1, ProcessIs DEF Contents, ACall
  <2>2. QED  BY <1>0, <1>1, <2>1, BufferFacts DEF AFrame, AMarker
<1>3. RingTypes'
  <2>1. PICK t \in Seq(Buffer) :
          ring' = [ring EXCEPT !["CtoP"] = Tail(ring["CtoP"]), !["PtoD"] = t]
    <3>1. ring["PtoD"] \in Seq(Buffer) /\ Append(ring["PtoD"], b) \in Seq(Buffer)
      BY <1>0, <1>2, ProcessIs
    <3>2. \/ ring' = [ring EXCEPT !["CtoP"] = Tail(@), !["PtoD"] = @]
          \/ ring' = [ring EXCEPT !["CtoP"] = Tail(@), !["PtoD"] = Append(@, b)]
      BY DEF CollateToParse
    <3> HIDE DEF b, in
    <3>3. QED  BY <3>1, <3>2
  <2> HIDE DEF b, in
  <2>2. QED  BY <1>0, <1>1, <2>1 DEF RingTypes
<1>4. /\ next' = b.seq + 1 /\ seen' = Raised("CtoP", b.seq)
      /\ before' = [before EXCEPT !["CtoP"] = @ \ Due(@, b.seq)]
      /\ Perform(Due(before["CtoP"], b.seq)) /\ Passed("CtoP", b)
      /\ marker' \in {None, marker}
      /\ \E stops \in BOOLEAN : discarding' = [discarding EXCEPT !["CtoP"] = stops]
      /\ UNCHANGED <<keep, after, codecVars, display, clientVars, sent>>
  BY <1>0, ProcessIs DEF CollateToParse, ProcessTypes
<1> HIDE DEF b, in
<1>5. MarkTypes'
  BY <1>0, <1>2, <1>4 DEF MarkTypes
<1>6. PlaceTypes' /\ hand' \in [Processes -> Buffer]
  BY <1>2, <1>4, PassedTypes DEF Readers
<1>7. ProcessTypes'
  <2>1. seen' \in [Processes -> Int]
    <3>1. b.seq \in Int /\ seen' = Raised("CtoP", b.seq)
      BY <1>2, <1>4
    <3>2. QED  BY <3>1, RaisedTypes, ProcessIs
  <2>4. discarding' \in [Processes -> BOOLEAN]
    BY <1>0, <1>4 DEF ProcessTypes
  <2>2. /\ before' \in [Processes -> SUBSET Buffer]
        /\ \A p \in Processes : IsFiniteSet(before'[p])
    BY <1>4, TableTypes, ProcessIs
  <2>3. QED  BY <1>0, <1>4, <1>6, <2>1, <2>2, <2>4 DEF ProcessTypes
<1>8. SwitchTypes'
  BY <1>4, PerformTypes, TableTypes, ProcessIs DEF SwitchTypes
<1>9. CodecTypes' /\ ClientTypes'
  BY <1>4, TypesAre DEF CodecTypes, ClientTypes, codecVars, clientVars
<1>10. QED  BY <1>3, <1>5, <1>6, <1>7, <1>8, <1>9, TypesThenAre

LEMMA TakeTypes ==
  ASSUME Types, StreamAssumption, NEW p \in Processes, Take(p)  PROVE Types'
<1> DEFINE b == Head(ring[p])
           late == IF p = "DtoM" /\ IsMarker(b) THEN Due(after[p], b.seq) ELSE {}
<1>0. ring \in [Processes -> Seq(Buffer)] /\ ProcessTypes /\ PlaceTypes
  BY TypesAre DEF RingTypes
<1>1. b \in Buffer /\ Tail(ring[p]) \in Seq(Buffer) /\ b.seq \in Int
  BY HeadTypes, BufferFacts DEF Take
<1>2. PICK stops \in BOOLEAN, kept \in BOOLEAN :
        /\ discarding' = [discarding EXCEPT ![p] = stops]
        /\ keep' = [keep EXCEPT ![p] = kept]
  BY <1>0 DEF Take, ProcessTypes
<1>3. /\ ring' = [ring EXCEPT ![p] = Tail(@)] /\ hand' = [hand EXCEPT ![p] = b]
      /\ seen' = Raised(p, b.seq)
      /\ before' = [before EXCEPT ![p] = @ \ Due(@, b.seq)]
      /\ after' = [after EXCEPT ![p] = @ \ late]
      /\ Perform(Due(before[p], b.seq) \cup late)
      /\ Goto(p, "pass") /\ p \in {"PtoD", "DtoM"}
      /\ UNCHANGED <<next, marker, codecVars, display, clientVars, sent>>
  BY DEF Take
<1>4. late = {} \/ late = Due(after[p], b.seq)
  OBVIOUS
<1> HIDE DEF b, late
<1>5. RingTypes'
  BY <1>0, <1>1, <1>3 DEF RingTypes
<1>6. PlaceTypes'
  BY <1>0, <1>3 DEF PlaceTypes, Goto, Places, Processes, Client
<1>7. ProcessTypes'
  <2>1. seen' \in [Processes -> Int]
    BY <1>1, <1>3, RaisedTypes
  <2>2. /\ before' \in [Processes -> SUBSET Buffer]
        /\ \A q \in Processes : IsFiniteSet(before'[q])
    BY <1>3, TableTypes
  <2>3. /\ after' \in [Processes -> SUBSET Buffer]
        /\ \A q \in Processes : IsFiniteSet(after'[q])
    <3>1. CASE late = {}
      <4>1. after' = after
        BY <1>0, <1>3, <3>1 DEF ProcessTypes
      <4>2. QED  BY <1>0, <4>1 DEF ProcessTypes
    <3>2. CASE late = Due(after[p], b.seq)
      <4>1. after' = [after EXCEPT ![p] = @ \ Due(@, b.seq)]
        BY <1>3, <3>2
      <4>2. QED  BY <4>1, TableTypes
    <3>3. QED  BY <1>4, <3>1, <3>2
  <2>4. discarding' \in [Processes -> BOOLEAN] /\ keep' \in [Processes -> BOOLEAN]
    BY <1>0, <1>2 DEF ProcessTypes
  <2>5. hand' \in [Processes -> Buffer]
    BY <1>0, <1>1, <1>3 DEF ProcessTypes
  <2>6. QED  BY <2>1, <2>2, <2>3, <2>4, <2>5 DEF ProcessTypes
<1>8. SwitchTypes'
  <2>1. IsFiniteSet(Due(before[p], b.seq) \cup late)
    <3>1. CASE late = {}
      <4>1. Due(before[p], b.seq) \cup late = Due(before[p], b.seq)
        BY <3>1
      <4>2. IsFiniteSet(Due(before[p], b.seq))
        BY TableTypes
      <4>3. QED  BY <4>1, <4>2
    <3>2. CASE late = Due(after[p], b.seq)  BY <3>2, TableTypes
    <3>3. QED  BY <1>4, <3>1, <3>2
  <2>2. QED  BY <1>3, <2>1, PerformTypes DEF SwitchTypes
<1>9. MarkTypes' /\ CodecTypes' /\ ClientTypes'
  BY <1>3, TypesAre DEF MarkTypes, CodecTypes, ClientTypes, codecVars, clientVars
<1>10. QED  BY <1>5, <1>6, <1>7, <1>8, <1>9, TypesThenAre

LEMMA PassToCodecTypes ==
  ASSUME Types, Contents, StreamAssumption, PassToCodec  PROVE Types'
<1> DEFINE b == hand["PtoD"]
<1>0. /\ ring \in [Processes -> Seq(Buffer)] /\ ProcessTypes /\ PlaceTypes /\ CodecTypes
      /\ Len(inflight) \in Nat
  BY TypesAre DEF RingTypes, CodecTypes
<1>1. b \in Buffer /\ (AFrame(b) \/ AMarker(b)) /\ At("PtoD", "pass")
  <2>1. At("PtoD", "pass") /\ ~At("PtoD", "idle")
    BY DEF PassToCodec, At
  <2>2. QED  BY <1>0, <2>1, ProcessIs DEF ProcessTypes, Contents
<1>2. /\ keep' = [keep EXCEPT !["PtoD"] = TRUE] /\ Passed("PtoD", b)
      /\ UNCHANGED <<seen, before, after, next, marker, discarding, drained,
                     display, switchVars, clientVars, sent, resets>>
      /\ \/ UNCHANGED <<ring, codecVars>>
         \/ inflight' = Append(inflight, b) /\ UNCHANGED <<ring, held, ahead, drop>>
         \/ /\ ~IsFrame(b) /\ inflight = << >>
            /\ Insert("DtoM", b) /\ held' = Nothing /\ UNCHANGED <<inflight, ahead, drop>>
         \/ /\ ~IsFrame(b) /\ inflight # << >> /\ held' = b /\ ahead' = Len(inflight)
            /\ UNCHANGED <<ring, inflight, drop>>
  BY DEF PassToCodec
<1> HIDE DEF b
<1>3. PlaceTypes' /\ hand' \in [Processes -> Buffer]
  BY <1>1, <1>2, PassedTypes DEF Readers
<1>4. RingTypes' /\ CodecTypes'
  <2>1. CASE UNCHANGED <<ring, codecVars>>
    BY <1>0, <1>2, <2>1 DEF RingTypes, CodecTypes, codecVars
  <2>2. CASE inflight' = Append(inflight, b) /\ UNCHANGED <<ring, held, ahead, drop>>
    <3>1. inflight' \in Seq(Buffer) /\ Len(inflight') = Len(inflight) + 1
      BY <1>0, <1>1, <2>2 DEF CodecTypes
    <3>2. QED  BY <1>0, <1>2, <2>2, <3>1 DEF RingTypes, CodecTypes
  <2>3. CASE /\ ~IsFrame(b) /\ inflight = << >>
             /\ Insert("DtoM", b) /\ held' = Nothing /\ UNCHANGED <<inflight, ahead, drop>>
    <3>1. Len(inflight) = 0 /\ ahead' = 0
      BY <1>0, <2>3 DEF CodecTypes
    <3>2. CodecTypes'
      BY <1>0, <1>2, <2>3, <3>1, NothingBuffer DEF CodecTypes
    <3>3. RingTypes'
      BY <1>0, <1>1, <2>3, ProcessIs DEF RingTypes, Insert
    <3>4. QED  BY <3>2, <3>3
  <2>4. CASE /\ ~IsFrame(b) /\ inflight # << >> /\ held' = b /\ ahead' = Len(inflight)
             /\ UNCHANGED <<ring, inflight, drop>>
    <3>1. b # Nothing
      BY <1>1, <2>4, Kinds DEF AMarker, AFrame
    <3>2. Len(inflight) > 0
      BY <1>0, <2>4 DEF CodecTypes
    <3>3. QED  BY <1>0, <1>1, <1>2, <2>4, <3>1, <3>2 DEF RingTypes, CodecTypes
  <2>5. QED  BY <1>2, <2>1, <2>2, <2>3, <2>4
<1>5. ProcessTypes'
  BY <1>0, <1>2, <1>3 DEF ProcessTypes
<1>6. MarkTypes' /\ SwitchTypes' /\ ClientTypes'
  BY <1>2, TypesAre DEF MarkTypes, SwitchTypes, switchVars, ClientTypes, clientVars
<1>7. QED  BY <1>3, <1>4, <1>5, <1>6, TypesThenAre

LEMMA DecodeCompleteTypes ==
  ASSUME Types, StreamAssumption, DecodeComplete  PROVE Types'
<1>0. /\ ring \in [Processes -> Seq(Buffer)] /\ CodecTypes
      /\ Len(inflight) \in Nat /\ inflight # << >>
  BY TypesAre DEF RingTypes, CodecTypes, DecodeComplete
<1>1. RingTypes'
  <2>1. Head(inflight) \in Buffer /\ held \in Buffer
    BY <1>0 DEF CodecTypes
  <2>4. /\ << >> \in Seq(Buffer) /\ <<Head(inflight)>> \in Seq(Buffer)
        /\ <<held>> \in Seq(Buffer)
    BY <2>1
  <2>2. PICK s \in Seq(Buffer), t \in Seq(Buffer) :
          ring' = [ring EXCEPT !["DtoM"] = @ \o s \o t]
    <3> DEFINE s == IF drop > 0 THEN << >> ELSE <<Head(inflight)>>
               t == IF held # Nothing /\ ahead = 1 THEN <<held>> ELSE << >>
    <3>1. ring' = [ring EXCEPT !["DtoM"] = @ \o s \o t]
      BY DEF DecodeComplete
    <3>2. s \in Seq(Buffer) /\ t \in Seq(Buffer)
      BY <2>4
    <3> HIDE DEF s, t
    <3>3. QED  BY <3>1, <3>2
  <2>3. QED  BY <1>0, <2>2, ProcessIs DEF RingTypes
<1>2. CodecTypes'
  <2>1. /\ inflight' = Tail(inflight) /\ UNCHANGED display
        /\ held' = IF held # Nothing /\ ahead = 1 THEN Nothing ELSE held
        /\ ahead' = IF ahead > 0 THEN ahead - 1 ELSE 0
        /\ drop' = IF drop > 0 THEN drop - 1 ELSE 0
    BY DEF DecodeComplete
  <2>2. inflight' \in Seq(Buffer) /\ Len(inflight') = Len(inflight) - 1
    BY <1>0, <2>1 DEF CodecTypes
  <2>3. QED  BY <1>0, <2>1, <2>2, NothingBuffer DEF CodecTypes
<1>3. PlaceTypes' /\ ProcessTypes' /\ MarkTypes' /\ SwitchTypes' /\ ClientTypes'
  BY TypesAre DEF DecodeComplete, processVars, switchVars, clientVars, PlaceTypes,
     ProcessTypes, MarkTypes, SwitchTypes, ClientTypes
<1>4. QED  BY <1>1, <1>2, <1>3, TypesThenAre

LEMMA PassToManifestorTypes ==
  ASSUME Types, StreamAssumption, PassToManifestor  PROVE Types'
<1>0. ring \in [Processes -> Seq(Buffer)] /\ ProcessTypes /\ CodecTypes
  BY TypesAre DEF RingTypes
<1>1. hand["DtoM"] \in Buffer
  BY <1>0, ProcessIs DEF ProcessTypes
<1>2. PlaceTypes' /\ hand' \in [Processes -> Buffer]
  BY <1>1, PassedTypes DEF Readers, PassToManifestor
<1>3. RingTypes'
  <2>1. ring' \in {ring, [ring EXCEPT !["PostM"] = Append(@, hand["DtoM"])]}
    BY DEF PassToManifestor, Insert
  <2>2. Append(ring["PostM"], hand["DtoM"]) \in Seq(Buffer)
    BY <1>0, <1>1, ProcessIs
  <2>3. QED  BY <1>0, <2>1, <2>2 DEF RingTypes
<1>4. CodecTypes'
  BY <1>0, <1>1 DEF CodecTypes, PassToManifestor, codecVars
<1>5. ProcessTypes'
  BY <1>0, <1>2 DEF ProcessTypes, PassToManifestor
<1>6. MarkTypes' /\ SwitchTypes' /\ ClientTypes'
  BY TypesAre DEF PassToManifestor, switchVars, clientVars, MarkTypes, SwitchTypes,
     ClientTypes
<1>7. QED  BY <1>2, <1>3, <1>4, <1>5, <1>6, TypesThenAre

LEMMA FinishTypes ==
  ASSUME Types, StreamAssumption, NEW p \in Processes, Finish(p)  PROVE Types'
<1>0. ProcessTypes /\ PlaceTypes
  BY TypesAre
<1>1. p \in Readers
  BY <1>0, ProcessIs DEF Finish, PlaceTypes, At, Readers
<1>2. PlaceTypes'
  BY <1>0, <1>1, PlaceStep DEF Finish
<1>3. SwitchTypes'
  BY PerformTypes, TableTypes DEF Finish, SwitchTypes
<1>4. ProcessTypes'
  <2>1. /\ after' \in [Processes -> SUBSET Buffer]
        /\ \A q \in Processes : IsFiniteSet(after'[q])
    BY TableTypes DEF Finish
  <2>2. hand' \in [Processes -> Buffer]
    BY <1>0, NothingBuffer DEF Finish, ProcessTypes
  <2>3. discarding' \in [Processes -> BOOLEAN]
    BY <1>0 DEF Finish, ProcessTypes
  <2>4. QED  BY <1>0, <2>1, <2>2, <2>3 DEF ProcessTypes, Finish
<1>5. RingTypes' /\ MarkTypes' /\ CodecTypes' /\ ClientTypes'
  BY TypesAre DEF Finish, RingTypes, MarkTypes, CodecTypes, ClientTypes, codecVars, clientVars
<1>6. QED  BY <1>2, <1>3, <1>4, <1>5, TypesThenAre

LEMMA PostManifestTypes ==
  ASSUME Types, StreamAssumption, PostManifest  PROVE Types'
<1> DEFINE b == Head(ring["PostM"])
<1>0. ring \in [Processes -> Seq(Buffer)] /\ ProcessTypes /\ PlaceTypes
  BY TypesAre DEF RingTypes
<1>1. b \in Buffer /\ Tail(ring["PostM"]) \in Seq(Buffer) /\ b.seq \in Int
  BY HeadTypes, BufferFacts, ProcessIs DEF PostManifest
<1>2. /\ ring' = [ring EXCEPT !["PostM"] = Tail(@)]
      /\ discarding' = [discarding EXCEPT !["PostM"] = @ /\ ~IsMarker(b)]
      /\ seen' = Raised("PostM", b.seq)
      /\ before' = [before EXCEPT !["PostM"] = @ \ Due(@, b.seq)]
      /\ after' = [after EXCEPT !["PostM"] = @ \ Due(@, b.seq)]
      /\ Perform(Due(before["PostM"], b.seq) \cup Due(after["PostM"], b.seq))
      /\ UNCHANGED <<pc, hand, keep, next, marker, codecVars, display, clientVars, sent>>
  BY DEF PostManifest
<1> HIDE DEF b
<1>3. RingTypes'
  BY <1>0, <1>1, <1>2, ProcessIs DEF RingTypes
<1>4. ProcessTypes'
  <2>1. seen' \in [Processes -> Int]
    BY <1>1, <1>2, RaisedTypes, ProcessIs
  <2>2. /\ before' \in [Processes -> SUBSET Buffer]
        /\ \A q \in Processes : IsFiniteSet(before'[q])
    BY <1>2, TableTypes, ProcessIs
  <2>3. /\ after' \in [Processes -> SUBSET Buffer]
        /\ \A q \in Processes : IsFiniteSet(after'[q])
    BY <1>2, TableTypes, ProcessIs
  <2>4. discarding' \in [Processes -> BOOLEAN]
    BY <1>0, <1>2 DEF ProcessTypes
  <2>5. QED  BY <1>0, <1>2, <2>1, <2>2, <2>3, <2>4 DEF ProcessTypes
<1>5. SwitchTypes'
  BY <1>2, PerformTypes, TableTypes, ProcessIs DEF SwitchTypes
<1>6. PlaceTypes' /\ MarkTypes' /\ CodecTypes' /\ ClientTypes'
  BY <1>2, TypesAre DEF PlaceTypes, MarkTypes, CodecTypes, ClientTypes, codecVars, clientVars
<1>7. QED  BY <1>3, <1>4, <1>5, <1>6, TypesThenAre

LEMMA TakeCallTypes ==
  ASSUME Types, StreamAssumption, NEW p \in Processes, TakeCall(p)  PROVE Types'
<1> DEFINE c == Head(ring[p])
           T(t) == IF c.seq <= seen[p] \/ Cardinality(t) >= TableSize THEN t ELSE t \cup {c}
<1>0. ring \in [Processes -> Seq(Buffer)] /\ ProcessTypes
  BY TypesAre DEF RingTypes
<1>1. c \in Buffer /\ Tail(ring[p]) \in Seq(Buffer)
  BY HeadTypes DEF TakeCall
<1>2. /\ ring' = [ring EXCEPT ![p] = Tail(@)]
      /\ Perform(IF c.seq <= seen[p] THEN {c} ELSE {})
      /\ before' \in {before, [before EXCEPT ![p] = T(@)]}
      /\ after' \in {after, [after EXCEPT ![p] = T(@)]}
      /\ UNCHANGED <<pc, hand, keep, seen, next, marker, discarding, codecVars,
                     display, clientVars, sent>>
  BY DEF TakeCall
<1>3. ASSUME NEW t \in SUBSET Buffer, IsFiniteSet(t)
      PROVE  T(t) \in SUBSET Buffer /\ IsFiniteSet(T(t))
  BY <1>1, <1>3, FS_AddElement
<1> HIDE DEF c, T
<1>4. RingTypes'
  BY <1>0, <1>1, <1>2 DEF RingTypes
<1>5. ProcessTypes'
  <2>1. ASSUME NEW f \in [Processes -> SUBSET Buffer], \A q \in Processes : IsFiniteSet(f[q]),
               NEW g, g \in {f, [f EXCEPT ![p] = T(@)]}
        PROVE  g \in [Processes -> SUBSET Buffer] /\ \A q \in Processes : IsFiniteSet(g[q])
    <3>1. f[p] \in SUBSET Buffer /\ IsFiniteSet(f[p])
      BY <2>1
    <3>2. T(f[p]) \in SUBSET Buffer /\ IsFiniteSet(T(f[p]))
      BY <1>3, <3>1
    <3>3. CASE g = f
      BY <2>1, <3>3
    <3>4. CASE g = [f EXCEPT ![p] = T(@)]
      <4>1. /\ g \in [Processes -> SUBSET Buffer]
            /\ g[p] = T(f[p])
            /\ \A q \in Processes : q # p => g[q] = f[q]
        BY ONLY <2>1, <3>2, <3>4
      <4>2. QED  BY ONLY <2>1, <3>2, <4>1
    <3>5. QED  BY ONLY <2>1, <3>3, <3>4
  <2>2. QED  BY ZenonT(40), <1>0, <1>2, <2>1 DEF ProcessTypes
<1>6. SwitchTypes'
  <2>1. IsFiniteSet(IF c.seq <= seen[p] THEN {c} ELSE {})
    BY FS_Singleton, FS_EmptySet
  <2>2. QED  BY <1>2, <2>1, PerformTypes DEF SwitchTypes
<1>7. PlaceTypes' /\ MarkTypes' /\ CodecTypes' /\ ClientTypes'
  BY <1>2, TypesAre DEF PlaceTypes, MarkTypes, CodecTypes, ClientTypes, codecVars, clientVars
<1>8. QED  BY <1>4, <1>5, <1>6, <1>7, TypesThenAre

LEMMA ClientPlaces ==
  ASSUME PlaceTypes, NEW l \in Places \ {"pass", "finish"}, Goto(Client, l)
  PROVE  PlaceTypes'
BY DEF PlaceTypes, Goto, Client, Processes

LEMMA LaunchTypes ==
  ASSUME Types, StreamAssumption, NEW mode \in {"block", "return", "switch"},
         NEW discard \in BOOLEAN, Launch(mode, discard)
  PROVE  Types'
<1>0. ProcessTypes /\ PlaceTypes /\ ClientTypes
  BY TypesAre
<1>1. PlaceTypes'
  <2>1. (IF discard THEN "drop" ELSE "number") \in Places \ {"pass", "finish"}
    BY DEF Places, Entering
  <2>2. QED  BY <1>0, <2>1, ClientPlaces DEF Launch
<1>2. ProcessTypes'
  <2>1. discarding' \in [Processes -> BOOLEAN]
    BY <1>0 DEF Launch, ProcessTypes
  <2>2. QED  BY <1>0, <2>1 DEF Launch, ProcessTypes
<1>3. ClientTypes'
  <2>1. launched' \in 0 .. MaxCalls
    BY <1>0, StreamAssumption DEF Launch, ClientTypes, StreamAssumption
  <2>2. QED  BY <1>0, <2>1 DEF Launch, ClientTypes
<1>4. RingTypes' /\ MarkTypes' /\ CodecTypes' /\ SwitchTypes'
  BY TypesAre DEF Launch, RingTypes, MarkTypes, CodecTypes, SwitchTypes, codecVars,
     switchVars
<1>5. QED  BY <1>1, <1>2, <1>3, <1>4, TypesThenAre

LEMMA DiscardQueuedDecodesTypes ==
  ASSUME Types, DiscardQueuedDecodes  PROVE Types'
<1>1. PlaceTypes'
  <2>1. "flush" \in Places \ {"pass", "finish"}
    BY DEF Places, Entering
  <2>2. QED  BY <2>1, ClientPlaces, TypesAre DEF DiscardQueuedDecodes
<1>2. CodecTypes'
  BY TypesAre DEF DiscardQueuedDecodes, CodecTypes
<1>3. RingTypes' /\ ProcessTypes' /\ MarkTypes' /\ SwitchTypes' /\ ClientTypes'
  BY TypesAre DEF DiscardQueuedDecodes, RingTypes, ProcessTypes, MarkTypes, SwitchTypes,
     ClientTypes, switchVars, clientVars
<1>4. QED  BY <1>1, <1>2, <1>3, TypesThenAre

LEMMA ReleaseTypes ==
  ASSUME Types, ReleaseQueuedDecodeBuffers  PROVE Types'
<1>0. /\ ring \in [Processes -> Seq(Buffer)] /\ PlaceTypes /\ CodecTypes
      /\ display \in Seq(Buffer) /\ Len(display) \in Nat
  BY TypesAre DEF RingTypes, CodecTypes
<1>1. PlaceTypes'
  <2>1. "number" \in Places \ {"pass", "finish"}
    BY DEF Places, Entering
  <2>2. QED  BY <2>1, <1>0, ClientPlaces DEF ReleaseQueuedDecodeBuffers
<1>2. PICK shown \in {0, 1} :
        /\ shown <= Len(display)
        /\ display' = SubSeq(display, 1, shown)
        /\ ring' = [ring EXCEPT !["PostM"] =
                     @ \o SubSeq(display, shown + 1, Len(display))]
  BY DEF ReleaseQueuedDecodeBuffers
<1>3. display' \in Seq(Buffer) /\ SubSeq(display, shown + 1, Len(display)) \in Seq(Buffer)
  BY <1>0, <1>2, ItemsSubSeq
<1>4. CodecTypes'
  BY <1>0, <1>3 DEF CodecTypes, ReleaseQueuedDecodeBuffers, codecVars
<1>5. RingTypes'
  BY <1>0, <1>2, <1>3, ProcessIs DEF RingTypes
<1>6. ProcessTypes' /\ MarkTypes' /\ SwitchTypes' /\ ClientTypes'
  BY TypesAre DEF ReleaseQueuedDecodeBuffers, ProcessTypes, MarkTypes, SwitchTypes,
     ClientTypes, switchVars, clientVars
<1>7. QED  BY <1>1, <1>4, <1>5, <1>6, TypesThenAre

LEMMA MarkerNumberTypes ==
  ASSUME Types, StreamAssumption, MarkerNumber  PROVE Types'
<1>1. PlaceTypes'
  <2>1. "insert" \in Places \ {"pass", "finish"}
    BY DEF Places, Entering
  <2>2. QED  BY <2>1, TypesAre, ClientPlaces DEF MarkerNumber
<1>2. ClientTypes'
  <2>1. next + RingSize \in Nat
    BY TypesAre DEF MarkTypes, StreamAssumption
  <2>2. QED  BY <2>1, TypesAre DEF MarkerNumber, ClientTypes
<1>3. RingTypes' /\ ProcessTypes' /\ MarkTypes' /\ CodecTypes' /\ SwitchTypes'
  BY TypesAre DEF MarkerNumber, RingTypes, ProcessTypes, MarkTypes, CodecTypes,
     SwitchTypes, codecVars, switchVars
<1>4. QED  BY <1>1, <1>2, <1>3, TypesThenAre

LEMMA InsertTypes ==
  ASSUME RingTypes, NEW p \in Processes, NEW b \in Buffer, Insert(p, b)
  PROVE  RingTypes'
<1>1. Append(ring[p], b) \in Seq(Buffer)
  BY DEF RingTypes
<1>2. QED  BY <1>1 DEF RingTypes, Insert

LEMMA MarkerInsertTypes ==
  ASSUME Types, StreamAssumption, MarkerInsert  PROVE Types'
<1>0. ClientTypes /\ PlaceTypes /\ RingTypes
  BY TypesAre
<1>1. PlaceTypes'
  <2>1. "ResetTimeMapping" \in Places \ {"pass", "finish"}
    BY DEF Places, Functions
  <2>2. QED  BY <2>1, <1>0, ClientPlaces DEF MarkerInsert
<1>2. RingTypes'
  <2>1. Marker(launched) \in Buffer
    BY <1>0, StreamAssumption DEF ClientTypes, Marker, Buffer, StreamAssumption
  <2>2. QED  BY <1>0, <2>1, InsertTypes, ProcessIs DEF MarkerInsert
<1>3. ClientTypes'
  BY <1>0 DEF MarkerInsert, ClientTypes
<1>4. MarkTypes'
  BY <1>0, TypesAre DEF MarkerInsert, ClientTypes, MarkTypes
<1>5. ProcessTypes' /\ CodecTypes' /\ SwitchTypes'
  BY TypesAre DEF MarkerInsert, ProcessTypes, CodecTypes, SwitchTypes, codecVars, switchVars
<1>6. QED  BY <1>1, <1>2, <1>3, <1>4, <1>5, TypesThenAre

LEMMA DestinationIs == \A fn \in Functions : Destination(fn) \in Processes
BY DEF Destination, Functions, Processes

LEMMA CallInSequenceTypes ==
  ASSUME Types, StreamAssumption, NEW fn \in Functions, CallInSequence(fn)  PROVE Types'
<1>0. ClientTypes /\ PlaceTypes /\ RingTypes
  BY TypesAre
<1>1. PlaceTypes'
  <2>1. NextCall(fn) \in Places \ {"pass", "finish"}
    BY <1>0 DEF Places, Functions, NextCall, ClientTypes
  <2>2. QED  BY <2>1, <1>0, ClientPlaces DEF CallInSequence
<1>2. RingTypes'
  <2>1. Call(fn) \in Buffer
    BY <1>0, StreamAssumption DEF ClientTypes, Call, Buffer, StreamAssumption
  <2>2. QED  BY <1>0, <2>1, InsertTypes, DestinationIs DEF CallInSequence
<1>3. ClientTypes'
  BY <1>0 DEF CallInSequence, ClientTypes, NoDrain
<1>4. MarkTypes' /\ ProcessTypes' /\ CodecTypes' /\ SwitchTypes'
  BY TypesAre DEF CallInSequence, MarkTypes, ProcessTypes, CodecTypes, SwitchTypes,
     codecVars, switchVars
<1>5. QED  BY <1>1, <1>2, <1>3, <1>4, TypesThenAre

LEMMA OtherTypes ==
  ASSUME Types, StreamAssumption,
         SwitchCollator \/ WaitForDrainCompletion \/ Manifested \/ Collate
  PROVE  Types'
<1>0. ClientTypes /\ PlaceTypes /\ RingTypes /\ CodecTypes /\ SwitchTypes
  BY TypesAre
<1>1. CASE SwitchCollator
  <2>1. PlaceTypes'
    <3>1. "SwitchFrameParser" \in Places \ {"pass", "finish"}
      BY DEF Places, Functions
    <3>2. QED  BY <1>0, <1>1, <3>1, ClientPlaces DEF SwitchCollator
  <2>2. SwitchTypes'
    <3>1. /\ collator' = collator + 1 /\ switching' = TRUE /\ lastOut' = FALSE
          /\ UNCHANGED <<drained, parser, codec, resets>>
      BY <1>1 DEF SwitchCollator
    <3>2. collator' \in Nat
      BY <1>0, <3>1 DEF SwitchTypes
    <3>3. QED  BY <1>0, <3>1, <3>2 DEF SwitchTypes
  <2>3. RingTypes' /\ MarkTypes' /\ ProcessTypes' /\ CodecTypes' /\ ClientTypes'
    BY <1>1, TypesAre DEF SwitchCollator, RingTypes, MarkTypes, ProcessTypes, CodecTypes,
       ClientTypes, codecVars, clientVars
  <2>4. QED  BY <2>1, <2>2, <2>3, TypesThenAre
<1>2. CASE WaitForDrainCompletion
  <2>1. PlaceTypes'
    <3>1. "idle" \in Places \ {"pass", "finish"}
      BY DEF Places
    <3>2. QED  BY <1>0, <1>2, <3>1, ClientPlaces DEF WaitForDrainCompletion
  <2>2. ClientTypes'
    BY <1>0, <1>2 DEF WaitForDrainCompletion, ClientTypes, NoDrain
  <2>3. RingTypes' /\ MarkTypes' /\ ProcessTypes' /\ CodecTypes' /\ SwitchTypes'
    BY <1>2, TypesAre DEF WaitForDrainCompletion, RingTypes, MarkTypes, ProcessTypes,
       CodecTypes, SwitchTypes, codecVars, switchVars
  <2>4. QED  BY <2>1, <2>2, <2>3, TypesThenAre
<1>3. CASE Manifested
  <2>1. Head(display) \in Buffer /\ Tail(display) \in Seq(Buffer)
    BY <1>0, <1>3 DEF CodecTypes, Manifested
  <2>2. RingTypes'
    BY <1>0, <1>3, <2>1, InsertTypes, ProcessIs DEF Manifested
  <2>3. CodecTypes'
    BY <1>0, <1>3, <2>1 DEF CodecTypes, Manifested, codecVars
  <2>4. PlaceTypes' /\ MarkTypes' /\ ProcessTypes' /\ SwitchTypes' /\ ClientTypes'
    BY <1>3, TypesAre DEF Manifested, PlaceTypes, MarkTypes, ProcessTypes,
       SwitchTypes, ClientTypes, processVars, switchVars, clientVars
  <2>5. QED  BY <2>2, <2>3, <2>4, TypesThenAre
<1>4. CASE Collate
  <2>1. sent \in Seq([drains : Nat, collator : Nat]) /\ Len(sent) \in Nat
        /\ marked \in Nat /\ collator \in Nat /\ Len(sent) < MaxFrames
        /\ Insert("CtoP", Frame(Len(sent) + 1))
        /\ sent' = Append(sent, [drains |-> marked, collator |-> collator])
        /\ UNCHANGED clientVars
    BY <1>0, <1>4 DEF ClientTypes, SwitchTypes, Collate
  <2>2. RingTypes'
    <3>1. Frame(Len(sent) + 1) \in Buffer
      BY <2>1, StreamAssumption DEF Frame, Buffer, StreamAssumption
    <3>2. QED  BY <1>0, <2>1, <3>1, InsertTypes, ProcessIs
  <2>3. ClientTypes'
    <3>1. sent' \in Seq([drains : Nat, collator : Nat]) /\ Len(sent') <= MaxFrames
      <4>1. [drains |-> marked, collator |-> collator] \in [drains : Nat, collator : Nat]
        BY <2>1
      <4>2. QED  BY <2>1, <4>1, AppendFacts, StreamAssumption DEF StreamAssumption
    <3>2. QED  BY <1>0, <2>1, <3>1 DEF ClientTypes, clientVars
  <2>4. PlaceTypes' /\ MarkTypes' /\ ProcessTypes' /\ CodecTypes' /\ SwitchTypes'
    BY <1>4, TypesAre DEF Collate, PlaceTypes, MarkTypes, ProcessTypes, CodecTypes,
       SwitchTypes, processVars, codecVars, switchVars
  <2>5. QED  BY <2>2, <2>3, <2>4, TypesThenAre
<1>5. QED  BY <1>1, <1>2, <1>3, <1>4

LEMMA TypesInit == StreamAssumption /\ Init => Types
<1> SUFFICES ASSUME StreamAssumption, Init  PROVE Types
  OBVIOUS
<1>1. RingTypes /\ PlaceTypes /\ MarkTypes
  BY DEF Init, RingTypes, PlaceTypes, MarkTypes, Places, Client, Processes
<1>2. ProcessTypes
  BY NothingBuffer, FS_EmptySet DEF Init, ProcessTypes
<1>3. CodecTypes
  BY NothingBuffer DEF Init, CodecTypes
<1>4. SwitchTypes
  BY DEF Init, SwitchTypes
<1>5. ClientTypes
  BY StreamAssumption DEF Init, ClientTypes, NoDrain, StreamAssumption
<1>6. QED  BY <1>1, <1>2, <1>3, <1>4, <1>5, TypesAre

LEMMA TypesNext ==
  ASSUME Types, Contents, StreamAssumption, [Next]_vars  PROVE Types'
<1>1. ASSUME NEW p \in Processes, ProcessStep(p)  PROVE Types'
  <2>1. CASE TakeCall(p) \/ Finish(p) \/ Take(p)
    BY <2>1, TakeCallTypes, FinishTypes, TakeTypes
  <2>2. CASE CollateToParse \/ PassToCodec \/ PassToManifestor \/ PostManifest
    BY <2>2, CollateToParseTypes, PassToCodecTypes, PassToManifestorTypes, PostManifestTypes
  <2>3. QED  BY <1>1, <2>1, <2>2 DEF ProcessStep
<1>2. CASE DecodeComplete \/ Manifested \/ Collate
  BY <1>2, DecodeCompleteTypes, OtherTypes
<1>3. ASSUME NEW mode \in {"block", "return", "switch"}, NEW discard \in BOOLEAN,
             Launch(mode, discard)
      PROVE  Types'
  BY <1>3, LaunchTypes
<1>4. CASE ClientStep
  BY <1>4, DiscardQueuedDecodesTypes, ReleaseTypes, MarkerNumberTypes, MarkerInsertTypes,
     CallInSequenceTypes, OtherTypes DEF ClientStep
<1>5. CASE UNCHANGED vars
  BY <1>5 DEF vars, processVars, codecVars, switchVars, clientVars, Types, At
<1>6. QED  BY <1>1, <1>2, <1>3, <1>4, <1>5 DEF Next

-----------------------------------------------------------------------------
(* What is where.                                                          *)
Fits(b, p) == AFrame(b) \/ AMarker(b) \/ ACall(b, p)
RingsHold  == \A p \in Processes : \A b \in Items(ring[p]) : Fits(b, p)
TablesHold ==
  /\ \A p \in Processes : \A b \in before[p] : ACall(b, p) /\ b.kind \in Befores
  /\ \A p \in Processes : \A b \in after[p] : ACall(b, p) /\ b.kind \notin Befores
CodecHolds ==
  /\ \A b \in Items(inflight) \cup Items(display) : AFrame(b)
  /\ held = Nothing \/ AMarker(held)
HandsHold ==
  /\ \A p \in {"PtoD", "DtoM"} : ~At(p, "idle") => AFrame(hand[p]) \/ AMarker(hand[p])
  /\ At("CtoP", "finish") => AFrame(hand["CtoP"]) \/ AMarker(hand["CtoP"])
SentHolds   == \A i \in 1 .. Len(sent) : sent[i].drains \in 0 .. marked
ClientHolds ==
  /\ launched = IF pc[Client] \in Entering THEN marked + 1 ELSE marked
  /\ pc[Client] # "idle" => launched > 0

LEMMA ContentsAre ==
  Contents <=> /\ RingsHold /\ TablesHold /\ CodecHolds /\ HandsHold
               /\ SentHolds /\ ClientHolds
BY DEF Contents, RingsHold, TablesHold, CodecHolds, HandsHold, SentHolds, ClientHolds, Fits

LEMMA ContentsThenAre ==
  Contents' <=> /\ RingsHold' /\ TablesHold' /\ CodecHolds' /\ HandsHold'
                /\ SentHolds' /\ ClientHolds'
BY ContentsAre, PTL

Counts == /\ Len(sent) \in Nat /\ marked \in Nat /\ launched \in Nat /\ next \in Nat
          /\ RingTypes
LEMMA CountTypes == Types => Counts
<1>1. Types => ClientTypes /\ MarkTypes /\ RingTypes
  BY TypesAre
<1>2. QED  BY <1>1 DEF Counts, ClientTypes, MarkTypes

LEMMA CountTypesThen == Types' => Counts'
BY CountTypes, PTL

LEMMA FnTypes ==
  ASSUME Types
  PROVE  /\ ring \in [Processes -> Seq(Buffer)] /\ hand \in [Processes -> Buffer]
         /\ before \in [Processes -> SUBSET Buffer] /\ after \in [Processes -> SUBSET Buffer]
         /\ keep \in [Processes -> BOOLEAN] /\ discarding \in [Processes -> BOOLEAN]
         /\ seen \in [Processes -> Int] /\ pc \in [Processes \cup {Client} -> Places]
         /\ inflight \in Seq(Buffer) /\ display \in Seq(Buffer) /\ held \in Buffer
  BY TypesAre DEF RingTypes, PlaceTypes, ProcessTypes, CodecTypes

LEMMA FitsStill ==
  ASSUME Types, Types', Len(sent') >= Len(sent), marked' >= marked
  PROVE  /\ \A b : AFrame(b) => AFrame(b)'
         /\ \A b : AMarker(b) => AMarker(b)'
         /\ \A b, p : ACall(b, p) => ACall(b, p)'
         /\ \A b, p : Fits(b, p) => Fits(b, p)'
<1>1. /\ Len(sent) \in Nat /\ Len(sent') \in Nat /\ marked \in Nat /\ marked' \in Nat
  BY CountTypes, CountTypesThen DEF Counts
<1>2. \A b : AFrame(b) => AFrame(b)'
  BY <1>1 DEF AFrame
<1>3. \A b : AMarker(b) => AMarker(b)'
  BY <1>1 DEF AMarker
<1>4. \A b, p : ACall(b, p) => ACall(b, p)'
  BY <1>1 DEF ACall
<1>5. QED  BY <1>2, <1>3, <1>4 DEF Fits

LEMMA SameFits ==
  ASSUME UNCHANGED <<sent, marked>>
  PROVE  /\ \A b : AFrame(b) => AFrame(b)'
         /\ \A b : AMarker(b) => AMarker(b)'
         /\ \A b, p : ACall(b, p) => ACall(b, p)'
         /\ \A b, p : Fits(b, p) => Fits(b, p)'
BY DEF AFrame, AMarker, ACall, Fits

LEMMA TailHolds ==
  ASSUME Types, RingsHold, UNCHANGED <<sent, marked>>, NEW p \in Processes,
         ring[p] # << >>, ring' = [ring EXCEPT ![p] = Tail(@)]
  PROVE  RingsHold' /\ Fits(Head(ring[p]), p)
<1>1. /\ ring \in [Processes -> Seq(Buffer)]
      /\ Items(Tail(ring[p])) \subseteq Items(ring[p]) /\ Head(ring[p]) \in Items(ring[p])
  BY ItemsTail DEF Types
<1>2. \A q \in Processes : Items(ring'[q]) \subseteq Items(ring[q])
  BY <1>1
<1>3. QED  BY <1>1, <1>2, SameFits DEF RingsHold

LEMMA InsertHolds ==
  ASSUME Types, Types', RingsHold, Len(sent') >= Len(sent), marked' >= marked,
         NEW p \in Processes, NEW b \in Buffer, Insert(p, b), Fits(b, p)'
  PROVE  RingsHold'
<1>1. /\ ring \in [Processes -> Seq(Buffer)]
      /\ Items(Append(ring[p], b)) = Items(ring[p]) \cup {b}
  <2>1. ring \in [Processes -> Seq(Buffer)]
    BY CountTypes DEF Counts, RingTypes
  <2>2. ring[p] \in Seq(Buffer)
    BY <2>1
  <2>3. QED  BY <2>1, <2>2, ItemsAppend
<1>2. \A q \in Processes : Items(ring'[q]) \subseteq Items(ring[q]) \cup (IF q = p THEN {b} ELSE {})
  BY <1>1 DEF Insert
<1>3. QED  BY <1>2, FitsStill DEF RingsHold

LEMMA SameRings ==
  ASSUME Types, Types', RingsHold, Len(sent') >= Len(sent), marked' >= marked, UNCHANGED ring
  PROVE  RingsHold'
BY FitsStill DEF RingsHold

LEMMA SameTables ==
  ASSUME Types, Types', TablesHold, Len(sent') >= Len(sent), marked' >= marked,
         \A p \in Processes : before'[p] \subseteq before[p] /\ after'[p] \subseteq after[p]
  PROVE  TablesHold'
BY FitsStill DEF TablesHold

LEMMA SameCodec ==
  ASSUME Types, Types', CodecHolds, Len(sent') >= Len(sent), marked' >= marked,
         UNCHANGED <<codecVars, display>>
  PROVE  CodecHolds'
BY FitsStill DEF CodecHolds, codecVars

LEMMA SameHands ==
  ASSUME Types, Types', HandsHold, Len(sent') >= Len(sent), marked' >= marked,
         UNCHANGED hand, \A p \in Processes : UNCHANGED pc[p]
  PROVE  HandsHold'
<1>1. /\ \A p \in {"PtoD", "DtoM"} : UNCHANGED pc[p]
      /\ UNCHANGED pc["CtoP"]
  BY ProcessIs
<1>2. QED  BY <1>1, FitsStill DEF HandsHold, At

LEMMA PassedHands ==
  ASSUME Types, HandsHold, UNCHANGED <<sent, marked>>, NEW p \in Readers, NEW b,
         AFrame(b) \/ AMarker(b), Passed(p, b)
  PROVE  HandsHold'
<1>1. pc' = [pc EXCEPT ![p] = IF Left(p, b) THEN "finish" ELSE "idle"]
  BY DEF Passed, Goto
<1>2. hand' = [hand EXCEPT ![p] = IF Left(p, b) THEN b ELSE Nothing]
  BY DEF Passed
<1>3. pc \in [Processes \cup {Client} -> Places] /\ hand \in [Processes -> Buffer]
  BY DEF Types
<1>4. p \in Processes
  BY DEF Readers, Processes
<1>5. AFrame(b)' \/ AMarker(b)'
  BY SameFits
<1>6. ASSUME NEW q \in Processes, q # p
      PROVE  UNCHANGED <<pc[q], hand[q]>>
  BY <1>1, <1>2, <1>3, <1>4, <1>6
<1>7. pc'[p] # "idle" => hand'[p] = b
  BY <1>1, <1>2, <1>3, <1>4
<1>8. \A q \in {"PtoD", "DtoM"} : ~At(q, "idle")' => AFrame(hand[q])' \/ AMarker(hand[q])'
  <2>1. TAKE q \in {"PtoD", "DtoM"}
  <2>2. CASE q = p  BY <1>5, <1>7, <2>2 DEF At
  <2>3. CASE q # p
    BY <1>6, <2>3, SameFits, ProcessIs DEF HandsHold, At
  <2>4. QED  BY <2>2, <2>3
<1>9. At("CtoP", "finish")' => AFrame(hand["CtoP"])' \/ AMarker(hand["CtoP"])'
  <2>2. CASE "CtoP" = p  BY <1>5, <1>7, <2>2 DEF At
  <2>3. CASE "CtoP" # p
    BY <1>6, <2>3, SameFits, ProcessIs DEF HandsHold, At
  <2>4. QED  BY <2>2, <2>3
<1>10. QED  BY <1>8, <1>9 DEF HandsHold

LEMMA SameClient ==
  ASSUME SentHolds, ClientHolds, UNCHANGED <<sent, marked, launched, pc[Client]>>
  PROVE  SentHolds' /\ ClientHolds'
BY DEF SentHolds, ClientHolds

LEMMA CollateToParseContents ==
  ASSUME Types, Types', Contents, CollateToParse  PROVE Contents'
<1> PICK in : in = Head(ring["CtoP"])
  OBVIOUS
<1> PICK b : b = IF IsFrame(in) THEN [in EXCEPT !.seq = next] ELSE in
  OBVIOUS
<1>0. /\ RingsHold /\ TablesHold /\ CodecHolds /\ HandsHold /\ SentHolds /\ ClientHolds
      /\ ring \in [Processes -> Seq(Buffer)] /\ next \in Nat
      /\ before \in [Processes -> SUBSET Buffer]
      /\ UNCHANGED <<sent, marked>> /\ Len(sent') >= Len(sent) /\ marked' >= marked
  <2>1. UNCHANGED <<sent, marked>>
    BY DEF CollateToParse, clientVars
  <2>2. QED  BY <2>1, ContentsAre, CountTypes, FnTypes DEF Counts
<1>1. /\ in \in Buffer /\ in \in Items(ring["CtoP"]) /\ ~IsCall(in)
      /\ Tail(ring["CtoP"]) \in Seq(Buffer)
      /\ \A x \in Items(Tail(ring["CtoP"])) : x \in Items(ring["CtoP"])
  <2>1. ring["CtoP"] # << >> /\ ~IsCall(in) /\ ring["CtoP"] \in Seq(Buffer)
    BY <1>0, ProcessIs DEF CollateToParse
  <2>2. QED  BY <2>1, HeadTypes, ItemsTail, ProcessIs
<1>2. b \in Buffer /\ (AFrame(b) \/ AMarker(b))
  <2>1. AFrame(in) \/ AMarker(in)
    BY <1>0, <1>1, ProcessIs DEF RingsHold, Fits, ACall
  <2>2. QED  BY <1>0, <1>1, <2>1, BufferFacts DEF AFrame, AMarker, IsFrame, IsMarker
<1>3. /\ ring' \in {[ring EXCEPT !["CtoP"] = Tail(@), !["PtoD"] = @],
                    [ring EXCEPT !["CtoP"] = Tail(@), !["PtoD"] = Append(@, b)]}
      /\ before' = [before EXCEPT !["CtoP"] = @ \ Due(@, b.seq)]
      /\ Passed("CtoP", b)
      /\ UNCHANGED <<after, codecVars, display, clientVars>>
  BY DEF CollateToParse
<1>4. RingsHold'
  <2>1. Items(Append(ring["PtoD"], b)) = Items(ring["PtoD"]) \cup {b}
    BY <1>0, <1>2, ItemsAppend, ProcessIs
  <2>5. /\ ring'["CtoP"] = Tail(ring["CtoP"])
        /\ ring'["PtoD"] \in {ring["PtoD"], Append(ring["PtoD"], b)}
        /\ \A q \in Processes : q # "CtoP" /\ q # "PtoD" => ring'[q] = ring[q]
    BY <1>0, <1>3, ProcessIs
  <2>2. \A q \in Processes : \A x \in Items(ring'[q]) : x \in Items(ring[q]) \/ x = b
    BY <1>1, <2>1, <2>5
  <2>3. \A q : Fits(b, q)
    BY <1>2 DEF Fits
  <2>4. QED  BY <1>0, <2>2, <2>3, SameFits DEF RingsHold
<1>5. TablesHold'
  BY <1>0, <1>3, SameTables
<1>6. CodecHolds'
  BY <1>0, <1>3, SameCodec
<1>7. HandsHold'
  BY <1>0, <1>2, <1>3, PassedHands DEF Readers
<1>8. SentHolds' /\ ClientHolds'
  <2>1. UNCHANGED <<launched, pc[Client]>>
    BY <1>3, ProcessIs DEF clientVars, Passed, Goto, Types
  <2>2. QED  BY <1>0, <2>1, SameClient
<1>9. QED  BY <1>4, <1>5, <1>6, <1>7, <1>8, ContentsThenAre

LEMMA TakeContents ==
  ASSUME Types, Types', Contents, NEW p \in Processes, Take(p)  PROVE Contents'
<1> PICK b : b = Head(ring[p])
  OBVIOUS
<1>0. /\ RingsHold /\ TablesHold /\ CodecHolds /\ HandsHold /\ SentHolds /\ ClientHolds
      /\ UNCHANGED <<sent, marked>> /\ Len(sent') >= Len(sent) /\ marked' >= marked
      /\ before \in [Processes -> SUBSET Buffer] /\ after \in [Processes -> SUBSET Buffer]
  <2>1. UNCHANGED <<sent, marked>>
    BY DEF Take, clientVars
  <2>2. QED  BY <2>1, ContentsAre, CountTypes, FnTypes DEF Counts
<1>1. /\ ring[p] # << >> /\ ring' = [ring EXCEPT ![p] = Tail(@)] /\ ~IsCall(b)
      /\ hand' = [hand EXCEPT ![p] = b] /\ pc' = [pc EXCEPT ![p] = "pass"]
      /\ p \in {"PtoD", "DtoM"}
      /\ UNCHANGED <<codecVars, display, clientVars>>
  BY DEF Take, Goto
<1>2. RingsHold' /\ (AFrame(b) \/ AMarker(b))
  BY <1>0, <1>1, TailHolds DEF Fits, ACall
<1>3. TablesHold'
  <2>1. \A q \in Processes : before'[q] \subseteq before[q] /\ after'[q] \subseteq after[q]
    BY <1>0 DEF Take
  <2>2. QED  BY <1>0, <2>1, SameTables
<1>4. CodecHolds'
  BY <1>0, <1>1, SameCodec
<1>5. HandsHold'
  <2>1. /\ hand'[p] = b /\ \A q \in Processes : q # p => UNCHANGED <<pc[q], hand[q]>>
    BY <1>1 DEF Types
  <2>2. AFrame(b)' \/ AMarker(b)'
    BY <1>0, <1>2, SameFits DEF AFrame, AMarker
  <2>3. QED  BY <1>0, <1>1, <2>1, <2>2, SameFits, ProcessIs DEF HandsHold, At
<1>6. SentHolds' /\ ClientHolds'
  <2>1. UNCHANGED <<launched, pc[Client]>>
    BY <1>1, ProcessIs DEF clientVars, Types
  <2>2. QED  BY <1>0, <2>1, SameClient
<1>7. QED  BY <1>2, <1>3, <1>4, <1>5, <1>6, ContentsThenAre

LEMMA PassToCodecContents ==
  ASSUME Types, Types', Contents, PassToCodec  PROVE Contents'
<1> PICK b : b = hand["PtoD"]
  OBVIOUS
<1>0. /\ RingsHold /\ TablesHold /\ CodecHolds /\ HandsHold /\ SentHolds /\ ClientHolds
      /\ UNCHANGED <<sent, marked>> /\ Len(sent') >= Len(sent) /\ marked' >= marked
      /\ inflight \in Seq(Buffer)
  BY ContentsAre, CountTypes DEF Counts, PassToCodec, clientVars, Types
<1>1. b \in Buffer /\ (AFrame(b) \/ AMarker(b))
  <2>1. ~At("PtoD", "idle")
    BY DEF PassToCodec, At
  <2>2. QED  BY <1>0, <2>1, ProcessIs DEF HandsHold, Types
<1>2. /\ Passed("PtoD", b)
      /\ UNCHANGED <<before, after, display, clientVars>>
      /\ \/ UNCHANGED <<ring, codecVars>>
         \/ IsFrame(b) /\ inflight' = Append(inflight, b) /\ UNCHANGED <<ring, held, ahead, drop>>
         \/ Insert("DtoM", b) /\ held' = Nothing /\ UNCHANGED <<inflight, ahead, drop>>
         \/ /\ ~IsFrame(b) /\ held' = b
            /\ UNCHANGED <<ring, inflight, drop>>
  BY DEF PassToCodec
<1>3. AFrame(b)' \/ AMarker(b)'
  BY <1>0, <1>1, SameFits DEF AFrame, AMarker
<1>4. RingsHold' /\ CodecHolds'
  <2>1. CASE UNCHANGED <<ring, codecVars>>
    BY <1>0, <1>2, <2>1, SameRings, SameCodec
  <2>2. CASE IsFrame(b) /\ inflight' = Append(inflight, b) /\ UNCHANGED <<ring, held, ahead, drop>>
    <3>1. Items(inflight') = Items(inflight) \cup {b}
      BY <1>0, <1>1, <2>2, ItemsAppend
    <3>2. AFrame(b)
      BY <1>1, <2>2, Kinds DEF AMarker
    <3>3. CodecHolds'
      BY <1>0, <1>2, <2>2, <3>1, <3>2, SameFits DEF CodecHolds
    <3>4. QED  BY <1>0, <2>2, <3>3, SameRings
  <2>3. CASE Insert("DtoM", b) /\ held' = Nothing /\ UNCHANGED <<inflight, ahead, drop>>
    <3>1. RingsHold'
      BY <1>0, <1>1, <1>3, <2>3, InsertHolds, ProcessIs DEF Fits
    <3>2. QED  BY <1>0, <1>2, <2>3, <3>1, SameFits DEF CodecHolds
  <2>4. CASE ~IsFrame(b) /\ held' = b /\ UNCHANGED <<ring, inflight, drop>>
    <3>1. AMarker(b)'
      BY <1>1, <2>4, <1>0, SameFits DEF AFrame
    <3>2. CodecHolds'
      BY <1>0, <1>2, <2>4, <3>1, SameFits DEF CodecHolds, AMarker
    <3>3. QED  BY <1>0, <2>4, <3>2, SameRings
  <2>5. QED  BY <1>2, <2>1, <2>2, <2>3, <2>4
<1>5. TablesHold'
  BY <1>0, <1>2, SameTables
<1>6. HandsHold'
  BY <1>0, <1>1, <1>2, PassedHands DEF Readers
<1>7. SentHolds' /\ ClientHolds'
  <2>1. UNCHANGED <<launched, pc[Client]>>
    BY <1>2, ProcessIs DEF clientVars, Passed, Goto, Types
  <2>2. QED  BY <1>0, <2>1, SameClient
<1>8. QED  BY <1>4, <1>5, <1>6, <1>7, ContentsThenAre

LEMMA DecodeCompleteContents ==
  ASSUME Types, Types', Contents, DecodeComplete  PROVE Contents'
<1>0. /\ RingsHold /\ TablesHold /\ CodecHolds /\ HandsHold /\ SentHolds /\ ClientHolds
      /\ UNCHANGED <<sent, marked, pc, hand, launched, before, after>>
      /\ Len(sent') >= Len(sent) /\ marked' >= marked
      /\ ring \in [Processes -> Seq(Buffer)]
      /\ inflight \in Seq(Buffer) /\ inflight # << >> /\ held \in Buffer
  BY ContentsAre, CountTypes DEF Counts, DecodeComplete, clientVars, processVars, Types
<1>1. Head(inflight) \in Items(inflight) /\ Items(Tail(inflight)) \subseteq Items(inflight)
  BY <1>0, ItemsTail
<1>2. CodecHolds'
  <2>1. inflight' = Tail(inflight) /\ held' \in {Nothing, held} /\ UNCHANGED display
    BY DEF DecodeComplete
  <2>2. QED  BY <1>0, <1>1, <2>1, SameFits DEF CodecHolds
<1>3. RingsHold'
  <2> DEFINE s == IF drop > 0 THEN << >> ELSE <<Head(inflight)>>
             t == IF held # Nothing /\ ahead = 1 THEN <<held>> ELSE << >>
  <2>1. ring' = [ring EXCEPT !["DtoM"] = @ \o s \o t]
    BY DEF DecodeComplete
  <2>2. s \in Seq(Buffer) /\ t \in Seq(Buffer)
    <3>1. Head(inflight) \in Buffer
      BY <1>0, TailFacts
    <3>2. << >> \in Seq(Buffer) /\ <<Head(inflight)>> \in Seq(Buffer) /\ <<held>> \in Seq(Buffer)
      BY <1>0, <3>1
    <3>3. QED  BY <3>2
  <2>3. \A x \in Items(s) \cup Items(t) : x = Head(inflight) \/ (x = held /\ held # Nothing)
    BY DEF Items
  <2> HIDE DEF s, t
  <2>4. ring'["DtoM"] = ring["DtoM"] \o s \o t /\ ring["DtoM"] \in Seq(Buffer)
    BY <1>0, <2>1, ProcessIs
  <2>5. Items(ring'["DtoM"]) = Items(ring["DtoM"]) \cup Items(s) \cup Items(t)
    <3>1. PICK y : y = ring["DtoM"] \o s
      OBVIOUS
    <3>2. y \in Seq(Buffer)
      BY <2>2, <2>4, <3>1
    <3>3. Items(y) = Items(ring["DtoM"]) \cup Items(s)
      BY <2>2, <2>4, <3>1, ItemsConcat
    <3>4. Items(y \o t) = Items(y) \cup Items(t)
      BY <2>2, <3>2, ItemsConcat
    <3>5. ring'["DtoM"] = y \o t
      BY <2>4, <3>1
    <3>6. QED  BY ONLY <3>3, <3>4, <3>5
  <2>6. \A q \in Processes : q # "DtoM" => UNCHANGED ring[q]
    BY <1>0, <2>1
  <2>7. \A q \in Processes : \A x \in Items(ring'[q]) :
          x \in Items(ring[q]) \/ AFrame(x) \/ AMarker(x)
    <3>1. \A x \in Items(s) \cup Items(t) : AFrame(x) \/ AMarker(x)
      BY <1>0, <1>1, <2>3 DEF CodecHolds
    <3>2. QED  BY <2>5, <2>6, <3>1
  <2>8. QED  BY <1>0, <2>7, SameFits DEF RingsHold, Fits
<1>4. TablesHold'
  BY <1>0, SameTables
<1>5. HandsHold'
  BY <1>0, SameHands
<1>6. SentHolds' /\ ClientHolds'
  BY <1>0, SameClient
<1>7. QED  BY <1>2, <1>3, <1>4, <1>5, <1>6, ContentsThenAre

LEMMA PassToManifestorContents ==
  ASSUME Types, Types', Contents, PassToManifestor  PROVE Contents'
<1> PICK b : b = hand["DtoM"]
  OBVIOUS
<1>0. /\ RingsHold /\ TablesHold /\ CodecHolds /\ HandsHold /\ SentHolds /\ ClientHolds
      /\ UNCHANGED <<sent, marked>> /\ Len(sent') >= Len(sent) /\ marked' >= marked
      /\ display \in Seq(Buffer)
  BY ContentsAre, CountTypes DEF Counts, PassToManifestor, clientVars, Types
<1>1. b \in Buffer /\ (AFrame(b) \/ AMarker(b))
  <2>1. ~At("DtoM", "idle")
    BY DEF PassToManifestor, At
  <2>2. QED  BY <1>0, <2>1, ProcessIs DEF HandsHold, Types
<1>2. /\ Passed("DtoM", b)
      /\ UNCHANGED <<before, after, codecVars, clientVars>>
      /\ \/ Insert("PostM", b) /\ UNCHANGED display
         \/ ~IsMarker(b) /\ display' = Append(display, b) /\ UNCHANGED ring
         \/ UNCHANGED <<display, ring>>
  BY DEF PassToManifestor
<1>3. AFrame(b)' \/ AMarker(b)'
  BY <1>0, <1>1, SameFits DEF AFrame, AMarker
<1>4. RingsHold'
  <2>1. CASE Insert("PostM", b)
    BY <1>0, <1>1, <1>3, <2>1, InsertHolds, ProcessIs DEF Fits
  <2>2. CASE UNCHANGED ring
    BY <1>0, <2>2, SameRings
  <2>3. QED  BY <1>2, <2>1, <2>2
<1>5. CodecHolds'
  <2>1. CASE ~IsMarker(b) /\ display' = Append(display, b)
    <3>1. Items(display') = Items(display) \cup {b}
      BY <1>0, <1>1, <2>1, ItemsAppend
    <3>2. AFrame(b)
      BY <1>1, <2>1 DEF AMarker
    <3>3. QED  BY <1>0, <1>2, <3>1, <3>2, SameFits DEF CodecHolds, codecVars
  <2>2. CASE UNCHANGED display
    BY <1>0, <1>2, <2>2, SameCodec
  <2>3. QED  BY <1>2, <2>1, <2>2
<1>6. TablesHold'
  BY <1>0, <1>2, SameTables
<1>7. HandsHold'
  BY <1>0, <1>1, <1>2, PassedHands DEF Readers
<1>8. SentHolds' /\ ClientHolds'
  <2>1. UNCHANGED <<launched, pc[Client]>>
    BY <1>2, ProcessIs DEF clientVars, Passed, Goto, Types
  <2>2. QED  BY <1>0, <2>1, SameClient
<1>9. QED  BY <1>4, <1>5, <1>6, <1>7, <1>8, ContentsThenAre

LEMMA FinishContents ==
  ASSUME Types, Types', Contents, NEW p \in Processes, Finish(p)  PROVE Contents'
<1>0. /\ RingsHold /\ TablesHold /\ CodecHolds /\ HandsHold /\ SentHolds /\ ClientHolds
      /\ UNCHANGED <<sent, marked, ring, before, codecVars, display, launched>>
      /\ Len(sent') >= Len(sent) /\ marked' >= marked
  <2>1. UNCHANGED <<sent, marked, ring, before, codecVars, display, launched>>
    BY DEF Finish, clientVars
  <2>2. QED  BY <2>1, ContentsAre, CountTypes DEF Counts
<1>1. /\ pc' = [pc EXCEPT ![p] = "idle"] /\ hand' = [hand EXCEPT ![p] = Nothing]
      /\ after' = [after EXCEPT ![p] = @ \ Due(@, hand[p].seq)]
  BY DEF Finish, Goto
<1>2. RingsHold' /\ CodecHolds'
  BY <1>0, SameRings, SameCodec
<1>3. TablesHold'
  <2>1. \A q \in Processes : after'[q] \subseteq after[q]
    BY <1>1, FnTypes
  <2>2. QED  BY <1>0, <2>1, SameTables
<1>4. HandsHold'
  <2>1. /\ pc'[p] = "idle"
        /\ \A q \in Processes : q # p => UNCHANGED <<pc[q], hand[q]>>
    BY <1>1, FnTypes
  <2>2. QED  BY <1>0, <2>1, SameFits, ProcessIs DEF HandsHold, At
<1>5. SentHolds' /\ ClientHolds'
  <2>1. UNCHANGED pc[Client]
    BY <1>1, FnTypes, ProcessIs
  <2>2. QED  BY <1>0, <2>1, SameClient
<1>6. QED  BY <1>2, <1>3, <1>4, <1>5, ContentsThenAre

LEMMA PostManifestContents ==
  ASSUME Types, Types', Contents, PostManifest  PROVE Contents'
<1>0. /\ RingsHold /\ TablesHold /\ CodecHolds /\ HandsHold /\ SentHolds /\ ClientHolds
      /\ UNCHANGED <<sent, marked, pc, hand, codecVars, display, launched>>
      /\ Len(sent') >= Len(sent) /\ marked' >= marked
  <2>1. UNCHANGED <<sent, marked, pc, hand, codecVars, display, launched>>
    BY DEF PostManifest, clientVars
  <2>2. QED  BY <2>1, ContentsAre, CountTypes DEF Counts
<1>1. RingsHold'
  BY <1>0, TailHolds, ProcessIs DEF PostManifest
<1>2. TablesHold'
  <2>1. \A q \in Processes : before'[q] \subseteq before[q] /\ after'[q] \subseteq after[q]
    BY FnTypes DEF PostManifest
  <2>2. QED  BY <1>0, <2>1, SameTables
<1>3. CodecHolds' /\ HandsHold'
  BY <1>0, SameCodec, SameHands
<1>4. SentHolds' /\ ClientHolds'
  BY <1>0, SameClient
<1>5. QED  BY <1>1, <1>2, <1>3, <1>4, ContentsThenAre

LEMMA TakeCallContents ==
  ASSUME Types, Types', Contents, NEW p \in Processes, TakeCall(p)  PROVE Contents'
<1> PICK c : c = Head(ring[p])
  OBVIOUS
<1>0. /\ RingsHold /\ TablesHold /\ CodecHolds /\ HandsHold /\ SentHolds /\ ClientHolds
      /\ UNCHANGED <<sent, marked, pc, hand, codecVars, display, launched>>
      /\ Len(sent') >= Len(sent) /\ marked' >= marked
  <2>1. UNCHANGED <<sent, marked, pc, hand, codecVars, display, launched>>
    BY DEF TakeCall, clientVars
  <2>2. QED  BY <2>1, ContentsAre, CountTypes DEF Counts
<1>1. RingsHold' /\ ACall(c, p)
  <2>1. ring[p] # << >> /\ IsCall(c) /\ ring' = [ring EXCEPT ![p] = Tail(@)]
    BY DEF TakeCall
  <2>2. RingsHold' /\ Fits(c, p)
    BY <1>0, <2>1, TailHolds
  <2>3. QED  BY <2>1, <2>2, Kinds DEF Fits, AFrame, AMarker
<1>2. TablesHold'
  <2> DEFINE T(t) == IF c.seq <= seen[p] \/ Cardinality(t) >= TableSize THEN t ELSE t \cup {c}
  <2>1. IF c.kind \in Befores
        THEN before' = [before EXCEPT ![p] = T(@)] /\ UNCHANGED after
        ELSE after' = [after EXCEPT ![p] = T(@)] /\ UNCHANGED before
    BY DEF TakeCall
  <2>2. \A t : T(t) \subseteq t \cup {c}
    OBVIOUS
  <2> HIDE DEF T
  <2>3. \A q \in Processes : \A b \in before'[q] :
          b \in before[q] \/ (q = p /\ b = c /\ c.kind \in Befores)
    BY <2>1, <2>2, FnTypes
  <2>4. \A q \in Processes : \A b \in after'[q] :
          b \in after[q] \/ (q = p /\ b = c /\ c.kind \notin Befores)
    BY <2>1, <2>2, FnTypes
  <2>5. QED  BY <1>0, <1>1, <2>3, <2>4, SameFits DEF TablesHold
<1>3. CodecHolds' /\ HandsHold'
  BY <1>0, SameCodec, SameHands
<1>4. SentHolds' /\ ClientHolds'
  BY <1>0, SameClient
<1>5. QED  BY <1>1, <1>2, <1>3, <1>4, ContentsThenAre

LEMMA ManifestedContents ==
  ASSUME Types, Types', Contents, Manifested  PROVE Contents'
<1>0. /\ RingsHold /\ TablesHold /\ CodecHolds /\ HandsHold /\ SentHolds /\ ClientHolds
      /\ UNCHANGED <<sent, marked, pc, hand, codecVars, before, after, launched>>
      /\ Len(sent') >= Len(sent) /\ marked' >= marked
  <2>1. UNCHANGED <<sent, marked, pc, hand, codecVars, before, after, launched>>
    BY DEF Manifested, clientVars, processVars
  <2>2. QED  BY <2>1, ContentsAre, CountTypes DEF Counts
<1> PICK b : b = Head(display)
  OBVIOUS
<1>1. b \in Buffer /\ b \in Items(display) /\ Items(Tail(display)) \subseteq Items(display)
  BY FnTypes, ItemsTail, TailFacts DEF Manifested
<1>2. AFrame(b)
  BY <1>0, <1>1 DEF CodecHolds
<1>3. RingsHold'
  <2>1. Insert("PostM", b) /\ Fits(b, "PostM")'
    BY <1>0, <1>2, SameFits DEF Manifested, Fits
  <2>2. QED  BY <1>0, <1>1, <2>1, InsertHolds, ProcessIs
<1>4. CodecHolds'
  <2>1. display' = Tail(display)
    BY DEF Manifested
  <2>2. QED  BY <1>0, <1>1, <2>1, SameFits DEF CodecHolds, codecVars
<1>5. TablesHold' /\ HandsHold'
  BY <1>0, SameTables, SameHands
<1>6. SentHolds' /\ ClientHolds'
  BY <1>0, SameClient
<1>7. QED  BY <1>3, <1>4, <1>5, <1>6, ContentsThenAre

LEMMA CollateContents ==
  ASSUME Types, Types', Contents, Collate  PROVE Contents'
<1>0. /\ RingsHold /\ TablesHold /\ CodecHolds /\ HandsHold /\ SentHolds /\ ClientHolds
      /\ UNCHANGED <<marked, pc, hand, codecVars, display, before, after, launched>>
      /\ marked' >= marked /\ marked \in Nat /\ Len(sent) \in Nat
  <2>1. UNCHANGED <<marked, pc, hand, codecVars, display, before, after, launched>>
    BY DEF Collate, clientVars, processVars
  <2>2. QED  BY <2>1, ContentsAre, CountTypes DEF Counts
<1>1. /\ Len(sent') = Len(sent) + 1
      /\ \A i \in 1 .. Len(sent) : sent'[i] = sent[i]
      /\ sent'[Len(sent) + 1] = [drains |-> marked, collator |-> collator]
  <2>1. /\ sent \in Seq([drains : Nat, collator : Nat])
        /\ [drains |-> marked, collator |-> collator] \in [drains : Nat, collator : Nat]
        /\ sent' = Append(sent, [drains |-> marked, collator |-> collator])
    BY <1>0, TypesAre DEF ClientTypes, SwitchTypes, Collate
  <2>2. QED  BY <2>1, AppendFacts
<1>2. RingsHold'
  <2> PICK b : b = Frame(Len(sent) + 1)
    OBVIOUS
  <2>1. IsFrame(b) /\ b.n = Len(sent) + 1 /\ Insert("CtoP", b)
    BY DEF Collate, Frame, IsFrame
  <2>2. Fits(b, "CtoP")'
    BY <1>0, <1>1, <2>1 DEF Fits, AFrame
  <2>3. b \in Buffer
    BY <1>0, TypesAre, StreamAssumption
       DEF ClientTypes, Collate, Frame, Buffer, StreamAssumption
  <2>4. QED  BY <1>0, <1>1, <2>1, <2>2, <2>3, InsertHolds, ProcessIs
<1>3. TablesHold' /\ HandsHold' /\ CodecHolds'
  BY <1>0, <1>1, SameTables, SameHands, SameCodec
<1>4. SentHolds'
  <2>1. \A i \in 1 .. Len(sent) : sent'[i].drains \in 0 .. marked
    BY <1>0, <1>1 DEF SentHolds
  <2>2. sent'[Len(sent) + 1].drains \in 0 .. marked
    BY <1>0, <1>1
  <2>3. QED  BY <1>0, <1>1, <2>1, <2>2 DEF SentHolds
<1>5. ClientHolds'
  BY <1>0 DEF ClientHolds
<1>6. QED  BY <1>2, <1>3, <1>4, <1>5, ContentsThenAre

LEMMA SentStill ==
  ASSUME SentHolds, UNCHANGED sent, marked \in Nat, marked' \in Nat, marked' >= marked
  PROVE  SentHolds'
BY DEF SentHolds

LEMMA NotEntering ==
  /\ \A fn \in Functions :
       /\ fn \notin Entering
       /\ drain.mode \in {"block", "return", "switch"} => NextCall(fn) \notin Entering
  /\ "idle" \notin Entering /\ "collator" \notin Entering /\ "wait" \notin Entering
BY DEF Functions, Entering, NextCall

LEMMA ClientContents ==
  ASSUME Types, Types', Contents,
         \/ \E mode \in {"block", "return", "switch"}, discard \in BOOLEAN : Launch(mode, discard)
         \/ DiscardQueuedDecodes \/ MarkerNumber
         \/ SwitchCollator \/ WaitForDrainCompletion
  PROVE  Contents'
<1>0. /\ RingsHold /\ TablesHold /\ CodecHolds /\ HandsHold /\ SentHolds /\ ClientHolds
      /\ UNCHANGED <<marked, sent, ring, hand, display, before, after, inflight, held>>
      /\ marked' >= marked /\ Len(sent') >= Len(sent)
      /\ marked \in Nat /\ launched \in Nat
  <2>1. UNCHANGED <<marked, sent, ring, hand, display, before, after, inflight, held>>
    BY DEF Launch, DiscardQueuedDecodes, MarkerNumber, SwitchCollator,
           WaitForDrainCompletion, clientVars, processVars, codecVars
  <2>2. QED  BY <2>1, ContentsAre, CountTypes DEF Counts
<1>1. PICK l : Goto(Client, l)
  BY DEF Launch, DiscardQueuedDecodes, MarkerNumber, SwitchCollator, WaitForDrainCompletion
<1>2. RingsHold' /\ TablesHold'
  BY <1>0, SameRings, SameTables
<1>3. CodecHolds'
  BY <1>0, SameFits DEF CodecHolds
<1>4. HandsHold'
  <2>1. \A p \in Processes : UNCHANGED pc[p]
    BY <1>1, FnTypes, ProcessIs DEF Goto
  <2>2. QED  BY <1>0, <2>1, SameHands
<1>5. SentHolds'
  BY <1>0, SentStill
<1>6. ClientHolds'
  <2>1. pc'[Client] = l
    BY <1>1, FnTypes DEF Goto
  <2>2. \/ pc[Client] = "idle" /\ l \in {"drop", "number"} /\ launched' = launched + 1
        \/ pc[Client] = "drop" /\ l = "flush" /\ launched' = launched
        \/ pc[Client] = "number" /\ l = "insert" /\ launched' = launched
        \/ pc[Client] = "collator" /\ l = "SwitchFrameParser" /\ launched' = launched
        \/ pc[Client] = "wait" /\ l = "idle" /\ launched' = launched
    BY <2>1, FnTypes DEF Launch, DiscardQueuedDecodes, MarkerNumber, SwitchCollator,
           WaitForDrainCompletion, clientVars, Goto, At
  <2>3. QED  BY <1>0, <2>1, <2>2 DEF ClientHolds, Entering
<1>7. QED  BY <1>2, <1>3, <1>4, <1>5, <1>6, ContentsThenAre

LEMMA ReleaseContents ==
  ASSUME Types, Types', Contents, ReleaseQueuedDecodeBuffers  PROVE Contents'
<1>0. /\ RingsHold /\ TablesHold /\ CodecHolds /\ HandsHold /\ SentHolds /\ ClientHolds
      /\ UNCHANGED <<marked, sent, hand, before, after, codecVars, launched>>
      /\ marked' >= marked /\ Len(sent') >= Len(sent)
      /\ marked \in Nat
  <2>1. UNCHANGED <<marked, sent, hand, before, after, codecVars, launched>>
    BY DEF ReleaseQueuedDecodeBuffers, clientVars
  <2>2. QED  BY <2>1, ContentsAre, CountTypes DEF Counts
<1>1. PICK shown \in {0, 1} :
        /\ shown <= Len(display)
        /\ display' = SubSeq(display, 1, shown)
        /\ ring' = [ring EXCEPT !["PostM"] =
                     @ \o SubSeq(display, shown + 1, Len(display))]
  BY DEF ReleaseQueuedDecodeBuffers
<1> DEFINE s == SubSeq(display, shown + 1, Len(display))
<1>2. /\ s \in Seq(Buffer) /\ Items(s) \subseteq Items(display)
      /\ Items(display') \subseteq Items(display)
  <2>1. display \in Seq(Buffer) /\ Len(display) \in Nat
    BY FnTypes
  <2>2. shown + 1 \in 1 .. Len(display) + 1 /\ shown \in 0 .. Len(display)
        /\ 1 \in 1 .. Len(display) + 1 /\ Len(display) \in 0 .. Len(display)
    BY <1>1, <2>1
  <2>3. QED  BY <1>1, <2>1, <2>2, ItemsSubSeq
<1>3. CodecHolds'
  BY <1>0, <1>2, SameFits DEF CodecHolds, codecVars
<1>4. RingsHold'
  <2>1. /\ Items(ring'["PostM"]) = Items(ring["PostM"]) \cup Items(s)
        /\ \A q \in Processes : q # "PostM" => UNCHANGED ring[q]
    <3>1. ring'["PostM"] = ring["PostM"] \o s /\ ring["PostM"] \in Seq(Buffer)
      BY <1>1, FnTypes, ProcessIs
    <3>2. \A q \in Processes : q # "PostM" => UNCHANGED ring[q]
      BY <1>1, FnTypes
    <3> HIDE DEF s
    <3>3. QED  BY <1>2, <3>1, <3>2, ItemsConcat
  <2> HIDE DEF s
  <2>2. \A b \in Items(s) : AFrame(b)
    BY <1>0, <1>2 DEF CodecHolds
  <2>3. QED  BY <1>0, <2>1, <2>2, SameFits DEF RingsHold, Fits
<1>5. pc' = [pc EXCEPT ![Client] = "number"] /\ pc[Client] = "flush"
  BY DEF ReleaseQueuedDecodeBuffers, Goto, At
<1>6. TablesHold' /\ HandsHold'
  <2>1. \A p \in Processes : UNCHANGED pc[p]
    BY <1>5, FnTypes, ProcessIs
  <2>2. QED  BY <1>0, <2>1, SameTables, SameHands
<1>7. SentHolds'
  BY <1>0, SentStill
<1>8. ClientHolds'
  <2>1. pc'[Client] = "number"
    BY <1>5, FnTypes
  <2>2. QED  BY <1>0, <1>5, <2>1 DEF ClientHolds, Entering
<1>9. QED  BY <1>3, <1>4, <1>6, <1>7, <1>8, ContentsThenAre

LEMMA MarkerInsertContents ==
  ASSUME Types, Types', Contents, MarkerInsert  PROVE Contents'
<1>0. /\ RingsHold /\ TablesHold /\ CodecHolds /\ HandsHold /\ SentHolds /\ ClientHolds
      /\ UNCHANGED <<sent, hand, before, after, codecVars, display, launched, drain>>
      /\ marked' = launched /\ pc[Client] = "insert"
      /\ pc' = [pc EXCEPT ![Client] = "ResetTimeMapping"]
      /\ Insert("CtoP", Marker(launched))
      /\ Len(sent') >= Len(sent) /\ marked \in Nat /\ launched \in Nat
  <2>1. UNCHANGED <<sent, hand, before, after, codecVars, display, launched, drain>>
    BY DEF MarkerInsert
  <2>2. QED  BY <2>1, ContentsAre, CountTypes DEF Counts, MarkerInsert, At, Goto
<1>1. marked' = marked + 1
  BY <1>0 DEF ClientHolds, Entering
<1>2. RingsHold'
  <2> PICK b : b = Marker(launched)
    OBVIOUS
  <2>1. b \in Buffer /\ IsMarker(b) /\ b.n = launched /\ b.seq \in Nat
    BY <1>0, TypesAre, StreamAssumption
       DEF ClientTypes, Marker, Buffer, IsMarker, StreamAssumption
  <2>2. Fits(b, "CtoP")'
    BY <1>0, <1>1, <2>1 DEF Fits, AMarker
  <2>3. QED  BY <1>0, <1>1, <2>1, <2>2, InsertHolds, ProcessIs
<1>3. TablesHold' /\ HandsHold' /\ CodecHolds'
  <2>1. \A p \in Processes : UNCHANGED pc[p]
    BY <1>0, FnTypes, ProcessIs
  <2>2. QED  BY <1>0, <1>1, <2>1, SameTables, SameHands, SameCodec
<1>4. SentHolds'
  BY <1>0, <1>1, SentStill
<1>5. ClientHolds'
  <2>1. pc'[Client] = "ResetTimeMapping"
    BY <1>0, FnTypes
  <2>2. QED  BY <1>0, <2>1 DEF ClientHolds, Entering
<1>6. QED  BY <1>2, <1>3, <1>4, <1>5, ContentsThenAre

LEMMA CallInSequenceContents ==
  ASSUME Types, Types', Contents, NEW fn \in Functions, CallInSequence(fn)  PROVE Contents'
<1>0. /\ RingsHold /\ TablesHold /\ CodecHolds /\ HandsHold /\ SentHolds /\ ClientHolds
      /\ UNCHANGED <<sent, hand, before, after, codecVars, display, launched, marked>>
      /\ pc[Client] = fn /\ pc' = [pc EXCEPT ![Client] = NextCall(fn)]
      /\ Insert(Destination(fn), Call(fn))
      /\ marked' >= marked /\ Len(sent') >= Len(sent)
      /\ marked \in Nat /\ launched \in Nat
  <2>1. UNCHANGED <<sent, hand, before, after, codecVars, display, launched, marked>>
    BY DEF CallInSequence
  <2>2. QED  BY <2>1, ContentsAre, CountTypes DEF Counts, CallInSequence, At, Goto
<1>1. NextCall(fn) \notin Entering /\ fn \notin Entering /\ fn # "idle"
  BY NotEntering, TypesAre DEF ClientTypes, Functions
<1>2. launched = marked /\ launched > 0
  BY <1>0, <1>1 DEF ClientHolds
<1>3. RingsHold'
  <2> PICK b : b = Call(fn)
    OBVIOUS
  <2>1. b \in Buffer /\ IsCall(b) /\ b.n = launched /\ b.kind = fn
    BY <1>0, TypesAre, StreamAssumption
       DEF ClientTypes, Call, Buffer, IsCall, StreamAssumption
  <2>2. Fits(b, Destination(fn))'
    BY <1>0, <1>2, <2>1 DEF Fits, ACall
  <2>3. QED  BY <1>0, <2>1, <2>2, InsertHolds, DestinationIs
<1>4. TablesHold' /\ HandsHold' /\ CodecHolds'
  <2>1. \A p \in Processes : UNCHANGED pc[p]
    BY <1>0, FnTypes, ProcessIs
  <2>2. QED  BY <1>0, <2>1, SameTables, SameHands, SameCodec
<1>5. SentHolds'
  BY <1>0, SentStill
<1>6. ClientHolds'
  <2>1. pc'[Client] = NextCall(fn)
    BY <1>0, FnTypes
  <2>2. QED  BY <1>0, <1>1, <1>2, <2>1 DEF ClientHolds
<1>7. QED  BY <1>3, <1>4, <1>5, <1>6, ContentsThenAre

LEMMA ContentsInit == StreamAssumption /\ Init => Contents
<1> SUFFICES ASSUME StreamAssumption, Init  PROVE Contents
  OBVIOUS
<1>1. RingsHold
  BY DEF Init, RingsHold, Items
<1>2. TablesHold /\ HandsHold
  BY DEF Init, TablesHold, HandsHold, At, Processes
<1>3. CodecHolds
  BY DEF Init, CodecHolds, Items
<1>4. SentHolds /\ ClientHolds
  BY DEF Init, SentHolds, ClientHolds, Entering
<1>5. QED  BY <1>1, <1>2, <1>3, <1>4, ContentsAre

LEMMA ContentsNext ==
  ASSUME Types, Types', Contents, [Next]_vars  PROVE Contents'
<1>1. ASSUME NEW p \in Processes, ProcessStep(p)  PROVE Contents'
  <2>1. CASE TakeCall(p) \/ Finish(p) \/ Take(p)
    BY <2>1, TakeCallContents, FinishContents, TakeContents
  <2>2. CASE CollateToParse \/ PassToCodec \/ PassToManifestor \/ PostManifest
    BY <2>2, CollateToParseContents, PassToCodecContents, PassToManifestorContents,
       PostManifestContents
  <2>3. QED  BY <1>1, <2>1, <2>2 DEF ProcessStep
<1>2. CASE DecodeComplete \/ Manifested \/ Collate
  BY <1>2, DecodeCompleteContents, ManifestedContents, CollateContents
<1>3. ASSUME NEW mode \in {"block", "return", "switch"}, NEW discard \in BOOLEAN,
             Launch(mode, discard)
      PROVE  Contents'
  BY <1>3, ClientContents
<1>4. CASE ClientStep
  BY <1>4, ClientContents, ReleaseContents, MarkerInsertContents,
     CallInSequenceContents DEF ClientStep
<1>5. CASE UNCHANGED vars
  BY <1>5 DEF vars, processVars, codecVars, switchVars, clientVars, Contents, At,
     AFrame, AMarker, ACall
<1>6. QED  BY <1>1, <1>2, <1>3, <1>4, <1>5 DEF Next

-----------------------------------------------------------------------------
(* What each action does to the line.                                      *)
LEMMA TailRemoves ==
  ASSUME NEW Q \in Lines, NEW R, NEW k \in Parts, Q[k] # << >>, R[k] = Tail(Q[k]),
         \A i \in Parts : i # k => R[i] = Q[i]
  PROVE  Removes(Q, R, k, 1)
<1>1. Q[k] \in Seq(Buffer)
  BY LineFacts
<1>2. QED  BY <1>1, TailFacts DEF Removes

LEMMA SameHand ==
  ASSUME Types, NEW p \in {"PtoD", "DtoM"}, UNCHANGED <<pc[p], hand[p]>>
  PROVE  InHand(p)' = InHand(p)
BY DEF InHand, At

LEMMA SameCodecLine == UNCHANGED codecVars => Codec' = Codec
BY DEF codecVars, Codec, Held

LEMMA SameLine ==
  ASSUME Types, Types', UNCHANGED <<ring["CtoP"], ring["PtoD"], ring["DtoM"], codecVars,
                            pc["PtoD"], pc["DtoM"], hand["PtoD"], hand["DtoM"]>>
  PROVE  Line' = Line
<1>1. InHand("PtoD")' = InHand("PtoD") /\ InHand("DtoM")' = InHand("DtoM")
  BY SameHand
<1>2. Codec' = Codec
  BY SameCodecLine
<1>3. \A k \in Parts : Line'[k] = Line[k]
  BY <1>1, <1>2, LineIs, LineThenIs, PartIs
<1>4. Line \in Lines /\ Line' \in Lines
  BY LineTyped, LineThenTyped
<1>5. QED  BY <1>3, <1>4 DEF Lines

(* The head of a process's ring that is taken.                             *)
LEMMA CollateToParseLine ==
  ASSUME Types, Types', Contents, CollateToParse,
         NEW b, b = IF IsFrame(Head(ring["CtoP"])) THEN [Head(ring["CtoP"]) EXCEPT !.seq = next]
                    ELSE Head(ring["CtoP"])
  PROVE  /\ Line[6] # << >> /\ Line[6][1] = Head(ring["CtoP"])
         /\ b.kind = Line[6][1].kind /\ b.n = Line[6][1].n
         /\ b \in Buffer /\ (AFrame(b) \/ AMarker(b))
         /\ IF discarding["CtoP"] /\ ~IsMarker(b) THEN Removes(Line, Line', 6, 1)
            ELSE Moves(Line, Line', 6, 5, b)
<1>0. /\ ring \in [Processes -> Seq(Buffer)] /\ next \in Nat /\ Line \in Lines
  BY FnTypes, CountTypes, LineTyped DEF Counts
<1> PICK in : in = Head(ring["CtoP"])
  OBVIOUS
<1>1. ring["CtoP"] # << >> /\ ~IsCall(in) /\ in \in Buffer /\ in = ring["CtoP"][1]
      /\ in \in Items(ring["CtoP"])
  BY HeadTypes, ProcessIs DEF CollateToParse
<1>2. AFrame(in) \/ AMarker(in)
  BY <1>1, ProcessIs DEF Contents, ACall
<1>3. b \in Buffer /\ b.kind = in.kind /\ b.n = in.n /\ (AFrame(b) \/ AMarker(b))
  BY <1>0, <1>1, <1>2, BufferFacts DEF AFrame, AMarker, IsFrame, IsMarker
<1>4. Line[6] # << >> /\ Line[6][1] = in
  BY <1>1, LineIs
<1>5. /\ InHand("PtoD")' = InHand("PtoD") /\ InHand("DtoM")' = InHand("DtoM")
      /\ Codec' = Codec
  <2>1. UNCHANGED <<pc["PtoD"], pc["DtoM"], hand["PtoD"], hand["DtoM"], codecVars>>
    BY FnTypes DEF CollateToParse, Passed, Goto
  <2>2. QED  BY <2>1, SameHand, SameCodecLine
<1>6. /\ ring'["DtoM"] = ring["DtoM"] /\ ring'["CtoP"] = Tail(ring["CtoP"])
      /\ ring'["PtoD"] = IF discarding["CtoP"] /\ ~IsMarker(b) THEN ring["PtoD"]
                         ELSE Append(ring["PtoD"], b)
  <2>1. ring' = [ring EXCEPT !["CtoP"] = Tail(@),
                             !["PtoD"] = IF discarding["CtoP"] /\ ~IsMarker(b) THEN @ ELSE Append(@, b)]
    BY DEF CollateToParse
  <2>2. QED  BY <1>0, <2>1, ProcessIs
<1>7. /\ Line'[1] = Line[1] /\ Line'[2] = Line[2] /\ Line'[3] = Line[3] /\ Line'[4] = Line[4]
      /\ Line'[6] = Tail(Line[6])
      /\ Line'[5] = IF discarding["CtoP"] /\ ~IsMarker(b) THEN Line[5] ELSE Append(Line[5], b)
  BY <1>5, <1>6, LineIs, LineThenIs
<1>8. CASE discarding["CtoP"] /\ ~IsMarker(b)
  <2>1. \A i \in Parts : i # 6 => Line'[i] = Line[i]
    BY <1>7, <1>8, PartIs
  <2>2. Removes(Line, Line', 6, 1)
    BY <1>0, <1>4, <1>7, <2>1, TailRemoves, PartIs
  <2>3. QED  BY <1>3, <1>4, <1>8, <2>2
<1>9. CASE ~(discarding["CtoP"] /\ ~IsMarker(b))
  <2>1. \A i \in Parts : i # 6 /\ i # 5 => Line'[i] = Line[i]
    BY <1>7, PartIs
  <2>2. \A i \in Parts : ~(5 < i /\ i < 6)
    BY PartIs
  <2>5. Line'[5] = Append(Line[5], b)
    BY <1>7, <1>9
  <2>3. Moves(Line, Line', 6, 5, b)
    BY <1>3, <1>4, <1>7, <2>5, <2>1, <2>2, PartIs DEF Moves
  <2>4. QED  BY <1>3, <1>4, <1>9, <2>3
<1>10. QED  BY <1>8, <1>9

LEMMA TakeLine ==
  ASSUME Types, Types', Contents, NEW p \in Processes, Take(p), NEW b, b = Head(ring[p])
  PROVE  /\ p \in {"PtoD", "DtoM"} /\ Line[Place(p)] # << >> /\ Line[Place(p)][1] = b
         /\ b \in Buffer /\ (AFrame(b) \/ AMarker(b))
         /\ p = "PtoD" => Moves(Line, Line', 5, 4, b)
         /\ p = "DtoM" => Moves(Line, Line', 2, 1, b) /\ Line[1] = << >>
<1>0. /\ ring \in [Processes -> Seq(Buffer)] /\ hand \in [Processes -> Buffer]
      /\ Line \in Lines /\ Line' \in Lines /\ p \in {"PtoD", "DtoM"}
      /\ ring[p] # << >> /\ ~IsCall(b) /\ At(p, "idle") /\ At(p, "pass")'
      /\ hand'[p] = b /\ ring'[p] = Tail(ring[p])
      /\ \A q \in Processes : q # p => UNCHANGED <<ring[q], hand[q], pc[q]>>
      /\ UNCHANGED codecVars
  <2>1. QED  BY FnTypes, LineTyped, LineThenTyped DEF Take, Goto, At
<1>1. b \in Buffer /\ b = ring[p][1] /\ b \in Items(ring[p])
  BY <1>0, HeadTypes
<1>2. AFrame(b) \/ AMarker(b)
  BY <1>0, <1>1 DEF Contents, ACall
<1>3. InHand(p) = << >> /\ InHand(p)' = <<b>> /\ Codec' = Codec
  <2>1. InHand(p) = << >> /\ InHand(p)' = <<b>>
    BY <1>0 DEF InHand, At
  <2>2. QED  BY <1>0, <2>1, SameCodecLine
<1>4. <<b>> = Append(<< >>, b)
  OBVIOUS
<1>5. CASE p = "PtoD"
  <2>1. UNCHANGED <<ring["CtoP"], ring["DtoM"], hand["DtoM"], pc["DtoM"]>>
    BY <1>0, <1>5, ProcessIs
  <2>2. InHand("DtoM")' = InHand("DtoM")
    BY <2>1, SameHand
  <2>3. /\ Line'[1] = Line[1] /\ Line'[2] = Line[2] /\ Line'[3] = Line[3]
        /\ Line'[4] = Append(Line[4], b) /\ Line'[5] = Tail(Line[5]) /\ Line'[6] = Line[6]
        /\ Line[5] # << >> /\ Line[5][1] = b
    BY <1>0, <1>1, <1>3, <1>4, <1>5, <2>1, <2>2, LineIs, LineThenIs
  <2>4. /\ \A i \in Parts : i # 5 /\ i # 4 => Line'[i] = Line[i]
        /\ \A i \in Parts : ~(4 < i /\ i < 5)
    BY <2>3, PartIs
  <2>5. Moves(Line, Line', 5, 4, b)
    BY <1>1, <2>3, <2>4, PartIs DEF Moves
  <2>6. QED  BY <1>1, <1>2, <1>5, <2>3, <2>5, PlaceIs
<1>6. CASE p = "DtoM"
  <2>1. UNCHANGED <<ring["CtoP"], ring["PtoD"], hand["PtoD"], pc["PtoD"]>>
    BY <1>0, <1>6, ProcessIs
  <2>2. InHand("PtoD")' = InHand("PtoD")
    BY <2>1, SameHand
  <2>3. /\ Line'[1] = Append(Line[1], b) /\ Line'[2] = Tail(Line[2]) /\ Line'[3] = Line[3]
        /\ Line'[4] = Line[4] /\ Line'[5] = Line[5] /\ Line'[6] = Line[6]
        /\ Line[2] # << >> /\ Line[2][1] = b /\ Line[1] = << >>
    BY <1>0, <1>1, <1>3, <1>4, <1>6, <2>1, <2>2, LineIs, LineThenIs
  <2>4. /\ \A i \in Parts : i # 2 /\ i # 1 => Line'[i] = Line[i]
        /\ \A i \in Parts : ~(1 < i /\ i < 2)
    BY <2>3, PartIs
  <2>5. Moves(Line, Line', 2, 1, b)
    BY <1>1, <2>3, <2>4, PartIs DEF Moves
  <2>6. QED  BY <1>1, <1>2, <1>6, <2>3, <2>5, PlaceIs
<1>7. QED  BY <1>0, <1>5, <1>6

LEMMA TakeCallLine ==
  ASSUME Types, Types', NEW p \in Processes, TakeCall(p)
  PROVE  /\ p = "PostM" => Line' = Line
         /\ p \in Readers => /\ Line[Place(p)] # << >> /\ Line[Place(p)][1] = Head(ring[p])
                             /\ Removes(Line, Line', Place(p), 1)
<1>0. /\ Line \in Lines /\ ring[p] # << >> /\ ring'[p] = Tail(ring[p])
      /\ \A q \in Processes : q # p => UNCHANGED ring[q]
      /\ UNCHANGED <<pc, hand, codecVars>> /\ Head(ring[p]) = ring[p][1]
  BY FnTypes, LineTyped, HeadTypes DEF TakeCall
<1>1. CASE p = "PostM"
  <2>1. UNCHANGED <<ring["CtoP"], ring["PtoD"], ring["DtoM"]>>
    BY <1>0, <1>1, ProcessIs
  <2>2. QED  BY <1>0, <1>1, <2>1, SameLine DEF Readers
<1>2. CASE p \in Readers
  <2>1. /\ InHand("PtoD")' = InHand("PtoD") /\ InHand("DtoM")' = InHand("DtoM")
        /\ Codec' = Codec
    BY <1>0, SameHand, SameCodecLine
  <2>2. \A i \in Parts : i # Place(p) => Line'[i] = Line[i]
    BY <1>0, <1>2, <2>1, LineIs, LineThenIs, PartIs, PlaceIs, ProcessIs DEF Readers
  <2>3. /\ Line'[Place(p)] = Tail(Line[Place(p)]) /\ Line[Place(p)] = ring[p]
        /\ Place(p) \in Parts
    BY <1>0, <1>2, LineIs, LineThenIs, PlaceIs DEF Readers
  <2>4. QED  BY <1>0, <1>2, <2>2, <2>3, TailRemoves DEF Readers
<1>3. QED  BY <1>1, <1>2, ProcessIs DEF Readers

LEMMA PassToManifestorLine ==
  ASSUME Types, PassToManifestor
  PROVE  /\ Line[1] = <<hand["DtoM"]>> /\ Line'[1] = << >>
         /\ Removes(Line, Line', 1, 1)
<1>0. /\ Line \in Lines /\ At("DtoM", "pass") /\ ~At("DtoM", "pass")'
      /\ UNCHANGED <<ring["CtoP"], ring["PtoD"], ring["DtoM"], pc["PtoD"], hand["PtoD"], codecVars>>
  BY FnTypes, LineTyped, ProcessIs DEF PassToManifestor, Insert, Passed, Goto, At
<1>1. InHand("DtoM") = <<hand["DtoM"]>> /\ InHand("DtoM")' = << >>
  BY <1>0 DEF InHand, At
<1>2. InHand("PtoD")' = InHand("PtoD") /\ Codec' = Codec
  BY <1>0, SameHand, SameCodecLine
<1>3. /\ Line[1] = <<hand["DtoM"]>> /\ Line'[1] = << >>
      /\ \A i \in Parts : i # 1 => Line'[i] = Line[i]
  BY <1>0, <1>1, <1>2, LineIs, LineThenIs, PartIs
<1>4. Line[1] # << >> /\ Line'[1] = Tail(Line[1])
  BY <1>3
<1>5. QED  BY <1>0, <1>3, <1>4, TailRemoves, PartIs

(* The codec, seen as a line without its marker.                           *)
Bare == [Line EXCEPT ![3] = inflight]

LEMMA BareLine ==
  ASSUME Types
  PROVE  /\ Bare \in Lines /\ Bare[3] = inflight
         /\ \A i \in Parts : i # 3 => Bare[i] = Line[i]
         /\ held = Nothing => Bare = Line
         /\ held # Nothing =>
              /\ ahead \in 1 .. Len(inflight) /\ Line[3][ahead + 1] = held
              /\ Removes(Line, Bare, 3, ahead + 1)
<1>1. Line \in Lines /\ inflight \in Seq(Buffer)
  BY LineTyped, FnTypes
<1>2. /\ Bare \in Lines /\ Bare[3] = inflight
      /\ \A i \in Parts : i # 3 => Bare[i] = Line[i]
  BY <1>1, PartIs DEF Bare, Lines
<1>3. ASSUME held = Nothing  PROVE Bare = Line
  <2>1. Line[3] = inflight
    BY <1>3, CodecIs, LineIs DEF CodecFits
  <2>2. \A i \in Parts : Bare[i] = Line[i]
    BY <1>2, <2>1
  <2>3. QED  BY <1>1, <1>2, <2>2 DEF Lines
<1>4. ASSUME held # Nothing
      PROVE  /\ ahead \in 1 .. Len(inflight) /\ Line[3][ahead + 1] = held
             /\ Removes(Line, Bare, 3, ahead + 1)
  <2>1. /\ ahead \in 1 .. Len(inflight) /\ Line[3] = Codec
        /\ Len(Codec) = Len(inflight) + Held /\ Held = 1 /\ Len(inflight) \in Nat
        /\ \A i \in 1 .. ahead : Codec[i] = inflight[i]
        /\ Codec[ahead + 1] = held
        /\ \A i \in ahead + 2 .. Len(inflight) + 1 : Codec[i] = inflight[i - 1]
    BY <1>4, CodecIs, LineIs DEF Held, CodecFits
  <2>2. \A i \in 1 .. Len(inflight) :
          inflight[i] = IF i < ahead + 1 THEN Codec[i] ELSE Codec[i + 1]
    <3>1. TAKE i \in 1 .. Len(inflight)
    <3>2. CASE i < ahead + 1
      <4>1. i \in 1 .. ahead
        BY <2>1, <3>2
      <4>2. QED  BY <2>1, <3>2, <4>1
    <3>3. CASE ~(i < ahead + 1)
      <4>1. i + 1 \in ahead + 2 .. Len(inflight) + 1 /\ (i + 1) - 1 = i
        BY <2>1, <3>3
      <4>2. QED  BY <2>1, <3>3, <4>1
    <3>4. QED  BY <3>2, <3>3
  <2>3. ahead + 1 \in 1 .. Len(Codec) /\ Len(inflight) = Len(Codec) - 1
    BY <2>1
  <2>4. QED  BY <1>2, <2>1, <2>2, <2>3 DEF Removes
<1>5. QED  BY <1>2, <1>3, <1>4

(* A frame or a marker goes from PtoD to the codec; a marker takes the     *)
(* place of one that the codec holds.                                      *)
LEMMA PassToCodecLine ==
  ASSUME Types, Types', Contents, PassToCodec, NEW b, b = hand["PtoD"]
  PROVE  /\ Line[4] = <<b>> /\ Line'[4] = << >> /\ b \in Buffer /\ (AFrame(b) \/ AMarker(b))
         /\ ~keep["PtoD"] => Removes(Line, Line', 4, 1)
         /\ keep["PtoD"] /\ IsFrame(b) => Moves(Line, Line', 4, 3, b)
         /\ keep["PtoD"] /\ ~IsFrame(b) /\ inflight = << >> =>
              Line[3] = << >> /\ Moves(Line, Line', 4, 2, b)
         /\ keep["PtoD"] /\ ~IsFrame(b) /\ inflight # << >> => Moves(Bare, Line', 4, 3, b)
<1>0. /\ ring \in [Processes -> Seq(Buffer)] /\ Line \in Lines /\ inflight \in Seq(Buffer)
      /\ At("PtoD", "pass") /\ ~At("PtoD", "pass")' /\ ~At("PtoD", "idle")
      /\ UNCHANGED <<pc["DtoM"], hand["DtoM"], ring["CtoP"], ring["PtoD"]>>
      /\ hand \in [Processes -> Buffer]
  BY FnTypes, LineTyped, ProcessIs DEF PassToCodec, Insert, Passed, Goto, At
<1>1. b \in Buffer /\ (AFrame(b) \/ AMarker(b))
  BY <1>0, ProcessIs DEF Contents
<1>2. InHand("PtoD") = <<b>> /\ InHand("PtoD")' = << >> /\ InHand("DtoM")' = InHand("DtoM")
  BY <1>0, SameHand DEF InHand, At
<1>3. /\ Line[4] = <<b>> /\ Line'[4] = << >> /\ Line'[1] = Line[1]
      /\ Line'[5] = Line[5] /\ Line'[6] = Line[6]
  BY <1>0, <1>2, LineIs, LineThenIs
<1>4. Line[4] # << >> /\ Line'[4] = Tail(Line[4]) /\ Line[4][1] = b
  BY <1>3
<1>5. ASSUME ~keep["PtoD"]  PROVE Removes(Line, Line', 4, 1)
  <2>1. UNCHANGED <<ring, codecVars>>
    BY <1>5 DEF PassToCodec
  <2>2. Line'[2] = Line[2] /\ Line'[3] = Line[3]
    BY <2>1, SameCodecLine, LineIs, LineThenIs
  <2>3. \A i \in Parts : i # 4 => Line'[i] = Line[i]
    BY <1>3, <2>2, PartIs
  <2>4. QED  BY <1>0, <1>4, <2>3, TailRemoves, PartIs
<1>6. ASSUME keep["PtoD"], IsFrame(b)  PROVE Moves(Line, Line', 4, 3, b)
  <2>1. inflight' = Append(inflight, b) /\ UNCHANGED <<ring, held, ahead, drop>>
    BY <1>6 DEF PassToCodec
  <2>2. Codec' = Append(Codec, b)
    <3>1. /\ Codec \in Seq(Buffer) /\ Codec' \in Seq(Buffer)
          /\ Len(Codec) = Len(inflight) + Held /\ Len(Codec') = Len(inflight') + Held'
          /\ Held' = Held
          /\ Len(inflight) \in Nat /\ Len(inflight') = Len(inflight) + 1 /\ Held \in {0, 1}
          /\ Held = 0 <=> held = Nothing
      BY <1>0, <1>1, <2>1, CodecIs, CodecThenIs DEF Held, CodecFits
    <3>2. /\ \A i \in 1 .. Len(inflight) : inflight'[i] = inflight[i]
          /\ inflight'[Len(inflight) + 1] = b
      BY <1>0, <1>1, <2>1
    <3>3. ASSUME NEW i \in 1 .. Len(Codec) + 1
          PROVE  Codec'[i] = IF i = Len(Codec) + 1 THEN b ELSE Codec[i]
      <4>1. CASE held = Nothing
        <5>1. Codec = inflight /\ Codec' = inflight'
          BY <2>1, <4>1, CodecIs, CodecThenIs DEF CodecFits
        <5>2. QED  BY <1>0, <3>1, <3>2, <3>3, <5>1
      <4>2. CASE held # Nothing
        <5>1. /\ ahead \in 1 .. Len(inflight)
              /\ \A j \in 1 .. ahead : Codec[j] = inflight[j] /\ Codec'[j] = inflight'[j]
              /\ Codec[ahead + 1] = held /\ Codec'[ahead + 1] = held
              /\ \A j \in ahead + 2 .. Len(inflight) + 1 : Codec[j] = inflight[j - 1]
              /\ \A j \in ahead + 2 .. Len(inflight') + 1 : Codec'[j] = inflight'[j - 1]
          BY <2>1, <4>2, CodecIs, CodecThenIs DEF CodecFits
        <5>2. CASE i <= ahead
          <6>1. i \in 1 .. ahead /\ i \in 1 .. Len(inflight) /\ i # Len(Codec) + 1
            BY <3>1, <5>1, <5>2
          <6>2. QED  BY <3>2, <5>1, <6>1
        <5>3. CASE i = ahead + 1
          <6>1. Codec'[i] = held /\ Codec[i] = held /\ i # Len(Codec) + 1
            BY <3>1, <4>2, <5>1, <5>3
          <6>2. QED  BY <6>1
        <5>4. CASE i > ahead + 1
          <6>0. /\ Len(Codec) = Len(inflight) + 1 /\ Len(inflight') = Len(inflight) + 1
                /\ i \in Int /\ i <= Len(Codec) + 1 /\ Len(inflight) \in Int
                /\ ahead \in Int /\ ahead >= 1
            BY <3>1, <4>2, <5>1
          <6>a. /\ i <= Len(inflight) + 2 /\ i >= ahead + 2
                /\ i # Len(Codec) + 1 => i <= Len(inflight) + 1
                /\ i = Len(Codec) + 1 => i - 1 = Len(inflight) + 1
            BY ONLY <5>4, <6>0
          <6>1. /\ i \in ahead + 2 .. Len(inflight') + 1
                /\ i # Len(Codec) + 1 => /\ i \in ahead + 2 .. Len(inflight) + 1
                                         /\ i - 1 \in 1 .. Len(inflight)
                /\ i = Len(Codec) + 1 => i - 1 = Len(inflight) + 1
            BY ONLY <6>0, <6>a
          <6>2. QED  BY <3>2, <5>1, <6>1
        <5>5. QED  BY <3>1, <5>1, <5>2, <5>3, <5>4
      <4>3. QED  BY <4>1, <4>2
    <3>4. QED  BY <1>1, <3>1, <3>3
  <2>3. Line'[2] = Line[2] /\ Line'[3] = Append(Line[3], b)
    BY <2>1, <2>2, LineIs, LineThenIs
  <2>4. /\ \A i \in Parts : i # 4 /\ i # 3 => Line'[i] = Line[i]
        /\ \A i \in Parts : ~(3 < i /\ i < 4)
    BY <1>3, <2>3, PartIs
  <2>5. QED  BY <1>1, <1>4, <2>3, <2>4, PartIs DEF Moves
<1>7. ASSUME keep["PtoD"], ~IsFrame(b), inflight = << >>
      PROVE  Line[3] = << >> /\ Moves(Line, Line', 4, 2, b)
  <2>1. Insert("DtoM", b) /\ held' = Nothing /\ UNCHANGED <<inflight, ahead, drop>>
    BY <1>7 DEF PassToCodec
  <2>2. held = Nothing
    <3>1. CodecTypes /\ Len(inflight) = 0
      BY <1>7, TypesAre
    <3>2. QED  BY <3>1 DEF CodecTypes
  <2>3. Codec = << >> /\ Codec' = << >>
    BY <1>7, <2>1, <2>2, CodecIs, CodecThenIs DEF CodecFits
  <2>4. ring'["DtoM"] = Append(ring["DtoM"], b)
    BY <1>0, <2>1, ProcessIs DEF Insert
  <2>5. /\ Line[3] = << >> /\ Line'[3] = Line[3] /\ Line'[2] = Append(Line[2], b)
    BY <2>3, <2>4, LineIs, LineThenIs
  <2>6. /\ \A i \in Parts : i # 4 /\ i # 2 => Line'[i] = Line[i]
        /\ \A i \in Parts : 2 < i /\ i < 4 => Line[i] = << >>
    BY SMTT(30), <1>3, <2>5, PartIs
  <2>7. QED  BY <1>1, <1>4, <2>5, <2>6, PartIs DEF Moves
<1>8. ASSUME keep["PtoD"], ~IsFrame(b), inflight # << >>
      PROVE  Moves(Bare, Line', 4, 3, b)
  <2>1. held' = b /\ ahead' = Len(inflight) /\ UNCHANGED <<ring, inflight, drop>>
    BY <1>8 DEF PassToCodec
  <2>2. b # Nothing
    BY <1>1, <1>8, Kinds DEF AFrame, AMarker
  <2>3. Codec' = Append(inflight, b)
    <3>1. /\ Codec' \in Seq(Buffer) /\ Len(Codec') = Len(inflight) + 1
          /\ \A j \in 1 .. Len(inflight) : Codec'[j] = inflight[j]
          /\ Codec'[Len(inflight) + 1] = b
      BY <2>1, <2>2, CodecThenIs DEF Held, CodecFits
    <3>2. QED  BY <1>0, <1>1, <3>1
  <2>4. Line'[2] = Line[2] /\ Line'[3] = Append(Bare[3], b)
    BY <2>1, <2>3, LineIs, LineThenIs, BareLine
  <2>5. /\ \A i \in Parts : i # 4 /\ i # 3 => Line'[i] = Bare[i]
        /\ \A i \in Parts : ~(3 < i /\ i < 4)
        /\ Bare[4] = Line[4]
    BY SMTT(30), <1>3, <2>4, PartIs, BareLine
  <2>6. QED  BY <1>1, <1>4, <2>4, <2>5, PartIs DEF Moves
<1>9. QED  BY <1>1, <1>3, <1>5, <1>6, <1>7, <1>8

(* The codec completes a decode; the marker follows if it was next.  The   *)
(* line Mid stands between the two.                                        *)
Mid == [i \in Parts |->
          IF i = 2 THEN IF drop > 0 THEN Line[2] ELSE Append(Line[2], Line[3][1])
          ELSE IF i = 3 THEN Tail(Line[3]) ELSE Line[i]]

LEMMA ConcatOne ==
  ASSUME NEW B, NEW s \in Seq(B), NEW b \in B
  PROVE  /\ s \o << >> = s /\ << >> \o <<b>> = <<b>>
         /\ s \o <<b>> = Append(s, b)
<1>1. s \o << >> = s
  OBVIOUS
<1>2. << >> \o <<b>> = <<b>>
  OBVIOUS
<1>3. s \o <<b>> = Append(s, b)
  OBVIOUS
<1>4. QED  BY <1>1, <1>2, <1>3

LEMMA DecodeCompleteLine ==
  ASSUME Types, Types', DecodeComplete
  PROVE  /\ Line[3] # << >> /\ Line[3][1] = inflight[1] /\ Mid \in Lines
         /\ IF drop > 0 THEN Removes(Line, Mid, 3, 1)
            ELSE Moves(Line, Mid, 3, 2, inflight[1])
         /\ IF held # Nothing /\ ahead = 1
            THEN /\ Mid[3] # << >> /\ Mid[3][1] = held
                 /\ Moves(Mid, Line', 3, 2, held)
            ELSE Line' = Mid
<1>0. /\ ring \in [Processes -> Seq(Buffer)] /\ Line \in Lines /\ Line' \in Lines
      /\ inflight \in Seq(Buffer) /\ inflight # << >> /\ held \in Buffer
      /\ inflight' = Tail(inflight) /\ Len(inflight) \in Nat \ {0}
      /\ held' = IF held # Nothing /\ ahead = 1 THEN Nothing ELSE held
      /\ ahead' = IF ahead > 0 THEN ahead - 1 ELSE 0
  BY FnTypes, LineTyped, LineThenTyped, TailFacts DEF DecodeComplete
<1>1. inflight[1] \in Buffer /\ Head(inflight) = inflight[1]
  BY <1>0, TailFacts
<1>2. /\ Codec \in Seq(Buffer) /\ Codec # << >> /\ Codec[1] = inflight[1]
      /\ Len(Codec) = Len(inflight) + Held
  <2>1. CASE held = Nothing
    BY <1>0, <2>1, CodecIs DEF CodecFits
  <2>2. CASE held # Nothing
    <3>1. 1 \in 1 .. ahead /\ Codec[1] = inflight[1] /\ Len(Codec) > 0 /\ Codec \in Seq(Buffer)
      BY <1>0, <2>2, CodecIs DEF CodecFits
    <3>2. QED  BY <3>1, CodecIs DEF CodecFits
  <2>3. QED  BY <2>1, <2>2
<1>3. Line[3] # << >> /\ Line[3][1] = inflight[1] /\ Line[3] = Codec
  BY <1>2, LineIs
<1>4. /\ Mid \in Lines /\ Mid[3] = Tail(Codec)
      /\ Mid[2] = IF drop > 0 THEN ring["DtoM"] ELSE Append(ring["DtoM"], inflight[1])
      /\ \A i \in Parts : i # 2 /\ i # 3 => Mid[i] = Line[i]
  <2>1. /\ Tail(Codec) \in Seq(Buffer) /\ ring["DtoM"] \in Seq(Buffer)
        /\ Append(ring["DtoM"], inflight[1]) \in Seq(Buffer)
    BY <1>0, <1>1, <1>2, TailFacts, AppendFacts, ProcessIs
  <2>2. /\ Mid[2] = IF drop > 0 THEN ring["DtoM"] ELSE Append(ring["DtoM"], inflight[1])
        /\ Mid[3] = Tail(Codec)
    BY <1>3, LineIs, PartIs DEF Mid
  <2>3. \A i \in Parts : i # 2 /\ i # 3 => Mid[i] = Line[i]
    BY DEF Mid
  <2>4. \A i \in Parts : Line[i] \in Seq(Buffer)
    BY <1>0, LineFacts
  <2>5. \A i \in Parts : Mid[i] \in Seq(Buffer)
    BY <2>1, <2>2, <2>3, <2>4
  <2>6. Mid = [i \in Parts |-> Mid[i]]
    BY DEF Mid
  <2>7. Mid \in Lines
    BY <2>5, <2>6 DEF Lines
  <2>8. QED  BY <2>2, <2>3, <2>7
<1>5. ASSUME drop > 0  PROVE Removes(Line, Mid, 3, 1)
  <2>1. \A i \in Parts : i # 3 => Mid[i] = Line[i]
    BY <1>4, <1>5, LineIs
  <2>2. QED  BY <1>0, <1>3, <1>4, <2>1, TailRemoves, PartIs
<1>6. ASSUME ~(drop > 0)  PROVE Moves(Line, Mid, 3, 2, inflight[1])
  <2>1. \A i \in Parts : ~(2 < i /\ i < 3)
    BY PartIs
  <2>2. Mid[2] = Append(Line[2], inflight[1])
    BY <1>4, <1>6, LineIs
  <2>4. Mid[3] = Tail(Line[3]) /\ \A i \in Parts : i # 3 /\ i # 2 => Mid[i] = Line[i]
    BY <1>3, <1>4
  <2>3. QED  BY <1>1, <1>3, <2>1, <2>2, <2>4, PartIs DEF Moves
<1>7. /\ Line'[1] = Line[1] /\ Line'[4] = Line[4] /\ Line'[5] = Line[5] /\ Line'[6] = Line[6]
  <2>1. UNCHANGED <<ring["CtoP"], ring["PtoD"], pc["PtoD"], pc["DtoM"], hand["PtoD"], hand["DtoM"]>>
    BY <1>0, ProcessIs DEF DecodeComplete, processVars
  <2>2. QED  BY <2>1, SameHand, LineIs, LineThenIs
<1>8. ASSUME held # Nothing, ahead = 1
      PROVE  /\ Mid[3] # << >> /\ Mid[3][1] = held /\ Moves(Mid, Line', 3, 2, held)
  <2>1. /\ Codec[2] = held /\ Len(Codec) = Len(inflight) + 1
        /\ \A i \in 3 .. Len(inflight) + 1 : Codec[i] = inflight[i - 1]
    BY <1>8, CodecIs DEF CodecFits, Held
  <2>2. /\ Len(Tail(Codec)) = Len(inflight) /\ Tail(Codec) # << >> /\ Tail(Codec)[1] = held
        /\ Tail(Codec) \in Seq(Buffer)
        /\ \A i \in 1 .. Len(inflight) : Tail(Codec)[i] = Codec[i + 1]
    <3>1. /\ Tail(Codec) \in Seq(Buffer) /\ Len(Tail(Codec)) = Len(Codec) - 1
          /\ \A i \in 1 .. Len(Codec) - 1 : Tail(Codec)[i] = Codec[i + 1]
      BY <1>2, TailFacts
    <3>2. Len(Codec) - 1 = Len(inflight) /\ 1 \in 1 .. Len(Codec) - 1 /\ 1 + 1 = 2
      BY <1>0, <2>1
    <3>3. Tail(Codec)[1] = held
      BY <2>1, <3>1, <3>2
    <3>4. Tail(Codec) # << >>
      BY <1>0, <3>1, <3>2
    <3>5. QED  BY <3>1, <3>2, <3>3, <3>4
  <2>3. Codec' = Tail(inflight)
    BY <1>0, <1>8, CodecThenIs DEF CodecFits
  <2>4. Tail(Tail(Codec)) = Tail(inflight)
    <3>1. /\ Tail(Tail(Codec)) \in Seq(Buffer) /\ Len(Tail(Tail(Codec))) = Len(inflight) - 1
          /\ \A i \in 1 .. Len(inflight) - 1 : Tail(Tail(Codec))[i] = Tail(Codec)[i + 1]
      BY <2>2, TailFacts
    <3>2. /\ Tail(inflight) \in Seq(Buffer) /\ Len(Tail(inflight)) = Len(inflight) - 1
          /\ \A i \in 1 .. Len(inflight) - 1 : Tail(inflight)[i] = inflight[i + 1]
      BY <1>0, TailFacts
    <3>3. ASSUME NEW i \in 1 .. Len(inflight) - 1
          PROVE  Tail(Tail(Codec))[i] = Tail(inflight)[i]
      <4>1. i + 1 \in 1 .. Len(inflight) /\ i + 2 \in 3 .. Len(inflight) + 1
        BY <1>0
      <4>2. /\ Tail(Tail(Codec))[i] = Tail(Codec)[i + 1]
            /\ Tail(Codec)[i + 1] = Codec[(i + 1) + 1]
            /\ Codec[i + 2] = inflight[(i + 2) - 1]
            /\ Tail(inflight)[i] = inflight[i + 1]
        BY <2>1, <2>2, <3>1, <3>2, <4>1
      <4>3. (i + 1) + 1 = i + 2 /\ (i + 2) - 1 = i + 1
        OBVIOUS
      <4>4. QED  BY <4>2, <4>3
    <3>4. QED  BY SMTT(30), <3>1, <3>2, <3>3
  <2>5. ring'["DtoM"] = Append(Mid[2], held)
    <3>1. ring'["DtoM"] = ring["DtoM"] \o (IF drop > 0 THEN << >> ELSE <<inflight[1]>>) \o <<held>>
      BY <1>0, <1>1, <1>8, ProcessIs DEF DecodeComplete
    <3>2. ring["DtoM"] \in Seq(Buffer)
      BY <1>0, ProcessIs
    <3>3. Mid[2] \in Seq(Buffer)
      BY <1>4, LineFacts, PartIs
    <3>4. CASE drop > 0
      <4>1. PICK x : x = ring["DtoM"] \o << >>
        OBVIOUS
      <4>2. ring'["DtoM"] = x \o <<held>>
        BY <3>1, <3>4, <4>1
      <4>3. x = Mid[2]
        BY <1>0, <1>4, <3>2, <3>4, <4>1, ConcatOne
      <4>4. QED  BY <1>0, <3>3, <4>2, <4>3, ConcatOne
    <3>5. CASE ~(drop > 0)
      <4>1. PICK x : x = ring["DtoM"] \o <<inflight[1]>>
        OBVIOUS
      <4>2. ring'["DtoM"] = x \o <<held>>
        BY <3>1, <3>5, <4>1
      <4>3. x = Mid[2]
        BY <1>1, <1>4, <3>2, <3>5, <4>1, ConcatOne
      <4>4. QED  BY <1>0, <3>3, <4>2, <4>3, ConcatOne
    <3>6. QED  BY <3>4, <3>5
  <2>6. Line'[3] = Tail(Mid[3]) /\ Line'[2] = Append(Mid[2], held)
    BY <1>4, <2>3, <2>4, <2>5, LineThenIs
  <2>7. /\ \A i \in Parts : i # 3 /\ i # 2 => Line'[i] = Mid[i]
        /\ \A i \in Parts : ~(2 < i /\ i < 3)
    BY <1>4, <1>7, PartIs
  <2>8. Mid[3] # << >> /\ Mid[3][1] = held
    BY <1>4, <2>2
  <2>9. QED  BY <1>0, <2>6, <2>7, <2>8, PartIs DEF Moves
<1>9. ASSUME ~(held # Nothing /\ ahead = 1)  PROVE Line' = Mid
  <2>1. ring'["DtoM"] = Mid[2]
    <3>1. ring'["DtoM"] = ring["DtoM"] \o (IF drop > 0 THEN << >> ELSE <<inflight[1]>>) \o << >>
      BY <1>0, <1>1, <1>9, ProcessIs DEF DecodeComplete
    <3>2. ring["DtoM"] \in Seq(Buffer)
      BY <1>0, ProcessIs
    <3>3. Mid[2] \in Seq(Buffer)
      BY <1>4, LineFacts, PartIs
    <3>4. CASE drop > 0
      <4>1. ring'["DtoM"] = (Mid[2] \o << >>) \o << >>
        BY <1>4, <3>1, <3>4
      <4>2. QED  BY <1>0, <3>3, <4>1, ConcatOne
    <3>5. CASE ~(drop > 0)
      <4>1. ring'["DtoM"] = (ring["DtoM"] \o <<inflight[1]>>) \o << >>
        BY <3>1, <3>5
      <4>2. ring["DtoM"] \o <<inflight[1]>> = Mid[2]
        BY <1>1, <1>4, <3>2, <3>5, ConcatOne
      <4>3. QED  BY <1>0, <3>3, <4>1, <4>2, ConcatOne
    <3>6. QED  BY <3>4, <3>5
  <2>2. Codec' = Tail(Codec)
    <3>1. held' = held
      BY <1>0, <1>9
    <3>2. CASE held = Nothing
      BY <1>0, <3>1, <3>2, CodecIs, CodecThenIs DEF CodecFits
    <3>3. CASE held # Nothing
      <4>1. /\ Codec' \in Seq(Buffer) /\ Len(Codec') = Len(inflight)
            /\ Len(inflight') = Len(inflight) - 1
            /\ ahead \in 1 .. Len(inflight) /\ ahead > 1 /\ ahead' = ahead - 1
            /\ \A i \in 1 .. ahead' : Codec'[i] = inflight'[i]
            /\ Codec'[ahead' + 1] = held
            /\ \A i \in ahead' + 2 .. Len(inflight') + 1 : Codec'[i] = inflight'[i - 1]
        BY <1>0, <1>9, <3>1, <3>3, CodecIs, CodecThenIs, TailFacts DEF CodecFits, Held
      <4>2. /\ Len(Codec) = Len(inflight) + 1
            /\ \A i \in 1 .. ahead : Codec[i] = inflight[i]
            /\ Codec[ahead + 1] = held
            /\ \A i \in ahead + 2 .. Len(inflight) + 1 : Codec[i] = inflight[i - 1]
        BY <3>3, CodecIs DEF CodecFits, Held
      <4>3. /\ Tail(Codec) \in Seq(Buffer) /\ Len(Tail(Codec)) = Len(inflight)
            /\ \A i \in 1 .. Len(inflight) : Tail(Codec)[i] = Codec[i + 1]
            /\ \A i \in 1 .. Len(inflight) - 1 : inflight'[i] = inflight[i + 1]
        BY <1>0, <1>2, <4>2, TailFacts
      <4>4. ASSUME NEW i \in 1 .. Len(inflight)
            PROVE  Codec'[i] = Tail(Codec)[i]
        <5>1. Tail(Codec)[i] = Codec[i + 1] /\ i \in Nat
          BY <4>3
        <5>2. ASSUME i < ahead  PROVE Codec'[i] = Tail(Codec)[i]
          <6>1. i \in 1 .. ahead' /\ i + 1 \in 1 .. ahead /\ i \in 1 .. Len(inflight) - 1
            BY <4>1, <5>2
          <6>2. QED  BY <4>1, <4>2, <4>3, <5>1, <6>1
        <5>3. ASSUME i = ahead  PROVE Codec'[i] = Tail(Codec)[i]
          <6>1. i = ahead' + 1 /\ i + 1 = ahead + 1
            BY <4>1, <5>3
          <6>2. QED  BY <4>1, <4>2, <5>1, <6>1
        <5>4. ASSUME i > ahead  PROVE Codec'[i] = Tail(Codec)[i]
          <6>1. /\ i \in ahead' + 2 .. Len(inflight') + 1
                /\ i + 1 \in ahead + 2 .. Len(inflight) + 1
                /\ i - 1 \in 1 .. Len(inflight) - 1
                /\ (i - 1) + 1 = i /\ (i + 1) - 1 = i
            BY <1>0, <4>1, <5>4
          <6>2. Codec'[i] = inflight'[i - 1] /\ Codec[i + 1] = inflight[(i + 1) - 1]
                /\ inflight'[i - 1] = inflight[(i - 1) + 1]
            BY <4>1, <4>2, <4>3, <6>1
          <6>3. QED  BY <5>1, <6>1, <6>2
        <5>5. ahead \in Int /\ i \in Int
          BY <4>1
        <5>6. i < ahead \/ i = ahead \/ i > ahead
          BY ONLY <5>5
        <5>7. QED  BY <5>2, <5>3, <5>4, <5>6
      <4>5. QED  BY SMTT(30), <4>1, <4>3, <4>4
    <3>4. QED  BY <3>2, <3>3
  <2>3. \A i \in Parts : Line'[i] = Mid[i]
    <3>1. Line'[2] = Mid[2] /\ Line'[3] = Mid[3]
      BY <1>4, <2>1, <2>2, LineThenIs
    <3>2. Line'[1] = Mid[1] /\ Line'[4] = Mid[4] /\ Line'[5] = Mid[5] /\ Line'[6] = Mid[6]
      <4>1. Mid[1] = Line[1] /\ Mid[4] = Line[4] /\ Mid[5] = Line[5] /\ Mid[6] = Line[6]
        BY ONLY <1>4, PartIs
      <4>2. QED  BY ONLY <1>7, <4>1
    <3>3. QED  BY ONLY <3>1, <3>2, PartIs
  <2>4. QED  BY <1>0, <1>4, <2>3 DEF Lines
<1>10. QED  BY <1>3, <1>4, <1>5, <1>6, <1>8, <1>9

(* The other actions leave the line as it is.                              *)
LEMMA OtherLines ==
  ASSUME Types, Types',
         \/ \E p \in Processes : Finish(p)
         \/ PostManifest \/ Manifested
         \/ \E mode \in {"block", "return", "switch"}, discard \in BOOLEAN : Launch(mode, discard)
         \/ DiscardQueuedDecodes \/ ReleaseQueuedDecodeBuffers \/ MarkerNumber
         \/ SwitchCollator \/ WaitForDrainCompletion
         \/ UNCHANGED vars
  PROVE  Line' = Line /\ UNCHANGED sent
<1>1. ASSUME UNCHANGED <<ring["CtoP"], ring["PtoD"], ring["DtoM"]>>, UNCHANGED codecVars,
             UNCHANGED <<InHand("PtoD"), InHand("DtoM")>>
      PROVE  Line' = Line
  <2>1. Codec' = Codec
    BY <1>1, SameCodecLine
  <2>2. \A k \in Parts : Line'[k] = Line[k]
    BY <1>1, <2>1, LineIs, LineThenIs, PartIs
  <2>3. QED  BY <2>2, LineTyped, LineThenTyped DEF Lines
<1>2. ASSUME NEW p \in Processes, Finish(p)  PROVE Line' = Line /\ UNCHANGED sent
  <2>1. UNCHANGED <<InHand("PtoD"), InHand("DtoM")>>
    BY <1>2, FnTypes, ProcessIs DEF Finish, InHand, At, Goto
  <2>2. QED  BY <1>1, <1>2, <2>1 DEF Finish
<1>3. CASE PostManifest \/ Manifested
  <2>1. /\ UNCHANGED <<pc, hand, codecVars, sent>>
        /\ UNCHANGED <<ring["CtoP"], ring["PtoD"], ring["DtoM"]>>
    BY <1>3, FnTypes, ProcessIs DEF PostManifest, Manifested, Insert, processVars
  <2>2. QED  BY <1>1, <2>1, SameHand
<1>4. ASSUME UNCHANGED <<hand, sent, inflight, held, ahead>>, NEW l, Goto(Client, l),
             UNCHANGED <<ring["CtoP"], ring["PtoD"], ring["DtoM"]>>
      PROVE  Line' = Line /\ UNCHANGED sent
  <2>1. UNCHANGED <<pc["PtoD"], pc["DtoM"]>>
    BY <1>4, FnTypes, ProcessIs DEF Goto
  <2>2. UNCHANGED <<InHand("PtoD"), InHand("DtoM")>>
    BY <1>4, <2>1, SameHand
  <2>3. Codec' = Codec
    BY <1>4 DEF Codec, Held
  <2>4. \A k \in Parts : Line'[k] = Line[k]
    BY <1>4, <2>2, <2>3, LineIs, LineThenIs, PartIs
  <2>5. QED  BY <1>4, <2>4, LineTyped, LineThenTyped DEF Lines
<1>5. ASSUME NEW mode \in {"block", "return", "switch"}, NEW discard \in BOOLEAN,
             Launch(mode, discard)
      PROVE  Line' = Line /\ UNCHANGED sent
  BY <1>4, <1>5 DEF Launch, codecVars
<1>6. CASE DiscardQueuedDecodes
  BY <1>4, <1>6 DEF DiscardQueuedDecodes
<1>7. CASE ReleaseQueuedDecodeBuffers
  <2>1. UNCHANGED <<ring["CtoP"], ring["PtoD"], ring["DtoM"]>>
    BY <1>7, FnTypes, ProcessIs DEF ReleaseQueuedDecodeBuffers
  <2>2. QED  BY <1>4, <1>7, <2>1 DEF ReleaseQueuedDecodeBuffers, codecVars
<1>8. CASE MarkerNumber \/ SwitchCollator \/ WaitForDrainCompletion
  BY <1>4, <1>8 DEF MarkerNumber, SwitchCollator, WaitForDrainCompletion, codecVars
<1>9. CASE UNCHANGED vars
  <2>1. UNCHANGED <<pc, hand, codecVars, sent, ring>>
    BY <1>9 DEF vars, processVars
  <2>2. QED  BY <1>1, <2>1, SameHand
<1>10. QED  BY <1>2, <1>3, <1>5, <1>6, <1>7, <1>8, <1>9

(* What is inserted goes to the end of the collator's ring or, if it is a  *)
(* call, of another.                                                       *)
LEMMA InsertLine ==
  ASSUME Types, Types', NEW p \in Processes, NEW b \in Buffer, Insert(p, b),
         UNCHANGED <<codecVars, hand>>, UNCHANGED <<pc["PtoD"], pc["DtoM"]>>
  PROVE  /\ p = "PostM" => Line' = Line
         /\ p \in Readers => Adds(Line, Line', Place(p), b)
<1>1. /\ ring'[p] = Append(ring[p], b)
      /\ \A q \in Processes : q # p => UNCHANGED ring[q]
      /\ UNCHANGED <<hand["PtoD"], hand["DtoM"]>>
  BY FnTypes DEF Insert
<1>2. CASE p = "PostM"
  <2>1. UNCHANGED <<ring["CtoP"], ring["PtoD"], ring["DtoM"]>>
    BY <1>1, <1>2, ProcessIs
  <2>2. QED  BY <1>1, <1>2, <2>1, SameLine DEF Readers
<1>3. CASE p \in Readers
  <2>1. /\ InHand("PtoD")' = InHand("PtoD") /\ InHand("DtoM")' = InHand("DtoM")
        /\ Codec' = Codec
    BY <1>1, SameHand, SameCodecLine
  <2>2. \A i \in Parts : i # Place(p) => Line'[i] = Line[i]
    BY <1>1, <1>3, <2>1, LineIs, LineThenIs, PartIs, PlaceIs, ProcessIs DEF Readers
  <2>3. Line'[Place(p)] = Append(Line[Place(p)], b)
    BY <1>1, <1>3, LineIs, LineThenIs, PlaceIs DEF Readers
  <2>4. QED  BY <1>3, <2>2, <2>3 DEF Adds, Readers
<1>4. QED  BY <1>2, <1>3, ProcessIs DEF Readers

LEMMA LineHolds ==
  ASSUME Types, Contents
  PROVE  /\ \A k \in Parts : \A x \in Items(Line[k]) : AFrame(x) \/ AMarker(x) \/ IsCall(x)
         /\ \A x \in From(Line, 1) : AFrame(x) \/ AMarker(x) \/ IsCall(x)
         /\ \A x \in From(Line, 1) : x \in Buffer
<1>1. \A p \in Processes : \A x \in Items(ring[p]) : AFrame(x) \/ AMarker(x) \/ IsCall(x)
  BY DEF Contents, ACall
<1>2. \A p \in {"PtoD", "DtoM"} : \A x \in Items(InHand(p)) : AFrame(x) \/ AMarker(x)
  <2>1. TAKE p \in {"PtoD", "DtoM"}
  <2>2. CASE At(p, "pass")
    <3>1. Items(InHand(p)) = {hand[p]} /\ ~At(p, "idle")
      BY <2>2 DEF Items, InHand, At
    <3>2. QED  BY <3>1 DEF Contents
  <2>3. CASE ~At(p, "pass")
    BY <2>3 DEF Items, InHand
  <2>4. QED  BY <2>2, <2>3
<1>3. \A x \in Items(Codec) : AFrame(x) \/ AMarker(x)
  <2>1. TAKE x \in Items(Codec)
  <2>2. PICK i \in 1 .. Len(Codec) : x = Codec[i]
    BY DEF Items
  <2>3. \/ x = held /\ held # Nothing
        \/ \E j \in 1 .. Len(inflight) : x = inflight[j]
    <3>1. CASE held = Nothing
      BY <2>2, <3>1, CodecIs DEF CodecFits
    <3>2. CASE held # Nothing
      <4>0. /\ ahead \in 1 .. Len(inflight) /\ Len(Codec) = Len(inflight) + 1
            /\ \A j \in 1 .. ahead : Codec[j] = inflight[j]
            /\ Codec[ahead + 1] = held /\ Len(inflight) \in Nat
            /\ \A j \in ahead + 2 .. Len(inflight) + 1 : Codec[j] = inflight[j - 1]
        BY <3>2, CodecIs DEF CodecFits, Held
      <4>1. \/ i \in 1 .. ahead /\ i \in 1 .. Len(inflight)
            \/ i = ahead + 1
            \/ i \in ahead + 2 .. Len(inflight) + 1 /\ i - 1 \in 1 .. Len(inflight)
        BY <4>0
      <4>2. QED  BY <2>2, <3>2, <4>0, <4>1
    <3>3. QED  BY <3>1, <3>2
  <2>4. QED  BY <2>3 DEF Contents, Items
<1>4. \A k \in Parts : \A x \in Items(Line[k]) : AFrame(x) \/ AMarker(x) \/ IsCall(x)
  BY <1>1, <1>2, <1>3, LineIs, PartIs, ProcessIs
<1>5. \A x \in From(Line, 1) : AFrame(x) \/ AMarker(x) \/ IsCall(x)
  BY <1>4, FromPart
<1>6. \A x \in From(Line, 1) : x \in Buffer
  <2>1. \A k \in Parts : Items(Line[k]) \subseteq Buffer
    BY LineTyped, LineFacts, ItemsAre
  <2>2. QED  BY <2>1, FromPart
<1>7. QED  BY <1>4, <1>5, <1>6

LEMMA MarkerInsertLine ==
  ASSUME Types, Types', Contents, MarkerInsert, NEW b, b = Marker(launched)
  PROVE  /\ b \in Buffer /\ IsMarker(b) /\ b.n = launched /\ b.seq = drain.seq
         /\ launched = marked + 1 /\ marked' = launched
         /\ Adds(Line, Line', 6, b)
         /\ \A x \in From(Line, 1) : Precedes(sent, x, b)
<1>1. /\ Insert("CtoP", b) /\ UNCHANGED <<codecVars, hand>> /\ marked' = launched
      /\ UNCHANGED <<pc["PtoD"], pc["DtoM"]>> /\ pc[Client] = "insert"
  BY FnTypes, ProcessIs DEF MarkerInsert, Goto, At
<1>2. b \in Buffer /\ IsMarker(b) /\ b.n = launched /\ b.seq = drain.seq
  BY TypesAre, StreamAssumption
     DEF ClientTypes, Marker, Buffer, IsMarker, StreamAssumption
<1>3. launched = marked + 1 /\ marked \in Nat
  BY <1>1, CountTypes DEF Contents, Entering, Counts
<1>4. Adds(Line, Line', 6, b)
  BY <1>1, <1>2, InsertLine, PlaceIs, ProcessIs DEF Readers
<1>5. ASSUME NEW x \in From(Line, 1)  PROVE Precedes(sent, x, b)
  <2>1. AFrame(x) \/ AMarker(x) \/ IsCall(x)
    BY LineHolds
  <2>2. ASSUME AFrame(x)  PROVE sent[x.n].drains < b.n
    <3>1. sent[x.n].drains \in 0 .. marked
      BY <2>2 DEF AFrame, Contents
    <3>2. QED  BY <1>2, <1>3, <3>1
  <2>3. ASSUME AMarker(x)  PROVE x.n < b.n
    BY <1>2, <1>3, <2>3 DEF AMarker
  <2>4. ~IsFrame(b)
    BY <1>2, Kinds
  <2>5. QED  BY <1>2, <2>1, <2>2, <2>3, <2>4, Kinds DEF Precedes, AFrame, AMarker
<1>6. QED  BY <1>1, <1>2, <1>3, <1>4, <1>5

LEMMA CollateLine ==
  ASSUME Types, Types', Contents, Collate, NEW b, b = Frame(Len(sent) + 1)
  PROVE  /\ b \in Buffer /\ IsFrame(b) /\ b.n = Len(sent) + 1 /\ b.seq = -1
         /\ Len(sent') = Len(sent) + 1
         /\ \A i \in 1 .. Len(sent) : sent'[i] = sent[i]
         /\ sent'[Len(sent) + 1] = [drains |-> marked, collator |-> collator]
         /\ Adds(Line, Line', 6, b)
         /\ \A x \in From(Line, 1) : Precedes(sent', x, b)
<1>1. /\ Insert("CtoP", b) /\ UNCHANGED <<codecVars, hand>> /\ UNCHANGED <<pc["PtoD"], pc["DtoM"]>>
      /\ marked \in Nat /\ Len(sent) \in Nat
  BY FnTypes, CountTypes DEF Collate, processVars, Counts
<1>2. b \in Buffer /\ IsFrame(b) /\ b.n = Len(sent) + 1 /\ b.seq = -1
  BY TypesAre, StreamAssumption
     DEF ClientTypes, Collate, Frame, Buffer, IsFrame, StreamAssumption
<1>3. /\ Len(sent') = Len(sent) + 1
      /\ \A i \in 1 .. Len(sent) : sent'[i] = sent[i]
      /\ sent'[Len(sent) + 1] = [drains |-> marked, collator |-> collator]
  <2>1. /\ sent \in Seq([drains : Nat, collator : Nat])
        /\ [drains |-> marked, collator |-> collator] \in [drains : Nat, collator : Nat]
        /\ sent' = Append(sent, [drains |-> marked, collator |-> collator])
    BY <1>1, TypesAre DEF ClientTypes, SwitchTypes, Collate
  <2>2. QED  BY <2>1, AppendFacts
<1>4. Adds(Line, Line', 6, b)
  BY <1>1, <1>2, InsertLine, PlaceIs, ProcessIs DEF Readers
<1>5. ASSUME NEW x \in From(Line, 1)  PROVE Precedes(sent', x, b)
  <2>1. AFrame(x) \/ AMarker(x) \/ IsCall(x)
    BY LineHolds
  <2>2. AFrame(x) => x.n < b.n
    BY <1>1, <1>2 DEF AFrame
  <2>3. AMarker(x) => x.n <= sent'[b.n].drains
    BY <1>1, <1>2, <1>3 DEF AMarker
  <2>4. ~IsMarker(b)
    BY <1>2, Kinds
  <2>5. QED  BY <1>2, <2>1, <2>2, <2>3, <2>4, Kinds DEF Precedes, AFrame, AMarker
<1>6. QED  BY <1>2, <1>3, <1>4, <1>5

LEMMA CallLine ==
  ASSUME Types, Types', Contents, NEW fn \in Functions, CallInSequence(fn), NEW b, b = Call(fn)
  PROVE  /\ b \in Buffer /\ IsCall(b) /\ b.n = launched /\ b.kind = fn
         /\ b.seq = (IF fn = "SwitchComplete" THEN drain.seq + 1 ELSE drain.seq)
         /\ launched = marked /\ launched > 0
         /\ Destination(fn) = "PostM" => Line' = Line
         /\ Destination(fn) \in Readers => Adds(Line, Line', Place(Destination(fn)), b)
<1>1. /\ Insert(Destination(fn), b) /\ UNCHANGED <<codecVars, hand>>
      /\ UNCHANGED <<pc["PtoD"], pc["DtoM"]>> /\ pc[Client] = fn
  BY FnTypes, ProcessIs DEF CallInSequence, Goto, At
<1>2. /\ b \in Buffer /\ IsCall(b) /\ b.n = launched /\ b.kind = fn
      /\ b.seq = (IF fn = "SwitchComplete" THEN drain.seq + 1 ELSE drain.seq)
  BY TypesAre, StreamAssumption
     DEF ClientTypes, Call, Buffer, IsCall, StreamAssumption
<1>3. launched = marked /\ launched > 0
  BY <1>1, NotEntering DEF Contents, Functions
<1>4. QED  BY <1>1, <1>2, <1>3, InsertLine, DestinationIs
-----------------------------------------------------------------------------
(* The order of the line.                                                  *)
LEMMA CollateOrder ==
  ASSUME Types, Types', Contents, InOrder(sent, Line), Collate
  PROVE  InOrder(sent', Line')
<1> PICK b : b = Frame(Len(sent) + 1)
  OBVIOUS
<1> PICK e : e = [drains |-> marked, collator |-> collator]
  OBVIOUS
<1>1. /\ sent \in Seq([drains : Nat, collator : Nat])
      /\ e \in [drains : Nat, collator : Nat] /\ sent' = Append(sent, e)
      /\ Line \in Lines /\ Line' \in Lines
  BY TypesAre, LineTyped, LineThenTyped, CountTypes DEF ClientTypes, SwitchTypes, Collate, Counts
<1>2. \A x \in From(Line, 1) : IsFrame(x) => x.n \in 1 .. Len(sent)
  BY LineHolds, Kinds DEF AFrame, AMarker
<1>3. InOrder(sent', Line)
  BY <1>1, <1>2, SentKeepsOrder
<1>4. Adds(Line, Line', 6, b) /\ \A x \in From(Line, 1) : Precedes(sent', x, b)
  BY CollateLine
<1>5. QED  BY <1>1, <1>3, <1>4, AddKeepsOrder, PartIs

LEMMA OrderNext ==
  ASSUME Types, Types', Contents, InOrder(sent, Line), [Next]_vars
  PROVE  InOrder(sent', Line')
<1>0. Line \in Lines /\ Line' \in Lines
  BY LineTyped, LineThenTyped
<1>1. CASE CollateToParse
  <2>1. PICK b : b = IF IsFrame(Head(ring["CtoP"])) THEN [Head(ring["CtoP"]) EXCEPT !.seq = next]
                    ELSE Head(ring["CtoP"])
    OBVIOUS
  <2>2. Removes(Line, Line', 6, 1) \/ Moves(Line, Line', 6, 5, b)
    BY <1>1, <2>1, CollateToParseLine
  <2>3. UNCHANGED sent
    BY <1>1 DEF CollateToParse
  <2>4. QED  BY <1>0, <2>2, <2>3, RemoveKeepsOrder, MoveKeepsOrder, PartIs
<1>2. ASSUME NEW p \in Processes, Take(p)  PROVE InOrder(sent', Line')
  <2>1. PICK b : b = Head(ring[p])
    OBVIOUS
  <2>2. Moves(Line, Line', 5, 4, b) \/ Moves(Line, Line', 2, 1, b)
    BY <1>2, <2>1, TakeLine
  <2>3. UNCHANGED sent
    BY <1>2 DEF Take
  <2>4. QED  BY <1>0, <2>2, <2>3, MoveKeepsOrder, PartIs
<1>3. CASE PassToCodec
  <2>1. PICK b : b = hand["PtoD"]
    OBVIOUS
  <2>2. \/ Removes(Line, Line', 4, 1) \/ Moves(Line, Line', 4, 3, b)
        \/ Moves(Line, Line', 4, 2, b) \/ Moves(Bare, Line', 4, 3, b)
    BY <1>3, <2>1, PassToCodecLine
  <2>3. UNCHANGED sent
    BY <1>3 DEF PassToCodec
  <2>4. InOrder(sent, Bare) /\ Bare \in Lines
    <3>1. CASE held = Nothing
      BY <3>1, BareLine
    <3>2. CASE held # Nothing
      BY <1>0, <3>2, BareLine, RemoveKeepsOrder, PartIs
    <3>3. QED  BY <3>1, <3>2
  <2>5. QED  BY <1>0, <2>2, <2>3, <2>4, RemoveKeepsOrder, MoveKeepsOrder, PartIs
<1>4. CASE DecodeComplete
  <2>1. InOrder(sent, Mid) /\ Mid \in Lines
    <3>1. Mid \in Lines /\ (Removes(Line, Mid, 3, 1) \/ Moves(Line, Mid, 3, 2, inflight[1]))
      BY <1>4, DecodeCompleteLine
    <3>2. QED  BY <1>0, <3>1, RemoveKeepsOrder, MoveKeepsOrder, PartIs
  <2>2. Moves(Mid, Line', 3, 2, held) \/ Line' = Mid
    BY <1>4, DecodeCompleteLine
  <2>3. InOrder(sent, Line')
    BY <1>0, <2>1, <2>2, MoveKeepsOrder, PartIs
  <2>4. UNCHANGED sent
    BY <1>4 DEF DecodeComplete
  <2>5. QED  BY <2>3, <2>4
<1>5. CASE PassToManifestor
  <2>1. Removes(Line, Line', 1, 1) /\ UNCHANGED sent
    BY <1>5, PassToManifestorLine DEF PassToManifestor
  <2>2. QED  BY <1>0, <2>1, RemoveKeepsOrder, PartIs
<1>6. ASSUME NEW p \in Processes, TakeCall(p)  PROVE InOrder(sent', Line')
  <2>1. UNCHANGED sent
    BY <1>6 DEF TakeCall
  <2>2. CASE p = "PostM"
    BY <1>6, <2>1, <2>2, TakeCallLine
  <2>3. CASE p \in Readers
    <3>1. Removes(Line, Line', Place(p), 1) /\ Place(p) \in Parts
      BY <1>6, <2>3, TakeCallLine, PlaceIs
    <3>2. QED  BY <1>0, <2>1, <3>1, RemoveKeepsOrder
  <2>4. QED  BY <2>2, <2>3, ProcessIs DEF Readers
<1>7. CASE MarkerInsert
  <2>1. PICK b : b = Marker(launched)
    OBVIOUS
  <2>2. Adds(Line, Line', 6, b) /\ \A x \in From(Line, 1) : Precedes(sent, x, b)
    BY <1>7, <2>1, MarkerInsertLine
  <2>3. UNCHANGED sent
    BY <1>7 DEF MarkerInsert
  <2>4. QED  BY <1>0, <2>2, <2>3, AddKeepsOrder, PartIs
<1>8. ASSUME NEW fn \in Functions, CallInSequence(fn)  PROVE InOrder(sent', Line')
  <2>1. PICK b : b = Call(fn)
    OBVIOUS
  <2>2. /\ IsCall(b)
        /\ Destination(fn) = "PostM" => Line' = Line
        /\ Destination(fn) \in Readers => Adds(Line, Line', Place(Destination(fn)), b)
    BY <1>8, <2>1, CallLine
  <2>3. UNCHANGED sent
    BY <1>8 DEF CallInSequence
  <2>4. Destination(fn) = "PostM" \/ Destination(fn) \in Readers
    BY DestinationIs, ProcessIs DEF Readers
  <2>5. QED  BY <1>0, <2>2, <2>3, <2>4, AddKeepsOrder, PlaceIs
<1>9. ASSUME Line' = Line, UNCHANGED sent  PROVE InOrder(sent', Line')
  BY <1>9
<1>10. QED
  BY <1>1, <1>2, <1>3, <1>4, <1>5, <1>6, <1>7, <1>8, <1>9, CollateOrder, OtherLines
     DEF Next, ProcessStep, ClientStep

-----------------------------------------------------------------------------
(* What is discarded.                                                      *)
FlagsMarked ==
  \A p \in Readers : discarding[p] /\ marked = launched =>
    \/ MarkerFrom(Start(p), launched)
    \/ p = "DtoM" /\ At(p, "finish") /\ IsMarker(hand[p])
HandsBehind ==
  \A p \in {"PtoD", "DtoM"} : At(p, "pass") /\ ~keep[p] =>
    IsFrame(hand[p]) /\ Behind(hand[p]) < launched
DropsBehind == \A i \in 1 .. drop : Behind(inflight[i]) < launched

LEMMA DiscardsAre ==
  /\ Discards <=> FlagsMarked /\ HandsBehind /\ DropsBehind
  /\ Discards' <=> FlagsMarked' /\ HandsBehind' /\ DropsBehind'
BY DEF Discards, FlagsMarked, HandsBehind, DropsBehind

LEMMA StartIs ==
  /\ Start("CtoP") = 6 /\ Start("PtoD") = 5 /\ Start("DtoM") = 1
  /\ \A p \in Readers : Start(p) \in Parts /\ Start(p) <= Place(p)
BY PartIs DEF Start, Place, Readers

LEMMA RemoveKeepsMarker ==
  ASSUME NEW Q \in Lines, NEW R \in Lines, NEW k \in Parts, NEW j,
         Removes(Q, R, k, j), NEW h \in Parts, NEW n, MarkerIn(Q, h, n),
         h > k \/ ~(IsMarker(Q[k][j]) /\ Q[k][j].n = n)
  PROVE  MarkerIn(R, h, n)
<1>1. PICK m \in From(Q, h) : IsMarker(m) /\ m.n = n
  BY DEF MarkerIn
<1>2. CASE h > k
  <2>1. PICK i \in Parts : i >= h /\ m \in Items(Q[i])
    BY FromPart
  <2>2. R[i] = Q[i]
    BY <1>2, <2>1, PartsAreNumbers DEF Removes
  <2>3. m \in From(R, h)
    BY <2>1, <2>2, FromPart
  <2>4. QED  BY <1>1, <2>3 DEF MarkerIn
<1>3. CASE ~(IsMarker(Q[k][j]) /\ Q[k][j].n = n)
  BY <1>1, <1>3, FromRemoved DEF MarkerIn
<1>4. QED  BY <1>2, <1>3

LEMMA MoveKeepsMarker ==
  ASSUME NEW Q \in Lines, NEW R \in Lines, NEW k \in Parts, NEW l \in Parts, NEW b,
         Moves(Q, R, k, l, b), NEW h \in Parts, NEW n, MarkerIn(Q, h, n),
         h <= l \/ h > k \/ ~(IsMarker(b) /\ b.n = n)
  PROVE  MarkerIn(R, h, n)
<1>1. PICK m \in From(Q, h) : IsMarker(m) /\ m.n = n
  BY DEF MarkerIn
<1>2. /\ b.kind = Q[k][1].kind /\ b.n = Q[k][1].n /\ l < k
      /\ \A i \in Parts : i # k /\ i # l => R[i] = Q[i]
  BY DEF Moves
<1>3. CASE h > k
  <2>1. PICK i \in Parts : i >= h /\ m \in Items(Q[i])
    BY FromPart
  <2>2. i # k /\ i # l
    BY <1>2, <1>3, <2>1, PartsAreNumbers
  <2>3. m \in From(R, h)
    BY <1>2, <2>1, <2>2, FromPart
  <2>4. QED  BY <1>1, <2>3 DEF MarkerIn
<1>4. CASE m # Q[k][1]
  BY <1>1, <1>4, FromMoved DEF MarkerIn
<1>5. CASE h <= l /\ m = Q[k][1]
  <2>1. b \in From(R, h)
    BY <1>5, FromMoved
  <2>2. QED  BY <1>1, <1>2, <1>5, <2>1 DEF MarkerIn, IsMarker
<1>6. CASE ~(IsMarker(b) /\ b.n = n) /\ m = Q[k][1]
  BY <1>1, <1>2, <1>6 DEF IsMarker
<1>7. QED  BY <1>3, <1>4, <1>5, <1>6

LEMMA AddKeepsMarker ==
  ASSUME NEW Q \in Lines, NEW R \in Lines, NEW k \in Parts, NEW b,
         Adds(Q, R, k, b), NEW h \in Parts, NEW n,
         MarkerIn(Q, h, n) \/ (h <= k /\ IsMarker(b) /\ b.n = n)
  PROVE  MarkerIn(R, h, n)
BY FromAdded DEF MarkerIn

LEMMA SameFlags ==
  ASSUME FlagsMarked,
         \A p \in Readers : MarkerFrom(Start(p), launched) => MarkerFrom(Start(p), launched)',
         \A p \in Readers : discarding'[p] => discarding[p],
         UNCHANGED <<marked, launched, pc["DtoM"], hand["DtoM"]>>
  PROVE  FlagsMarked'
BY DEF FlagsMarked, At

LEMMA SameDrops ==
  ASSUME DropsBehind, UNCHANGED <<inflight, drop>>,
         launched \in Nat, launched' \in Nat, launched' >= launched,
         \A i \in 1 .. drop : /\ Behind(inflight[i]) \in Nat
                              /\ sent'[inflight[i].n].drains = Behind(inflight[i])
  PROVE  DropsBehind'
BY DEF DropsBehind, Behind

LEMMA BehindIs ==
  ASSUME Types, Contents
  PROVE  /\ \A b : AFrame(b) => Behind(b) \in 0 .. marked /\ Behind(b) \in Nat
         /\ \A i \in 1 .. Len(inflight) : AFrame(inflight[i]) /\ Behind(inflight[i]) \in Nat
         /\ \A i \in 1 .. drop : i \in 1 .. Len(inflight)
<1>1. marked \in Nat /\ Len(inflight) \in Nat /\ drop \in 0 .. Len(inflight)
  BY CountTypes, TypesAre DEF Counts, CodecTypes
<1>2. \A b : AFrame(b) => Behind(b) \in 0 .. marked /\ Behind(b) \in Nat
  BY <1>1 DEF AFrame, Behind, Contents
<1>3. \A i \in 1 .. Len(inflight) : AFrame(inflight[i])
  BY DEF Contents, Items
<1>4. QED  BY <1>1, <1>2, <1>3

(* A buffer that is to be discarded was in hand before.                    *)
LEMMA SameHandsBehind ==
  ASSUME Types, Types', Contents, Discards, UNCHANGED sent,
         launched' >= launched,
         \A p \in {"PtoD", "DtoM"} : pc'[p] = "pass" /\ ~keep'[p] =>
           pc[p] = "pass" /\ ~keep[p] /\ hand'[p] = hand[p]
  PROVE  HandsBehind'
<1>1. launched \in Nat /\ launched' \in Nat
  BY CountTypes, CountTypesThen DEF Counts
<1>2. \A p \in {"PtoD", "DtoM"} : pc[p] = "pass" /\ ~keep[p] =>
        /\ IsFrame(hand[p]) /\ Behind(hand[p]) < launched
        /\ Behind(hand[p]) \in Nat
  <2>1. TAKE p \in {"PtoD", "DtoM"}
  <2>2. HAVE pc[p] = "pass" /\ ~keep[p]
  <2>3. IsFrame(hand[p]) /\ Behind(hand[p]) < launched
    BY <2>2 DEF Discards, At
  <2>4. AFrame(hand[p])
    BY <2>2, <2>3, Kinds DEF Contents, At, AMarker
  <2>5. QED  BY <2>3, <2>4, BehindIs
<1>3. QED
  BY <1>1, <1>2 DEF HandsBehind, At, Behind

(* Both for all actions that leave them alone.                             *)
LEMMA SameBehind ==
  ASSUME Types, Types', Contents, Discards, UNCHANGED <<sent, inflight, drop>>,
         launched' >= launched,
         \A p \in {"PtoD", "DtoM"} : pc'[p] = "pass" /\ ~keep'[p] =>
           pc[p] = "pass" /\ ~keep[p] /\ hand'[p] = hand[p]
  PROVE  HandsBehind' /\ DropsBehind'
<1>1. launched \in Nat /\ launched' \in Nat
  BY CountTypes, CountTypesThen DEF Counts
<1>2. HandsBehind'
  BY SameHandsBehind
<1>3. DropsBehind'
  <2>1. DropsBehind
    BY DiscardsAre
  <2>2. QED  BY <1>1, <2>1, SameDrops, BehindIs DEF Behind
<1>4. QED  BY <1>2, <1>3

LEMMA LinesNow ==
  ASSUME Types, Types'
  PROVE  Line \in Lines /\ Line' \in Lines
BY LineTyped, LineThenTyped

LEMMA CollateToParseDiscards ==
  ASSUME Types, Types', Contents, Contents', Discards, CollateToParse  PROVE Discards'
<1> PICK b : b = IF IsFrame(Head(ring["CtoP"])) THEN [Head(ring["CtoP"]) EXCEPT !.seq = next]
                 ELSE Head(ring["CtoP"])
  OBVIOUS
<1> DEFINE stops == discarding["CtoP"] /\ ~IsMarker(b)
<1>0. /\ UNCHANGED <<sent, inflight, drop, launched, marked>> /\ UNCHANGED keep
      /\ UNCHANGED <<pc["DtoM"], pc["PtoD"], hand["DtoM"], hand["PtoD"]>>
      /\ discarding'["CtoP"] = stops
      /\ \A p \in Processes : p # "CtoP" => discarding'[p] = discarding[p]
      /\ IF stops THEN Removes(Line, Line', 6, 1) ELSE Moves(Line, Line', 6, 5, b)
      /\ b.kind = Line[6][1].kind
  <2>1. /\ UNCHANGED <<sent, inflight, drop, launched, marked>> /\ UNCHANGED keep
        /\ discarding' = [discarding EXCEPT !["CtoP"] = stops]
        /\ Passed("CtoP", b)
    BY DEF CollateToParse, codecVars, clientVars
  <2>2. UNCHANGED <<pc["DtoM"], pc["PtoD"], hand["DtoM"], hand["PtoD"]>>
    BY <2>1, FnTypes DEF Passed, Goto
  <2> HIDE DEF stops
  <2>3. /\ discarding'["CtoP"] = stops
        /\ \A p \in Processes : p # "CtoP" => discarding'[p] = discarding[p]
    BY <2>1, FnTypes, ProcessIs
  <2>4. /\ IF stops THEN Removes(Line, Line', 6, 1) ELSE Moves(Line, Line', 6, 5, b)
        /\ b.kind = Line[6][1].kind
    BY CollateToParseLine DEF stops
  <2>5. QED  BY <2>1, <2>2, <2>3, <2>4
<1>1. ASSUME NEW p \in Readers, MarkerFrom(Start(p), launched), discarding'[p]
      PROVE  MarkerFrom(Start(p), launched)'
  <2>1. MarkerIn(Line, Start(p), launched)
    BY <1>1 DEF MarkerFrom
  <2>2. CASE stops
    <3>1. ~IsMarker(Line[6][1])
      BY <1>0, <2>2 DEF IsMarker
    <3>2. MarkerIn(Line', Start(p), launched)
      BY <1>0, <2>1, <2>2, <3>1, LinesNow, RemoveKeepsMarker, PartIs, StartIs
    <3>3. QED  BY <1>0, <3>2 DEF MarkerFrom
  <2>3. CASE ~stops
    <3>1. p # "CtoP"
      BY <1>0, <1>1, <2>3
    <3>2. Start(p) <= 5
      BY <3>1, StartIs DEF Readers
    <3>3. MarkerIn(Line', Start(p), launched)
      BY <1>0, <2>1, <2>3, <3>2, LinesNow, MoveKeepsMarker, PartIs, StartIs
    <3>4. QED  BY <1>0, <3>3 DEF MarkerFrom
  <2>4. QED  BY <2>2, <2>3
<1> HIDE DEF stops
<1>2. FlagsMarked'
  <2>1. SUFFICES ASSUME NEW p \in Readers, discarding'[p], marked' = launched'
                 PROVE  \/ MarkerFrom(Start(p), launched)'
                        \/ p = "DtoM" /\ At(p, "finish")' /\ IsMarker(hand[p])'
    BY DEF FlagsMarked
  <2>2. discarding[p] /\ marked = launched
    BY <1>0, <2>1, PlaceIs DEF stops
  <2>3. \/ MarkerFrom(Start(p), launched)
        \/ p = "DtoM" /\ At(p, "finish") /\ IsMarker(hand[p])
    BY <2>2 DEF Discards
  <2>4. QED  BY <1>0, <1>1, <2>1, <2>3 DEF At
<1>3. HandsBehind' /\ DropsBehind'
  BY <1>0, SameBehind, CountTypes DEF Counts
<1>4. QED  BY <1>2, <1>3, DiscardsAre

LEMMA TakeDiscards ==
  ASSUME Types, Types', Contents, Contents', InOrder(sent, Line), Discards,
         NEW p \in Processes, Take(p)
  PROVE  Discards'
<1> PICK b : b = Head(ring[p])
  OBVIOUS
<1> DEFINE stops == discarding[p] /\ ~(p = "PtoD" /\ IsMarker(b))
<1>0. /\ UNCHANGED <<sent, inflight, drop, launched, marked>>
      /\ discarding' = [discarding EXCEPT ![p] = stops]
      /\ keep' = [keep EXCEPT ![p] = ~stops \/ IsMarker(b)]
      /\ hand' = [hand EXCEPT ![p] = b] /\ pc' = [pc EXCEPT ![p] = "pass"]
      /\ p \in {"PtoD", "DtoM"} /\ pc[p] = "idle"
  BY DEF Take, codecVars, clientVars, Goto, At
<1> HIDE DEF stops
<1>1. /\ discarding'[p] = stops /\ keep'[p] = (~stops \/ IsMarker(b)) /\ hand'[p] = b
      /\ pc'[p] = "pass"
      /\ \A q \in Processes : q # p =>
           UNCHANGED <<discarding[q], keep[q], hand[q], pc[q]>>
  BY <1>0, FnTypes
<1>2. /\ Line[Place(p)] # << >> /\ Line[Place(p)][1] = b
      /\ b \in Buffer /\ (AFrame(b) \/ AMarker(b))
      /\ p = "PtoD" => Moves(Line, Line', 5, 4, b)
      /\ p = "DtoM" => Moves(Line, Line', 2, 1, b) /\ Line[1] = << >>
  BY TakeLine
<1>3. launched \in Nat /\ marked \in Nat /\ (launched = marked \/ launched = marked + 1)
  BY CountTypes DEF Counts, Contents
<1>4. ASSUME NEW q \in Readers, MarkerFrom(Start(q), launched), discarding'[q]
      PROVE  MarkerFrom(Start(q), launched)'
  <2>1. MarkerIn(Line, Start(q), launched)
    BY <1>4 DEF MarkerFrom
  <2>2. CASE p = "PtoD"
    <3>1. q = p => ~IsMarker(b)
      BY <1>1, <1>4, <2>2 DEF stops
    <3>2. \/ Start(q) <= 4 \/ Start(q) > 5 \/ ~IsMarker(b)
      BY <2>2, <3>1, StartIs DEF Readers
    <3>3. MarkerIn(Line', Start(q), launched)
      BY <1>2, <2>1, <2>2, <3>2, LinesNow, MoveKeepsMarker, PartIs, StartIs
    <3>4. QED  BY <1>0, <3>3 DEF MarkerFrom
  <2>3. CASE p = "DtoM"
    <3>1. \/ Start(q) <= 1 \/ Start(q) > 2
      BY StartIs DEF Readers
    <3>2. MarkerIn(Line', Start(q), launched)
      BY <1>2, <2>1, <2>3, <3>1, LinesNow, MoveKeepsMarker, PartIs, StartIs
    <3>3. QED  BY <1>0, <3>2 DEF MarkerFrom
  <2>4. QED  BY <1>0, <2>2, <2>3
<1>5. FlagsMarked'
  <2>1. SUFFICES ASSUME NEW q \in Readers, discarding'[q], marked' = launched'
                 PROVE  \/ MarkerFrom(Start(q), launched)'
                        \/ q = "DtoM" /\ At(q, "finish")' /\ IsMarker(hand[q])'
    BY DEF FlagsMarked
  <2>2. discarding[q] /\ marked = launched
    BY <1>0, <1>1, <2>1, PlaceIs DEF stops
  <2>3. \/ MarkerFrom(Start(q), launched)
        \/ q = "DtoM" /\ At(q, "finish") /\ IsMarker(hand[q])
    BY <2>2 DEF Discards
  <2>4. q = "DtoM" /\ At(q, "finish") => p # q
    BY <1>0 DEF At
  <2>5. QED  BY <1>1, <1>4, <2>1, <2>3, <2>4, PlaceIs DEF At
<1>6. ASSUME ~keep'[p]  PROVE IsFrame(b) /\ Behind(b) < launched
  <2>1. discarding[p] /\ ~IsMarker(b)
    BY <1>1, <1>6 DEF stops
  <2>2. AFrame(b)
    BY <1>2, <2>1 DEF AMarker
  <2>3. Behind(b) \in 0 .. marked
    BY <2>2, BehindIs
  <2>4. CASE launched = marked + 1
    BY <1>3, <2>2, <2>3, <2>4 DEF AFrame
  <2>5. CASE launched = marked
    <3>1. MarkerIn(Line, Start(p), launched)
      BY <1>0, <2>1, <2>5 DEF Discards, At, MarkerFrom, Readers
    <3>2. PICK m \in From(Line, Start(p)) : IsMarker(m) /\ m.n = launched
      BY <3>1 DEF MarkerIn
    <3>3. PICK i \in Parts : i >= Start(p) /\ m \in Items(Line[i])
      BY <3>2, FromPart
    <3>4. m # b
      BY <2>1, <3>2
    <3>5. Line[Place(p)] \in Seq(Buffer) /\ Place(p) \in Parts
      BY <1>0, LinesNow, LineFacts, PlaceIs DEF Readers
    <3>6. \/ m \in Items(Tail(Line[Place(p)]))
          \/ i > Place(p)
      <4>1. CASE i = Place(p)
        BY <1>2, <3>3, <3>4, <3>5, <4>1, ItemsTail, TailFacts
      <4>2. CASE i # Place(p)
        <5>1. CASE p = "PtoD"
          BY <3>3, <4>2, <5>1, StartIs, PlaceIs, PartsAreNumbers
        <5>2. CASE p = "DtoM"
          <6>1. i # 1
            BY <1>2, <3>3, <5>2 DEF Items
          <6>2. QED  BY <3>3, <4>2, <5>2, <6>1, PlaceIs, PartsAreNumbers
        <5>3. QED  BY <1>0, <5>1, <5>2
      <4>3. QED  BY <4>1, <4>2
    <3>7. Precedes(sent, b, m)
      BY <1>2, <3>3, <3>5, <3>6, LinesNow, HeadPrecedes
    <3>8. QED  BY <2>2, <3>2, <3>7 DEF Precedes, Behind, AFrame
  <2>6. QED  BY <1>3, <2>4, <2>5
<1>7. HandsBehind'
  <2>1. SUFFICES ASSUME NEW q \in {"PtoD", "DtoM"}, pc'[q] = "pass", ~keep'[q]
                 PROVE  IsFrame(hand'[q]) /\ Behind(hand[q])' < launched'
    BY DEF HandsBehind, At
  <2>2. CASE q = p
    BY <1>0, <1>1, <1>6, <2>1, <2>2 DEF Behind
  <2>3. CASE q # p
    <3>1. /\ pc[q] = "pass" /\ ~keep[q] /\ hand'[q] = hand[q]
      BY <1>1, <2>1, <2>3, ProcessIs
    <3>2. QED  BY <1>0, <3>1 DEF Discards, Behind, At
  <2>4. QED  BY <2>2, <2>3
<1>8. DropsBehind'
  BY <1>0, <1>3, DiscardsAre, SameDrops, BehindIs DEF Behind
<1>9. QED  BY <1>5, <1>7, <1>8, DiscardsAre

LEMMA PassToCodecDiscards ==
  ASSUME Types, Types', Contents, Contents', InOrder(sent, Line), Discards, PassToCodec
  PROVE  Discards'
<1> PICK b : b = hand["PtoD"]
  OBVIOUS
<1>0. /\ UNCHANGED <<sent, drop, launched, marked, discarding>>
      /\ At("PtoD", "pass") /\ Passed("PtoD", b)
      /\ keep' = [keep EXCEPT !["PtoD"] = TRUE]
      /\ inflight' = inflight \/ inflight' = Append(inflight, b)
  BY DEF PassToCodec, switchVars, codecVars, clientVars
<1>1. /\ UNCHANGED <<pc["DtoM"], hand["DtoM"], keep["DtoM"]>> /\ keep'["PtoD"]
  BY <1>0, FnTypes, ProcessIs DEF Passed, Goto
<1>2. /\ Line[4] = <<b>> /\ b \in Buffer /\ (AFrame(b) \/ AMarker(b))
      /\ ~keep["PtoD"] => Removes(Line, Line', 4, 1)
      /\ keep["PtoD"] /\ IsFrame(b) => Moves(Line, Line', 4, 3, b)
      /\ keep["PtoD"] /\ ~IsFrame(b) /\ inflight = << >> => Moves(Line, Line', 4, 2, b)
      /\ keep["PtoD"] /\ ~IsFrame(b) /\ inflight # << >> => Moves(Bare, Line', 4, 3, b)
  BY PassToCodecLine
<1>3. launched \in Nat /\ marked \in Nat /\ marked <= launched
  BY CountTypes DEF Counts, Contents
<1>4. ASSUME NEW p \in Readers, MarkerFrom(Start(p), launched)
      PROVE  MarkerFrom(Start(p), launched)'
  <2>1. MarkerIn(Line, Start(p), launched) /\ Start(p) \in Parts
    BY <1>4, StartIs DEF MarkerFrom
  <2>2. Start(p) \in {1, 5, 6}
    BY StartIs DEF Readers
  <2>3. CASE ~keep["PtoD"]
    <3>1. IsFrame(b) /\ ~IsMarker(Line[4][1])
      BY <1>0, <1>2, <2>3, Kinds DEF Discards
    <3>2. MarkerIn(Line', Start(p), launched)
      BY <1>2, <2>1, <2>3, <3>1, LinesNow, RemoveKeepsMarker, PartIs
    <3>3. QED  BY <1>0, <3>2 DEF MarkerFrom
  <2>4. ASSUME NEW l \in {2, 3}, Moves(Line, Line', 4, l, b)
        PROVE  MarkerFrom(Start(p), launched)'
    <3>1. l \in Parts /\ (Start(p) <= l \/ Start(p) > 4)
      BY <2>2, <2>4, PartIs
    <3>2. MarkerIn(Line', Start(p), launched)
      BY <2>1, <2>4, <3>1, LinesNow, MoveKeepsMarker, PartIs
    <3>3. QED  BY <1>0, <3>2 DEF MarkerFrom
  <2>5. CASE ~IsFrame(b) /\ Moves(Bare, Line', 4, 3, b)
    <3>1. MarkerIn(Bare, Start(p), launched) /\ Bare \in Lines
      <4>1. CASE held = Nothing
        BY <2>1, <4>1, BareLine
      <4>2. CASE held # Nothing
        <5>1. /\ Removes(Line, Bare, 3, ahead + 1) /\ Line[3][ahead + 1] = held
              /\ ahead + 1 \in 1 .. Len(Line[3]) /\ Bare \in Lines
          BY <4>2, BareLine DEF Removes
        <5>2. AMarker(b) /\ AMarker(held)
          BY <1>2, <2>5, <4>2 DEF AFrame, Contents
        <5>3. 1 \in 1 .. Len(Line[4]) /\ Line[4][1] = b
          BY <1>2
        <5>4. Precedes(sent, held, b)
          BY <5>1, <5>3, PartIs DEF InOrder
        <5>5. held.n # launched
          BY <1>3, <5>2, <5>4 DEF Precedes, AMarker
        <5>6. QED  BY <2>1, <5>1, <5>5, LinesNow, RemoveKeepsMarker, PartIs
      <4>3. QED  BY <4>1, <4>2
    <3>2. Start(p) <= 3 \/ Start(p) > 4
      BY <2>2
    <3>3. MarkerIn(Line', Start(p), launched)
      BY <2>1, <2>5, <3>1, <3>2, LinesNow, MoveKeepsMarker, PartIs
    <3>4. QED  BY <1>0, <3>3 DEF MarkerFrom
  <2>6. QED  BY <1>2, <2>3, <2>4, <2>5
<1>5. FlagsMarked'
  BY <1>0, <1>1, <1>4, DiscardsAre, SameFlags
<1>6. HandsBehind'
  BY <1>0, <1>1, <1>3, SameHandsBehind
<1>7. DropsBehind'
  <2>1. \A i \in 1 .. drop : inflight'[i] = inflight[i] /\ Behind(inflight[i]) < launched
    <3>1. inflight \in Seq(Buffer) /\ \A i \in 1 .. drop : i \in 1 .. Len(inflight)
      BY FnTypes, BehindIs
    <3>2. inflight' = inflight \/ \A i \in 1 .. Len(inflight) : inflight'[i] = inflight[i]
      BY <1>0, <1>2, <3>1, AppendFacts
    <3>3. QED  BY <3>1, <3>2 DEF Discards
  <2>2. QED  BY <1>0, <2>1 DEF DropsBehind, Behind
<1>8. QED  BY <1>5, <1>6, <1>7, DiscardsAre

LEMMA DecodeCompleteDiscards ==
  ASSUME Types, Types', Contents, Contents', Discards, DecodeComplete
  PROVE  Discards'
<1>0. /\ UNCHANGED <<sent, launched, marked, discarding, pc, hand, keep>>
      /\ inflight # << >> /\ inflight' = Tail(inflight)
      /\ drop' = IF drop > 0 THEN drop - 1 ELSE 0
  BY DEF DecodeComplete, processVars, clientVars
<1>1. /\ Line[3] # << >> /\ Line[3][1] = inflight[1] /\ Mid \in Lines
      /\ Removes(Line, Mid, 3, 1) \/ Moves(Line, Mid, 3, 2, inflight[1])
      /\ Moves(Mid, Line', 3, 2, held) \/ Line' = Mid
  BY DecodeCompleteLine
<1>2. inflight \in Seq(Buffer) /\ drop \in 0 .. Len(inflight) /\ 1 \in 1 .. Len(inflight)
  BY <1>0, FnTypes, TypesAre DEF CodecTypes
<1>3. ~IsMarker(inflight[1])
  BY <1>2, BehindIs, Kinds DEF AFrame
<1>4. ASSUME NEW p \in Readers, MarkerFrom(Start(p), launched)
      PROVE  MarkerFrom(Start(p), launched)'
  <2>1. MarkerIn(Line, Start(p), launched) /\ Start(p) \in Parts
    BY <1>4, StartIs DEF MarkerFrom
  <2>2. Start(p) \in {1, 5, 6}
    BY StartIs DEF Readers
  <2>3. MarkerIn(Mid, Start(p), launched)
    <3>1. Removes(Line, Mid, 3, 1) => MarkerIn(Mid, Start(p), launched)
      BY <1>1, <1>3, <2>1, LinesNow, RemoveKeepsMarker, PartIs
    <3>2. Moves(Line, Mid, 3, 2, inflight[1]) => MarkerIn(Mid, Start(p), launched)
      BY <1>1, <1>3, <2>1, LinesNow, MoveKeepsMarker, PartIs
    <3>3. QED  BY <1>1, <3>1, <3>2
  <2>4. MarkerIn(Line', Start(p), launched)
    <3>1. Start(p) <= 2 \/ Start(p) > 3
      BY <2>2
    <3>2. Moves(Mid, Line', 3, 2, held) => MarkerIn(Line', Start(p), launched)
      BY <1>1, <2>1, <2>3, <3>1, LinesNow, MoveKeepsMarker, PartIs
    <3>3. QED  BY <1>1, <2>3, <3>2
  <2>5. QED  BY <1>0, <2>4 DEF MarkerFrom
<1>5. FlagsMarked'
  BY <1>0, <1>4, DiscardsAre, SameFlags
<1>6. HandsBehind'
  BY <1>0, SameHandsBehind, CountTypes DEF Counts
<1>7. DropsBehind'
  <2>1. ASSUME NEW i \in 1 .. drop'
        PROVE  sent[inflight'[i].n].drains < launched
    <3>1. i \in 1 .. Len(inflight) - 1 /\ i + 1 \in 1 .. drop
      BY <1>0, <1>2
    <3>2. inflight'[i] = inflight[i + 1]
      BY <1>0, <1>2, <3>1, TailFacts
    <3>3. QED  BY <3>1, <3>2 DEF Discards, Behind
  <2>2. QED  BY <1>0, <2>1 DEF DropsBehind, Behind
<1>8. QED  BY <1>5, <1>6, <1>7, DiscardsAre

LEMMA PassToManifestorDiscards ==
  ASSUME Types, Types', Contents, Contents', Discards, PassToManifestor
  PROVE  Discards'
<1> PICK b : b = hand["DtoM"]
  OBVIOUS
<1>0. /\ UNCHANGED <<sent, inflight, drop, launched, marked, discarding>>
      /\ pc["DtoM"] = "pass" /\ Passed("DtoM", b)
      /\ keep' = [keep EXCEPT !["DtoM"] = TRUE]
  BY DEF PassToManifestor, codecVars, clientVars, At
<1>1. /\ UNCHANGED <<pc["PtoD"], hand["PtoD"], keep["PtoD"]>> /\ keep'["DtoM"]
      /\ IsMarker(b) => pc'["DtoM"] = "finish" /\ hand'["DtoM"] = b
  BY <1>0, FnTypes, ProcessIs DEF Passed, Goto, Left
<1>2. /\ Line[1] = <<b>> /\ Removes(Line, Line', 1, 1)
  BY PassToManifestorLine
<1>3. FlagsMarked'
  <2>1. SUFFICES ASSUME NEW p \in Readers, discarding'[p], marked' = launched'
                 PROVE  \/ MarkerFrom(Start(p), launched)'
                        \/ p = "DtoM" /\ At(p, "finish")' /\ IsMarker(hand[p])'
    BY DEF FlagsMarked
  <2>2. MarkerIn(Line, Start(p), launched) /\ Start(p) \in Parts
    BY <1>0, <2>1, StartIs DEF Discards, At, MarkerFrom
  <2>3. CASE p = "DtoM" /\ IsMarker(b)
    BY <1>1, <2>3 DEF At
  <2>4. CASE p # "DtoM" \/ ~IsMarker(b)
    <3>1. Start(p) > 1 \/ ~IsMarker(Line[1][1])
      BY <1>2, <2>4, StartIs DEF Readers
    <3>2. MarkerIn(Line', Start(p), launched)
      BY <1>2, <2>2, <3>1, LinesNow, RemoveKeepsMarker, PartIs
    <3>3. QED  BY <1>0, <3>2 DEF MarkerFrom
  <2>5. QED  BY <2>3, <2>4
<1>4. HandsBehind' /\ DropsBehind'
  BY <1>0, <1>1, SameBehind, CountTypes DEF Counts
<1>5. QED  BY <1>3, <1>4, DiscardsAre

LEMMA FinishDiscards ==
  ASSUME Types, Types', Contents, Contents', Discards, NEW p \in Processes, Finish(p)
  PROVE  Discards'
<1>0. /\ UNCHANGED <<sent, inflight, drop, launched, marked, keep>>
      /\ pc[p] = "finish" /\ pc' = [pc EXCEPT ![p] = "idle"]
      /\ hand' = [hand EXCEPT ![p] = Nothing]
      /\ discarding' = [discarding EXCEPT ![p] =
                          @ /\ ~(p = "DtoM" /\ IsMarker(hand[p]))]
  BY DEF Finish, codecVars, clientVars, Goto, At
<1>1. /\ discarding'[p] => discarding[p] /\ ~(p = "DtoM" /\ IsMarker(hand[p]))
      /\ pc'[p] = "idle"
      /\ \A q \in Processes : q # p => UNCHANGED <<discarding[q], pc[q], hand[q]>>
  BY <1>0, FnTypes
<1>2. Line' = Line
  BY OtherLines
<1>3. FlagsMarked'
  <2>1. SUFFICES ASSUME NEW q \in Readers, discarding'[q], marked' = launched'
                 PROVE  \/ MarkerFrom(Start(q), launched)'
                        \/ q = "DtoM" /\ At(q, "finish")' /\ IsMarker(hand[q])'
    BY DEF FlagsMarked
  <2>2. discarding[q] /\ marked = launched /\ q \in Processes
    BY <1>0, <1>1, <2>1, PlaceIs
  <2>3. \/ MarkerFrom(Start(q), launched)
        \/ q = "DtoM" /\ At(q, "finish") /\ IsMarker(hand[q])
    BY <2>2 DEF Discards
  <2>4. MarkerFrom(Start(q), launched) => MarkerFrom(Start(q), launched)'
    BY <1>0, <1>2 DEF MarkerFrom
  <2>5. QED  BY <1>1, <2>1, <2>2, <2>3, <2>4 DEF At
<1>4. HandsBehind' /\ DropsBehind'
  <2>1. \A q \in {"PtoD", "DtoM"} : pc'[q] = "pass" => q # p
    BY <1>1
  <2>2. QED  BY <1>0, <1>1, <2>1, SameBehind, ProcessIs, CountTypes DEF Counts
<1>5. QED  BY <1>3, <1>4, DiscardsAre

(* The marker of the last drain stays when nothing but a call leaves.      *)
LEMMA SameButLine ==
  ASSUME Types, Types', Contents, Discards,
         UNCHANGED <<sent, inflight, drop, launched, marked, hand, keep>>,
         \A p \in Processes : UNCHANGED pc[p],
         \A p \in Readers : discarding'[p] => discarding[p],
         \/ Line' = Line
         \/ \E p \in Parts : Removes(Line, Line', p, 1) /\ IsCall(Line[p][1])
         \/ \E p \in Parts : \E b : Adds(Line, Line', p, b)
  PROVE  Discards'
<1>1. ASSUME NEW p \in Readers, MarkerFrom(Start(p), launched)
      PROVE  MarkerFrom(Start(p), launched)'
  <2>1. MarkerIn(Line, Start(p), launched) /\ Start(p) \in Parts
    BY <1>1, StartIs DEF MarkerFrom
  <2>2. ASSUME NEW k \in Parts, Removes(Line, Line', k, 1), IsCall(Line[k][1])
        PROVE  MarkerIn(Line', Start(p), launched)
    BY <2>1, <2>2, LinesNow, RemoveKeepsMarker, Kinds
  <2>3. ASSUME NEW k \in Parts, NEW b, Adds(Line, Line', k, b)
        PROVE  MarkerIn(Line', Start(p), launched)
    BY <2>1, <2>3, LinesNow, AddKeepsMarker
  <2>4. MarkerIn(Line', Start(p), launched)
    BY <2>1, <2>2, <2>3
  <2>5. QED  BY <2>4 DEF MarkerFrom
<1>2. FlagsMarked'
  BY <1>1, DiscardsAre, SameFlags, ProcessIs
<1>3. HandsBehind' /\ DropsBehind'
  BY SameBehind, ProcessIs, CountTypes DEF Counts
<1>4. QED  BY <1>2, <1>3, DiscardsAre

LEMMA LaunchDiscards ==
  ASSUME Types, Types', Contents, Contents', Discards,
         NEW mode \in {"block", "return", "switch"}, NEW discard \in BOOLEAN,
         Launch(mode, discard)
  PROVE  Discards'
<1>0. /\ UNCHANGED <<sent, inflight, drop, marked, hand, keep>>
      /\ pc[Client] = "idle" /\ launched' = launched + 1
      /\ \A p \in Processes : UNCHANGED pc[p]
  BY FnTypes, ProcessIs DEF Launch, codecVars, Goto, At
<1>1. launched = marked /\ launched \in Nat
  BY <1>0, CountTypes DEF Contents, Entering, Counts
<1>2. FlagsMarked'
  BY <1>0, <1>1 DEF FlagsMarked
<1>3. HandsBehind' /\ DropsBehind'
  BY <1>0, <1>1, SameBehind, ProcessIs
<1>4. QED  BY <1>2, <1>3, DiscardsAre

LEMMA DiscardQueuedDecodesDiscards ==
  ASSUME Types, Types', Contents, Contents', Discards, DiscardQueuedDecodes
  PROVE  Discards'
<1>0. /\ UNCHANGED <<sent, inflight, launched, marked, hand, keep, discarding>>
      /\ pc[Client] = "drop" /\ drop' = Len(inflight)
      /\ \A p \in Processes : UNCHANGED pc[p]
  BY FnTypes, ProcessIs DEF DiscardQueuedDecodes, clientVars, Goto, At
<1>1. launched = marked + 1 /\ marked \in Nat
  BY <1>0, CountTypes DEF Contents, Entering, Counts
<1>2. Line' = Line
  BY OtherLines
<1>3. FlagsMarked'
  <2>1. \A p \in Readers : MarkerFrom(Start(p), launched) => MarkerFrom(Start(p), launched)'
    BY <1>0, <1>2 DEF MarkerFrom
  <2>2. QED  BY <1>0, <2>1, DiscardsAre, SameFlags, ProcessIs
<1>4. HandsBehind'
  BY <1>0, <1>1, SameHandsBehind, ProcessIs
<1>5. DropsBehind'
  <2>1. \A i \in 1 .. Len(inflight) : Behind(inflight[i]) \in 0 .. marked
    BY BehindIs
  <2>2. QED  BY <1>0, <1>1, <2>1 DEF DropsBehind, Behind
<1>6. QED  BY <1>3, <1>4, <1>5, DiscardsAre

LEMMA MarkerInsertDiscards ==
  ASSUME Types, Types', Contents, Contents', Discards, MarkerInsert
  PROVE  Discards'
<1> PICK b : b = Marker(launched)
  OBVIOUS
<1>0. /\ UNCHANGED <<sent, inflight, drop, launched, hand, keep, discarding>>
      /\ \A p \in Processes : UNCHANGED pc[p]
  BY FnTypes, ProcessIs DEF MarkerInsert, codecVars, Goto
<1>1. IsMarker(b) /\ b.n = launched /\ Adds(Line, Line', 6, b)
  BY MarkerInsertLine
<1>2. FlagsMarked'
  <2>1. ASSUME NEW p \in Readers  PROVE MarkerFrom(Start(p), launched)'
    <3>1. Start(p) \in Parts /\ Start(p) <= 6
      BY StartIs DEF Readers
    <3>2. MarkerIn(Line', Start(p), launched)
      BY <1>1, <3>1, LinesNow, AddKeepsMarker, PartIs
    <3>3. QED  BY <1>0, <3>2 DEF MarkerFrom
  <2>2. QED  BY <2>1 DEF FlagsMarked
<1>3. HandsBehind' /\ DropsBehind'
  BY <1>0, SameBehind, ProcessIs, CountTypes DEF Counts
<1>4. QED  BY <1>2, <1>3, DiscardsAre

LEMMA CollateDiscards ==
  ASSUME Types, Types', Contents, Contents', Discards, Collate
  PROVE  Discards'
<1> PICK b : b = Frame(Len(sent) + 1)
  OBVIOUS
<1>0. UNCHANGED <<inflight, drop, launched, marked, pc, hand, keep, discarding>>
  BY DEF Collate, codecVars, clientVars, processVars
<1>1. Adds(Line, Line', 6, b) /\ \A i \in 1 .. Len(sent) : sent'[i] = sent[i]
  BY CollateLine
<1>2. FlagsMarked'
  <2>1. ASSUME NEW p \in Readers, MarkerFrom(Start(p), launched)
        PROVE  MarkerFrom(Start(p), launched)'
    <3>1. MarkerIn(Line, Start(p), launched) /\ Start(p) \in Parts
      BY <2>1, StartIs DEF MarkerFrom
    <3>2. MarkerIn(Line', Start(p), launched)
      BY <1>1, <3>1, LinesNow, AddKeepsMarker, PartIs
    <3>3. QED  BY <1>0, <3>2 DEF MarkerFrom
  <2>2. QED  BY <1>0, <2>1, DiscardsAre, SameFlags
<1>3. HandsBehind'
  <2>1. ASSUME NEW p \in {"PtoD", "DtoM"}, pc[p] = "pass", ~keep[p]
        PROVE  IsFrame(hand[p]) /\ sent'[hand[p].n].drains < launched
    <3>1. IsFrame(hand[p]) /\ Behind(hand[p]) < launched
      BY <2>1 DEF Discards, At
    <3>2. AFrame(hand[p])
      BY <2>1, <3>1, Kinds DEF Contents, At, AMarker
    <3>3. QED  BY <1>1, <3>1, <3>2 DEF AFrame, Behind
  <2>2. QED  BY <1>0, <2>1 DEF HandsBehind, At, Behind
<1>4. DropsBehind'
  <2>1. launched \in Nat
    BY CountTypes DEF Counts
  <2>2. \A i \in 1 .. drop : sent'[inflight[i].n].drains = Behind(inflight[i])
    BY <1>1, BehindIs DEF AFrame, Behind
  <2>3. QED  BY <1>0, <2>1, <2>2, DiscardsAre, SameDrops, BehindIs
<1>5. QED  BY <1>2, <1>3, <1>4, DiscardsAre

LEMMA OtherDiscards ==
  ASSUME Types, Types', Contents, Contents', Discards,
         \/ \E p \in Processes : TakeCall(p)
         \/ \E fn \in Functions : CallInSequence(fn)
         \/ PostManifest \/ Manifested \/ ReleaseQueuedDecodeBuffers
         \/ MarkerNumber \/ SwitchCollator \/ WaitForDrainCompletion
         \/ UNCHANGED vars
  PROVE  Discards'
<1>1. ASSUME NEW p \in Processes, TakeCall(p)  PROVE Discards'
  <2>1. UNCHANGED <<sent, inflight, drop, launched, marked, hand, keep, pc, discarding>>
    BY <1>1 DEF TakeCall, codecVars, clientVars
  <2>2. IsCall(Head(ring[p]))
    BY <1>1 DEF TakeCall
  <2>3. \/ Line' = Line
        \/ \E k \in Parts : Removes(Line, Line', k, 1) /\ IsCall(Line[k][1])
    BY <1>1, <2>2, TakeCallLine, PlaceIs, ProcessIs DEF Readers
  <2>4. QED  BY <2>1, <2>3, SameButLine
<1>2. ASSUME NEW fn \in Functions, CallInSequence(fn)  PROVE Discards'
  <2>1. PICK b : b = Call(fn)
    OBVIOUS
  <2>2. /\ UNCHANGED <<sent, inflight, drop, launched, marked, hand, keep, discarding>>
        /\ \A p \in Processes : UNCHANGED pc[p]
    BY <1>2, FnTypes, ProcessIs DEF CallInSequence, codecVars, Goto
  <2>3. \/ Line' = Line
        \/ \E k \in Parts : \E x : Adds(Line, Line', k, x)
    BY <1>2, <2>1, CallLine, DestinationIs, PlaceIs, ProcessIs DEF Readers
  <2>4. QED  BY <2>2, <2>3, SameButLine
<1>3. CASE PostManifest
  <2>1. /\ UNCHANGED <<sent, inflight, drop, launched, marked, hand, keep, pc>>
        /\ \A p \in Readers : discarding'[p] => discarding[p]
    BY <1>3, FnTypes, ProcessIs DEF PostManifest, codecVars, clientVars, Readers
  <2>2. QED  BY <1>3, <2>1, SameButLine, OtherLines
<1>4. CASE Manifested \/ UNCHANGED vars
  <2>1. UNCHANGED <<sent, inflight, drop, launched, marked, hand, keep, pc, discarding>>
    BY <1>4 DEF Manifested, codecVars, clientVars, vars, processVars
  <2>2. QED  BY <1>4, <2>1, SameButLine, OtherLines
<1>5. CASE ReleaseQueuedDecodeBuffers \/ MarkerNumber \/ SwitchCollator \/ WaitForDrainCompletion
  <2>1. UNCHANGED <<sent, inflight, drop, launched, marked, hand, keep, discarding>>
    BY <1>5 DEF ReleaseQueuedDecodeBuffers, MarkerNumber, SwitchCollator,
                WaitForDrainCompletion, codecVars, clientVars
  <2>2. PICK l : Goto(Client, l)
    BY <1>5 DEF ReleaseQueuedDecodeBuffers, MarkerNumber, SwitchCollator,
                WaitForDrainCompletion
  <2>3. \A p \in Processes : UNCHANGED pc[p]
    BY <2>2, FnTypes, ProcessIs DEF Goto
  <2>4. QED  BY <1>5, <2>1, <2>3, SameButLine, OtherLines
<1>6. QED  BY <1>1, <1>2, <1>3, <1>4, <1>5

LEMMA DiscardsNext ==
  ASSUME Types, Types', Contents, Contents', InOrder(sent, Line), Discards, [Next]_vars
  PROVE  Discards'
BY CollateToParseDiscards, TakeDiscards, PassToCodecDiscards, DecodeCompleteDiscards,
   PassToManifestorDiscards, FinishDiscards, LaunchDiscards,
   DiscardQueuedDecodesDiscards, MarkerInsertDiscards, CollateDiscards, OtherDiscards
   DEF Next, ProcessStep, ClientStep

LEMMA KInit ==
  ASSUME StreamAssumption, Init  PROVE KInv
<1>1. Types /\ Contents
  BY TypesInit, ContentsInit
<1>2. /\ pc = [t \in Processes \cup {Client} |-> "idle"]
      /\ ring = [p \in Processes |-> << >>] /\ inflight = << >> /\ held = Nothing
      /\ drop = 0 /\ discarding = [p \in Processes |-> FALSE]
  BY DEF Init
<1>3. \A k \in Parts : Len(Line[k]) = 0
  <2>1. Codec = << >>
    <3>1. Len(Codec) = 0 /\ Codec \in Seq(Buffer)
      BY <1>1, <1>2, CodecIs DEF CodecFits, Held
    <3>2. QED  BY <3>1
  <2>2. InHand("DtoM") = << >> /\ InHand("PtoD") = << >>
    BY <1>2, ProcessIs DEF InHand, At
  <2>3. QED  BY <1>2, <2>1, <2>2, LineIs, PartIs, ProcessIs
<1>4. InOrder(sent, Line)
  BY <1>3 DEF InOrder
<1>5. Discards
  BY <1>2, ProcessIs DEF Discards, Readers, At
<1>6. QED  BY <1>1, <1>4, <1>5 DEF KInv

LEMMA KNext ==
  ASSUME StreamAssumption, KInv, [Next]_vars  PROVE KInv'
<1>1. Types /\ Contents /\ InOrder(sent, Line) /\ Discards
  BY DEF KInv
<1>2. Types'
  BY <1>1, TypesNext
<1>3. Contents'
  BY <1>1, <1>2, ContentsNext
<1>4. InOrder(sent', Line') /\ Discards'
  BY <1>1, <1>2, <1>3, OrderNext, DiscardsNext
<1>5. QED  BY <1>2, <1>3, <1>4 DEF KInv

LEMMA KAlways == Spec => []KInv
<1>1. Init => KInv
  BY KInit, StreamAssumption
<1>2. KInv /\ [Next]_vars => KInv'
  BY KNext, StreamAssumption
<1>3. QED  BY <1>1, <1>2, PTL DEF Spec

(* What a drain discards was injected before its marker (BehindMarkerIsKept): *)
(* InternalDrainStream sets the flags before it inserts the marker, and a  *)
(* process that discards has the marker before it, or the client has yet   *)
(* to insert it (player_playback.cpp:981-1041).                            *)
THEOREM BehindMarkerKept == Spec => []BehindMarkerIsKept
<1>1. KInv => BehindMarkerIsKept
  <2>1. SUFFICES ASSUME KInv  PROVE BehindMarkerIsKept
    OBVIOUS
  <2>2. Types /\ Discards
    BY <2>1 DEF KInv
  <2>3. \A p \in Processes : pc[p] = "pass" => p \in {"PtoD", "DtoM"}
    BY <2>2, TypesAre, ProcessIs DEF PlaceTypes
  <2>4. QED  BY <2>2, <2>3 DEF BehindMarkerIsKept, Discards, Behind, At
<1>2. QED  BY <1>1, KAlways, PTL

-----------------------------------------------------------------------------
(* A client that is patient: there is one marker at most, of the last      *)
(* drain.  What is After it has left the line.                             *)
SomeMarker(k) == \E m \in From(Line, k) : IsMarker(m)
Queued  == Items(display) \cup Items(ring["PostM"])
Markers == {m \in From(Line, 1) \cup Items(ring["PostM"]) : IsMarker(m)}
After(b) == IsMarker(b) \/ (IsFrame(b) /\ Behind(b) = marked)

MarkersLast == \A m \in Markers : m.n = marked
LineBehind  == \A f \in From(Line, 1) : IsFrame(f) =>
                 Behind(f) >= marked - 1 /\ (SomeMarker(1) \/ Behind(f) = marked)
QueuedBefore == SomeMarker(1) => \A x \in Queued : ~After(x)
QueueOrdered ==
  \A i, j \in 1 .. Len(ring["PostM"]) :
    i < j /\ After(ring["PostM"][i]) => ~IsMarker(ring["PostM"][j])

OneMarker == MarkersLast /\ LineBehind /\ QueuedBefore /\ QueueOrdered

(* The calls that are to be made.                                          *)
Tables(p)  == before[p] \cup after[p]
Pending(p) == {c \in Items(ring[p]) : IsCall(c)} \cup Tables(p)
Base(c)    == IF c.kind = "SwitchComplete" THEN c.seq - 1 ELSE c.seq
Calling    == pc[Client] \notin Entering \cup {"idle"}

DrainsComplete ==
  /\ drained => /\ Markers = {}
                /\ \A c \in Pending("PostM") : c.kind # "SetDrained"
                /\ pc[Client] \notin {"ResetTimeMapping", "SetDrained"}
  /\ pc[Client] \in Entering => drained \/ marked = 0
  /\ \A c \in Pending("PostM") : c.kind = "SetDrained" => c.n = marked

(* Calls of one kind are made once for each drain.                         *)
Afterwards(fn) ==
  CASE fn = "ResetTimeMapping" -> {"SetDrained", "collator", "wait", "idle",
         "SwitchFrameParser", "SwitchCodec", "SwitchOutputTimer", "SwitchComplete"}
    [] fn = "SetDrained" -> {"collator", "wait", "idle",
         "SwitchFrameParser", "SwitchCodec", "SwitchOutputTimer", "SwitchComplete"}
    [] fn = "SwitchFrameParser" -> {"SwitchCodec", "SwitchOutputTimer", "SwitchComplete", "idle"}
    [] fn = "SwitchCodec" -> {"SwitchOutputTimer", "SwitchComplete", "idle"}
    [] fn = "SwitchOutputTimer" -> {"SwitchComplete", "idle"}
    [] fn = "SwitchComplete" -> {"idle"}

CallsOrdered(q) ==
  \A i, j \in 1 .. Len(q) :
    i < j /\ IsCall(q[i]) /\ q[i].kind = q[j].kind => q[i].n < q[j].n
CallsOnce ==
  \A p \in Processes :
    /\ CallsOrdered(ring[p])
    /\ \A c \in Tables(p), x \in Items(ring[p]) : x.kind = c.kind => c.n < x.n
    /\ \A c \in Pending(p) : c.n = launched => pc[Client] \in Afterwards(c.kind)

(* The numbers of drains: their markers' and their calls'.                 *)
Known ==
  (UNION {{<<c.n, Base(c)>> : c \in Pending(p)} : p \in Processes})
    \cup {<<m.n, m.seq>> : m \in Markers}
    \cup (IF Calling THEN {<<launched, drain.seq>>} ELSE {})

Lower(Q) == UNION {Items(Q[k]) : k \in Parts \ {6}}
Numbered == {f \in Lower(Line) \cup Queued : IsFrame(f)}

(* A marker that CtoP has yet to meet leaves room for the frames before it. *)
Room(s) ==
  /\ s >= next + MaxFrames - Len(sent)
  /\ \A f \in Items(ring["CtoP"]) : IsFrame(f) => s >= next + MaxFrames + 1 - f.n

Numbers ==
  /\ next = seen["CtoP"] + 1
  /\ \A p \in Processes : seen[p] < next
  /\ \A f \in Numbered : f.seq < next
  /\ \A m \in Items(ring["CtoP"]) : IsMarker(m) => Room(m.seq)
  /\ At(Client, "insert") => Room(drain.seq)

(* What was injected before a marker has numbers below the marker's.       *)
Apart(k)  == \A f \in Numbered : \/ Behind(f) >= k[1] /\ f.seq > k[2]
                                 \/ Behind(f) < k[1] /\ f.seq < k[2]
Ahead(k)  == \A p \in Readers : seen[p] < k[2] => MarkerFrom(Place(p), k[1])
Met(k)    == k[1] = marked =>
               /\ \A p \in Readers : seen[p] >= k[2] => ~SomeMarker(Place(p))
               /\ seen["PostM"] >= k[2] => Markers = {}
Agree ==
  \A k \in Known :
    /\ k[1] \in 1 .. marked
    /\ \A l \in Known : k[1] = l[1] => k[2] = l[2]
    /\ Apart(k) /\ Ahead(k) /\ Met(k)

PInv == KInv /\ OneMarker /\ DrainsComplete /\ CallsOnce /\ Numbers /\ Agree

-----------------------------------------------------------------------------
(* What a step leaves in the line: behind any place where a process reads, *)
(* no marker comes from nowhere, and only the head g of part k is lost;    *)
(* frames that have a number keep it, but for a new one, f.                *)
Reads == {1, 2, 5, 6}
Kept(Q, R, k, f) ==
  /\ \A h \in Reads : \A x \in From(R, h) :
       /\ IsMarker(x) => x \in From(Q, h)
       /\ IsFrame(x) => \E y \in From(Q, h) : IsFrame(y) /\ y.n = x.n
  /\ \A h \in Reads : \A m \in From(Q, h) :
       IsMarker(m) => m \in From(R, h) \/ (h = k /\ m = Q[k][1])
  /\ \A x \in Lower(R) : IsFrame(x) => x \in Lower(Q) \/ x = f

LEMMA ReadsAreParts == \A h \in Reads : h \in Parts /\ h \in Int
BY PartIs DEF Reads

LEMMA LowerIs ==
  ASSUME NEW Q, NEW x
  PROVE  x \in Lower(Q) <=> \E k \in Parts \ {6} : x \in Items(Q[k])
BY DEF Lower

LEMMA RemoveKeeps ==
  ASSUME NEW Q \in Lines, NEW R \in Lines, NEW k \in Parts, NEW j,
         Removes(Q, R, k, j), ~IsMarker(Q[k][j]) \/ (k = 1 /\ j = 1)
  PROVE  IF IsMarker(Q[k][j]) THEN Kept(Q, R, 1, Nothing) ELSE Kept(Q, R, 0, Nothing)
<1>1. ASSUME NEW h \in Reads, NEW x \in From(R, h)
      PROVE  /\ IsMarker(x) => x \in From(Q, h)
             /\ IsFrame(x) => \E y \in From(Q, h) : IsFrame(y) /\ y.n = x.n
  BY FromRemoved, ReadsAreParts
<1>2. ASSUME NEW h \in Reads, NEW m \in From(Q, h), IsMarker(m), ~IsMarker(Q[k][j])
      PROVE  m \in From(R, h)
  BY <1>2, FromRemoved
<1>3. ASSUME NEW h \in Reads, NEW m \in From(Q, h), IsMarker(m), k = 1, j = 1
      PROVE  m \in From(R, h) \/ (h = 1 /\ m = Q[1][1])
  <2>1. CASE h = 1
    BY <1>3, <2>1, FromRemoved
  <2>2. CASE h # 1
    <3>1. PICK i \in Parts : i >= h /\ m \in Items(Q[i])
      BY FromPart
    <3>2. i # 1
      BY <2>2, <3>1, PartsAreNumbers DEF Reads
    <3>3. R[i] = Q[i]
      BY <1>3, <3>2 DEF Removes
    <3>4. QED  BY <3>1, <3>3, FromPart
  <2>3. QED  BY <2>1, <2>2
<1>4. ASSUME NEW x \in Lower(R)  PROVE x \in Lower(Q)
  <2>1. PICK i \in Parts \ {6} : x \in Items(R[i])
    BY LowerIs
  <2>2. Items(R[i]) \subseteq Items(Q[i])
    BY RemovedItems
  <2>3. QED  BY <2>1, <2>2, LowerIs
<1>5. QED  BY <1>1, <1>2, <1>3, <1>4 DEF Kept

LEMMA MoveKeeps ==
  ASSUME NEW Q \in Lines, NEW R \in Lines, NEW k \in Parts, NEW l \in Parts, NEW b,
         Moves(Q, R, k, l, b), b = Q[k][1] \/ (k = 6 /\ ~IsMarker(b)),
         NEW g, \/ g = k /\ l = k - 1
                \/ g = 0 /\ \A h \in Reads : h <= l \/ h > k,
         NEW f, k # 6 \/ f = b
  PROVE  Kept(Q, R, g, f)
<1>0. l < k /\ b.kind = Q[k][1].kind /\ b.n = Q[k][1].n
  BY DEF Moves
<1>1. ASSUME NEW h \in Reads, NEW x \in From(R, h)
      PROVE  /\ IsMarker(x) => x \in From(Q, h)
             /\ IsFrame(x) => \E y \in From(Q, h) : IsFrame(y) /\ y.n = x.n
  <2>1. x \in From(Q, h) \/ (x = b /\ h <= l)
    BY FromMoved, ReadsAreParts
  <2>2. CASE x = b /\ h <= l
    <3>1. Q[k][1] \in From(Q, h)
      BY <1>0, <2>2, FromMoved, ReadsAreParts, PartsAreNumbers
    <3>2. QED  BY <1>0, <2>2, <3>1 DEF IsFrame, IsMarker
  <2>3. QED  BY <2>1, <2>2
<1>2. ASSUME NEW h \in Reads, NEW m \in From(Q, h), IsMarker(m)
      PROVE  m \in From(R, h) \/ (h = g /\ m = Q[g][1])
  <2>0. h \in Parts /\ h \in Int /\ k \in Int /\ l \in Int
    BY ReadsAreParts, PartsAreNumbers
  <2>1. CASE m # Q[k][1]
    BY <2>0, <2>1, FromMoved
  <2>2. CASE m = Q[k][1] /\ h <= l
    <3>1. b = m
      BY <1>0, <1>2, <2>2 DEF IsMarker
    <3>2. QED  BY <2>0, <2>2, <3>1, FromMoved
  <2>3. CASE h > k
    <3>1. PICK i \in Parts : i >= h /\ m \in Items(Q[i])
      BY FromPart
    <3>2. i # k /\ i # l
      BY <1>0, <2>0, <2>3, <3>1, PartsAreNumbers
    <3>3. R[i] = Q[i]
      BY <3>2 DEF Moves
    <3>4. QED  BY <3>1, <3>3, FromPart
  <2>4. CASE m = Q[k][1] /\ h > l /\ ~(h > k)
    <3>1. g = k /\ l = k - 1
      BY <2>0, <2>4
    <3>2. h = k
      BY <2>0, <2>4, <3>1
    <3>3. QED  BY <2>4, <3>1, <3>2
  <2>5. h <= l \/ h > l
    BY <2>0
  <2>6. QED  BY <2>1, <2>2, <2>3, <2>4, <2>5
<1>3. ASSUME NEW x \in Lower(R)  PROVE x \in Lower(Q) \/ x = f
  <2>1. PICK i \in Parts \ {6} : x \in Items(R[i])
    BY LowerIs
  <2>2. CASE i = l
    <3>1. Items(R[l]) = Items(Q[l]) \cup {b}
      BY LineFacts, ItemsAppend DEF Moves
    <3>2. k # 6 => b \in Items(Q[k])
      BY LineFacts, ItemsTail, TailFacts DEF Moves
    <3>3. QED  BY <2>1, <2>2, <3>1, <3>2, LowerIs
  <2>3. CASE i = k
    <3>1. Items(R[k]) \subseteq Items(Q[k])
      BY LineFacts, ItemsTail DEF Moves
    <3>2. QED  BY <2>1, <2>3, <3>1, LowerIs
  <2>4. CASE i # l /\ i # k
    BY <2>1, <2>4, LowerIs DEF Moves
  <2>5. QED  BY <2>2, <2>3, <2>4
<1>4. QED  BY <1>1, <1>2, <1>3 DEF Kept

LEMMA KeptSame ==
  ASSUME NEW Q  PROVE Kept(Q, Q, 0, Nothing)
BY DEF Kept

LEMMA KeptAny ==
  ASSUME NEW Q, NEW R, Kept(Q, R, 0, Nothing), NEW k, NEW f
  PROVE  Kept(Q, R, k, f)
<1>1. 0 \notin Reads
  BY DEF Reads
<1>2. \A x : IsFrame(x) => x # Nothing
  BY Kinds
<1>3. QED  BY <1>1, <1>2 DEF Kept

LEMMA KeptTwice ==
  ASSUME NEW Q, NEW M, NEW R, Kept(Q, M, 0, Nothing), Kept(M, R, 0, Nothing)
  PROVE  Kept(Q, R, 0, Nothing)
<1>1. 0 \notin Reads
  BY DEF Reads
<1>2. \A x : IsFrame(x) => x # Nothing
  BY Kinds
<1>3. ASSUME NEW h \in Reads, NEW x \in From(R, h)
      PROVE  /\ IsMarker(x) => x \in From(Q, h)
             /\ IsFrame(x) => \E y \in From(Q, h) : IsFrame(y) /\ y.n = x.n
  <2>1. IsFrame(x) => \E z \in From(M, h) : IsFrame(z) /\ z.n = x.n
    BY DEF Kept
  <2>2. \A z \in From(M, h) : IsFrame(z) => \E y \in From(Q, h) : IsFrame(y) /\ y.n = z.n
    BY DEF Kept
  <2>3. IsMarker(x) => x \in From(Q, h)
    BY DEF Kept
  <2>4. QED  BY <2>1, <2>2, <2>3
<1>4. \A h \in Reads : \A m \in From(Q, h) : IsMarker(m) => m \in From(R, h)
  BY <1>1 DEF Kept
<1>5. \A x \in Lower(R) : IsFrame(x) => x \in Lower(Q)
  BY <1>2 DEF Kept
<1>6. QED  BY <1>3, <1>4, <1>5 DEF Kept

LEMMA KeptAdded ==
  ASSUME NEW Q \in Lines, NEW R \in Lines, NEW k \in Parts, NEW c, Adds(Q, R, k, c), IsCall(c)
  PROVE  Kept(Q, R, 0, Nothing)
<1>1. ~IsFrame(c) /\ ~IsMarker(c)
  BY Kinds
<1>2. \A h \in Reads : /\ \A x \in From(R, h) : x \in From(Q, h) \/ x = c
                       /\ From(Q, h) \subseteq From(R, h)
  BY FromAdded, ReadsAreParts
<1>3. \A x \in Lower(R) : x \in Lower(Q) \/ x = c
  <2>1. TAKE x \in Lower(R)
  <2>2. PICK i \in Parts \ {6} : x \in Items(R[i])
    BY LowerIs
  <2>3. Items(R[k]) = Items(Q[k]) \cup {c} /\ (i # k => R[i] = Q[i])
    BY LineFacts, ItemsAppend DEF Adds
  <2>4. QED  BY <2>2, <2>3, LowerIs
<1>4. QED  BY <1>1, <1>2, <1>3 DEF Kept

LEMMA KeptCollateToParse ==
  ASSUME Types, Types', Contents, CollateToParse,
         NEW b, b = IF IsFrame(Head(ring["CtoP"])) THEN [Head(ring["CtoP"]) EXCEPT !.seq = next]
                    ELSE Head(ring["CtoP"])
  PROVE  Kept(Line, Line', 6, b)
<1>1. /\ Line[6][1] = Head(ring["CtoP"]) /\ b.kind = Line[6][1].kind
      /\ IF discarding["CtoP"] /\ ~IsMarker(b) THEN Removes(Line, Line', 6, 1)
         ELSE Moves(Line, Line', 6, 5, b)
  BY CollateToParseLine
<1>2. CASE Removes(Line, Line', 6, 1) /\ ~IsMarker(b)
  <2>1. Kept(Line, Line', 0, Nothing)
    BY <1>1, <1>2, LinesNow, RemoveKeeps, PartIs DEF IsMarker
  <2>2. QED  BY <2>1, KeptAny
<1>3. CASE Moves(Line, Line', 6, 5, b)
  <2>1. b = Line[6][1] \/ ~IsMarker(b)
    <3>1. IsFrame(Head(ring["CtoP"])) => IsFrame(b)
      BY <1>1 DEF IsFrame
    <3>2. QED  BY <1>1, <3>1, Kinds
  <2>2. QED  BY <1>3, <2>1, LinesNow, MoveKeeps, PartIs
<1>4. QED  BY <1>1, <1>2, <1>3

LEMMA KeptTake ==
  ASSUME Types, Types', Contents, NEW p \in Processes, Take(p)
  PROVE  Kept(Line, Line', Place(p), Nothing)
<1> PICK b : b = Head(ring[p])
  OBVIOUS
<1>1. /\ p \in {"PtoD", "DtoM"} /\ Line[Place(p)][1] = b
      /\ p = "PtoD" => Moves(Line, Line', 5, 4, b)
      /\ p = "DtoM" => Moves(Line, Line', 2, 1, b)
  BY TakeLine
<1>2. CASE p = "PtoD"
  BY <1>1, <1>2, LinesNow, MoveKeeps, PartIs, PlaceIs
<1>3. CASE p = "DtoM"
  BY <1>1, <1>3, LinesNow, MoveKeeps, PartIs, PlaceIs
<1>4. QED  BY <1>1, <1>2, <1>3

LEMMA KeptPassToManifestor ==
  ASSUME Types, Types', PassToManifestor
  PROVE  /\ Kept(Line, Line', 1, Nothing)
         /\ ~IsMarker(hand["DtoM"]) => Kept(Line, Line', 0, Nothing)
BY LinesNow, PassToManifestorLine, RemoveKeeps, KeptAny, PartIs

LEMMA KeptPassToCodec ==
  ASSUME Types, Types', Contents, InOrder(sent, Line), Discards, MarkersLast, PassToCodec
  PROVE  Kept(Line, Line', 0, Nothing)
<1> PICK b : b = hand["PtoD"]
  OBVIOUS
<1>1. /\ Line[4] = <<b>> /\ (AFrame(b) \/ AMarker(b))
      /\ ~keep["PtoD"] => Removes(Line, Line', 4, 1)
      /\ keep["PtoD"] /\ IsFrame(b) => Moves(Line, Line', 4, 3, b)
      /\ keep["PtoD"] /\ ~IsFrame(b) /\ inflight = << >> => Moves(Line, Line', 4, 2, b)
      /\ keep["PtoD"] /\ ~IsFrame(b) /\ inflight # << >> => Moves(Bare, Line', 4, 3, b)
  BY PassToCodecLine
<1>2. ASSUME Moves(Line, Line', 4, 3, b) \/ Moves(Line, Line', 4, 2, b)
      PROVE  Kept(Line, Line', 0, Nothing)
  <2>1. /\ \A h \in Reads : h <= 3 \/ h > 4
        /\ \A h \in Reads : h <= 2 \/ h > 4
        /\ Line[4][1] = b
    BY <1>1 DEF Reads
  <2>2. CASE Moves(Line, Line', 4, 3, b)
    BY <2>1, <2>2, LinesNow, MoveKeeps, PartIs
  <2>3. CASE Moves(Line, Line', 4, 2, b)
    BY <2>1, <2>3, LinesNow, MoveKeeps, PartIs
  <2>4. QED  BY <1>2, <2>2, <2>3
<1>3. CASE ~keep["PtoD"]
  <2>1. IsFrame(b)
    BY <1>3 DEF Discards, PassToCodec
  <2>2. Removes(Line, Line', 4, 1) /\ ~IsMarker(Line[4][1])
    BY <1>1, <1>3, <2>1, Kinds
  <2>3. QED  BY <2>2, LinesNow, RemoveKeeps, PartIs
<1>4. CASE ~IsFrame(b) /\ Moves(Bare, Line', 4, 3, b)
  <2>1. held = Nothing
    <3>1. SUFFICES ASSUME held # Nothing  PROVE FALSE
      OBVIOUS
    <3>2. /\ Line[3][ahead + 1] = held /\ ahead + 1 \in 1 .. Len(Line[3])
      BY <3>1, BareLine DEF Removes
    <3>3. AMarker(b) /\ AMarker(held)
      BY <1>1, <1>4, <3>1 DEF AFrame, Contents
    <3>4. 1 \in 1 .. Len(Line[4]) /\ Line[4][1] = b
      BY <1>1
    <3>5. held.n < b.n
      <4>1. Precedes(sent, held, b)
        BY <3>2, <3>4, PartIs DEF InOrder
      <4>2. QED  BY <3>3, <4>1 DEF Precedes, AMarker
    <3>6. held \in From(Line, 1) /\ b \in From(Line, 1)
      <4>1. 3 >= 1 /\ 4 >= 1
        OBVIOUS
      <4>2. Line[3][ahead + 1] \in From(Line, 1) /\ Line[4][1] \in From(Line, 1)
        BY <3>2, <3>4, <4>1, FromHas, PartIs
      <4>3. QED  BY <3>2, <3>4, <4>2
    <3>7. held.n = marked /\ b.n = marked
      BY <3>3, <3>6 DEF MarkersLast, Markers, AMarker
    <3>8. marked \in Nat
      BY CountTypes DEF Counts
    <3>9. QED  BY <3>5, <3>7, <3>8
  <2>2. Bare = Line
    BY <2>1, BareLine
  <2>3. QED  BY <1>2, <1>4, <2>2
<1>5. QED  BY <1>1, <1>2, <1>3, <1>4

LEMMA KeptDecodeComplete ==
  ASSUME Types, Types', Contents, DecodeComplete
  PROVE  Kept(Line, Line', 0, Nothing)
<1>1. /\ Line[3] # << >> /\ Line[3][1] = inflight[1] /\ Mid \in Lines
      /\ Removes(Line, Mid, 3, 1) \/ Moves(Line, Mid, 3, 2, inflight[1])
      /\ (Mid[3][1] = held /\ Moves(Mid, Line', 3, 2, held)) \/ Line' = Mid
  BY DecodeCompleteLine
<1>2. ~IsMarker(Line[3][1])
  <2>1. inflight # << >> /\ inflight \in Seq(Buffer)
    BY FnTypes DEF DecodeComplete
  <2>2. 1 \in 1 .. Len(inflight)
    BY <2>1
  <2>3. QED  BY <1>1, <2>2, BehindIs, Kinds DEF AFrame
<1>3. \A h \in Reads : h <= 2 \/ h > 3
  BY DEF Reads
<1>4. Kept(Line, Mid, 0, Nothing)
  <2>1. CASE Removes(Line, Mid, 3, 1)
    BY <1>1, <1>2, <2>1, LinesNow, RemoveKeeps, PartIs
  <2>2. CASE Moves(Line, Mid, 3, 2, inflight[1])
    BY <1>1, <1>3, <2>2, LinesNow, MoveKeeps, PartIs
  <2>3. QED  BY <1>1, <2>1, <2>2
<1>5. Kept(Mid, Line', 0, Nothing)
  <2>1. CASE Mid[3][1] = held /\ Moves(Mid, Line', 3, 2, held)
    BY <1>1, <1>3, <2>1, LinesNow, MoveKeeps, PartIs
  <2>2. CASE Line' = Mid
    BY <2>2, KeptSame
  <2>3. QED  BY <1>1, <2>1, <2>2
<1>6. QED  BY <1>4, <1>5, KeptTwice

(* The other steps of the processes and of the client.                     *)
LEMMA KeptOther ==
  ASSUME Types, Types', Contents,
         \/ \E p \in Processes : Finish(p) \/ TakeCall(p)
         \/ \E fn \in Functions : CallInSequence(fn)
         \/ PostManifest \/ Manifested
         \/ \E mode \in {"block", "return", "switch"}, discard \in BOOLEAN : Launch(mode, discard)
         \/ DiscardQueuedDecodes \/ ReleaseQueuedDecodeBuffers \/ MarkerNumber
         \/ SwitchCollator \/ WaitForDrainCompletion
         \/ UNCHANGED vars
  PROVE  Kept(Line, Line', 0, Nothing)
<1>1. ASSUME NEW p \in Processes, TakeCall(p)  PROVE Kept(Line, Line', 0, Nothing)
  <2>1. IsCall(Head(ring[p]))
    BY <1>1 DEF TakeCall
  <2>2. CASE p = "PostM"
    BY <1>1, <2>2, TakeCallLine, KeptSame
  <2>3. CASE p \in Readers
    <3>1. Removes(Line, Line', Place(p), 1) /\ ~IsMarker(Line[Place(p)][1])
      BY <1>1, <2>1, <2>3, TakeCallLine, Kinds
    <3>2. QED  BY <2>3, <3>1, LinesNow, RemoveKeeps, PlaceIs
  <2>4. QED  BY <2>2, <2>3, ProcessIs DEF Readers
<1>2. ASSUME NEW fn \in Functions, CallInSequence(fn)  PROVE Kept(Line, Line', 0, Nothing)
  <2>1. PICK b : b = Call(fn)
    OBVIOUS
  <2>2. /\ IsCall(b)
        /\ Destination(fn) = "PostM" => Line' = Line
        /\ Destination(fn) \in Readers => Adds(Line, Line', Place(Destination(fn)), b)
    BY <1>2, <2>1, CallLine
  <2>3. Destination(fn) = "PostM" \/ Destination(fn) \in Readers
    BY DestinationIs, ProcessIs DEF Readers
  <2>4. QED  BY <2>2, <2>3, LinesNow, KeptAdded, KeptSame, PlaceIs
<1>3. CASE Line' = Line
  BY <1>3, KeptSame
<1>4. QED  BY <1>1, <1>2, <1>3, OtherLines

-----------------------------------------------------------------------------
(* There is one marker.                                                    *)
Ordered(q) == \A i, j \in 1 .. Len(q) : i < j /\ After(q[i]) => ~IsMarker(q[j])

LEMMA OrderedTail ==
  ASSUME NEW B, NEW q \in Seq(B), q # << >>, Ordered(q)
  PROVE  Ordered(Tail(q))
<1>1. SUFFICES ASSUME NEW i \in 1 .. Len(Tail(q)), NEW j \in 1 .. Len(Tail(q)), i < j,
                      After(Tail(q)[i])
               PROVE  ~IsMarker(Tail(q)[j])
  BY DEF Ordered
<1>2. /\ i + 1 \in 1 .. Len(q) /\ j + 1 \in 1 .. Len(q) /\ i + 1 < j + 1
      /\ Tail(q)[i] = q[i + 1] /\ Tail(q)[j] = q[j + 1]
  BY <1>1, TailFacts
<1>3. QED  BY <1>1, <1>2 DEF Ordered

LEMMA OrderedAppend ==
  ASSUME NEW B, NEW q \in Seq(B), NEW b \in B, Ordered(q),
         ~IsMarker(b) \/ \A x \in Items(q) : ~After(x)
  PROVE  Ordered(Append(q, b))
<1>0. /\ Len(Append(q, b)) = Len(q) + 1 /\ Len(q) \in Nat
      /\ Append(q, b)[Len(q) + 1] = b
      /\ \A i \in 1 .. Len(q) : Append(q, b)[i] = q[i] /\ q[i] \in Items(q)
  BY AppendFacts, ItemsAre
<1>1. SUFFICES ASSUME NEW i \in 1 .. Len(q) + 1, NEW j \in 1 .. Len(q) + 1, i < j,
                      After(Append(q, b)[i])
               PROVE  ~IsMarker(Append(q, b)[j])
  BY <1>0 DEF Ordered
<1>2. i \in 1 .. Len(q) /\ (j \in 1 .. Len(q) \/ j = Len(q) + 1)
  BY <1>0, <1>1
<1>3. CASE j \in 1 .. Len(q)
  <2>1. After(q[i]) /\ Append(q, b)[j] = q[j]
    BY <1>0, <1>1, <1>2, <1>3
  <2>2. QED  BY <1>1, <1>2, <1>3, <2>1 DEF Ordered
<1>4. CASE j = Len(q) + 1
  <2>1. After(q[i]) /\ q[i] \in Items(q) /\ Append(q, b)[j] = b
    BY <1>0, <1>1, <1>2, <1>4
  <2>2. QED  BY <2>1
<1>5. QED  BY <1>2, <1>3, <1>4

LEMMA OrderedConcat ==
  ASSUME NEW B, NEW q \in Seq(B), NEW t \in Seq(B), Ordered(q),
         \A x \in Items(t) : ~IsMarker(x)
  PROVE  Ordered(q \o t)
<1>0. /\ Len(q \o t) = Len(q) + Len(t) /\ Len(q) \in Nat /\ Len(t) \in Nat
      /\ \A i \in 1 .. Len(q) : (q \o t)[i] = q[i]
      /\ \A i \in Len(q) + 1 .. Len(q) + Len(t) : (q \o t)[i] = t[i - Len(q)]
  OBVIOUS
<1>1. SUFFICES ASSUME NEW i \in 1 .. Len(q) + Len(t), NEW j \in 1 .. Len(q) + Len(t), i < j,
                      After((q \o t)[i])
               PROVE  ~IsMarker((q \o t)[j])
  BY <1>0 DEF Ordered
<1>2. CASE j \in 1 .. Len(q)
  <2>1. i \in 1 .. Len(q)
    BY <1>0, <1>1, <1>2
  <2>2. After(q[i]) /\ (q \o t)[j] = q[j]
    BY <1>0, <1>1, <1>2, <2>1
  <2>3. QED  BY <1>1, <1>2, <2>1, <2>2 DEF Ordered
<1>3. CASE j \in Len(q) + 1 .. Len(q) + Len(t)
  <2>1. j - Len(q) \in 1 .. Len(t) /\ (q \o t)[j] = t[j - Len(q)]
    BY <1>0, <1>3
  <2>2. QED  BY <2>1, ItemsAre
<1>4. QED  BY <1>0, <1>2, <1>3

LEMMA SameOrdered ==
  ASSUME UNCHANGED <<sent, marked>>, NEW q, ring'["PostM"] = q, Ordered(q)
  PROVE  QueueOrdered'
BY DEF QueueOrdered, Ordered, After, Behind

LEMMA SomeMarkerKept ==
  ASSUME NEW k, NEW f, Kept(Line, Line', k, f)
  PROVE  /\ SomeMarker(1)' => SomeMarker(1)
         /\ k # 1 /\ SomeMarker(1) => SomeMarker(1)'
BY DEF Kept, SomeMarker, Reads

LEMMA MarkersAre ==
  ASSUME Contents
  PROVE  /\ \A m \in Queued : IsMarker(m) => m \in Markers
         /\ \A m \in Markers : m \in From(Line, 1) \/ m \in Queued
         /\ SomeMarker(1) => Markers # {}
<1>1. \A m \in Items(display) : ~IsMarker(m)
  BY Kinds DEF Contents, AFrame
<1>2. QED  BY <1>1 DEF Queued, Markers, SomeMarker

(* A step that takes no marker from the line and puts nothing into the     *)
(* queues but calls.                                                       *)
LEMMA OneMarkerKept ==
  ASSUME Types, Types', Contents, Contents', OneMarker, UNCHANGED <<sent, marked>>,
         NEW k, NEW f, Kept(Line, Line', k, f), k # 1,
         \A x \in Queued' : x \in Queued \/ IsCall(x), QueueOrdered'
  PROVE  OneMarker'
<1>1. (SomeMarker(1)' => SomeMarker(1)) /\ (SomeMarker(1) => SomeMarker(1)')
  BY SomeMarkerKept
<1>2. MarkersLast'
  <2>1. \A m \in From(Line', 1) : IsMarker(m) => m \in From(Line, 1)
    BY DEF Kept, Reads
  <2>2. \A m \in Items(ring'["PostM"]) : IsMarker(m) => m \in Markers
    BY MarkersAre, Kinds DEF Queued
  <2>3. QED  BY <2>1, <2>2 DEF MarkersLast, Markers, OneMarker
<1>3. LineBehind'
  <2>1. SUFFICES ASSUME NEW x \in From(Line', 1), IsFrame(x)
                 PROVE  /\ sent[x.n].drains >= marked - 1
                        /\ SomeMarker(1) \/ sent[x.n].drains = marked
    BY <1>1 DEF LineBehind, Behind
  <2>2. PICK y \in From(Line, 1) : IsFrame(y) /\ y.n = x.n
    BY <2>1 DEF Kept, Reads
  <2>3. QED  BY <2>2 DEF OneMarker, LineBehind, Behind
<1>4. QueuedBefore'
  BY <1>1, Kinds DEF OneMarker, QueuedBefore, After, Behind
<1>5. QED  BY <1>2, <1>3, <1>4 DEF OneMarker

LEMMA FrontPrecedes ==
  ASSUME Types, Types', Contents, InOrder(sent, Line), PassToManifestor,
         NEW b, b = hand["DtoM"]
  PROVE  /\ b \in From(Line, 1) /\ (AFrame(b) \/ AMarker(b)) /\ b \in Buffer
         /\ \A x \in From(Line, 1) : x = b \/ Precedes(sent, b, x)
         /\ \A x \in From(Line', 1) : Precedes(sent, b, x)
<1>1. Line[1] = <<b>> /\ Line'[1] = << >> /\ Removes(Line, Line', 1, 1)
  BY PassToManifestorLine
<1>2. Items(Line[1]) = {b} /\ Items(Line'[1]) = {} /\ Line[1] # << >> /\ Line[1][1] = b
  BY <1>1 DEF Items
<1>3. \A j \in Parts : j > 1 => \A x \in Items(Line[j]) : Precedes(sent, b, x)
  <2>1. \A j \in Parts : j > 1 => \A x \in Items(Line[j]) : Precedes(sent, Line[1][1], x)
    BY <1>2, LinesNow, HeadPrecedes, PartIs
  <2>2. QED  BY <1>2, <2>1
<1>4. \A x \in From(Line, 1) : x = b \/ Precedes(sent, b, x)
  BY <1>2, <1>3, FromPart, PartIs
<1>5. \A x \in From(Line', 1) : Precedes(sent, b, x)
  <2>1. TAKE x \in From(Line', 1)
  <2>2. PICK j \in Parts : x \in Items(Line'[j])
    BY FromPart
  <2>3. j # 1 /\ j > 1
    BY <1>2, <2>2, PartIs
  <2>4. Line'[j] = Line[j]
    BY <1>1, <2>3 DEF Removes
  <2>5. QED  BY <1>3, <2>2, <2>3, <2>4
<1>6. b \in From(Line, 1)
  BY <1>2, FromPart, PartIs
<1>7. AFrame(b) \/ AMarker(b)
  BY DEF Contents, PassToManifestor, At
<1>8. b \in Buffer
  BY FnTypes, ProcessIs
<1>9. QED  BY <1>4, <1>5, <1>6, <1>7, <1>8

LEMMA PassToManifestorOne ==
  ASSUME Types, Types', Contents, Contents', InOrder(sent, Line), OneMarker, PassToManifestor
  PROVE  OneMarker'
<1> PICK b : b = hand["DtoM"]
  OBVIOUS
<1>0. /\ UNCHANGED <<sent, marked>> /\ display \in Seq(Buffer)
      /\ marked \in Nat /\ ring["PostM"] \in Seq(Buffer)
  BY FnTypes, ProcessIs, CountTypes DEF PassToManifestor, clientVars, Counts
<1>1. /\ b \in From(Line, 1) /\ (AFrame(b) \/ AMarker(b)) /\ b \in Buffer
      /\ \A x \in From(Line, 1) : x = b \/ Precedes(sent, b, x)
      /\ \A x \in From(Line', 1) : Precedes(sent, b, x)
  BY FrontPrecedes
<1>2. Kept(Line, Line', 1, Nothing) /\ (~IsMarker(b) => Kept(Line, Line', 0, Nothing))
  BY KeptPassToManifestor
<1>3. Ordered(ring["PostM"])
  BY DEF OneMarker, QueueOrdered, Ordered
<1>4. CASE IsMarker(b)
  <2>1. /\ ring'["PostM"] = Append(ring["PostM"], b) /\ display' = display
        /\ Items(ring'["PostM"]) = Items(ring["PostM"]) \cup {b}
    <3>1. ring'["PostM"] = Append(ring["PostM"], b) /\ display' = display
      BY <1>4, FnTypes, ProcessIs DEF PassToManifestor, Insert
    <3>2. Items(Append(ring["PostM"], b)) = Items(ring["PostM"]) \cup {b}
      BY <1>0, <1>1, ItemsAppend
    <3>3. QED  BY <3>1, <3>2
  <2>2. b \in Markers /\ b.n = marked /\ SomeMarker(1)
    BY <1>1, <1>4 DEF OneMarker, MarkersLast, Markers, SomeMarker
  <2>3. ~SomeMarker(1)'
    <3>1. SUFFICES ASSUME NEW m \in From(Line', 1), IsMarker(m)  PROVE FALSE
      BY DEF SomeMarker
    <3>2. m \in From(Line, 1)
      BY <1>2, <3>1 DEF Kept, Reads
    <3>3. m.n = marked
      BY <3>1, <3>2 DEF OneMarker, MarkersLast, Markers
    <3>4. b.n < m.n
      BY <1>1, <1>4, <3>1 DEF Precedes
    <3>5. QED  BY <1>0, <2>2, <3>3, <3>4
  <2>4. MarkersLast'
    <3>1. \A m \in From(Line', 1) : IsMarker(m) => m \in From(Line, 1)
      BY <1>2 DEF Kept, Reads
    <3>2. QED  BY <1>0, <2>1, <2>2, <3>1 DEF OneMarker, MarkersLast, Markers
  <2>5. LineBehind'
    <3>1. SUFFICES ASSUME NEW x \in From(Line', 1), IsFrame(x)
                   PROVE  sent[x.n].drains = marked
      BY <1>0 DEF LineBehind, Behind
    <3>2. PICK y \in From(Line, 1) : IsFrame(y) /\ y.n = x.n
      BY <1>2, <3>1 DEF Kept, Reads
    <3>3. AFrame(y)
      BY <3>2, LineHolds, Kinds DEF AMarker
    <3>4. Behind(y) \in 0 .. marked
      BY <3>3, BehindIs
    <3>5. marked <= sent[x.n].drains
      BY <1>1, <1>4, <2>2, <3>1 DEF Precedes
    <3>6. QED  BY <1>0, <3>2, <3>4, <3>5 DEF Behind
  <2>6. QueuedBefore'
    BY <2>3 DEF QueuedBefore
  <2>7. QueueOrdered'
    <3>1. \A x \in Items(ring["PostM"]) : ~After(x)
      BY <2>2 DEF OneMarker, QueuedBefore, Queued
    <3>2. Ordered(Append(ring["PostM"], b))
      BY <1>0, <1>1, <1>3, <3>1, OrderedAppend
    <3>3. QED  BY <1>0, <2>1, <3>2, SameOrdered
  <2>8. QED  BY <2>4, <2>5, <2>6, <2>7 DEF OneMarker
<1>5. CASE ~IsMarker(b)
  <2>1. ring' = ring /\ (display' = display \/ display' = Append(display, b))
    BY <1>5 DEF PassToManifestor
  <2>2. Items(display') \subseteq Items(display) \cup {b}
    <3>1. Items(Append(display, b)) = Items(display) \cup {b}
      BY <1>0, <1>1, ItemsAppend
    <3>2. QED  BY <2>1, <3>1
  <2>3. SomeMarker(1) => ~After(b)
    <3>1. SUFFICES ASSUME NEW m \in From(Line, 1), IsMarker(m)
                   PROVE  Behind(b) # marked
      BY <1>5 DEF SomeMarker, After
    <3>2. m # b /\ IsFrame(b)
      BY <1>1, <1>5, <3>1 DEF AFrame, AMarker
    <3>3. m.n = marked
      BY <3>1 DEF OneMarker, MarkersLast, Markers
    <3>4. Behind(b) < m.n
      BY <1>1, <3>1, <3>2 DEF Precedes, Behind
    <3>5. QED  BY <1>0, <3>3, <3>4
  <2>4. QueueOrdered'
    BY <1>0, <1>3, <2>1, SameOrdered
  <2>5. (SomeMarker(1)' => SomeMarker(1)) /\ (SomeMarker(1) => SomeMarker(1)')
    BY <1>2, <1>5, SomeMarkerKept
  <2>6. MarkersLast'
    <3>1. \A m \in From(Line', 1) : IsMarker(m) => m \in From(Line, 1)
      BY <1>2 DEF Kept, Reads
    <3>2. QED  BY <1>0, <2>1, <3>1 DEF OneMarker, MarkersLast, Markers
  <2>7. LineBehind'
    <3>1. SUFFICES ASSUME NEW x \in From(Line', 1), IsFrame(x)
                   PROVE  /\ sent[x.n].drains >= marked - 1
                          /\ SomeMarker(1) \/ sent[x.n].drains = marked
      BY <1>0, <2>5 DEF LineBehind, Behind
    <3>2. PICK y \in From(Line, 1) : IsFrame(y) /\ y.n = x.n
      BY <1>2, <3>1 DEF Kept, Reads
    <3>3. QED  BY <3>2 DEF OneMarker, LineBehind, Behind
  <2>8. QueuedBefore'
    BY <1>0, <2>1, <2>2, <2>3, <2>5 DEF OneMarker, QueuedBefore, Queued, After, Behind
  <2>9. QED  BY <2>4, <2>6, <2>7, <2>8 DEF OneMarker
<1>6. QED  BY <1>4, <1>5

LEMMA NoMarkers ==
  ASSUME Types, Contents, DrainsComplete, pc[Client] \in Entering
  PROVE  Markers = {} /\ ~SomeMarker(1)
<1>1. CASE drained
  BY <1>1, MarkersAre DEF DrainsComplete
<1>2. CASE marked = 0
  <2>1. \A m : ~AMarker(m)
    BY <1>2 DEF AMarker
  <2>2. \A m \in From(Line, 1) : ~IsMarker(m)
    BY <2>1, LineHolds, Kinds DEF AFrame
  <2>3. \A m \in Items(ring["PostM"]) : ~IsMarker(m)
    BY <2>1, ProcessIs, Kinds DEF Contents, AFrame, ACall
  <2>4. QED  BY <2>2, <2>3 DEF Markers, SomeMarker
<1>3. QED  BY <1>1, <1>2 DEF DrainsComplete

LEMMA MarkerInsertOne ==
  ASSUME Types, Types', Contents, Contents', OneMarker, DrainsComplete, MarkerInsert
  PROVE  OneMarker'
<1> PICK b : b = Marker(launched)
  OBVIOUS
<1>1. /\ IsMarker(b) /\ b.n = launched /\ launched = marked + 1 /\ marked' = launched
      /\ Adds(Line, Line', 6, b)
  BY MarkerInsertLine
<1>2. /\ UNCHANGED <<sent, display>> /\ ring'["PostM"] = ring["PostM"]
      /\ pc[Client] \in Entering /\ marked \in Nat
  BY FnTypes, ProcessIs, CountTypes DEF MarkerInsert, Insert, At, Entering, Counts
<1>3. Markers = {} /\ ~SomeMarker(1)
  BY <1>2, NoMarkers
<1>4. \A x \in From(Line', 1) : x \in From(Line, 1) \/ x = b
  BY <1>1, LinesNow, FromAdded, PartIs
<1>5. b \in From(Line', 1)
  <2>1. 1 <= 6
    OBVIOUS
  <2>2. QED  BY <1>1, <2>1, LinesNow, FromAdded, PartIs
<1>6. MarkersLast'
  BY <1>1, <1>2, <1>3, <1>4 DEF MarkersLast, Markers
<1>7. LineBehind'
  <2>1. SomeMarker(1)'
    BY <1>1, <1>5 DEF SomeMarker
  <2>2. SUFFICES ASSUME NEW x \in From(Line', 1), IsFrame(x)
                 PROVE  sent[x.n].drains >= marked' - 1
    BY <1>2, <2>1 DEF LineBehind, Behind
  <2>3. x \in From(Line, 1)
    BY <1>1, <1>4, <2>2, Kinds
  <2>4. sent[x.n].drains = marked
    BY <1>3, <2>2, <2>3 DEF OneMarker, LineBehind, Behind
  <2>5. QED  BY <1>1, <1>2, <2>4
<1>8. ASSUME NEW x \in Queued  PROVE ~IsMarker(x) /\ ~After(x)'
  <2>1. ~IsMarker(x)
    BY <1>3, MarkersAre
  <2>2. IsFrame(x) => AFrame(x)
    BY ProcessIs, Kinds DEF Queued, Contents, AFrame, AMarker, ACall
  <2>3. IsFrame(x) => Behind(x) \in 0 .. marked
    BY <2>2, BehindIs
  <2>4. QED  BY <1>1, <1>2, <2>1, <2>3 DEF After, Behind
<1>9. QueuedBefore' /\ QueueOrdered'
  <2>1. Queued' = Queued /\ ring["PostM"] \in Seq(Buffer)
    BY <1>2, FnTypes, ProcessIs DEF Queued
  <2>2. \A i \in 1 .. Len(ring["PostM"]) : ring["PostM"][i] \in Queued
    BY <2>1, ItemsAre DEF Queued
  <2>3. QueuedBefore'
    BY <1>8, <2>1 DEF QueuedBefore
  <2>4. QueueOrdered'
    BY <1>2, <1>8, <2>2 DEF QueueOrdered
  <2>5. QED  BY <2>3, <2>4
<1>10. QED  BY <1>6, <1>7, <1>9 DEF OneMarker

LEMMA CollateOne ==
  ASSUME Types, Types', Contents, Contents', OneMarker, Collate
  PROVE  OneMarker'
<1> PICK b : b = Frame(Len(sent) + 1)
  OBVIOUS
<1>1. /\ IsFrame(b) /\ b.n = Len(sent) + 1 /\ Adds(Line, Line', 6, b)
      /\ sent'[b.n].drains = marked
      /\ \A i \in 1 .. Len(sent) : sent'[i] = sent[i]
  BY CollateLine
<1>2. /\ UNCHANGED <<display, marked>> /\ ring'["PostM"] = ring["PostM"] /\ marked \in Nat
  BY FnTypes, ProcessIs, CountTypes DEF Collate, Insert, clientVars, Counts
<1>3. /\ \A x \in From(Line', 1) : x \in From(Line, 1) \/ x = b
      /\ From(Line, 1) \subseteq From(Line', 1)
  BY <1>1, LinesNow, FromAdded, PartIs
<1>4. ~IsMarker(b)
  BY <1>1, Kinds
<1>5. (SomeMarker(1)' => SomeMarker(1)) /\ (SomeMarker(1) => SomeMarker(1)')
  BY <1>3, <1>4 DEF SomeMarker
<1>6. MarkersLast'
  BY <1>2, <1>3, <1>4 DEF OneMarker, MarkersLast, Markers
<1>7. LineBehind'
  <2>1. SUFFICES ASSUME NEW x \in From(Line', 1), IsFrame(x)
                 PROVE  /\ sent'[x.n].drains >= marked - 1
                        /\ SomeMarker(1) \/ sent'[x.n].drains = marked
    BY <1>2, <1>5 DEF LineBehind, Behind
  <2>2. CASE x = b
    BY <1>1, <1>2, <2>2
  <2>3. CASE x \in From(Line, 1)
    <3>1. AFrame(x)
      BY <2>1, <2>3, LineHolds, Kinds DEF AMarker
    <3>2. sent'[x.n] = sent[x.n]
      BY <1>1, <3>1 DEF AFrame
    <3>3. QED  BY <2>1, <2>3, <3>2 DEF OneMarker, LineBehind, Behind
  <2>4. QED  BY <1>3, <2>2, <2>3
<1>8. ASSUME NEW x \in Queued, After(x)'  PROVE After(x)
  <2>1. IsFrame(x) => AFrame(x)
    BY ProcessIs, Kinds DEF Queued, Contents, AFrame, AMarker, ACall
  <2>2. QED  BY <1>1, <1>2, <1>8, <2>1 DEF After, Behind, AFrame
<1>9. QueuedBefore' /\ QueueOrdered'
  <2>1. Queued' = Queued /\ ring["PostM"] \in Seq(Buffer)
    BY <1>2, FnTypes, ProcessIs DEF Queued
  <2>2. \A i \in 1 .. Len(ring["PostM"]) : ring["PostM"][i] \in Queued
    BY <2>1, ItemsAre DEF Queued
  <2>3. QueuedBefore'
    BY <1>5, <1>8, <2>1 DEF OneMarker, QueuedBefore
  <2>4. QueueOrdered'
    BY <1>2, <1>8, <2>2 DEF OneMarker, QueueOrdered
  <2>5. QED  BY <2>3, <2>4
<1>10. QED  BY <1>6, <1>7, <1>9 DEF OneMarker

(* The steps that put neither markers nor frames into the queues.          *)
Queuing ==
  \/ CollateToParse \/ PassToCodec \/ DecodeComplete
  \/ \E p \in Processes : Take(p) \/ Finish(p) \/ TakeCall(p)
  \/ \E fn \in Functions : CallInSequence(fn)
  \/ PostManifest \/ Manifested
  \/ \E mode \in {"block", "return", "switch"}, discard \in BOOLEAN : Launch(mode, discard)
  \/ DiscardQueuedDecodes \/ ReleaseQueuedDecodeBuffers \/ MarkerNumber
  \/ SwitchCollator \/ WaitForDrainCompletion
  \/ UNCHANGED vars

LEMMA QueuingKeeps ==
  ASSUME Types, Types', Contents, QueueOrdered, Queuing
  PROVE  /\ UNCHANGED <<sent, marked>>
         /\ \A x \in Queued' : x \in Queued \/ IsCall(x)
         /\ QueueOrdered'
<1> PICK q : q = ring["PostM"]
  OBVIOUS
<1>0. /\ q \in Seq(Buffer) /\ display \in Seq(Buffer) /\ Ordered(q)
  BY FnTypes, ProcessIs DEF QueueOrdered, Ordered
<1>1. UNCHANGED <<sent, marked>>
  BY ZenonT(60) DEF Queuing, CollateToParse, PassToCodec, DecodeComplete, Take, Finish, TakeCall,
         CallInSequence, PostManifest, Manifested, Launch, DiscardQueuedDecodes,
         ReleaseQueuedDecodeBuffers, MarkerNumber, SwitchCollator,
         WaitForDrainCompletion, clientVars, vars
<1>2. ASSUME UNCHANGED <<ring["PostM"], display>>
      PROVE  (\A x \in Queued' : x \in Queued \/ IsCall(x)) /\ QueueOrdered'
  BY <1>0, <1>1, <1>2, SameOrdered DEF Queued
<1>3. ASSUME q # << >>, ring'["PostM"] = Tail(q), UNCHANGED display
      PROVE  (\A x \in Queued' : x \in Queued \/ IsCall(x)) /\ QueueOrdered'
  <2>1. Items(Tail(q)) \subseteq Items(q) /\ Ordered(Tail(q))
    BY <1>0, <1>3, ItemsTail, OrderedTail
  <2>2. QED  BY <1>1, <1>3, <2>1, SameOrdered DEF Queued
<1>4. ASSUME NEW b \in Buffer, IsCall(b), ring'["PostM"] = Append(q, b), UNCHANGED display
      PROVE  (\A x \in Queued' : x \in Queued \/ IsCall(x)) /\ QueueOrdered'
  <2>1. Items(Append(q, b)) = Items(q) \cup {b} /\ Ordered(Append(q, b))
    BY <1>0, <1>4, ItemsAppend, OrderedAppend, Kinds
  <2>2. QED  BY <1>1, <1>4, <2>1, SameOrdered DEF Queued
<1>5. ASSUME NEW t \in Seq(Buffer), Items(t) \subseteq Items(display),
             Items(display') \subseteq Items(display), ring'["PostM"] = q \o t
      PROVE  (\A x \in Queued' : x \in Queued \/ IsCall(x)) /\ QueueOrdered'
  <2>1. \A x \in Items(t) : ~IsMarker(x)
    BY <1>5, Kinds DEF Contents, AFrame
  <2>2. Items(q \o t) = Items(q) \cup Items(t) /\ Ordered(q \o t)
    BY <1>0, <1>5, <2>1, ItemsConcat, OrderedConcat
  <2>3. QED  BY <1>1, <1>5, <2>2, SameOrdered DEF Queued
<1> DEFINE Goal == (\A x \in Queued' : x \in Queued \/ IsCall(x)) /\ QueueOrdered'
<1>6. ASSUME NEW p \in Processes, Take(p) \/ Finish(p)  PROVE Goal
  <2>1. UNCHANGED <<ring["PostM"], display>>
    BY <1>6, FnTypes, ProcessIs DEF Take, Finish
  <2>2. QED  BY <1>2, <2>1
<1>7. ASSUME NEW p \in Processes, TakeCall(p)  PROVE Goal
  <2>1. /\ ring' = [ring EXCEPT ![p] = Tail(@)] /\ ring[p] # << >> /\ UNCHANGED display
    BY <1>7 DEF TakeCall
  <2>2. CASE p = "PostM"
    BY <1>3, <2>1, <2>2, FnTypes
  <2>3. CASE p # "PostM"
    BY <1>2, <2>1, <2>3, FnTypes, ProcessIs
  <2>4. QED  BY <2>2, <2>3
<1>8. ASSUME NEW fn \in Functions, CallInSequence(fn)  PROVE Goal
  <2>1. PICK b : b = Call(fn)
    OBVIOUS
  <2>2. b \in Buffer /\ IsCall(b)
    BY <1>8, <2>1, CallLine
  <2>3. /\ ring' = [ring EXCEPT ![Destination(fn)] = Append(@, b)]
        /\ UNCHANGED display
    BY <1>8, <2>1 DEF CallInSequence, Insert
  <2>4. CASE Destination(fn) = "PostM"
    BY <1>4, <2>2, <2>3, <2>4, FnTypes, ProcessIs
  <2>5. CASE Destination(fn) # "PostM"
    BY <1>2, <2>3, <2>5, FnTypes, ProcessIs, DestinationIs
  <2>6. QED  BY <2>4, <2>5
<1>9. CASE PostManifest
  BY <1>1, <1>3, <1>9, FnTypes, ProcessIs DEF PostManifest
<1>10. CASE Manifested
  <2>1. /\ ring'["PostM"] = Append(q, Head(display)) /\ display' = Tail(display)
        /\ display # << >>
    BY <1>10, FnTypes, ProcessIs DEF Manifested, Insert
  <2>2. /\ Head(display) \in Buffer /\ Items(Tail(display)) \subseteq Items(display)
        /\ Head(display) \in Items(display)
    BY <1>0, <2>1, ItemsTail, TailFacts
  <2>3. /\ <<Head(display)>> \in Seq(Buffer) /\ Items(<<Head(display)>>) \subseteq Items(display)
        /\ Append(q, Head(display)) = q \o <<Head(display)>>
    <3>1. PICK b \in Buffer : b = Head(display)
      BY <2>2
    <3>2. <<b>> \in Seq(Buffer) /\ Items(<<b>>) = {b} /\ Append(q, b) = q \o <<b>>
      BY <1>0, ConcatOne DEF Items
    <3>3. QED  BY <2>2, <3>1, <3>2
  <2>4. QED  BY <1>1, <1>5, <2>1, <2>2, <2>3
<1>11. CASE ReleaseQueuedDecodeBuffers
  <2>1. PICK shown \in {0, 1} :
          /\ shown <= Len(display) /\ display' = SubSeq(display, 1, shown)
          /\ ring'["PostM"] = q \o SubSeq(display, shown + 1, Len(display))
    BY <1>11, FnTypes, ProcessIs DEF ReleaseQueuedDecodeBuffers
  <2>2. Len(display) \in Nat
    BY <1>0
  <2>3. /\ 1 \in 1 .. Len(display) + 1 /\ shown \in 0 .. Len(display)
        /\ shown + 1 \in 1 .. Len(display) + 1 /\ Len(display) \in 0 .. Len(display)
    BY <2>1, <2>2
  <2>4. Items(SubSeq(display, 1, shown)) \subseteq Items(display)
    BY <1>0, <2>3, ItemsSubSeq
  <2>5. /\ SubSeq(display, shown + 1, Len(display)) \in Seq(Buffer)
        /\ Items(SubSeq(display, shown + 1, Len(display))) \subseteq Items(display)
    BY <1>0, <2>3, ItemsSubSeq
  <2>6. QED  BY <1>1, <1>5, <2>1, <2>4, <2>5
<1>12. CASE CollateToParse \/ PassToCodec \/ DecodeComplete
  <2>1. UNCHANGED display
    BY <1>12 DEF CollateToParse, PassToCodec, DecodeComplete
  <2>2. ring'["PostM"] = ring["PostM"]
    BY <1>12, FnTypes, ProcessIs DEF CollateToParse, PassToCodec, DecodeComplete, Insert
  <2>3. QED  BY <1>1, <1>2, <2>1, <2>2
<1>13. CASE \/ \E mode \in {"block", "return", "switch"}, discard \in BOOLEAN : Launch(mode, discard)
            \/ DiscardQueuedDecodes \/ MarkerNumber
            \/ SwitchCollator \/ WaitForDrainCompletion \/ UNCHANGED vars
  <2>1. UNCHANGED <<ring, display>>
    BY <1>13 DEF Launch, DiscardQueuedDecodes, MarkerNumber, SwitchCollator,
                 WaitForDrainCompletion, vars
  <2>2. QED  BY <1>1, <1>2, <2>1
<1>14. QED
  BY <1>1, <1>6, <1>7, <1>8, <1>9, <1>10, <1>11, <1>12, <1>13 DEF Queuing

LEMMA QueuingKept ==
  ASSUME Types, Types', Contents, InOrder(sent, Line), Discards, MarkersLast, Queuing
  PROVE  \E k, f : k # 1 /\ Kept(Line, Line', k, f)
<1>1. CASE CollateToParse
  <2>1. PICK b : b = IF IsFrame(Head(ring["CtoP"])) THEN [Head(ring["CtoP"]) EXCEPT !.seq = next]
                    ELSE Head(ring["CtoP"])
    OBVIOUS
  <2>2. Kept(Line, Line', 6, b)
    BY <1>1, <2>1, KeptCollateToParse
  <2>3. QED  BY <2>2
<1>2. ASSUME NEW p \in Processes, Take(p)
      PROVE  \E k, f : k # 1 /\ Kept(Line, Line', k, f)
  <2>1. Kept(Line, Line', Place(p), Nothing)
    BY <1>2, KeptTake
  <2>2. Place(p) # 1
    BY <1>2, PlaceIs DEF Take
  <2>3. QED  BY <2>1, <2>2
<1>3. ASSUME Kept(Line, Line', 0, Nothing)
      PROVE  \E k, f : k # 1 /\ Kept(Line, Line', k, f)
  BY <1>3
<1>4. QED
  BY <1>1, <1>2, <1>3, KeptPassToCodec, KeptDecodeComplete, KeptOther DEF Queuing

LEMMA StepsAre ==
  [Next]_vars => PassToManifestor \/ MarkerInsert \/ Collate \/ Queuing
BY DEF Next, ProcessStep, ClientStep, Queuing

LEMMA OneMarkerNext ==
  ASSUME Types, Types', Contents, Contents', InOrder(sent, Line), Discards, OneMarker,
         DrainsComplete, [Next]_vars
  PROVE  OneMarker'
<1>1. CASE Queuing
  <2>1. MarkersLast /\ QueueOrdered
    BY DEF OneMarker
  <2>2. PICK k, f : k # 1 /\ Kept(Line, Line', k, f)
    BY <1>1, <2>1, QueuingKept
  <2>3. /\ UNCHANGED <<sent, marked>> /\ QueueOrdered'
        /\ \A x \in Queued' : x \in Queued \/ IsCall(x)
    BY <1>1, <2>1, QueuingKeeps
  <2>4. QED  BY <2>2, <2>3, OneMarkerKept
<1>2. QED
  BY <1>1, StepsAre, PassToManifestorOne, MarkerInsertOne, CollateOne
-----------------------------------------------------------------------------
(* The calls that are pending.                                             *)
Extends(q, r) == \E t \in Seq(Buffer) : r = q \o t /\ \A x \in Items(t) : ~IsCall(x)
RingStep(p) ==
  \/ ring'[p] = ring[p]
  \/ /\ ring[p] # << >> /\ ring'[p] = Tail(ring[p])
     /\ IsCall(Head(ring[p])) => TakeCall(p)
  \/ Extends(ring[p], ring'[p])

LEMMA ConcatThree ==
  ASSUME NEW B, NEW s \in Seq(B), NEW t \in Seq(B), NEW u \in Seq(B)
  PROVE  (s \o t) \o u = s \o (t \o u)
<1>1. /\ Len((s \o t) \o u) = Len(s \o (t \o u)) /\ (s \o t) \o u \in Seq(B)
      /\ s \o (t \o u) \in Seq(B)
  OBVIOUS
<1>2. \A i \in 1 .. Len((s \o t) \o u) : ((s \o t) \o u)[i] = (s \o (t \o u))[i]
  OBVIOUS
<1>3. QED  BY SMTT(30), <1>1, <1>2

LEMMA AppendExtends ==
  ASSUME NEW q \in Seq(Buffer), NEW b \in Buffer, ~IsCall(b)
  PROVE  Extends(q, Append(q, b))
<1>1. <<b>> \in Seq(Buffer) /\ Append(q, b) = q \o <<b>>
  BY ConcatOne
<1>2. \A x \in Items(<<b>>) : ~IsCall(x)
  BY DEF Items
<1>3. QED  BY <1>1, <1>2 DEF Extends

LEMMA NoCalls ==
  /\ \A b : AFrame(b) \/ AMarker(b) => ~IsCall(b)
  /\ ~IsCall(Nothing)
BY Kinds DEF AFrame, AMarker

LEMMA InsertStep ==
  ASSUME Types, NEW p \in Processes, NEW b \in Buffer, Insert(p, b), ~IsCall(b)
  PROVE  \A q \in Processes : RingStep(q)
BY FnTypes, AppendExtends DEF RingStep, Insert

LEMMA TailStep ==
  ASSUME Types, NEW p \in Processes, ring[p] # << >>, ring' = [ring EXCEPT ![p] = Tail(@)],
         IsCall(Head(ring[p])) => TakeCall(p)
  PROVE  \A q \in Processes : RingStep(q)
BY FnTypes DEF RingStep

LEMMA RingSteps ==
  ASSUME Types, Types', Contents, [Next]_vars, \A fn \in Functions : ~CallInSequence(fn),
         NEW p \in Processes
  PROVE  RingStep(p)
<1>1. CASE UNCHANGED ring
  BY <1>1 DEF RingStep
<1>2. CASE CollateToParse
  <2> PICK b : b = IF IsFrame(Head(ring["CtoP"])) THEN [Head(ring["CtoP"]) EXCEPT !.seq = next]
                   ELSE Head(ring["CtoP"])
    OBVIOUS
  <2>1. b \in Buffer /\ ~IsCall(b)
    BY <1>2, CollateToParseLine, NoCalls
  <2>2. /\ ring["CtoP"] # << >> /\ ring'["CtoP"] = Tail(ring["CtoP"])
        /\ ~IsCall(Head(ring["CtoP"]))
        /\ ring'["PtoD"] = ring["PtoD"] \/ ring'["PtoD"] = Append(ring["PtoD"], b)
        /\ \A q \in Processes : q # "CtoP" /\ q # "PtoD" => ring'[q] = ring[q]
    BY <1>2, FnTypes, ProcessIs DEF CollateToParse
  <2>3. RingStep("PtoD")
    <3>1. ring["PtoD"] \in Seq(Buffer)
      BY FnTypes, ProcessIs
    <3>2. Extends(ring["PtoD"], Append(ring["PtoD"], b))
      BY <2>1, <3>1, AppendExtends
    <3>3. QED  BY <2>2, <3>2 DEF RingStep
  <2>4. QED  BY <2>2, <2>3 DEF RingStep
<1>3. ASSUME NEW q \in Processes, Take(q) \/ TakeCall(q)  PROVE RingStep(p)
  BY <1>3, TailStep DEF Take, TakeCall
<1>4. CASE PostManifest
  BY <1>4, TailStep, ProcessIs DEF PostManifest
<1>5. CASE PassToCodec
  <2>1. hand["PtoD"] \in Buffer /\ ~IsCall(hand["PtoD"])
    BY <1>5, PassToCodecLine, NoCalls
  <2>2. CASE Insert("DtoM", hand["PtoD"])
    BY <2>1, <2>2, InsertStep, ProcessIs
  <2>3. QED  BY <1>1, <1>5, <2>2 DEF PassToCodec
<1>6. CASE PassToManifestor
  <2>1. hand["DtoM"] \in Buffer /\ (IsMarker(hand["DtoM"]) => ~IsCall(hand["DtoM"]))
    BY FnTypes, ProcessIs, Kinds
  <2>2. CASE Insert("PostM", hand["DtoM"]) /\ IsMarker(hand["DtoM"])
    BY <2>1, <2>2, InsertStep, ProcessIs
  <2>3. QED  BY <1>1, <1>6, <2>2 DEF PassToManifestor
<1>7. CASE DecodeComplete
  <2> DEFINE out == IF drop > 0 THEN << >> ELSE <<Head(inflight)>>
             last == IF held # Nothing /\ ahead = 1 THEN <<held>> ELSE << >>
  <2>0. inflight \in Seq(Buffer) /\ held \in Buffer /\ inflight # << >>
    BY <1>7, FnTypes DEF DecodeComplete
  <2>1. Head(inflight) \in Buffer /\ ~IsCall(Head(inflight))
    <3>1. Head(inflight) = inflight[1] /\ 1 \in 1 .. Len(inflight) /\ Head(inflight) \in Buffer
      BY <2>0
    <3>2. QED  BY <3>1, BehindIs, NoCalls
  <2>2. ~IsCall(held)
    BY NoCalls DEF Contents
  <2>3. out \in Seq(Buffer) /\ \A x \in Items(out) : ~IsCall(x)
    BY <2>1 DEF Items
  <2>4. last \in Seq(Buffer) /\ \A x \in Items(last) : ~IsCall(x)
    BY <2>0, <2>2 DEF Items
  <2>5. ring' = [ring EXCEPT !["DtoM"] = @ \o out \o last]
    BY <1>7 DEF DecodeComplete
  <2> HIDE DEF out, last
  <2>6. /\ ring'["DtoM"] = ring["DtoM"] \o (out \o last) /\ out \o last \in Seq(Buffer)
        /\ \A x \in Items(out \o last) : ~IsCall(x)
    <3>1. ring'["DtoM"] = (ring["DtoM"] \o out) \o last /\ ring["DtoM"] \in Seq(Buffer)
      BY <2>5, FnTypes, ProcessIs
    <3>2. (ring["DtoM"] \o out) \o last = ring["DtoM"] \o (out \o last)
      <4>1. ring["DtoM"] \in Seq(Buffer) /\ out \in Seq(Buffer) /\ last \in Seq(Buffer)
        BY <2>3, <2>4, <3>1
      <4>2. \A s \in Seq(Buffer), t \in Seq(Buffer), u \in Seq(Buffer) :
              (s \o t) \o u = s \o (t \o u)
        BY ConcatThree
      <4>3. QED  BY ONLY <4>1, <4>2, Zenon
    <3>3. Items(out \o last) = Items(out) \cup Items(last) /\ out \o last \in Seq(Buffer)
      BY <2>3, <2>4, ItemsConcat
    <3>4. QED  BY <2>3, <2>4, <3>1, <3>2, <3>3
  <2>7. RingStep("DtoM")
    BY <2>6 DEF RingStep, Extends
  <2>8. \A q \in Processes : q # "DtoM" => ring'[q] = ring[q]
    BY <2>5, FnTypes
  <2>9. QED  BY <2>7, <2>8 DEF RingStep
<1>8. CASE Manifested
  <2>1. display \in Seq(Buffer) /\ display # << >>
    BY <1>8, FnTypes DEF Manifested
  <2>2. Head(display) \in Buffer /\ Head(display) \in Items(display)
    BY <2>1, ItemsTail, TailFacts
  <2>3. ~IsCall(Head(display))
    BY <2>2, NoCalls DEF Contents
  <2>4. QED  BY <1>8, <2>2, <2>3, InsertStep, ProcessIs DEF Manifested
<1>9. CASE ReleaseQueuedDecodeBuffers
  <2>1. PICK shown \in {0, 1} :
          /\ shown <= Len(display)
          /\ ring' = [ring EXCEPT !["PostM"] = @ \o SubSeq(display, shown + 1, Len(display))]
    BY <1>9 DEF ReleaseQueuedDecodeBuffers
  <2>2. display \in Seq(Buffer) /\ Len(display) \in Nat
    BY FnTypes
  <2>3. shown + 1 \in 1 .. Len(display) + 1 /\ Len(display) \in 0 .. Len(display)
    BY <2>1, <2>2
  <2>4. PICK t : t = SubSeq(display, shown + 1, Len(display))
    OBVIOUS
  <2>5. t \in Seq(Buffer) /\ Items(t) \subseteq Items(display)
    BY <2>2, <2>3, <2>4, ItemsSubSeq
  <2>6. \A x \in Items(t) : ~IsCall(x)
    BY <2>5, NoCalls DEF Contents
  <2>7. ring'["PostM"] = ring["PostM"] \o t /\ \A q \in Processes : q # "PostM" => ring'[q] = ring[q]
    BY <2>1, <2>4, FnTypes, ProcessIs
  <2>8. QED  BY <2>5, <2>6, <2>7 DEF RingStep, Extends
<1>10. CASE MarkerInsert
  <2>1. Marker(launched) \in Buffer /\ ~IsCall(Marker(launched))
    BY <1>10, MarkerInsertLine, Kinds
  <2>2. QED  BY <1>10, <2>1, InsertStep, ProcessIs DEF MarkerInsert
<1>11. CASE Collate
  <2>1. Frame(Len(sent) + 1) \in Buffer /\ ~IsCall(Frame(Len(sent) + 1))
    BY <1>11, CollateLine, Kinds
  <2>2. QED  BY <1>11, <2>1, InsertStep, ProcessIs DEF Collate
<1>12. CASE \/ \E q \in Processes : Finish(q)
            \/ \E mode \in {"block", "return", "switch"}, discard \in BOOLEAN : Launch(mode, discard)
            \/ DiscardQueuedDecodes \/ MarkerNumber
            \/ SwitchCollator \/ WaitForDrainCompletion \/ UNCHANGED vars
  BY <1>1, <1>12 DEF Finish, Launch, DiscardQueuedDecodes, MarkerNumber, SwitchCollator,
                     WaitForDrainCompletion, vars
<1>13. QED
  BY <1>2, <1>3, <1>4, <1>5, <1>6, <1>7, <1>8, <1>9, <1>10, <1>11, <1>12
     DEF Next, ProcessStep, ClientStep

LEMMA OrderedCallsTail ==
  ASSUME NEW B, NEW q \in Seq(B), q # << >>, CallsOrdered(q)
  PROVE  /\ CallsOrdered(Tail(q))
         /\ \A x \in Items(Tail(q)) :
              IsCall(Head(q)) /\ x.kind = Head(q).kind => Head(q).n < x.n
<1>1. \A i \in 1 .. Len(Tail(q)) : /\ i + 1 \in 1 .. Len(q) /\ Tail(q)[i] = q[i + 1]
                                   /\ 1 < i + 1 /\ i \in Int
  BY TailFacts
<1>2. CallsOrdered(Tail(q))
  <2>1. SUFFICES ASSUME NEW i \in 1 .. Len(Tail(q)), NEW j \in 1 .. Len(Tail(q)), i < j,
                        IsCall(Tail(q)[i]), Tail(q)[i].kind = Tail(q)[j].kind
                 PROVE  Tail(q)[i].n < Tail(q)[j].n
    BY DEF CallsOrdered
  <2>2. i + 1 < j + 1
    BY <1>1, <2>1
  <2>3. QED  BY <1>1, <2>1, <2>2 DEF CallsOrdered
<1>3. ASSUME NEW x \in Items(Tail(q)), IsCall(Head(q)), x.kind = Head(q).kind
      PROVE  Head(q).n < x.n
  <2>1. PICK i \in 1 .. Len(Tail(q)) : x = Tail(q)[i]
    BY DEF Items
  <2>2. 1 \in 1 .. Len(q) /\ Head(q) = q[1]
    BY TailFacts
  <2>3. QED  BY <1>1, <1>3, <2>1, <2>2 DEF CallsOrdered
<1>4. QED  BY <1>2, <1>3

LEMMA OrderedCallsExtend ==
  ASSUME NEW q \in Seq(Buffer), NEW r, CallsOrdered(q), Extends(q, r)
  PROVE  /\ CallsOrdered(r)
         /\ \A x \in Items(r) : x \in Items(q) \/ ~IsCall(x)
<1>1. PICK t \in Seq(Buffer) : r = q \o t /\ \A x \in Items(t) : ~IsCall(x)
  BY DEF Extends
<1>2. \A x \in Items(r) : x \in Items(q) \/ ~IsCall(x)
  BY <1>1, ItemsConcat
<1>3. /\ Len(r) = Len(q) + Len(t) /\ Len(q) \in Nat /\ Len(t) \in Nat
      /\ \A i \in 1 .. Len(q) : r[i] = q[i]
      /\ \A i \in Len(q) + 1 .. Len(q) + Len(t) : r[i] = t[i - Len(q)]
  BY <1>1
<1>4. \A i \in Len(q) + 1 .. Len(q) + Len(t) : ~IsCall(r[i])
  <2>1. TAKE i \in Len(q) + 1 .. Len(q) + Len(t)
  <2>2. i - Len(q) \in 1 .. Len(t)
    BY <1>3
  <2>3. QED  BY <1>1, <1>3, <2>2, ItemsAre
<1>5. CallsOrdered(r)
  <2>1. SUFFICES ASSUME NEW i \in 1 .. Len(r), NEW j \in 1 .. Len(r), i < j,
                        IsCall(r[i]), r[i].kind = r[j].kind
                 PROVE  r[i].n < r[j].n
    BY DEF CallsOrdered
  <2>2. IsCall(r[j])
    BY <2>1 DEF IsCall
  <2>3. i \in 1 .. Len(q) /\ j \in 1 .. Len(q)
    BY <1>3, <1>4, <2>1, <2>2
  <2>4. QED  BY <1>3, <2>1, <2>3 DEF CallsOrdered
<1>6. QED  BY <1>2, <1>5

LEMMA OrderedCallsAppend ==
  ASSUME NEW q \in Seq(Buffer), NEW c \in Buffer, CallsOrdered(q),
         \A x \in Items(q) : x.kind = c.kind => x.n < c.n
  PROVE  CallsOrdered(Append(q, c))
<1>0. /\ Len(Append(q, c)) = Len(q) + 1 /\ Len(q) \in Nat
      /\ Append(q, c)[Len(q) + 1] = c
      /\ \A i \in 1 .. Len(q) : Append(q, c)[i] = q[i] /\ q[i] \in Items(q)
  BY AppendFacts, ItemsAre
<1>1. SUFFICES ASSUME NEW i \in 1 .. Len(q) + 1, NEW j \in 1 .. Len(q) + 1, i < j,
                      IsCall(Append(q, c)[i]), Append(q, c)[i].kind = Append(q, c)[j].kind
               PROVE  Append(q, c)[i].n < Append(q, c)[j].n
  BY <1>0 DEF CallsOrdered
<1>2. i \in 1 .. Len(q) /\ (j \in 1 .. Len(q) \/ j = Len(q) + 1)
  BY <1>0, <1>1
<1>3. QED  BY <1>0, <1>1, <1>2 DEF CallsOrdered

LEMMA TablesStep ==
  ASSUME Types, [Next]_vars, NEW p \in Processes
  PROVE  \/ Tables(p)' \subseteq Tables(p)
         \/ TakeCall(p) /\ Tables(p)' \subseteq Tables(p) \cup {Head(ring[p])}
<1>1. CASE UNCHANGED <<before, after>>
  BY <1>1 DEF Tables
<1>a. ASSUME NEW q \in Processes, NEW S, NEW T,
             before' = [before EXCEPT ![q] = @ \ S] \/ before' = before,
             after' = [after EXCEPT ![q] = @ \ T] \/ after' = after
      PROVE  Tables(p)' \subseteq Tables(p)
  <2>1. before'[p] \subseteq before[p]
    BY <1>a, FnTypes
  <2>2. after'[p] \subseteq after[p]
    BY <1>a, FnTypes
  <2>3. QED  BY <2>1, <2>2 DEF Tables
<1>2. CASE CollateToParse \/ PostManifest
  BY <1>2, <1>a, ProcessIs DEF CollateToParse, PostManifest
<1>3. ASSUME NEW q \in Processes, Take(q) \/ Finish(q)
      PROVE  Tables(p)' \subseteq Tables(p)
  BY <1>3, <1>a, ZenonT(60) DEF Take, Finish
<1>4. ASSUME NEW q \in Processes, TakeCall(q)
      PROVE  \/ Tables(p)' \subseteq Tables(p)
             \/ TakeCall(p) /\ Tables(p)' \subseteq Tables(p) \cup {Head(ring[p])}
  <2>1. \A r \in Processes : r # q => UNCHANGED <<before[r], after[r]>>
    BY <1>4, FnTypes DEF TakeCall
  <2>2. /\ before'[q] \subseteq before[q] \cup {Head(ring[q])}
        /\ after'[q] \subseteq after[q] \cup {Head(ring[q])}
    BY <1>4, FnTypes DEF TakeCall
  <2>3. QED  BY <1>4, <2>1, <2>2 DEF Tables
<1>5. CASE \/ PassToCodec \/ PassToManifestor \/ DecodeComplete \/ Manifested
           \/ \E mode \in {"block", "return", "switch"}, discard \in BOOLEAN : Launch(mode, discard)
           \/ ClientStep \/ Collate \/ UNCHANGED vars
  BY <1>1, <1>5 DEF PassToCodec, PassToManifestor, DecodeComplete, Manifested, Launch,
       ClientStep, DiscardQueuedDecodes, ReleaseQueuedDecodeBuffers, MarkerNumber,
       MarkerInsert, CallInSequence, SwitchCollator, WaitForDrainCompletion, Collate,
       processVars, vars
<1>6. QED
  BY <1>2, <1>3, <1>4, <1>5 DEF Next, ProcessStep

-----------------------------------------------------------------------------
(* A call is pending from when the client makes it until it is performed.  *)
LEMMA TakeCallIs ==
  ASSUME Types, NEW p \in Processes, TakeCall(p)
  PROVE  /\ ring[p] # << >> /\ IsCall(Head(ring[p])) /\ ring'[p] = Tail(ring[p])
         /\ Head(ring[p]) \in Items(ring[p]) /\ Head(ring[p]) \in Pending(p)
<1>1. ring[p] # << >> /\ IsCall(Head(ring[p])) /\ ring'[p] = Tail(ring[p])
  BY FnTypes DEF TakeCall
<1>2. Head(ring[p]) \in Items(ring[p])
  BY <1>1, HeadTypes
<1>3. QED  BY <1>1, <1>2 DEF Pending

LEMMA CallInSequenceIs ==
  ASSUME Types, Types', Contents, NEW fn \in Functions, CallInSequence(fn), NEW b, b = Call(fn),
         NEW p \in Processes
  PROVE  /\ b \in Buffer /\ IsCall(b) /\ b.kind = fn /\ b.n = launched /\ launched = marked
         /\ IF p = Destination(fn) THEN ring'[p] = Append(ring[p], b) ELSE ring'[p] = ring[p]
         /\ Tables(p)' = Tables(p)
         /\ \A x : x \in Items(ring[p])' <=> x \in Items(ring[p]) \/ (p = Destination(fn) /\ x = b)
         /\ \A x : x \in Pending(p)' <=> x \in Pending(p) \/ (p = Destination(fn) /\ x = b)
<1>1. /\ b \in Buffer /\ IsCall(b) /\ b.kind = fn /\ b.n = launched /\ launched = marked
  BY CallLine
<1>2. IF p = Destination(fn) THEN ring'[p] = Append(ring[p], b) ELSE ring'[p] = ring[p]
  BY FnTypes, DestinationIs DEF CallInSequence, Insert
<1>3. Tables(p)' = Tables(p)
  BY DEF CallInSequence, Tables
<1>4. \A x : x \in Items(ring'[p]) <=> x \in Items(ring[p]) \/ (p = Destination(fn) /\ x = b)
  <2>1. CASE p = Destination(fn)
    <3>1. ring[p] \in Seq(Buffer)
      BY FnTypes
    <3>2. Items(Append(ring[p], b)) = Items(ring[p]) \cup {b}
      BY <1>1, <3>1, ItemsAppend
    <3>3. QED  BY <1>2, <2>1, <3>2
  <2>2. QED  BY <1>2, <2>1
<1>5. \A x : x \in Items(ring[p])' <=> x \in Items(ring[p]) \/ (p = Destination(fn) /\ x = b)
  BY <1>4 DEF Items
<1>6. \A x : x \in Pending(p)' <=> x \in Pending(p) \/ (p = Destination(fn) /\ x = b)
  BY <1>1, <1>3, <1>5 DEF Pending
<1>7. QED  BY <1>1, <1>2, <1>3, <1>5, <1>6

LEMMA RingCalls ==
  ASSUME Types, Types', Contents, [Next]_vars, \A fn \in Functions : ~CallInSequence(fn),
         NEW p \in Processes, NEW x \in Items(ring'[p]), IsCall(x)
  PROVE  x \in Items(ring[p])
<1>1. ring[p] \in Seq(Buffer)
  BY FnTypes
<1>2. CASE ring[p] # << >> /\ ring'[p] = Tail(ring[p])
  BY <1>1, <1>2, ItemsTail
<1>3. CASE Extends(ring[p], ring'[p])
  <2>1. PICK t \in Seq(Buffer) : ring'[p] = ring[p] \o t /\ \A y \in Items(t) : ~IsCall(y)
    BY <1>3 DEF Extends
  <2>2. Items(ring[p] \o t) = Items(ring[p]) \cup Items(t)
    BY <1>1, ItemsConcat
  <2>3. QED  BY <2>1, <2>2
<1>4. QED  BY <1>2, <1>3, RingSteps DEF RingStep

LEMMA PendingStep ==
  ASSUME Types, Types', Contents, Contents', [Next]_vars, NEW p \in Processes,
         NEW c, c \in Pending(p)'
  PROVE  \/ c \in Pending(p)
         \/ \E fn \in Functions : /\ CallInSequence(fn) /\ Destination(fn) = p
                                  /\ c = Call(fn)
<1>1. ASSUME NEW fn \in Functions, CallInSequence(fn)
      PROVE  \/ c \in Pending(p)
             \/ Destination(fn) = p /\ c = Call(fn)
  <2>1. PICK b : b = Call(fn)
    OBVIOUS
  <2>2. QED  BY <1>1, <2>1, CallInSequenceIs
<1>2. CASE \A fn \in Functions : ~CallInSequence(fn)
  <2>1. c \in Tables(p)' \/ (c \in Items(ring'[p]) /\ IsCall(c))
    BY DEF Pending, Items
  <2>2. CASE c \in Items(ring'[p]) /\ IsCall(c)
    BY <1>2, <2>2, RingCalls DEF Pending
  <2>3. CASE c \in Tables(p)'
    BY <2>3, TablesStep, TakeCallIs DEF Pending
  <2>4. QED  BY <2>1, <2>2, <2>3
<1>3. QED  BY <1>1, <1>2

LEMMA PendingAre ==
  ASSUME Types, Contents, NEW p \in Processes
  PROVE  /\ Pending(p) \subseteq Buffer
         /\ \A c \in Pending(p) : /\ IsCall(c) /\ c.n \in 1 .. marked /\ c.n <= launched
                                  /\ Destination(c.kind) = p
<1>1. marked <= launched /\ marked \in Nat /\ launched \in Nat
  BY CountTypes DEF Contents, Counts
<1>2. ring[p] \in Seq(Buffer) /\ before[p] \subseteq Buffer /\ after[p] \subseteq Buffer
  BY FnTypes
<1>3. ASSUME NEW c \in Pending(p)
      PROVE  c \in Buffer /\ ACall(c, p)
  <2>1. CASE c \in Tables(p)
    BY <1>2, <2>1 DEF Contents, Tables
  <2>2. CASE c \in Items(ring[p]) /\ IsCall(c)
    <3>1. AFrame(c) \/ AMarker(c) \/ ACall(c, p)
      BY <2>2 DEF Contents
    <3>2. QED  BY <1>2, <2>2, <3>1, ItemsAre, Kinds DEF AFrame, AMarker
  <2>3. QED  BY <1>3, <2>1, <2>2 DEF Pending
<1>4. QED  BY <1>1, <1>3 DEF ACall

LEMMA TablesPending ==
  ASSUME NEW p
  PROVE  /\ Tables(p) \subseteq Pending(p)
         /\ \A x \in Items(ring[p]) : IsCall(x) => x \in Pending(p)
  BY DEF Pending

LEMMA AfterwardsStep ==
  ASSUME Types, [Next]_vars, NEW fn \in Functions, pc[Client] \in Afterwards(fn),
         launched' = launched
  PROVE  pc'[Client] \in Afterwards(fn)
<1>1. CASE UNCHANGED pc[Client]
  BY <1>1
<1>2. CASE DiscardQueuedDecodes \/ ReleaseQueuedDecodeBuffers \/ MarkerNumber \/ MarkerInsert
  BY <1>2 DEF DiscardQueuedDecodes, ReleaseQueuedDecodeBuffers, MarkerNumber, MarkerInsert,
              At, Afterwards, Functions
<1>3. CASE SwitchCollator \/ WaitForDrainCompletion
  <2>1. \/ pc[Client] = "collator" /\ pc'[Client] = "SwitchFrameParser"
        \/ pc[Client] = "wait" /\ pc'[Client] = "idle"
    BY <1>3, FnTypes DEF SwitchCollator, WaitForDrainCompletion, At, Goto
  <2>2. QED  BY <2>1 DEF Afterwards, Functions
<1>4. ASSUME NEW g \in Functions, CallInSequence(g)
      PROVE  pc'[Client] \in Afterwards(fn)
  <2>1. pc[Client] = g /\ pc'[Client] = NextCall(g)
    BY <1>4, FnTypes DEF CallInSequence, At, Goto
  <2>2. drain.mode \in {"block", "return", "switch"}
    BY DEF Types
  <2>3. QED  BY <2>1, <2>2 DEF Afterwards, Functions, NextCall
<1>5. ASSUME NEW mode \in {"block", "return", "switch"}, NEW discard \in BOOLEAN,
             Launch(mode, discard)
      PROVE  FALSE
  BY <1>5, CountTypes DEF Launch, Counts
<1>6. ASSUME NEW p \in Processes, NEW l, Goto(p, l)
      PROVE  UNCHANGED pc[Client]
  BY <1>6, ProcessIs DEF Goto
<1>7. CASE \/ \E p \in Processes : ProcessStep(p)
           \/ DecodeComplete \/ Manifested \/ Collate \/ UNCHANGED vars
  BY <1>6, <1>7, ProcessIs, ZenonT(60)
     DEF ProcessStep, TakeCall, Finish, Take, CollateToParse, PassToCodec, PassToManifestor,
         PostManifest, DecodeComplete, Manifested, Collate, Passed, processVars, vars
<1>8. QED
  BY <1>1, <1>2, <1>3, <1>4, <1>5, <1>7 DEF Next, ClientStep

Once(p) ==
  /\ CallsOrdered(ring[p])
  /\ \A c \in Tables(p), x \in Items(ring[p]) : x.kind = c.kind => c.n < x.n
  /\ \A c \in Pending(p) : c.n = launched => pc[Client] \in Afterwards(c.kind)

LEMMA CallsOnceAre ==
  /\ CallsOnce <=> \A p \in Processes : Once(p)
  /\ CallsOnce' <=> \A p \in Processes : Once(p)'
  BY DEF CallsOnce, Once

LEMMA OtherOnce ==
  ASSUME Types, Types', Contents, Contents', CallsOnce, [Next]_vars,
         \A fn \in Functions : ~CallInSequence(fn), NEW p \in Processes
  PROVE  Once(p)'
<1>0. Once(p) /\ ring[p] \in Seq(Buffer) /\ ring'[p] \in Seq(Buffer)
  BY CallsOnceAre, FnTypes, CountTypesThen DEF Counts, RingTypes
<1>1. CallsOrdered(ring'[p])
  <2>1. CASE ring'[p] = ring[p]
    BY <1>0, <2>1 DEF Once
  <2>2. CASE ring[p] # << >> /\ ring'[p] = Tail(ring[p])
    BY <1>0, <2>2, OrderedCallsTail DEF Once
  <2>3. CASE Extends(ring[p], ring'[p])
    BY <1>0, <2>3, OrderedCallsExtend DEF Once
  <2>4. QED  BY <2>1, <2>2, <2>3, RingSteps DEF RingStep
<1>2. ASSUME NEW c \in Tables(p)', NEW x \in Items(ring'[p]), x.kind = c.kind
      PROVE  c.n < x.n
  <2>1. IsCall(c) /\ IsCall(x)
    BY <1>2 DEF Contents, Tables, ACall, IsCall
  <2>2. x \in Items(ring[p])
    BY <2>1, RingCalls
  <2>3. CASE c \in Tables(p)
    BY <1>0, <1>2, <2>2, <2>3 DEF Once
  <2>4. CASE TakeCall(p) /\ c = Head(ring[p])
    <3>1. ring[p] # << >> /\ ring'[p] = Tail(ring[p])
      BY <2>4, TakeCallIs
    <3>2. CallsOrdered(ring[p])
      BY <1>0 DEF Once
    <3>3. QED  BY <1>0, <1>2, <2>1, <2>4, <3>1, <3>2, OrderedCallsTail
  <2>5. QED  BY <1>2, <2>3, <2>4, TablesStep
<1>3. ASSUME NEW c, c \in Pending(p)', c.n = launched'
      PROVE  pc'[Client] \in Afterwards(c.kind)
  <2>1. c \in Pending(p)
    BY <1>3, PendingStep
  <2>2. c.n <= launched /\ c.n \in Int /\ c.kind \in Functions
    BY <2>1, PendingAre DEF IsCall
  <2>3. launched' >= launched
    <3>1. launched \in Nat
      BY CountTypes DEF Counts
    <3>2. launched' = launched \/ launched' = launched + 1
      BY ZenonT(60) DEF Next, ProcessStep, ClientStep, TakeCall, Finish, Take, CollateToParse, PassToCodec,
             PassToManifestor, PostManifest, DecodeComplete, Manifested, Collate, Launch,
             DiscardQueuedDecodes, ReleaseQueuedDecodeBuffers, MarkerNumber, MarkerInsert,
             CallInSequence, SwitchCollator, WaitForDrainCompletion, clientVars, vars
    <3>3. QED  BY <3>1, <3>2
  <2>4. launched' = launched
    BY <1>3, <2>2, <2>3, CountTypes, CountTypesThen DEF Counts
  <2>5. pc[Client] \in Afterwards(c.kind)
    BY <1>0, <1>3, <2>1, <2>4 DEF Once
  <2>6. QED  BY <2>2, <2>4, <2>5, AfterwardsStep
<1>4. QED  BY <1>1, <1>2, <1>3 DEF Once, Items

LEMMA CallInSequenceOnce ==
  ASSUME Types, Types', Contents, Contents', CallsOnce, NEW fn \in Functions,
         CallInSequence(fn), NEW p \in Processes
  PROVE  Once(p)'
<1>0. Once(p) /\ ring[p] \in Seq(Buffer) /\ launched \in Nat
  BY CallsOnceAre, FnTypes, CountTypes DEF Counts
<1>1. PICK b : b = Call(fn)
  OBVIOUS
<1>2. /\ b \in Buffer /\ IsCall(b) /\ b.kind = fn /\ b.n = launched /\ launched = marked
      /\ IF p = Destination(fn) THEN ring'[p] = Append(ring[p], b) ELSE ring'[p] = ring[p]
      /\ Tables(p)' = Tables(p)
      /\ \A x : x \in Items(ring[p])' <=> x \in Items(ring[p]) \/ (p = Destination(fn) /\ x = b)
      /\ \A x : x \in Pending(p)' <=> x \in Pending(p) \/ (p = Destination(fn) /\ x = b)
  BY <1>1, CallInSequenceIs
<1>3. /\ pc[Client] = fn /\ pc'[Client] = NextCall(fn) /\ launched' = launched
      /\ drain.mode \in {"block", "return", "switch"}
  BY FnTypes DEF CallInSequence, At, Goto, Types
<1>4. fn \notin Afterwards(fn) /\ NextCall(fn) \in Afterwards(fn)
  BY <1>3 DEF Afterwards, Functions, NextCall
<1>5. ASSUME NEW c \in Pending(p), c.kind = fn  PROVE c.n < b.n
  <2>1. c.n # launched
    BY <1>0, <1>3, <1>4, <1>5 DEF Once
  <2>2. c.n <= launched /\ c.n \in Int
    BY PendingAre
  <2>3. QED  BY <1>0, <1>2, <2>1, <2>2
<1>6. CallsOrdered(ring'[p])
  <2>1. CASE p = Destination(fn)
    <3>1. \A x \in Items(ring[p]) : x.kind = b.kind => x.n < b.n
      BY <1>2, <1>5 DEF Pending, IsCall
    <3>2. CallsOrdered(ring[p])
      BY <1>0 DEF Once
    <3>3. QED  BY <1>0, <1>2, <2>1, <3>1, <3>2, OrderedCallsAppend
  <2>2. QED  BY <1>0, <1>2, <2>1 DEF Once
<1>7. ASSUME NEW c \in Tables(p), NEW x, x \in Items(ring[p])', x.kind = c.kind
      PROVE  c.n < x.n
  <2>1. CASE x \in Items(ring[p])
    BY <1>0, <1>7, <2>1 DEF Once
  <2>2. CASE x = b
    BY <1>2, <1>5, <1>7, <2>2, TablesPending
  <2>3. QED  BY <1>2, <1>7, <2>1, <2>2
<1>8. ASSUME NEW c, c \in Pending(p)', c.n = launched
      PROVE  pc'[Client] \in Afterwards(c.kind)
  <2>1. CASE c \in Pending(p)
    <3>1. pc[Client] \in Afterwards(c.kind)
      BY <1>0, <1>8, <2>1 DEF Once
    <3>2. c.kind \in Functions
      BY <2>1, PendingAre DEF IsCall
    <3>3. [Next]_vars
      BY DEF Next, ClientStep
    <3>4. QED  BY <1>3, <3>1, <3>2, <3>3, AfterwardsStep
  <2>2. CASE c = b
    BY <1>2, <1>3, <1>4, <2>2
  <2>3. QED  BY <1>2, <1>8, <2>1, <2>2
<1>9. QED  BY <1>2, <1>3, <1>6, <1>7, <1>8 DEF Once

LEMMA CallsOnceNext ==
  ASSUME Types, Types', Contents, Contents', CallsOnce, [Next]_vars
  PROVE  CallsOnce'
<1>1. ASSUME NEW p \in Processes  PROVE Once(p)'
  BY OtherOnce, CallInSequenceOnce
<1>2. QED  BY <1>1, CallsOnceAre

-----------------------------------------------------------------------------
(* The buffer as CtoP passes it on.                                        *)
Parsed == LET in == Head(ring["CtoP"]) IN IF IsFrame(in) THEN [in EXCEPT !.seq = next] ELSE in

LEMMA NumberedAre ==
  /\ \A f : f \in Numbered <=> IsFrame(f) /\ (f \in Lower(Line) \/ f \in Queued)
  /\ \A f : f \in Numbered' <=> IsFrame(f) /\ (f \in Lower(Line') \/ f \in Queued')
  BY DEF Numbered, IsFrame, Lower

LEMMA LowerStep ==
  ASSUME Types, Types', Contents, InOrder(sent, Line), Discards, OneMarker, [Next]_vars,
         NEW x \in Lower(Line'), IsFrame(x)
  PROVE  x \in Lower(Line) \/ (CollateToParse /\ x = Parsed)
<1>1. ASSUME NEW k, NEW f, Kept(Line, Line', k, f)
      PROVE  x \in Lower(Line) \/ x = f
  BY <1>1 DEF Kept
<1>2. ~IsFrame(Nothing)
  BY Kinds
<1>3. CASE CollateToParse
  <2>1. PICK b : b = Parsed
    OBVIOUS
  <2>2. Kept(Line, Line', 6, b)
    BY <1>3, <2>1, KeptCollateToParse DEF Parsed
  <2>3. QED  BY <1>1, <1>3, <2>1, <2>2
<1>4. ASSUME NEW p \in Processes, Take(p)  PROVE x \in Lower(Line)
  <2>1. Kept(Line, Line', Place(p), Nothing)
    BY <1>4, KeptTake
  <2>2. QED  BY <1>1, <1>2, <2>1
<1>5. CASE PassToManifestor
  <2>1. Kept(Line, Line', 1, Nothing)
    BY <1>5, KeptPassToManifestor
  <2>2. QED  BY <1>1, <1>2, <2>1
<1>6. ASSUME NEW b, Adds(Line, Line', 6, b)  PROVE x \in Lower(Line)
  <2>1. PICK i \in Parts \ {6} : x \in Items(Line'[i])
    BY LowerIs
  <2>2. Line'[i] = Line[i]
    BY <1>6 DEF Adds
  <2>3. QED  BY <2>1, <2>2, LowerIs
<1>7. CASE MarkerInsert \/ Collate
  <2>1. PICK b, c : b = Marker(launched) /\ c = Frame(Len(sent) + 1)
    OBVIOUS
  <2>2. MarkerInsert => Adds(Line, Line', 6, b)
    BY <2>1, MarkerInsertLine
  <2>3. Collate => Adds(Line, Line', 6, c)
    BY <2>1, CollateLine
  <2>4. QED  BY <1>6, <1>7, <2>2, <2>3
<1>8. ASSUME Kept(Line, Line', 0, Nothing)  PROVE x \in Lower(Line)
  BY <1>1, <1>2, <1>8
<1>9. CASE PassToCodec
  BY <1>8, <1>9, KeptPassToCodec DEF OneMarker
<1>10. QED
  BY <1>3, <1>4, <1>5, <1>7, <1>8, <1>9, StepsAre, KeptDecodeComplete, KeptOther DEF Queuing

LEMMA PassToManifestorQueues ==
  ASSUME Types, PassToManifestor, NEW b, b = hand["DtoM"]
  PROVE  /\ \A x \in Queued' : x \in Queued \/ x = b
         /\ b \in Lower(Line) /\ b \in From(Line, 1)
<1>1. Line[1] = <<b>>
  BY PassToManifestorLine
<1>2. b \in Items(Line[1])
  BY <1>1 DEF Items
<1>3. b \in Lower(Line) /\ b \in From(Line, 1)
  BY <1>2, LowerIs, FromPart, PartIs
<1>4. b \in Buffer /\ display \in Seq(Buffer) /\ ring["PostM"] \in Seq(Buffer)
  BY FnTypes, ProcessIs
<1>5. Items(Append(display, b)) = Items(display) \cup {b}
  BY <1>4, ItemsAppend
<1>6. Items(Append(ring["PostM"], b)) = Items(ring["PostM"]) \cup {b}
  BY <1>4, ItemsAppend
<1>7. /\ ring'["PostM"] \in {ring["PostM"], Append(ring["PostM"], b)}
      /\ display' \in {display, Append(display, b)}
  BY FnTypes, ProcessIs DEF PassToManifestor, Insert
<1>8. \A x \in Items(ring'["PostM"]) \cup Items(display') : x \in Queued \/ x = b
  BY <1>5, <1>6, <1>7 DEF Queued
<1>9. Queued' = Items(ring'["PostM"]) \cup Items(display')
  BY DEF Queued, Items
<1>10. QED  BY <1>3, <1>8, <1>9

LEMMA NumberedStep ==
  ASSUME Types, Types', Contents, InOrder(sent, Line), Discards, OneMarker, [Next]_vars,
         NEW f, f \in Numbered'
  PROVE  f \in Numbered \/ (CollateToParse /\ f = Parsed)
<1>1. IsFrame(f) /\ (f \in Lower(Line') \/ f \in Queued')
  BY NumberedAre
<1>2. CASE f \in Lower(Line')
  BY <1>1, <1>2, LowerStep, NumberedAre
<1>3. CASE f \in Queued'
  <2>1. CASE Queuing
    BY <1>1, <1>3, <2>1, QueuingKeeps, NumberedAre, Kinds DEF OneMarker
  <2>2. CASE PassToManifestor
    BY <1>1, <1>3, <2>2, PassToManifestorQueues, NumberedAre
  <2>3. CASE MarkerInsert \/ Collate
    <3>1. UNCHANGED display /\ ring'["PostM"] = ring["PostM"]
      BY <2>3, FnTypes, ProcessIs DEF MarkerInsert, Collate, Insert
    <3>2. QED  BY <1>1, <1>3, <3>1, NumberedAre DEF Queued, Items
  <2>4. QED  BY <2>1, <2>2, <2>3, StepsAre
<1>4. QED  BY <1>1, <1>2, <1>3

LEMMA KnownIs ==
  /\ \A k : k \in Known <=>
       \/ \E p \in Processes : \E c \in Pending(p) : k = <<c.n, Base(c)>>
       \/ \E m \in Markers : k = <<m.n, m.seq>>
       \/ Calling /\ k = <<launched, drain.seq>>
  /\ \A k : k \in Known' <=>
       \/ \E p \in Processes : \E c : c \in Pending(p)' /\ k = <<c.n, Base(c)>>
       \/ \E m : m \in Markers' /\ k = <<m.n, m.seq>>
       \/ Calling' /\ k = <<launched', drain'.seq>>
<1>1. \A k : k \in Known <=>
       \/ \E p \in Processes : \E c \in Pending(p) : k = <<c.n, Base(c)>>
       \/ \E m \in Markers : k = <<m.n, m.seq>>
       \/ Calling /\ k = <<launched, drain.seq>>
  BY DEF Known
<1>2. \A k : k \in Known' <=>
       \/ \E p \in Processes : \E c : c \in Pending(p)' /\ k = <<c.n, Base(c)>>
       \/ \E m : m \in Markers' /\ k = <<m.n, m.seq>>
       \/ Calling' /\ k = <<launched', drain'.seq>>
  BY DEF Known, Base
<1>3. QED  BY <1>1, <1>2

LEMMA MarkerIs ==
  ASSUME Types, Contents, NEW m, IsMarker(m), m \in From(Line, 1) \/ m \in Items(ring["PostM"])
  PROVE  m \in Markers /\ AMarker(m) /\ <<m.n, m.seq>> \in Known
<1>1. m \in Markers
  BY DEF Markers
<1>2. CASE m \in From(Line, 1)
  BY <1>1, <1>2, LineHolds, KnownIs, Kinds DEF AFrame
<1>3. CASE m \in Items(ring["PostM"])
  BY <1>1, <1>3, ProcessIs, KnownIs, Kinds DEF Contents, AFrame, ACall
<1>4. QED  BY <1>2, <1>3

(* No marker is behind another one.                                        *)
LEMMA OnlyMarker ==
  ASSUME Types, Contents, InOrder(sent, Line), MarkersLast,
         NEW h \in Parts, NEW m \in Items(Line[h]), IsMarker(m), NEW k \in Parts, h < k
  PROVE  ~SomeMarker(k)
<1>1. SUFFICES ASSUME NEW n \in From(Line, k), IsMarker(n)  PROVE FALSE
  BY DEF SomeMarker
<1>2. PICK i \in Parts : i >= k /\ n \in Items(Line[i])
  BY <1>1, FromPart
<1>3. h < i
  BY <1>2, PartsAreNumbers
<1>4. PICK a \in 1 .. Len(Line[h]) : m = Line[h][a]
  BY DEF Items
<1>5. PICK b \in 1 .. Len(Line[i]) : n = Line[i][b]
  BY <1>2 DEF Items
<1>6. m.n < n.n
  <2>1. Precedes(sent, Line[h][a], Line[i][b])
    BY <1>3 DEF InOrder
  <2>2. QED  BY <1>1, <1>4, <1>5, <2>1 DEF Precedes
<1>7. m \in From(Line, 1) /\ n \in From(Line, 1)
  BY <1>2, FromPart, PartsAreNumbers
<1>8. m.n = marked /\ n.n = marked
  BY <1>1, <1>7, MarkerIs DEF MarkersLast
<1>9. QED  BY <1>6, <1>8, CountTypes DEF Counts

LEMMA OnlyHead ==
  ASSUME Types, Contents, InOrder(sent, Line), MarkersLast,
         NEW k \in Parts, Line[k] # << >>, IsMarker(Line[k][1])
  PROVE  \A x \in Items(Tail(Line[k])) : ~IsMarker(x)
<1>0. Line \in Lines /\ Line[k] \in Seq(Buffer)
  BY LineTyped, LineFacts
<1>1. SUFFICES ASSUME NEW n \in Items(Tail(Line[k])), IsMarker(n)  PROVE FALSE
  OBVIOUS
<1>2. Precedes(sent, Line[k][1], n)
  BY <1>0, HeadPrecedes
<1>3. n \in Items(Line[k]) /\ Line[k][1] \in Items(Line[k])
  BY <1>0, ItemsTail, TailFacts
<1>4. n \in From(Line, 1) /\ Line[k][1] \in From(Line, 1)
  BY <1>3, FromPart, PartsAreNumbers
<1>5. n.n = marked /\ Line[k][1].n = marked
  BY <1>1, <1>4, MarkerIs DEF MarkersLast
<1>6. QED  BY <1>1, <1>2, <1>5, CountTypes DEF Counts, Precedes

(* What has gone through CtoP has a number below the next one.             *)
LEMMA NumberIs ==
  ASSUME Types, Contents, InOrder(sent, Line), OneMarker, Numbers, Agree,
         NEW p \in {"PtoD", "DtoM", "PostM"}, NEW b \in Items(ring[p]), ~IsCall(b)
  PROVE  b.seq < next /\ (AFrame(b) \/ AMarker(b)) /\ b.seq \in Int
<1>1. AFrame(b) \/ AMarker(b)
  BY ProcessIs DEF Contents, ACall
<1>2. /\ p = "PtoD" => b \in Items(Line[5]) /\ b \in Lower(Line)
      /\ p = "DtoM" => b \in Items(Line[2]) /\ b \in Lower(Line)
      /\ p = "PostM" => b \in Queued
  BY LineIs, LowerIs, PartIs DEF Queued
<1>3. b.seq \in Int
  <2>1. ring[p] \in Seq(Buffer)
    BY FnTypes, ProcessIs
  <2>2. QED  BY <2>1, ItemsAre, BufferFacts
<1>4. CASE AFrame(b)
  <2>1. b \in Numbered
    BY <1>2, <1>4, NumberedAre DEF AFrame
  <2>2. QED  BY <1>1, <1>3, <2>1 DEF Numbers
<1>5. CASE AMarker(b)
  <2>1. IsMarker(b)
    BY <1>5 DEF AMarker
  <2>2. b \in From(Line, 1) \/ b \in Items(ring["PostM"])
    BY <1>2, FromPart, PartIs
  <2>3. <<b.n, b.seq>> \in Known /\ b \in Markers
    BY <2>1, <2>2, MarkerIs
  <2>4. ~SomeMarker(6)
    <3>1. CASE p \in {"PtoD", "DtoM"}
      BY <1>2, <2>1, <3>1, OnlyMarker, PartIs DEF OneMarker
    <3>2. CASE p = "PostM"
      <4>1. ~SomeMarker(1)
        BY <1>2, <2>1, <3>2 DEF OneMarker, QueuedBefore, After
      <4>2. From(Line, 6) \subseteq From(Line, 1)
        BY FromPart, PartIs
      <4>3. QED  BY <4>1, <4>2 DEF SomeMarker
    <3>3. QED  BY <3>1, <3>2
  <2>5. ~MarkerFrom(6, b.n)
    BY <2>4 DEF SomeMarker, MarkerFrom, MarkerIn
  <2>6. ~(seen["CtoP"] < b.seq)
    <3>1. PICK k : k = <<b.n, b.seq>>
      OBVIOUS
    <3>2. Ahead(k)
      BY <2>3, <3>1 DEF Agree
    <3>3. QED  BY <2>5, <3>1, <3>2, PlaceIs DEF Ahead, Readers
  <2>7. next = seen["CtoP"] + 1 /\ seen["CtoP"] \in Int
    BY FnTypes, ProcessIs DEF Numbers
  <2>8. QED  BY <1>1, <1>3, <2>6, <2>7
<1>6. QED  BY <1>1, <1>4, <1>5

-----------------------------------------------------------------------------
(* Numbers.                                                                *)
LEMMA CollateToParseIs ==
  ASSUME Types, Contents, Numbers, CollateToParse, NEW b, b = Parsed
  PROVE  /\ ring["CtoP"] # << >> /\ ring'["CtoP"] = Tail(ring["CtoP"])
         /\ next' = b.seq + 1 /\ seen' = [seen EXCEPT !["CtoP"] = b.seq]
         /\ b.seq >= next /\ b.seq \in Nat
         /\ b.kind = Head(ring["CtoP"]).kind /\ b.n = Head(ring["CtoP"]).n
         /\ (AFrame(b) /\ b.seq = next) \/ (AMarker(b) /\ Room(b.seq) /\ b = Head(ring["CtoP"]))
         /\ UNCHANGED <<sent, marked, launched, drain, pc[Client]>>
<1>1. /\ ring["CtoP"] # << >> /\ ring'["CtoP"] = Tail(ring["CtoP"]) /\ next' = b.seq + 1
      /\ seen' = Raised("CtoP", b.seq) /\ ~IsCall(Head(ring["CtoP"]))
  BY FnTypes, ProcessIs DEF CollateToParse, Parsed
<1>2. PICK in \in Buffer : in = Head(ring["CtoP"]) /\ in \in Items(ring["CtoP"])
  BY <1>1, HeadTypes, ProcessIs
<1>3. (AFrame(in) \/ AMarker(in)) /\ next \in Nat /\ Len(sent) \in Nat /\ Len(sent) <= MaxFrames
      /\ MaxFrames \in Nat
  BY <1>1, <1>2, ProcessIs, StreamAssumption, CountTypes DEF Contents, ACall, Counts, Types
<1>4. b.kind = in.kind /\ b.n = in.n
  BY <1>2, <1>3, BufferFacts DEF Parsed
<1>5. ASSUME AFrame(in)
      PROVE  b.seq = next /\ b.seq \in Nat /\ b.seq >= next /\ AFrame(b)
  <2>1. IsFrame(in) /\ next \in Int /\ next \in Nat
    BY <1>3, <1>5 DEF AFrame
  <2>2. b = [in EXCEPT !.seq = next]
    BY <1>2, <2>1 DEF Parsed
  <2>3. b.seq = next
    BY <2>1, <2>2, BufferFacts
  <2>4. QED  BY <1>4, <1>5, <2>1, <2>3 DEF AFrame, IsFrame
<1>6. ASSUME AMarker(in)
      PROVE  b = in /\ AMarker(b) /\ Room(b.seq) /\ b.seq >= next /\ b.seq \in Nat
  <2>1. b = in /\ IsMarker(in) /\ in.seq \in Nat
    BY <1>2, <1>6, Kinds DEF Parsed, AMarker
  <2>2. Room(in.seq)
    BY <1>2, <2>1 DEF Numbers
  <2>3. in.seq >= next
    BY <1>3, <2>1, <2>2 DEF Room
  <2>4. QED  BY <1>6, <2>1, <2>2, <2>3
<1>7. /\ b.seq >= next /\ b.seq \in Nat
      /\ (AFrame(b) /\ b.seq = next) \/ (AMarker(b) /\ Room(b.seq) /\ b = in)
  BY <1>3, <1>5, <1>6
<1>8. seen' = [seen EXCEPT !["CtoP"] = b.seq]
  <2>1. next = seen["CtoP"] + 1 /\ seen["CtoP"] \in Int
    BY FnTypes, ProcessIs DEF Numbers
  <2>2. b.seq > seen["CtoP"]
    BY <1>3, <1>7, <2>1
  <2>3. QED  BY <1>1, <2>2 DEF Raised
<1>9. UNCHANGED <<sent, marked, launched, drain, pc[Client]>>
  BY FnTypes, ProcessIs DEF CollateToParse, clientVars, Passed, Goto
<1>10. QED  BY <1>1, <1>2, <1>4, <1>7, <1>8, <1>9

(* A process other than CtoP sees a buffer.                                *)
Raises(p) ==
  /\ p \in {"PtoD", "DtoM", "PostM"}
  /\ \E b \in Items(ring[p]) : ~IsCall(b) /\ seen' = Raised(p, b.seq)

LEMMA SeenStep ==
  ASSUME Types, [Next]_vars
  PROVE  \/ CollateToParse \/ UNCHANGED seen
         \/ \E p \in Processes : Raises(p)
<1>1. ASSUME NEW p \in Processes, Take(p)  PROVE Raises(p)
  BY <1>1, HeadTypes DEF Take, Raises
<1>2. CASE PostManifest
  BY <1>2, HeadTypes, ProcessIs DEF PostManifest, Raises
<1>3. CASE CollateToParse \/ UNCHANGED seen
  BY <1>3
<1>4. CASE \/ \E p \in Processes : TakeCall(p) \/ Finish(p)
           \/ PassToCodec \/ PassToManifestor \/ DecodeComplete \/ Manifested
           \/ \E mode \in {"block", "return", "switch"}, discard \in BOOLEAN : Launch(mode, discard)
           \/ ClientStep \/ Collate \/ UNCHANGED vars
  BY <1>3, <1>4 DEF PassToCodec, PassToManifestor, DecodeComplete, Manifested, Launch, TakeCall,
       Finish, ClientStep, DiscardQueuedDecodes, ReleaseQueuedDecodeBuffers, MarkerNumber,
       MarkerInsert, CallInSequence, SwitchCollator, WaitForDrainCompletion, Collate,
       processVars, vars
<1>5. QED
  BY <1>1, <1>2, <1>3, <1>4, ProcessIs DEF Next, ProcessStep

LEMMA NumberedTyped ==
  ASSUME Types, Contents, NEW f \in Numbered
  PROVE  AFrame(f) /\ f.seq \in Int /\ f \in Buffer
<1>1. IsFrame(f) /\ (f \in Lower(Line) \/ f \in Queued)
  BY NumberedAre
<1>2. CASE f \in Lower(Line)
  <2>1. PICK k \in Parts \ {6} : f \in Items(Line[k])
    BY <1>2, LowerIs
  <2>2. f \in From(Line, 1)
    BY <2>1, FromPart, PartsAreNumbers
  <2>3. QED  BY <1>1, <2>2, LineHolds, Kinds, BufferFacts DEF AMarker
<1>3. CASE f \in Queued
  <2>1. f \in Buffer
    BY <1>3, FnTypes, ProcessIs, ItemsAre DEF Queued
  <2>2. AFrame(f)
    BY <1>1, <1>3, ProcessIs, Kinds DEF Queued, Contents, ACall, AMarker
  <2>3. QED  BY <2>1, <2>2, BufferFacts
<1>4. QED  BY <1>1, <1>2, <1>3

SeenNumbers == next = seen["CtoP"] + 1 /\ \A p \in Processes : seen[p] < next
FrameNumbers == \A f \in Numbered : f.seq < next
MarkerRoom == \A m \in Items(ring["CtoP"]) : IsMarker(m) => Room(m.seq)
DrainRoom  == At(Client, "insert") => Room(drain.seq)

LEMMA NumbersAre ==
  /\ Numbers <=> SeenNumbers /\ FrameNumbers /\ MarkerRoom /\ DrainRoom
  /\ Numbers' <=> SeenNumbers' /\ FrameNumbers' /\ MarkerRoom' /\ DrainRoom'
  BY DEF Numbers, SeenNumbers, FrameNumbers, MarkerRoom, DrainRoom

LEMMA NextStep ==
  [Next]_vars => CollateToParse \/ UNCHANGED next
BY ZenonT(60) DEF Next, ProcessStep, ClientStep, TakeCall, Finish, Take, PassToCodec, PassToManifestor,
       PostManifest, DecodeComplete, Manifested, Collate, Launch, DiscardQueuedDecodes,
       ReleaseQueuedDecodeBuffers, MarkerNumber, MarkerInsert, CallInSequence, SwitchCollator,
       WaitForDrainCompletion, vars

LEMMA SeenNumbersNext ==
  ASSUME Types, Types', Contents, InOrder(sent, Line), OneMarker, Numbers, Agree, [Next]_vars
  PROVE  SeenNumbers' /\ next' >= next
<1>0. /\ next \in Nat /\ next' \in Nat /\ \A p \in Processes : seen[p] \in Int
      /\ seen \in [Processes -> Int]
      /\ next = seen["CtoP"] + 1 /\ \A p \in Processes : seen[p] < next
  BY FnTypes, CountTypes, CountTypesThen DEF Numbers, Counts
<1>1. CASE CollateToParse
  <2>1. PICK b : b = Parsed
    OBVIOUS
  <2>2. /\ next' = b.seq + 1 /\ seen' = [seen EXCEPT !["CtoP"] = b.seq]
        /\ b.seq >= next /\ b.seq \in Nat
    BY <1>1, <2>1, CollateToParseIs
  <2>3. /\ seen'["CtoP"] = b.seq /\ \A p \in Processes : p # "CtoP" => seen'[p] = seen[p]
    BY <1>0, <2>2, ProcessIs
  <2>4. \A p \in Processes : seen'[p] < next'
    BY <1>0, <2>2, <2>3
  <2>5. QED  BY <1>0, <2>2, <2>3, <2>4 DEF SeenNumbers
<1>2. CASE UNCHANGED <<seen, next>>
  BY <1>0, <1>2 DEF SeenNumbers
<1>3. ASSUME NEW p \in Processes, Raises(p), UNCHANGED next
      PROVE  SeenNumbers' /\ next' >= next
  <2>1. PICK b \in Items(ring[p]) : ~IsCall(b) /\ seen' = Raised(p, b.seq)
    BY <1>3 DEF Raises
  <2>2. b.seq < next /\ b.seq \in Int /\ p # "CtoP"
    BY <1>3, <2>1, NumberIs DEF Raises
  <2>3. seen'[p] \in {seen[p], b.seq} /\ \A q \in Processes : q # p => seen'[q] = seen[q]
    BY <1>0, <2>1 DEF Raised
  <2>4. \A q \in Processes : seen'[q] < next
    BY <1>0, <2>2, <2>3
  <2>5. QED  BY <1>0, <1>3, <2>2, <2>3, <2>4, ProcessIs DEF SeenNumbers
<1>4. QED  BY <1>1, <1>2, <1>3, SeenStep, NextStep

LEMMA FrameNumbersNext ==
  ASSUME Types, Types', Contents, InOrder(sent, Line), Discards, OneMarker, Numbers, Agree,
         [Next]_vars
  PROVE  FrameNumbers'
<1>0. next \in Nat /\ next' \in Nat /\ next' >= next
  BY CountTypes, CountTypesThen, SeenNumbersNext DEF Counts
<1>1. ASSUME NEW f, f \in Numbered'  PROVE f.seq < next'
  <2>1. CASE f \in Numbered
    <3>1. f.seq < next /\ f.seq \in Int
      BY <2>1, NumberedTyped DEF Numbers
    <3>2. QED  BY <1>0, <3>1
  <2>2. CASE CollateToParse /\ f = Parsed
    <3>1. next' = f.seq + 1 /\ f.seq \in Nat
      BY <2>2, CollateToParseIs
    <3>2. QED  BY <3>1
  <2>3. QED  BY <1>1, <2>1, <2>2, NumberedStep
<1>2. QED  BY <1>1 DEF FrameNumbers

(* The room that a number leaves.                                          *)
LEMMA RoomSame ==
  ASSUME UNCHANGED <<next, sent>>, NEW s, Room(s),
         \A x \in Items(ring'["CtoP"]) : IsFrame(x) => x \in Items(ring["CtoP"])
  PROVE  Room(s)'
<1>1. \A f \in Items(ring'["CtoP"]) : IsFrame(f) => s >= next + MaxFrames + 1 - f.n
  BY DEF Room
<1>2. s >= next + MaxFrames - Len(sent)
  BY DEF Room
<1>3. QED  BY <1>1, <1>2 DEF Room, Items

LEMMA RoomParse ==
  ASSUME Types, Types', Contents, InOrder(sent, Line), Numbers, CollateToParse,
         NEW b, b = Parsed, AFrame(b), NEW s \in Int, Room(s)
  PROVE  Room(s)'
<1>0. /\ next \in Nat /\ Len(sent) \in Nat /\ MaxFrames \in Nat
      /\ Line \in Lines /\ ring["CtoP"] \in Seq(Buffer)
  BY StreamAssumption, CountTypes, LineTyped, FnTypes, ProcessIs DEF Counts
<1>1. PICK in : in = Head(ring["CtoP"])
  OBVIOUS
<1>2. /\ ring["CtoP"] # << >> /\ ring'["CtoP"] = Tail(ring["CtoP"])
      /\ next' = next + 1 /\ sent' = sent /\ b.n = in.n /\ b.kind = in.kind
  <2>1. /\ ring["CtoP"] # << >> /\ ring'["CtoP"] = Tail(ring["CtoP"])
        /\ next' = b.seq + 1 /\ sent' = sent /\ b.n = in.n /\ b.kind = in.kind
        /\ (AFrame(b) /\ b.seq = next) \/ AMarker(b)
    BY <1>1, CollateToParseIs
  <2>2. b.seq = next
    BY <2>1, Kinds DEF AFrame, AMarker
  <2>3. QED  BY <2>1, <2>2
<1>3. IsFrame(in) /\ in.n \in 1 .. Len(sent) /\ in \in Items(ring["CtoP"])
  BY <1>1, <1>2, HeadTypes, ProcessIs DEF AFrame, IsFrame
<1>4. s >= next + MaxFrames + 1 - in.n
  BY <1>3 DEF Room
<1>5. s >= next' + MaxFrames - Len(sent')
  BY <1>0, <1>2, <1>3, <1>4
<1>6. ASSUME NEW f \in Items(ring'["CtoP"]), IsFrame(f)
      PROVE  s >= next' + MaxFrames + 1 - f.n
  <2>1. f \in Items(Tail(ring["CtoP"])) /\ f \in Items(ring["CtoP"])
    BY <1>0, <1>2, <1>6, ItemsTail
  <2>2. Precedes(sent, in, f)
    <3>1. Line[6] = ring["CtoP"] /\ ring["CtoP"][1] = in
      BY <1>0, <1>1, <1>2, LineIs, TailFacts
    <3>2. QED  BY <1>0, <1>2, <2>1, <3>1, HeadPrecedes, PartIs
  <2>3. in.n < f.n
    BY <1>3, <1>6, <2>2 DEF Precedes
  <2>4. f.n \in Int
    BY <1>0, <2>1, ItemsAre, BufferFacts
  <2>5. s >= next + MaxFrames + 1 - f.n
    BY <1>6, <2>1 DEF Room
  <2>6. QED  BY SMTT(30), <1>0, <1>2, <1>3, <1>4, <2>3, <2>4
<1>7. QED  BY <1>5, <1>6 DEF Room, Items

LEMMA RoomCollate ==
  ASSUME Types, Types', Contents, Collate, NEW s \in Int, Room(s)
  PROVE  Room(s)'
<1>0. /\ next \in Nat /\ Len(sent) \in Nat /\ MaxFrames \in Nat /\ ring["CtoP"] \in Seq(Buffer)
  BY StreamAssumption, CountTypes, FnTypes, ProcessIs DEF Counts
<1>1. PICK b : b = Frame(Len(sent) + 1)
  OBVIOUS
<1>2. /\ b \in Buffer /\ b.n = Len(sent) + 1 /\ Len(sent') = Len(sent) + 1
  BY <1>1, CollateLine
<1>3. ring'["CtoP"] = Append(ring["CtoP"], b) /\ next' = next
  BY <1>1, FnTypes, ProcessIs DEF Collate, Insert
<1>4. Items(ring'["CtoP"]) = Items(ring["CtoP"]) \cup {b}
  BY <1>0, <1>2, <1>3, ItemsAppend
<1>5. s >= next + MaxFrames - Len(sent)
  BY DEF Room
<1>6. s >= next' + MaxFrames - Len(sent')
  BY <1>0, <1>2, <1>3, <1>5
<1>7. s >= next + MaxFrames + 1 - (Len(sent) + 1)
  BY <1>0, <1>5
<1>8. \A f \in Items(ring'["CtoP"]) : IsFrame(f) => s >= next' + MaxFrames + 1 - f.n
  BY <1>2, <1>3, <1>4, <1>7 DEF Room
<1>9. QED  BY <1>6, <1>8 DEF Room, Items

(* The steps that number nothing.                                          *)
Quiet ==
  /\ UNCHANGED <<next, sent>>
  /\ pc'[Client] = "insert" => pc[Client] = "insert" /\ drain' = drain
  /\ \A x \in Items(ring'["CtoP"]) : x \in Items(ring["CtoP"]) \/ IsCall(x)

LEMMA QuietSteps ==
  ASSUME Types, Types', Contents, [Next]_vars
  PROVE  CollateToParse \/ MarkerNumber \/ MarkerInsert \/ Collate \/ Quiet
<1> DEFINE Goal == CollateToParse \/ MarkerNumber \/ MarkerInsert \/ Collate \/ Quiet
<1>1. ASSUME ring'["CtoP"] = ring["CtoP"], UNCHANGED <<next, sent, drain, pc[Client]>>
      PROVE  Quiet
  BY <1>1 DEF Quiet
<1>2. ASSUME NEW p \in Processes, NEW l, Goto(p, l)  PROVE UNCHANGED pc[Client]
  BY <1>2, ProcessIs DEF Goto
<1>3. ASSUME NEW p \in Processes, Take(p) \/ Finish(p)  PROVE Quiet
  <2>1. UNCHANGED <<next, sent, drain, pc[Client]>>
    BY <1>2, <1>3 DEF Take, Finish, clientVars
  <2>2. ring'["CtoP"] = ring["CtoP"]
    BY <1>3, FnTypes, ProcessIs DEF Take, Finish
  <2>3. QED  BY <1>1, <2>1, <2>2
<1>4. ASSUME NEW p \in Processes, TakeCall(p)  PROVE Quiet
  <2>1. UNCHANGED <<next, sent, drain, pc[Client]>>
    BY <1>4 DEF TakeCall, clientVars
  <2>2. CASE p = "CtoP"
    <3>1. ring'["CtoP"] = Tail(ring["CtoP"]) /\ ring["CtoP"] # << >> /\ ring["CtoP"] \in Seq(Buffer)
      BY <1>4, <2>2, TakeCallIs, FnTypes
    <3>2. QED  BY <2>1, <3>1, ItemsTail DEF Quiet
  <2>3. CASE p # "CtoP"
    <3>1. ring'["CtoP"] = ring["CtoP"]
      BY <1>4, <2>3, FnTypes, ProcessIs DEF TakeCall
    <3>2. QED  BY <1>1, <2>1, <3>1
  <2>4. QED  BY <2>2, <2>3
<1>5. ASSUME NEW fn \in Functions, CallInSequence(fn)  PROVE Quiet
  <2>1. PICK b : b = Call(fn)
    OBVIOUS
  <2>2. \A x \in Items(ring["CtoP"])' : x \in Items(ring["CtoP"]) \/ IsCall(x)
    BY <1>5, <2>1, CallInSequenceIs, ProcessIs
  <2>3. UNCHANGED <<next, sent>> /\ pc'[Client] = NextCall(fn)
    BY <1>5, FnTypes DEF CallInSequence, Goto
  <2>4. NextCall(fn) \notin Entering
    BY NotEntering DEF Types
  <2>5. QED  BY <2>2, <2>3, <2>4 DEF Quiet, Entering, Items
<1>6. CASE PassToCodec \/ PassToManifestor
  <2>1. UNCHANGED <<next, sent, drain, pc[Client]>>
    BY <1>2, <1>6, ProcessIs DEF PassToCodec, PassToManifestor, Passed, clientVars
  <2>2. ring'["CtoP"] = ring["CtoP"]
    BY <1>6, FnTypes, ProcessIs DEF PassToCodec, PassToManifestor, Insert
  <2>3. QED  BY <1>1, <2>1, <2>2
<1>7. CASE DecodeComplete \/ PostManifest \/ Manifested
  <2>1. UNCHANGED <<next, sent, drain, pc[Client]>>
    BY <1>7 DEF DecodeComplete, PostManifest, Manifested, clientVars, processVars
  <2>2. ring'["CtoP"] = ring["CtoP"]
    BY <1>7, FnTypes, ProcessIs DEF DecodeComplete, PostManifest, Manifested, Insert
  <2>3. QED  BY <1>1, <2>1, <2>2
<1>8. CASE \/ \E mode \in {"block", "return", "switch"}, discard \in BOOLEAN : Launch(mode, discard)
           \/ DiscardQueuedDecodes \/ ReleaseQueuedDecodeBuffers
           \/ SwitchCollator \/ WaitForDrainCompletion
  <2>1. UNCHANGED <<next, sent>>
    BY <1>8 DEF Launch, DiscardQueuedDecodes, ReleaseQueuedDecodeBuffers, SwitchCollator,
                WaitForDrainCompletion
  <2>2. pc'[Client] # "insert"
    BY <1>8, FnTypes DEF Launch, DiscardQueuedDecodes, ReleaseQueuedDecodeBuffers, SwitchCollator,
                WaitForDrainCompletion, Goto
  <2>3. ring'["CtoP"] = ring["CtoP"]
    BY <1>8, FnTypes, ProcessIs
       DEF Launch, DiscardQueuedDecodes, ReleaseQueuedDecodeBuffers, SwitchCollator,
           WaitForDrainCompletion
  <2>4. QED  BY <2>1, <2>2, <2>3 DEF Quiet
<1>9. CASE UNCHANGED vars
  BY <1>1, <1>9 DEF vars, clientVars, processVars
<1>10. QED
  BY <1>3, <1>4, <1>5, <1>6, <1>7, <1>8, <1>9 DEF Next, ProcessStep, ClientStep

LEMMA QuietRoom ==
  ASSUME Quiet, NEW s, Room(s)  PROVE Room(s)'
<1>1. \A x \in Items(ring'["CtoP"]) : IsFrame(x) => x \in Items(ring["CtoP"])
  BY Kinds DEF Quiet
<1>2. QED  BY <1>1, RoomSame DEF Quiet

LEMMA MarkerRoomNext ==
  ASSUME Types, Types', Contents, InOrder(sent, Line), OneMarker, DrainsComplete, Numbers,
         [Next]_vars
  PROVE  MarkerRoom'
<1>0. ring["CtoP"] \in Seq(Buffer) /\ ring'["CtoP"] \in Seq(Buffer)
  BY FnTypes, CountTypesThen, ProcessIs DEF Counts, RingTypes
<1>1. SUFFICES ASSUME NEW m \in Items(ring'["CtoP"]), IsMarker(m)  PROVE Room(m.seq)'
  BY DEF MarkerRoom, Items
<1>2. PICK s : s = m.seq
  OBVIOUS
<1>3. SUFFICES Room(s)'
  BY <1>2
<1>4. s \in Int
  BY <1>0, <1>2, ItemsAre, BufferFacts
<1>5. m \in Items(ring["CtoP"]) => Room(s)
  BY <1>1, <1>2 DEF Numbers
<1>6. CASE Quiet
  BY <1>1, <1>5, <1>6, QuietRoom, Kinds DEF Quiet
<1>7. CASE CollateToParse
  <2>1. PICK b : b = Parsed
    OBVIOUS
  <2>2. /\ ring["CtoP"] # << >> /\ ring'["CtoP"] = Tail(ring["CtoP"])
        /\ AFrame(b) \/ (AMarker(b) /\ b = Head(ring["CtoP"]))
    BY <1>7, <2>1, CollateToParseIs
  <2>3. AFrame(b)
    <3>1. CASE IsMarker(Head(ring["CtoP"]))
      <4>1. Line[6] # << >> /\ IsMarker(Line[6][1]) /\ Tail(Line[6]) = ring'["CtoP"]
        BY <1>0, <2>2, <3>1, LineIs, TailFacts
      <4>2. QED  BY <1>1, <4>1, OnlyHead, PartIs DEF OneMarker
    <3>2. QED  BY <2>2, <3>1 DEF AMarker
  <2>4. m \in Items(ring["CtoP"])
    BY <1>0, <2>2, ItemsTail
  <2>5. QED  BY <1>4, <1>5, <1>7, <2>1, <2>3, <2>4, RoomParse
<1>8. CASE Collate
  <2>1. PICK b : b = Frame(Len(sent) + 1)
    OBVIOUS
  <2>2. b \in Buffer /\ IsFrame(b) /\ ring'["CtoP"] = Append(ring["CtoP"], b)
    BY <1>8, <2>1, CollateLine, FnTypes, ProcessIs DEF Collate, Insert
  <2>3. m \in Items(ring["CtoP"])
    BY <1>0, <1>1, <2>2, ItemsAppend, Kinds
  <2>4. QED  BY <1>4, <1>5, <1>8, <2>3, RoomCollate
<1>9. CASE MarkerInsert
  <2>1. PICK b : b = Marker(launched)
    OBVIOUS
  <2>2. /\ b \in Buffer /\ IsMarker(b) /\ b.seq = drain.seq
        /\ ring'["CtoP"] = Append(ring["CtoP"], b) /\ UNCHANGED <<next, sent>>
        /\ At(Client, "insert")
    BY <1>9, <2>1, MarkerInsertLine, FnTypes, ProcessIs DEF MarkerInsert, Insert
  <2>3. Items(ring'["CtoP"]) = Items(ring["CtoP"]) \cup {b}
    BY <1>0, <2>2, ItemsAppend
  <2>4. Room(s)
    BY <1>2, <1>5, <2>2, <2>3 DEF Numbers
  <2>5. \A x \in Items(ring'["CtoP"]) : IsFrame(x) => x \in Items(ring["CtoP"])
    BY <2>2, <2>3, Kinds
  <2>6. QED  BY <2>2, <2>4, <2>5, RoomSame
<1>10. CASE MarkerNumber
  <2>1. UNCHANGED <<next, sent, ring>>
    BY <1>10 DEF MarkerNumber
  <2>2. QED  BY <1>5, <2>1, RoomSame DEF Items
<1>11. QED
  BY <1>6, <1>7, <1>8, <1>9, <1>10, QuietSteps

LEMMA DrainRoomNext ==
  ASSUME Types, Types', Contents, InOrder(sent, Line), DrainsComplete, Numbers, [Next]_vars
  PROVE  DrainRoom'
<1>1. SUFFICES ASSUME pc'[Client] = "insert"  PROVE Room(drain.seq)'
  BY DEF DrainRoom, At
<1>2. PICK s : s = drain'.seq
  OBVIOUS
<1>3. SUFFICES Room(s)'
  BY <1>2 DEF Room
<1>a. s \in Int
  BY <1>2 DEF Types
<1>b. pc[Client] = "insert" /\ drain' = drain => Room(s)
  BY <1>2 DEF Numbers, At
<1>4. CASE Quiet
  BY <1>1, <1>b, <1>4, QuietRoom DEF Quiet
<1>5. CASE CollateToParse
  <2>1. PICK b : b = Parsed
    OBVIOUS
  <2>2. /\ UNCHANGED <<drain, pc[Client]>> /\ ring["CtoP"] # << >>
        /\ AFrame(b) \/ (AMarker(b) /\ b = Head(ring["CtoP"]))
    BY <1>5, <2>1, CollateToParseIs
  <2>3. ~SomeMarker(1)
    BY <1>1, <2>2, NoMarkers DEF Entering
  <2>4. Head(ring["CtoP"]) \in From(Line, 1)
    BY <2>2, HeadTypes, LineIs, FromPart, PartIs, ProcessIs
  <2>5. AFrame(b)
    BY <2>2, <2>3, <2>4 DEF SomeMarker, AMarker
  <2>6. QED  BY <1>a, <1>b, <1>1, <1>5, <2>1, <2>2, <2>5, RoomParse
<1>6. CASE Collate
  <2>1. UNCHANGED <<drain, pc[Client]>>
    BY <1>6 DEF Collate, clientVars, processVars
  <2>2. QED  BY <1>a, <1>b, <1>1, <1>6, <2>1, RoomCollate
<1>7. CASE MarkerInsert
  <2>1. pc'[Client] = "ResetTimeMapping"
    BY <1>7, FnTypes DEF MarkerInsert, Goto
  <2>2. QED  BY <1>1, <2>1
<1>8. CASE MarkerNumber
  <2>1. drain'.seq = next + RingSize /\ UNCHANGED <<next, sent, ring>>
    BY <1>8 DEF MarkerNumber, Types
  <2>2. /\ next \in Nat /\ Len(sent) \in Nat /\ MaxFrames \in Nat /\ RingSize \in Nat
        /\ RingSize >= MaxFrames
    BY StreamAssumption, CountTypes DEF Counts
  <2>3. s = next + RingSize
    BY <1>2, <2>1
  <2>4. s >= next + MaxFrames - Len(sent)
    BY <2>2, <2>3
  <2>5. ASSUME NEW f \in Items(ring["CtoP"]), IsFrame(f)
        PROVE  s >= next + MaxFrames + 1 - f.n
    <3>1. f.n \in 1 .. Len(sent)
      BY <2>5, ProcessIs, Kinds DEF Contents, AFrame, AMarker, ACall
    <3>2. QED  BY <2>2, <2>3, <3>1
  <2>6. Room(s)
    BY <2>4, <2>5 DEF Room
  <2>7. QED  BY <2>1, <2>6, RoomSame DEF Items
<1>9. QED
  BY <1>4, <1>5, <1>6, <1>7, <1>8, QuietSteps

LEMMA NumbersNext ==
  ASSUME Types, Types', Contents, InOrder(sent, Line), Discards, OneMarker, DrainsComplete,
         Numbers, Agree, [Next]_vars
  PROVE  Numbers'
BY SeenNumbersNext, FrameNumbersNext, MarkerRoomNext, DrainRoomNext, NumbersAre

-----------------------------------------------------------------------------
(* Which numbers are known.                                                *)
LEMMA MarkersStep ==
  ASSUME Types, Types', Contents, InOrder(sent, Line), Discards, OneMarker, [Next]_vars,
         NEW m, m \in Markers'
  PROVE  m \in Markers \/ (MarkerInsert /\ m = Marker(launched))
<1>1. /\ m \in From(Line', 1) \/ m \in Items(ring'["PostM"])
      /\ m \in From(Line', 1) \/ m \in Queued'
  BY DEF Markers, IsMarker, From, Items, Queued
<1>a. IsMarker(m)
  BY DEF Markers, IsMarker
<1>2. ASSUME NEW k, NEW f, Kept(Line, Line', k, f), m \in From(Line', 1)
      PROVE  m \in Markers
  <2>1. m \in From(Line, 1)
    BY <1>a, <1>2 DEF Kept, Reads
  <2>2. QED  BY <1>a, <2>1 DEF Markers
<1>3. CASE Queuing
  <2>1. CASE m \in From(Line', 1)
    BY <1>2, <1>3, <2>1, QueuingKept DEF OneMarker
  <2>2. CASE m \in Queued'
    <3>1. m \in Queued
      BY <1>a, <1>3, <2>2, QueuingKeeps, Kinds DEF OneMarker
    <3>2. QED  BY <1>a, <3>1, MarkersAre
  <2>3. QED  BY <1>1, <2>1, <2>2
<1>4. CASE PassToManifestor
  <2>1. CASE m \in From(Line', 1)
    BY <1>2, <1>4, <2>1, KeptPassToManifestor
  <2>2. CASE m \in Queued'
    <3>1. PICK b : b = hand["DtoM"]
      OBVIOUS
    <3>2. m \in Queued \/ (m = b /\ b \in From(Line, 1))
      BY <1>4, <2>2, <3>1, PassToManifestorQueues
    <3>3. QED  BY <1>a, <3>2, MarkersAre DEF Markers
  <2>3. QED  BY <1>1, <2>1, <2>2
<1>5. ASSUME NEW b, Adds(Line, Line', 6, b), ring'["PostM"] = ring["PostM"]
      PROVE  m \in Markers \/ m = b
  <2>1. \A x \in From(Line', 1) : x \in From(Line, 1) \/ x = b
    BY <1>5, LinesNow, FromAdded, PartIs
  <2>2. m \in From(Line', 1) \/ m \in Items(ring'["PostM"])
    BY <1>1
  <2>3. QED  BY <1>a, <1>5, <2>1, <2>2 DEF Markers
<1>6. CASE Collate
  <2>1. PICK b : b = Frame(Len(sent) + 1)
    OBVIOUS
  <2>2. IsFrame(b) /\ Adds(Line, Line', 6, b)
    BY <1>6, <2>1, CollateLine
  <2>3. ring'["PostM"] = ring["PostM"]
    BY <1>6, FnTypes, ProcessIs DEF Collate, Insert
  <2>4. QED  BY <1>a, <1>5, <2>2, <2>3, Kinds
<1>7. CASE MarkerInsert
  <2>1. PICK b : b = Marker(launched)
    OBVIOUS
  <2>2. Adds(Line, Line', 6, b)
    BY <1>7, <2>1, MarkerInsertLine
  <2>3. ring'["PostM"] = ring["PostM"]
    BY <1>7, FnTypes, ProcessIs DEF MarkerInsert, Insert
  <2>4. QED  BY <1>5, <1>7, <2>1, <2>2, <2>3
<1>8. QED
  BY <1>3, <1>4, <1>6, <1>7, StepsAre

LEMMA CallingStep ==
  ASSUME Types, Types', [Next]_vars, Calling', ~MarkerInsert
  PROVE  Calling /\ launched' = launched /\ drain' = drain
<1>1. pc'[Client] \notin Entering \cup {"idle"}
  BY DEF Calling
<1>a. ASSUME UNCHANGED <<launched, drain, pc[Client]>>
      PROVE  Calling /\ launched' = launched /\ drain' = drain
  BY <1>1, <1>a DEF Calling
<1>2. ASSUME NEW p \in Processes, NEW l, Goto(p, l)  PROVE UNCHANGED pc[Client]
  BY <1>2, ProcessIs DEF Goto
<1>3. CASE \/ \E p \in Processes : ProcessStep(p)
           \/ DecodeComplete \/ Manifested \/ Collate \/ UNCHANGED vars
  <2>1. UNCHANGED <<launched, drain>>
    BY <1>3, ZenonT(60) DEF ProcessStep, TakeCall, Finish, Take, CollateToParse, PassToCodec, PassToManifestor,
         PostManifest, DecodeComplete, Manifested, Collate, clientVars, vars
  <2>2. UNCHANGED pc[Client]
    BY <1>2, <1>3, ProcessIs, ZenonT(60)
     DEF ProcessStep, TakeCall, Finish, Take, CollateToParse, PassToCodec, PassToManifestor,
         PostManifest, DecodeComplete, Manifested, Collate, Passed, processVars, vars
  <2>3. QED  BY <1>a, <2>1, <2>2
<1>4. CASE \/ \E mode \in {"block", "return", "switch"}, discard \in BOOLEAN : Launch(mode, discard)
           \/ DiscardQueuedDecodes \/ ReleaseQueuedDecodeBuffers \/ MarkerNumber
           \/ WaitForDrainCompletion
  BY <1>1, <1>4, FnTypes
     DEF Launch, DiscardQueuedDecodes, ReleaseQueuedDecodeBuffers, MarkerNumber,
         WaitForDrainCompletion, Goto, Entering
<1>5. CASE SwitchCollator
  BY <1>5 DEF SwitchCollator, At, Calling, Entering, clientVars
<1>6. ASSUME NEW fn \in Functions, CallInSequence(fn)
      PROVE  Calling /\ launched' = launched /\ drain' = drain
  <2>1. pc[Client] = fn /\ pc'[Client] = NextCall(fn) /\ launched' = launched
    BY <1>6, FnTypes DEF CallInSequence, At, Goto
  <2>2. drain' = drain
    BY <1>1, <1>6, <2>1 DEF CallInSequence
  <2>3. Calling
    BY <2>1 DEF Calling, Functions, Entering
  <2>4. QED  BY <2>1, <2>2, <2>3
<1>7. QED
  BY <1>3, <1>4, <1>5, <1>6 DEF Next, ClientStep

LEMMA KnownStep ==
  ASSUME Types, Types', Contents, Contents', InOrder(sent, Line), Discards, OneMarker,
         [Next]_vars, NEW k, k \in Known'
  PROVE  k \in Known \/ (MarkerInsert /\ k = <<launched, drain.seq>>)
<1>1. ASSUME NEW p \in Processes, NEW c, c \in Pending(p)', k = <<c.n, Base(c)>>
      PROVE  k \in Known
  <2>1. CASE c \in Pending(p)
    BY <1>1, <2>1, KnownIs
  <2>2. ASSUME NEW fn \in Functions, CallInSequence(fn), c = Call(fn)
        PROVE  k \in Known
    <3>1. pc[Client] = fn
      BY <2>2 DEF CallInSequence, At
    <3>2. Calling
      BY <3>1 DEF Calling, Functions, Entering
    <3>3. c.n = launched /\ Base(c) = drain.seq
      <4>1. drain.seq \in Int
        BY DEF Types
      <4>2. QED  BY <2>2, <4>1 DEF Call, Base
    <3>4. QED  BY <1>1, <3>2, <3>3, KnownIs
  <2>3. QED  BY <1>1, <2>1, <2>2, PendingStep
<1>2. ASSUME NEW m, m \in Markers', k = <<m.n, m.seq>>
      PROVE  k \in Known \/ (MarkerInsert /\ k = <<launched, drain.seq>>)
  <2>1. CASE m \in Markers
    BY <1>2, <2>1, KnownIs
  <2>2. CASE MarkerInsert /\ m = Marker(launched)
    BY <1>2, <2>2 DEF Marker
  <2>3. QED  BY <1>2, <2>1, <2>2, MarkersStep
<1>3. ASSUME Calling', k = <<launched', drain'.seq>>
      PROVE  k \in Known \/ (MarkerInsert /\ k = <<launched, drain.seq>>)
  <2>1. CASE MarkerInsert
    BY <1>3, <2>1 DEF MarkerInsert
  <2>2. CASE ~MarkerInsert
    BY <1>3, <2>2, CallingStep, KnownIs
  <2>3. QED  BY <2>1, <2>2
<1>4. QED  BY <1>1, <1>2, <1>3, KnownIs

(* What a step leaves of a number that is known.                           *)
LEMMA BehindStep ==
  ASSUME Types, Types', Contents, [Next]_vars
  PROVE  /\ \A f : AFrame(f) => sent'[f.n].drains = Behind(f)
         /\ IF MarkerInsert THEN marked' = marked + 1 ELSE marked' = marked
<1>1. ASSUME UNCHANGED <<sent, marked>>, ~MarkerInsert
      PROVE  /\ \A f : AFrame(f) => sent'[f.n].drains = Behind(f)
             /\ IF MarkerInsert THEN marked' = marked + 1 ELSE marked' = marked
  BY <1>1 DEF Behind
<1>2. CASE Collate /\ ~MarkerInsert
  <2>1. /\ \A i \in 1 .. Len(sent) : sent'[i] = sent[i]
        /\ marked' = marked
    <3>1. PICK b : b = Frame(Len(sent) + 1)
      OBVIOUS
    <3>2. QED  BY <1>2, <3>1, CollateLine DEF Collate, clientVars
  <2>2. QED  BY <1>2, <2>1 DEF AFrame, Behind
<1>3. CASE MarkerInsert
  <2>1. PICK b : b = Marker(launched)
    OBVIOUS
  <2>2. launched = marked + 1 /\ marked' = launched /\ sent' = sent
    BY <1>3, <2>1, MarkerInsertLine DEF MarkerInsert
  <2>3. QED  BY <1>3, <2>2 DEF Behind
<1>4. CASE ~MarkerInsert /\ ~Collate
  <2>1. UNCHANGED <<sent, marked>>
    BY <1>4, ZenonT(60) DEF Next, ProcessStep, ClientStep, TakeCall, Finish, Take, CollateToParse,
         PassToCodec, PassToManifestor, PostManifest, DecodeComplete, Manifested, Launch,
         DiscardQueuedDecodes, ReleaseQueuedDecodeBuffers, MarkerNumber, CallInSequence,
         SwitchCollator, WaitForDrainCompletion, clientVars, vars
  <2>2. QED  BY <1>1, <1>4, <2>1
<1>5. QED  BY <1>2, <1>3, <1>4

Agrees(k) ==
  /\ k[1] \in 1 .. marked
  /\ \A l \in Known : k[1] = l[1] => k[2] = l[2]
  /\ Apart(k) /\ Ahead(k) /\ Met(k)

LEMMA AgreeIs ==
  /\ Agree <=> \A k \in Known : Agrees(k)
  /\ Agree' <=> \A k : k \in Known' => Agrees(k)'
<1>1. Agree <=> \A k \in Known : Agrees(k)
  BY DEF Agree, Agrees
<1>2. Agree' <=> \A k \in Known' : Agrees(k)'
  BY DEF Agree, Agrees
<1>3. QED  BY <1>1, <1>2

(* The marker that is known by a number has that number.                   *)
LEMMA MarkerNumbered ==
  ASSUME Types, Contents, Agree, NEW k \in Known, NEW m, IsMarker(m),
         m \in From(Line, 1) \/ m \in Items(ring["PostM"]), m.n = k[1]
  PROVE  m.seq = k[2] /\ m.seq \in Nat
<1>1. PICK l : l = <<m.n, m.seq>>
  OBVIOUS
<1>2. l \in Known /\ AMarker(m)
  BY <1>1, MarkerIs
<1>3. k[2] = l[2]
  <2>1. k[1] = l[1]
    BY <1>1
  <2>2. QED  BY <1>2, <2>1 DEF Agree
<1>4. QED  BY <1>1, <1>2, <1>3 DEF AMarker

(* The number that CtoP gives a frame is on the right side of all others.  *)
LEMMA ParsedApart ==
  ASSUME Types, Types', Contents, InOrder(sent, Line), OneMarker, Numbers, Agree,
         CollateToParse, NEW b, b = Parsed, AFrame(b), NEW k \in Known, k[2] \in Int
  PROVE  \/ Behind(b) >= k[1] /\ b.seq > k[2]
         \/ Behind(b) < k[1] /\ b.seq < k[2]
<1>1. PICK in : in = Head(ring["CtoP"])
  OBVIOUS
<1>2. ring["CtoP"] # << >> /\ b.seq = next /\ b.kind = in.kind /\ b.n = in.n
  BY <1>1, CollateToParseIs, Kinds DEF AFrame, AMarker
<1>3. /\ next = seen["CtoP"] + 1 /\ seen["CtoP"] \in Int /\ marked \in Nat
      /\ k[1] \in 1 .. marked /\ Len(sent) \in Nat /\ MaxFrames \in Nat /\ Len(sent) <= MaxFrames
  BY StreamAssumption, FnTypes, ProcessIs, CountTypes DEF Numbers, Agree, Counts, Types
<1>4. /\ ring["CtoP"] \in Seq(Buffer) /\ Line[6] = ring["CtoP"] /\ Line[6][1] = in
      /\ IsFrame(in) /\ in.n \in 1 .. Len(sent) /\ in \in Items(ring["CtoP"])
      /\ Behind(in) = Behind(b) /\ Line \in Lines
  BY <1>1, <1>2, FnTypes, ProcessIs, LineIs, TailFacts, HeadTypes, LineTyped
     DEF AFrame, IsFrame, Behind
<1>5. /\ \A x \in Items(Tail(Line[6])) : Precedes(sent, in, x)
      /\ \A j \in Parts : j < 6 => \A x \in Items(Line[j]) : Precedes(sent, x, in)
  BY <1>2, <1>4, HeadPrecedes, PartIs
<1>6. Behind(b) \in Nat /\ Behind(b) >= marked - 1
  <2>1. in \in From(Line, 1)
    BY <1>4, FromPart, PartIs
  <2>2. QED  BY <1>4, <2>1, BehindIs DEF OneMarker, LineBehind
<1>7. CASE seen["CtoP"] >= k[2]
  <2>1. next > k[2]
    BY <1>3, <1>7
  <2>2. CASE k[1] = marked
    <3>1. ~SomeMarker(6)
      BY <1>7, <2>2, PlaceIs DEF Agree, Met, Readers
    <3>2. Behind(b) >= marked
      <4>1. CASE SomeMarker(1)
        <5>1. PICK m \in From(Line, 1) : IsMarker(m)
          BY <4>1 DEF SomeMarker
        <5>2. PICK j \in Parts : m \in Items(Line[j])
          BY FromPart
        <5>3. j # 6
          BY <3>1, <5>1, <5>2, FromPart, PartIs DEF SomeMarker
        <5>4. m.n <= Behind(in)
          <6>1. j < 6
            BY <5>3, PartIs
          <6>2. Precedes(sent, m, in)
            BY <1>5, <5>2, <6>1
          <6>3. QED  BY <1>4, <5>1, <6>2 DEF Precedes, Behind
        <5>5. m.n = marked
          BY <5>1, MarkerIs DEF OneMarker, MarkersLast
        <5>6. QED  BY <1>3, <1>4, <5>4, <5>5
      <4>2. CASE ~SomeMarker(1)
        <5>1. in \in From(Line, 1)
          BY <1>4, FromPart, PartIs
        <5>2. Behind(in) = marked
          BY <1>4, <4>2, <5>1 DEF OneMarker, LineBehind
        <5>3. QED  BY <1>3, <1>4, <5>2
      <4>3. QED  BY <4>1, <4>2
    <3>3. QED  BY <1>2, <2>1, <2>2, <3>2
  <2>3. CASE k[1] # marked
    <3>1. Behind(b) >= k[1]
      BY <1>3, <1>6, <2>3
    <3>2. QED  BY <1>2, <2>1, <3>1
  <2>4. QED  BY <2>2, <2>3
<1>8. CASE seen["CtoP"] < k[2]
  <2>1. MarkerFrom(6, k[1])
    BY <1>8, PlaceIs DEF Agree, Ahead, Readers
  <2>2. PICK m \in From(Line, 6) : IsMarker(m) /\ m.n = k[1]
    BY <2>1 DEF MarkerFrom, MarkerIn
  <2>3. m \in Items(Line[6]) /\ m \in From(Line, 1)
    BY <2>2, FromPart, PartIs
  <2>4. m.seq = k[2]
    BY <2>2, <2>3, MarkerNumbered
  <2>5. m # in
    BY <1>4, <2>2, Kinds
  <2>6. m \in Items(Tail(Line[6]))
    BY <1>2, <1>4, <2>3, <2>5, ItemsTail, TailFacts
  <2>7. Behind(b) < k[1]
    BY <1>4, <1>5, <2>2, <2>6 DEF Precedes, Behind
  <2>8. next < k[2]
    <3>1. Room(m.seq)
      BY <1>4, <2>2, <2>3 DEF Numbers
    <3>2. m.seq >= next + MaxFrames + 1 - in.n
      BY <1>4, <3>1 DEF Room
    <3>3. in.n \in Int /\ in.n <= MaxFrames /\ next \in Int /\ MaxFrames \in Int
      <4>1. in.n \in 1 .. Len(sent)
        BY <1>4
      <4>2. next \in Int /\ Len(sent) \in Nat /\ MaxFrames \in Nat /\ Len(sent) <= MaxFrames
        BY <1>3
      <4>3. QED  BY <4>1, <4>2
    <3>4. k[2] >= next + MaxFrames + 1 - in.n
      BY <2>4, <3>2
    <3>5. QED  BY <3>3, <3>4
  <2>9. QED  BY <1>2, <2>7, <2>8
<1>9. QED  BY <1>3, <1>7, <1>8

LEMMA KnownTyped ==
  ASSUME Types, Contents, NEW k \in Known
  PROVE  k[2] \in Int
<1>1. ASSUME NEW p \in Processes, NEW c \in Pending(p), k = <<c.n, Base(c)>>
      PROVE  k[2] \in Int
  <2>1. c.seq \in Int
    BY PendingAre, BufferFacts
  <2>2. QED  BY <1>1, <2>1 DEF Base
<1>2. ASSUME NEW m \in Markers, k = <<m.n, m.seq>>
      PROVE  k[2] \in Int
  <2>1. AMarker(m)
    BY MarkerIs DEF Markers
  <2>2. QED  BY <1>2, <2>1 DEF AMarker
<1>3. ASSUME k = <<launched, drain.seq>>
      PROVE  k[2] \in Int
  <2>1. drain.seq \in Int
    BY DEF Types
  <2>2. QED  BY <1>3, <2>1
<1>4. QED  BY <1>1, <1>2, <1>3, KnownIs

LEMMA ApartStep ==
  ASSUME Types, Types', Contents, Contents', InOrder(sent, Line), Discards, OneMarker, Numbers,
         Agree, [Next]_vars, NEW k \in Known
  PROVE  Apart(k)'
<1>1. SUFFICES ASSUME NEW f, f \in Numbered'
               PROVE  \/ sent'[f.n].drains >= k[1] /\ f.seq > k[2]
                      \/ sent'[f.n].drains < k[1] /\ f.seq < k[2]
  BY DEF Apart, Behind
<1>2. CASE f \in Numbered
  <2>1. sent'[f.n].drains = Behind(f)
    BY <1>2, NumberedTyped, BehindStep
  <2>2. QED  BY <1>2, <2>1 DEF Agree, Apart
<1>3. CASE CollateToParse /\ f = Parsed
  <2>1. AFrame(f)
    <3>1. IsFrame(f)
      BY <1>1, NumberedAre
    <3>2. QED  BY <1>3, <3>1, CollateToParseIs, Kinds DEF AMarker
  <2>2. sent'[f.n].drains = Behind(f)
    BY <2>1, BehindStep
  <2>3. QED  BY <1>3, <2>1, <2>2, ParsedApart, KnownTyped
<1>4. QED  BY <1>1, <1>2, <1>3, NumberedStep

(* A process sees what is at the head of its ring.                         *)
Sees(p, b) ==
  \/ CollateToParse /\ p = "CtoP" /\ b = Parsed
  \/ Take(p) /\ b = Head(ring[p])

LEMMA SeenBy ==
  ASSUME Types, [Next]_vars, NEW p \in Readers
  PROVE  seen'[p] = seen[p] \/ \E b : Sees(p, b)
<1>1. ASSUME NEW q \in Processes, q # p, NEW s, seen' = Raised(q, s)
      PROVE  seen'[p] = seen[p]
  BY <1>1, FnTypes DEF Raised, Readers, Processes
<1>2. CASE CollateToParse
  <2>1. PICK s : seen' = Raised("CtoP", s)
    BY <1>2 DEF CollateToParse
  <2>2. QED  BY <1>1, <1>2, <2>1, ProcessIs DEF Sees
<1>3. ASSUME NEW q \in Processes, Take(q)
      PROVE  seen'[p] = seen[p] \/ \E b : Sees(p, b)
  <2>1. PICK s : seen' = Raised(q, s)
    BY <1>3 DEF Take
  <2>2. QED  BY <1>1, <1>3, <2>1 DEF Sees
<1>4. CASE PostManifest
  <2>1. PICK s : seen' = Raised("PostM", s)
    BY <1>4 DEF PostManifest
  <2>2. QED  BY <1>1, <2>1, ProcessIs DEF Readers
<1>5. CASE UNCHANGED seen
  BY <1>5
<1>6. CASE \/ \E q \in Processes : TakeCall(q) \/ Finish(q)
           \/ PassToCodec \/ PassToManifestor \/ DecodeComplete \/ Manifested
           \/ \E mode \in {"block", "return", "switch"}, discard \in BOOLEAN : Launch(mode, discard)
           \/ ClientStep \/ Collate \/ UNCHANGED vars
  BY <1>5, <1>6 DEF PassToCodec, PassToManifestor, DecodeComplete, Manifested, Launch, TakeCall,
       Finish, ClientStep, DiscardQueuedDecodes, ReleaseQueuedDecodeBuffers, MarkerNumber,
       MarkerInsert, CallInSequence, SwitchCollator, WaitForDrainCompletion, Collate,
       processVars, vars
<1>7. QED
  BY <1>2, <1>3, <1>4, <1>6 DEF Next, ProcessStep

LEMMA SeesIs ==
  ASSUME Types, Types', Contents, Numbers, NEW p \in Readers, NEW b, Sees(p, b)
  PROVE  /\ Line[Place(p)] # << >> /\ b.kind = Line[Place(p)][1].kind
         /\ b.n = Line[Place(p)][1].n /\ (AFrame(b) \/ AMarker(b)) /\ b.seq \in Int
         /\ IsMarker(b) => b = Line[Place(p)][1]
         /\ Line'[Place(p)] = Tail(Line[Place(p)])
         /\ \A j \in Parts : j > Place(p) => Line'[j] = Line[j]
         /\ seen'[p] >= b.seq /\ seen'[p] >= seen[p]
         /\ seen'[p] = b.seq \/ seen'[p] = seen[p]
<1>1. CASE CollateToParse /\ p = "CtoP" /\ b = Parsed
  <2>1. /\ ring["CtoP"] # << >> /\ ring'["CtoP"] = Tail(ring["CtoP"])
        /\ seen' = [seen EXCEPT !["CtoP"] = b.seq] /\ b.seq \in Nat /\ b.seq >= next
        /\ b.kind = Head(ring["CtoP"]).kind /\ b.n = Head(ring["CtoP"]).n
        /\ AFrame(b) \/ (AMarker(b) /\ b = Head(ring["CtoP"]))
    BY <1>1, CollateToParseIs
  <2>2. Head(ring["CtoP"]) = ring["CtoP"][1]
    BY <2>1, HeadTypes, ProcessIs
  <2>3. seen'["CtoP"] = b.seq /\ b.seq >= seen["CtoP"]
    <3>1. seen'["CtoP"] = b.seq
      BY <2>1, FnTypes, ProcessIs
    <3>2. next = seen["CtoP"] + 1 /\ seen["CtoP"] \in Int
      BY FnTypes, ProcessIs DEF Numbers
    <3>3. QED  BY <2>1, <3>1, <3>2
  <2>4. Line[6] = ring["CtoP"] /\ Line'[6] = ring'["CtoP"] /\ Place(p) = 6
    BY <1>1, LineIs, LineThenIs, PlaceIs
  <2>5. \A j \in Parts : ~(j > 6)
    BY PartsAreNumbers
  <2>6. IsMarker(b) => b = Head(ring["CtoP"])
    BY <2>1, Kinds DEF AFrame
  <2>7. QED  BY <1>1, <2>1, <2>2, <2>3, <2>4, <2>5, <2>6
<1>2. CASE Take(p) /\ b = Head(ring[p])
  <2>1. /\ p \in {"PtoD", "DtoM"} /\ Line[Place(p)] # << >> /\ Line[Place(p)][1] = b
        /\ b \in Buffer /\ (AFrame(b) \/ AMarker(b)) /\ p \in Processes
        /\ p = "PtoD" => Moves(Line, Line', 5, 4, b)
        /\ p = "DtoM" => Moves(Line, Line', 2, 1, b)
    BY <1>2, TakeLine, PlaceIs
  <2>2. /\ Line'[Place(p)] = Tail(Line[Place(p)])
        /\ \A j \in Parts : j > Place(p) => Line'[j] = Line[j]
    <3>1. CASE p = "PtoD"
      BY <2>1, <3>1, PlaceIs, PartsAreNumbers DEF Moves
    <3>2. CASE p = "DtoM"
      BY <2>1, <3>2, PlaceIs, PartsAreNumbers DEF Moves
    <3>3. QED  BY <2>1, <3>1, <3>2
  <2>3. b.seq \in Int /\ seen[p] \in Int
    BY <2>1, FnTypes, BufferFacts
  <2>4. seen'[p] = IF b.seq > seen[p] THEN b.seq ELSE seen[p]
    BY <1>2, <2>1, FnTypes DEF Take, Raised
  <2>5. /\ seen'[p] >= b.seq /\ seen'[p] >= seen[p]
        /\ seen'[p] = b.seq \/ seen'[p] = seen[p]
    BY <2>3, <2>4
  <2>6. QED  BY <2>1, <2>2, <2>3, <2>5
<1>3. QED  BY <1>1, <1>2 DEF Sees

LEMMA SeenGrows ==
  ASSUME Types, Types', Contents, Numbers, [Next]_vars, NEW p \in Readers
  PROVE  seen'[p] >= seen[p] /\ seen[p] \in Int /\ seen'[p] \in Int
<1>1. p \in Processes /\ seen[p] \in Int /\ seen'[p] \in Int
  BY FnTypes, PlaceIs DEF Types
<1>2. ASSUME NEW b, Sees(p, b)  PROVE seen'[p] >= seen[p]
  BY <1>2, SeesIs
<1>3. QED  BY <1>1, <1>2, SeenBy

LEMMA MarkerStays ==
  ASSUME Types, Types', Contents, InOrder(sent, Line), Discards, OneMarker, [Next]_vars,
         NEW p \in Readers, NEW m \in From(Line, Place(p)), IsMarker(m)
  PROVE  m \in From(Line', Place(p)) \/ Sees(p, m)
<1>0. /\ Place(p) \in Reads \ {1} /\ Place(p) # 0 /\ Place(p) \in Parts
      /\ \A q \in Readers : Place(q) = Place(p) => q = p
  BY PlaceIs, PartIs DEF Reads, Readers
<1>1. ASSUME NEW k, NEW f, Kept(Line, Line', k, f)
      PROVE  m \in From(Line', Place(p)) \/ (Place(p) = k /\ m = Line[k][1])
  BY <1>0, <1>1 DEF Kept
<1>2. CASE CollateToParse
  <2>1. PICK b : b = Parsed
    OBVIOUS
  <2>2. Kept(Line, Line', 6, b) /\ Line[6][1] = Head(ring["CtoP"])
    BY <1>2, <2>1, KeptCollateToParse, CollateToParseLine DEF Parsed
  <2>3. CASE Place(p) = 6 /\ m = Line[6][1]
    <3>1. p = "CtoP" /\ m = Parsed
      BY <1>0, <2>2, <2>3, PlaceIs, Kinds DEF Parsed, Readers
    <3>2. QED  BY <1>2, <3>1 DEF Sees
  <2>4. QED  BY <1>1, <2>2, <2>3
<1>3. ASSUME NEW q \in Processes, Take(q)
      PROVE  m \in From(Line', Place(p)) \/ Sees(p, m)
  <2>1. /\ Kept(Line, Line', Place(q), Nothing) /\ Line[Place(q)][1] = Head(ring[q])
        /\ q \in Readers
    BY <1>3, KeptTake, TakeLine DEF Readers
  <2>2. CASE Place(p) = Place(q) /\ m = Line[Place(q)][1]
    BY <1>0, <1>3, <2>1, <2>2 DEF Sees
  <2>3. QED  BY <1>1, <2>1, <2>2
<1>4. ASSUME Kept(Line, Line', 0, Nothing) \/ Kept(Line, Line', 1, Nothing)
      PROVE  m \in From(Line', Place(p))
  BY <1>0, <1>1, <1>4
<1>5. ASSUME NEW b, Adds(Line, Line', 6, b)  PROVE m \in From(Line', Place(p))
  BY <1>0, <1>5, LinesNow, FromAdded, PartIs
<1>6. CASE MarkerInsert \/ Collate
  <2>1. PICK b, c : b = Marker(launched) /\ c = Frame(Len(sent) + 1)
    OBVIOUS
  <2>2. QED  BY <1>5, <1>6, <2>1, MarkerInsertLine, CollateLine
<1>7. CASE PassToCodec \/ PassToManifestor
  BY <1>4, <1>7, KeptPassToCodec, KeptPassToManifestor DEF OneMarker
<1>8. QED
  BY <1>2, <1>3, <1>4, <1>6, <1>7, StepsAre, KeptDecodeComplete, KeptOther DEF Queuing

LEMMA NoNewMarkers ==
  ASSUME Types, Types', Contents, InOrder(sent, Line), Discards, OneMarker, [Next]_vars,
         ~MarkerInsert, NEW h \in Reads, NEW m \in From(Line', h), IsMarker(m)
  PROVE  m \in From(Line, h)
<1>1. ASSUME NEW k, NEW f, Kept(Line, Line', k, f)
      PROVE  m \in From(Line, h)
  BY <1>1 DEF Kept
<1>2. CASE Collate
  <2>1. PICK b : b = Frame(Len(sent) + 1)
    OBVIOUS
  <2>2. IsFrame(b) /\ Adds(Line, Line', 6, b)
    BY <1>2, <2>1, CollateLine
  <2>3. m \in From(Line, h) \/ m = b
    BY <2>2, LinesNow, FromAdded, PartIs, ReadsAreParts
  <2>4. QED  BY <2>2, <2>3, Kinds
<1>3. CASE Queuing
  BY <1>1, <1>3, QueuingKept DEF OneMarker
<1>4. CASE PassToManifestor
  BY <1>1, <1>4, KeptPassToManifestor
<1>5. QED  BY <1>2, <1>3, <1>4, StepsAre

LEMMA AheadStep ==
  ASSUME Types, Types', Contents, InOrder(sent, Line), Discards, OneMarker, Numbers, Agree,
         [Next]_vars, NEW k \in Known
  PROVE  Ahead(k)'
<1>1. SUFFICES ASSUME NEW p \in Readers, seen'[p] < k[2]
               PROVE  MarkerFrom(Place(p), k[1])'
  BY DEF Ahead
<1>2. seen[p] < k[2] /\ k[2] \in Int /\ seen'[p] \in Int
  BY <1>1, SeenGrows, KnownTyped
<1>3. MarkerFrom(Place(p), k[1])
  BY <1>2 DEF Agree, Ahead
<1>4. PICK m \in From(Line, Place(p)) : IsMarker(m) /\ m.n = k[1]
  BY <1>3 DEF MarkerFrom, MarkerIn
<1>5. m \in From(Line, 1)
  BY <1>4, FromPart, PlaceIs, PartsAreNumbers
<1>6. m.seq = k[2]
  BY <1>4, <1>5, MarkerNumbered
<1>7. ~Sees(p, m)
  <2>1. ASSUME Sees(p, m)  PROVE FALSE
    <3>1. seen'[p] >= m.seq
      BY <2>1, SeesIs
    <3>2. QED  BY <1>1, <1>2, <1>6, <3>1
  <2>2. QED  BY <2>1
<1>8. m \in From(Line', Place(p))
  BY <1>4, <1>7, MarkerStays
<1>9. QED  BY <1>4, <1>8 DEF MarkerFrom, MarkerIn

(* Behind what a process sees after the last drain there is no marker.     *)
LEMMA HeadLast ==
  ASSUME Types, Types', Contents, InOrder(sent, Line), OneMarker, Numbers,
         NEW p \in Readers, NEW b, Sees(p, b), After(b),
         NEW m \in From(Line', Place(p)), IsMarker(m)
  PROVE  FALSE
<1>1. /\ Line[Place(p)] # << >> /\ b.kind = Line[Place(p)][1].kind
      /\ b.n = Line[Place(p)][1].n
      /\ Line'[Place(p)] = Tail(Line[Place(p)])
      /\ \A j \in Parts : j > Place(p) => Line'[j] = Line[j]
  BY SeesIs
<1>2. Place(p) \in Parts /\ Line \in Lines /\ Line[Place(p)] \in Seq(Buffer) /\ marked \in Nat
  BY PlaceIs, LineTyped, LineFacts, CountTypes DEF Counts
<1>3. PICK h : h = Line[Place(p)][1]
  OBVIOUS
<1>4. h \in Items(Line[Place(p)]) /\ h \in From(Line, 1)
  <2>1. h \in Items(Line[Place(p)])
    BY <1>1, <1>2, <1>3, ItemsTail, TailFacts
  <2>2. QED  BY <1>2, <2>1, FromPart, PartsAreNumbers
<1>5. PICK j \in Parts : j >= Place(p) /\ m \in Items(Line'[j])
  BY FromPart
<1>6. Precedes(sent, h, m) /\ m \in Items(Line[j])
  <2>1. CASE j = Place(p)
    <3>1. m \in Items(Tail(Line[Place(p)]))
      BY <1>1, <1>5, <2>1
    <3>2. QED  BY <1>1, <1>2, <1>3, <2>1, <3>1, HeadPrecedes, ItemsTail
  <2>2. CASE j # Place(p)
    <3>1. j > Place(p)
      BY <1>2, <1>5, <2>2, PartsAreNumbers
    <3>2. QED  BY <1>1, <1>2, <1>3, <1>5, <3>1, HeadPrecedes
  <2>3. QED  BY <2>1, <2>2
<1>7. m \in From(Line, 1) /\ m.n = marked
  <2>1. m \in From(Line, 1)
    BY <1>6, FromPart, PartsAreNumbers
  <2>2. QED  BY <2>1, MarkerIs DEF OneMarker, MarkersLast
<1>8. CASE IsMarker(b)
  <2>1. IsMarker(h)
    BY <1>1, <1>3, <1>8 DEF IsMarker
  <2>2. h.n = marked
    BY <1>4, <2>1, MarkerIs DEF OneMarker, MarkersLast
  <2>3. QED  BY <1>2, <1>6, <1>7, <2>1, <2>2 DEF Precedes
<1>9. CASE IsFrame(b) /\ Behind(b) = marked
  <2>1. IsFrame(h) /\ Behind(h) = marked
    BY <1>1, <1>3, <1>9 DEF IsFrame, Behind
  <2>2. QED  BY <1>2, <1>6, <1>7, <2>1 DEF Precedes, Behind
<1>10. QED  BY <1>8, <1>9 DEF After

(* What is seen with a number above that of the last drain is After it.    *)
LEMMA SeenAfter ==
  ASSUME Types, Types', Contents, InOrder(sent, Line), OneMarker, Numbers, Agree,
         NEW k \in Known, k[1] = marked, NEW p \in Readers, NEW b, Sees(p, b), b.seq >= k[2]
  PROVE  After(b)
<1>1. (AFrame(b) \/ AMarker(b)) /\ b.seq \in Int /\ k[2] \in Int /\ marked \in Nat
  BY SeesIs, KnownTyped, CountTypes DEF Counts
<1>2. SUFFICES ASSUME AFrame(b)  PROVE Behind(b) = marked
  BY <1>1 DEF After, AFrame, AMarker
<1>3. \/ Behind(b) >= k[1] /\ b.seq > k[2]
      \/ Behind(b) < k[1] /\ b.seq < k[2]
  <2>1. CASE CollateToParse /\ b = Parsed
    BY <1>1, <1>2, <2>1, ParsedApart
  <2>2. CASE Take(p) /\ b = Head(ring[p])
    <3>1. /\ p \in {"PtoD", "DtoM"} /\ Line[Place(p)] # << >> /\ Line[Place(p)][1] = b
      BY <2>2, TakeLine, PlaceIs
    <3>2. b \in Items(Line[Place(p)]) /\ Place(p) \in Parts \ {6}
      <4>1. Line[Place(p)] \in Seq(Buffer)
        BY LineTyped, LineFacts, PlaceIs
      <4>2. b \in Items(Line[Place(p)])
        BY <3>1, <4>1, ItemsTail, TailFacts
      <4>3. QED  BY <3>1, <4>2, PlaceIs, PartIs
    <3>3. b \in Numbered
      BY <1>2, <3>2, LowerIs, NumberedAre DEF AFrame
    <3>4. QED  BY <3>3 DEF Agree, Apart
  <2>3. QED  BY <2>1, <2>2 DEF Sees
<1>4. Behind(b) \in 0 .. marked
  BY <1>2, BehindIs
<1>5. QED  BY <1>1, <1>3, <1>4

LEMMA MetReaders ==
  ASSUME Types, Types', Contents, InOrder(sent, Line), Discards, OneMarker, Numbers, Agree,
         [Next]_vars, ~MarkerInsert, NEW k \in Known, k[1] = marked,
         NEW p \in Readers, seen'[p] >= k[2]
  PROVE  ~SomeMarker(Place(p))'
<1>0. k[2] \in Int /\ seen[p] \in Int /\ seen'[p] \in Int /\ Place(p) \in Reads
  BY KnownTyped, SeenGrows, PlaceIs DEF Readers, Reads
<1>1. SUFFICES ASSUME NEW m \in From(Line', Place(p)), IsMarker(m)  PROVE FALSE
  BY DEF SomeMarker
<1>2. CASE seen[p] >= k[2]
  <2>1. ~SomeMarker(Place(p))
    BY <1>2 DEF Agree, Met
  <2>2. m \in From(Line, Place(p))
    BY <1>0, <1>1, NoNewMarkers
  <2>3. QED  BY <1>1, <2>1, <2>2 DEF SomeMarker
<1>3. CASE seen[p] < k[2]
  <2>1. PICK b : Sees(p, b)
    BY <1>0, <1>3, SeenBy
  <2>2. b.seq >= k[2]
    BY <1>0, <1>3, <2>1, SeesIs
  <2>3. QED  BY <1>1, <2>1, <2>2, SeenAfter, HeadLast
<1>4. QED  BY <1>0, <1>2, <1>3

LEMMA MetPostManifest ==
  ASSUME Types, Types', Contents, InOrder(sent, Line), Discards, OneMarker, Numbers, Agree,
         [Next]_vars, ~MarkerInsert, NEW k \in Known, k[1] = marked, seen'["PostM"] >= k[2]
  PROVE  Markers' = {}
<1>0. k[2] \in Int /\ seen["PostM"] \in Int /\ marked \in Nat /\ ring["PostM"] \in Seq(Buffer)
  BY KnownTyped, FnTypes, ProcessIs, CountTypes DEF Counts
<1>1. SUFFICES ASSUME NEW m, m \in Markers'  PROVE FALSE
  OBVIOUS
<1>2. m \in Markers
  BY <1>1, MarkersStep
<1>3. CASE seen["PostM"] >= k[2]
  BY <1>2, <1>3 DEF Agree, Met
<1>4. CASE seen["PostM"] < k[2]
  <2>1. PostManifest
    <3>1. seen'["PostM"] # seen["PostM"]
      BY <1>0, <1>4
    <3>2. ASSUME NEW q \in Processes, q # "PostM", NEW s, seen' = Raised(q, s)
          PROVE  FALSE
      BY <3>1, <3>2, FnTypes, ProcessIs DEF Raised
    <3>3. ~CollateToParse /\ \A q \in Processes : ~Take(q)
      BY <3>2, ProcessIs DEF CollateToParse, Take
    <3>4. QED
      BY <3>1, <3>3 DEF Next, ProcessStep, PassToCodec, PassToManifestor, DecodeComplete,
         Manifested, Launch, TakeCall, Finish, ClientStep, DiscardQueuedDecodes,
         ReleaseQueuedDecodeBuffers, MarkerNumber, MarkerInsert, CallInSequence, SwitchCollator,
         WaitForDrainCompletion, Collate, processVars, vars
  <2>2. PICK b : b = Head(ring["PostM"])
    OBVIOUS
  <2>3. /\ ring["PostM"] # << >> /\ ~IsCall(b) /\ ring'["PostM"] = Tail(ring["PostM"])
        /\ seen'["PostM"] = IF b.seq > seen["PostM"] THEN b.seq ELSE seen["PostM"]
    BY <2>1, <2>2, FnTypes, ProcessIs DEF PostManifest, Raised
  <2>4. b \in Items(ring["PostM"]) /\ b \in Buffer /\ b = ring["PostM"][1]
    BY <2>2, <2>3, HeadTypes, ProcessIs
  <2>5. (AFrame(b) \/ AMarker(b)) /\ b.seq \in Int /\ b.seq >= k[2] /\ b \in Queued
    <3>1. AFrame(b) \/ AMarker(b)
      BY <2>3, <2>4, ProcessIs DEF Contents, ACall
    <3>2. b.seq \in Int
      BY <2>4, BufferFacts
    <3>3. b.seq >= k[2]
      BY <1>0, <1>4, <2>3, <3>2
    <3>4. QED  BY <2>4, <3>1, <3>2, <3>3 DEF Queued
  <2>6. After(b)
    <3>1. SUFFICES ASSUME AFrame(b)  PROVE Behind(b) = marked
      BY <2>5 DEF After, AFrame, AMarker
    <3>2. b \in Numbered
      BY <2>5, <3>1, NumberedAre DEF AFrame
    <3>3. Behind(b) >= k[1]
      BY <1>0, <2>5, <3>2 DEF Agree, Apart
    <3>4. Behind(b) \in 0 .. marked
      BY <3>1, BehindIs
    <3>5. QED  BY <1>0, <3>3, <3>4
  <2>7. ~SomeMarker(1)
    BY <2>5, <2>6 DEF OneMarker, QueuedBefore
  <2>8. IsMarker(m) /\ (m \in From(Line', 1) \/ m \in Items(ring'["PostM"]))
    BY <1>1 DEF Markers, IsMarker, From, Items
  <2>9. Line' = Line
    BY <2>1, OtherLines
  <2>10. m \in Items(Tail(ring["PostM"]))
    BY <2>3, <2>7, <2>8, <2>9 DEF SomeMarker
  <2>11. PICK i \in 1 .. Len(Tail(ring["PostM"])) : m = Tail(ring["PostM"])[i]
    BY <2>10 DEF Items
  <2>12. /\ i + 1 \in 1 .. Len(ring["PostM"]) /\ m = ring["PostM"][i + 1] /\ 1 < i + 1
         /\ 1 \in 1 .. Len(ring["PostM"])
    BY <1>0, <2>3, <2>11, TailFacts
  <2>13. QED  BY <2>4, <2>6, <2>8, <2>12 DEF OneMarker, QueueOrdered
<1>5. QED  BY <1>0, <1>3, <1>4

LEMMA MetStep ==
  ASSUME Types, Types', Contents, InOrder(sent, Line), Discards, OneMarker, Numbers, Agree,
         [Next]_vars, NEW k \in Known
  PROVE  Met(k)'
<1>1. SUFFICES ASSUME k[1] = marked'
               PROVE  /\ \A p \in Readers : seen'[p] >= k[2] => ~SomeMarker(Place(p))'
                      /\ seen'["PostM"] >= k[2] => Markers' = {}
  BY DEF Met
<1>2. k[1] \in 1 .. marked /\ marked \in Nat
  BY CountTypes DEF Agree, Counts
<1>3. ~MarkerInsert /\ k[1] = marked
  BY <1>1, <1>2, BehindStep
<1>4. QED  BY <1>3, MetReaders, MetPostManifest

LEMMA MarkerInsertAgrees ==
  ASSUME Types, Types', Contents, Contents', InOrder(sent, Line), Discards, OneMarker, Numbers,
         Agree, MarkerInsert, NEW k, k = <<launched, drain.seq>>
  PROVE  /\ k[1] \in 1 .. marked'
         /\ \A l \in Known : k[1] # l[1]
         /\ Apart(k)' /\ Ahead(k)' /\ Met(k)'
<1>0. [Next]_vars
  BY DEF Next, ClientStep
<1>1. PICK b : b = Marker(launched)
  OBVIOUS
<1>2. /\ b \in Buffer /\ IsMarker(b) /\ b.n = launched /\ launched = marked + 1
      /\ marked' = launched /\ Adds(Line, Line', 6, b)
  BY <1>1, MarkerInsertLine
<1>3. /\ marked \in Nat /\ next \in Nat /\ Len(sent) \in Nat /\ MaxFrames \in Nat
      /\ Len(sent) <= MaxFrames
  BY StreamAssumption, CountTypes DEF Counts, Types
<1>4. k[1] = marked + 1 /\ k[2] = drain.seq /\ drain.seq \in Int /\ drain.seq >= next
  <2>1. Room(drain.seq) /\ drain.seq \in Int
    BY DEF MarkerInsert, Numbers, Types
  <2>2. drain.seq >= next + MaxFrames - Len(sent)
    BY <2>1 DEF Room
  <2>3. QED  BY <1>2, <1>3, <2>1, <2>2
<1>5. k[1] \in 1 .. marked'
  BY <1>2, <1>3, <1>4
<1>6. ASSUME NEW l \in Known  PROVE k[1] # l[1]
  <2>1. l[1] \in 1 .. marked
    BY DEF Agree
  <2>2. QED  BY <1>3, <1>4, <2>1
<1>7. Apart(k)'
  <2>1. SUFFICES ASSUME NEW f, f \in Numbered'
                 PROVE  sent'[f.n].drains < k[1] /\ f.seq < k[2]
    BY DEF Apart, Behind
  <2>2. f \in Numbered
    <3>1. ~CollateToParse
      <4>1. marked' # marked
        BY <1>2, <1>3
      <4>2. QED  BY <4>1 DEF CollateToParse, clientVars
    <3>2. QED  BY <1>0, <2>1, <3>1, NumberedStep
  <2>3. AFrame(f) /\ f.seq \in Int /\ f.seq < next
    BY <2>2, NumberedTyped DEF Numbers
  <2>4. sent'[f.n].drains \in 0 .. marked
    <3>1. sent'[f.n].drains = Behind(f)
      BY <1>0, <2>3, BehindStep
    <3>2. QED  BY <2>3, <3>1, BehindIs
  <2>5. f.seq < k[2]
    <3>1. PICK x \in Int : x = drain.seq
      BY <1>4
    <3>2. f.seq < x
      BY <1>3, <1>4, <2>3, <3>1
    <3>3. QED  BY <1>4, <3>1, <3>2
  <2>6. sent'[f.n].drains < k[1]
    BY <1>3, <1>4, <2>4
  <2>7. QED  BY <2>5, <2>6
<1>8. Ahead(k)'
  <2>1. ASSUME NEW p \in Readers  PROVE MarkerFrom(Place(p), k[1])'
    <3>1. Place(p) \in Parts /\ Place(p) <= 6
      BY PlaceIs, PartsAreNumbers
    <3>2. b \in From(Line', Place(p))
      BY <1>2, <3>1, LinesNow, FromAdded, PartIs
    <3>3. b.n = k[1]
      BY <1>2, <1>4
    <3>4. QED  BY <1>2, <3>2, <3>3 DEF MarkerFrom, MarkerIn
  <2>2. QED  BY <2>1 DEF Ahead
<1>9. Met(k)'
  <2>1. \A p \in Processes : ~(seen'[p] >= k[2])
    <3>1. seen' = seen
      BY DEF MarkerInsert
    <3>2. \A p \in Processes : seen[p] < next /\ seen[p] \in Int
      BY FnTypes DEF Numbers
    <3>3. QED  BY <1>3, <1>4, <3>1, <3>2
  <2>2. QED  BY <2>1, PlaceIs, ProcessIs DEF Met
<1>10. QED  BY <1>5, <1>6, <1>7, <1>8, <1>9

LEMMA AgreeNext ==
  ASSUME Types, Types', Contents, Contents', InOrder(sent, Line), Discards, OneMarker, Numbers,
         Agree, [Next]_vars
  PROVE  Agree'
<1>1. ASSUME NEW k \in Known
      PROVE  k[1] \in 1 .. marked' /\ Apart(k)' /\ Ahead(k)' /\ Met(k)'
  <2>1. k[1] \in 1 .. marked /\ marked \in Nat
    BY CountTypes DEF Agree, Counts
  <2>2. k[1] \in 1 .. marked'
    BY <2>1, BehindStep
  <2>3. QED  BY <2>2, ApartStep, AheadStep, MetStep
<1>2. ASSUME NEW k, k \in Known', NEW l, l \in Known', k[1] = l[1]
      PROVE  k[2] = l[2]
  <2>1. \A x : x \in Known' => x \in Known \/ (MarkerInsert /\ x = <<launched, drain.seq>>)
    BY KnownStep
  <2>2. CASE k \in Known /\ l \in Known
    BY <1>2, <2>2 DEF Agree
  <2>3. CASE MarkerInsert
    <3>1. \A x \in Known : launched # x[1]
      <4>1. PICK x : x = <<launched, drain.seq>>
        OBVIOUS
      <4>2. \A y \in Known : x[1] # y[1]
        BY <2>3, <4>1, MarkerInsertAgrees
      <4>3. QED  BY <4>1, <4>2
    <3>2. QED  BY <1>2, <2>1, <2>2, <3>1
  <2>4. QED  BY <1>2, <2>1, <2>2, <2>3
<1>3. ASSUME NEW k, k \in Known'
      PROVE  k[1] \in 1 .. marked' /\ Apart(k)' /\ Ahead(k)' /\ Met(k)'
  <2>1. CASE k \in Known
    BY <1>1, <2>1
  <2>2. CASE MarkerInsert /\ k = <<launched, drain.seq>>
    BY <2>2, MarkerInsertAgrees
  <2>3. QED  BY <1>3, <2>1, <2>2, KnownStep
<1>4. ASSUME NEW k, k \in Known'  PROVE Agrees(k)'
  BY <1>2, <1>3, <1>4 DEF Agrees
<1>5. QED  BY <1>4, AgreeIs

-----------------------------------------------------------------------------
(* Drained.                                                                *)
LEMMA PerformDrained ==
  ASSUME NEW calls, Perform(calls), drained \in BOOLEAN
  PROVE  (drained => drained') /\ (drained' => drained \/ Named(calls, "SetDrained"))
  BY DEF Perform

LEMMA DrainedStep ==
  ASSUME Types, Contents, [Next]_vars, drained', ~drained
  PROVE  \E c :
           /\ IsCall(c) /\ c.kind = "SetDrained" /\ c \in Pending("PostM")
           /\ \/ /\ PostManifest /\ c \in after["PostM"]
                 /\ c.seq <= Head(ring["PostM"]).seq
              \/ TakeCall("PostM") /\ c = Head(ring["PostM"]) /\ c.seq <= seen["PostM"]
<1> DEFINE Goal == \E c :
           /\ IsCall(c) /\ c.kind = "SetDrained" /\ c \in Pending("PostM")
           /\ \/ /\ PostManifest /\ c \in after["PostM"]
                 /\ c.seq <= Head(ring["PostM"]).seq
              \/ TakeCall("PostM") /\ c = Head(ring["PostM"]) /\ c.seq <= seen["PostM"]
<1>0. drained \in BOOLEAN /\ Destination("SetDrained") = "PostM" /\ "SetDrained" \notin Befores
  BY DEF Types, Destination, Befores
<1>1. ASSUME NEW calls, Perform(calls)
      PROVE  \E c \in calls : c.kind = "SetDrained"
  BY <1>0, <1>1, PerformDrained DEF Named
<1>2. ASSUME NEW p \in Processes, NEW c \in Tables(p), c.kind = "SetDrained"
      PROVE  p = "PostM" /\ c \in after[p] /\ IsCall(c) /\ c \in Pending(p)
  BY <1>0, <1>2 DEF Contents, ACall, Tables, Pending
<1>3. ASSUME NEW p \in Processes, NEW S, NEW T, S \subseteq before[p],
             T \subseteq after[p], Perform(S \cup T)
      PROVE  p = "PostM" /\ \E c \in T : c.kind = "SetDrained" /\ IsCall(c) /\ c \in Pending(p)
  <2>1. PICK c \in S \cup T : c.kind = "SetDrained"
    BY <1>1, <1>3
  <2>2. c \in Tables(p)
    BY <1>3 DEF Tables
  <2>3. p = "PostM" /\ c \in after[p] /\ IsCall(c) /\ c \in Pending(p)
    BY <1>2, <2>1, <2>2
  <2>4. c \in T
    <3>1. c \notin before[p]
      BY <1>0, <2>1 DEF Contents
    <3>2. QED  BY <1>3, <2>1, <3>1
  <2>5. QED  BY <2>1, <2>3, <2>4
<1>4. ~CollateToParse
  <2>1. ASSUME CollateToParse  PROVE FALSE
    <3>1. PICK b : Perform(Due(before["CtoP"], b.seq))
      BY <2>1 DEF CollateToParse
    <3>2. PICK c \in Due(before["CtoP"], b.seq) : c.kind = "SetDrained"
      BY <1>1, <3>1
    <3>3. c \in Tables("CtoP")
      BY <3>2 DEF Due, Tables
    <3>4. QED  BY <1>2, <3>2, <3>3, ProcessIs
  <2>2. QED  BY <2>1
<1>5. ASSUME NEW p \in Processes, Take(p)  PROVE FALSE
  <2>1. PICK b : b = Head(ring[p])
    OBVIOUS
  <2>2. Perform(Due(before[p], b.seq)
                 \cup (IF p = "DtoM" /\ IsMarker(b) THEN Due(after[p], b.seq) ELSE {}))
    BY <1>5, <2>1 DEF Take
  <2>3. PICK S, T : /\ S = Due(before[p], b.seq)
                    /\ T = IF p = "DtoM" /\ IsMarker(b) THEN Due(after[p], b.seq) ELSE {}
    OBVIOUS
  <2>4. S \subseteq before[p] /\ T \subseteq after[p]
    BY <2>3 DEF Due
  <2>5. Perform(S \cup T)
    BY <2>2, <2>3
  <2>6. p = "PostM"
    BY <1>3, <2>4, <2>5
  <2>7. QED  BY <1>5, <2>6 DEF Take
<1>6. ASSUME NEW p \in Processes, Finish(p)  PROVE FALSE
  <2>1. Perform(Due(after[p], hand[p].seq))
    BY <1>6 DEF Finish
  <2>2. PICK c \in Due(after[p], hand[p].seq) : c.kind = "SetDrained"
    BY <1>1, <2>1
  <2>3. c \in Tables(p)
    BY <2>2 DEF Due, Tables
  <2>4. p = "PostM"
    BY <1>2, <2>2, <2>3
  <2>5. pc[p] = "finish"
    BY <1>6 DEF Finish, At
  <2>6. QED  BY <2>4, <2>5 DEF Types
<1>7. CASE PostManifest
  <2>1. PICK b : b = Head(ring["PostM"])
    OBVIOUS
  <2>2. Perform(Due(before["PostM"], b.seq) \cup Due(after["PostM"], b.seq))
    BY <1>7, <2>1 DEF PostManifest
  <2>3. PICK S, T : S = Due(before["PostM"], b.seq) /\ T = Due(after["PostM"], b.seq)
    OBVIOUS
  <2>4. S \subseteq before["PostM"] /\ T \subseteq after["PostM"]
    BY <2>3 DEF Due
  <2>5. Perform(S \cup T)
    BY <2>2, <2>3
  <2>6. PICK c \in T : c.kind = "SetDrained" /\ IsCall(c) /\ c \in Pending("PostM")
    BY <1>3, <2>4, <2>5, ProcessIs
  <2>7. c \in after["PostM"] /\ c.seq <= b.seq
    BY <2>3, <2>6 DEF Due
  <2>8. QED  BY <1>7, <2>1, <2>6, <2>7
<1>8. ASSUME NEW p \in Processes, TakeCall(p)  PROVE Goal
  <2>1. PICK c : c = Head(ring[p])
    OBVIOUS
  <2>2. IsCall(c) /\ c \in Items(ring[p]) /\ c \in Pending(p)
    BY <1>8, <2>1, TakeCallIs
  <2>3. Perform(IF c.seq <= seen[p] THEN {c} ELSE {})
    BY <1>8, <2>1 DEF TakeCall
  <2>4. c.seq <= seen[p] /\ c.kind = "SetDrained"
    BY <1>1, <2>3
  <2>5. p = "PostM"
    BY <1>0, <2>2, <2>4, PendingAre
  <2>6. QED  BY <1>8, <2>1, <2>2, <2>4, <2>5
<1>9. CASE UNCHANGED drained \/ MarkerInsert
  BY <1>9 DEF MarkerInsert
<1>10. CASE \/ PassToCodec \/ PassToManifestor \/ DecodeComplete \/ Manifested
            \/ \E mode \in {"block", "return", "switch"}, discard \in BOOLEAN : Launch(mode, discard)
            \/ ClientStep \/ Collate \/ UNCHANGED vars
  BY <1>9, <1>10 DEF PassToCodec, PassToManifestor, DecodeComplete, Manifested, Launch,
       ClientStep, DiscardQueuedDecodes, ReleaseQueuedDecodeBuffers, MarkerNumber,
       CallInSequence, SwitchCollator, WaitForDrainCompletion, Collate, vars
<1>11. QED
  BY <1>4, <1>5, <1>6, <1>7, <1>8, <1>10 DEF Next, ProcessStep

LEMMA DrainedStays ==
  ASSUME Types, [Next]_vars, drained, ~MarkerInsert  PROVE drained'
<1>1. ASSUME NEW calls, Perform(calls)  PROVE drained'
  BY <1>1, PerformDrained DEF Types
<1>2. QED
  BY <1>1, ZenonT(60) DEF Next, ProcessStep, CollateToParse, Take, TakeCall, Finish, PostManifest,
       PassToCodec, PassToManifestor, DecodeComplete, Manifested, Launch,
       ClientStep, DiscardQueuedDecodes, ReleaseQueuedDecodeBuffers, MarkerNumber,
       CallInSequence, SwitchCollator, WaitForDrainCompletion, Collate, vars

-----------------------------------------------------------------------------
(* A drain's calls and markers, and whether it is complete.                *)
LEMMA EnteringStep ==
  ASSUME Types, [Next]_vars, pc'[Client] \in Entering
  PROVE  \/ pc[Client] \in Entering /\ ~MarkerInsert
         \/ /\ \E mode \in {"block", "return", "switch"}, discard \in BOOLEAN : Launch(mode, discard)
            /\ pc[Client] = "idle" /\ UNCHANGED <<drained, marked>>
            /\ Patient => launched = 0 \/ drained
<1>0. pc \in [Processes \cup {Client} -> Places]
  BY FnTypes
<1>1. CASE MarkerInsert
  BY <1>0, <1>1 DEF MarkerInsert, Goto, Entering
<1>2. ASSUME NEW p \in Processes, NEW l, Goto(p, l)  PROVE UNCHANGED pc[Client]
  BY <1>2, ProcessIs DEF Goto
<1>3. CASE \/ \E p \in Processes : ProcessStep(p)
           \/ DecodeComplete \/ Manifested \/ Collate \/ UNCHANGED vars
  <2>1. UNCHANGED pc[Client]
    BY <1>2, <1>3, ProcessIs, ZenonT(60)
     DEF ProcessStep, TakeCall, Finish, Take, CollateToParse, PassToCodec, PassToManifestor,
         PostManifest, DecodeComplete, Manifested, Collate, Passed, processVars, vars
  <2>2. QED  BY <1>1, <2>1
<1>4. CASE DiscardQueuedDecodes \/ ReleaseQueuedDecodeBuffers \/ MarkerNumber
  BY <1>1, <1>4 DEF DiscardQueuedDecodes, ReleaseQueuedDecodeBuffers, MarkerNumber, At, Entering
<1>5. CASE SwitchCollator \/ WaitForDrainCompletion
  BY <1>0, <1>5 DEF SwitchCollator, WaitForDrainCompletion, Goto, Entering
<1>6. ASSUME NEW fn \in Functions, CallInSequence(fn)  PROVE FALSE
  <2>1. pc'[Client] = NextCall(fn) /\ drain.mode \in {"block", "return", "switch"}
    BY <1>0, <1>6 DEF CallInSequence, Goto, Types
  <2>2. QED  BY <2>1, NotEntering
<1>7. ASSUME NEW mode \in {"block", "return", "switch"}, NEW discard \in BOOLEAN,
             Launch(mode, discard)
      PROVE  pc[Client] = "idle" /\ UNCHANGED <<drained, marked>>
             /\ (Patient => launched = 0 \/ drained)
  BY <1>7 DEF Launch, At
<1>8. QED
  BY <1>1, <1>3, <1>4, <1>5, <1>6, <1>7 DEF Next, ClientStep

LEMMA EnteringNext ==
  ASSUME Patient, Types, Types', Contents, DrainsComplete, [Next]_vars, pc'[Client] \in Entering
  PROVE  drained' \/ marked' = 0
<1>1. CASE pc[Client] \in Entering /\ ~MarkerInsert
  <2>1. drained \/ marked = 0
    BY <1>1 DEF DrainsComplete
  <2>2. marked' = marked
    BY <1>1, BehindStep
  <2>3. QED  BY <1>1, <2>1, <2>2, DrainedStays
<1>2. CASE pc[Client] = "idle" /\ UNCHANGED <<drained, marked>> /\ (launched = 0 \/ drained)
  <2>1. launched = marked
    BY <1>2 DEF Contents, Entering
  <2>2. QED  BY <1>2, <2>1
<1>3. QED  BY <1>1, <1>2, EnteringStep

LEMMA DrainCallsNext ==
  ASSUME Types, Types', Contents, Contents', DrainsComplete, [Next]_vars,
         NEW c, c \in Pending("PostM")', c.kind = "SetDrained"
  PROVE  c.n = marked'
<1>0. marked \in Nat /\ "PostM" \in Processes
  BY CountTypes, ProcessIs DEF Counts
<1>1. CASE MarkerInsert
  <2>1. pc[Client] = "insert"
    BY <1>1 DEF MarkerInsert, At
  <2>2. c \in Pending("PostM")
    BY <2>1, PendingStep, ProcessIs DEF CallInSequence, At, Functions
  <2>3. drained \/ marked = 0
    BY <2>1 DEF DrainsComplete, Entering
  <2>4. c.n \in 1 .. marked
    BY <2>2, PendingAre, ProcessIs
  <2>5. drained
    BY <1>0, <2>3, <2>4
  <2>6. QED  BY <2>2, <2>5 DEF DrainsComplete
<1>2. CASE ~MarkerInsert
  <2>1. marked' = marked
    BY <1>2, BehindStep
  <2>2. CASE c \in Pending("PostM")
    BY <2>1, <2>2 DEF DrainsComplete
  <2>3. ASSUME NEW fn \in Functions, CallInSequence(fn), c = Call(fn)
        PROVE  c.n = marked
    <3>1. \A b : b = Call(fn) => b.n = launched /\ launched = marked
      BY <1>0, <2>3, CallInSequenceIs
    <3>2. QED  BY <2>3, <3>1
  <2>4. QED  BY <2>1, <2>2, <2>3, PendingStep, ProcessIs
<1>3. QED  BY <1>1, <1>2

LEMMA DrainCallStep ==
  ASSUME Types, [Next]_vars, ~MarkerInsert, pc'[Client] \in {"ResetTimeMapping", "SetDrained"}
  PROVE  pc[Client] \in {"ResetTimeMapping", "SetDrained"}
<1>0. pc \in [Processes \cup {Client} -> Places]
  BY FnTypes
<1>2. ASSUME NEW p \in Processes, NEW l, Goto(p, l)  PROVE UNCHANGED pc[Client]
  BY <1>2, ProcessIs DEF Goto
<1>3. CASE \/ \E p \in Processes : ProcessStep(p)
           \/ DecodeComplete \/ Manifested \/ Collate \/ UNCHANGED vars
  <2>1. UNCHANGED pc[Client]
    BY <1>2, <1>3, ProcessIs, ZenonT(60)
     DEF ProcessStep, TakeCall, Finish, Take, CollateToParse, PassToCodec, PassToManifestor,
         PostManifest, DecodeComplete, Manifested, Collate, Passed, processVars, vars
  <2>2. QED  BY <2>1
<1>4. CASE DiscardQueuedDecodes \/ ReleaseQueuedDecodeBuffers \/ MarkerNumber
           \/ SwitchCollator \/ WaitForDrainCompletion
           \/ \E mode \in {"block", "return", "switch"}, discard \in BOOLEAN : Launch(mode, discard)
  BY <1>0, <1>4 DEF DiscardQueuedDecodes, ReleaseQueuedDecodeBuffers, MarkerNumber, Goto,
     SwitchCollator, WaitForDrainCompletion, Launch
<1>6. ASSUME NEW fn \in Functions, CallInSequence(fn)
      PROVE  pc[Client] = "ResetTimeMapping"
  <2>1. pc[Client] = fn /\ pc'[Client] = NextCall(fn)
    BY <1>0, <1>6 DEF CallInSequence, At, Goto
  <2>2. drain.mode \in {"block", "return", "switch"}
    BY DEF Types
  <2>3. QED  BY <2>1, <2>2 DEF NextCall, Functions
<1>8. QED
  BY <1>3, <1>4, <1>6 DEF Next, ClientStep

-----------------------------------------------------------------------------
(* A drain that is complete stays so until the next marker.                *)
LEMMA StillDrained ==
  ASSUME Types, Types', Contents, Contents', InOrder(sent, Line), Discards, OneMarker,
         DrainsComplete, [Next]_vars, drained, ~MarkerInsert
  PROVE  /\ Markers' = {}
         /\ \A c : c \in Pending("PostM")' => c.kind # "SetDrained"
         /\ pc'[Client] \notin {"ResetTimeMapping", "SetDrained"}
<1>0. /\ Markers = {} /\ \A c \in Pending("PostM") : c.kind # "SetDrained"
      /\ pc[Client] \notin {"ResetTimeMapping", "SetDrained"}
  BY DEF DrainsComplete
<1>1. ASSUME NEW m, m \in Markers'  PROVE FALSE
  BY <1>0, <1>1, MarkersStep
<1>2. ASSUME NEW c, c \in Pending("PostM")', c.kind = "SetDrained"  PROVE FALSE
  <2>1. c \notin Pending("PostM")
    BY <1>0, <1>2
  <2>2. PICK fn \in Functions : CallInSequence(fn) /\ c = Call(fn)
    BY <1>2, <2>1, PendingStep, ProcessIs
  <2>3. pc[Client] = fn /\ c.kind = fn
    BY <2>2 DEF CallInSequence, At, Call
  <2>4. QED  BY <1>0, <1>2, <2>3
<1>3. QED  BY <1>0, <1>1, <1>2, DrainCallStep

(* The call that completes a drain, and what is left when it is made.      *)
LEMMA SetDrainedStep ==
  ASSUME Types, Types', Contents, Contents', CallsOnce, Agree, DrainsComplete, [Next]_vars,
         drained', ~drained
  PROVE  /\ ~MarkerInsert
         /\ \A d : d \in Pending("PostM")' => d.kind # "SetDrained"
         /\ pc'[Client] \notin {"ResetTimeMapping", "SetDrained"}
         /\ \E k \in Known : k[1] = marked /\ seen'["PostM"] >= k[2]
<1>1. PICK c :
        /\ IsCall(c) /\ c.kind = "SetDrained" /\ c \in Pending("PostM")
        /\ \/ PostManifest /\ c \in after["PostM"] /\ c.seq <= Head(ring["PostM"]).seq
           \/ TakeCall("PostM") /\ c = Head(ring["PostM"]) /\ c.seq <= seen["PostM"]
  BY DrainedStep
<1>2. /\ ring \in [Processes -> Seq(Buffer)] /\ seen \in [Processes -> Int]
      /\ after \in [Processes -> SUBSET Buffer] /\ before \in [Processes -> SUBSET Buffer]
      /\ "PostM" \in Processes /\ marked \in Nat /\ launched \in Nat
  BY FnTypes, CountTypes, ProcessIs DEF Counts
<1>3. Once("PostM")
  BY <1>2, CallsOnceAre
<1>4. c \in Buffer /\ c.seq \in Int /\ c.n = marked /\ c.n \in 1 .. marked
  <2>1. c \in Buffer /\ c.n \in 1 .. marked
    BY <1>1, <1>2, PendingAre
  <2>2. QED  BY <1>1, <2>1 DEF DrainsComplete, Buffer
<1>5. \A d \in Pending("PostM") : d.kind = "SetDrained" =>
        /\ d.n = c.n /\ <<d.n, d.seq>> \in Known
  <2>1. ASSUME NEW d \in Pending("PostM"), d.kind = "SetDrained"
        PROVE  d.n = c.n /\ <<d.n, d.seq>> \in Known
    <3>1. d.n = marked
      BY <2>1 DEF DrainsComplete
    <3>2. Base(d) = d.seq
      BY <2>1 DEF Base
    <3>3. QED  BY <1>2, <1>4, <3>1, <3>2, KnownIs
  <2>2. QED  BY <2>1
<1>6. \A d \in Pending("PostM") : d.kind = "SetDrained" => d.seq = c.seq
  <2>1. ASSUME NEW d \in Pending("PostM"), d.kind = "SetDrained"  PROVE d.seq = c.seq
    <3>1. <<d.n, d.seq>> \in Known /\ <<c.n, c.seq>> \in Known /\ d.n = c.n
      BY <1>1, <1>5, <2>1
    <3>2. \A k, l \in Known : k[1] = l[1] => k[2] = l[2]
      BY DEF Agree
    <3>3. QED  BY <3>1, <3>2
  <2>2. QED  BY <2>1
<1>7. UNCHANGED pc[Client] /\ ~MarkerInsert /\ \A fn \in Functions : ~CallInSequence(fn)
  <2>1. UNCHANGED pc
    BY <1>1 DEF PostManifest, TakeCall
  <2>2. ~MarkerInsert /\ \A fn \in Functions : ~CallInSequence(fn)
    BY DEF MarkerInsert, CallInSequence
  <2>3. QED  BY <2>1, <2>2
<1>8. \A d : d \in Pending("PostM")' => d \in Pending("PostM")
  BY <1>2, <1>7, PendingStep
<1>9. ASSUME NEW d, d \in Pending("PostM")', d.kind = "SetDrained"  PROVE FALSE
  <2>0. d \in Pending("PostM") /\ d.n = c.n /\ d.seq = c.seq /\ d.n \in Int /\ IsCall(d)
    <3>1. d \in Pending("PostM")
      BY <1>8, <1>9
    <3>2. d.n = c.n /\ d.seq = c.seq
      BY <1>5, <1>6, <1>9, <3>1
    <3>3. QED  BY <1>2, <1>4, <1>9, <3>1, <3>2 DEF IsCall, Functions
  <2>1. CASE PostManifest /\ c \in after["PostM"] /\ c.seq <= Head(ring["PostM"]).seq
    <3>1. ring["PostM"] # << >> /\ ring'["PostM"] = Tail(ring["PostM"])
      BY <1>2, <2>1 DEF PostManifest
    <3>2. CASE d \in Items(ring'["PostM"])
      <4>1. d \in Items(ring["PostM"])
        BY <1>2, <3>1, <3>2, ItemsTail
      <4>2. c.n < d.n
        BY <1>1, <1>3, <1>9, <2>1, <4>1 DEF Once, Tables
      <4>3. QED  BY <2>0, <4>2
    <3>3. CASE d \in before'["PostM"]
      <4>1. d.kind \in Befores
        BY <1>2, <3>3 DEF Contents
      <4>2. QED  BY <1>9, <4>1 DEF Befores
    <3>4. CASE d \in after'["PostM"]
      <4>1. PICK b : b = Head(ring["PostM"])
        OBVIOUS
      <4>2. after' = [after EXCEPT !["PostM"] = @ \ Due(after["PostM"], b.seq)]
        BY <2>1, <4>1 DEF PostManifest
      <4>3. d \in after["PostM"] \ Due(after["PostM"], b.seq)
        BY <1>2, <3>4, <4>2
      <4>4. ~(d.seq <= b.seq)
        BY <4>3 DEF Due
      <4>5. QED  BY <2>0, <2>1, <4>1, <4>4
    <3>5. d \in Items(ring'["PostM"]) \/ d \in before'["PostM"] \/ d \in after'["PostM"]
      BY <1>9 DEF Pending, Tables, Items
    <3>6. QED  BY <3>2, <3>3, <3>4, <3>5
  <2>2. CASE TakeCall("PostM") /\ c = Head(ring["PostM"]) /\ c.seq <= seen["PostM"]
    <3>1. /\ ring["PostM"] # << >> /\ ring'["PostM"] = Tail(ring["PostM"])
          /\ c \in Items(ring["PostM"])
      BY <1>2, <2>2, TakeCallIs
    <3>2. before' = before /\ after' = after
    BY <1>2, <2>2 DEF TakeCall
    <3>3. CASE d \in Items(ring'["PostM"])
      <4>1. CallsOrdered(ring["PostM"])
        BY <1>3 DEF Once
      <4>2. c.n < d.n
        BY <1>1, <1>2, <1>9, <2>2, <3>1, <3>3, <4>1, OrderedCallsTail
      <4>3. QED  BY <2>0, <4>2
    <3>4. CASE d \in Tables("PostM")
      <4>1. d.n < c.n
        BY <1>1, <1>3, <1>9, <3>1, <3>4 DEF Once
      <4>2. QED  BY <2>0, <4>1
    <3>5. d \in Items(ring'["PostM"]) \/ d \in Tables("PostM")
      BY <1>9, <3>2 DEF Pending, Tables, Items
    <3>6. QED  BY <3>3, <3>4, <3>5
  <2>3. QED  BY <1>1, <2>1, <2>2
<1>10. pc[Client] \notin {"ResetTimeMapping", "SetDrained"}
  <2>1. pc[Client] \notin Entering
    BY <1>2, <1>4 DEF DrainsComplete
  <2>2. c.n = launched
    BY <1>4, <2>1 DEF Contents
  <2>3. pc[Client] \in Afterwards("SetDrained")
    BY <1>1, <1>3, <2>2 DEF Once
  <2>4. QED  BY <2>3 DEF Afterwards
<1>11. seen'["PostM"] >= c.seq
  <2>1. CASE PostManifest /\ c.seq <= Head(ring["PostM"]).seq
    <3>1. PICK b : b = Head(ring["PostM"])
      OBVIOUS
    <3>2. seen' = Raised("PostM", b.seq) /\ ring["PostM"] # << >>
      BY <2>1, <3>1 DEF PostManifest
    <3>3. b.seq \in Int
      BY <1>2, <3>1, <3>2, HeadTypes DEF Buffer
    <3>4. seen'["PostM"] >= b.seq
      BY <1>2, <3>2, <3>3 DEF Raised
    <3>5. seen'["PostM"] \in Int
      BY <1>2, <3>2, <3>3 DEF Raised
    <3>6. QED  BY <1>4, <2>1, <3>1, <3>3, <3>4, <3>5
  <2>2. CASE TakeCall("PostM") /\ c.seq <= seen["PostM"]
    <3>1. seen' = seen
      BY <2>2 DEF TakeCall
    <3>2. QED  BY <1>2, <1>4, <2>2, <3>1
  <2>3. QED  BY <1>1, <2>1, <2>2
<1>12. \E k \in Known : k[1] = marked /\ seen'["PostM"] >= k[2]
  <2>1. <<c.n, c.seq>> \in Known
    BY <1>1, <1>5
  <2>2. QED  BY <1>4, <1>11, <2>1
<1>13. QED
  BY <1>7, <1>9, <1>10, <1>12

LEMMA DrainsCompleteNext ==
  ASSUME Patient, Types, Types', Contents, Contents', InOrder(sent, Line), Discards, OneMarker,
         DrainsComplete, CallsOnce, Numbers, Agree, [Next]_vars
  PROVE  DrainsComplete'
<1>1. ASSUME drained'
      PROVE  /\ Markers' = {}
             /\ \A c : c \in Pending("PostM")' => c.kind # "SetDrained"
             /\ pc'[Client] \notin {"ResetTimeMapping", "SetDrained"}
  <2>1. CASE drained
    <3>1. ~MarkerInsert
      BY <1>1 DEF MarkerInsert
    <3>2. QED  BY <2>1, <3>1, StillDrained
  <2>2. CASE ~drained
    <3>1. /\ ~MarkerInsert
          /\ \A c : c \in Pending("PostM")' => c.kind # "SetDrained"
          /\ pc'[Client] \notin {"ResetTimeMapping", "SetDrained"}
          /\ \E k \in Known : k[1] = marked /\ seen'["PostM"] >= k[2]
      BY <1>1, <2>2, SetDrainedStep
    <3>2. Markers' = {}
      BY <3>1, MetPostManifest
    <3>3. QED  BY <3>1, <3>2
  <2>3. QED  BY <2>1, <2>2
<1>2. pc'[Client] \in Entering => drained' \/ marked' = 0
  BY EnteringNext
<1>3. \A c : c \in Pending("PostM")' => (c.kind = "SetDrained" => c.n = marked')
  BY DrainCallsNext
<1>4. QED
  BY <1>1, <1>2, <1>3 DEF DrainsComplete
-----------------------------------------------------------------------------
(* The invariant of a patient client.                                      *)
LEMMA PInit ==
  ASSUME StreamAssumption, Init  PROVE PInv
<1>1. KInv
  BY KInit
<1>2. /\ ring = [p \in Processes |-> << >>] /\ pc[Client] = "idle" /\ display = << >>
      /\ before = [p \in Processes |-> {}] /\ after = [p \in Processes |-> {}]
      /\ seen = [p \in Processes |-> -1] /\ next = 0 /\ marked = 0 /\ ~drained
      /\ pc["PtoD"] = "idle" /\ pc["DtoM"] = "idle" /\ inflight = << >> /\ held = Nothing
  BY DEF Init, Processes
<1>3. \A p \in Processes : Items(ring[p]) = {} /\ Tables(p) = {} /\ Pending(p) = {} /\ ring[p] = << >>
  BY <1>2 DEF Items, Tables, Pending
<1>4. \A k \in Parts : Line[k] = << >>
  <2>1. InHand("DtoM") = << >> /\ InHand("PtoD") = << >>
    BY <1>2 DEF InHand, At
  <2>2. Codec = << >>
    BY <1>1, <1>2, CodecIs DEF KInv, CodecFits
  <2>3. QED  BY <1>3, <2>1, <2>2, LineIs, PartIs, ProcessIs
<1>5. From(Line, 1) = {} /\ Lower(Line) = {}
  BY <1>4 DEF From, Lower, Items
<1>6. Markers = {} /\ Queued = {} /\ Numbered = {} /\ ~SomeMarker(1) /\ Items(display) = {}
  BY <1>2, <1>3, <1>5, ProcessIs DEF Markers, Queued, Numbered, SomeMarker, Items
<1>7. Known = {}
  BY <1>2, <1>3, <1>6, KnownIs DEF Calling
<1>8. OneMarker
  BY <1>3, <1>5, <1>6, ProcessIs DEF OneMarker, MarkersLast, LineBehind, QueuedBefore, QueueOrdered
<1>9. DrainsComplete
  BY <1>2, <1>3, ProcessIs DEF DrainsComplete, Entering
<1>10. CallsOnce
  BY <1>3 DEF CallsOnce, CallsOrdered
<1>11. Numbers
  BY <1>2, <1>3, <1>6, ProcessIs DEF Numbers, At
<1>12. Agree
  BY <1>7 DEF Agree
<1>13. QED
  BY <1>1, <1>8, <1>9, <1>10, <1>11, <1>12 DEF PInv

LEMMA PNext ==
  ASSUME StreamAssumption, Patient, PInv, [Next]_vars  PROVE PInv'
<1>1. KInv /\ KInv'
  BY KNext DEF PInv
<1>2. /\ Types /\ Types' /\ Contents /\ Contents' /\ InOrder(sent, Line) /\ Discards
  BY <1>1 DEF KInv
<1>3. OneMarker /\ DrainsComplete /\ CallsOnce /\ Numbers /\ Agree
  BY DEF PInv
<1>4. OneMarker'
  BY <1>2, <1>3, OneMarkerNext
<1>5. DrainsComplete'
  BY <1>2, <1>3, DrainsCompleteNext
<1>6. CallsOnce'
  BY <1>2, <1>3, CallsOnceNext
<1>7. Numbers'
  BY <1>2, <1>3, NumbersNext
<1>8. Agree'
  BY <1>2, <1>3, AgreeNext
<1>9. QED
  BY <1>1, <1>4, <1>5, <1>6, <1>7, <1>8 DEF PInv

LEMMA PAlways == Patient => (Spec => []PInv)
<1>1. Init => PInv
  BY PInit, StreamAssumption
<1>2. Patient /\ PInv /\ [Next]_vars => PInv'
  BY PNext, StreamAssumption
<1>3. CASE Patient
  <2>1. PInv /\ [Next]_vars => PInv'
    BY <1>2, <1>3
  <2>2. QED  BY <1>1, <2>1, PTL DEF Spec
<1>4. QED  BY <1>3

LEMMA NotManifestedIs ==
  ASSUME Types, Contents, NEW n \in NotManifested
  PROVE  \E f \in From(Line, 1) : IsFrame(f) /\ f.n = n
<1>0. /\ ring \in [Processes -> Seq(Buffer)] /\ hand \in [Processes -> Buffer]
      /\ inflight \in Seq(Buffer)
  BY FnTypes
<1>1. ASSUME NEW s, NEW m \in Frames(s)
      PROVE  \E i \in DOMAIN s : IsFrame(s[i]) /\ s[i].n = m
  BY <1>1 DEF Frames
<1>2. ASSUME NEW x, IsFrame(x), x.n = n, NEW k \in Parts, x \in Items(Line[k])
      PROVE  \E f \in From(Line, 1) : IsFrame(f) /\ f.n = n
  BY <1>2, FromPart, PartsAreNumbers
<1>3. CASE n \in Frames(inflight)
  <2>1. PICK i \in DOMAIN inflight : IsFrame(inflight[i]) /\ inflight[i].n = n
    BY <1>1, <1>3
  <2>2. i \in 1 .. Len(inflight) /\ Len(inflight) \in Nat
    BY <1>0, <2>1
  <2>3. inflight[i] \in Items(Codec)
    <3>1. CodecFits
      BY CodecIs
    <3>2. CASE held = Nothing
      BY <2>2, <3>1, <3>2 DEF CodecFits, Items
    <3>3. CASE held # Nothing /\ i <= ahead
      <4>1. ahead \in 1 .. Len(inflight) /\ \A j \in 1 .. ahead : Codec[j] = inflight[j]
        BY <3>1, <3>3 DEF CodecFits
      <4>2. i \in 1 .. ahead /\ i \in 1 .. Len(inflight) + 1 /\ Len(Codec) = Len(inflight) + 1
        BY <2>2, <3>1, <3>3, <4>1 DEF CodecFits, Held
      <4>3. QED  BY <4>1, <4>2 DEF Items
    <3>4. CASE held # Nothing /\ ~(i <= ahead)
      <4>1. /\ ahead \in 1 .. Len(inflight)
            /\ \A j \in ahead + 2 .. Len(inflight) + 1 : Codec[j] = inflight[j - 1]
        BY <3>1, <3>4 DEF CodecFits
      <4>2. /\ i + 1 \in ahead + 2 .. Len(inflight) + 1 /\ (i + 1) - 1 = i
            /\ i + 1 \in 1 .. Len(Codec)
        BY <2>2, <3>1, <3>4, <4>1 DEF CodecFits, Held
      <4>3. QED  BY <4>1, <4>2 DEF Items
    <3>5. QED  BY <3>2, <3>3, <3>4
  <2>4. QED  BY <1>2, <2>1, <2>3, LineIs, PartIs
<1>4. ASSUME NEW p \in Readers, n \in Frames(ring[p] \o InHand(p))
      PROVE  \E f \in From(Line, 1) : IsFrame(f) /\ f.n = n
  <2>1. InHand(p) \in Seq(Buffer) /\ ring[p] \in Seq(Buffer) /\ p \in Processes
    BY <1>0, PlaceIs DEF InHand
  <2>2. PICK i \in DOMAIN (ring[p] \o InHand(p)) :
          IsFrame((ring[p] \o InHand(p))[i]) /\ (ring[p] \o InHand(p))[i].n = n
    BY <1>1, <1>4
  <2>3. PICK x : x = (ring[p] \o InHand(p))[i]
    OBVIOUS
  <2>4. x \in Items(ring[p] \o InHand(p))
    BY <2>1, <2>2, <2>3 DEF Items
  <2>5. x \in Items(ring[p]) \/ x \in Items(InHand(p))
    BY <2>1, <2>4, ItemsConcat
  <2>6. CASE x \in Items(ring[p])
    BY <1>2, <2>2, <2>3, <2>6, PlaceIs
  <2>7. CASE x \in Items(InHand(p))
    <3>1. pc[p] = "pass"
      BY <2>7 DEF InHand, At, Items
    <3>2. p # "CtoP"
      BY <3>1 DEF Types
    <3>3. \E k \in Parts : InHand(p) = Line[k]
      BY <3>2, LineIs, PartIs DEF Readers
    <3>4. QED  BY <1>2, <2>2, <2>3, <2>7, <3>3
  <2>8. QED  BY <2>5, <2>6, <2>7
<1>5. QED  BY <1>3, <1>4 DEF NotManifested, Readers

(* If the client drains only when its last drain is complete, Drained says *)
(* that every frame injected before the marker has left the processes and  *)
(* the codec (DrainedMeansPassed): the call of SetDrained is made when the *)
(* marker leaves the line or after, whatever the order in which marker and *)
(* call come to the last process, and none is left over when the next      *)
(* marker is inserted (player_playback.cpp:1041-1080).                     *)
THEOREM DrainsWait == Patient => (Spec => []DrainedMeansPassed)
<1>1. ASSUME PInv, drained, NEW n \in NotManifested
      PROVE  sent[n].drains = marked
  <2>1. Types /\ Contents /\ OneMarker /\ DrainsComplete
    BY <1>1 DEF PInv, KInv
  <2>2. ~SomeMarker(1)
    BY <1>1, <2>1, MarkersAre DEF DrainsComplete
  <2>3. PICK f \in From(Line, 1) : IsFrame(f) /\ f.n = n
    BY <1>1, <2>1, NotManifestedIs
  <2>4. QED  BY <2>1, <2>2, <2>3 DEF OneMarker, LineBehind, Behind
<1>2. PInv => DrainedMeansPassed
  BY <1>1 DEF DrainedMeansPassed
<1>3. CASE Patient
  BY <1>2, <1>3, PAlways, PTL
<1>4. QED  BY <1>3
=============================================================================
