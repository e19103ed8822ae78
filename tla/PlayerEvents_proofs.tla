------------------------ MODULE PlayerEvents_proofs ------------------------
(***************************************************************************)
(* For every size of the tables and any number of threads: the list of     *)
(* records keeps its shape, and the player's events are a queue.           *)
(***************************************************************************)
EXTENDS PlayerEvents, FiniteSetTheorems, SequenceTheorems,
        WellFoundedInduction, TLAPS

(* What a signaller carries.                                               *)
Carries ==
  \A s \in Signallers :
    /\ pc[s] \in {"store", "look", "set"} => event[s] \in Kinds
    /\ pc[s] = "set" => entry[s] \in Entries

IInv == TypeOK /\ ListIsChain /\ Carries
-----------------------------------------------------------------------------
(* The lowest of a set of natural numbers is one of them.                  *)
LEMMA LowestIsLeast ==
  ASSUME NEW S \in SUBSET Nat, S # {}
  PROVE  Lowest(S) \in S /\ \A j \in S : Lowest(S) <= j
<1> DEFINE Initial == {0 .. n : n \in S}
<1>1. \A n \in S : 0 .. n \in FiniteSubsetsOf(Nat)
  BY FS_Interval DEF FiniteSubsetsOf
<1>2. Initial \subseteq FiniteSubsetsOf(Nat) /\ Initial # {}
  BY <1>1
<1>3. PICK I \in Initial : \A J \in Initial : <<J, I>> \notin StrictSubsetOrdering(Nat)
  BY <1>2, FS_StrictSubsetOrderingWellFounded, WFMin
<1>4. PICK m \in S : I = 0 .. m
  BY <1>3
<1>5. \A j \in S : m <= j
  <2> SUFFICES ASSUME NEW j \in S, j < m PROVE FALSE
    OBVIOUS
  <2>1. /\ 0 .. j \in Initial /\ 0 .. j \subseteq 0 .. m
        /\ m \in 0 .. m /\ m \notin 0 .. j
    OBVIOUS
  <2>2. <<0 .. j, 0 .. m>> \in StrictSubsetOrdering(Nat)
    BY <2>1 DEF StrictSubsetOrdering
  <2>. QED
    BY <1>3, <1>4, <2>1, <2>2
<1>. QED
  BY <1>5 DEF Lowest

LEMMA SlotsAreNumbers ==
  /\ Slots \in SUBSET Nat /\ Entries \in SUBSET Nat
  /\ None \notin Slots /\ None \notin Entries /\ 0 \notin Slots
  /\ 1 \in Slots /\ 2 \in Slots
BY EventsAssumption DEF Slots, Entries-----------------------------------------------------------------------------
(* The three steps that change the list.  Its types and its shape.         *)
ListTypes ==
  /\ code \in [Slots -> Kinds \cup {None}]
  /\ next \in [Slots -> Slots \cup {None}]
  /\ head \in Slots \cup {None} /\ tail \in Slots \cup {None}
  /\ chain \in Seq(Slots)

LEMMA ChainElements ==
  ASSUME ListTypes
  PROVE  /\ Len(chain) \in Nat
         /\ \A n \in 1 .. Len(chain) : chain[n] \in Slots
         /\ chain = << >> <=> Len(chain) = 0
BY LenProperties, EmptySeq DEF ListTypes

(* A record is linked behind the tail.                                     *)
LEMMA StoreKeepsList ==
  ASSUME IInv, NEW s \in Signallers, SignalStore(s)
  PROVE  /\ ListTypes' /\ ListIsChain'
         /\ \E i \in Slots : /\ code[i] = None
                             /\ code' = [code EXCEPT ![i] = event[s]]
                             /\ chain' = Append(chain, i)
<1>0. ListTypes /\ ListIsChain
  BY DEF IInv, TypeOK, ListTypes
<1>1. PICK i \in Slots :
        /\ code[i] = None
        /\ code' = [code EXCEPT ![i] = event[s]]
        /\ next' = [n \in Slots |-> IF n = i THEN None
                                    ELSE IF n = tail THEN i ELSE next[n]]
        /\ head' = IF tail = None THEN i ELSE head
        /\ tail' = i
        /\ chain' = Append(chain, i)
  <2>1. Free \in SUBSET Nat /\ Free # {} /\ Free \subseteq Slots
    BY SlotsAreNumbers DEF Free, SignalStore
  <2>2. Lowest(Free) \in Slots /\ code[Lowest(Free)] = None
    BY <2>1, LowestIsLeast DEF Free
  <2>. QED
    BY <2>2 DEF SignalStore
<1>2. event[s] \in Kinds /\ event[s] # None
  BY EventsAssumption DEF IInv, Carries, SignalStore, At
<1> DEFINE L == Len(chain)
<1>3. /\ L \in Nat /\ \A n \in 1 .. L : chain[n] \in Slots
      /\ chain = << >> <=> L = 0
  BY <1>0, ChainElements
<1>4. /\ chain' \in Seq(Slots) /\ Len(chain') = L + 1 /\ chain' # << >>
      /\ \A n \in 1 .. L : chain'[n] = chain[n]
      /\ chain'[L + 1] = i
  BY <1>0, <1>1, AppendProperties DEF ListTypes
<1>5. ListTypes'
  BY <1>0, <1>1, <1>2, <1>4 DEF ListTypes
<1>6. \A n \in 1 .. L : chain[n] # i
  BY <1>0, <1>1, <1>3 DEF ListIsChain
<1>7. tail = None <=> L = 0
  BY <1>0, <1>3, SlotsAreNumbers DEF ListIsChain
<1> HIDE DEF L
<1>8. head' = chain'[1] /\ tail' = chain'[L + 1]
  <2>1. CASE L = 0
    BY <1>1, <1>4, <1>7, <2>1
  <2>2. CASE L # 0
    BY <1>0, <1>1, <1>3, <1>4, <1>7, <2>2 DEF ListIsChain
  <2>. QED
    BY <2>1, <2>2
<1>9. \A n \in 1 .. L + 1 :
        next'[chain'[n]] = IF n = L + 1 THEN None ELSE chain'[n + 1]
  <2> SUFFICES ASSUME NEW n \in 1 .. L + 1
               PROVE  next'[chain'[n]] = IF n = L + 1 THEN None ELSE chain'[n + 1]
    OBVIOUS
  <2>1. CASE n = L + 1
    BY <1>1, <1>4, <2>1
  <2>2. CASE n = L /\ L > 0
    <3>1. tail = chain[L] /\ chain[L] \in Slots /\ chain[L] # i
      BY <1>0, <1>3, <1>6, <2>2 DEF ListIsChain, L
    <3>. QED
      BY <1>1, <1>3, <1>4, <2>2, <3>1
  <2>3. CASE n < L
    <3>1. /\ n \in 1 .. L /\ n + 1 \in 1 .. L /\ L \in 1 .. L
          /\ chain'[n] = chain[n] /\ chain'[n + 1] = chain[n + 1]
      BY <1>3, <1>4, <2>3
    <3>2. /\ chain[n] \in Slots /\ chain[n] # i /\ chain[n] # tail
          /\ next[chain[n]] = chain[n + 1]
      BY <1>0, <1>3, <1>6, <2>3, <3>1 DEF ListIsChain, L
    <3>. QED
      BY <1>1, <1>3, <2>3, <3>1, <3>2
  <2>. QED
    BY <1>3, <2>1, <2>2, <2>3
<1>10. \A m, n \in 1 .. L + 1 : chain'[m] = chain'[n] => m = n
  <2>1. \A m, n \in 1 .. L : chain[m] = chain[n] => m = n
    BY <1>0 DEF ListIsChain, L
  <2>. QED
    BY <1>3, <1>4, <1>6, <2>1
<1>11. \A j \in Slots : code'[j] # None <=> \E n \in 1 .. L + 1 : chain'[n] = j
  <2> SUFFICES ASSUME NEW j \in Slots
               PROVE  code'[j] # None <=> \E n \in 1 .. L + 1 : chain'[n] = j
    OBVIOUS
  <2>1. code[j] # None <=> \E n \in 1 .. L : chain[n] = j
    BY <1>0 DEF ListIsChain, L
  <2>2. CASE j = i
    BY <1>0, <1>1, <1>2, <1>3, <1>4, <2>2 DEF ListTypes
  <2>3. CASE j # i
    <3>1. code'[j] = code[j]
      BY <1>0, <1>1, <2>3 DEF ListTypes
    <3>2. (\E n \in 1 .. L : chain[n] = j) <=> \E n \in 1 .. L + 1 : chain'[n] = j
      BY <1>3, <1>4, <2>3
    <3>. QED
      BY <2>1, <3>1, <3>2
  <2>. QED
    BY <2>2, <2>3
<1>12. ListIsChain'
  BY <1>4, <1>8, <1>9, <1>10, <1>11 DEF ListIsChain
<1>. QED
  BY <1>1, <1>5, <1>12
(* With no entry free the list has at least two: the tail stays.           *)
LEMMA DiscardKeepsList ==
  ASSUME IInv, NEW s \in Signallers, SignalDiscard(s)
  PROVE  /\ ListTypes' /\ ListIsChain'
         /\ chain # << >> /\ chain' = Tail(chain)
         /\ code' = [code EXCEPT ![chain[1]] = None]
<1>0. ListTypes /\ ListIsChain
  BY DEF IInv, TypeOK, ListTypes
<1> DEFINE L == Len(chain)
<1>1. /\ L \in Nat /\ \A n \in 1 .. L : chain[n] \in Slots
      /\ chain = << >> <=> L = 0
  BY <1>0, ChainElements
<1> HIDE DEF L
<1>2. L > 1
  <2>1. code[1] # None /\ code[2] # None
    BY SlotsAreNumbers DEF SignalDiscard, Free
  <2>2. /\ \E n \in 1 .. L : chain[n] = 1
        /\ \E n \in 1 .. L : chain[n] = 2
    BY <1>0, <2>1, SlotsAreNumbers DEF ListIsChain, L
  <2>. QED
    BY <1>1, <2>2
<1>3. /\ head = chain[1] /\ tail = chain[L]
      /\ next[chain[1]] = chain[2]
      /\ chain[1] \in Slots /\ chain[2] \in Slots
  BY <1>0, <1>1, <1>2 DEF ListIsChain, L
<1>4. /\ code' = [code EXCEPT ![chain[1]] = None]
      /\ head' = chain[2] /\ chain' = Tail(chain)
      /\ next' = next /\ tail' = tail
  BY <1>3 DEF SignalDiscard
<1>5. /\ chain' \in Seq(Slots) /\ Len(chain') = L - 1 /\ chain' # << >>
      /\ \A n \in 1 .. L - 1 : chain'[n] = chain[n + 1]
  <2>1. /\ chain' \in Seq(Slots) /\ Len(chain') = L - 1
        /\ \A n \in 1 .. L - 1 : chain'[n] = chain[n + 1]
    BY <1>0, <1>1, <1>2, <1>4, HeadTailProperties DEF ListTypes, L
  <2>. QED
    BY <1>1, <1>2, <2>1, EmptySeq
<1>6. ListTypes'
  BY <1>0, <1>3, <1>4, <1>5 DEF ListTypes
<1>7. head' = chain'[1] /\ tail' = chain'[L - 1]
  BY <1>1, <1>2, <1>3, <1>4, <1>5
<1>8. \A n \in 1 .. L - 1 :
        next'[chain'[n]] = IF n = L - 1 THEN None ELSE chain'[n + 1]
  <2> SUFFICES ASSUME NEW n \in 1 .. L - 1
               PROVE  next'[chain'[n]] = IF n = L - 1 THEN None ELSE chain'[n + 1]
    OBVIOUS
  <2>1. /\ n + 1 \in 1 .. L /\ chain'[n] = chain[n + 1]
        /\ n # L - 1 => n + 1 \in 1 .. L - 1
        /\ n = L - 1 <=> n + 1 = L
    BY <1>1, <1>5
  <2>2. next[chain[n + 1]] = IF n + 1 = L THEN None ELSE chain[(n + 1) + 1]
    BY <1>0, <2>1 DEF ListIsChain, L
  <2>. QED
    BY <1>4, <1>5, <2>1, <2>2
<1>9. \A m, n \in 1 .. L : chain[m] = chain[n] => m = n
  BY <1>0 DEF ListIsChain, L
<1>10. \A m, n \in 1 .. L - 1 : chain'[m] = chain'[n] => m = n
  BY <1>1, <1>5, <1>9
<1>11. \A j \in Slots : code'[j] # None <=> \E n \in 1 .. L - 1 : chain'[n] = j
  <2> SUFFICES ASSUME NEW j \in Slots
               PROVE  code'[j] # None <=> \E n \in 1 .. L - 1 : chain'[n] = j
    OBVIOUS
  <2>1. code[j] # None <=> \E n \in 1 .. L : chain[n] = j
    BY <1>0 DEF ListIsChain, L
  <2>2. CASE j = chain[1]
    <3>1. code'[j] = None
      BY <1>0, <1>4, <2>2 DEF ListTypes
    <3>2. \A n \in 1 .. L - 1 : n + 1 \in 1 .. L /\ n + 1 # 1 /\ 1 \in 1 .. L
      BY <1>1
    <3>3. \A n \in 1 .. L - 1 : chain'[n] # j
      BY <1>5, <1>9, <2>2, <3>2
    <3>. QED
      BY <3>1, <3>3
  <2>3. CASE j # chain[1]
    <3>1. code'[j] = code[j]
      BY <1>0, <1>4, <2>3 DEF ListTypes
    <3>2. ASSUME NEW n \in 1 .. L, chain[n] = j
          PROVE  n - 1 \in 1 .. L - 1 /\ chain'[n - 1] = j
      BY <1>1, <1>5, <2>3, <3>2
    <3>3. \A n \in 1 .. L - 1 : n + 1 \in 1 .. L /\ chain'[n] = chain[n + 1]
      BY <1>1, <1>5
    <3>. QED
      BY <2>1, <3>1, <3>2, <3>3
  <2>. QED
    BY <2>2, <2>3
<1>12. ListIsChain'
  BY <1>5, <1>7, <1>8, <1>10, <1>11 DEF ListIsChain
<1>. QED
  BY <1>1, <1>2, <1>4, <1>6, <1>12
LEMMA RemoveAtElements ==
  ASSUME NEW S, NEW q \in Seq(S), NEW n \in 1 .. Len(q)
  PROVE  /\ RemoveAt(q, n) \in Seq(S)
         /\ Len(RemoveAt(q, n)) = Len(q) - 1
         /\ \A k \in 1 .. Len(q) - 1 :
              RemoveAt(q, n)[k] = IF k < n THEN q[k] ELSE q[k + 1]
<1> DEFINE a == SubSeq(q, 1, n - 1)
           b == SubSeq(q, n + 1, Len(q))
<1>1. Len(q) \in Nat /\ n \in Int /\ \A k \in 1 .. Len(q) : q[k] \in S
  BY LenProperties
<1>2. /\ a \in Seq(S) /\ Len(a) = n - 1
      /\ \A k \in 1 .. n - 1 : a[k] = q[k]
  <2>1. n - 1 \in Int /\ \A k \in 1 .. n - 1 : q[k] \in S
    BY <1>1
  <2>2. /\ a \in Seq(S) /\ Len(a) = IF 1 <= n - 1 THEN (n - 1) - 1 + 1 ELSE 0
        /\ \A k \in 1 .. (n - 1) - 1 + 1 : a[k] = q[1 + k - 1]
    BY <2>1, SubSeqProperties
  <2>. QED
    BY <1>1, <2>2
<1>3. /\ b \in Seq(S) /\ Len(b) = Len(q) - n
      /\ \A k \in 1 .. Len(q) - n : b[k] = q[n + k]
  <2>1. n + 1 \in Int /\ \A k \in n + 1 .. Len(q) : q[k] \in S
    BY <1>1
  <2>2. /\ b \in Seq(S)
        /\ Len(b) = IF n + 1 <= Len(q) THEN Len(q) - (n + 1) + 1 ELSE 0
        /\ \A k \in 1 .. Len(q) - (n + 1) + 1 : b[k] = q[(n + 1) + k - 1]
    BY <1>1, <2>1, SubSeqProperties
  <2>. QED
    BY <1>1, <2>2
<1> HIDE DEF a, b
<1>4. RemoveAt(q, n) = a \o b
  BY DEF RemoveAt, a, b
<1>5. /\ a \o b \in Seq(S) /\ Len(a \o b) = Len(a) + Len(b)
      /\ \A k \in 1 .. Len(a) + Len(b) :
           (a \o b)[k] = IF k <= Len(a) THEN a[k] ELSE b[k - Len(a)]
  BY <1>2, <1>3, ConcatProperties
<1>6. ASSUME NEW k \in 1 .. Len(q) - 1
      PROVE  (a \o b)[k] = IF k < n THEN q[k] ELSE q[k + 1]
  <2>1. CASE k < n
    BY <1>1, <1>2, <1>3, <1>5, <2>1
  <2>2. CASE ~(k < n)
    <3>1. /\ k - (n - 1) \in 1 .. Len(q) - n /\ n + (k - (n - 1)) = k + 1
          /\ ~(k <= n - 1) /\ k \in 1 .. (n - 1) + (Len(q) - n)
      BY <1>1, <2>2
    <3>2. (a \o b)[k] = b[k - (n - 1)]
      BY <1>2, <1>3, <1>5, <3>1
    <3>3. b[k - (n - 1)] = q[k + 1]
      BY <1>3, <3>1
    <3>. QED
      BY <2>2, <3>2, <3>3
  <2>. QED
    BY <2>1, <2>2
<1>. QED
  BY <1>1, <1>2, <1>3, <1>4, <1>5, <1>6
(* The oldest match is unlinked; if it was the tail, the walk from the     *)
(* head finds the only entry in use that has no next.                      *)
LEMMA TakeKeepsList ==
  ASSUME IInv, NEW t \in Collectors, GetTake(t)
  PROVE  /\ ListTypes' /\ ListIsChain'
         /\ \E n \in 1 .. Len(chain) :
              /\ code[chain[n]] \in wanted[t]
              /\ \A m \in 1 .. n - 1 : code[chain[m]] \notin wanted[t]
              /\ code' = [code EXCEPT ![chain[n]] = None]
              /\ chain' = RemoveAt(chain, n)
<1>0. ListTypes /\ ListIsChain
  BY DEF IInv, TypeOK, ListTypes
<1> DEFINE L == Len(chain)
<1>1. /\ L \in Nat /\ \A k \in 1 .. L : chain[k] \in Slots
  BY <1>0, ChainElements
<1>2. PICK n \in 1 .. L :
        /\ code[chain[n]] \in wanted[t]
        /\ \A m \in 1 .. n - 1 : code[chain[m]] \notin wanted[t]
        /\ Unlink(n)
        /\ tail' = IF chain[n] = tail THEN LastLinked(code', next') ELSE tail
  <2>1. Matching(wanted[t]) \in SUBSET Nat /\ Matching(wanted[t]) # {}
    BY <1>1 DEF Matching, GetTake
  <2> DEFINE n == Lowest(Matching(wanted[t]))
  <2>2. n \in Matching(wanted[t]) /\ \A j \in Matching(wanted[t]) : n <= j
    BY <2>1, LowestIsLeast
  <2>3. /\ Unlink(n)
        /\ tail' = IF chain[n] = tail THEN LastLinked(code', next') ELSE tail
    BY DEF GetTake
  <2> HIDE DEF n
  <2>4. n \in 1 .. L /\ code[chain[n]] \in wanted[t]
    BY <2>2 DEF Matching
  <2>5. \A m \in 1 .. n - 1 : code[chain[m]] \notin wanted[t]
    BY <1>1, <2>2, <2>4 DEF Matching
  <2>. QED
    BY <2>3, <2>4, <2>5
<1>3. /\ code' = [code EXCEPT ![chain[n]] = None]
      /\ next' = [j \in Slots |->
           IF j = chain[n] THEN None
           ELSE IF n > 1 /\ j = chain[n - 1] THEN next[chain[n]] ELSE next[j]]
      /\ head' = IF n = 1 THEN next[chain[n]] ELSE head
      /\ chain' = RemoveAt(chain, n)
  BY <1>2 DEF Unlink
<1>4. /\ chain' \in Seq(Slots) /\ Len(chain') = L - 1
      /\ \A k \in 1 .. L - 1 : chain'[k] = IF k < n THEN chain[k] ELSE chain[k + 1]
  BY <1>0, <1>3, RemoveAtElements DEF ListTypes
<1>5. chain' = << >> <=> L = 1
  BY <1>1, <1>4, EmptySeq
<1>6. /\ head = chain[1] /\ tail = chain[L]
      /\ \A k \in 1 .. L : next[chain[k]] = IF k = L THEN None ELSE chain[k + 1]
      /\ \A k, m \in 1 .. L : chain[k] = chain[m] => k = m
      /\ \A j \in Slots : code[j] # None <=> \E k \in 1 .. L : chain[k] = j
  <2>1. chain # << >>
    BY <1>0, <1>1, ChainElements
  <2>. QED
    BY <1>0, <2>1 DEF ListIsChain
<1> HIDE DEF L
<1>7. \A k, m \in 1 .. L - 1 : chain'[k] = chain'[m] => k = m
  BY <1>1, <1>4, <1>6
<1>8. \A k \in 1 .. L - 1 :
        next'[chain'[k]] = IF k = L - 1 THEN None ELSE chain'[k + 1]
  <2> SUFFICES ASSUME NEW k \in 1 .. L - 1
               PROVE  next'[chain'[k]] = IF k = L - 1 THEN None ELSE chain'[k + 1]
    OBVIOUS
  <2>1. CASE k < n - 1
    <3>1. /\ k \in 1 .. L /\ k + 1 \in 1 .. L - 1 /\ k + 1 < n /\ k # n /\ k # n - 1
          /\ n - 1 \in 1 .. L /\ k # L /\ k # L - 1
      BY <1>1, <2>1
    <3>2. chain[k] # chain[n] /\ chain[k] # chain[n - 1] /\ chain[k] \in Slots
      BY <1>1, <1>6, <3>1
    <3>3. chain'[k] = chain[k] /\ chain'[k + 1] = chain[k + 1]
      BY <1>4, <2>1, <3>1
    <3>4. next'[chain[k]] = next[chain[k]]
      BY <1>3, <3>2
    <3>. QED
      BY <1>6, <3>1, <3>3, <3>4
  <2>2. CASE k = n - 1
    <3>1. n > 1 /\ n - 1 \in 1 .. L /\ n # n - 1 /\ k < n /\ (k = L - 1 <=> n = L)
      BY <1>1, <2>2
    <3>2. chain[n - 1] # chain[n] /\ chain[n - 1] \in Slots
      BY <1>1, <1>6, <3>1
    <3>3. chain'[k] = chain[n - 1]
      BY <1>4, <2>2, <3>1
    <3>4. next'[chain'[k]] = IF n = L THEN None ELSE chain[n + 1]
      BY <1>3, <1>6, <3>1, <3>2, <3>3
    <3>5. k # L - 1 => chain'[k + 1] = chain[n + 1]
      BY <1>1, <1>4, <2>2
    <3>. QED
      BY <3>1, <3>4, <3>5
  <2>3. CASE k > n - 1
    <3>1. /\ k + 1 \in 1 .. L /\ ~(k < n) /\ k + 1 # n /\ (k + 1 = L <=> k = L - 1)
          /\ n > 1 => n - 1 \in 1 .. L /\ k + 1 # n - 1
      BY <1>1, <2>3
    <3>2. /\ chain[k + 1] # chain[n] /\ chain[k + 1] \in Slots
          /\ n > 1 => chain[k + 1] # chain[n - 1]
      BY <1>1, <1>6, <3>1
    <3>3. next'[chain[k + 1]] = next[chain[k + 1]]
      BY <1>3, <3>2
    <3>4. k # L - 1 => chain'[k + 1] = chain[(k + 1) + 1]
      BY <1>1, <1>4, <2>3
    <3>5. chain'[k] = chain[k + 1]
      BY <1>4, <3>1
    <3>. QED
      BY <1>6, <3>1, <3>3, <3>4, <3>5
  <2>. QED
    BY <1>1, <2>1, <2>2, <2>3
<1>9. \A j \in Slots : code'[j] # None <=> \E k \in 1 .. L - 1 : chain'[k] = j
  <2> SUFFICES ASSUME NEW j \in Slots
               PROVE  code'[j] # None <=> \E k \in 1 .. L - 1 : chain'[k] = j
    OBVIOUS
  <2>1. CASE j = chain[n]
    <3>1. code'[j] = None
      BY <1>0, <1>3, <2>1 DEF ListTypes
    <3>2. \A k \in 1 .. L - 1 : chain'[k] # j
      BY <1>1, <1>4, <1>6, <2>1
    <3>. QED
      BY <3>1, <3>2
  <2>2. CASE j # chain[n]
    <3>1. code'[j] = code[j]
      BY <1>0, <1>3, <2>2 DEF ListTypes
    <3>2. ASSUME NEW k \in 1 .. L, chain[k] = j
          PROVE  \E m \in 1 .. L - 1 : chain'[m] = j
      <4>1. CASE k < n
        <5>1. k \in 1 .. L - 1 /\ chain'[k] = j
          BY <1>1, <1>4, <3>2, <4>1
        <5>. QED
          BY <5>1
      <4>2. CASE k > n
        <5>1. k - 1 \in 1 .. L - 1 /\ ~(k - 1 < n) /\ (k - 1) + 1 = k
          BY <1>1, <4>2
        <5>2. chain'[k - 1] = j
          BY <1>4, <3>2, <5>1
        <5>. QED
          BY <5>1, <5>2
      <4>. QED
        BY <1>1, <2>2, <3>2, <4>1, <4>2
    <3>3. ASSUME NEW k \in 1 .. L - 1, chain'[k] = j
          PROVE  \E m \in 1 .. L : chain[m] = j
      <4>1. k \in 1 .. L /\ k + 1 \in 1 .. L
        BY <1>1
      <4>. QED
        BY <1>4, <3>3, <4>1
    <3>. QED
      BY <1>6, <3>1, <3>2, <3>3
  <2>. QED
    BY <2>1, <2>2
<1>10. tail' = IF L = 1 THEN None ELSE chain'[L - 1]
  <2>1. CASE n # L
    <3>1. L \in 1 .. L /\ L - 1 \in 1 .. L - 1 /\ ~(L - 1 < n) /\ L # 1
          /\ (L - 1) + 1 = L
      BY <1>1, <2>1
    <3>2. chain[n] # tail
      BY <1>6, <2>1, <3>1
    <3>3. chain'[L - 1] = chain[(L - 1) + 1]
      BY <1>4, <3>1
    <3>. QED
      BY <1>2, <1>6, <3>1, <3>2, <3>3
  <2>2. CASE n = L /\ L = 1
    <3>1. \A j \in Slots : code'[j] = None
      BY <1>1, <1>9, <2>2
    <3>2. LastLinked(code', next') = None
      BY <3>1 DEF LastLinked
    <3>. QED
      BY <1>2, <1>6, <2>2, <3>2
  <2>3. CASE n = L /\ L > 1
    <3> DEFINE z == chain'[L - 1]
    <3>1. /\ L - 1 \in 1 .. L - 1 /\ z \in Slots
          /\ code'[z] # None /\ next'[z] = None
      <4>1. L - 1 \in 1 .. L - 1 /\ L - 1 \in 1 .. L /\ L - 1 < n
        BY <1>1, <2>3
      <4>2. z = chain[L - 1] /\ z \in Slots
        BY <1>1, <1>4, <4>1
      <4>. QED
        BY <1>8, <1>9, <4>1, <4>2
    <3>2. ASSUME NEW j \in Slots, code'[j] # None, next'[j] = None
          PROVE  j = z
      <4>1. PICK k \in 1 .. L - 1 : chain'[k] = j
        BY <1>9, <3>2
      <4>2. CASE k # L - 1
        <5>1. k + 1 \in 1 .. L /\ (k + 1) + 1 \in 1 .. L /\ k + 1 \in 1 .. L - 1
          BY <1>1, <4>2
        <5>2. chain'[k + 1] \in Slots
          BY <1>1, <1>4, <5>1
        <5>. QED
          BY <1>8, <3>2, <4>1, <4>2, <5>2, SlotsAreNumbers
      <4>. QED
        BY <4>1, <4>2
    <3> HIDE DEF z
    <3>3. LastLinked(code', next') = z
      BY <3>1, <3>2 DEF LastLinked
    <3>. QED
      BY <1>2, <1>6, <2>3, <3>3 DEF z
  <2>. QED
    BY <1>1, <2>1, <2>2, <2>3
<1>11. head' = IF L = 1 THEN None ELSE chain'[1]
  <2>1. CASE n = 1
    BY <1>1, <1>3, <1>4, <1>6, <2>1
  <2>2. CASE n # 1
    BY <1>1, <1>3, <1>4, <1>6, <2>2
  <2>. QED
    BY <2>1, <2>2
<1>12. ListIsChain'
  <2>1. Len(chain') = L - 1 /\ (chain' = << >> <=> L = 1)
    BY <1>4, <1>5
  <2>. QED
    BY <2>1, <1>7, <1>8, <1>9, <1>10, <1>11 DEF ListIsChain
<1>13. ListTypes'
  <2>1. \A k \in 1 .. L : next[chain[k]] \in Slots \cup {None}
    BY <1>0, <1>1 DEF ListTypes
  <2>2. next' \in [Slots -> Slots \cup {None}]
    BY <1>0, <1>2, <1>3, <2>1 DEF ListTypes
  <2>3. head' \in Slots \cup {None}
    BY <1>0, <1>2, <1>3, <2>1 DEF ListTypes
  <2>4. tail' \in Slots \cup {None}
    <3>1. \A k \in 1 .. L - 1 : chain'[k] \in Slots
      BY <1>1, <1>4
    <3>2. L # 1 => L - 1 \in 1 .. L - 1
      BY <1>1
    <3>. QED
      BY <1>10, <3>1, <3>2
  <2>. QED
    BY <1>0, <1>1, <1>3, <1>4, <2>2, <2>3, <2>4 DEF ListTypes
<1>. QED
  BY <1>2, <1>3, <1>12, <1>13 DEF L-----------------------------------------------------------------------------
(* The types of what is not the list, and what signallers carry.           *)
OtherTypes ==
  /\ signal \in [Entries -> Watchers \cup {None}]
  /\ criteria \in [Entries -> SUBSET Kinds]
  /\ lock \in Signallers \cup {None}
  /\ lock # None => pc[lock] \in {"look", "set", "fault"}
  /\ internal \in BOOLEAN /\ valid \in [Watchers -> BOOLEAN]
  /\ life \in {"playing", "terminated", "shutdown"}
  /\ pc \in [Threads -> {"idle", "store", "look", "set", "fault",
                         "reset", "take", "got", "wait", "check",
                         "watch", "woken", "register", "test", "match"}]
  /\ event \in [Signallers -> Kinds \cup {None}]
  /\ entry \in [Signallers -> 0 .. MaxSignals + 1]
  /\ wanted \in [Collectors -> SUBSET Kinds]
  /\ ptr \in [Watchers -> 0 .. MaxOutstanding]

LEMMA TypesInParts == TypeOK <=> ListTypes /\ OtherTypes
  BY DEF TypeOK, ListTypes, OtherTypes

(* A thread of one role is of no other.                                    *)
LEMMA RolesAreDisjoint ==
  /\ \A s \in Signallers : s \in Threads /\ s \notin Collectors /\ s # None
  /\ \A t \in Collectors : t \in Threads /\ t \notin Signallers /\ t # None
  /\ \A g \in Getters : g \in Collectors /\ g \notin Watchers
  /\ \A w \in Watchers : w \in Collectors /\ w \notin Getters
BY EventsAssumption DEF Threads, Collectors

LEMMA SignallerKeepsTypes ==
  ASSUME IInv, NEW s \in Signallers,
         (\E k \in Kinds : SignalEvent(s, k)) \/ SignalStep(s)
  PROVE  OtherTypes' /\ Carries'
<1>0. OtherTypes /\ Carries /\ s \in Threads /\ s # None
  BY TypesInParts, RolesAreDisjoint DEF IInv
<1>1. ASSUME NEW k \in Kinds, SignalEvent(s, k) PROVE OtherTypes' /\ Carries'
  BY <1>0, <1>1 DEF SignalEvent, signalVars, Goto, At, OtherTypes, Carries
<1>2. ASSUME SignalStore(s) PROVE OtherTypes' /\ Carries'
  <2>1. 1 \in 0 .. MaxSignals + 1
    BY EventsAssumption
  <2>. QED
    BY <1>0, <1>2, <2>1 DEF SignalStore, signalVars, Goto, At, OtherTypes, Carries
<1>3. ASSUME SignalDiscard(s) PROVE OtherTypes' /\ Carries'
  <2>1. /\ signal' = signal /\ criteria' = criteria /\ lock' = lock
        /\ internal' = internal /\ valid' = valid /\ life' = life /\ pc' = pc
        /\ event' = event /\ entry' = entry /\ wanted' = wanted /\ ptr' = ptr
    BY <1>3 DEF SignalDiscard, signalVars, localVars
  <2>2. OtherTypes'
    BY <1>0, <2>1 DEF OtherTypes
  <2>. QED
    BY <1>0, <2>1, <2>2 DEF Carries
<1>4. ASSUME SignalLook(s) PROVE OtherTypes' /\ Carries'
  <2>1. entry[s] \in Entries /\ entry[s] + 1 \in 0 .. MaxSignals + 1
    BY <1>4, EventsAssumption DEF SignalLook, Entries
  <2>2. /\ pc[s] = "look"
        /\ \/ Goto(s, "set") /\ entry' = entry
           \/ pc' = pc /\ entry' = [entry EXCEPT ![s] = entry[s] + 1]
        /\ signal' = signal /\ criteria' = criteria /\ lock' = lock
        /\ internal' = internal /\ valid' = valid /\ life' = life
        /\ event' = event /\ wanted' = wanted /\ ptr' = ptr
    BY <1>4 DEF SignalLook, signalVars, At
  <2>3. CASE Goto(s, "set") /\ entry' = entry
    BY <1>0, <2>1, <2>2, <2>3 DEF Goto, OtherTypes, Carries
  <2>4. CASE pc' = pc /\ entry' = [entry EXCEPT ![s] = entry[s] + 1]
    <3>1. OtherTypes'
      BY <1>0, <2>1, <2>2, <2>4 DEF OtherTypes
    <3>. QED
      BY <1>0, <2>1, <2>2, <2>4, <3>1 DEF OtherTypes, Carries
  <2>. QED
    BY <2>2, <2>3, <2>4
<1>5. ASSUME SignalSet(s) PROVE OtherTypes' /\ Carries'
  <2>1. entry[s] \in Entries /\ entry[s] + 1 \in 0 .. MaxSignals + 1
    BY <1>0, <1>5, EventsAssumption DEF SignalSet, Entries, Carries, At
  <2>2. valid' \in [Watchers -> BOOLEAN]
    BY <1>5 DEF SignalSet
  <2>3. PICK l \in {"look", "fault"} : Goto(s, l)
    BY <1>5 DEF SignalSet
  <2>4. /\ pc[s] = "set" /\ entry' = [entry EXCEPT ![s] = entry[s] + 1]
        /\ signal' = signal /\ criteria' = criteria /\ lock' = lock
        /\ internal' = internal /\ life' = life
        /\ event' = event /\ wanted' = wanted /\ ptr' = ptr
    BY <1>5 DEF SignalSet, signalVars, At
  <2>5. OtherTypes'
    BY <1>0, <2>1, <2>2, <2>3, <2>4 DEF Goto, OtherTypes
  <2>6. Carries'
    BY <1>0, <2>1, <2>3, <2>4 DEF Goto, OtherTypes, Carries
  <2>. QED
    BY <2>5, <2>6
<1>6. ASSUME SignalEnd(s) PROVE OtherTypes' /\ Carries'
  <2>1. 0 \in 0 .. MaxSignals + 1
    BY EventsAssumption
  <2>. QED
    BY <1>0, <1>6, <2>1 DEF SignalEnd, signalVars, Goto, At, OtherTypes, Carries
<1>. QED
  BY <1>1, <1>2, <1>3, <1>4, <1>5, <1>6 DEF SignalStep

(* A collector changes no signaller, and not the lock.                     *)
CollectorLabels ==
  {"idle", "reset", "take", "got", "wait", "check", "watch", "woken",
   "register", "test", "match", "fault"}

CollectorMoves(t) ==
  /\ \E l \in CollectorLabels : pc' = pc \/ Goto(t, l)
  /\ \E c \in SUBSET Kinds :
       wanted' = wanted \/ wanted' = [wanted EXCEPT ![t] = c]
  /\ internal' \in BOOLEAN /\ valid' \in [Watchers -> BOOLEAN]
  /\ signal' \in [Entries -> Watchers \cup {None}]
  /\ criteria' \in [Entries -> SUBSET Kinds]
  /\ ptr' \in [Watchers -> 0 .. MaxOutstanding]
  /\ lock' = lock /\ life' = life /\ event' = event /\ entry' = entry

LEMMA MovesKeepTypes ==
  ASSUME IInv, NEW t \in Collectors, CollectorMoves(t)
  PROVE  OtherTypes' /\ Carries'
<1>1. OtherTypes /\ Carries /\ t \in Threads
  BY TypesInParts, RolesAreDisjoint DEF IInv
<1>2. PICK l \in CollectorLabels : pc' = pc \/ Goto(t, l)
  BY DEF CollectorMoves
<1>3. \A s \in Signallers : pc'[s] = pc[s]
  BY <1>1, <1>2, RolesAreDisjoint DEF Goto, OtherTypes
<1>4. /\ pc' \in [Threads -> {"idle", "store", "look", "set", "fault",
                         "reset", "take", "got", "wait", "check",
                         "watch", "woken", "register", "test", "match"}]
      /\ wanted' \in [Collectors -> SUBSET Kinds]
  BY <1>1, <1>2 DEF Goto, OtherTypes, CollectorMoves, CollectorLabels
<1>5. OtherTypes'
  BY <1>1, <1>3, <1>4 DEF OtherTypes, CollectorMoves
<1>6. Carries'
  BY <1>1, <1>3 DEF Carries, CollectorMoves
<1>. QED
  BY <1>5, <1>6

LEMMA GettingMoves ==
  ASSUME IInv, NEW t \in Collectors,
         \/ \E c \in Criteria : GetEventRecord(t, c)
         \/ GetStep(t)
  PROVE  CollectorMoves(t) /\ (listVars' = listVars \/ GetTake(t))
<1>0. OtherTypes /\ {} \in SUBSET Kinds
  BY TypesInParts DEF IInv
<1>1. ASSUME NEW c \in Criteria, GetEventRecord(t, c)
      PROVE  CollectorMoves(t) /\ listVars' = listVars
  <2>1. c \in SUBSET Kinds
    BY EventsAssumption
  <2>. QED
    BY <1>0, <1>1, <2>1 DEF GetEventRecord, Ask, signalVars, OtherTypes,
                            CollectorMoves, CollectorLabels
<1>2. ASSUME GetReset(t) PROVE CollectorMoves(t) /\ listVars' = listVars
  BY <1>0, <1>2 DEF GetReset, signalVars, localVars, OtherTypes,
                    CollectorMoves, CollectorLabels
<1>3. ASSUME GetTake(t) PROVE CollectorMoves(t)
  BY <1>0, <1>3 DEF GetTake, Return, signalVars, OtherTypes,
                    CollectorMoves, CollectorLabels
<1>4. ASSUME GetNone(t) PROVE CollectorMoves(t) /\ listVars' = listVars
  BY <1>0, <1>4 DEF GetNone, Return, signalVars, OtherTypes,
                    CollectorMoves, CollectorLabels
<1>5. ASSUME GetWake(t) \/ GetTimeOut(t)
      PROVE  CollectorMoves(t) /\ listVars' = listVars
  BY <1>0, <1>5 DEF GetWake, GetTimeOut, signalVars, localVars, OtherTypes,
                    CollectorMoves, CollectorLabels
<1>6. ASSUME GetAgain(t) PROVE CollectorMoves(t) /\ listVars' = listVars
  BY <1>0, <1>6 DEF GetAgain, Return, signalVars, OtherTypes,
                    CollectorMoves, CollectorLabels
<1>. QED
  BY <1>1, <1>2, <1>3, <1>4, <1>5, <1>6 DEF GetStep, TakeStep

LEMMA WatchingMoves ==
  ASSUME IInv, NEW t \in Watchers,
         \/ \E c \in Criteria : SetEventSignal(t, c)
         \/ \E e \in Entries : SetClear(t, e)
         \/ WatchStep(t)
  PROVE  CollectorMoves(t) /\ (listVars' = listVars \/ GetTake(t))
<1>0. /\ OtherTypes /\ ListTypes /\ {} \in SUBSET Kinds /\ t \in Collectors
      /\ Watched(t) \in SUBSET Kinds
      /\ 0 \in 0 .. MaxOutstanding /\ Slots \subseteq 0 .. MaxOutstanding
  <2>1. OtherTypes /\ ListTypes /\ {} \in SUBSET Kinds /\ t \in Collectors
    BY TypesInParts, RolesAreDisjoint DEF IInv
  <2>2. Watched(t) \in SUBSET Kinds
    BY <2>1 DEF Watched, OtherTypes
  <2>. QED
    BY <2>1, <2>2, EventsAssumption DEF Slots
<1>1. ASSUME NEW c \in Criteria, SetEventSignal(t, c)
      PROVE  CollectorMoves(t) /\ listVars' = listVars
  <2>1. c \in SUBSET Kinds
    BY EventsAssumption
  <2>. QED
    BY <1>0, <1>1, <2>1 DEF SetEventSignal, signalVars, OtherTypes,
                            CollectorMoves, CollectorLabels
<1>2. ASSUME GetReset(t) \/ GetTake(t) \/ GetNone(t)
      PROVE  CollectorMoves(t) /\ (listVars' = listVars \/ GetTake(t))
  BY <1>0, <1>2, GettingMoves DEF GetStep, TakeStep
<1>3. ASSUME SetRegister(t) PROVE CollectorMoves(t) /\ listVars' = listVars
  <2>1. FreeEntries \in SUBSET Nat /\ FreeEntries # {} /\ FreeEntries \subseteq Entries
    BY <1>3, SlotsAreNumbers DEF FreeEntries, SetRegister
  <2>2. Lowest(FreeEntries) \in Entries
    BY <2>1, LowestIsLeast
  <2>3. /\ criteria' = [criteria EXCEPT ![Lowest(FreeEntries)] = wanted[t]]
        /\ signal' = [signal EXCEPT ![Lowest(FreeEntries)] = t]
        /\ Goto(t, "test") /\ listVars' = listVars
        /\ lock' = lock /\ internal' = internal /\ valid' = valid
        /\ life' = life /\ event' = event /\ entry' = entry
        /\ wanted' = wanted /\ ptr' = ptr
    BY <1>3 DEF SetRegister, localVars
  <2>. QED
    BY <1>0, <2>2, <2>3 DEF OtherTypes, CollectorMoves, CollectorLabels
<1>4. ASSUME SetTooMany(t) PROVE CollectorMoves(t) /\ listVars' = listVars
  BY <1>0, <1>4 DEF SetTooMany, Return, signalVars, OtherTypes,
                    CollectorMoves, CollectorLabels
<1>5. ASSUME SetScanTest(t) PROVE CollectorMoves(t) /\ listVars' = listVars
  BY <1>0, <1>5 DEF SetScanTest, Return, signalVars, OtherTypes,
                    CollectorMoves, CollectorLabels
<1>6. ASSUME SetScanMatch(t) PROVE CollectorMoves(t) /\ listVars' = listVars
  <2>1. ptr[t] # 0 => ptr[t] \in Slots
    BY <1>0, EventsAssumption DEF OtherTypes, Slots
  <2>2. Pointed(t) \in Slots \cup {None}
    BY <1>0, <2>1 DEF Pointed, ListTypes
  <2>. QED
    BY <1>0, <1>6, <2>2 DEF SetScanMatch, Return, signalVars, OtherTypes,
                            CollectorMoves, CollectorLabels
<1>7. ASSUME NEW e \in Entries, SetClear(t, e)
      PROVE  CollectorMoves(t) /\ listVars' = listVars
  BY <1>0, <1>7 DEF SetClear, localVars, OtherTypes,
                    CollectorMoves, CollectorLabels
<1>8. ASSUME Watch(t) PROVE CollectorMoves(t) /\ listVars' = listVars
  BY <1>0, <1>8 DEF Watch, signalVars, localVars, OtherTypes,
                    CollectorMoves, CollectorLabels
<1>9. ASSUME WatchReset(t) PROVE CollectorMoves(t) /\ listVars' = listVars
  BY <1>0, <1>9 DEF WatchReset, Ask, signalVars, OtherTypes,
                    CollectorMoves, CollectorLabels
<1>10. ASSUME WatchAgain(t) PROVE CollectorMoves(t) /\ listVars' = listVars
  BY <1>0, <1>10 DEF WatchAgain, Ask, signalVars, OtherTypes,
                     CollectorMoves, CollectorLabels
<1>. QED
  BY <1>1, <1>2, <1>3, <1>4, <1>5, <1>6, <1>7, <1>8, <1>9, <1>10
     DEF WatchStep, TakeStep-----------------------------------------------------------------------------
(* Which steps change the list, and that all of them keep the invariant.   *)
ListStep ==
  \/ \E s \in Signallers : SignalStore(s) \/ SignalDiscard(s)
  \/ \E t \in Collectors : GetTake(t)

LEMMA NextTypes ==
  ASSUME IInv, [Next]_vars
  PROVE  OtherTypes' /\ Carries' /\ (listVars' = listVars \/ ListStep)
<1>0. OtherTypes /\ Carries
  BY TypesInParts DEF IInv
<1>1. ASSUME NEW s \in Signallers,
             (\E k \in Kinds : SignalEvent(s, k)) \/ SignalStep(s)
      PROVE  listVars' = listVars \/ ListStep
  BY <1>1 DEF SignalEvent, SignalStep, SignalLook, SignalSet, SignalEnd, ListStep
<1>2. ASSUME NEW g \in Getters,
             (\E c \in Criteria : GetEventRecord(g, c)) \/ GetStep(g)
      PROVE  OtherTypes' /\ Carries' /\ (listVars' = listVars \/ ListStep)
  BY <1>2, RolesAreDisjoint, GettingMoves, MovesKeepTypes DEF ListStep
<1>3. ASSUME NEW w \in Watchers,
             \/ \E c \in Criteria : SetEventSignal(w, c)
             \/ \E e \in Entries : SetClear(w, e)
             \/ WatchStep(w)
      PROVE  OtherTypes' /\ Carries' /\ (listVars' = listVars \/ ListStep)
  BY <1>3, RolesAreDisjoint, WatchingMoves, MovesKeepTypes DEF ListStep
<1>4. CASE TerminatePlayback \/ Shutdown \/ UNCHANGED vars
  <2>1. /\ signal' = signal /\ criteria' = criteria /\ lock' = lock
        /\ internal' = internal /\ valid' = valid /\ pc' = pc
        /\ event' = event /\ entry' = entry /\ wanted' = wanted /\ ptr' = ptr
        /\ life' \in {"playing", "terminated", "shutdown"}
        /\ listVars' = listVars
    BY <1>0, <1>4 DEF TerminatePlayback, Shutdown, vars, signalVars, localVars,
                      OtherTypes
  <2>2. OtherTypes'
    BY <1>0, <2>1 DEF OtherTypes
  <2>3. Carries'
    BY <1>0, <2>1 DEF Carries
  <2>. QED
    BY <2>1, <2>2, <2>3
<1>. QED
  BY <1>1, <1>2, <1>3, <1>4, SignallerKeepsTypes DEF Next

LEMMA NextKeepsIInv == IInv /\ [Next]_vars => IInv'
<1> SUFFICES ASSUME IInv, [Next]_vars PROVE IInv'
  OBVIOUS
<1>1. OtherTypes' /\ Carries'
  BY NextTypes
<1>2. ListTypes' /\ ListIsChain'
  <2>1. CASE listVars' = listVars
    BY <2>1, TypesInParts DEF IInv, listVars, ListTypes, ListIsChain
  <2>2. CASE ListStep
    BY <2>2, StoreKeepsList, DiscardKeepsList, TakeKeepsList DEF ListStep
  <2>. QED
    BY <2>1, <2>2, NextTypes
<1>3. TypeOK'
  BY <1>1, <1>2 DEF TypeOK, ListTypes, OtherTypes
<1>. QED
  BY <1>1, <1>2, <1>3 DEF IInv

LEMMA InitIsIInv == Init => IInv
<1> SUFFICES ASSUME Init PROVE IInv
  OBVIOUS
<1>1. chain = << >> /\ chain \in Seq(Slots) /\ Len(chain) = 0
  BY EmptySeq DEF Init
<1>2. ListTypes
  BY <1>1 DEF Init, ListTypes
<1>3. OtherTypes
  <2>1. 0 \in 0 .. MaxSignals + 1 /\ 0 \in 0 .. MaxOutstanding
    BY EventsAssumption
  <2>2. pc \in [Threads -> {"idle", "watch"}]
    BY DEF Init
  <2>3. valid \in [Watchers -> BOOLEAN] /\ internal \in BOOLEAN
    BY DEF Init
  <2>. QED
    BY <2>1, <2>2, <2>3 DEF Init, OtherTypes
<1>4. ListIsChain
  BY <1>1 DEF Init, ListIsChain
<1>5. Carries
  BY RolesAreDisjoint DEF Init, Carries, Collectors
<1>. QED
  BY <1>2, <1>3, <1>4, <1>5, TypesInParts DEF IInv

LEMMA IInvAlways == Spec => []IInv
  BY InitIsIInv, NextKeepsIInv, PTL DEF Spec

(* The tables, flags and threads of the player's events keep their types.  *)
THEOREM TypeCorrect == Spec => []TypeOK
<1>1. IInv => TypeOK
  BY DEF IInv
<1>. QED
  BY <1>1, IInvAlways, PTL

(* The links go through exactly the entries in use, in order.              *)
THEOREM ListIsAlwaysAChain == Spec => []ListIsChain
<1>1. IInv => ListIsChain
  BY DEF IInv
<1>. QED
  BY <1>1, IInvAlways, PTL
-----------------------------------------------------------------------------
(* The records in the order of the chain, as EventQueue sees them.         *)
Codes(c, q) == [n \in 1 .. Len(q) |-> c[q[n]]]

LEMMA CodesAreASeq ==
  ASSUME NEW c \in [Slots -> Kinds \cup {None}], NEW q \in Seq(Slots),
         \A n \in 1 .. Len(q) : c[q[n]] # None
  PROVE  /\ Codes(c, q) \in Seq(Kinds)
         /\ Len(Codes(c, q)) = Len(q)
         /\ \A n \in 1 .. Len(q) : Codes(c, q)[n] = c[q[n]]
<1>1. Len(q) \in Nat /\ \A n \in 1 .. Len(q) : q[n] \in Slots
  BY LenProperties
<1>2. Codes(c, q) \in [1 .. Len(q) -> Kinds]
  BY <1>1 DEF Codes
<1>3. Codes(c, q) \in Seq(Kinds)
  BY <1>1, <1>2, SeqDef
<1>4. Len(Codes(c, q)) = Len(q)
  BY <1>1, <1>2, <1>3, LenProperties
<1>. QED
  BY <1>3, <1>4 DEF Codes

(* The list is full when no entry is free, and only then.                  *)
LEMMA FullWhenNoneFree ==
  ASSUME ListTypes, ListIsChain
  PROVE  IF Free = {} THEN Len(chain) = MaxOutstanding
                      ELSE Len(chain) < MaxOutstanding
<1> DEFINE L == Len(chain)
<1>1. L \in Nat /\ chain \in [1 .. L -> Slots] /\ DOMAIN chain = 1 .. L
  BY LenProperties DEF ListTypes
<1>2. chain \in Injection(1 .. L, Slots)
  BY <1>1 DEF Injection, IsInjective, ListIsChain
<1>3. /\ IsFiniteSet(Slots) /\ Cardinality(Slots) = MaxOutstanding
      /\ Cardinality(1 .. L) = L
  <2>1. /\ MaxOutstanding \in Int /\ ~(1 > MaxOutstanding) /\ L \in Int
        /\ MaxOutstanding - 1 + 1 = MaxOutstanding
        /\ L - 1 + 1 = L /\ (1 > L => L = 0)
    BY <1>1, EventsAssumption
  <2> HIDE DEF L
  <2>2. IsFiniteSet(1 .. MaxOutstanding) /\ Cardinality(1 .. MaxOutstanding) = MaxOutstanding
    BY <2>1, FS_Interval
  <2>3. Cardinality(1 .. L) = L
    BY <2>1, FS_Interval
  <2>. QED
    BY <2>2, <2>3 DEF Slots
<1>4. /\ L <= MaxOutstanding
      /\ L = MaxOutstanding <=> chain \in Surjection(1 .. L, Slots)
  BY <1>2, <1>3, FS_Injection
<1>5. chain \in Surjection(1 .. L, Slots) <=> Free = {}
  BY <1>1 DEF Surjection, Free, ListIsChain
<1> HIDE DEF L
<1>6. IF Free = {} THEN L = MaxOutstanding ELSE L < MaxOutstanding
  BY <1>1, <1>4, <1>5, EventsAssumption
<1>. QED
  BY <1>6 DEF L
LEMMA QueueIsCodes ==
  ASSUME IInv, IInv'
  PROVE  /\ Queue \in Seq(Kinds) /\ Queue' \in Seq(Kinds)
         /\ Len(Queue) = Len(chain) /\ Len(Queue') = Len(chain')
         /\ \A n \in 1 .. Len(chain) : Queue[n] = code[chain[n]]
         /\ \A n \in 1 .. Len(chain') : Queue'[n] = code'[chain'[n]]
<1>1. /\ code \in [Slots -> Kinds \cup {None}] /\ chain \in Seq(Slots)
      /\ code' \in [Slots -> Kinds \cup {None}] /\ chain' \in Seq(Slots)
  BY DEF IInv, TypeOK
<1>2. /\ \A n \in 1 .. Len(chain) : chain[n] \in Slots /\ code[chain[n]] # None
      /\ \A n \in 1 .. Len(chain') : chain'[n] \in Slots /\ code'[chain'[n]] # None
  <2>1. /\ \A n \in 1 .. Len(chain) : chain[n] \in Slots
        /\ \A n \in 1 .. Len(chain') : chain'[n] \in Slots
    BY <1>1, LenProperties
  <2>. QED
    BY <2>1 DEF IInv, ListIsChain
<1>3. Queue = Codes(code, chain) /\ Queue' = Codes(code', chain')
  BY DEF Queue, Codes
<1> HIDE DEF Codes
<1>. QED
  BY <1>1, <1>2, <1>3, CodesAreASeq

(* Linking a record puts it last.                                          *)
LEMMA StorePuts ==
  ASSUME IInv, IInv', NEW s \in Signallers, SignalStore(s)
  PROVE  Events!Next
<1>0. ListTypes /\ ListIsChain
  BY TypesInParts DEF IInv
<1>1. PICK i \in Slots : /\ code[i] = None
                        /\ code' = [code EXCEPT ![i] = event[s]]
                        /\ chain' = Append(chain, i)
  BY StoreKeepsList
<1>2. event[s] \in Kinds /\ Free # {} /\ wanted' = wanted
  BY DEF IInv, Carries, SignalStore, At
<1> DEFINE L == Len(chain)
<1>3. L \in Nat /\ L < MaxOutstanding /\ \A n \in 1 .. L : chain[n] \in Slots
  BY <1>0, <1>2, FullWhenNoneFree, ChainElements
<1>4. /\ Len(chain') = L + 1 /\ chain'[L + 1] = i
      /\ \A n \in 1 .. L : chain'[n] = chain[n] /\ chain[n] # i
  BY <1>0, <1>1, AppendProperties DEF ListTypes, ListIsChain
<1>5. /\ code'[i] = event[s]
      /\ \A n \in 1 .. L : code'[chain[n]] = code[chain[n]]
  BY <1>0, <1>1, <1>3, <1>4 DEF ListTypes
<1>6. /\ Queue \in Seq(Kinds) /\ Queue' \in Seq(Kinds)
      /\ Len(Queue) = L /\ Len(Queue') = L + 1
      /\ \A n \in 1 .. L : Queue[n] = code[chain[n]]
      /\ \A n \in 1 .. L + 1 : Queue'[n] = code'[chain'[n]]
  BY <1>4, QueueIsCodes
<1> HIDE DEF L
<1>7. /\ Append(Queue, event[s]) \in Seq(Kinds)
      /\ Len(Append(Queue, event[s])) = L + 1
      /\ \A n \in 1 .. L : Append(Queue, event[s])[n] = Queue[n]
      /\ Append(Queue, event[s])[L + 1] = event[s]
  BY <1>2, <1>6, AppendProperties
<1>8. \A n \in 1 .. L + 1 : Queue'[n] = Append(Queue, event[s])[n]
  BY <1>3, <1>4, <1>5, <1>6, <1>7
<1>9. Queue' = Append(Queue, event[s])
  BY <1>6, <1>7, <1>8, SeqEqual
<1>10. Events!Put(event[s])
  BY <1>2, <1>3, <1>6, <1>9 DEF Events!Put
<1>. QED
  BY <1>2, <1>10 DEF Events!Next

(* Discarding drops the oldest record of a full list.                      *)
LEMMA DiscardDrops ==
  ASSUME IInv, IInv', NEW s \in Signallers, SignalDiscard(s)
  PROVE  Events!Next
<1>0. ListTypes /\ ListIsChain
  BY TypesInParts DEF IInv
<1>1. /\ chain # << >> /\ chain' = Tail(chain)
      /\ code' = [code EXCEPT ![chain[1]] = None]
      /\ Free = {} /\ wanted' = wanted
  BY DiscardKeepsList DEF SignalDiscard, localVars
<1> DEFINE L == Len(chain)
<1>2. /\ L \in Nat /\ L # 0 /\ L = MaxOutstanding
      /\ \A n \in 1 .. L : chain[n] \in Slots
  BY <1>0, <1>1, FullWhenNoneFree, ChainElements
<1>3. /\ Len(chain') = L - 1
      /\ \A n \in 1 .. L - 1 : chain'[n] = chain[n + 1]
  BY <1>0, <1>1, HeadTailProperties DEF ListTypes
<1>4. \A m, n \in 1 .. L : chain[m] = chain[n] => m = n
  BY <1>0 DEF ListIsChain
<1>5. /\ Queue \in Seq(Kinds) /\ Queue' \in Seq(Kinds)
      /\ Len(Queue) = L /\ Len(Queue') = L - 1
      /\ \A n \in 1 .. L : Queue[n] = code[chain[n]]
      /\ \A n \in 1 .. L - 1 : Queue'[n] = code'[chain'[n]]
  BY <1>3, QueueIsCodes
<1> HIDE DEF L
<1>6. ASSUME NEW n \in 1 .. L - 1 PROVE Queue'[n] = Queue[n + 1]
  <2>1. n + 1 \in 1 .. L /\ 1 \in 1 .. L /\ n + 1 # 1
    BY <1>2
  <2>2. chain[n + 1] # chain[1] /\ chain[n + 1] \in Slots
    BY <1>2, <1>4, <2>1
  <2>3. code'[chain[n + 1]] = code[chain[n + 1]]
    BY <1>0, <1>1, <2>2 DEF ListTypes
  <2>. QED
    BY <1>3, <1>5, <2>1, <2>3
<1>7. /\ Tail(Queue) \in Seq(Kinds) /\ Len(Tail(Queue)) = L - 1
      /\ \A n \in 1 .. L - 1 : Tail(Queue)[n] = Queue[n + 1]
  <2>1. Queue # << >>
    BY <1>2, <1>5, EmptySeq
  <2>. QED
    BY <1>5, <2>1, HeadTailProperties
<1>8. Queue' = Tail(Queue)
  BY <1>5, <1>6, <1>7, SeqEqual
<1>9. Events!DropOldest
  BY <1>1, <1>2, <1>5, <1>8 DEF Events!DropOldest
<1>. QED
  BY <1>9 DEF Events!Next

(* A collector takes the first that its criteria match.                    *)
LEMMA TakeCollects ==
  ASSUME IInv, IInv', NEW t \in Collectors, GetTake(t)
  PROVE  Events!Next
<1>0. ListTypes /\ ListIsChain
  BY TypesInParts DEF IInv
<1>1. PICK i \in 1 .. Len(chain) :
        /\ code[chain[i]] \in wanted[t]
        /\ \A m \in 1 .. i - 1 : code[chain[m]] \notin wanted[t]
        /\ code' = [code EXCEPT ![chain[i]] = None]
        /\ chain' = RemoveAt(chain, i)
  BY TakeKeepsList
<1>2. wanted' = [wanted EXCEPT ![t] = {}]
  BY DEF GetTake, Return
<1> DEFINE L == Len(chain)
<1>3. L \in Nat /\ \A n \in 1 .. L : chain[n] \in Slots
  BY <1>0, ChainElements
<1>4. /\ Len(chain') = L - 1
      /\ \A n \in 1 .. L - 1 : chain'[n] = IF n < i THEN chain[n] ELSE chain[n + 1]
  BY <1>0, <1>1, RemoveAtElements DEF ListTypes
<1>5. \A m, n \in 1 .. L : chain[m] = chain[n] => m = n
  BY <1>0 DEF ListIsChain
<1>6. /\ Queue \in Seq(Kinds) /\ Queue' \in Seq(Kinds)
      /\ Len(Queue) = L /\ Len(Queue') = L - 1
      /\ \A n \in 1 .. L : Queue[n] = code[chain[n]]
      /\ \A n \in 1 .. L - 1 : Queue'[n] = code'[chain'[n]]
  BY <1>4, QueueIsCodes
<1> HIDE DEF L
<1>7. i \in 1 .. L
  BY <1>1 DEF L
<1>8. /\ RemoveAt(Queue, i) \in Seq(Kinds) /\ Len(RemoveAt(Queue, i)) = L - 1
      /\ \A n \in 1 .. L - 1 :
           RemoveAt(Queue, i)[n] = IF n < i THEN Queue[n] ELSE Queue[n + 1]
  BY <1>6, <1>7, RemoveAtElements
<1>9. ASSUME NEW n \in 1 .. L - 1 PROVE Queue'[n] = RemoveAt(Queue, i)[n]
  <2> DEFINE k == IF n < i THEN n ELSE n + 1
  <2>1. k \in 1 .. L /\ k # i
    BY <1>3, <1>7
  <2>2. chain'[n] = chain[k] /\ RemoveAt(Queue, i)[n] = Queue[k]
    BY <1>4, <1>8
  <2> HIDE DEF k
  <2>3. chain[k] # chain[i] /\ chain[k] \in Slots
    BY <1>3, <1>5, <1>7, <2>1
  <2>4. code'[chain[k]] = code[chain[k]]
    BY <1>0, <1>1, <2>3 DEF ListTypes
  <2>. QED
    BY <1>6, <2>1, <2>2, <2>4
<1>10. Queue' = RemoveAt(Queue, i)
  BY <1>6, <1>8, <1>9, SeqEqual
<1>11. /\ i \in 1 .. Len(Queue) /\ Queue[i] \in wanted[t]
       /\ \A j \in 1 .. i - 1 : Queue[j] \notin wanted[t]
  <2>1. \A j \in 1 .. i - 1 : j \in 1 .. L
    BY <1>3, <1>7
  <2>. QED
    BY <1>1, <1>6, <1>7, <2>1
<1>12. Events!Collect(t)
  BY <1>2, <1>10, <1>11 DEF Events!Collect, Events!RemoveAt, RemoveAt
<1>. QED
  BY <1>12 DEF Events!Next

(* All other steps leave the queue alone; some set a call's criteria.      *)
LEMMA WantedIsAsked ==
  ASSUME IInv, [Next]_vars
  PROVE  \/ wanted' = wanted
         \/ \E t \in Collectors, c \in SUBSET Kinds :
              wanted' = [wanted EXCEPT ![t] = c]
<1>1. ASSUME NEW s \in Signallers,
             (\E k \in Kinds : SignalEvent(s, k)) \/ SignalStep(s)
      PROVE  wanted' = wanted
  BY <1>1 DEF SignalEvent, SignalStep, SignalStore, SignalDiscard, SignalLook,
              SignalSet, SignalEnd, localVars
<1>2. ASSUME NEW t \in Collectors, CollectorMoves(t)
      PROVE  \/ wanted' = wanted
             \/ \E c \in SUBSET Kinds : wanted' = [wanted EXCEPT ![t] = c]
  BY <1>2 DEF CollectorMoves
<1>3. ASSUME NEW g \in Getters,
             (\E c \in Criteria : GetEventRecord(g, c)) \/ GetStep(g)
      PROVE  g \in Collectors /\ CollectorMoves(g)
  BY <1>3, RolesAreDisjoint, GettingMoves
<1>4. ASSUME NEW w \in Watchers,
             \/ \E c \in Criteria : SetEventSignal(w, c)
             \/ \E e \in Entries : SetClear(w, e)
             \/ WatchStep(w)
      PROVE  w \in Collectors /\ CollectorMoves(w)
  BY <1>4, RolesAreDisjoint, WatchingMoves
<1>5. ASSUME TerminatePlayback \/ Shutdown \/ UNCHANGED vars
      PROVE  wanted' = wanted
  BY <1>5 DEF TerminatePlayback, Shutdown, vars, localVars
<1>. QED
  BY <1>1, <1>2, <1>3, <1>4, <1>5 DEF Next

LEMMA NextRefines ==
  IInv /\ IInv' /\ [Next]_vars => [Events!Next]_(Events!queueVars)
<1> SUFFICES ASSUME IInv, IInv', [Next]_vars
             PROVE  [Events!Next]_(Events!queueVars)
  OBVIOUS
<1>1. CASE ListStep
  BY <1>1, StorePuts, DiscardDrops, TakeCollects DEF ListStep
<1>2. CASE listVars' = listVars
  <2>1. Queue' = Queue
    BY <1>2 DEF Queue, listVars
  <2>2. CASE wanted' = wanted
    BY <2>1, <2>2 DEF Events!queueVars
  <2>3. ASSUME NEW t \in Collectors, NEW c \in SUBSET Kinds,
               wanted' = [wanted EXCEPT ![t] = c]
        PROVE  Events!Next
    <3>1. Events!Ask(t, c)
      BY <2>1, <2>3 DEF Events!Ask
    <3>. QED
      BY <3>1 DEF Events!Next
  <2>. QED
    BY <2>2, <2>3, WantedIsAsked
<1>. QED
  BY <1>1, <1>2, NextTypes

(* Whatever the sizes of the tables and the number of threads, the records *)
(* of the player are the queue that EventQueue describes.                  *)
THEOREM PlayerEventsImplementEventQueue == Spec => EventsAreAQueue
<1>1. Init => Events!Init
  <2> SUFFICES ASSUME Init PROVE Events!Init
    OBVIOUS
  <2>1. chain = << >> /\ Len(chain) = 0
    BY EmptySeq DEF Init
  <2>2. Queue = << >>
    BY <2>1 DEF Queue
  <2>. QED
    BY <2>2 DEF Init, Events!Init
<1>. QED
  BY <1>1, IInvAlways, NextRefines, PTL DEF Spec, EventsAreAQueue, Events!Spec
-----------------------------------------------------------------------------
(* No signal is lost, as long as signals are set and cleared while nobody  *)
(* is inside SignalEvent or GetEventRecord (Quiet).                        *)
Apart == Setting => ~Signalling /\ ~Getting

(* A signaller at an entry of the table has found it to match.             *)
Aims ==
  \A s \in Signallers :
    /\ pc[s] \in {"look", "set"} => entry[s] >= 1
    /\ pc[s] = "set" => /\ signal[entry[s]] # None
                        /\ event[s] \in criteria[entry[s]]

(* What is in the list for a watcher is known to it, or will be: outside   *)
(* its calls, inside GetEventRecord, and while it scans the list, where    *)
(* what matches lies ahead of it and matches what it is registering.       *)
Told(w) ==
  pc[w] \in {"watch", "register"} /\ ~valid[w] /\ Matching(Watched(w)) # {} =>
    \E s \in Signallers : StillToSet(s, w)

Asks(w) == pc[w] \in {"reset", "take"} => wanted[w] = Watched(w)

Scans(w) ==
  IF pc[w] \in {"test", "match"}
  THEN /\ ptr[w] # 0 => \E m \in 1 .. Len(chain) : chain[m] = ptr[w]
       /\ ~valid[w] => \A n \in Matching(Watched(w)) :
            /\ n \in Matching(wanted[w])
            /\ ptr[w] # 0 => \E m \in 1 .. n - 1 : chain[m] = ptr[w]
  ELSE ptr[w] = 0

Informed(w) == Told(w) /\ Asks(w) /\ Scans(w)

SignalInv == Apart /\ Aims /\ \A w \in Watchers : Informed(w)

LEMMA SignalInit == Init => SignalInv
<1> SUFFICES ASSUME Init PROVE SignalInv
  OBVIOUS
<1>1. /\ \A s \in Signallers : pc[s] = "idle"
      /\ \A w \in Watchers : pc[w] = "watch"
  BY RolesAreDisjoint DEF Init, Collectors
<1>2. Apart /\ Aims
  BY <1>1 DEF Apart, Setting, Aims
<1>3. ASSUME NEW w \in Watchers PROVE Informed(w)
  <2>1. chain = << >> /\ Len(chain) = 0
    BY EmptySeq DEF Init
  <2>2. Matching(Watched(w)) = {}
    BY <2>1 DEF Matching
  <2>3. ptr[w] = 0
    BY DEF Init
  <2>. QED
    BY <1>1, <2>2, <2>3 DEF Informed, Told, Asks, Scans
<1>. QED
  BY <1>2, <1>3 DEF SignalInv

LEMMA WatchedKinds ==
  ASSUME NEW w, NEW k
  PROVE  /\ k \in Watched(w) <=>
              \E e \in Entries : signal[e] = w /\ k \in criteria[e]
         /\ k \in Watched(w)' <=>
              \E e \in Entries : signal'[e] = w /\ k \in criteria'[e]
BY DEF Watched

(* Taking and discarding records brings no watcher a match.                *)
LEMMA MatchesLeave ==
  ASSUME IInv, NEW c,
         \/ \E s \in Signallers : SignalDiscard(s)
         \/ \E t \in Collectors : GetTake(t),
         NEW n \in 1 .. Len(chain'), code'[chain'[n]] \in c
  PROVE  \E m \in 1 .. Len(chain) : code[chain[m]] \in c
<1>0. ListTypes /\ ListIsChain
  BY TypesInParts DEF IInv
<1> DEFINE L == Len(chain)
<1>1. L \in Nat /\ \A k \in 1 .. L : chain[k] \in Slots
  BY <1>0, ChainElements
<1>3. \A k, m \in 1 .. L : chain[k] = chain[m] => k = m
  BY <1>0 DEF ListIsChain
<1>4. ASSUME NEW s \in Signallers, SignalDiscard(s) PROVE \E m \in 1 .. L : code[chain[m]] \in c
  <2>1. /\ chain # << >> /\ chain' = Tail(chain)
        /\ code' = [code EXCEPT ![chain[1]] = None]
    BY <1>4, DiscardKeepsList
  <2>2. Len(chain') = L - 1 /\ \A m \in 1 .. L - 1 : chain'[m] = chain[m + 1]
    BY <1>0, <2>1, HeadTailProperties DEF ListTypes
  <2> HIDE DEF L
  <2>3. n + 1 \in 1 .. L /\ 1 \in 1 .. L /\ n + 1 # 1 /\ chain'[n] = chain[n + 1]
    BY <1>1, <2>2
  <2>4. chain[n + 1] # chain[1] /\ chain[n + 1] \in Slots
    BY <1>1, <1>3, <2>3
  <2>5. code[chain[n + 1]] \in c
    BY <1>0, <2>1, <2>3, <2>4 DEF ListTypes
  <2>. QED
    BY <2>3, <2>5 DEF L
<1>5. ASSUME NEW t \in Collectors, GetTake(t) PROVE \E m \in 1 .. L : code[chain[m]] \in c
  <2>1. PICK i \in 1 .. L : /\ code' = [code EXCEPT ![chain[i]] = None]
                           /\ chain' = RemoveAt(chain, i)
    BY <1>5, TakeKeepsList
  <2>2. /\ Len(chain') = L - 1
        /\ \A m \in 1 .. L - 1 :
             chain'[m] = IF m < i THEN chain[m] ELSE chain[m + 1]
    BY <1>0, <2>1, RemoveAtElements DEF ListTypes
  <2> DEFINE k == IF n < i THEN n ELSE n + 1
  <2> HIDE DEF L
  <2>3. k \in 1 .. L /\ k # i /\ chain'[n] = chain[k]
    BY <1>1, <2>2
  <2> HIDE DEF k
  <2>4. chain[k] # chain[i] /\ chain[k] \in Slots
    BY <1>1, <1>3, <2>3
  <2>5. code[chain[k]] \in c
    BY <1>0, <2>1, <2>3, <2>4 DEF ListTypes
  <2>. QED
    BY <2>3, <2>5 DEF L
<1>. QED
  BY <1>4, <1>5

(* A step that leaves alone a watcher and what is registered for it, and   *)
(* brings no record while somebody scans, leaves it informed.              *)
LEMMA InformedKept ==
  ASSUME IInv, SignalInv, NEW w \in Watchers,
         pc'[w] = pc[w], valid'[w] = valid[w], ptr'[w] = ptr[w],
         wanted'[w] = wanted[w], Watched(w)' = Watched(w),
         \/ listVars' = listVars
         \/ ~Setting /\ (Matching(Watched(w))' # {} => Matching(Watched(w)) # {}),
         \A s \in Signallers : StillToSet(s, w) => StillToSet(s, w)'
  PROVE  Informed(w)'
<1>1. Told(w) /\ Asks(w) /\ Scans(w)
  BY DEF SignalInv, Informed
<1>2. CASE listVars' = listVars
  <2>1. code' = code /\ chain' = chain
    BY <1>2 DEF listVars
  <2>2. /\ Matching(Watched(w))' = Matching(Watched(w))
        /\ Matching(wanted[w])' = Matching(wanted[w])
    BY <2>1 DEF Matching
  <2>3. Told(w)'
    BY <1>1, <2>2 DEF Told
  <2>4. Asks(w)'
    BY <1>1 DEF Asks
  <2>5. Scans(w)'
    BY <1>1, <2>1, <2>2 DEF Scans
  <2>. QED
    BY <2>3, <2>4, <2>5 DEF Informed
<1>3. CASE ~Setting /\ (Matching(Watched(w))' # {} => Matching(Watched(w)) # {})
  <2>1. pc[w] \notin {"register", "test", "match"}
    BY <1>3 DEF Setting
  <2>2. Told(w)'
    BY <1>1, <1>3 DEF Told
  <2>3. Asks(w)'
    BY <1>1 DEF Asks
  <2>4. Scans(w)'
    BY <1>1, <2>1 DEF Scans
  <2>. QED
    BY <2>2, <2>3, <2>4 DEF Informed
<1>. QED
  BY <1>2, <1>3
(* SignalEvent leaves watchers informed: the watchers of a record that is  *)
(* linked are found in the table ahead of the signaller, and are set when  *)
(* it reaches them.                                                        *)
LEMMA SignallersInform ==
  ASSUME IInv, SignalInv, Quiet, NEW s \in Signallers,
         \/ \E k \in Kinds : SignalEvent(s, k)
         \/ SignalStep(s)
  PROVE  SignalInv'
<1>0. /\ OtherTypes /\ Carries /\ ListTypes
      /\ Apart /\ Aims /\ \A w \in Watchers : Told(w) /\ Scans(w)
  BY TypesInParts DEF IInv, SignalInv, Informed
<1>1. /\ signal' = signal /\ criteria' = criteria
      /\ wanted' = wanted /\ ptr' = ptr
      /\ \E l \in {"idle", "store", "look", "set", "fault"} :
           pc' = pc \/ Goto(s, l)
  BY DEF SignalEvent, SignalStep, SignalStore, SignalDiscard, SignalLook,
         SignalSet, SignalEnd, signalVars, localVars
<1>2. /\ \A t \in Collectors : pc'[t] = pc[t]
      /\ \A x \in Signallers : x # s => pc'[x] = pc[x]
      /\ s \in Threads
  BY <1>0, <1>1, RolesAreDisjoint DEF Goto, OtherTypes
<1>3. \A x \in Signallers : x # s => event'[x] = event[x] /\ entry'[x] = entry[x]
  BY <1>0 DEF SignalEvent, SignalStep, SignalStore, SignalDiscard, SignalLook,
         SignalSet, SignalEnd, localVars, OtherTypes
<1>4. ~Setting
  <2>1. CASE \E k \in Kinds : SignalEvent(s, k)
    BY <2>1 DEF SignalEvent
  <2>2. CASE SignalStep(s)
    <3>1. pc[s] # "idle"
      BY <2>2 DEF SignalStep, SignalStore, SignalDiscard, SignalLook,
                  SignalSet, SignalEnd, At
    <3>. QED
      BY <1>0, <3>1 DEF Apart, Signalling
  <2>. QED
    BY <2>1, <2>2
<1>5. ~Setting' /\ Apart'
  BY <1>2, <1>4, RolesAreDisjoint DEF Setting, Apart
<1>6. \A w \in Watchers : Watched(w)' = Watched(w)
  BY <1>1 DEF Watched
<1>7. \A w \in Watchers, x \in Signallers :
        x # s /\ StillToSet(x, w) => StillToSet(x, w)'
  BY <1>1, <1>2, <1>3 DEF StillToSet
<1>8. ASSUME NEW w \in Watchers, Told(w)' PROVE Informed(w)'
  <2>1. w \in Collectors
    BY RolesAreDisjoint
  <2>2. Asks(w)'
    BY <1>0, <1>1, <1>2, <1>6, <2>1 DEF SignalInv, Informed, Asks
  <2>3. Scans(w)'
    BY <1>0, <1>1, <1>2, <1>4, <2>1 DEF Scans, Setting
  <2>. QED
    BY <1>8, <2>2, <2>3 DEF Informed
<1> DEFINE Tells == \A w \in Watchers : Told(w)'
<1>9. ASSUME NEW k \in Kinds, SignalEvent(s, k) PROVE Tells /\ Aims'
  <2>1. /\ pc[s] = "idle" /\ pc'[s] = "store" /\ entry' = entry
        /\ valid' = valid /\ code' = code /\ chain' = chain
    BY <1>0, <1>2, <1>9 DEF SignalEvent, Goto, At, listVars, OtherTypes
  <2>2. Aims'
    BY <1>0, <1>1, <1>2, <1>3, <2>1 DEF Aims
  <2>3. \A w \in Watchers : ~StillToSet(s, w)
    BY <2>1 DEF StillToSet
  <2>4. ASSUME NEW w \in Watchers PROVE Told(w)'
    <3>1. Matching(Watched(w))' = Matching(Watched(w))
      BY <1>6, <2>1 DEF Matching
    <3>. QED
      BY <1>0, <1>2, <1>7, <2>1, <2>3, <3>1, RolesAreDisjoint DEF Told
  <2>. QED
    BY <2>2, <2>4
<1>10. ASSUME SignalStore(s) PROVE Tells /\ Aims'
  <2>1. /\ pc[s] = "store" /\ pc'[s] = "look" /\ valid' = valid
        /\ entry'[s] = 1 /\ event' = event
    BY <1>0, <1>2, <1>10 DEF SignalStore, Goto, At, OtherTypes
  <2>2. PICK i \in Slots : /\ code' = [code EXCEPT ![i] = event[s]]
                          /\ code[i] = None
                          /\ chain' = Append(chain, i)
    BY <1>10, StoreKeepsList
  <2>3. Aims'
    BY <1>0, <1>1, <1>2, <1>3, <2>1 DEF Aims
  <2>4. \A w \in Watchers : ~StillToSet(s, w)
    BY <2>1 DEF StillToSet
  <2>5. ASSUME NEW w \in Watchers PROVE Told(w)'
    <3> SUFFICES ASSUME pc'[w] = "watch", ~valid'[w],
                        NEW n \in 1 .. Len(chain'),
                        code'[chain'[n]] \in Watched(w)
                 PROVE  \E x \in Signallers : StillToSet(x, w)'
      BY <1>5, <1>6 DEF Told, Matching, Setting
    <3>1. /\ Len(chain') = Len(chain) + 1 /\ Len(chain) \in Nat
          /\ \A m \in 1 .. Len(chain) : chain'[m] = chain[m] /\ chain[m] \in Slots
          /\ chain'[Len(chain) + 1] = i
      BY <1>0, <2>2, AppendProperties, ChainElements DEF ListTypes
    <3>2. CASE chain'[n] = i
      <4>1. event[s] \in Watched(w)
        BY <1>0, <2>2, <3>2 DEF ListTypes
      <4>2. PICK e \in Entries : signal[e] = w /\ event[s] \in criteria[e]
        BY <4>1, WatchedKinds
      <4>3. e \in 1 .. MaxSignals
        BY DEF Entries
      <4>4. StillToSet(s, w)'
        BY <1>1, <2>1, <4>2, <4>3 DEF StillToSet
      <4>. QED
        BY <4>4
    <3>3. CASE chain'[n] # i
      <4>1. n \in 1 .. Len(chain) /\ code[chain[n]] \in Watched(w)
        BY <1>0, <2>2, <3>1, <3>3 DEF ListTypes
      <4>2. Matching(Watched(w)) # {}
        BY <4>1 DEF Matching
      <4>3. PICK x \in Signallers : StillToSet(x, w)
        BY <1>0, <1>2, <2>1, <4>2, RolesAreDisjoint DEF Told
      <4>. QED
        BY <1>7, <2>4, <4>3
    <3>. QED
      BY <3>2, <3>3
  <2>. QED
    BY <2>3, <2>5
<1>11. ASSUME SignalDiscard(s) PROVE Tells /\ Aims'
  <2>1. pc' = pc /\ valid' = valid /\ event' = event /\ entry' = entry
    BY <1>11 DEF SignalDiscard, localVars
  <2>2. Aims'
    BY <1>0, <1>1, <2>1 DEF Aims
  <2>3. \A w \in Watchers, x \in Signallers : StillToSet(x, w) => StillToSet(x, w)'
    BY <1>1, <2>1 DEF StillToSet
  <2>4. ASSUME NEW w \in Watchers PROVE Told(w)'
    <3>1. Matching(Watched(w))' # {} => Matching(Watched(w)) # {}
      BY <1>6, <1>11, MatchesLeave DEF Matching
    <3>. QED
      BY <1>0, <2>1, <2>3, <3>1 DEF Told
  <2>. QED
    BY <2>2, <2>4
<1>12. ASSUME SignalLook(s) PROVE Tells /\ Aims'
  <2>1. /\ pc[s] = "look" /\ entry[s] \in Entries /\ event' = event
        /\ valid' = valid /\ code' = code /\ chain' = chain
        /\ IF signal[entry[s]] # None /\ event[s] \in criteria[entry[s]]
           THEN pc'[s] = "set" /\ entry'[s] = entry[s]
           ELSE pc'[s] = "look" /\ entry'[s] = entry[s] + 1
    BY <1>0, <1>2, <1>12 DEF SignalLook, Goto, At, listVars, OtherTypes
  <2>2. entry[s] \in Nat /\ entry[s] >= 1 /\ MaxSignals \in Nat
    BY <2>1, EventsAssumption DEF Entries
  <2>3. Aims'
    BY <1>0, <1>1, <1>2, <1>3, <2>1, <2>2 DEF Aims
  <2>4. ASSUME NEW w \in Watchers, StillToSet(s, w) PROVE StillToSet(s, w)'
    <3>1. PICK e \in entry[s] .. MaxSignals :
            signal[e] = w /\ event[s] \in criteria[e]
      BY <2>4 DEF StillToSet
    <3>2. w # None
      BY EventsAssumption DEF Threads, Collectors
    <3>3. e \in entry'[s] .. MaxSignals
      BY <2>1, <2>2, <3>1, <3>2
    <3>. QED
      BY <1>1, <2>1, <3>1, <3>3 DEF StillToSet
  <2>5. ASSUME NEW w \in Watchers PROVE Told(w)'
    <3>1. Matching(Watched(w))' = Matching(Watched(w))
      BY <1>6, <2>1 DEF Matching
    <3>. QED
      BY <1>0, <1>2, <1>7, <2>1, <2>4, <3>1, RolesAreDisjoint DEF Told
  <2>. QED
    BY <2>3, <2>5
<1>13. ASSUME SignalSet(s) PROVE Tells /\ Aims'
  <2>1. /\ pc[s] = "set" /\ signal[entry[s]] # None /\ entry[s] >= 1
        /\ entry[s] \in 0 .. MaxSignals + 1
    BY <1>0, <1>13 DEF SignalSet, At, Aims, OtherTypes
  <2>2. /\ pc'[s] = "look" /\ entry'[s] = entry[s] + 1 /\ event' = event
        /\ code' = code /\ chain' = chain
        /\ \A w \in Watchers : valid'[w] <=> valid[w] \/ w = signal[entry[s]]
    BY <1>0, <1>2, <1>13, <2>1 DEF SignalSet, Goto, listVars, OtherTypes
  <2>3. Aims'
    BY <1>0, <1>1, <1>2, <1>3, <2>1, <2>2 DEF Aims
  <2>4. ASSUME NEW w \in Watchers, StillToSet(s, w), ~valid'[w]
        PROVE  StillToSet(s, w)'
    <3>1. PICK e \in entry[s] .. MaxSignals :
            signal[e] = w /\ event[s] \in criteria[e]
      BY <2>4 DEF StillToSet
    <3>2. e \in entry'[s] .. MaxSignals
      BY <2>1, <2>2, <2>4, <3>1
    <3>. QED
      BY <1>1, <2>2, <3>1, <3>2 DEF StillToSet
  <2>5. ASSUME NEW w \in Watchers PROVE Told(w)'
    <3>1. Matching(Watched(w))' = Matching(Watched(w))
      BY <1>6, <2>2 DEF Matching
    <3>. QED
      BY <1>0, <1>2, <1>7, <2>2, <2>4, <3>1, RolesAreDisjoint DEF Told
  <2>. QED
    BY <2>3, <2>5
<1>14. ASSUME SignalEnd(s) PROVE Tells /\ Aims'
  <2>1. /\ pc[s] = "look" /\ entry[s] \notin Entries /\ pc'[s] = "idle"
        /\ valid' = valid /\ code' = code /\ chain' = chain
        /\ entry[s] \in 0 .. MaxSignals + 1 /\ entry[s] >= 1
    BY <1>0, <1>2, <1>14 DEF SignalEnd, Goto, At, listVars, OtherTypes, Aims
  <2>2. Aims'
    BY <1>0, <1>1, <1>2, <1>3, <2>1 DEF Aims
  <2>3. \A w \in Watchers : ~StillToSet(s, w)
    BY <2>1, EventsAssumption DEF StillToSet, Entries
  <2>4. ASSUME NEW w \in Watchers PROVE Told(w)'
    <3>1. Matching(Watched(w))' = Matching(Watched(w))
      BY <1>6, <2>1 DEF Matching
    <3>. QED
      BY <1>0, <1>2, <1>7, <2>1, <2>3, <3>1, RolesAreDisjoint DEF Told
  <2>. QED
    BY <2>2, <2>4
<1>15. Tells /\ Aims'
  BY <1>9, <1>10, <1>11, <1>12, <1>13, <1>14 DEF SignalStep
<1>. QED
  BY <1>5, <1>8, <1>15 DEF SignalInv
(* GetEventRecord by a getter leaves watchers informed.                    *)
LEMMA GettersInform ==
  ASSUME IInv, SignalInv, Quiet, NEW g \in Getters,
         \/ \E c \in Criteria : GetEventRecord(g, c)
         \/ GetStep(g)
  PROVE  SignalInv'
<1>0. /\ OtherTypes /\ Apart /\ Aims
      /\ g \in Collectors /\ g \notin Watchers /\ g \notin Signallers
  BY TypesInParts, RolesAreDisjoint DEF IInv, SignalInv
<1>1. /\ signal' = signal /\ criteria' = criteria /\ ptr' = ptr /\ valid' = valid
      /\ event' = event /\ entry' = entry
      /\ \E l \in CollectorLabels : pc' = pc \/ Goto(g, l)
      /\ \E c \in SUBSET Kinds : wanted' = wanted \/ wanted' = [wanted EXCEPT ![g] = c]
      /\ listVars' = listVars \/ GetTake(g)
  <2>1. /\ signal' = signal /\ criteria' = criteria /\ ptr' = ptr
        /\ valid' = valid
    BY DEF GetEventRecord, GetStep, TakeStep, GetReset, GetTake, GetNone,
           GetWake, GetTimeOut, GetAgain, signalVars, localVars
  <2>2. CollectorMoves(g) /\ (listVars' = listVars \/ GetTake(g))
    BY <1>0, GettingMoves
  <2>. QED
    BY <2>1, <2>2 DEF CollectorMoves
<1>2. /\ \A w \in Watchers : pc'[w] = pc[w] /\ wanted'[w] = wanted[w]
      /\ \A s \in Signallers : pc'[s] = pc[s]
  BY <1>0, <1>1, RolesAreDisjoint DEF Goto, OtherTypes
<1>3. ~Setting
  <2>1. CASE \E c \in Criteria : GetEventRecord(g, c)
    BY <2>1 DEF GetEventRecord, Ask
  <2>2. CASE GetStep(g)
    <3>1. pc[g] # "idle"
      BY <2>2 DEF GetStep, TakeStep, GetReset, GetTake, GetNone, GetWake,
                  GetTimeOut, GetAgain, At
    <3>. QED
      BY <1>0, <3>1 DEF Apart, Getting
  <2>. QED
    BY <2>1, <2>2
<1>4. Apart'
  BY <1>2, <1>3 DEF Apart, Setting
<1>5. Aims'
  BY <1>0, <1>1, <1>2 DEF Aims
<1>6. ASSUME NEW w \in Watchers PROVE Informed(w)'
  <2>1. Watched(w)' = Watched(w)
    BY <1>1 DEF Watched
  <2>2. \A s \in Signallers : StillToSet(s, w) => StillToSet(s, w)'
    BY <1>1, <1>2 DEF StillToSet
  <2>3. \/ listVars' = listVars
        \/ ~Setting /\ (Matching(Watched(w))' # {} => Matching(Watched(w)) # {})
    BY <1>0, <1>1, <1>3, <2>1, MatchesLeave DEF Matching
  <2>4. valid'[w] = valid[w] /\ ptr'[w] = ptr[w]
    BY <1>1
  <2>. QED
    BY <1>2, <2>1, <2>2, <2>3, <2>4, InformedKept
<1>. QED
  BY <1>4, <1>5, <1>6 DEF SignalInv

(* What a watcher's step leaves alone.                                     *)
LEMMA OtherWatchers ==
  ASSUME IInv, SignalInv, NEW w \in Watchers,
         \/ \E c \in Criteria : SetEventSignal(w, c)
         \/ \E e \in Entries : SetClear(w, e)
         \/ WatchStep(w)
  PROVE  /\ event' = event /\ entry' = entry
         /\ \A s \in Signallers : pc'[s] = pc[s]
         /\ \A g \in Getters : pc'[g] = pc[g]
         /\ \A v \in Watchers : v # w =>
              /\ pc'[v] = pc[v] /\ wanted'[v] = wanted[v]
              /\ valid'[v] = valid[v] /\ ptr'[v] = ptr[v]
         /\ \A v \in Watchers, e \in Entries : v # w =>
              /\ signal'[e] = v <=> signal[e] = v
              /\ signal[e] = v => criteria'[e] = criteria[e]
<1>0. OtherTypes /\ w \in Collectors
  BY TypesInParts, RolesAreDisjoint DEF IInv
<1>1. CollectorMoves(w)
  BY WatchingMoves
<1>2. PICK l \in CollectorLabels, c \in SUBSET Kinds :
        /\ pc' = pc \/ Goto(w, l)
        /\ wanted' = wanted \/ wanted' = [wanted EXCEPT ![w] = c]
  BY <1>1 DEF CollectorMoves
<1>3. \A v \in Watchers : v # w => valid'[v] = valid[v] /\ ptr'[v] = ptr[v]
  BY <1>0 DEF SetEventSignal, SetClear, WatchStep, TakeStep, GetReset, GetTake,
         GetNone, SetRegister, SetTooMany, SetScanTest, SetScanMatch, Watch,
         WatchReset, WatchAgain, localVars, OtherTypes
<1>4. \A v \in Watchers, e \in Entries : v # w =>
         /\ signal'[e] = v <=> signal[e] = v
         /\ signal[e] = v => criteria'[e] = criteria[e]
  <2>1. CASE SetRegister(w)
    <3>1. FreeEntries \in SUBSET Nat /\ FreeEntries # {}
      BY <2>1, SlotsAreNumbers DEF FreeEntries, SetRegister
    <3>2. Lowest(FreeEntries) \in FreeEntries
      BY <3>1, LowestIsLeast
    <3>3. PICK f \in Entries : /\ signal[f] = None
                              /\ criteria' = [criteria EXCEPT ![f] = wanted[w]]
                              /\ signal' = [signal EXCEPT ![f] = w]
      BY <2>1, <3>2 DEF SetRegister, FreeEntries
    <3>4. None \notin Watchers
      BY EventsAssumption DEF Threads, Collectors
    <3>. QED
      BY <1>0, <3>3, <3>4 DEF OtherTypes
  <2>2. ASSUME NEW f \in Entries, SetClear(w, f)
        PROVE  \A v \in Watchers, e \in Entries : v # w =>
                 /\ signal'[e] = v <=> signal[e] = v
                 /\ signal[e] = v => criteria'[e] = criteria[e]
    <3>1. None \notin Watchers
      BY EventsAssumption DEF Threads, Collectors
    <3>. QED
      BY <1>0, <2>2, <3>1 DEF SetClear, OtherTypes
  <2>3. CASE /\ ~SetRegister(w) /\ ~\E f \in Entries : SetClear(w, f)
    <3>1. signal' = signal /\ criteria' = criteria
      BY <2>3 DEF SetEventSignal, WatchStep, TakeStep, GetReset, GetTake,
         GetNone, SetTooMany, SetScanTest, SetScanMatch, Watch,
         WatchReset, WatchAgain, signalVars
    <3>. QED
      BY <3>1
  <2>. QED
    BY <2>1, <2>2, <2>3
<1>5. \A t \in Threads : t # w => pc'[t] = pc[t]
  BY <1>0, <1>2 DEF Goto, OtherTypes
<1>6. \A v \in Watchers : v # w => wanted'[v] = wanted[v]
  BY <1>0, <1>2, RolesAreDisjoint DEF OtherTypes
<1>. QED
  BY <1>1, <1>3, <1>4, <1>5, <1>6, RolesAreDisjoint DEF CollectorMoves
(* A watcher's own step leaves it informed: of what it registers for it    *)
(* finds the oldest that is already in the list.                           *)
LEMMA WatcherInformsItself ==
  ASSUME IInv, SignalInv, Quiet, NEW w \in Watchers,
         \/ \E c \in Criteria : SetEventSignal(w, c)
         \/ \E e \in Entries : SetClear(w, e)
         \/ WatchStep(w)
  PROVE  Informed(w)'
<1>0. /\ OtherTypes /\ ListTypes /\ ListIsChain /\ Apart
      /\ Told(w) /\ Asks(w) /\ Scans(w)
      /\ w \in Threads /\ w \in Collectors /\ w # None
  BY TypesInParts, RolesAreDisjoint DEF IInv, SignalInv, Informed
<1>1. ASSUME NEW c \in Criteria, SetEventSignal(w, c) PROVE Informed(w)'
  <2>1. /\ pc[w] = "watch" /\ pc'[w] = "register" /\ ptr' = ptr /\ valid' = valid
        /\ signal' = signal /\ criteria' = criteria /\ code' = code
        /\ chain' = chain /\ event' = event /\ entry' = entry
        /\ \A s \in Signallers : pc'[s] = pc[s]
    BY <1>0, <1>1, RolesAreDisjoint
       DEF SetEventSignal, Goto, At, signalVars, listVars, OtherTypes
  <2>2. /\ Matching(Watched(w))' = Matching(Watched(w))
        /\ \A s \in Signallers : StillToSet(s, w) => StillToSet(s, w)'
    BY <2>1 DEF Matching, Watched, StillToSet
  <2>3. Told(w)'
    BY <1>0, <2>1, <2>2 DEF Told
  <2>. QED
    BY <1>0, <2>1, <2>3 DEF Informed, Asks, Scans
<1>2. ASSUME NEW f \in Entries, SetClear(w, f) PROVE Informed(w)'
  <2>1. /\ pc' = pc /\ pc[w] = "watch" /\ ptr' = ptr /\ valid' = valid
        /\ code' = code /\ chain' = chain /\ ~Signalling
        /\ signal' = [signal EXCEPT ![f] = None]
        /\ criteria' = [criteria EXCEPT ![f] = {}]
    BY <1>2 DEF SetClear, At, localVars, listVars
  <2>2. Watched(w)' \subseteq Watched(w)
    BY <1>0, <2>1, WatchedKinds DEF OtherTypes
  <2>3. Matching(Watched(w))' \subseteq Matching(Watched(w))
    BY <2>1, <2>2 DEF Matching
  <2>4. \A s \in Signallers : ~StillToSet(s, w)
    BY <2>1 DEF StillToSet, Signalling
  <2>5. Told(w)'
    BY <1>0, <2>1, <2>3, <2>4 DEF Told
  <2>. QED
    BY <1>0, <2>1, <2>5 DEF Informed, Asks, Scans
<1>3. ASSUME GetReset(w) \/ WatchReset(w) \/ WatchAgain(w) PROVE Informed(w)'
  <2>1. /\ pc[w] \in {"reset", "woken", "got"} /\ pc'[w] \in {"take", "reset"}
        /\ pc[w] = "reset" => wanted' = wanted
        /\ pc[w] # "reset" => wanted'[w] = Watched(w)
        /\ ptr' = ptr /\ signal' = signal /\ criteria' = criteria
    BY <1>0, <1>3 DEF GetReset, WatchReset, WatchAgain, Ask, Goto, At,
                      signalVars, localVars, OtherTypes
  <2>2. Watched(w)' = Watched(w)
    BY <2>1 DEF Watched
  <2>3. Asks(w)'
    BY <1>0, <2>1, <2>2 DEF Asks
  <2>. QED
    BY <1>0, <2>1, <2>3 DEF Informed, Told, Scans
<1>4. ASSUME GetTake(w) \/ Watch(w) PROVE Informed(w)'
  <2>1. /\ pc[w] \in {"take", "watch"} /\ pc'[w] \in {"got", "woken"}
        /\ ptr' = ptr
    BY <1>0, <1>4 DEF GetTake, Watch, Return, Goto, At, localVars, OtherTypes
  <2>. QED
    BY <1>0, <2>1 DEF Informed, Told, Asks, Scans
<1>5. ASSUME GetNone(w) PROVE Informed(w)'
  <2>1. /\ pc[w] = "take" /\ pc'[w] = "watch" /\ ptr' = ptr
        /\ signal' = signal /\ criteria' = criteria
        /\ code' = code /\ chain' = chain /\ Matching(wanted[w]) = {}
    BY <1>0, <1>5 DEF GetNone, Return, Goto, At, signalVars, listVars, OtherTypes
  <2>2. Matching(Watched(w))' = Matching(wanted[w])
    BY <1>0, <2>1 DEF Matching, Watched, Asks
  <2>. QED
    BY <1>0, <2>1, <2>2 DEF Informed, Told, Asks, Scans
<1>6. ASSUME SetRegister(w) PROVE Informed(w)'
  <2>1. FreeEntries \in SUBSET Nat /\ FreeEntries # {}
    BY <1>6, SlotsAreNumbers DEF FreeEntries, SetRegister
  <2>2. Lowest(FreeEntries) \in FreeEntries
    BY <2>1, LowestIsLeast
  <2>3. PICK f \in Entries : /\ signal[f] = None
                            /\ criteria' = [criteria EXCEPT ![f] = wanted[w]]
                            /\ signal' = [signal EXCEPT ![f] = w]
    BY <1>6, <2>2 DEF SetRegister, FreeEntries
  <2>4. /\ pc[w] = "register" /\ pc'[w] = "test" /\ wanted' = wanted
        /\ ptr' = ptr /\ valid' = valid /\ code' = code /\ chain' = chain
    BY <1>0, <1>6 DEF SetRegister, Goto, At, localVars, listVars, OtherTypes
  <2>5. \A s \in Signallers : ~StillToSet(s, w)
    BY <1>0, <2>4 DEF Apart, Setting, Signalling, StillToSet
  <2>6. ~valid[w] => Matching(Watched(w)) = {}
    BY <1>0, <2>4, <2>5 DEF Told
  <2>7. \A k \in Watched(w)' : k \in Watched(w) \/ k \in wanted[w]
    BY <1>0, <2>3, WatchedKinds DEF OtherTypes
  <2>8. ASSUME ~valid'[w], NEW n \in Matching(Watched(w))'
        PROVE  n \in Matching(wanted[w])'
    BY <2>4, <2>6, <2>7, <2>8 DEF Matching
  <2>9. Scans(w)'
    BY <1>0, <2>4, <2>8 DEF Scans
  <2>. QED
    BY <2>4, <2>9 DEF Informed, Told, Asks
<1>7. ASSUME SetTooMany(w) PROVE Informed(w)'
  <2>1. /\ pc[w] = "register" /\ pc'[w] = "watch" /\ ptr' = ptr /\ valid' = valid
        /\ signal' = signal /\ criteria' = criteria /\ code' = code
        /\ chain' = chain /\ event' = event /\ entry' = entry
        /\ \A s \in Signallers : pc'[s] = pc[s]
    BY <1>0, <1>7, RolesAreDisjoint
       DEF SetTooMany, Return, Goto, At, signalVars, listVars, OtherTypes
  <2>2. /\ Matching(Watched(w))' = Matching(Watched(w))
        /\ \A s \in Signallers : StillToSet(s, w) => StillToSet(s, w)'
    BY <2>1 DEF Matching, Watched, StillToSet
  <2>3. Told(w)'
    BY <1>0, <2>1, <2>2 DEF Told
  <2>. QED
    BY <1>0, <2>1, <2>3 DEF Informed, Asks, Scans
<1> DEFINE L == Len(chain)
<1>8. L \in Nat /\ \A k \in 1 .. L : chain[k] \in Slots /\ chain[k] # 0
  BY <1>0, ChainElements, SlotsAreNumbers
<1>9. ASSUME pc[w] \in {"test", "match"}
      PROVE  \E m \in 0 .. L :
               /\ Pointed(w) = IF m = L THEN None ELSE chain[m + 1]
               /\ ~valid[w] => \A n \in Matching(Watched(w)) :
                                 n \in Matching(wanted[w]) /\ n > m
  <2>1. CASE ptr[w] = 0
    <3>1. Pointed(w) = IF L = 0 THEN None ELSE chain[1]
      BY <1>0, <2>1, ChainElements DEF Pointed, ListIsChain
    <3>2. ~valid[w] => \A n \in Matching(Watched(w)) :
                                 n \in Matching(wanted[w]) /\ n > 0
      BY <1>0, <1>8, <1>9 DEF Scans, Matching
    <3>. QED
      BY <1>8, <3>1, <3>2
  <2>2. CASE ptr[w] # 0
    <3>1. PICK m \in 1 .. L : chain[m] = ptr[w]
      BY <1>0, <1>9, <2>2 DEF Scans
    <3>2. Pointed(w) = IF m = L THEN None ELSE chain[m + 1]
      BY <1>0, <2>2, <3>1 DEF Pointed, ListIsChain
    <3>3. ASSUME ~valid[w], NEW n \in Matching(Watched(w))
          PROVE  n \in Matching(wanted[w]) /\ n > m
      <4>1. PICK j \in 1 .. n - 1 : chain[j] = ptr[w]
        BY <1>0, <1>9, <2>2, <3>3 DEF Scans
      <4>2. n \in 1 .. L
        BY DEF Matching
      <4>3. j \in 1 .. L
        BY <1>8, <4>2
      <4>4. j = m
        BY <1>0, <3>1, <4>1, <4>3 DEF ListIsChain
      <4>. QED
        BY <1>0, <1>8, <1>9, <3>3, <4>1, <4>2, <4>4 DEF Scans
    <3>. QED
      BY <1>8, <3>1, <3>2, <3>3
  <2>. QED
    BY <2>1, <2>2
<1>10. ASSUME SetScanTest(w) PROVE Informed(w)'
  <2>1. /\ pc[w] = "test" /\ valid' = valid
        /\ signal' = signal /\ criteria' = criteria
        /\ code' = code /\ chain' = chain
        /\ IF Pointed(w) = None
           THEN pc'[w] = "watch" /\ ptr'[w] = 0
           ELSE pc'[w] = "match" /\ wanted' = wanted /\ ptr' = ptr
    BY <1>0, <1>10 DEF SetScanTest, Return, Goto, At, signalVars, listVars,
                       OtherTypes
  <2>2. /\ Watched(w)' = Watched(w)
        /\ Matching(Watched(w))' = Matching(Watched(w))
    BY <2>1 DEF Matching, Watched
  <2>3. CASE Pointed(w) = None
    <3>1. PICK m \in 0 .. L :
               /\ Pointed(w) = IF m = L THEN None ELSE chain[m + 1]
               /\ ~valid[w] => \A n \in Matching(Watched(w)) : n > m
      BY <1>9, <2>1
    <3>2. m = L
      BY <1>8, <2>3, <3>1, SlotsAreNumbers
    <3>3. ~valid[w] => Matching(Watched(w)) = {}
      BY <1>8, <3>1, <3>2 DEF Matching
    <3>. QED
      BY <2>1, <2>2, <2>3, <3>3 DEF Informed, Told, Asks, Scans
  <2>4. CASE Pointed(w) # None
    <3>1. Matching(wanted[w])' = Matching(wanted[w])
      BY <2>1, <2>4 DEF Matching
    <3>2. Scans(w)'
      BY <1>0, <2>1, <2>2, <2>4, <3>1 DEF Scans
    <3>. QED
      BY <2>1, <2>4, <3>2 DEF Informed, Told, Asks
  <2>. QED
    BY <2>3, <2>4
<1>11. ASSUME SetScanMatch(w) PROVE Informed(w)'
  <2> DEFINE i == Pointed(w)
  <2>1. /\ pc[w] = "match" /\ signal' = signal /\ criteria' = criteria
        /\ code' = code /\ chain' = chain
        /\ IF i # None /\ code[i] \notin wanted[w]
           THEN /\ pc'[w] = "test" /\ ptr'[w] = i
                /\ wanted' = wanted /\ valid' = valid
           ELSE /\ valid'[w] <=> valid[w] \/ i # None
                /\ ptr'[w] = 0
                /\ pc'[w] = IF i = None THEN "fault" ELSE "watch"
    BY <1>0, <1>11 DEF SetScanMatch, Return, Goto, At, signalVars, listVars,
                       OtherTypes
  <2>2. /\ Watched(w)' = Watched(w)
        /\ Matching(Watched(w))' = Matching(Watched(w))
    BY <2>1 DEF Matching, Watched
  <2>3. CASE i # None /\ code[i] \notin wanted[w]
    <3>1. PICK m \in 0 .. L :
               /\ i = IF m = L THEN None ELSE chain[m + 1]
               /\ ~valid[w] => \A n \in Matching(Watched(w)) :
                                 n \in Matching(wanted[w]) /\ n > m
      BY <1>9, <2>1
    <3>2. m + 1 \in 1 .. L /\ i = chain[m + 1] /\ i # 0
      BY <1>8, <2>3, <3>1
    <3> HIDE DEF i
    <3>3. ASSUME ~valid[w], NEW n \in Matching(Watched(w))
          PROVE  n \in Matching(wanted[w]) /\ m + 1 \in 1 .. n - 1
      <4>1. n \in Matching(wanted[w]) /\ n > m
        BY <3>1, <3>3
      <4>2. n \in 1 .. L /\ code[chain[n]] \in wanted[w]
        BY <4>1 DEF Matching
      <4>3. n # m + 1
        BY <2>3, <3>2, <4>2
      <4>. QED
        BY <1>8, <4>1, <4>2, <4>3
    <3>4. Matching(wanted[w])' = Matching(wanted[w])
      BY <2>1, <2>3 DEF Matching
    <3>5. Scans(w)'
      BY <2>1, <2>2, <2>3, <3>2, <3>3, <3>4 DEF Scans
    <3>. QED
      BY <2>1, <2>3, <3>5 DEF Informed, Told, Asks
  <2>4. CASE ~(i # None /\ code[i] \notin wanted[w])
    BY <2>1, <2>4 DEF Informed, Told, Asks, Scans
  <2>. QED
    BY <2>3, <2>4
<1>. QED
  BY <1>1, <1>2, <1>3, <1>4, <1>5, <1>6, <1>7, <1>10, <1>11
     DEF WatchStep, TakeStep
(* A watcher's step leaves the others informed too.                        *)
LEMMA WatchersInform ==
  ASSUME IInv, SignalInv, Quiet, NEW w \in Watchers,
         \/ \E c \in Criteria : SetEventSignal(w, c)
         \/ \E e \in Entries : SetClear(w, e)
         \/ WatchStep(w)
  PROVE  SignalInv'
<1>0. /\ OtherTypes /\ Carries /\ Apart /\ Aims
      /\ w \in Threads /\ w \in Collectors
  BY TypesInParts, RolesAreDisjoint DEF IInv, SignalInv
<1>1. /\ event' = event /\ entry' = entry
      /\ \A s \in Signallers : pc'[s] = pc[s]
      /\ \A g \in Getters : pc'[g] = pc[g]
      /\ \A v \in Watchers : v # w =>
              /\ pc'[v] = pc[v] /\ wanted'[v] = wanted[v]
              /\ valid'[v] = valid[v] /\ ptr'[v] = ptr[v]
      /\ \A v \in Watchers, e \in Entries : v # w =>
              /\ signal'[e] = v <=> signal[e] = v
              /\ signal[e] = v => criteria'[e] = criteria[e]
  BY OtherWatchers
<1>2. /\ Signalling' <=> Signalling
      /\ (\E g \in Getters : pc'[g] # "idle") <=> (\E g \in Getters : pc[g] # "idle")
  BY <1>1 DEF Signalling
<1> DEFINE Sets(v)  == pc[v] \in {"register", "test", "match"}
           Gets(v)  == pc[v] \in {"reset", "take"}
<1>3. \/ \E c \in Criteria : SetEventSignal(w, c) /\ Sets(w)'
      \/ Gets(w)' /\ (Gets(w) \/ ~Setting)
      \/ ~Sets(w)' /\ ~Gets(w)'
      \/ Sets(w)' /\ Sets(w)
  BY <1>0 DEF SetEventSignal, SetClear, WatchStep, TakeStep, GetReset, GetTake,
       GetNone, SetRegister, SetTooMany, SetScanTest, SetScanMatch, Watch,
       WatchReset, WatchAgain, Ask, Return, Goto, At, localVars, OtherTypes
<1>4. Apart'
  <2> SUFFICES ASSUME Setting' PROVE ~Signalling' /\ ~Getting'
    BY DEF Apart
  <2>1. PICK v \in Watchers : Sets(v)'
    BY DEF Setting
  <2>2. \A u \in Watchers : u # w => (Sets(u)' <=> Sets(u)) /\ (Gets(u)' <=> Gets(u))
    BY <1>1
  <2>3. ~(Gets(w) /\ Setting)
    BY <1>0 DEF Apart, Getting
  <2> HIDE DEF Sets, Gets
  <2>4. ASSUME Setting, ~Gets(w)' PROVE ~Signalling' /\ ~Getting'
    <3>1. ~Signalling /\ ~Getting
      BY <1>0, <2>4 DEF Apart
    <3>. QED
      BY <1>2, <2>2, <2>4, <3>1 DEF Getting, Gets
  <2>5. CASE \E c \in Criteria : SetEventSignal(w, c) /\ Sets(w)'
    <3>1. ~Signalling /\ ~Getting /\ ~Gets(w)'
      BY <2>5 DEF SetEventSignal, Sets, Gets
    <3>. QED
      BY <1>2, <2>2, <3>1 DEF Getting, Gets
  <2>6. CASE Gets(w)' /\ (Gets(w) \/ ~Setting)
    <3>1. v # w
      BY <2>1, <2>6 DEF Sets, Gets
    <3>2. Setting
      BY <2>1, <2>2, <3>1 DEF Setting, Sets
    <3>. QED
      BY <2>3, <2>6, <3>2
  <2>7. CASE ~Sets(w)' /\ ~Gets(w)'
    <3>1. Setting
      BY <2>1, <2>2, <2>7 DEF Setting, Sets
    <3>. QED
      BY <2>4, <2>7, <3>1
  <2>8. CASE Sets(w)' /\ Sets(w)
    <3>1. Setting /\ ~Gets(w)'
      BY <2>8 DEF Setting, Sets, Gets
    <3>. QED
      BY <2>4, <3>1
  <2>. QED
    BY <1>3, <2>5, <2>6, <2>7, <2>8
<1>5. Aims'
  <2> SUFFICES ASSUME NEW s \in Signallers
               PROVE  /\ pc[s] \in {"look", "set"} => entry[s] >= 1
                      /\ pc[s] = "set" => /\ signal'[entry[s]] # None
                                          /\ event[s] \in criteria'[entry[s]]
    BY <1>1 DEF Aims
  <2>1. CASE Signalling
    <3>1. ~Setting
      BY <1>0, <2>1 DEF Apart
    <3>2. ~SetRegister(w) /\ ~\E e \in Entries : SetClear(w, e)
      BY <2>1, <3>1 DEF SetRegister, SetClear, Setting, At
    <3>3. signal' = signal /\ criteria' = criteria
      BY <3>2 DEF SetEventSignal, WatchStep, TakeStep, GetReset, GetTake,
         GetNone, SetTooMany, SetScanTest, SetScanMatch, Watch,
         WatchReset, WatchAgain, signalVars
    <3>. QED
      BY <1>0, <3>3 DEF Aims
  <2>2. CASE ~Signalling
    <3>1. pc[s] = "idle"
      BY <2>2 DEF Signalling
    <3>. QED
      BY <3>1
  <2>. QED
    BY <2>1, <2>2
<1>6. ASSUME NEW v \in Watchers PROVE Informed(v)'
  <2>1. CASE v = w
    BY <2>1, WatcherInformsItself
  <2>2. CASE v # w
    <3>1. \A k : k \in Watched(v)' <=> k \in Watched(v)
      BY <1>1, <2>2, WatchedKinds
    <3>2. Watched(v)' = Watched(v)
      BY <3>1
    <3>3. \A s \in Signallers : StillToSet(s, v) => StillToSet(s, v)'
      <4> SUFFICES ASSUME NEW s \in Signallers, StillToSet(s, v)
                   PROVE  StillToSet(s, v)'
        OBVIOUS
      <4>1. PICK e \in entry[s] .. MaxSignals :
              signal[e] = v /\ event[s] \in criteria[e]
        BY DEF StillToSet
      <4>2. e \in Entries
        BY <1>0, <4>1, EventsAssumption DEF StillToSet, Aims, OtherTypes, Entries
      <4>. QED
        BY <1>1, <2>2, <4>1, <4>2 DEF StillToSet
    <3>4. \/ listVars' = listVars
          \/ ~Setting /\ (Matching(Watched(v))' # {} => Matching(Watched(v)) # {})
      <4>1. listVars' = listVars \/ GetTake(w)
        BY WatchingMoves
      <4>2. GetTake(w) => ~Setting
        BY <1>0 DEF GetTake, At, Apart, Getting
      <4>. QED
        BY <1>0, <3>2, <4>1, <4>2, MatchesLeave DEF Matching
    <3>. QED
      BY <1>1, <2>2, <3>2, <3>3, <3>4, InformedKept
  <2>. QED
    BY <2>1, <2>2
<1>. QED
  BY <1>4, <1>5, <1>6 DEF SignalInv

LEMMA SignalNext ==
  ASSUME Quiet
  PROVE  IInv /\ SignalInv /\ [Next]_vars => SignalInv'
<1> SUFFICES ASSUME IInv, SignalInv, [Next]_vars PROVE SignalInv'
  OBVIOUS
<1>1. ASSUME TerminatePlayback \/ Shutdown \/ UNCHANGED vars PROVE SignalInv'
  <2>1. /\ pc' = pc /\ entry' = entry /\ event' = event /\ valid' = valid
        /\ ptr' = ptr /\ wanted' = wanted /\ listVars' = listVars
        /\ signal' = signal /\ criteria' = criteria
    BY <1>1 DEF TerminatePlayback, Shutdown, vars, signalVars, localVars
  <2>2. Apart' /\ Aims'
    BY <2>1 DEF SignalInv, Apart, Setting, Signalling, Getting, Aims
  <2>3. ASSUME NEW w \in Watchers PROVE Informed(w)'
    <3>1. /\ Watched(w)' = Watched(w)
          /\ \A s \in Signallers : StillToSet(s, w) => StillToSet(s, w)'
      BY <2>1 DEF Watched, StillToSet
    <3>2. pc'[w] = pc[w] /\ valid'[w] = valid[w] /\ ptr'[w] = ptr[w]
          /\ wanted'[w] = wanted[w]
      BY <2>1
    <3>. QED
      BY <2>1, <3>1, <3>2, InformedKept
  <2>. QED
    BY <2>2, <2>3 DEF SignalInv
<1>. QED
  BY <1>1, SignallersInform, GettersInform, WatchersInform DEF Next

(* If signals are set and cleared while nobody is inside SignalEvent or    *)
(* GetEventRecord, no watcher waits while a record that it registered for  *)
(* is in the list, unless its event is set or a signaller is about to set  *)
(* it.                                                                     *)
THEOREM QuietLosesNoSignal ==
  ASSUME Quiet
  PROVE  Spec => []NoLostSignal
<1>1. SignalInv => NoLostSignal
  BY DEF SignalInv, Informed, Told, NoLostSignal, At
<1>. QED
  BY <1>1, SignalInit, SignalNext, IInvAlways, PTL DEF Spec
=============================================================================
