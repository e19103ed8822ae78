------------------------- MODULE RingGeneric_proofs -------------------------
(***************************************************************************)
(* Proofs about RingGeneric, for any number of threads and any ring size:  *)
(* its type invariant, that it implements BoundedFifo, and that the        *)
(* unlocked tests of the only extractor of a roomy ring are safe.          *)
(***************************************************************************)
EXTENDS RingGeneric, SequenceTheorems, FiniteSetTheorems, TLAPS

InsertPoints  == {"idle", "store", "wrap", "test", "signal"}
ExtractPoints == {"idle", "peek", "wait", "take", "advance"}

(* A thread holds the lock exactly between the points that take it and     *)
(* those that give it back.                                                *)
LockInv ==
  /\ \A t \in Threads : lock = t <=> pc[t] \in {"wrap", "test", "advance"}
  /\ \A i \in Inserters : pc[i] \in InsertPoints
  /\ \A e \in Extractors : pc[e] \in ExtractPoints

(* What an inserter has done so far.                                       *)
InsertInv ==
  \A i \in Inserters :
    /\ pc[i] \in {"store", "wrap", "test"} => arg[i] \in Values
    /\ pc[i] \in {"wrap", "test"} => storage[old[i]] = arg[i]
    /\ pc[i] = "wrap" => nextInsert = old[i] + 1
    /\ pc[i] = "test" => nextInsert = Wrap(old[i] + 1)

ExtractInv ==
  \A e \in Extractors :
    pc[e] = "advance" => nextExtract \in 1 .. Limit /\ arg[e] \in Values

(* A slot between the two indices holds a word.                            *)
Live(n) ==
  IF ExtractIndex <= InsertIndex
  THEN ExtractIndex <= n /\ n < InsertIndex
  ELSE ExtractIndex <= n \/ n < InsertIndex

LiveInv == \A n \in 0 .. Limit - 1 : Live(n) => storage[n] \in Values

RingInv == TypeOK /\ LockInv /\ InsertInv /\ ExtractInv /\ LiveInv

-----------------------------------------------------------------------------
(* Both ends of the ring are slots of it.                                  *)
LEMMA IndexRange ==
  ASSUME TypeOK, LockInv
  PROVE  /\ InsertIndex \in 0 .. Limit - 1
         /\ ExtractIndex \in 0 .. Limit - 1
         /\ Limit \in Nat \ {0, 1}
<1>1. Limit \in Nat \ {0, 1}
  BY RingAssumption DEF Limit
<1>2. ExtractIndex \in 0 .. Limit - 1
  BY <1>1 DEF TypeOK, ExtractIndex, Wrap
<1>3. InsertIndex \in 0 .. Limit - 1
  <2>1. CASE lock \in Inserters
    BY <2>1 DEF TypeOK, InsertIndex, Threads
  <2>2. CASE lock \notin Inserters
    <3>1. nextInsert # Limit
      BY <2>2 DEF TypeOK, LockInv, At, Threads
    <3>2. QED
      BY <1>1, <2>2, <3>1 DEF TypeOK, InsertIndex
  <2>3. QED
    BY <2>1, <2>2
<1>4. QED
  BY <1>1, <1>2, <1>3

(* The words of the queue are the live slots, in order.                    *)
QueueOfSlots ==
  /\ Queue \in Seq(Values)
  /\ Len(Queue) = Count
  /\ \A k \in 1 .. Count : Queue[k] = storage[Slot(k)]

LEMMA SlotIsLive ==
  ASSUME TypeOK, LockInv
  PROVE  /\ Count \in 0 .. MaxEntries
         /\ \A k \in 1 .. Count : Slot(k) \in 0 .. Limit - 1 /\ Live(Slot(k))
<1>1. /\ InsertIndex \in 0 .. Limit - 1
      /\ ExtractIndex \in 0 .. Limit - 1
      /\ Limit \in Nat \ {0, 1}
  BY IndexRange
<1>2. MaxEntries = Limit - 1
  BY RingAssumption DEF Limit
<1>3. QED
  BY <1>1, <1>2 DEF Count, Slot, Live

LEMMA QueueIsSeq == RingInv => QueueOfSlots
<1> SUFFICES ASSUME RingInv PROVE QueueOfSlots
  OBVIOUS
<1>1. Count \in Nat
  BY SlotIsLive, RingAssumption DEF RingInv
<1>2. \A k \in 1 .. Count : storage[Slot(k)] \in Values
  BY SlotIsLive DEF RingInv, LiveInv
<1>3. Queue \in [1 .. Count -> Values]
  BY <1>2 DEF Queue
<1>4. Queue \in Seq(Values)
  BY <1>1, <1>3, SeqDef
<1>5. QED
  BY <1>1, <1>3, <1>4, LenProperties DEF Queue, QueueOfSlots

LEMMA QueueIsSeqNext == RingInv' => QueueOfSlots'
BY QueueIsSeq, PTL

-----------------------------------------------------------------------------
(* RingInv is inductive.                                                   *)
LEMMA InitInv == Init => RingInv
<1> SUFFICES ASSUME Init PROVE RingInv
  OBVIOUS
<1>1. Limit \in Nat \ {0, 1}
  BY RingAssumption DEF Limit
<1>2. TypeOK
  <2>1. report \in [thread : Threads \cup {None},
                    status : {"RingNoError", "RingTooManyEntries",
                              "RingNothingToGet"},
                    word : Values \cup {None}]
    BY DEF Init
  <2>2. /\ storage \in [0 .. Limit - 1 -> Values \cup {None}]
        /\ pc \in [Threads -> {"idle", "store", "wrap", "test", "signal",
                               "peek", "wait", "take", "advance"}]
        /\ arg \in [Threads -> Values \cup {None}]
        /\ period \in [Threads -> {"none", "finite", "infinite"}]
    BY DEF Init
  <2>3. old \in [Threads -> 0 .. Limit - 1]
    BY <1>1 DEF Init
  <2>4. /\ nextInsert = 0 /\ nextExtract = 0 /\ lock = None
        /\ valid \in BOOLEAN /\ loose = Values /\ promised = {}
    BY DEF Init
  <2>5. QED
    BY <1>1, <2>1, <2>2, <2>3, <2>4 DEF TypeOK
<1>3. LockInv /\ InsertInv /\ ExtractInv
  BY RingAssumption DEF Init, LockInv, InsertInv, ExtractInv, Threads,
                        InsertPoints, ExtractPoints
<1>4. LiveInv
  BY <1>1, RingAssumption DEF Init, LiveInv, Live, ExtractIndex, InsertIndex,
                              Wrap, Threads
<1>5. QED
  BY <1>2, <1>3, <1>4 DEF RingInv

(* The inserter's steps.                                                   *)
LEMMA InsertCallInv ==
  ASSUME RingInv, NEW i \in Inserters, NEW v \in Values, Insert(i, v)
  PROVE  RingInv'
<1> USE RingAssumption DEF RingInv, Threads
<1>1. TypeOK'
  BY DEF TypeOK, Insert, ringVars, Goto, At
<1>2. LockInv' /\ InsertInv' /\ ExtractInv'
  BY DEF TypeOK, LockInv, InsertInv, ExtractInv, InsertPoints, ExtractPoints,
         Insert, ringVars, Goto, At, Wrap
<1>3. LiveInv'
  BY DEF TypeOK, LiveInv, Live, ExtractIndex, InsertIndex, Wrap, Insert,
         ringVars
<1>4. QED
  BY <1>1, <1>2, <1>3

LEMMA InsertStoreInv ==
  ASSUME RingInv, NEW i \in Inserters, InsertStore(i)
  PROVE  RingInv'
<1> USE RingAssumption DEF RingInv, Threads
<1>1. /\ nextInsert \in 0 .. Limit - 1
      /\ nextInsert = InsertIndex
      /\ Limit \in Nat \ {0, 1}
  BY IndexRange DEF InsertIndex, InsertStore
<1>2. TypeOK'
  BY <1>1 DEF TypeOK, InsertInv, InsertStore, Goto, At
<1>3. LockInv' /\ InsertInv' /\ ExtractInv'
  BY <1>1 DEF TypeOK, LockInv, InsertInv, ExtractInv, InsertPoints,
              ExtractPoints, InsertStore, Goto, At
<1>4. LiveInv'
  <2>1. InsertIndex' = InsertIndex /\ ExtractIndex' = ExtractIndex
    BY <1>1 DEF TypeOK, InsertStore, InsertIndex, ExtractIndex, Wrap
  <2>2. \A n \in 0 .. Limit - 1 : Live(n)' => Live(n) /\ n # nextInsert
    BY <1>1, <2>1, IndexRange DEF Live
  <2>3. QED
    BY <1>1, <2>2 DEF TypeOK, LiveInv, InsertStore
<1>5. QED
  BY <1>2, <1>3, <1>4

LEMMA InsertWrapInv ==
  ASSUME RingInv, NEW i \in Inserters, InsertWrap(i)
  PROVE  RingInv'
<1> USE RingAssumption DEF RingInv, Threads
<1>1. Limit \in Nat \ {0, 1}
  BY IndexRange
<1>2. lock = i
  BY DEF LockInv, InsertWrap, At
<1>3. TypeOK'
  BY <1>1 DEF TypeOK, InsertWrap, Goto, At, Wrap
<1>4. LockInv' /\ InsertInv' /\ ExtractInv'
  BY <1>1, <1>2 DEF TypeOK, LockInv, InsertInv, ExtractInv, InsertPoints,
                    ExtractPoints, InsertWrap, Goto, At
<1>5. LiveInv'
  BY <1>2 DEF TypeOK, LiveInv, Live, ExtractIndex, InsertIndex, Wrap,
              InsertWrap
<1>6. QED
  BY <1>3, <1>4, <1>5

LEMMA InsertRefusedInv ==
  ASSUME RingInv, NEW i \in Inserters, InsertRefused(i)
  PROVE  RingInv'
<1> USE RingAssumption DEF RingInv, Threads
<1>1. Limit \in Nat \ {0, 1}
  BY IndexRange
<1>2. lock = i /\ arg[i] \in Values
  BY DEF LockInv, InsertInv, InsertRefused, At
<1>3. TypeOK'
  BY <1>1, <1>2 DEF TypeOK, LockInv, InsertRefused, Return, Report, Goto, At
<1>4. LockInv' /\ InsertInv' /\ ExtractInv'
  BY <1>1, <1>2 DEF TypeOK, LockInv, InsertInv, ExtractInv, InsertPoints,
                    ExtractPoints, InsertRefused, Return, Goto, At
<1>5. LiveInv'
  BY <1>2 DEF TypeOK, LiveInv, Live, ExtractIndex, InsertIndex, Wrap,
              InsertRefused
<1>6. QED
  BY <1>3, <1>4, <1>5

LEMMA InsertAcceptedInv ==
  ASSUME RingInv, NEW i \in Inserters, InsertAccepted(i)
  PROVE  RingInv'
<1> USE RingAssumption DEF RingInv, Threads
<1>1. Limit \in Nat \ {0, 1}
  BY IndexRange
<1>2. /\ lock = i
      /\ arg[i] \in Values
      /\ storage[old[i]] = arg[i]
      /\ old[i] \in 0 .. Limit - 1
      /\ nextInsert = Wrap(old[i] + 1)
  BY DEF TypeOK, LockInv, InsertInv, InsertAccepted, At
<1>3. TypeOK'
  BY <1>1, <1>2 DEF TypeOK, LockInv, InsertAccepted, Report, Goto, At, Wrap
<1>4. LockInv' /\ InsertInv' /\ ExtractInv'
  BY <1>1, <1>2 DEF TypeOK, LockInv, InsertInv, ExtractInv, InsertPoints,
                    ExtractPoints, InsertAccepted, Goto, At
<1>5. LiveInv'
  <2>1. InsertIndex = old[i] /\ InsertIndex' = Wrap(old[i] + 1)
    BY <1>2 DEF InsertIndex, InsertAccepted
  <2>2. ExtractIndex' = ExtractIndex /\ ExtractIndex = nextExtract
    BY <1>2 DEF TypeOK, LockInv, InsertAccepted, ExtractIndex, Wrap, At
  <2>3. \A n \in 0 .. Limit - 1 : Live(n)' => Live(n) \/ n = old[i]
    BY <1>1, <1>2, <2>1, <2>2, IndexRange DEF Live, Wrap, InsertAccepted
  <2>4. QED
    BY <1>2, <2>3 DEF LiveInv, InsertAccepted
<1>6. QED
  BY <1>3, <1>4, <1>5

LEMMA InsertSignalInv ==
  ASSUME RingInv, NEW i \in Inserters, InsertSignal(i)
  PROVE  RingInv'
<1> USE RingAssumption DEF RingInv, Threads
<1>1. Limit \in Nat \ {0, 1}
  BY IndexRange
<1>2. lock # i
  BY DEF LockInv, InsertSignal, At
<1>3. TypeOK'
  BY <1>1 DEF TypeOK, InsertSignal, Return, Goto, At
<1>4. LockInv' /\ InsertInv' /\ ExtractInv'
  BY <1>2 DEF TypeOK, LockInv, InsertInv, ExtractInv, InsertPoints,
              ExtractPoints, InsertSignal, Return, Goto, At
<1>5. LiveInv'
  BY <1>2 DEF TypeOK, LiveInv, Live, ExtractIndex, InsertIndex, Wrap,
              InsertSignal, Return
<1>6. QED
  BY <1>3, <1>4, <1>5
(* The extractor's steps.  Those that leave the ring alone come first.     *)
LEMMA ExtractQuietInv ==
  ASSUME RingInv, NEW e \in Extractors, NEW p,
         \/ p \in Periods /\ Extract(e, p)
         \/ ExtractPeek(e) \/ ExtractWake(e) \/ ExtractTimeOut(e)
         \/ ExtractNothing(e) \/ NonEmpty(e)
  PROVE  RingInv'
<1> USE RingAssumption DEF RingInv, Threads
<1>1. /\ Limit \in Nat \ {0, 1}
      /\ UNCHANGED <<storage, nextInsert, nextExtract, lock, loose>>
      /\ old' = old \/ old' = [old EXCEPT ![e] = 0]
      /\ arg' = arg \/ arg' = [arg EXCEPT ![e] = None]
      /\ lock # e
  BY IndexRange DEF LockInv, Extract, ExtractPeek, ExtractWake, ExtractTimeOut,
        ExtractNothing, NonEmpty, ringVars, Goto, Return, At
<1>2. /\ pc' = [pc EXCEPT ![e] = pc'[e]]
      /\ pc'[e] \in {"idle", "peek", "wait", "take"}
  BY DEF TypeOK, Extract, ExtractPeek, ExtractWake, ExtractTimeOut,
        ExtractNothing, NonEmpty, Goto, Return, At
<1>3. TypeOK'
  <2>1. UNCHANGED report \/ ExtractNothing(e)
    BY DEF Extract, ExtractPeek, ExtractWake, ExtractTimeOut, NonEmpty
  <2>2. report' \in [thread : Threads \cup {None},
                     status : {"RingNoError", "RingTooManyEntries",
                               "RingNothingToGet"},
                     word : Values \cup {None}]
    BY <2>1 DEF TypeOK, ExtractNothing, Report
  <2>3. period' \in [Threads -> {"none", "finite", "infinite"}]
    <3>1. \/ UNCHANGED period
          \/ \E q \in {"none", "finite", "infinite"} :
               period' = [period EXCEPT ![e] = q]
      BY DEF Extract, ExtractPeek, ExtractWake, ExtractTimeOut,
          ExtractNothing, NonEmpty, Return
    <3>2. QED
      BY <3>1 DEF TypeOK
  <2>4. valid' \in BOOLEAN
    BY DEF TypeOK, Extract, ExtractPeek, ExtractWake, ExtractTimeOut,
        ExtractNothing, NonEmpty, ringVars
  <2>5. promised' \subseteq Extractors
    BY DEF TypeOK, Extract, ExtractPeek, ExtractWake, ExtractTimeOut,
        ExtractNothing, NonEmpty, Return
  <2>6. nextInsert = Limit => \E i \in Inserters : At(i, "wrap")'
    BY <1>2 DEF TypeOK, At
  <2>7. nextExtract = Limit => \E f \in Extractors : At(f, "advance")'
    BY <1>1, <1>2 DEF TypeOK, At, LockInv
  <2>8. pc' \in [Threads -> {"idle", "store", "wrap", "test", "signal",
                             "peek", "wait", "take", "advance"}]
    BY <1>2 DEF TypeOK
  <2>9. arg' \in [Threads -> Values \cup {None}]
    BY <1>1 DEF TypeOK
  <2>10. old' \in [Threads -> 0 .. Limit - 1]
    <3>1. 0 \in 0 .. Limit - 1
      BY <1>1
    <3>2. QED
      BY <1>1, <3>1 DEF TypeOK
  <2>11. QED
    BY <1>1, <2>2, <2>3, <2>4, <2>5, <2>6, <2>7, <2>8, <2>9, <2>10 DEF TypeOK
<1>4. LockInv' /\ InsertInv' /\ ExtractInv'
  <2>1. /\ pc'[e] \notin {"wrap", "test", "advance"}
        /\ \A t \in Threads \ {e} :
             pc'[t] = pc[t] /\ arg'[t] = arg[t] /\ old'[t] = old[t]
    BY <1>1, <1>2 DEF TypeOK
  <2>2. LockInv'
    BY <1>1, <1>2, <2>1 DEF LockInv, ExtractPoints
  <2>3. InsertInv'
    BY <1>1, <2>1 DEF InsertInv
  <2>4. ExtractInv'
    BY <1>1, <2>1 DEF ExtractInv
  <2>5. QED
    BY <2>2, <2>3, <2>4
<1>5. LiveInv'
  BY <1>1 DEF TypeOK, LiveInv, Live, ExtractIndex, InsertIndex, Wrap
<1>6. QED
  BY <1>3, <1>4, <1>5

LEMMA ExtractTakeInv ==
  ASSUME RingInv, NEW e \in Extractors, ExtractTake(e)
  PROVE  RingInv'
<1> USE RingAssumption DEF RingInv, Threads
<1>1. /\ Limit \in Nat \ {0, 1}
      /\ lock = None
      /\ InsertIndex = nextInsert /\ nextInsert \in 0 .. Limit - 1
      /\ ExtractIndex = nextExtract /\ nextExtract \in 0 .. Limit - 1
  BY IndexRange DEF TypeOK, LockInv, ExtractTake, InsertIndex, ExtractIndex,
                    Wrap, At
<1>2. storage[nextExtract] \in Values
  BY <1>1 DEF LiveInv, Live, ExtractTake
<1>3. TypeOK'
  BY <1>1, <1>2 DEF TypeOK, ExtractTake, Report, Goto, At
<1>4. LockInv' /\ InsertInv' /\ ExtractInv'
  BY <1>1, <1>2 DEF TypeOK, LockInv, InsertInv, ExtractInv, InsertPoints,
                    ExtractPoints, ExtractTake, Goto, At
<1>5. LiveInv'
  <2>1. InsertIndex' = InsertIndex /\ ExtractIndex' = Wrap(nextExtract + 1)
    BY <1>1 DEF InsertIndex, ExtractIndex, ExtractTake, Wrap
  <2>2. \A n \in 0 .. Limit - 1 : Live(n)' => Live(n)
    BY <1>1, <2>1 DEF Live, Wrap, ExtractTake
  <2>3. QED
    BY <2>2 DEF LiveInv, ExtractTake
<1>6. QED
  BY <1>3, <1>4, <1>5

LEMMA ExtractAdvanceInv ==
  ASSUME RingInv, NEW e \in Extractors, ExtractAdvance(e)
  PROVE  RingInv'
<1> USE RingAssumption DEF RingInv, Threads
<1>1. /\ Limit \in Nat \ {0, 1}
      /\ lock = e
      /\ nextInsert \in 0 .. Limit - 1
      /\ nextExtract \in 1 .. Limit
      /\ arg[e] \in Values
  BY IndexRange DEF TypeOK, LockInv, ExtractInv, ExtractAdvance, InsertIndex,
                    At
<1>2. TypeOK'
  BY <1>1 DEF TypeOK, LockInv, ExtractAdvance, Return, Goto, At, Wrap
<1>3. LockInv' /\ InsertInv' /\ ExtractInv'
  BY <1>1 DEF TypeOK, LockInv, InsertInv, ExtractInv, InsertPoints,
              ExtractPoints, ExtractAdvance, Return, Goto, At
<1>4. LiveInv'
  BY <1>1 DEF TypeOK, LiveInv, Live, ExtractIndex, InsertIndex, Wrap,
              ExtractAdvance
<1>5. QED
  BY <1>2, <1>3, <1>4

LEMMA FlushInv ==
  ASSUME RingInv, NEW e \in Extractors, Flush(e)
  PROVE  RingInv'
<1> USE RingAssumption DEF RingInv, Threads
<1>1. /\ Limit \in Nat \ {0, 1}
      /\ \A k \in 1 .. Count : Queue[k] \in Values
  BY IndexRange, QueueIsSeq, SlotIsLive DEF LiveInv, QueueOfSlots
<1>2. TypeOK'
  <2>1. loose' \subseteq Values
    BY <1>1 DEF TypeOK, Flush
  <2>2. QED
    BY <1>1, <2>1 DEF TypeOK, Flush, Report, At
<1>3. LockInv' /\ InsertInv' /\ ExtractInv'
  BY DEF TypeOK, LockInv, InsertInv, ExtractInv, InsertPoints, ExtractPoints,
         Flush
<1>4. LiveInv'
  BY <1>1 DEF LiveInv, Live, ExtractIndex, InsertIndex, Wrap, Flush
<1>5. QED
  BY <1>2, <1>3, <1>4

LEMMA StutterInv == RingInv /\ UNCHANGED vars => RingInv'
BY DEF RingInv, TypeOK, LockInv, InsertInv, ExtractInv, LiveInv, Live, At,
       ExtractIndex, InsertIndex, vars, ringVars

LEMMA NextInv == RingInv /\ [Next]_vars => RingInv'
<1> SUFFICES ASSUME RingInv, [Next]_vars PROVE RingInv'
  OBVIOUS
<1>1. ASSUME NEW i \in Inserters, NEW v \in Values, Insert(i, v)
      PROVE  RingInv'
  BY <1>1, InsertCallInv
<1>2. ASSUME NEW i \in Inserters, InsertStep(i) PROVE RingInv'
  BY <1>2, InsertStoreInv, InsertWrapInv, InsertRefusedInv, InsertAcceptedInv,
     InsertSignalInv DEF InsertStep
<1>3. ASSUME NEW e \in Extractors, NEW p \in Periods, Extract(e, p)
      PROVE  RingInv'
  BY <1>3, ExtractQuietInv
<1>4. ASSUME NEW e \in Extractors, ExtractTake(e) \/ ExtractAdvance(e)
      PROVE  RingInv'
  BY <1>4, ExtractTakeInv, ExtractAdvanceInv
<1>5. ASSUME NEW e \in Extractors, Flush(e) PROVE RingInv'
  BY <1>5, FlushInv
<1>6. QED
  BY <1>1, <1>2, <1>3, <1>4, <1>5, ExtractQuietInv, StutterInv
     DEF Next, ExtractStep
(* The type invariant holds of every ring: in particular an index is out   *)
(* of range only while a thread that holds the lock is about to wrap it.   *)
THEOREM TypeCorrect == Spec => []TypeOK
<1>1. RingInv => TypeOK
  BY DEF RingInv
<1>2. QED
  BY InitInv, NextInv, <1>1, PTL DEF Spec

-----------------------------------------------------------------------------
(* Refinement: how the steps of the ring act on the queue.                 *)
LEMMA QueueUnchanged ==
  ASSUME RingInv, RingInv',
         InsertIndex' = InsertIndex, ExtractIndex' = ExtractIndex,
         \A n \in 0 .. Limit - 1 : Live(n) => storage'[n] = storage[n]
  PROVE  Queue' = Queue
<1>1. Count' = Count /\ \A k \in 1 .. Count : Slot(k)' = Slot(k)
  BY DEF Count, Slot
<1>2. \A k \in 1 .. Count : storage'[Slot(k)] = storage[Slot(k)]
  BY SlotIsLive DEF RingInv
<1>3. QED
  BY <1>1, <1>2 DEF Queue

LEMMA QueueAppended ==
  ASSUME RingInv, RingInv', NEW i \in Inserters, InsertAccepted(i)
  PROVE  Fifo!Put(i, arg[i])
<1> USE RingAssumption DEF RingInv, Threads
<1>1. /\ lock = i
      /\ arg[i] \in Values
      /\ storage[old[i]] = arg[i]
      /\ nextInsert = Wrap(old[i] + 1)
      /\ nextInsert # nextExtract
      /\ ExtractIndex = nextExtract
      /\ InsertIndex = old[i]
  BY DEF TypeOK, LockInv, InsertInv, InsertAccepted, ExtractIndex,
         InsertIndex, Wrap, At
<1>2. /\ InsertIndex' = Wrap(InsertIndex + 1)
      /\ ExtractIndex' = ExtractIndex
      /\ storage' = storage
  BY <1>1 DEF InsertAccepted, InsertIndex, ExtractIndex
<1>3. /\ Limit \in Nat \ {0, 1} /\ MaxEntries = Limit - 1
      /\ InsertIndex \in 0 .. Limit - 1
      /\ ExtractIndex \in 0 .. Limit - 1
  BY IndexRange DEF Limit
<1>4. /\ Count \in Nat
      /\ Count' = Count + 1
      /\ Count < MaxEntries
  BY <1>1, <1>2, <1>3 DEF Count, Wrap
<1>5. /\ \A k \in 1 .. Count : Slot(k)' = Slot(k)
      /\ \A k : k = Count + 1 => Slot(k)' = old[i]
  BY <1>1, <1>2, <1>3, <1>4 DEF Slot, Count, Wrap
<1>6. Queue' = Append(Queue, arg[i])
  <2>1. /\ Queue \in Seq(Values) /\ Len(Queue) = Count
        /\ \A k \in 1 .. Count : Queue[k] = storage[Slot(k)]
    BY QueueIsSeq DEF QueueOfSlots
  <2>2. /\ Queue' \in Seq(Values) /\ Len(Queue') = Count + 1
        /\ \A k \in 1 .. Count + 1 : Queue'[k] = storage'[Slot(k)']
    BY <1>4, QueueIsSeqNext DEF QueueOfSlots
  <2>3. /\ Append(Queue, arg[i]) \in Seq(Values)
        /\ Len(Append(Queue, arg[i])) = Count + 1
        /\ \A k \in 1 .. Count + 1 :
             Append(Queue, arg[i])[k] = IF k = Count + 1 THEN arg[i]
                                                         ELSE Queue[k]
    BY <1>1, <1>4, <2>1, AppendProperties
  <2>4. \A k \in 1 .. Count + 1 : Queue'[k] = Append(Queue, arg[i])[k]
    BY <1>1, <1>2, <1>4, <1>5, <2>1, <2>2, <2>3
  <2>5. QED
    BY <2>2, <2>3, <2>4, SeqEqual
<1>7. QED
  BY <1>4, <1>6, QueueIsSeq DEF QueueOfSlots, Fifo!Put, Fifo!Report,
                                Fifo!NoError, InsertAccepted, Report

LEMMA QueueFull ==
  ASSUME RingInv, RingInv', NEW i \in Inserters, InsertRefused(i)
  PROVE  Fifo!Refuse(i)
<1> USE RingAssumption DEF RingInv, Threads
<1>1. /\ lock = i
      /\ nextInsert = Wrap(old[i] + 1)
      /\ nextInsert = nextExtract
      /\ ExtractIndex = nextExtract /\ ExtractIndex' = ExtractIndex
      /\ InsertIndex = old[i] /\ InsertIndex' = InsertIndex
      /\ storage' = storage
  BY DEF TypeOK, LockInv, InsertInv, InsertRefused, ExtractIndex,
         InsertIndex, Wrap, At
<1>2. /\ Limit \in Nat \ {0, 1} /\ MaxEntries = Limit - 1
      /\ InsertIndex \in 0 .. Limit - 1
  BY IndexRange DEF Limit
<1>3. Count = MaxEntries
  BY <1>1, <1>2 DEF Count, Wrap
<1>4. Queue' = Queue
  BY <1>1, QueueUnchanged
<1>5. QED
  BY <1>3, <1>4, QueueIsSeq DEF QueueOfSlots, Fifo!Refuse, Fifo!Report,
                                Fifo!TooManyEntries, InsertRefused, Report

LEMMA QueueTaken ==
  ASSUME RingInv, RingInv', NEW e \in Extractors, ExtractTake(e)
  PROVE  Fifo!Get(e)
<1> USE RingAssumption DEF RingInv, Threads
<1>1. /\ Limit \in Nat \ {0, 1}
      /\ InsertIndex = nextInsert /\ nextInsert \in 0 .. Limit - 1
      /\ ExtractIndex = nextExtract /\ nextExtract \in 0 .. Limit - 1
      /\ nextExtract # nextInsert
  BY IndexRange DEF TypeOK, LockInv, ExtractTake, InsertIndex, ExtractIndex,
                    Wrap, At
<1>2. /\ InsertIndex' = InsertIndex
      /\ ExtractIndex' = Wrap(ExtractIndex + 1)
      /\ storage' = storage
  BY <1>1 DEF InsertIndex, ExtractIndex, ExtractTake, Wrap
<1>3. /\ Count \in Nat \ {0}
      /\ Count' = Count - 1
      /\ Slot(1) = nextExtract
      /\ \A k \in 1 .. Count - 1 : Slot(k)' = Slot(k + 1)
  BY <1>1, <1>2 DEF Count, Slot, Wrap
<1>4. /\ Queue \in Seq(Values) /\ Len(Queue) = Count
      /\ \A k \in 1 .. Count : Queue[k] = storage[Slot(k)]
  BY QueueIsSeq DEF QueueOfSlots
<1>5. Queue # << >> /\ Head(Queue) = storage[nextExtract]
  BY <1>3, <1>4, EmptySeq
<1>6. Queue' = Tail(Queue)
  <2>1. /\ Queue' \in Seq(Values) /\ Len(Queue') = Count - 1
        /\ \A k \in 1 .. Count - 1 : Queue'[k] = storage'[Slot(k)']
    BY <1>3, QueueIsSeqNext DEF QueueOfSlots
  <2>2. /\ Tail(Queue) \in Seq(Values) /\ Len(Tail(Queue)) = Count - 1
        /\ \A k \in 1 .. Count - 1 : Tail(Queue)[k] = Queue[k + 1]
    BY <1>4, <1>5, HeadTailProperties
  <2>3. \A k \in 1 .. Count - 1 : Queue'[k] = Tail(Queue)[k]
    BY <1>2, <1>3, <1>4, <2>1, <2>2
  <2>4. QED
    BY <2>1, <2>2, <2>3, SeqEqual
<1>7. QED
  BY <1>5, <1>6 DEF Fifo!Get, Fifo!Report, Fifo!NoError, ExtractTake, Report

LEMMA QueueEmpty ==
  ASSUME RingInv, RingInv', NEW e \in Extractors, ExtractNothing(e)
  PROVE  Fifo!Nothing(e)
<1> USE RingAssumption DEF RingInv, Threads
<1>1. /\ InsertIndex = ExtractIndex
      /\ InsertIndex' = InsertIndex /\ ExtractIndex' = ExtractIndex
      /\ InsertIndex \in 0 .. Limit - 1
      /\ storage' = storage
  BY IndexRange DEF TypeOK, LockInv, ExtractNothing, InsertIndex,
        ExtractIndex, Wrap, At, ringVars
<1>2. Count = 0
  BY <1>1 DEF Count
<1>3. Queue' = Queue
  BY <1>1, QueueUnchanged
<1>4. QED
  BY <1>2, <1>3, QueueIsSeq, EmptySeq
     DEF QueueOfSlots, Fifo!Nothing, Fifo!Report, Fifo!NothingToGet, ExtractNothing, Report

LEMMA QueueCleared ==
  ASSUME RingInv, RingInv', NEW e \in Extractors, Flush(e)
  PROVE  Fifo!Clear(e)
<1> USE RingAssumption DEF RingInv, Threads
<1>1. InsertIndex' = 0 /\ ExtractIndex' = 0
  BY DEF Flush, InsertIndex, ExtractIndex, Wrap, Limit
<1>2. Count' = 0
  BY <1>1 DEF Count
<1>3. Queue' = << >>
  BY <1>2, QueueIsSeqNext, EmptySeq DEF QueueOfSlots
<1>4. QED
  BY <1>3 DEF Fifo!Clear, Fifo!Report, Fifo!NoError, Flush, Report
(* Every other step leaves the queue, and the last report, as they were.   *)
LEMMA QueueKept ==
  ASSUME RingInv, RingInv',
         \/ \E i \in Inserters : \/ \E v \in Values : Insert(i, v)
                                 \/ InsertStore(i) \/ InsertWrap(i)
                                 \/ InsertSignal(i)
         \/ \E e \in Extractors : \/ \E p \in Periods : Extract(e, p)
                                  \/ ExtractPeek(e) \/ ExtractWake(e)
                                  \/ ExtractTimeOut(e) \/ ExtractAdvance(e)
                                  \/ NonEmpty(e)
         \/ UNCHANGED vars
  PROVE  Queue' = Queue /\ report' = report
<1> USE RingAssumption DEF RingInv, Threads
<1>1. report' = report
  BY DEF Insert, InsertStore, InsertWrap, InsertSignal, Extract, ExtractPeek,
         ExtractWake, ExtractTimeOut, ExtractAdvance, NonEmpty, vars
<1>2. /\ Limit \in Nat \ {0, 1}
      /\ InsertIndex \in 0 .. Limit - 1 /\ ExtractIndex \in 0 .. Limit - 1
  BY IndexRange
<1>3. CASE \E i \in Inserters : InsertStore(i)
  <2>1. PICK i \in Inserters : InsertStore(i)
    BY <1>3
  <2>2. /\ InsertIndex' = InsertIndex /\ ExtractIndex' = ExtractIndex
        /\ InsertIndex = nextInsert
        /\ storage' = [storage EXCEPT ![nextInsert] = arg[i]]
    BY <2>1 DEF TypeOK, InsertStore, InsertIndex, ExtractIndex
  <2>3. \A n \in 0 .. Limit - 1 : Live(n) => n # nextInsert
    BY <1>2, <2>2 DEF Live
  <2>4. \A n \in 0 .. Limit - 1 : Live(n) => storage'[n] = storage[n]
    BY <2>2, <2>3 DEF TypeOK
  <2>5. QED
    BY <1>1, <2>2, <2>4, QueueUnchanged
<1>4. CASE \E e \in Extractors : ExtractAdvance(e)
  <2>1. InsertIndex' = InsertIndex /\ ExtractIndex' = ExtractIndex
    BY <1>2, <1>4 DEF TypeOK, LockInv, ExtractAdvance, InsertIndex,
       ExtractIndex, Wrap, At
  <2>2. storage' = storage
    BY <1>4 DEF ExtractAdvance
  <2>3. QED
    BY <1>1, <2>1, <2>2, QueueUnchanged
<1>5. CASE \E i \in Inserters : InsertWrap(i) \/ InsertSignal(i)
  <2>1. InsertIndex' = InsertIndex /\ ExtractIndex' = ExtractIndex
    BY <1>5 DEF TypeOK, LockInv, InsertWrap, InsertSignal, Return,
       InsertIndex, ExtractIndex, At
  <2>2. storage' = storage
    BY <1>5 DEF InsertWrap, InsertSignal
  <2>3. QED
    BY <1>1, <2>1, <2>2, QueueUnchanged
<1>6. CASE \/ \E i \in Inserters, v \in Values : Insert(i, v)
           \/ \E e \in Extractors : \/ \E p \in Periods : Extract(e, p)
                                    \/ ExtractPeek(e) \/ ExtractWake(e)
                                    \/ ExtractTimeOut(e) \/ NonEmpty(e)
           \/ UNCHANGED vars
  <2>1. UNCHANGED <<storage, nextInsert, nextExtract, lock, old>>
    BY <1>6 DEF Insert, Extract, ExtractPeek, ExtractWake, ExtractTimeOut,
       NonEmpty, vars, ringVars
  <2>2. InsertIndex' = InsertIndex /\ ExtractIndex' = ExtractIndex
    BY <2>1 DEF InsertIndex, ExtractIndex
  <2>3. QED
    BY <1>1, <2>1, <2>2, QueueUnchanged
<1>7. QED
  BY <1>3, <1>4, <1>5, <1>6

LEMMA NextRefines == RingInv /\ RingInv' /\ [Next]_vars
                       => [Fifo!Next]_(Fifo!fifoVars)
<1> SUFFICES ASSUME RingInv, RingInv', [Next]_vars
             PROVE  [Fifo!Next]_(Fifo!fifoVars)
  OBVIOUS
<1>1. ASSUME NEW i \in Inserters, InsertAccepted(i)
      PROVE  Fifo!Next
  <2>1. arg[i] \in Values
    BY <1>1 DEF RingInv, InsertInv, InsertAccepted, At
  <2>2. QED
    BY <1>1, <2>1, QueueAppended DEF Fifo!Next, Threads
<1>2. ASSUME NEW i \in Inserters, InsertRefused(i)
      PROVE  Fifo!Next
  BY <1>2, QueueFull DEF Fifo!Next, Threads
<1>3. ASSUME NEW e \in Extractors,
             ExtractTake(e) \/ ExtractNothing(e) \/ Flush(e)
      PROVE  Fifo!Next
  BY <1>3, QueueTaken, QueueEmpty, QueueCleared DEF Fifo!Next, Threads
<1>4. QED
  BY <1>1, <1>2, <1>3, QueueKept
     DEF Next, InsertStep, ExtractStep, Fifo!fifoVars

(* Lines 53-121: every ring, for any number of threads that share it, is a *)
(* bounded FIFO.                                                           *)
THEOREM RingImplementsFifo == Spec => RingIsFifo
<1>1. Init => Fifo!Init
  <2> SUFFICES ASSUME Init PROVE Fifo!Init
    OBVIOUS
  <2>1. Count = 0
    BY RingAssumption DEF Init, Count, InsertIndex, ExtractIndex, Wrap, Limit,
                          Threads
  <2>2. Queue = << >>
    BY <2>1, QueueIsSeq, InitInv, EmptySeq DEF QueueOfSlots
  <2>3. QED
    BY <2>2 DEF Init, Fifo!Init, Fifo!NoError
<1>2. QED
  BY <1>1, InitInv, NextInv, NextRefines, PTL DEF Spec, RingIsFifo, Fifo!Spec

-----------------------------------------------------------------------------
(* A word is in one place at a time: with a client, with the thread that   *)
(* inserts it or has taken it, or in one live slot.                        *)
Has(t) == pc[t] \in {"store", "wrap", "test", "advance"}

OnceInv ==
  /\ \A t \in Threads : Has(t) => arg[t] \in Values /\ arg[t] \notin loose
  /\ \A t, u \in Threads : Has(t) /\ Has(u) /\ t # u => arg[t] # arg[u]
  /\ \A n \in 0 .. Limit - 1 : Live(n) => storage[n] \notin loose
  /\ \A n \in 0 .. Limit - 1, t \in Threads :
       Live(n) /\ Has(t) => storage[n] # arg[t]
  /\ \A m, n \in 0 .. Limit - 1 :
       Live(m) /\ Live(n) /\ m # n => storage[m] # storage[n]

LEMMA OnceInit == Init => OnceInv
<1> SUFFICES ASSUME Init PROVE OnceInv
  OBVIOUS
<1>1. Limit \in Nat \ {0, 1}
  BY RingAssumption DEF Limit
<1>2. \A t \in Threads : ~Has(t)
  BY DEF Init, Has
<1>3. \A n \in 0 .. Limit - 1 : ~Live(n)
  BY <1>1, RingAssumption DEF Init, Live, ExtractIndex, InsertIndex, Wrap,
                              Threads
<1>4. QED
  BY <1>2, <1>3 DEF OnceInv

(* A step that moves no word from one place to another keeps OnceInv.      *)
LEMMA OnceKept ==
  ASSUME OnceInv,
         \A t \in Threads : Has(t)' => Has(t) /\ arg'[t] = arg[t],
         \A n \in 0 .. Limit - 1 :
           Live(n)' => Live(n) /\ storage'[n] = storage[n],
         loose' \subseteq loose
  PROVE  OnceInv'
BY DEF OnceInv

(* The live slots after a step whose ends of the ring are unchanged.       *)
LEMMA LiveKept ==
  ASSUME RingInv, RingInv',
         \/ \E i \in Inserters : \/ \E v \in Values : Insert(i, v)
                                 \/ InsertStore(i) \/ InsertWrap(i)
                                 \/ InsertRefused(i) \/ InsertSignal(i)
         \/ \E e \in Extractors : \/ \E p \in Periods : Extract(e, p)
                                  \/ ExtractPeek(e) \/ ExtractWake(e)
                                  \/ ExtractTimeOut(e) \/ ExtractAdvance(e)
                                  \/ ExtractNothing(e) \/ NonEmpty(e)
         \/ UNCHANGED vars
  PROVE  /\ InsertIndex' = InsertIndex /\ ExtractIndex' = ExtractIndex
         /\ \A n \in 0 .. Limit - 1 :
              Live(n)' => Live(n) /\ storage'[n] = storage[n]
<1> USE RingAssumption DEF RingInv, Threads
<1>1. /\ Limit \in Nat \ {0, 1}
      /\ InsertIndex \in 0 .. Limit - 1 /\ ExtractIndex \in 0 .. Limit - 1
  BY IndexRange
<1>2. CASE \E i \in Inserters : InsertStore(i)
  <2>1. PICK i \in Inserters : InsertStore(i)
    BY <1>2
  <2>2. /\ InsertIndex' = InsertIndex /\ ExtractIndex' = ExtractIndex
        /\ InsertIndex = nextInsert
        /\ storage' = [storage EXCEPT ![nextInsert] = arg[i]]
    BY <2>1 DEF TypeOK, InsertStore, InsertIndex, ExtractIndex
  <2>3. \A n \in 0 .. Limit - 1 : Live(n)' => Live(n) /\ n # nextInsert
    BY <1>1, <2>2 DEF Live
  <2>4. QED
    BY <2>2, <2>3 DEF TypeOK
<1>3. CASE \E e \in Extractors : ExtractAdvance(e)
  <2>1. InsertIndex' = InsertIndex /\ ExtractIndex' = ExtractIndex
    BY <1>1, <1>3 DEF TypeOK, LockInv, ExtractAdvance, InsertIndex,
       ExtractIndex, Wrap, At
  <2>2. QED
    BY <1>3, <2>1 DEF Live, ExtractAdvance
<1>4. CASE \E i \in Inserters :
             InsertWrap(i) \/ InsertRefused(i) \/ InsertSignal(i)
  <2>1. InsertIndex' = InsertIndex /\ ExtractIndex' = ExtractIndex
    BY <1>4 DEF TypeOK, LockInv, InsertWrap, InsertRefused, InsertSignal,
       Return, InsertIndex, ExtractIndex, At
  <2>2. QED
    BY <1>4, <2>1 DEF Live, InsertWrap, InsertRefused, InsertSignal
<1>5. CASE \/ \E i \in Inserters, v \in Values : Insert(i, v)
           \/ \E e \in Extractors : \/ \E p \in Periods : Extract(e, p)
                                    \/ ExtractPeek(e) \/ ExtractWake(e)
                                    \/ ExtractTimeOut(e) \/ NonEmpty(e)
           \/ UNCHANGED vars
  <2>1. UNCHANGED <<storage, nextInsert, nextExtract, lock, old>>
    BY <1>5 DEF Insert, Extract, ExtractPeek, ExtractWake, ExtractTimeOut,
       NonEmpty, vars, ringVars
  <2>2. InsertIndex' = InsertIndex /\ ExtractIndex' = ExtractIndex
    BY <2>1 DEF InsertIndex, ExtractIndex
  <2>3. QED
    BY <2>1, <2>2 DEF Live
<1>6. CASE \E e \in Extractors : ExtractNothing(e)
  <2>1. InsertIndex' = InsertIndex /\ ExtractIndex' = ExtractIndex
    BY <1>6 DEF ExtractNothing, Return, InsertIndex, ExtractIndex, ringVars
  <2>2. QED
    BY <1>6, <2>1 DEF Live, ExtractNothing, ringVars
<1>7. QED
  BY <1>2, <1>3, <1>4, <1>5, <1>6

(* The steps that move a word.                                             *)
LEMMA InsertOnce ==
  ASSUME RingInv, RingInv', OnceInv,
         NEW i \in Inserters, NEW v \in Values, Insert(i, v)
  PROVE  OnceInv'
<1> USE DEF RingInv, Threads
<1>1. /\ \A n \in 0 .. Limit - 1 :
           Live(n)' => Live(n) /\ storage'[n] = storage[n]
      /\ v \in loose /\ loose' = loose \ {v}
      /\ arg' = [arg EXCEPT ![i] = v] /\ pc' = [pc EXCEPT ![i] = "store"]
  BY LiveKept DEF Insert, Goto
<1>2. /\ arg'[i] = v
      /\ \A t \in Threads \ {i} : arg'[t] = arg[t] /\ pc'[t] = pc[t]
  BY <1>1 DEF TypeOK
<1>3. \A t \in Threads : Has(t)' => t = i \/ Has(t)
  BY <1>2 DEF Has
<1>4. QED
  BY <1>1, <1>2, <1>3 DEF OnceInv

LEMMA InsertRefusedOnce ==
  ASSUME RingInv, RingInv', OnceInv, NEW i \in Inserters, InsertRefused(i)
  PROVE  OnceInv'
<1> USE DEF RingInv, Threads
<1>1. /\ \A n \in 0 .. Limit - 1 :
           Live(n)' => Live(n) /\ storage'[n] = storage[n]
      /\ Has(i) /\ loose' = loose \cup {arg[i]}
      /\ pc' = [pc EXCEPT ![i] = "idle"] /\ arg' = [arg EXCEPT ![i] = None]
  BY LiveKept DEF InsertRefused, Return, Goto, At, Has
<1>2. \A t \in Threads \ {i} : arg'[t] = arg[t] /\ pc'[t] = pc[t]
  BY <1>1 DEF TypeOK
<1>3. \A t \in Threads : Has(t)' => t # i /\ Has(t)
  BY <1>1, <1>2 DEF Has, TypeOK
<1>4. QED
  BY <1>1, <1>2, <1>3 DEF OnceInv

LEMMA InsertAcceptedOnce ==
  ASSUME RingInv, RingInv', OnceInv, NEW i \in Inserters, InsertAccepted(i)
  PROVE  OnceInv'
<1> USE RingAssumption DEF RingInv, Threads
<1>1. /\ Limit \in Nat \ {0, 1}
      /\ lock = i /\ Has(i)
      /\ storage[old[i]] = arg[i] /\ old[i] \in 0 .. Limit - 1
      /\ nextInsert = Wrap(old[i] + 1)
      /\ storage' = storage /\ loose' = loose /\ arg' = arg
      /\ pc' = [pc EXCEPT ![i] = "signal"]
  BY IndexRange DEF TypeOK, LockInv, InsertInv, InsertAccepted, Goto, At, Has
<1>2. \A t \in Threads : Has(t)' => t # i /\ Has(t)
  BY <1>1 DEF Has, TypeOK
<1>3. \A n \in 0 .. Limit - 1 : Live(n)' => Live(n) \/ n = old[i]
  <2>1. InsertIndex = old[i] /\ InsertIndex' = Wrap(old[i] + 1)
    BY <1>1 DEF InsertIndex, InsertAccepted
  <2>2. ExtractIndex' = ExtractIndex /\ ExtractIndex = nextExtract
    BY <1>1 DEF TypeOK, LockInv, InsertAccepted, ExtractIndex, Wrap, At
  <2>3. QED
    BY <1>1, <2>1, <2>2, IndexRange DEF Live, Wrap, InsertAccepted
<1>4. QED
  BY <1>1, <1>2, <1>3 DEF OnceInv

LEMMA ExtractTakeOnce ==
  ASSUME RingInv, RingInv', OnceInv, NEW e \in Extractors, ExtractTake(e)
  PROVE  OnceInv'
<1> USE RingAssumption DEF RingInv, Threads
<1>1. /\ Limit \in Nat \ {0, 1}
      /\ InsertIndex = nextInsert /\ nextInsert \in 0 .. Limit - 1
      /\ ExtractIndex = nextExtract /\ nextExtract \in 0 .. Limit - 1
      /\ nextExtract # nextInsert
  BY IndexRange DEF TypeOK, LockInv, ExtractTake, InsertIndex, ExtractIndex,
                    Wrap, At
<1>2. Live(nextExtract) /\ storage[nextExtract] \in Values
  BY <1>1 DEF LiveInv, Live
<1>3. \A n \in 0 .. Limit - 1 : Live(n)' => Live(n) /\ n # nextExtract
  <2>1. InsertIndex' = InsertIndex /\ ExtractIndex' = Wrap(nextExtract + 1)
    BY <1>1 DEF InsertIndex, ExtractIndex, ExtractTake, Wrap
  <2>2. QED
    BY <1>1, <2>1 DEF Live, Wrap, ExtractTake
<1>4. /\ arg'[e] = storage[nextExtract]
      /\ \A t \in Threads \ {e} : arg'[t] = arg[t] /\ pc'[t] = pc[t]
      /\ storage' = storage /\ loose' = loose
  BY DEF TypeOK, ExtractTake, Goto
<1>5. \A t \in Threads : Has(t)' => t = e \/ Has(t)
  BY <1>4 DEF Has
<1>6. QED
  BY <1>1, <1>2, <1>3, <1>4, <1>5 DEF OnceInv

LEMMA ExtractAdvanceOnce ==
  ASSUME RingInv, RingInv', OnceInv, NEW e \in Extractors, ExtractAdvance(e)
  PROVE  OnceInv'
<1> USE DEF RingInv, Threads
<1>1. /\ \A n \in 0 .. Limit - 1 :
           Live(n)' => Live(n) /\ storage'[n] = storage[n]
      /\ Has(e) /\ loose' = loose \cup {arg[e]}
      /\ pc' = [pc EXCEPT ![e] = "idle"] /\ arg' = [arg EXCEPT ![e] = None]
  BY LiveKept DEF ExtractAdvance, Return, Goto, At, Has
<1>2. \A t \in Threads \ {e} : arg'[t] = arg[t] /\ pc'[t] = pc[t]
  BY <1>1 DEF TypeOK
<1>3. \A t \in Threads : Has(t)' => t # e /\ Has(t)
  BY <1>1, <1>2 DEF Has, TypeOK
<1>4. QED
  BY <1>1, <1>2, <1>3 DEF OnceInv

LEMMA FlushOnce ==
  ASSUME RingInv, RingInv', OnceInv, NEW e \in Extractors, Flush(e)
  PROVE  OnceInv'
<1> USE RingAssumption DEF RingInv, Threads
<1>1. \A k \in 1 .. Count :
        \E n \in 0 .. Limit - 1 : Live(n) /\ Queue[k] = storage[n]
  BY SlotIsLive, QueueIsSeq DEF QueueOfSlots
<1>2. \A w \in loose' :
        w \in loose \/ \E n \in 0 .. Limit - 1 : Live(n) /\ w = storage[n]
  BY <1>1 DEF Flush
<1>3. \A n \in 0 .. Limit - 1 : ~Live(n)'
  BY IndexRange DEF Flush, Live, InsertIndex, ExtractIndex, Wrap
<1>4. \A t \in Threads : (Has(t)' <=> Has(t)) /\ arg'[t] = arg[t]
  BY DEF Flush, Has
<1>5. QED
  BY <1>2, <1>3, <1>4 DEF OnceInv

(* At every step a word is in one place only: none is stored twice, handed *)
(* out while it is stored, or stored while a client still holds it.        *)
LEMMA OnceNext == RingInv /\ RingInv' /\ OnceInv /\ [Next]_vars => OnceInv'
<1> SUFFICES ASSUME RingInv, RingInv', OnceInv, [Next]_vars PROVE OnceInv'
  OBVIOUS
<1>1. CASE \E i \in Inserters, v \in Values : Insert(i, v)
  BY <1>1, InsertOnce
<1>2. CASE \E i \in Inserters : InsertRefused(i) \/ InsertAccepted(i)
  BY <1>2, InsertRefusedOnce, InsertAcceptedOnce
<1>3. CASE \E e \in Extractors :
             ExtractTake(e) \/ ExtractAdvance(e) \/ Flush(e)
  BY <1>3, ExtractTakeOnce, ExtractAdvanceOnce, FlushOnce
<1>4. CASE \/ \E i \in Inserters :
                InsertStore(i) \/ InsertWrap(i) \/ InsertSignal(i)
           \/ \E e \in Extractors : \/ \E p \in Periods : Extract(e, p)
                                    \/ ExtractPeek(e) \/ ExtractWake(e)
                                    \/ ExtractTimeOut(e) \/ ExtractNothing(e)
                                    \/ NonEmpty(e)
           \/ UNCHANGED vars
  <2>1. \A n \in 0 .. Limit - 1 :
          Live(n)' => Live(n) /\ storage'[n] = storage[n]
    BY <1>4, LiveKept
  <2>2. loose' = loose
    BY <1>4 DEF InsertStore, InsertWrap, InsertSignal, Extract, ExtractPeek,
       ExtractWake, ExtractTimeOut, ExtractNothing, NonEmpty, vars
  <2>3. PICK t \in Threads \cup {None} :
          /\ \A u \in Threads \ {t} : pc'[u] = pc[u] /\ arg'[u] = arg[u]
          /\ t \in Threads /\ Has(t)' => Has(t) /\ arg'[t] = arg[t]
    <3>1. CASE \E i \in Inserters :
                 InsertStore(i) \/ InsertWrap(i) \/ InsertSignal(i)
      BY <3>1 DEF RingInv, TypeOK, Threads, InsertStore, InsertWrap,
         InsertSignal, Return, Goto, At, Has
    <3>2. CASE \E e \in Extractors : \/ \E p \in Periods : Extract(e, p)
                                     \/ ExtractPeek(e) \/ ExtractWake(e)
                                     \/ ExtractTimeOut(e) \/ NonEmpty(e)
                                     \/ ExtractNothing(e)
      BY <3>2 DEF RingInv, TypeOK, Threads, Extract, ExtractPeek, ExtractWake,
         ExtractTimeOut, ExtractNothing, NonEmpty, Return, Goto, At, Has
    <3>3. CASE UNCHANGED vars
      BY <3>3 DEF vars, Has
    <3>4. QED
      BY <1>4, <3>1, <3>2, <3>3
  <2>4. \A u \in Threads : Has(u)' => Has(u) /\ arg'[u] = arg[u]
    BY <2>3 DEF Has
  <2>5. QED
    BY <2>1, <2>2, <2>4, OnceKept
<1>5. QED
  BY <1>1, <1>2, <1>3, <1>4 DEF Next, InsertStep, ExtractStep

(* Lines 53-121: no word is ever stored twice, handed out while it is      *)
(* still stored, or stored while a client holds it: what RingIsFifo says   *)
(* of the order of words, this says of the buffers they point to.          *)
THEOREM RingKeepsWordsOnce == Spec => []OnceInv
BY InitInv, NextInv, OnceInit, OnceNext, PTL DEF Spec

-----------------------------------------------------------------------------
(* The rings between the player's processes are as large as the pool their *)
(* words come from, and one process extracts from each: under these two    *)
(* assumptions the unlocked tests of Extract and NonEmpty are safe.        *)
Roomy == IsFiniteSet(Values) /\ Cardinality(Values) <= MaxEntries

SoleExtractor == \A e, f \in Extractors : e = f

Inside(i) == pc[i] \in {"wrap", "test"}

(* A roomy ring has a free slot for the word an inserter is storing: with  *)
(* none, the Limit slots would hold as many different words.               *)
LEMMA RoomyNotFull ==
  ASSUME RingInv, OnceInv, Roomy, NEW i \in Inserters, Inside(i)
  PROVE  Wrap(old[i] + 1) # ExtractIndex
<1> USE RingAssumption DEF RingInv, Threads
<1> SUFFICES ASSUME Wrap(old[i] + 1) = ExtractIndex PROVE FALSE
  OBVIOUS
<1>1. /\ Limit \in Nat \ {0, 1} /\ MaxEntries = Limit - 1
      /\ lock = i /\ InsertIndex = old[i] /\ old[i] \in 0 .. Limit - 1
      /\ ExtractIndex \in 0 .. Limit - 1
      /\ storage[old[i]] = arg[i] /\ Has(i) /\ arg[i] \in Values
  BY IndexRange DEF TypeOK, LockInv, InsertInv, InsertIndex, Inside, Has,
                    Limit
<1>2. \A n \in 0 .. Limit - 1 : n = old[i] \/ Live(n)
  BY <1>1 DEF Live, Wrap
<1>3. \A m, n \in 0 .. Limit - 1 : m # n => storage[m] # storage[n]
  BY <1>1, <1>2 DEF OnceInv
<1>4. storage \in [0 .. Limit - 1 -> Values]
  <2>1. \A n \in 0 .. Limit - 1 : storage[n] \in Values
    BY <1>1, <1>2 DEF LiveInv
  <2>2. QED
    BY <2>1 DEF TypeOK
<1>5. IsFiniteSet(0 .. Limit - 1) /\ Cardinality(0 .. Limit - 1) = Limit
  BY <1>1, FS_Interval
<1>6. IsFiniteSet(Values) /\ Cardinality(Values) < Cardinality(0 .. Limit - 1)
  BY <1>1, <1>5, FS_CardinalityType DEF Roomy
<1>7. \E m, n \in 0 .. Limit - 1 : m # n /\ storage[m] = storage[n]
  BY ONLY <1>4, <1>5, <1>6, FS_PigeonHole, Zenon
<1>8. QED
  BY <1>3, <1>7

LEMMA RoomyAccepts ==
  ASSUME RingInv, OnceInv, Roomy, NEW i \in Inserters
  PROVE  ~InsertRefused(i)
<1> SUFFICES ASSUME InsertRefused(i) PROVE FALSE
  OBVIOUS
<1> USE RingAssumption DEF RingInv, Threads
<1>1. /\ Inside(i) /\ nextInsert = nextExtract
      /\ nextInsert = Wrap(old[i] + 1) /\ lock = i
  BY DEF InsertRefused, InsertInv, LockInv, Inside, At
<1>2. ExtractIndex = nextExtract
  BY <1>1 DEF TypeOK, LockInv, ExtractIndex, Wrap, At
<1>3. QED
  BY <1>1, <1>2, RoomyNotFull

(* What the unlocked comparison of the two indices says of a roomy ring,   *)
(* read by an extractor while no other is in the middle of its own step.   *)
LEMMA UnlockedTest ==
  ASSUME RingInv, OnceInv, Roomy,
         \A e \in Extractors : pc[e] # "advance"
  PROVE  /\ nextExtract = nextInsert => /\ InsertIndex = ExtractIndex
                                        /\ \A i \in Inserters : ~Inside(i)
         /\ nextExtract # nextInsert => \/ InsertIndex # ExtractIndex
                                        \/ \E i \in Inserters : Inside(i)
<1> USE RingAssumption DEF RingInv, Threads
<1>1. /\ Limit \in Nat \ {0, 1}
      /\ ExtractIndex = nextExtract /\ nextExtract \in 0 .. Limit - 1
  BY IndexRange DEF TypeOK, ExtractIndex, Wrap, At
<1>2. ASSUME NEW i \in Inserters, Inside(i) PROVE nextExtract # nextInsert
  <2>1. /\ Wrap(old[i] + 1) # nextExtract
        /\ old[i] \in 0 .. Limit - 1
        /\ nextInsert = old[i] + 1 \/ nextInsert = Wrap(old[i] + 1)
    BY <1>1, <1>2, RoomyNotFull DEF TypeOK, InsertInv, Inside
  <2>2. QED
    BY <1>1, <2>1 DEF Wrap
<1>3. (\A i \in Inserters : ~Inside(i)) => InsertIndex = nextInsert
  BY DEF LockInv, InsertPoints, InsertIndex, Inside
<1>4. QED
  BY <1>1, <1>2, <1>3

(* A waiting extractor of a ring that holds something is about to be       *)
(* woken; an extractor that NonEmpty told TRUE does not wait, and until it *)
(* has extracted the ring holds something or is about to.                  *)
WakeInv ==
  \A e \in Extractors :
    pc[e] = "wait" /\ InsertIndex # ExtractIndex =>
      valid \/ \E i \in Inserters : pc[i] = "signal"

PromiseInv ==
  \A e \in promised :
    /\ pc[e] # "wait"
    /\ pc[e] \in {"idle", "peek", "take"} =>
         InsertIndex # ExtractIndex \/ \E i \in Inserters : Inside(i)

LEMMA RoomyInit == Init => WakeInv /\ PromiseInv
BY DEF Init, WakeInv, PromiseInv, Threads

LEMMA RoomyInsert ==
  ASSUME Roomy, RingInv, RingInv', OnceInv, WakeInv, PromiseInv,
         NEW i \in Inserters,
         (\E v \in Values : Insert(i, v)) \/ InsertStep(i)
  PROVE  WakeInv' /\ PromiseInv'
<1> USE RingAssumption DEF RingInv, Threads
<1>1. /\ promised' = promised /\ promised \subseteq Extractors
      /\ \A t \in Threads \ {i} : pc'[t] = pc[t]
      /\ i \notin Extractors
  BY RoomyAccepts DEF TypeOK, Insert, InsertStep, InsertStore, InsertWrap,
     InsertAccepted, InsertSignal, Return, Goto
<1>2. CASE \/ \E v \in Values : Insert(i, v)
           \/ InsertStore(i) \/ InsertWrap(i)
  <2>1. InsertIndex' = InsertIndex /\ ExtractIndex' = ExtractIndex
    BY <1>2, LiveKept
  <2>2. valid' = valid /\ pc[i] # "signal"
    BY <1>2 DEF Insert, InsertStore, InsertWrap, ringVars, At
  <2>3. Inside(i) => Inside(i)'
    BY <1>2 DEF TypeOK, Insert, InsertStore, InsertWrap, Goto, At, Inside
  <2>4. QED
    BY <1>1, <2>1, <2>2, <2>3 DEF WakeInv, PromiseInv, Inside
<1>3. CASE InsertAccepted(i)
  <2>1. /\ pc'[i] = "signal" /\ Inside(i) /\ lock = i
        /\ nextInsert = Wrap(old[i] + 1)
    BY <1>3 DEF TypeOK, LockInv, InsertInv, InsertAccepted, Goto, At, Inside
  <2>2. InsertIndex' = Wrap(old[i] + 1) /\ ExtractIndex' = ExtractIndex
    BY <1>3, <2>1 DEF InsertAccepted, InsertIndex, ExtractIndex
  <2>3. InsertIndex' # ExtractIndex'
    BY <2>1, <2>2, RoomyNotFull
  <2>4. QED
    BY <1>1, <2>1, <2>3 DEF WakeInv, PromiseInv
<1>4. CASE InsertSignal(i)
  <2>1. InsertIndex' = InsertIndex /\ ExtractIndex' = ExtractIndex
    BY <1>4, LiveKept
  <2>2. valid' = TRUE /\ ~Inside(i)
    BY <1>4 DEF InsertSignal, At, Inside
  <2>3. QED
    BY <1>1, <2>1, <2>2 DEF WakeInv, PromiseInv, Inside
<1>5. QED
  BY <1>2, <1>3, <1>4, RoomyAccepts DEF InsertStep

LEMMA RoomyExtract ==
  ASSUME Roomy, SoleExtractor, RingInv, RingInv', OnceInv,
         WakeInv, PromiseInv, NEW e \in Extractors,
         \/ \E p \in Periods : Extract(e, p)
         \/ ExtractStep(e) \/ Flush(e) \/ NonEmpty(e)
  PROVE  WakeInv' /\ PromiseInv'
<1> USE RingAssumption DEF RingInv, Threads
<1>1. /\ promised \subseteq {e} /\ promised' \subseteq {e}
      /\ \A f \in Extractors : f = e
      /\ \A i \in Inserters : pc'[i] = pc[i]
  BY DEF SoleExtractor, TypeOK, Extract, ExtractStep, ExtractPeek,
     ExtractWake, ExtractTimeOut, ExtractTake, ExtractAdvance,
     ExtractNothing, Flush, NonEmpty, Return, Goto
<1>2. \A i \in Inserters : Inside(i)' <=> Inside(i)
  BY <1>1 DEF Inside
<1>3. CASE \E p \in Periods : Extract(e, p)
  <2>1. InsertIndex' = InsertIndex /\ ExtractIndex' = ExtractIndex
    BY <1>3, LiveKept
  <2>2. pc[e] = "idle" /\ pc'[e] = "peek" /\ promised' = promised
    BY <1>3 DEF TypeOK, Extract, Goto, At
  <2>3. QED
    BY <1>1, <1>2, <2>1, <2>2 DEF WakeInv, PromiseInv
<1>4. CASE ExtractPeek(e)
  <2>1. InsertIndex' = InsertIndex /\ ExtractIndex' = ExtractIndex
    BY <1>4, LiveKept
  <2>2. /\ pc[e] = "peek" /\ promised' = promised
        /\ pc'[e] \in {"take", "wait"}
        /\ pc'[e] = "wait" => nextExtract = nextInsert
    BY <1>4 DEF TypeOK, ExtractPeek, Goto, At
  <2>3. pc'[e] = "wait" => /\ InsertIndex = ExtractIndex
                           /\ \A i \in Inserters : ~Inside(i)
    BY <1>1, <2>2, UnlockedTest
  <2>4. QED
    BY <1>1, <1>2, <2>1, <2>2, <2>3 DEF WakeInv, PromiseInv
<1>5. CASE ExtractWake(e) \/ ExtractTimeOut(e)
  <2>1. pc[e] = "wait" /\ pc'[e] = "take" /\ promised' = promised
    BY <1>5 DEF TypeOK, ExtractWake, ExtractTimeOut, Goto, At
  <2>2. QED
    BY <1>1, <2>1 DEF WakeInv, PromiseInv
<1>6. CASE ExtractTake(e)
  <2>1. pc'[e] = "advance"
    BY <1>6 DEF TypeOK, ExtractTake, Goto
  <2>2. QED
    BY <1>1, <2>1 DEF WakeInv, PromiseInv
<1>7. CASE ExtractAdvance(e) \/ ExtractNothing(e) \/ Flush(e)
  <2>1. pc'[e] = "idle" /\ promised' = {}
    BY <1>1, <1>7 DEF TypeOK, ExtractAdvance, ExtractNothing, Flush, Return,
       Goto, At
  <2>2. QED
    BY <1>1, <2>1 DEF WakeInv, PromiseInv
<1>8. CASE NonEmpty(e)
  <2>1. InsertIndex' = InsertIndex /\ ExtractIndex' = ExtractIndex
    BY <1>8, LiveKept
  <2>2. /\ pc[e] = "idle" /\ pc' = pc
        /\ e \in promised' => nextExtract # nextInsert
    BY <1>8 DEF NonEmpty, At
  <2>3. e \in promised' => \/ InsertIndex # ExtractIndex
                           \/ \E i \in Inserters : Inside(i)
    BY <1>1, <2>2, UnlockedTest
  <2>4. QED
    BY <1>1, <1>2, <2>1, <2>2, <2>3 DEF WakeInv, PromiseInv
<1>9. QED
  BY <1>3, <1>4, <1>5, <1>6, <1>7, <1>8 DEF ExtractStep

LEMMA RoomyNext ==
  ASSUME Roomy, SoleExtractor
  PROVE  RingInv /\ RingInv' /\ OnceInv /\ WakeInv /\ PromiseInv
           /\ [Next]_vars => WakeInv' /\ PromiseInv'
<1> SUFFICES ASSUME RingInv, RingInv', OnceInv, WakeInv, PromiseInv,
                    [Next]_vars
             PROVE  WakeInv' /\ PromiseInv'
  OBVIOUS
<1>1. CASE UNCHANGED vars
  BY <1>1 DEF vars, ringVars, WakeInv, PromiseInv, Inside, InsertIndex,
              ExtractIndex
<1>2. CASE Next
  BY <1>2, RoomyInsert, RoomyExtract DEF Next
<1>3. QED
  BY <1>1, <1>2

(* The queue is empty exactly when its two ends coincide.                  *)
LEMMA EmptyQueue == RingInv => (Queue = << >> <=> InsertIndex = ExtractIndex)
<1> SUFFICES ASSUME RingInv
             PROVE  Queue = << >> <=> InsertIndex = ExtractIndex
  OBVIOUS
<1>1. Queue = << >> <=> Count = 0
  BY QueueIsSeq, SlotIsLive, EmptySeq DEF QueueOfSlots, RingInv
<1>2. Count = 0 <=> InsertIndex = ExtractIndex
  BY IndexRange DEF Count, RingInv
<1>3. QED
  BY <1>1, <1>2

(* Lines 85-91: the only extractor of a roomy ring never sleeps on a word: *)
(* its unlocked test, however the inserters interleave with it, lets it    *)
(* wait only where the event is set or an inserter is about to set it.     *)
THEOREM RoomyKeepsWakeups ==
  ASSUME Roomy, SoleExtractor
  PROVE  Spec => []NoLostWakeup
<1>1. RingInv /\ WakeInv => NoLostWakeup
  BY EmptyQueue DEF WakeInv, NoLostWakeup, At
<1>2. Roomy /\ SoleExtractor
  OBVIOUS
<1>3. RingInv /\ RingInv' /\ OnceInv /\ WakeInv /\ PromiseInv
        /\ [Next]_vars => WakeInv' /\ PromiseInv'
  BY <1>2, RoomyNext
<1>4. QED
  BY <1>1, <1>3, InitInv, NextInv, OnceInit, OnceNext, RoomyInit,
     PTL DEF Spec

(* Lines 126-129: to the only extractor of a roomy ring NonEmpty keeps its *)
(* word: "while NonEmpty() Extract()" neither blocks nor comes back empty. *)
THEOREM RoomyKeepsPromises ==
  ASSUME Roomy, SoleExtractor
  PROVE  Spec => []NonEmptyIsAPromise
<1>1. RingInv /\ PromiseInv => NonEmptyIsAPromise
  <2> SUFFICES ASSUME RingInv, PromiseInv, NEW e \in promised
               PROVE  /\ pc[e] # "wait"
                      /\ pc[e] = "take" /\ lock = None => Queue # << >>
    BY DEF NonEmptyIsAPromise, At
  <2>1. lock = None => \A i \in Inserters : ~Inside(i)
    BY RingAssumption DEF RingInv, LockInv, Inside, Threads
  <2>2. QED
    BY <2>1, EmptyQueue DEF PromiseInv
<1>2. Roomy /\ SoleExtractor
  OBVIOUS
<1>3. RingInv /\ RingInv' /\ OnceInv /\ WakeInv /\ PromiseInv
        /\ [Next]_vars => WakeInv' /\ PromiseInv'
  BY <1>2, RoomyNext
<1>4. QED
  BY <1>1, <1>3, InitInv, NextInv, OnceInit, OnceNext, RoomyInit,
     PTL DEF Spec
=============================================================================
