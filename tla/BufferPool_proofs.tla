-------------------------- MODULE BufferPool_proofs --------------------------
(***************************************************************************)
(* Proofs about BufferPool, for any number of threads, pools and buffers.  *)
(***************************************************************************)
EXTENDS BufferPool, FiniteSetTheorems, SequenceTheorems, TLAPS

(* The parts of TypeOK.                                                    *)
PoolTypes ==
  /\ free \in [Pools -> Seq(Buffers)]
  /\ poolCount \in [Pools -> Int]
  /\ referenced \in [Pools -> Int]
  /\ abort \in [Pools -> BOOLEAN]
  /\ valid \in [Pools -> BOOLEAN]
  /\ waitedOn \in [Pools -> BOOLEAN]
  /\ poolLock \in [Pools -> Threads \cup {None}]

BufferTypes ==
  /\ refCount \in [Buffers -> Int]
  /\ attached \in [Buffers -> [Slots -> Buffers \cup {None}]]
  /\ bufLock \in [Buffers -> Threads \cup {None}]
  /\ lost \subseteq Buffers
  /\ held \in [Holders -> Buffers \cup {None}]

LocalTypes ==
  /\ pc \in [Threads -> Labels]
  /\ pool \in [Threads -> Pools \cup {None}]
  /\ nonBlocking \in [Threads -> BOOLEAN]
  /\ buf \in [Threads -> Buffers \cup {None}]
  /\ outer \in [Threads -> Buffers \cup {None}]
  /\ after \in [Threads -> Int]
  /\ dest \in [Threads -> Places]
  /\ hand \in [Threads -> SUBSET Holders]
  /\ stack \in [Threads -> Seq(Buffers)]

LockInv ==
  \A p \in Pools, t \in Threads :
    poolLock[p] = t => pc[t] \in {"test", "again", "retry"} /\ pool[t] = p

(* What a thread works on is known where it is used.                       *)
PointInv ==
  \A t \in Threads :
    /\ pc[t] \in {"lock", "test", "wait", "relock", "again", "retry", "memory",
                   "init", "count", "signal"}
         => pool[t] \in Pools
    /\ pc[t] \in {"memory", "init", "incPool", "inc", "attach", "detach",
                   "decPool", "dec", "after", "attachments", "free"}
         => buf[t] \in Buffers
    /\ pc[t] \in {"attach", "detach"} => outer[t] \in Buffers

TypeInv == PoolTypes /\ BufferTypes /\ LocalTypes /\ LockInv /\ PointInv

-----------------------------------------------------------------------------
(* TypeInv is inductive.                                                   *)
LEMMA InitTypes == Init => TypeInv
<1> SUFFICES ASSUME Init PROVE TypeInv
  OBVIOUS
<1> USE PoolAssumption DEF Init
<1>1. free \in [Pools -> Seq(Buffers)]
  <2>1. \A p \in Pools : free[p] \in Seq(Buffers)
    <3> TAKE p \in Pools
    <3>1. PICK n \in 0 .. Cardinality(Buffers) : free[p] \in [1 .. n -> Buffers]
      OBVIOUS
    <3>2. n \in Nat
      BY <3>1, FS_CardinalityType
    <3>3. QED
      BY <3>1, <3>2, SeqDef
  <2>2. QED
    BY <2>1
<1>2. PoolTypes
  BY <1>1 DEF PoolTypes
<1>3. BufferTypes
  BY DEF BufferTypes
<1>4. LocalTypes
  BY DEF LocalTypes, Labels, Places
<1>5. LockInv /\ PointInv
  BY DEF LockInv, PointInv
<1>6. QED
  BY <1>2, <1>3, <1>4, <1>5 DEF TypeInv

(* An attachment slot is a place.                                          *)
LEMMA AttachmentIsPlace ==
  ASSUME NEW b \in Buffers, NEW s \in Slots
  PROVE  Attachment(b, s) \in Places
<1>1. PICK x \in Buffers \X Slots : x = <<b, s>>
  OBVIOUS
<1>2. x[1] = b /\ x[2] = s
  BY <1>1
<1>3. Attachment(x[1], x[2]) \in {Attachment(y[1], y[2]) : y \in Buffers \X Slots}
  OBVIOUS
<1>4. QED
  BY <1>2, <1>3 DEF Places

(* A call returns to its caller.                                           *)
LEMMA ResumeTypes ==
  ASSUME TypeInv, NEW t \in Threads, NEW callers \in Seq(Buffers),
         Resume(t, callers), poolLock' = poolLock,
         pc[t] \notin {"test", "again", "retry"},
         stack' \in [Threads -> Seq(Buffers)]
  PROVE  LocalTypes' /\ LockInv' /\ PointInv'
<1> USE PoolAssumption DEF TypeInv, PoolTypes, LocalTypes, LockInv, PointInv
<1>1. CASE Return(t)
  <2>1. LocalTypes'
    <3>1. dest' \in [Threads -> Places]
      BY <1>1 DEF Return, Places
    <3>2. /\ pc' \in [Threads -> Labels]
          /\ hand' \in [Threads -> SUBSET Holders]
      BY <1>1 DEF Return, Goto, Labels
    <3>3. QED
      BY <1>1, <3>1, <3>2 DEF Return
  <2>2. pc' = [pc EXCEPT ![t] = "idle"] /\ pool' = [pool EXCEPT ![t] = None]
    BY <1>1 DEF Return, Goto
  <2>3. LockInv'
    BY <2>2
  <2>4. PointInv'
    BY <1>1 DEF Return, Goto
  <2>5. QED
    BY <2>1, <2>3, <2>4
<1>2. CASE callers # << >> /\ ~Return(t)
  <2>1. callers[Len(callers)] \in Buffers
    BY <1>2
  <2>2. /\ buf' = [buf EXCEPT ![t] = callers[Len(callers)]]
        /\ Goto(t, "attachments")
        /\ UNCHANGED <<pool, nonBlocking, outer, after, dest, hand>>
    BY <1>2 DEF Resume
  <2>3. QED
    BY <2>1, <2>2 DEF Goto, Labels
<1>3. QED
  BY <1>1, <1>2 DEF Resume

(* Every step preserves the types.                                         *)
LEMMA NextTypes == TypeInv /\ [Next]_vars => TypeInv'
<1> SUFFICES ASSUME TypeInv, [Next]_vars PROVE TypeInv'
  OBVIOUS
<1> USE PoolAssumption DEF TypeInv, PoolTypes, BufferTypes, LocalTypes, LockInv,
      PointInv, poolVars, bufferVars, locals, Return, Goto, At, Labels, Places,
      Client, Attachment, NoPlace, FirstSlot
<1>1. ASSUME NEW t \in Threads, GetExtract(t) PROVE TypeInv'
  <2>1. pool[t] \in Pools /\ free[pool[t]] \in Seq(Buffers)
    BY <1>1 DEF GetExtract
  <2>2. free[pool[t]] # << >> => /\ Head(free[pool[t]]) \in Buffers
                                /\ Tail(free[pool[t]]) \in Seq(Buffers)
    BY <2>1
  <2>3. /\ free' \in [Pools -> Seq(Buffers)]
        /\ buf' \in [Threads -> Buffers \cup {None}]
        /\ \A u \in Threads \ {t} : buf'[u] = buf[u]
    <3>1. CASE free[pool[t]] # << >>
      <4>1. /\ free' = [free EXCEPT ![pool[t]] = Tail(free[pool[t]])]
            /\ buf' = [buf EXCEPT ![t] = Head(free[pool[t]])]
        BY <1>1, <3>1 DEF GetExtract
      <4>2. QED
        BY <2>1, <2>2, <3>1, <4>1
    <3>2. CASE free[pool[t]] = << >>
      <4>1. UNCHANGED <<free, buf>>
        BY <1>1, <3>2 DEF GetExtract
      <4>2. QED
        BY <4>1
    <3>3. QED
      BY <3>1, <3>2
  <2>4. PoolTypes' /\ BufferTypes' /\ LocalTypes'
    BY <1>1, <2>1, <2>3 DEF GetExtract
  <2>5. LockInv'
    BY <1>1, <2>1 DEF GetExtract
  <2>6. PointInv'
    BY <1>1, <2>1, <2>3 DEF GetExtract
  <2>7. QED
    BY <2>4, <2>5, <2>6
<1>2. ASSUME NEW t \in Threads, GetGot(t) PROVE TypeInv'
  BY <1>2 DEF GetGot
<1>3. ASSUME NEW t \in Threads, GetSleep(t) PROVE TypeInv'
  BY <1>3 DEF GetSleep
<1>4. ASSUME NEW t \in Threads, GetNoSleep(t) PROVE TypeInv'
  BY <1>4 DEF GetNoSleep
<1>5. ASSUME NEW t \in Threads, GetWake(t) PROVE TypeInv'
  BY <1>5 DEF GetWake
<1>6. ASSUME NEW t \in Threads, GetTimeOut(t) PROVE TypeInv'
  BY <1>6 DEF GetTimeOut
<1>7. ASSUME NEW t \in Threads, GetRelock(t) PROVE TypeInv'
  BY <1>7 DEF GetRelock
<1>8. ASSUME NEW t \in Threads, GetAgain(t) PROVE TypeInv'
  BY <1>8 DEF GetAgain
<1>9. ASSUME NEW t \in Threads, GetNoFreeBuffer(t) PROVE TypeInv'
  <2>1. PoolTypes' /\ BufferTypes' /\ PointInv'
    BY <1>9 DEF GetNoFreeBuffer
  <2>2. LocalTypes'
    BY <1>9 DEF GetNoFreeBuffer
  <2>3. LockInv'
    BY <1>9 DEF GetNoFreeBuffer
  <2>4. QED
    BY <2>1, <2>2, <2>3
<1>10. ASSUME NEW t \in Threads, GetMemory(t) PROVE TypeInv'
  BY <1>10 DEF GetMemory
<1>11. ASSUME NEW t \in Threads, GetNoMemory(t) PROVE TypeInv'
  BY <1>11 DEF GetNoMemory
<1>12. ASSUME NEW t \in Threads, GetInitialize(t) PROVE TypeInv'
  BY <1>12 DEF GetInitialize
<1>13. ASSUME NEW t \in Threads, GetCount(t) PROVE TypeInv'
  BY <1>13 DEF GetCount
<1>14. ASSUME NEW t \in Threads, AbortSignal(t) PROVE TypeInv'
  <2>1. PoolTypes' /\ BufferTypes' /\ LocalTypes'
    BY <1>14 DEF AbortSignal
  <2>2. LockInv'
    BY <1>14 DEF AbortSignal
  <2>3. PointInv'
    BY <1>14 DEF AbortSignal
  <2>4. QED
    BY <2>1, <2>2, <2>3
<1>15. ASSUME NEW t \in Threads, IncrementPool(t) PROVE TypeInv'
  BY <1>15 DEF IncrementPool
<1>16. ASSUME NEW t \in Threads, Increment(t) PROVE TypeInv'
  BY <1>16 DEF Increment
<1>17. ASSUME NEW t \in Threads, AttachSlot(t) PROVE TypeInv'
  <2>1. outer[t] \in Buffers /\ buf[t] \in Buffers
    BY <1>17 DEF AttachSlot
  <2>2. PICK s \in Slots :
          /\ attached' = [attached EXCEPT ![outer[t]][s] = buf[t]]
          /\ dest' = [dest EXCEPT ![t] = Attachment(outer[t], s)]
    BY <1>17 DEF AttachSlot
  <2>3. Attachment(outer[t], s) \in Places
    BY <2>1, AttachmentIsPlace
  <2>4. dest' \in [Threads -> Places]
    BY <2>2, <2>3
  <2>5. BufferTypes'
    BY <1>17, <2>1, <2>2 DEF AttachSlot
  <2>6. LocalTypes'
    BY <1>17, <2>4 DEF AttachSlot
  <2>7. PoolTypes' /\ LockInv' /\ PointInv'
    BY <1>17 DEF AttachSlot
  <2>8. QED
    BY <2>5, <2>6, <2>7
<1>18. ASSUME NEW t \in Threads, AttachTooMany(t) PROVE TypeInv'
  <2>1. PoolTypes' /\ BufferTypes' /\ LocalTypes'
    BY <1>18 DEF AttachTooMany
  <2>2. LockInv'
    BY <1>18 DEF AttachTooMany
  <2>3. PointInv'
    BY <1>18 DEF AttachTooMany
  <2>4. QED
    BY <2>1, <2>2, <2>3
<1>19. ASSUME NEW t \in Threads, DetachSlot(t) PROVE TypeInv'
  BY <1>19 DEF DetachSlot
<1>20. ASSUME NEW t \in Threads, DetachNotFound(t) PROVE TypeInv'
  <2>1. PoolTypes' /\ BufferTypes' /\ LocalTypes'
    BY <1>20 DEF DetachNotFound
  <2>2. LockInv'
    BY <1>20 DEF DetachNotFound
  <2>3. PointInv'
    BY <1>20 DEF DetachNotFound
  <2>4. QED
    BY <2>1, <2>2, <2>3
<1>21. ASSUME NEW t \in Threads, DecrementPool(t) PROVE TypeInv'
  BY <1>21 DEF DecrementPool
<1>22. ASSUME NEW t \in Threads, Decrement(t) PROVE TypeInv'
  BY <1>22 DEF Decrement
<1>23. ASSUME NEW t \in Threads, DecrementReturn(t) PROVE TypeInv'
  <2>1. TypeInv /\ Resume(t, stack[t]) /\ At(t, "after")
      /\ UNCHANGED <<poolVars, bufferVars, stack>>
    BY <1>23 DEF DecrementReturn
  <2>2. stack[t] \in Seq(Buffers)
    OBVIOUS
  <2>3. PoolTypes' /\ BufferTypes' /\ stack' \in [Threads -> Seq(Buffers)]
    BY <2>1
  <2>4. poolLock' = poolLock /\ pc[t] \notin {"test", "again", "retry"}
    BY <2>1
  <2>5. LocalTypes' /\ LockInv' /\ PointInv'
    BY ONLY <2>1, <2>2, <2>3, <2>4, t \in Threads, ResumeTypes
  <2>6. QED
    BY <2>3, <2>5
<1>24. ASSUME NEW t \in Threads, ReleaseBuffer(t) PROVE TypeInv'
  BY <1>24 DEF ReleaseBuffer
<1>25. ASSUME NEW t \in Threads, ReleaseAttached(t) PROVE TypeInv'
  BY <1>25 DEF ReleaseAttached
<1>26. ASSUME NEW t \in Threads, ReleaseUnlock(t) PROVE TypeInv'
  <2>1. PoolTypes' /\ BufferTypes' /\ LocalTypes'
    BY <1>26 DEF ReleaseUnlock
  <2>2. LockInv'
    BY <1>26 DEF ReleaseUnlock
  <2>3. PointInv'
    BY <1>26 DEF ReleaseUnlock
  <2>4. QED
    BY <2>1, <2>2, <2>3
<1>27. ASSUME NEW t \in Threads, ReleaseFree(t) PROVE TypeInv'
  <2> DEFINE callers == SubSeq(stack[t], 1, Len(stack[t]) - 1)
  <2>1. /\ buf[t] \in Buffers /\ PoolOf[buf[t]] \in Pools
        /\ At(t, "free") /\ Resume(t, callers)
        /\ stack' = [stack EXCEPT ![t] = callers]
    BY <1>27 DEF ReleaseFree
  <2>2. callers \in Seq(Buffers)
    <3>1. stack[t] \in Seq(Buffers)
      OBVIOUS
    <3>2. QED
      BY <3>1, SubSeqProperties
  <2>3. PoolTypes'
    <3>1. Append(free[PoolOf[buf[t]]], buf[t]) \in Seq(Buffers)
      BY <2>1
    <3>2. QED
      BY <1>27, <2>1, <3>1 DEF ReleaseFree
  <2>4. BufferTypes' /\ poolLock' = poolLock
    BY <1>27 DEF ReleaseFree
  <2>5. stack' \in [Threads -> Seq(Buffers)]
    BY <2>1, <2>2
  <2> HIDE DEF callers
  <2>6. LocalTypes' /\ LockInv' /\ PointInv'
    BY <2>1, <2>2, <2>4, <2>5, ResumeTypes
  <2>7. QED
    BY <2>3, <2>4, <2>6
<1>28. ASSUME NEW t \in Threads, NEW p \in Pools,
             AbortBlockingGetBuffer(t, p)
      PROVE  TypeInv'
  BY <1>28 DEF AbortBlockingGetBuffer
<1>29. ASSUME NEW t \in Threads, NEW p \in Pools, NEW h \in Holders, NEW nb \in Modes,
             GetBuffer(t, p, h, nb)
      PROVE  TypeInv'
  BY <1>29 DEF GetBuffer
<1>30. ASSUME NEW t \in Threads, NEW h \in Holders, NEW g \in Holders,
             IncrementReferenceCount(t, h, g)
      PROVE  TypeInv'
  <2>1. held[h] \in Buffers
    BY <1>30 DEF IncrementReferenceCount
  <2>2. PoolTypes' /\ BufferTypes'
    BY <1>30 DEF IncrementReferenceCount
  <2>3. LocalTypes'
    BY <1>30, <2>1 DEF IncrementReferenceCount
  <2>4. LockInv' /\ PointInv'
    BY <1>30, <2>1 DEF IncrementReferenceCount
  <2>5. QED
    BY <2>2, <2>3, <2>4
<1>31. ASSUME NEW t \in Threads, NEW h \in Holders, NEW g \in Holders,
             AttachBuffer(t, h, g)
      PROVE  TypeInv'
  BY <1>31 DEF AttachBuffer
<1>32. ASSUME NEW t \in Threads, NEW h \in Holders, NEW b \in Buffers,
             DetachBuffer(t, h, b)
      PROVE  TypeInv'
  BY <1>32 DEF DetachBuffer
<1>33. ASSUME NEW t \in Threads, NEW h \in Holders,
             DecrementReferenceCount(t, h)
      PROVE  TypeInv'
  BY <1>33 DEF DecrementReferenceCount
<1>34. CASE UNCHANGED vars
  BY <1>34 DEF vars
<1> QED
  BY <1>1, <1>2, <1>3, <1>4, <1>5, <1>6, <1>7, <1>8, <1>9, <1>10, <1>11,
     <1>12, <1>13, <1>14, <1>15, <1>16, <1>17, <1>18, <1>19, <1>20, <1>21,
     <1>22, <1>23, <1>24, <1>25, <1>26, <1>27, <1>28, <1>29, <1>30, <1>31,
     <1>32, <1>33, <1>34
     DEF Next, Start, Step, GetStep, CountStep, ReleaseStep

(* TypeInv contains TypeOK.                                                *)
LEMMA TypesImplyTypeOK == TypeInv => TypeOK
BY DEF TypeInv, TypeOK, PoolTypes, BufferTypes, LocalTypes, LockInv

(* The values of all variables of the buffer pools stay in their types, and *)
(* a pool lock is held across steps only inside the loop of GetBuffer that *)
(* took it.                                                                *)
THEOREM TypeCorrect == Spec => []TypeOK
<1>1. Spec => []TypeInv
  BY InitTypes, NextTypes, PTL DEF Spec
<1>2. QED
  BY <1>1, TypesImplyTypeOK, PTL

-----------------------------------------------------------------------------
(* The event of a pool: a thread in the loop of GetBuffer is one of the    *)
(* pool's getters, keeps the lock while it looks at the ring, and knows    *)
(* the ring empty when it found nothing there.                             *)
LoopPoints == {"lock", "test", "wait", "relock", "again", "retry"}

LoopInv ==
  \A t \in Threads :
    /\ pc[t] \in LoopPoints => t \in Getters[pool[t]]
    /\ pc[t] \in {"test", "again", "retry"} => poolLock[pool[t]] = t
    /\ pc[t] = "test" /\ buf[t] = None => free[pool[t]] = << >>

(* The only getter of a pool sleeps on an empty ring or a set event.       *)
WakeInv ==
  \A p \in Pools : \A t \in Getters[p] :
    Getters[p] = {t} /\ pc[t] = "wait" /\ pool[t] = p /\ free[p] # << >>
      => valid[p]

(* A step of t outside the loop of GetBuffer that puts no buffer back, or  *)
(* one by which t leaves the loop.                                         *)
LEMMA WakeKept ==
  ASSUME TypeInv, LoopInv, WakeInv, NEW t \in Threads,
         \A u \in Threads \ {t} :
           pc'[u] = pc[u] /\ pool'[u] = pool[u] /\ buf'[u] = buf[u],
         \A p \in Pools : valid[p] => valid'[p],
         \A p \in Pools, u \in Threads \ {t} :
           poolLock[p] = u => poolLock'[p] = u,
         free' = free, pc'[t] \notin LoopPoints
  PROVE  LoopInv' /\ WakeInv'
<1>1. \A u \in Threads : pc[u] \in LoopPoints => pool[u] \in Pools
  BY DEF TypeInv, PointInv, LoopPoints
<1>2. LoopInv'
  BY <1>1 DEF LoopInv, LoopPoints
<1>3. WakeInv'
  BY PoolAssumption DEF WakeInv, LoopPoints
<1>4. QED
  BY <1>2, <1>3

LEMMA WakeOutside ==
  ASSUME TypeInv, LoopInv, WakeInv, NEW t \in Threads,
         \/ Start(t) /\ ~(\E p \in Pools, h \in Holders, nb \in Modes :
                            GetBuffer(t, p, h, nb))
         \/ CountStep(t) \/ AbortSignal(t)
         \/ ReleaseBuffer(t) \/ ReleaseAttached(t) \/ ReleaseUnlock(t)
         \/ GetGot(t) \/ GetNoFreeBuffer(t) \/ GetMemory(t) \/ GetNoMemory(t)
         \/ GetInitialize(t) \/ GetCount(t)
  PROVE  LoopInv' /\ WakeInv'
<1> USE DEF TypeInv, PoolTypes, LocalTypes, Goto, Return, At, poolVars,
            bufferVars, locals, LoopPoints
<1>1. CASE Start(t) /\ ~(\E p \in Pools, h \in Holders, nb \in Modes :
                           GetBuffer(t, p, h, nb))
  <2> DEFINE Elsewhere ==
        /\ \A u \in Threads \ {t} :
             pc'[u] = pc[u] /\ pool'[u] = pool[u] /\ buf'[u] = buf[u]
        /\ UNCHANGED <<valid, poolLock, free>> /\ pc'[t] \notin LoopPoints
  <2>1. Elsewhere
    <3>1. ASSUME NEW p \in Pools, AbortBlockingGetBuffer(t, p) PROVE Elsewhere
      BY <3>1 DEF AbortBlockingGetBuffer
    <3>2. ASSUME NEW k \in Holders, NEW g \in Holders,
                 IncrementReferenceCount(t, k, g) \/ AttachBuffer(t, k, g)
          PROVE  Elsewhere
      BY <3>2 DEF IncrementReferenceCount, AttachBuffer
    <3>3. ASSUME NEW k \in Holders,
                 \/ \E b \in Buffers : DetachBuffer(t, k, b)
                 \/ DecrementReferenceCount(t, k)
          PROVE  Elsewhere
      BY <3>3 DEF DetachBuffer, DecrementReferenceCount
    <3>4. QED
      BY <1>1, <3>1, <3>2, <3>3 DEF Start
  <2>2. QED
    BY <2>1, WakeKept
<1>2. CASE CountStep(t)
  <2>1. /\ \A u \in Threads \ {t} :
             pc'[u] = pc[u] /\ pool'[u] = pool[u] /\ buf'[u] = buf[u]
        /\ UNCHANGED <<valid, poolLock, free>> /\ pc'[t] \notin LoopPoints
    BY <1>2 DEF CountStep, IncrementPool, Increment, DecrementPool, Decrement,
       DecrementReturn, AttachSlot, AttachTooMany, DetachSlot, DetachNotFound,
       Resume
  <2>2. QED
    BY <2>1, WakeKept
<1>3. CASE AbortSignal(t)
  <2>1. /\ \A u \in Threads \ {t} :
             pc'[u] = pc[u] /\ pool'[u] = pool[u] /\ buf'[u] = buf[u]
        /\ UNCHANGED <<poolLock, free>> /\ pc'[t] \notin LoopPoints
    BY <1>3 DEF AbortSignal
  <2>2. \A p \in Pools : valid[p] => valid'[p]
    BY <1>3, Zenon DEF AbortSignal
  <2>3. QED
    BY <2>1, <2>2, WakeKept
<1>4. CASE ReleaseBuffer(t) \/ ReleaseAttached(t) \/ ReleaseUnlock(t)
           \/ GetMemory(t) \/ GetNoMemory(t) \/ GetInitialize(t) \/ GetCount(t)
  <2>1. /\ \A u \in Threads \ {t} :
             pc'[u] = pc[u] /\ pool'[u] = pool[u] /\ buf'[u] = buf[u]
        /\ UNCHANGED <<valid, poolLock, free>> /\ pc'[t] \notin LoopPoints
    BY <1>4 DEF ReleaseBuffer, ReleaseAttached, ReleaseUnlock, GetMemory,
       GetNoMemory, GetInitialize, GetCount
  <2>2. QED
    BY <2>1, WakeKept
<1>5. CASE GetGot(t) \/ GetNoFreeBuffer(t)
  <2>1. /\ \A u \in Threads \ {t} :
             pc'[u] = pc[u] /\ pool'[u] = pool[u] /\ buf'[u] = buf[u]
        /\ UNCHANGED <<valid, free>> /\ pc'[t] \notin LoopPoints
        /\ poolLock' = [poolLock EXCEPT ![pool[t]] = None]
    BY <1>5 DEF GetGot, GetNoFreeBuffer
  <2>2. poolLock[pool[t]] = t
    BY <1>5 DEF LoopInv, GetGot, GetNoFreeBuffer
  <2>3. \A p \in Pools, u \in Threads \ {t} :
          poolLock[p] = u => poolLock'[p] = u
    BY <2>1, <2>2
  <2>4. QED
    BY <2>1, <2>3, WakeKept
<1>6. QED
  BY <1>1, <1>2, <1>3, <1>4, <1>5

(* The steps of the loop.                                                  *)
LEMMA WakeInLoop ==
  ASSUME TypeInv, LoopInv, WakeInv, NEW t \in Threads,
         \/ \E p \in Pools, h \in Holders, nb \in Modes : GetBuffer(t, p, h, nb)
         \/ GetSleep(t) \/ GetNoSleep(t) \/ GetWake(t) \/ GetTimeOut(t)
         \/ GetRelock(t) \/ GetAgain(t)
  PROVE  LoopInv' /\ WakeInv'
<1> USE PoolAssumption
    DEF TypeInv, PoolTypes, LocalTypes, PointInv, Goto, At, poolVars,
        bufferVars, locals
<1>1. UNCHANGED <<free, valid, buf>>
  BY DEF GetBuffer, GetSleep, GetNoSleep, GetWake, GetTimeOut, GetRelock,
         GetAgain
<1>2. \A u \in Threads \ {t} : pc'[u] = pc[u] /\ pool'[u] = pool[u]
  BY DEF GetBuffer, GetSleep, GetNoSleep, GetWake, GetTimeOut, GetRelock,
         GetAgain
<1>3. \A p \in Pools, u \in Threads \ {t} :
        poolLock[p] = u => poolLock'[p] = u
  BY DEF LoopInv, GetBuffer, GetSleep, GetNoSleep, GetWake, GetTimeOut,
         GetRelock, GetAgain
<1>4. \A u \in Threads : pc[u] \in LoopPoints => pool[u] \in Pools
  BY DEF LoopPoints
<1>5. /\ pc'[t] \in LoopPoints /\ pc'[t] # "test"
      /\ t \in Getters[pool'[t]]
      /\ pc'[t] \in {"again", "retry"} => poolLock'[pool'[t]] = t
      /\ pc'[t] = "wait" => free[pool'[t]] = << >>
  <2>1. CASE \E p \in Pools, h \in Holders, nb \in Modes : GetBuffer(t, p, h, nb)
    BY <2>1 DEF GetBuffer, LoopPoints
  <2>2. CASE GetSleep(t) \/ GetNoSleep(t)
    BY <2>2 DEF LoopInv, LoopPoints, GetSleep, GetNoSleep
  <2>3. CASE GetWake(t) \/ GetTimeOut(t) \/ GetRelock(t) \/ GetAgain(t)
    BY <2>3 DEF LoopInv, LoopPoints, GetWake, GetTimeOut, GetRelock, GetAgain
  <2>4. QED
    BY <2>1, <2>2, <2>3
<1>6. LoopInv'
  <2>1. \A u \in Threads \ {t} :
          /\ pc'[u] \in LoopPoints => u \in Getters[pool'[u]]
          /\ pc'[u] \in {"test", "again", "retry"} => poolLock'[pool'[u]] = u
          /\ pc'[u] = "test" /\ buf'[u] = None => free'[pool'[u]] = << >>
    BY <1>1, <1>2, <1>3, <1>4 DEF LoopInv, LoopPoints
  <2>2. QED
    BY <1>5, <2>1 DEF LoopInv
<1>7. WakeInv'
  BY <1>1, <1>2, <1>5 DEF WakeInv
<1>8. QED
  BY <1>6, <1>7

(* A getter resets the event and tries the ring in one section.            *)
LEMMA WakeExtract ==
  ASSUME TypeInv, LoopInv, WakeInv, NEW t \in Threads, GetExtract(t)
  PROVE  LoopInv' /\ WakeInv'
<1> USE PoolAssumption
    DEF TypeInv, PoolTypes, LocalTypes, PointInv, Goto, At, bufferVars
<1> DEFINE p == pool[t]
<1>1. /\ p \in Pools /\ t \in Getters[p]
      /\ poolLock[p] \in {t, None}
      /\ poolLock' = [poolLock EXCEPT ![p] = t]
      /\ valid' = [valid EXCEPT ![p] = FALSE]
      /\ pool' = pool /\ pc' = [pc EXCEPT ![t] = "test"]
  BY DEF GetExtract, LoopInv, LoopPoints
<1>2. /\ \A u \in Threads \ {t} : buf'[u] = buf[u]
      /\ \A q \in Pools \ {p} : free'[q] = free[q]
      /\ buf'[t] = None => free'[p] = << >>
  <2>1. CASE free[p] = << >> /\ UNCHANGED <<free, buf>>
    BY <2>1
  <2>2. CASE /\ free[p] # << >>
             /\ buf' = [buf EXCEPT ![t] = Head(free[p])]
             /\ free' = [free EXCEPT ![p] = Tail(free[p])]
    <3>1. Head(free[p]) \in Buffers
      BY <1>1, <2>2
    <3>2. QED
      BY <1>1, <2>2, <3>1
  <2>3. QED
    BY <2>1, <2>2 DEF GetExtract
<1> HIDE DEF p
<1>3. \A u \in Threads : pc[u] \in LoopPoints => pool[u] \in Pools
  BY DEF LoopPoints
<1>4. \A u \in Threads \ {t} :
        pc[u] \in {"test", "again", "retry"} => pool[u] # p
  BY <1>1 DEF LoopInv
<1>5. LoopInv'
  <2>1. /\ t \in Getters[pool'[t]] /\ poolLock'[pool'[t]] = t
        /\ buf'[t] = None => free'[pool'[t]] = << >>
    BY <1>1, <1>2 DEF p
  <2>2. \A u \in Threads \ {t} :
          /\ pc'[u] \in LoopPoints => u \in Getters[pool'[u]]
          /\ pc'[u] \in {"test", "again", "retry"} => poolLock'[pool'[u]] = u
          /\ pc'[u] = "test" /\ buf'[u] = None => free'[pool'[u]] = << >>
    BY <1>1, <1>2, <1>3, <1>4 DEF LoopInv, LoopPoints
  <2>3. QED
    BY <2>1, <2>2 DEF LoopInv
<1>6. WakeInv'
  <2> SUFFICES ASSUME NEW q \in Pools, NEW u \in Getters[q],
                      Getters[q] = {u}, pc'[u] = "wait", pool'[u] = q,
                      free'[q] # << >>
               PROVE  valid'[q]
    BY DEF WakeInv
  <2>1. u \in Threads \ {t}
    BY <1>1
  <2>2. q # p
    BY <1>1, <2>1
  <2>3. valid[q]
    BY <1>1, <1>2, <2>1, <2>2 DEF WakeInv
  <2>4. QED
    BY <1>1, <2>2, <2>3
<1>7. QED
  BY <1>5, <1>6

(* A buffer is put back under the lock, and the event is set.              *)
LEMMA WakeRelease ==
  ASSUME TypeInv, LoopInv, WakeInv, NEW t \in Threads, ReleaseFree(t)
  PROVE  LoopInv' /\ WakeInv'
<1> USE PoolAssumption
    DEF TypeInv, PoolTypes, LocalTypes, PointInv, Goto, At, bufferVars
<1> DEFINE p == PoolOf[buf[t]]
<1>1. /\ p \in Pools /\ poolLock[p] = None /\ poolLock' = poolLock
      /\ valid' = [valid EXCEPT ![p] = TRUE]
      /\ \A q \in Pools \ {p} : free'[q] = free[q]
  BY DEF ReleaseFree
<1>2. /\ pc'[t] \notin LoopPoints
      /\ \A u \in Threads \ {t} :
           pc'[u] = pc[u] /\ pool'[u] = pool[u] /\ buf'[u] = buf[u]
  <2> DEFINE callers == SubSeq(stack[t], 1, Len(stack[t]) - 1)
  <2>1. Resume(t, callers)
    BY DEF ReleaseFree
  <2> HIDE DEF callers
  <2>2. QED
    BY <2>1 DEF Resume, Return, LoopPoints
<1> HIDE DEF p
<1>3. \A u \in Threads : pc[u] \in LoopPoints => pool[u] \in Pools
  BY DEF LoopPoints
<1>4. \A u \in Threads :
        pc[u] \in {"test", "again", "retry"} => pool[u] # p
  BY <1>1 DEF LoopInv
<1>5. LoopInv'
  <2>1. ASSUME NEW u \in Threads \ {t}
        PROVE  /\ pc'[u] \in LoopPoints => u \in Getters[pool'[u]]
               /\ pc'[u] \in {"test", "again", "retry"} => poolLock'[pool'[u]] = u
               /\ pc'[u] = "test" /\ buf'[u] = None => free'[pool'[u]] = << >>
    <3>1. /\ pc'[u] = pc[u] /\ pool'[u] = pool[u] /\ buf'[u] = buf[u]
          /\ poolLock' = poolLock
          /\ pc[u] = "test" => /\ pool[u] \in Pools \ {p}
                               /\ free'[pool[u]] = free[pool[u]]
      BY <1>1, <1>2, <1>3, <1>4 DEF LoopPoints
    <3>2. QED
      BY <3>1 DEF LoopInv
  <2>2. QED
    BY <1>2, <2>1 DEF LoopInv, LoopPoints
<1>6. WakeInv'
  <2> SUFFICES ASSUME NEW q \in Pools, NEW u \in Getters[q],
                      Getters[q] = {u}, pc'[u] = "wait", pool'[u] = q,
                      free'[q] # << >>
               PROVE  valid'[q]
    BY DEF WakeInv
  <2>1. u \in Threads \ {t}
    BY <1>2 DEF LoopPoints
  <2>2. CASE q = p
    BY <1>1, <2>2
  <2>3. CASE q # p
    <3>1. valid[q]
      BY <1>1, <1>2, <2>1, <2>3 DEF WakeInv
    <3>2. QED
      BY <1>1, <2>3, <3>1
  <2>4. QED
    BY <2>2, <2>3
<1>7. QED
  BY <1>5, <1>6

LEMMA WakeNext ==
  TypeInv /\ LoopInv /\ WakeInv /\ [Next]_vars => LoopInv' /\ WakeInv'
<1> SUFFICES ASSUME TypeInv, LoopInv, WakeInv, [Next]_vars
             PROVE  LoopInv' /\ WakeInv'
  OBVIOUS
<1>1. CASE UNCHANGED vars
  BY <1>1 DEF vars, poolVars, locals, LoopInv, WakeInv
<1>2. ASSUME NEW t \in Threads, Start(t) PROVE LoopInv' /\ WakeInv'
  BY <1>2, WakeOutside, WakeInLoop
<1>3. ASSUME NEW t \in Threads, Step(t) PROVE LoopInv' /\ WakeInv'
  BY <1>3, WakeOutside, WakeInLoop, WakeExtract, WakeRelease
     DEF Step, GetStep, ReleaseStep
<1>4. QED
  BY <1>1, <1>2, <1>3 DEF Next

(* Lines 550-566 and 757-759: the event is reset before the ring is tried  *)
(* and set after a buffer is put back, both under the lock, so the only    *)
(* getter of a pool never sleeps on a ring that has a buffer for it,       *)
(* however many threads release buffers meanwhile.                         *)
THEOREM ReleasesWakeGetters == Spec => []ReleaseWakesGetter
<1>1. Init => LoopInv /\ WakeInv
  BY PoolAssumption DEF Init, LoopInv, LoopPoints, WakeInv
<1>2. WakeInv => ReleaseWakesGetter
  BY DEF WakeInv, ReleaseWakesGetter, At
<1>3. QED
  BY <1>1, <1>2, InitTypes, NextTypes, WakeNext, PTL DEF Spec
-----------------------------------------------------------------------------
(***************************************************************************)
(* The reference count of a buffer is the number of its references, and a  *)
(* buffer is in one situation at a time.                                   *)
(***************************************************************************)
(* One of the holders that the call of t uses refers to b.                 *)
Has(t, b) == \E h \in hand[t] : held[h] = b

(* What a thread has in hand at each point of a call.                      *)
ThreadInv(t) ==
  /\ pc[t] \in {"idle", "signal"} =>
       /\ buf[t] = None /\ outer[t] = None /\ dest[t] = NoPlace
       /\ hand[t] = {} /\ stack[t] = << >>
  /\ pc[t] \in {"lock", "wait", "relock", "again", "retry"} => buf[t] = None
  /\ pc[t] \in {"lock", "test", "wait", "relock", "again", "retry", "memory",
                "init"} =>
       /\ outer[t] = None /\ stack[t] = << >>
       /\ \E h \in Holders : /\ hand[t] = {h} /\ held[h] = None
                             /\ dest[t] = Client(h)
  /\ pc[t] = "count" =>
       /\ stack[t] = << >>
       /\ \E h \in Holders : dest[t] = Client(h)
  /\ pc[t] \in {"incPool", "inc"} =>
       /\ stack[t] = << >> /\ Has(t, buf[t])
       /\ \/ \E h \in hand[t] : dest[t] = Client(h) /\ held[h] = None
          \/ /\ outer[t] \in Buffers /\ Has(t, outer[t])
             /\ \E s \in Slots : /\ dest[t] = Attachment(outer[t], s)
                                 /\ attached[outer[t]][s] = buf[t]
  /\ pc[t] = "attach" =>
       /\ stack[t] = << >> /\ dest[t] = NoPlace
       /\ Has(t, buf[t]) /\ Has(t, outer[t])
  /\ pc[t] = "detach" =>
       stack[t] = << >> /\ dest[t] = NoPlace /\ Has(t, outer[t])
  /\ pc[t] \in {"decPool", "dec", "after"} => dest[t] = NoPlace
  /\ pc[t] \in {"attachments", "free"} =>
       /\ dest[t] = NoPlace /\ stack[t] # << >>
       /\ buf[t] = stack[t][Len(stack[t])]

ThreadsInv == \A t \in Threads : ThreadInv(t)

(* Threads keep out of each other's way.                                   *)
HandInv == \A t, u \in Threads : t # u => hand[t] \cap hand[u] = {}

DetachInv ==
  \A t, u \in Threads :
    pc[t] = "detach" /\ pc[u] \in {"attach", "incPool", "inc"} =>
      ~(outer[t] = outer[u] /\ buf[t] = buf[u])

DestInv ==
  \A t, u \in Threads, o \in Buffers, s \in Slots :
    dest[t] = Attachment(o, s) /\ dest[u] = Attachment(o, s) => t = u

PairInv == HandInv /\ DetachInv /\ DestInv

(* A buffer is in one of five situations, and in that once.                *)
AtMostOne(S) == \A x, y \in S : x = y

Situation(b) ==
  /\ Releases(b) # {} =>
       Acquirers(b) = {} /\ RingSlots(b) = {} /\ b \notin lost /\ refCount[b] = 0
  /\ Acquirers(b) # {} =>
       RingSlots(b) = {} /\ b \notin lost /\ refCount[b] = 0
  /\ RingSlots(b) # {} => b \notin lost /\ refCount[b] = 0
  /\ b \in lost => refCount[b] = 0
  /\ \/ Releases(b) # {} \/ Acquirers(b) # {} \/ RingSlots(b) # {}
     \/ b \in lost \/ refCount[b] # 0
  /\ AtMostOne(Releases(b)) /\ AtMostOne(Acquirers(b))
  /\ AtMostOne(RingSlots(b))

SituationInv == \A b \in Buffers : Situation(b)

(* Only a buffer that is referenced, or whose attachments are just being   *)
(* detached, has attachments.                                              *)
NoAttachments(b) == \A s \in Slots : attached[b][s] = None

Freeing(b) == \E t \in Threads : At(t, "free") /\ buf[t] = b

AttachedInv ==
  \A b \in Buffers :
    \/ NoAttachments(b)
    \/ refCount[b] # 0
    \/ Releases(b) # {} /\ ~Freeing(b)

Counted(b) ==
  IsFiniteSet(References(b)) /\ refCount[b] = Cardinality(References(b))

CountInv == \A b \in Buffers : Counted(b)

(* A buffer goes back to its own pool.                                     *)
HomeInv ==
  \A p \in Pools : \A k \in 1 .. Len(free[p]) : PoolOf[free[p][k]] = p

PoolInv ==
  /\ TypeInv /\ ThreadsInv /\ PairInv /\ SituationInv /\ AttachedInv
  /\ CountInv /\ HomeInv

-----------------------------------------------------------------------------
(* The three kinds of places are different, and so are places of a kind.   *)
LEMMA PlacesDiffer ==
  /\ \A h, g : Client(h) = Client(g) => h = g
  /\ \A o, s, p, r : Attachment(o, s) = Attachment(p, r) => o = p /\ s = r
  /\ \A t, u : Call(t) = Call(u) => t = u
  /\ \A h, o, s : Client(h) # Attachment(o, s)
  /\ \A h, t : Client(h) # Call(t)
  /\ \A o, s, t : Attachment(o, s) # Call(t)
  /\ \A h : Client(h) # NoPlace
  /\ \A o, s : Attachment(o, s) # NoPlace
BY DEF Client, Attachment, Call, NoPlace

-----------------------------------------------------------------------------
(* A step of t leaves the locals of the other threads alone.               *)
OthersSame(t) ==
  \A u \in Threads \ {t} :
    /\ pc'[u] = pc[u] /\ buf'[u] = buf[u] /\ outer'[u] = outer[u]
    /\ after'[u] = after[u] /\ dest'[u] = dest[u] /\ hand'[u] = hand[u]
    /\ stack'[u] = stack[u]

(* The ways in which t alone decides about b.                              *)
Calling(t, b)   == pc[t] \in {"decPool", "dec"} /\ buf[t] = b
Acquiring(t, b) == pc[t] \in {"test", "memory", "init"} /\ buf[t] = b
Last(t, b)      == At(t, "after") /\ after[t] = 0 /\ buf[t] = b

(* Slot s of o keeps a counted reference to b.                             *)
Attaching(o, s, b) == attached[o][s] = b /\ ~Pending(o, s)

(* What it is to be in the four sets, before a step and after it.          *)
LEMMA InReleases ==
  ASSUME NEW b, NEW x
  PROVE  x \in Releases(b) <=>
           \E u \in Threads : \/ x = <<u, 0>> /\ Last(u, b)
                              \/ \E k \in 1 .. Len(stack[u]) :
                                   stack[u][k] = b /\ x = <<u, k>>
BY DEF Releases, Last

LEMMA InReleasesNext ==
  ASSUME NEW b, NEW x
  PROVE  x \in Releases(b)' <=>
           \E u \in Threads : \/ x = <<u, 0>> /\ Last(u, b)'
                              \/ \E k \in 1 .. Len(stack'[u]) :
                                   stack'[u][k] = b /\ x = <<u, k>>
BY DEF Releases, Last

LEMMA InAcquirers ==
  ASSUME NEW b, NEW u
  PROVE  u \in Acquirers(b) <=> u \in Threads /\ Acquiring(u, b)
BY DEF Acquirers, Acquiring

LEMMA InRingSlots ==
  ASSUME NEW b, NEW x
  PROVE  x \in RingSlots(b) <=>
           \E p \in Pools : \E k \in 1 .. Len(free[p]) :
             free[p][k] = b /\ x = <<p, k>>
BY DEF RingSlots

LEMMA InRingSlotsNext ==
  ASSUME NEW b, NEW x
  PROVE  x \in RingSlots(b)' <=>
           \E p \in Pools : \E k \in 1 .. Len(free'[p]) :
             free'[p][k] = b /\ x = <<p, k>>
BY DEF RingSlots

(* What t leaves alone leaves the sets as they were.                       *)
LEMMA SameReleases ==
  ASSUME NEW t \in Threads, NEW b, OthersSame(t), stack'[t] = stack[t],
         Last(t, b)' <=> Last(t, b)
  PROVE  Releases(b)' = Releases(b)
<1>1. \A u \in Threads : stack'[u] = stack[u] /\ (Last(u, b)' <=> Last(u, b))
  BY DEF OthersSame, Last, At
<1>2. {u \in Threads : At(u, "after") /\ after[u] = 0 /\ buf[u] = b}'
        = {u \in Threads : At(u, "after") /\ after[u] = 0 /\ buf[u] = b}
  BY <1>1 DEF Last
<1>3. \A u \in Threads :
        {j \in 1 .. Len(stack'[u]) : stack'[u][j] = b}
          = {j \in 1 .. Len(stack[u]) : stack[u][j] = b}
  BY <1>1
<1>4. \A x : x \in Releases(b)' <=> x \in Releases(b)
  BY <1>1, <1>2, <1>3 DEF Releases
<1>5. QED
  BY <1>4

LEMMA SameAcquirers ==
  ASSUME NEW t \in Threads, NEW b, OthersSame(t),
         Acquiring(t, b)' <=> Acquiring(t, b)
  PROVE  Acquirers(b)' = Acquirers(b)
<1>1. \A u \in Threads : Acquiring(u, b)' <=> Acquiring(u, b)
  BY DEF OthersSame, Acquiring
<1>2. QED
  BY <1>1 DEF Acquirers, Acquiring

LEMMA SameRingSlots ==
  ASSUME NEW b, free' = free
  PROVE  RingSlots(b)' = RingSlots(b)
BY DEF RingSlots

(* The references, by the kind of place they are in.                       *)
LEMMA InReferences ==
  ASSUME NEW b, NEW x
  PROVE  x \in References(b) <=>
           \/ \E h \in Holders : held[h] = b /\ x = Client(h)
           \/ \E o \in Buffers, s \in Slots :
                Attaching(o, s, b) /\ x = Attachment(o, s)
           \/ \E u \in Threads : Calling(u, b) /\ x = Call(u)
<1>1. \A y \in Buffers \X Slots : y[1] \in Buffers /\ y[2] \in Slots
  OBVIOUS
<1>2. \A o \in Buffers, s \in Slots :
        /\ <<o, s>> \in Buffers \X Slots
        /\ <<o, s>>[1] = o /\ <<o, s>>[2] = s
  OBVIOUS
<1> DEFINE A == {Attachment(y[1], y[2]) : y \in
                 {z \in Buffers \X Slots : /\ attached[z[1]][z[2]] = b
                                          /\ ~Pending(z[1], z[2])}}
<1>3. x \in A <=> \E o \in Buffers, s \in Slots :
                   Attaching(o, s, b) /\ x = Attachment(o, s)
  <2>1. ASSUME x \in A
        PROVE  \E o \in Buffers, s \in Slots :
                 Attaching(o, s, b) /\ x = Attachment(o, s)
    <3>1. PICK y \in Buffers \X Slots :
              /\ attached[y[1]][y[2]] = b /\ ~Pending(y[1], y[2])
              /\ x = Attachment(y[1], y[2])
      BY <2>1
    <3>2. QED
      BY <1>1, <3>1 DEF Attaching
  <2>2. ASSUME NEW o \in Buffers, NEW s \in Slots,
               Attaching(o, s, b), x = Attachment(o, s)
        PROVE  x \in A
    BY <1>2, <2>2 DEF Attaching
  <2>3. QED
    BY <2>1, <2>2
<1>4. QED
  BY <1>3 DEF References, Calling

(* The references after a step: those in X are given up, those in Y new.   *)
LEMMA MoveReferences ==
  ASSUME NEW b, NEW X, NEW Y,
         \A y \in Y : \/ \E h \in Holders : y = Client(h)
                      \/ \E o \in Buffers, s \in Slots : y = Attachment(o, s)
                      \/ \E u \in Threads : y = Call(u),
         \A h \in Holders : held'[h] = b <=>
           (held[h] = b /\ Client(h) \notin X) \/ Client(h) \in Y,
         \A o \in Buffers, s \in Slots : Attaching(o, s, b)' <=>
           (Attaching(o, s, b) /\ Attachment(o, s) \notin X)
           \/ Attachment(o, s) \in Y,
         \A u \in Threads : Calling(u, b)' <=>
           (Calling(u, b) /\ Call(u) \notin X) \/ Call(u) \in Y
  PROVE  References(b)' = (References(b) \ X) \cup Y
<1>1. ASSUME NEW x
      PROVE  x \in References(b)' <=>
               \/ \E h \in Holders : held'[h] = b /\ x = Client(h)
               \/ \E o \in Buffers, s \in Slots :
                    Attaching(o, s, b)' /\ x = Attachment(o, s)
               \/ \E u \in Threads : Calling(u, b)' /\ x = Call(u)
  <2>1. \A y \in Buffers \X Slots : y[1] \in Buffers /\ y[2] \in Slots
    OBVIOUS
  <2>2. \A o \in Buffers, s \in Slots :
          /\ <<o, s>> \in Buffers \X Slots
          /\ <<o, s>>[1] = o /\ <<o, s>>[2] = s
    OBVIOUS
  <2> DEFINE A == {Attachment(y[1], y[2]) : y \in
                   {z \in Buffers \X Slots : /\ attached'[z[1]][z[2]] = b
                                            /\ ~Pending(z[1], z[2])'}}
  <2>3. x \in A <=> \E o \in Buffers, s \in Slots :
                     Attaching(o, s, b)' /\ x = Attachment(o, s)
    <3>1. ASSUME x \in A
          PROVE  \E o \in Buffers, s \in Slots :
                   Attaching(o, s, b)' /\ x = Attachment(o, s)
      <4>1. PICK y \in Buffers \X Slots :
                /\ attached'[y[1]][y[2]] = b /\ ~Pending(y[1], y[2])'
                /\ x = Attachment(y[1], y[2])
        BY <3>1
      <4>2. QED
        BY <2>1, <4>1 DEF Attaching
    <3>2. ASSUME NEW o \in Buffers, NEW s \in Slots,
                 Attaching(o, s, b)', x = Attachment(o, s)
          PROVE  x \in A
      BY <2>2, <3>2 DEF Attaching
    <3>3. QED
      BY <3>1, <3>2
  <2>4. QED
    BY <2>3 DEF References, Calling
<1>2. ASSUME NEW x
      PROVE  x \in References(b)' <=> x \in (References(b) \ X) \cup Y
  BY <1>1, InReferences
<1>3. QED
  BY <1>2

(* A step of t that moves no reference.                                    *)
LEMMA SameReferences ==
  ASSUME NEW t \in Threads, NEW b, OthersSame(t),
         held' = held, attached' = attached,
         Calling(t, b)' <=> Calling(t, b),
         \A o \in Buffers, s \in Slots :
           dest'[t] = Attachment(o, s) <=> dest[t] = Attachment(o, s)
  PROVE  References(b)' = References(b)
<1>1. \A o \in Buffers, s \in Slots :
        Attaching(o, s, b)' <=> Attaching(o, s, b)
  BY DEF Attaching, Pending, OthersSame
<1>2. \A u \in Threads : Calling(u, b)' <=> Calling(u, b)
  BY DEF Calling, OthersSame
<1>3. References(b)' = (References(b) \ {}) \cup {}
  BY <1>1, <1>2, MoveReferences
<1>4. QED
  BY <1>3

-----------------------------------------------------------------------------
(* What is left alone by a step keeps its invariant.                       *)
LEMMA QuietStep ==
  ASSUME PoolInv, NEW t \in Threads, OthersSame(t),
         UNCHANGED <<held, attached, refCount, lost, free>>,
         stack'[t] = stack[t], pc'[t] # "free",
         \A b \in Buffers : /\ Calling(t, b)' <=> Calling(t, b)
                            /\ Acquiring(t, b)' <=> Acquiring(t, b)
                            /\ Last(t, b)' <=> Last(t, b),
         \A o \in Buffers, s \in Slots :
           dest'[t] = Attachment(o, s) <=> dest[t] = Attachment(o, s)
  PROVE  SituationInv' /\ AttachedInv' /\ CountInv'
<1>1. ASSUME NEW b \in Buffers
      PROVE  /\ Releases(b)' = Releases(b) /\ Acquirers(b)' = Acquirers(b)
             /\ RingSlots(b)' = RingSlots(b) /\ References(b)' = References(b)
  BY SameReleases, SameAcquirers, SameRingSlots, SameReferences
<1>2. SituationInv'
  BY <1>1 DEF PoolInv, SituationInv, Situation, AtMostOne
<1>3. CountInv'
  BY <1>1 DEF PoolInv, CountInv, Counted
<1>4. \A b \in Buffers : Freeing(b)' => Freeing(b)
  BY DEF Freeing, OthersSame, At
<1>5. AttachedInv'
  BY <1>1, <1>4 DEF PoolInv, AttachedInv, NoAttachments
<1>6. QED
  BY <1>2, <1>3, <1>5

(* The other threads keep what they have in hand.                          *)
LEMMA ThreadsKeep ==
  ASSUME ThreadsInv, NEW t \in Threads, OthersSame(t), ThreadInv(t)',
         \A u \in Threads \ {t} : \A h \in hand[u] : held'[h] = held[h],
         \A u \in Threads \ {t}, o \in Buffers, s \in Slots :
           dest[u] = Attachment(o, s) => attached'[o][s] = attached[o][s]
  PROVE  ThreadsInv'
<1> SUFFICES ASSUME NEW u \in Threads \ {t} PROVE ThreadInv(u)'
  BY DEF ThreadsInv
<1>1. /\ pc'[u] = pc[u] /\ buf'[u] = buf[u] /\ outer'[u] = outer[u]
      /\ after'[u] = after[u] /\ dest'[u] = dest[u] /\ hand'[u] = hand[u]
      /\ stack'[u] = stack[u]
  BY DEF OthersSame
<1>2. \A b : Has(u, b)' <=> Has(u, b)
  BY <1>1 DEF Has
<1>3. ThreadInv(u)
  BY DEF ThreadsInv
<1>4. QED
  BY <1>1, <1>2, <1>3 DEF ThreadInv

(* The others stay out of t's way if t stays out of theirs.                *)
LEMMA PairKeep ==
  ASSUME PairInv, NEW t \in Threads, OthersSame(t),
         \A u \in Threads \ {t} : hand'[t] \cap hand[u] = {},
         \A u \in Threads \ {t} :
           /\ pc'[t] = "detach" /\ pc[u] \in {"attach", "incPool", "inc"} =>
                ~(outer'[t] = outer[u] /\ buf'[t] = buf[u])
           /\ pc[u] = "detach" /\ pc'[t] \in {"attach", "incPool", "inc"} =>
                ~(outer[u] = outer'[t] /\ buf[u] = buf'[t]),
         \A u \in Threads \ {t}, o \in Buffers, s \in Slots :
           ~(dest'[t] = Attachment(o, s) /\ dest[u] = Attachment(o, s))
  PROVE  PairInv'
<1>1. HandInv'
  BY DEF PairInv, HandInv, OthersSame
<1>2. DetachInv'
  BY DEF PairInv, DetachInv, OthersSame
<1>3. DestInv'
  BY DEF PairInv, DestInv, OthersSame
<1>4. QED
  BY <1>1, <1>2, <1>3 DEF PairInv

(* A thread that begins nothing new keeps out of the others' way.          *)
LEMMA PairQuiet ==
  ASSUME PairInv, NEW t \in Threads, OthersSame(t),
         hand'[t] \subseteq hand[t],
         pc'[t] = "detach" => FALSE,
         pc'[t] \in {"attach", "incPool", "inc"} =>
           /\ pc[t] \in {"attach", "incPool", "inc"}
           /\ outer'[t] = outer[t] /\ buf'[t] = buf[t],
         \A o \in Buffers, s \in Slots :
           dest'[t] = Attachment(o, s) => dest[t] = Attachment(o, s)
  PROVE  PairInv'
<1>1. \A u \in Threads \ {t} : hand'[t] \cap hand[u] = {}
  BY DEF PairInv, HandInv
<1>2. \A u \in Threads \ {t} :
        pc[u] = "detach" /\ pc'[t] \in {"attach", "incPool", "inc"} =>
          ~(outer[u] = outer'[t] /\ buf[u] = buf'[t])
  BY DEF PairInv, DetachInv
<1>3. \A u \in Threads \ {t}, o \in Buffers, s \in Slots :
        ~(dest'[t] = Attachment(o, s) /\ dest[u] = Attachment(o, s))
  BY DEF PairInv, DestInv
<1>4. QED
  BY <1>1, <1>2, <1>3, PairKeep

(* The part of the invariant about t.                                      *)
LEMMA ThreadOf ==
  ASSUME PoolInv, NEW t \in Threads PROVE ThreadInv(t)
BY DEF PoolInv, ThreadsInv

(* A step that moves neither references nor buffers.                       *)
LEMMA QuietAction ==
  ASSUME PoolInv, TypeInv', NEW t \in Threads, OthersSame(t),
         UNCHANGED <<held, attached, refCount, lost, free>>,
         stack'[t] = stack[t], pc'[t] # "free",
         \A b \in Buffers : /\ Calling(t, b)' <=> Calling(t, b)
                            /\ Acquiring(t, b)' <=> Acquiring(t, b)
                            /\ Last(t, b)' <=> Last(t, b),
         \A o \in Buffers, s \in Slots :
           dest'[t] = Attachment(o, s) <=> dest[t] = Attachment(o, s),
         ThreadInv(t)', PairInv'
  PROVE  PoolInv'
<1>1. SituationInv' /\ AttachedInv' /\ CountInv'
  BY QuietStep
<1>2. ThreadsInv'
  BY ThreadsKeep DEF PoolInv
<1>3. HomeInv'
  BY DEF PoolInv, HomeInv
<1>4. QED
  BY <1>1, <1>2, <1>3 DEF PoolInv

-----------------------------------------------------------------------------
(* The steps that change neither references nor situations.                *)
Quiet(t) ==
  \/ GetGot(t) \/ GetSleep(t) \/ GetNoSleep(t) \/ GetWake(t)
  \/ GetTimeOut(t) \/ GetRelock(t) \/ GetAgain(t) \/ GetNoFreeBuffer(t)
  \/ GetMemory(t) \/ GetCount(t) \/ AbortSignal(t) \/ IncrementPool(t)
  \/ AttachTooMany(t) \/ DetachNotFound(t) \/ DecrementPool(t)

(* They keep the invariant.                                                *)
LEMMA QuietInv ==
  ASSUME PoolInv, TypeInv', NEW t \in Threads, Quiet(t)
  PROVE  PoolInv'
<1> USE PoolAssumption
    DEF Quiet, PoolInv, TypeInv, LocalTypes, Goto, Return, At, poolVars,
        bufferVars, locals
<1>1. /\ OthersSame(t) /\ stack'[t] = stack[t] /\ pc'[t] # "free"
      /\ UNCHANGED <<held, attached, refCount, lost, free>>
  BY DEF GetGot, GetSleep, GetNoSleep, GetWake, GetTimeOut, GetRelock,
         GetAgain, GetNoFreeBuffer, GetMemory, GetCount, AbortSignal,
         IncrementPool, AttachTooMany, DetachNotFound, DecrementPool,
         OthersSame
<1>2. ThreadInv(t)
  BY ThreadOf
<1>3. \A b \in Buffers : /\ Calling(t, b)' <=> Calling(t, b)
                         /\ Acquiring(t, b)' <=> Acquiring(t, b)
                         /\ Last(t, b)' <=> Last(t, b)
  BY <1>2 DEF GetGot, GetSleep, GetNoSleep, GetWake, GetTimeOut, GetRelock,
         GetAgain, GetNoFreeBuffer, GetMemory, GetCount, AbortSignal,
         IncrementPool, AttachTooMany, DetachNotFound, DecrementPool,
         ThreadInv, Calling, Acquiring, Last
<1>4. \A o \in Buffers, s \in Slots :
        dest'[t] = Attachment(o, s) <=> dest[t] = Attachment(o, s)
  BY <1>2, PlacesDiffer DEF GetGot, GetSleep, GetNoSleep, GetWake, GetTimeOut,
         GetRelock, GetAgain, GetNoFreeBuffer, GetMemory, GetCount,
         AbortSignal, IncrementPool, AttachTooMany, DetachNotFound,
         DecrementPool, ThreadInv
<1>5. ThreadInv(t)'
  <2>1. CASE GetGot(t)
    BY <1>2, <2>1 DEF GetGot, ThreadInv, Has
  <2>2. CASE GetMemory(t)
    BY <1>2, <2>2 DEF GetMemory, ThreadInv, Has
  <2>3. CASE GetSleep(t)
    BY <1>2, <2>3 DEF GetSleep, ThreadInv, Has
  <2>4. CASE GetNoSleep(t)
    BY <1>2, <2>4 DEF GetNoSleep, ThreadInv, Has
  <2>5. CASE GetAgain(t)
    BY <1>2, <2>5 DEF GetAgain, ThreadInv, Has
  <2>6. CASE GetWake(t)
    BY <1>2, <2>6 DEF GetWake, ThreadInv, Has
  <2>7. CASE GetTimeOut(t)
    BY <1>2, <2>7 DEF GetTimeOut, ThreadInv, Has
  <2>8. CASE GetRelock(t)
    BY <1>2, <2>8 DEF GetRelock, ThreadInv, Has
  <2>9. CASE GetNoFreeBuffer(t) \/ GetCount(t) \/ AbortSignal(t) \/
           AttachTooMany(t) \/ DetachNotFound(t)
    BY <1>2, <2>9 DEF GetNoFreeBuffer, GetCount, AbortSignal, AttachTooMany,
           DetachNotFound, ThreadInv, Has
  <2>10. CASE IncrementPool(t) \/ DecrementPool(t)
    BY <1>2, <2>10 DEF IncrementPool, DecrementPool, ThreadInv, Has
  <2>11. QED
    BY <2>1, <2>2, <2>3, <2>4, <2>5, <2>6, <2>7, <2>8, <2>9, <2>10
<1>6. /\ hand'[t] \subseteq hand[t] /\ pc'[t] # "detach"
      /\ pc'[t] \in {"attach", "incPool", "inc"} =>
           /\ pc[t] \in {"attach", "incPool", "inc"}
           /\ outer'[t] = outer[t] /\ buf'[t] = buf[t]
  <2>1. CASE GetGot(t) \/ GetSleep(t) \/ GetNoSleep(t) \/ GetWake(t) \/
           GetTimeOut(t) \/ GetRelock(t) \/ GetAgain(t) \/ GetMemory(t)
    BY <2>1 DEF GetGot, GetSleep, GetNoSleep, GetWake, GetTimeOut, GetRelock,
           GetAgain, GetMemory
  <2>2. CASE GetNoFreeBuffer(t) \/ GetCount(t) \/ AbortSignal(t) \/
           AttachTooMany(t) \/ DetachNotFound(t)
    BY <2>2 DEF GetNoFreeBuffer, GetCount, AbortSignal, AttachTooMany,
           DetachNotFound
  <2>3. CASE IncrementPool(t) \/ DecrementPool(t)
    BY <2>3 DEF IncrementPool, DecrementPool
  <2>4. QED
    BY <2>1, <2>2, <2>3
<1>7. PairInv'
  BY <1>1, <1>4, <1>6, PairQuiet
<1>8. QED
  BY <1>1, <1>3, <1>4, <1>5, <1>7, QuietAction

-----------------------------------------------------------------------------
(* A client begins a call.                                                 *)
LEMMA BeginInv ==
  ASSUME PoolInv, TypeInv', NEW t \in Threads, OthersSame(t),
         UNCHANGED <<held, attached, refCount, lost, free>>,
         stack'[t] = stack[t], At(t, "idle"),
         pc'[t] \in {"lock", "signal", "incPool", "attach", "detach"},
         ThreadInv(t)',
         \A o \in Buffers, s \in Slots : dest'[t] # Attachment(o, s),
         \A h \in hand'[t] : ~InUse(h),
         \A u \in Threads \ {t} :
           /\ pc'[t] = "detach" /\ pc[u] \in {"attach", "incPool", "inc"} =>
                ~(outer'[t] = outer[u] /\ buf'[t] = buf[u])
           /\ pc[u] = "detach" /\ pc'[t] \in {"attach", "incPool", "inc"} =>
                ~(outer[u] = outer'[t] /\ buf[u] = buf'[t])
  PROVE  PoolInv'
<1>1. ThreadInv(t) /\ pc[t] = "idle"
  BY ThreadOf DEF At
<1>2. \A c \in Buffers : /\ Calling(t, c)' <=> Calling(t, c)
                         /\ Acquiring(t, c)' <=> Acquiring(t, c)
                         /\ Last(t, c)' <=> Last(t, c)
  BY <1>1 DEF Calling, Acquiring, Last, At
<1>3. \A o \in Buffers, s \in Slots : dest[t] # Attachment(o, s)
  BY <1>1, PlacesDiffer DEF ThreadInv
<1>4. \A u \in Threads \ {t} : hand'[t] \cap hand[u] = {}
  BY DEF InUse
<1>5. PairInv'
  BY <1>4, PairKeep DEF PoolInv
<1>6. QED
  BY <1>2, <1>3, <1>5, QuietAction

(* The five calls that begin without moving a reference.                   *)
LEMMA AbortBlockingGetBufferInv ==
  ASSUME PoolInv, TypeInv', NEW t \in Threads,
         NEW p \in Pools,
         AbortBlockingGetBuffer(t, p)
  PROVE  PoolInv'
<1> USE PoolAssumption
    DEF AbortBlockingGetBuffer, PoolInv, TypeInv, LocalTypes, Goto, At, poolVars,
        bufferVars
<1>1. /\ OthersSame(t) /\ stack'[t] = stack[t] /\ pc[t] = "idle"
      /\ pc'[t] \in {"lock", "signal", "incPool", "attach", "detach"}
      /\ UNCHANGED <<held, attached, refCount, lost, free>>
  BY DEF OthersSame
<1>2. ThreadInv(t)
  BY ThreadOf
<1>3. ThreadInv(t)'
  BY <1>2 DEF ThreadInv, Has, Vacant, Holds
<1>4. \A o \in Buffers, s \in Slots : dest'[t] # Attachment(o, s)
  BY <1>2, PlacesDiffer DEF ThreadInv
<1>5. \A c \in hand'[t] : ~InUse(c)
  BY <1>2 DEF ThreadInv, Vacant, Holds
<1>6. \A u \in Threads \ {t} :
        /\ pc'[t] = "detach" /\ pc[u] \in {"attach", "incPool", "inc"} =>
             ~(outer'[t] = outer[u] /\ buf'[t] = buf[u])
        /\ pc[u] = "detach" /\ pc'[t] \in {"attach", "incPool", "inc"} =>
             ~(outer[u] = outer'[t] /\ buf[u] = buf'[t])
  BY <1>2 DEF ThreadInv, PointInv, Changing
<1>7. QED
  BY <1>1, <1>3, <1>4, <1>5, <1>6, BeginInv

LEMMA GetBufferInv ==
  ASSUME PoolInv, TypeInv', NEW t \in Threads,
         NEW p \in Pools, NEW h \in Holders, NEW nb \in Modes,
         GetBuffer(t, p, h, nb)
  PROVE  PoolInv'
<1> USE PoolAssumption
    DEF GetBuffer, PoolInv, TypeInv, LocalTypes, Goto, At, poolVars,
        bufferVars
<1>1. /\ OthersSame(t) /\ stack'[t] = stack[t] /\ pc[t] = "idle"
      /\ pc'[t] \in {"lock", "signal", "incPool", "attach", "detach"}
      /\ UNCHANGED <<held, attached, refCount, lost, free>>
  BY DEF OthersSame
<1>2. ThreadInv(t)
  BY ThreadOf
<1>3. ThreadInv(t)'
  BY <1>2 DEF ThreadInv, Has, Vacant, Holds
<1>4. \A o \in Buffers, s \in Slots : dest'[t] # Attachment(o, s)
  BY <1>2, PlacesDiffer DEF ThreadInv
<1>5. \A c \in hand'[t] : ~InUse(c)
  BY <1>2 DEF ThreadInv, Vacant, Holds
<1>6. \A u \in Threads \ {t} :
        /\ pc'[t] = "detach" /\ pc[u] \in {"attach", "incPool", "inc"} =>
             ~(outer'[t] = outer[u] /\ buf'[t] = buf[u])
        /\ pc[u] = "detach" /\ pc'[t] \in {"attach", "incPool", "inc"} =>
             ~(outer[u] = outer'[t] /\ buf[u] = buf'[t])
  BY <1>2 DEF ThreadInv, PointInv, Changing
<1>7. QED
  BY <1>1, <1>3, <1>4, <1>5, <1>6, BeginInv

LEMMA IncrementReferenceCountInv ==
  ASSUME PoolInv, TypeInv', NEW t \in Threads,
         NEW h \in Holders, NEW g \in Holders,
         IncrementReferenceCount(t, h, g)
  PROVE  PoolInv'
<1> USE PoolAssumption
    DEF IncrementReferenceCount, PoolInv, TypeInv, LocalTypes, Goto, At, poolVars,
        bufferVars
<1>1. /\ OthersSame(t) /\ stack'[t] = stack[t] /\ pc[t] = "idle"
      /\ pc'[t] \in {"lock", "signal", "incPool", "attach", "detach"}
      /\ UNCHANGED <<held, attached, refCount, lost, free>>
  BY DEF OthersSame
<1>2. ThreadInv(t)
  BY ThreadOf
<1>3. ThreadInv(t)'
  BY <1>2 DEF ThreadInv, Has, Vacant, Holds
<1>4. \A o \in Buffers, s \in Slots : dest'[t] # Attachment(o, s)
  BY <1>2, PlacesDiffer DEF ThreadInv
<1>5. \A c \in hand'[t] : ~InUse(c)
  BY <1>2 DEF ThreadInv, Vacant, Holds
<1>6. \A u \in Threads \ {t} :
        /\ pc'[t] = "detach" /\ pc[u] \in {"attach", "incPool", "inc"} =>
             ~(outer'[t] = outer[u] /\ buf'[t] = buf[u])
        /\ pc[u] = "detach" /\ pc'[t] \in {"attach", "incPool", "inc"} =>
             ~(outer[u] = outer'[t] /\ buf[u] = buf'[t])
  BY <1>2 DEF ThreadInv, PointInv, Changing
<1>7. QED
  BY <1>1, <1>3, <1>4, <1>5, <1>6, BeginInv

LEMMA AttachBufferInv ==
  ASSUME PoolInv, TypeInv', NEW t \in Threads,
         NEW h \in Holders, NEW g \in Holders,
         AttachBuffer(t, h, g)
  PROVE  PoolInv'
<1> USE PoolAssumption
    DEF AttachBuffer, PoolInv, TypeInv, LocalTypes, Goto, At, poolVars,
        bufferVars
<1>1. /\ OthersSame(t) /\ stack'[t] = stack[t] /\ pc[t] = "idle"
      /\ pc'[t] \in {"lock", "signal", "incPool", "attach", "detach"}
      /\ UNCHANGED <<held, attached, refCount, lost, free>>
  BY DEF OthersSame
<1>2. ThreadInv(t)
  BY ThreadOf
<1>3. ThreadInv(t)'
  BY <1>2 DEF ThreadInv, Has, Vacant, Holds
<1>4. \A o \in Buffers, s \in Slots : dest'[t] # Attachment(o, s)
  BY <1>2, PlacesDiffer DEF ThreadInv
<1>5. \A c \in hand'[t] : ~InUse(c)
  BY <1>2 DEF ThreadInv, Vacant, Holds
<1>6. \A u \in Threads \ {t} :
        /\ pc'[t] = "detach" /\ pc[u] \in {"attach", "incPool", "inc"} =>
             ~(outer'[t] = outer[u] /\ buf'[t] = buf[u])
        /\ pc[u] = "detach" /\ pc'[t] \in {"attach", "incPool", "inc"} =>
             ~(outer[u] = outer'[t] /\ buf[u] = buf'[t])
  BY <1>2 DEF ThreadInv, PointInv, Changing
<1>7. QED
  BY <1>1, <1>3, <1>4, <1>5, <1>6, BeginInv

LEMMA DetachBufferInv ==
  ASSUME PoolInv, TypeInv', NEW t \in Threads,
         NEW h \in Holders, NEW b \in Buffers,
         DetachBuffer(t, h, b)
  PROVE  PoolInv'
<1> USE PoolAssumption
    DEF DetachBuffer, PoolInv, TypeInv, LocalTypes, Goto, At, poolVars,
        bufferVars
<1>1. /\ OthersSame(t) /\ stack'[t] = stack[t] /\ pc[t] = "idle"
      /\ pc'[t] \in {"lock", "signal", "incPool", "attach", "detach"}
      /\ UNCHANGED <<held, attached, refCount, lost, free>>
  BY DEF OthersSame
<1>2. ThreadInv(t)
  BY ThreadOf
<1>3. ThreadInv(t)'
  BY <1>2 DEF ThreadInv, Has, Vacant, Holds
<1>4. \A o \in Buffers, s \in Slots : dest'[t] # Attachment(o, s)
  BY <1>2, PlacesDiffer DEF ThreadInv
<1>5. \A c \in hand'[t] : ~InUse(c)
  BY <1>2 DEF ThreadInv, Vacant, Holds
<1>6. \A u \in Threads \ {t} :
        /\ pc'[t] = "detach" /\ pc[u] \in {"attach", "incPool", "inc"} =>
             ~(outer'[t] = outer[u] /\ buf'[t] = buf[u])
        /\ pc[u] = "detach" /\ pc'[t] \in {"attach", "incPool", "inc"} =>
             ~(outer[u] = outer'[t] /\ buf[u] = buf'[t])
  BY <1>2 DEF ThreadInv, PointInv, Changing
<1>7. QED
  BY <1>1, <1>3, <1>4, <1>5, <1>6, BeginInv

-----------------------------------------------------------------------------
(* What a reference, and a call under way, imply.                          *)
LEMMA CountPositive ==
  ASSUME PoolInv, NEW b \in Buffers, NEW x \in References(b)
  PROVE  refCount[b] \in Nat \ {0}
<1>1. IsFiniteSet(References(b)) /\ refCount[b] = Cardinality(References(b))
  BY DEF PoolInv, CountInv, Counted
<1>2. QED
  BY <1>1, FS_CardinalityType, FS_EmptySet

(* A count of zero leaves no reference.                                    *)
LEMMA NoReferences ==
  ASSUME PoolInv, NEW b \in Buffers, refCount[b] = 0
  PROVE  References(b) = {}
BY CountPositive

(* A client variable, and a call, that refers to b counts.                 *)
LEMMA HolderIsReference ==
  ASSUME NEW b, NEW h \in Holders, held[h] = b
  PROVE  Client(h) \in References(b)
BY DEF References

LEMMA CallIsReference ==
  ASSUME NEW b, NEW t \in Threads, Calling(t, b)
  PROVE  Call(t) \in References(b)
BY DEF References, Calling

(* A buffer in the hands of a call cannot be released meanwhile.           *)
LEMMA HeldIsCounted ==
  ASSUME PoolInv, NEW t \in Threads, NEW b \in Buffers, Has(t, b)
  PROVE  refCount[b] \in Nat \ {0}
<1>1. PICK h \in hand[t] : held[h] = b
  BY DEF Has
<1>2. h \in Holders
  BY <1>1 DEF PoolInv, TypeInv, LocalTypes
<1>3. QED
  BY <1>1, <1>2, HolderIsReference, CountPositive

(* An attachment that is not counted yet belongs to a call of              *)
(* AttachBuffer.                                                           *)
LEMMA PendingPoint ==
  ASSUME PoolInv, NEW t \in Threads, NEW o \in Buffers, NEW s \in Slots,
         dest[t] = Attachment(o, s)
  PROVE  /\ pc[t] \in {"incPool", "inc"} /\ outer[t] = o
         /\ attached[o][s] = buf[t] /\ buf[t] \in Buffers
         /\ Has(t, o) /\ stack[t] = << >>
<1>1. ThreadInv(t) /\ pc[t] \in Labels
  BY ThreadOf DEF PoolInv, TypeInv, LocalTypes
<1>2. pc[t] \in {"incPool", "inc"}
  BY <1>1, PlacesDiffer DEF ThreadInv, Labels
<1>3. PICK r \in Slots : /\ outer[t] \in Buffers /\ Has(t, outer[t])
                         /\ dest[t] = Attachment(outer[t], r)
                         /\ attached[outer[t]][r] = buf[t]
  BY <1>1, <1>2, PlacesDiffer DEF ThreadInv
<1>4. o = outer[t] /\ s = r
  BY <1>3 DEF Attachment
<1>5. stack[t] = << >> /\ buf[t] \in Buffers
  BY <1>1, <1>2 DEF ThreadInv, PoolInv, TypeInv, PointInv
<1>6. QED
  BY <1>2, <1>3, <1>4, <1>5

(* A buffer is not released while something is being attached to it.       *)
LEMMA PendingIsCounted ==
  ASSUME PoolInv, NEW o \in Buffers, NEW s \in Slots, Pending(o, s)
  PROVE  refCount[o] \in Nat \ {0}
BY PendingPoint, HeldIsCounted DEF Pending

(* The buffer that a release works on is the last one of its stack.        *)
LEMMA StackIsReleased ==
  ASSUME PoolInv, NEW t \in Threads, pc[t] \in {"attachments", "free"}
  PROVE  /\ buf[t] \in Buffers /\ stack[t] # << >>
         /\ Len(stack[t]) \in 1 .. Len(stack[t])
         /\ buf[t] = stack[t][Len(stack[t])]
         /\ <<t, Len(stack[t])>> \in Releases(buf[t])
         /\ refCount[buf[t]] = 0
<1>1. /\ stack[t] # << >> /\ buf[t] = stack[t][Len(stack[t])]
      /\ buf[t] \in Buffers /\ stack[t] \in Seq(Buffers)
  BY ThreadOf DEF ThreadInv, PoolInv, TypeInv, LocalTypes, PointInv
<1>2. Len(stack[t]) \in 1 .. Len(stack[t])
  BY <1>1
<1>3. <<t, Len(stack[t])>> \in Releases(buf[t])
  BY <1>1, <1>2, InReleases
<1>4. refCount[buf[t]] = 0
  BY <1>1, <1>3 DEF PoolInv, SituationInv, Situation
<1>5. QED
  BY <1>1, <1>2, <1>3, <1>4

-----------------------------------------------------------------------------
(* How the count follows the references.                                   *)
LEMMA CountSame ==
  ASSUME NEW b \in Buffers, Counted(b), refCount'[b] = refCount[b],
         References(b)' = References(b)
  PROVE  Counted(b)'
BY DEF Counted

(* One reference more, one less, one for another.                          *)
LEMMA CountAdd ==
  ASSUME NEW b \in Buffers, Counted(b), refCount'[b] = refCount[b] + 1,
         NEW y, y \notin References(b),
         References(b)' = References(b) \cup {y}
  PROVE  Counted(b)'
BY FS_AddElement DEF Counted

LEMMA CountRemove ==
  ASSUME NEW b \in Buffers, Counted(b), refCount'[b] = refCount[b] - 1,
         NEW x \in References(b), References(b)' = References(b) \ {x}
  PROVE  Counted(b)'
BY FS_RemoveElement DEF Counted

LEMMA CountSwap ==
  ASSUME NEW b \in Buffers, Counted(b), refCount'[b] = refCount[b],
         NEW x \in References(b), NEW y, y \notin References(b),
         References(b)' = (References(b) \ {x}) \cup {y}
  PROVE  Counted(b)'
<1>1. IsFiniteSet(References(b)) /\ refCount[b] = Cardinality(References(b))
  BY DEF Counted
<1>2. /\ IsFiniteSet(References(b) \ {x})
      /\ Cardinality(References(b) \ {x}) = Cardinality(References(b)) - 1
  BY <1>1, FS_RemoveElement
<1>3. /\ IsFiniteSet((References(b) \ {x}) \cup {y})
      /\ Cardinality((References(b) \ {x}) \cup {y})
           = Cardinality(References(b) \ {x}) + 1
  BY <1>2, FS_AddElement
<1>4. Cardinality(References(b)) \in Nat
  BY <1>1, FS_CardinalityType
<1>5. QED
  BY <1>1, <1>2, <1>3, <1>4 DEF Counted

(* The situations are untouched, whatever happens to the references.       *)
LEMMA QuietSituation ==
  ASSUME PoolInv, NEW t \in Threads, OthersSame(t), UNCHANGED <<lost, free>>,
         stack'[t] = stack[t],
         \A b \in Buffers : /\ refCount'[b] = 0 <=> refCount[b] = 0
                            /\ Acquiring(t, b)' <=> Acquiring(t, b)
                            /\ Last(t, b)' <=> Last(t, b)
  PROVE  SituationInv' /\ \A b \in Buffers : Releases(b)' = Releases(b)
<1>1. ASSUME NEW b \in Buffers
      PROVE  /\ Releases(b)' = Releases(b) /\ Acquirers(b)' = Acquirers(b)
             /\ RingSlots(b)' = RingSlots(b)
  BY SameReleases, SameAcquirers, SameRingSlots
<1>2. QED
  BY <1>1 DEF PoolInv, SituationInv, Situation, AtMostOne

(* What is attached to a released buffer is not added to.                  *)
LEMMA QuietAttached ==
  ASSUME PoolInv, NEW t \in Threads, OthersSame(t), pc'[t] # "free",
         \A b \in Buffers : Releases(b)' = Releases(b),
         \A b \in Buffers : refCount'[b] = 0 <=> refCount[b] = 0,
         \A b \in Buffers, s \in Slots :
           attached'[b][s] # None => attached[b][s] # None \/ refCount[b] # 0
  PROVE  AttachedInv'
<1>1. \A b \in Buffers : Freeing(b)' => Freeing(b)
  BY DEF Freeing, OthersSame, At
<1>2. QED
  BY <1>1 DEF PoolInv, AttachedInv, NoAttachments
-----------------------------------------------------------------------------
(* How the count of b follows its references.                              *)
LEMMA KeepCount ==
  ASSUME NEW b \in Buffers, Counted(b), refCount'[b] = refCount[b],
         \A h \in Holders : held'[h] = b <=> held[h] = b,
         \A o \in Buffers, s \in Slots :
           Attaching(o, s, b)' <=> Attaching(o, s, b),
         \A u \in Threads : Calling(u, b)' <=> Calling(u, b)
  PROVE  Counted(b)'
<1>1. References(b)' = (References(b) \ {}) \cup {}
  BY MoveReferences
<1>2. QED
  BY <1>1, CountSame

(* A call takes over the reference of a client variable.                   *)
LEMMA ClientToCall ==
  ASSUME NEW b \in Buffers, Counted(b), refCount'[b] = refCount[b],
         NEW h \in Holders, held[h] = b,
         \A g \in Holders : held'[g] = b <=> held[g] = b /\ g # h,
         \A o \in Buffers, s \in Slots :
           Attaching(o, s, b)' <=> Attaching(o, s, b),
         NEW t \in Threads, ~Calling(t, b),
         \A u \in Threads : Calling(u, b)' <=> Calling(u, b) \/ u = t
  PROVE  Counted(b)'
<1>1. References(b)' = (References(b) \ {Client(h)}) \cup {Call(t)}
  <2>0. \A y \in {Call(t)} :
          \/ \E g \in Holders : y = Client(g)
          \/ \E p \in Buffers, r \in Slots : y = Attachment(p, r)
          \/ \E u \in Threads : y = Call(u)
    OBVIOUS
  <2>1. \A g \in Holders : held'[g] = b <=>
          (held[g] = b /\ Client(g) \notin {Client(h)}) \/ Client(g) \in {Call(t)}
    BY PlacesDiffer
  <2>2. \A o \in Buffers, s \in Slots : Attaching(o, s, b)' <=>
          (Attaching(o, s, b) /\ Attachment(o, s) \notin {Client(h)})
          \/ Attachment(o, s) \in {Call(t)}
    BY PlacesDiffer
  <2>3. \A u \in Threads : Calling(u, b)' <=>
          (Calling(u, b) /\ Call(u) \notin {Client(h)}) \/ Call(u) \in {Call(t)}
    BY PlacesDiffer
  <2>4. QED
    BY ONLY <2>0, <2>1, <2>2, <2>3, MoveReferences
<1>2. Client(h) \in References(b) /\ Call(t) \notin References(b)
  BY InReferences, PlacesDiffer
<1>3. QED
  BY <1>1, <1>2, CountSwap

(* A call takes over the reference of an attachment.                       *)
LEMMA AttachmentToCall ==
  ASSUME NEW b \in Buffers, Counted(b), refCount'[b] = refCount[b],
         \A h \in Holders : held'[h] = b <=> held[h] = b,
         NEW o \in Buffers, NEW s \in Slots, Attaching(o, s, b),
         \A p \in Buffers, r \in Slots :
           Attaching(p, r, b)' <=> Attaching(p, r, b) /\ ~(p = o /\ r = s),
         NEW t \in Threads, ~Calling(t, b),
         \A u \in Threads : Calling(u, b)' <=> Calling(u, b) \/ u = t
  PROVE  Counted(b)'
<1>1. References(b)' = (References(b) \ {Attachment(o, s)}) \cup {Call(t)}
  <2>0. \A y \in {Call(t)} :
          \/ \E g \in Holders : y = Client(g)
          \/ \E p \in Buffers, r \in Slots : y = Attachment(p, r)
          \/ \E u \in Threads : y = Call(u)
    OBVIOUS
  <2>1. \A g \in Holders : held'[g] = b <=>
          (held[g] = b /\ Client(g) \notin {Attachment(o, s)})
          \/ Client(g) \in {Call(t)}
    BY PlacesDiffer
  <2>2. \A p \in Buffers, r \in Slots : Attaching(p, r, b)' <=>
          (Attaching(p, r, b) /\ Attachment(p, r) \notin {Attachment(o, s)})
          \/ Attachment(p, r) \in {Call(t)}
    BY PlacesDiffer
  <2>3. \A u \in Threads : Calling(u, b)' <=>
          (Calling(u, b) /\ Call(u) \notin {Attachment(o, s)})
          \/ Call(u) \in {Call(t)}
    BY PlacesDiffer
  <2>4. QED
    BY <2>0, <2>1, <2>2, <2>3, MoveReferences
<1>2. Attachment(o, s) \in References(b) /\ Call(t) \notin References(b)
  BY InReferences, PlacesDiffer
<1>3. QED
  BY <1>1, <1>2, CountSwap

(* A call gives its reference up.                                          *)
LEMMA CallGone ==
  ASSUME NEW b \in Buffers, Counted(b), refCount'[b] = refCount[b] - 1,
         \A h \in Holders : held'[h] = b <=> held[h] = b,
         \A o \in Buffers, s \in Slots :
           Attaching(o, s, b)' <=> Attaching(o, s, b),
         NEW t \in Threads, Calling(t, b),
         \A u \in Threads : Calling(u, b)' <=> Calling(u, b) /\ u # t
  PROVE  Counted(b)'
<1>1. References(b)' = References(b) \ {Call(t)}
  <2>1. \A h \in Holders : held'[h] = b <=>
          (held[h] = b /\ Client(h) \notin {Call(t)}) \/ Client(h) \in {}
    BY PlacesDiffer
  <2>2. \A o \in Buffers, s \in Slots : Attaching(o, s, b)' <=>
          (Attaching(o, s, b) /\ Attachment(o, s) \notin {Call(t)})
          \/ Attachment(o, s) \in {}
    BY PlacesDiffer
  <2>3. \A u \in Threads : Calling(u, b)' <=>
          (Calling(u, b) /\ Call(u) \notin {Call(t)}) \/ Call(u) \in {}
    BY PlacesDiffer
  <2>4. References(b)' = (References(b) \ {Call(t)}) \cup {}
    BY <2>1, <2>2, <2>3, MoveReferences
  <2>5. QED
    BY <2>4
<1>2. Call(t) \in References(b)
  BY InReferences
<1>3. QED
  BY <1>1, <1>2, CountRemove

(* A client variable gets a reference.                                     *)
LEMMA NewClient ==
  ASSUME NEW b \in Buffers, Counted(b), refCount'[b] = refCount[b] + 1,
         NEW h \in Holders, held[h] # b,
         \A g \in Holders : held'[g] = b <=> held[g] = b \/ g = h,
         \A o \in Buffers, s \in Slots :
           Attaching(o, s, b)' <=> Attaching(o, s, b),
         \A u \in Threads : Calling(u, b)' <=> Calling(u, b)
  PROVE  Counted(b)'
<1>1. References(b)' = References(b) \cup {Client(h)}
  <2>0. \A y \in {Client(h)} :
          \/ \E g \in Holders : y = Client(g)
          \/ \E p \in Buffers, r \in Slots : y = Attachment(p, r)
          \/ \E u \in Threads : y = Call(u)
    OBVIOUS
  <2>1. \A g \in Holders : held'[g] = b <=>
          (held[g] = b /\ Client(g) \notin {}) \/ Client(g) \in {Client(h)}
    BY PlacesDiffer
  <2>2. \A o \in Buffers, s \in Slots : Attaching(o, s, b)' <=>
          (Attaching(o, s, b) /\ Attachment(o, s) \notin {})
          \/ Attachment(o, s) \in {Client(h)}
    BY PlacesDiffer
  <2>3. \A u \in Threads : Calling(u, b)' <=>
          (Calling(u, b) /\ Call(u) \notin {}) \/ Call(u) \in {Client(h)}
    BY PlacesDiffer
  <2>4. References(b)' = (References(b) \ {}) \cup {Client(h)}
    BY ONLY <2>0, <2>1, <2>2, <2>3, MoveReferences
  <2>5. QED
    BY <2>4
<1>2. Client(h) \notin References(b)
  BY InReferences, PlacesDiffer
<1>3. QED
  BY <1>1, <1>2, CountAdd

(* An attachment gets its reference.                                       *)
LEMMA NewAttachment ==
  ASSUME NEW b \in Buffers, Counted(b), refCount'[b] = refCount[b] + 1,
         \A h \in Holders : held'[h] = b <=> held[h] = b,
         NEW o \in Buffers, NEW s \in Slots, ~Attaching(o, s, b),
         \A p \in Buffers, r \in Slots :
           Attaching(p, r, b)' <=> Attaching(p, r, b) \/ (p = o /\ r = s),
         \A u \in Threads : Calling(u, b)' <=> Calling(u, b)
  PROVE  Counted(b)'
<1>1. References(b)' = References(b) \cup {Attachment(o, s)}
  <2>0. \A y \in {Attachment(o, s)} :
          \/ \E g \in Holders : y = Client(g)
          \/ \E p \in Buffers, r \in Slots : y = Attachment(p, r)
          \/ \E u \in Threads : y = Call(u)
    OBVIOUS
  <2>1. \A h \in Holders : held'[h] = b <=>
          (held[h] = b /\ Client(h) \notin {}) \/ Client(h) \in {Attachment(o, s)}
    BY PlacesDiffer
  <2>2. \A p \in Buffers, r \in Slots : Attaching(p, r, b)' <=>
          (Attaching(p, r, b) /\ Attachment(p, r) \notin {})
          \/ Attachment(p, r) \in {Attachment(o, s)}
    BY PlacesDiffer
  <2>3. \A u \in Threads : Calling(u, b)' <=>
          (Calling(u, b) /\ Call(u) \notin {}) \/ Call(u) \in {Attachment(o, s)}
    BY PlacesDiffer
  <2>4. References(b)' = (References(b) \ {}) \cup {Attachment(o, s)}
    BY <2>0, <2>1, <2>2, <2>3, MoveReferences
  <2>5. QED
    BY <2>4
<1>2. Attachment(o, s) \notin References(b)
  BY InReferences, PlacesDiffer
<1>3. QED
  BY <1>1, <1>2, CountAdd

-----------------------------------------------------------------------------
(* The steps that change references.                                       *)

(* A client gives up its reference: the call keeps it.                     *)
LEMMA DecrementReferenceCountInv ==
  ASSUME PoolInv, TypeInv', NEW t \in Threads, NEW h \in Holders,
         DecrementReferenceCount(t, h)
  PROVE  PoolInv'
<1> USE PoolAssumption
    DEF DecrementReferenceCount, PoolInv, TypeInv, LocalTypes, BufferTypes,
        Goto, At, poolVars
<1>0. PICK b \in Buffers : b = held[h]
  OBVIOUS
<1>1. /\ OthersSame(t) /\ stack'[t] = stack[t] /\ pc'[t] = "decPool"
      /\ buf'[t] = b /\ dest'[t] = dest[t]
      /\ UNCHANGED <<attached, refCount, lost, free>>
  BY <1>0 DEF OthersSame
<1>2. ThreadInv(t) /\ dest[t] = NoPlace
  BY ThreadOf DEF ThreadInv
<1>3. SituationInv' /\ \A c \in Buffers : Releases(c)' = Releases(c)
  <2>1. \A c \in Buffers : /\ Acquiring(t, c)' <=> Acquiring(t, c)
                           /\ Last(t, c)' <=> Last(t, c)
    BY <1>2 DEF ThreadInv, Acquiring, Last
  <2>2. QED
    BY <1>1, <2>1, QuietSituation
<1>4. AttachedInv'
  BY <1>1, <1>3, QuietAttached
<1>5. ThreadsInv'
  <2>1. ThreadInv(t)'
    BY <1>2 DEF ThreadInv
  <2>2. \A u \in Threads \ {t} : \A g \in hand[u] : held'[g] = held[g]
    BY DEF InUse
  <2>3. QED
    BY <1>1, <2>1, <2>2, ThreadsKeep
<1>6. PairInv'
  BY <1>1, PairQuiet
<1>7. CountInv'
  <2> SUFFICES ASSUME NEW c \in Buffers PROVE Counted(c)'
    BY DEF CountInv
  <2>1. \A o \in Buffers, s \in Slots :
          Attaching(o, s, c)' <=> Attaching(o, s, c)
    BY <1>1 DEF Attaching, Pending, OthersSame
  <2>2. \A g \in Holders : held'[g] = c <=> held[g] = c /\ g # h
    BY <1>0
  <2>3. \A u \in Threads :
          Calling(u, c)' <=> Calling(u, c) \/ (u = t /\ c = b)
    BY <1>1 DEF Calling, OthersSame
  <2>4. CASE c # b
    BY <1>0, <1>1, <2>1, <2>2, <2>3, <2>4, KeepCount DEF CountInv
  <2>5. CASE c = b
    <3>1. ~Calling(t, c) /\ held[h] = c
      BY <1>0, <2>5 DEF Calling
    <3>2. QED
      BY <1>1, <2>1, <2>2, <2>3, <2>5, <3>1, ClientToCall DEF CountInv
  <2>6. QED
    BY <2>4, <2>5
<1>8. HomeInv'
  BY <1>1 DEF HomeInv
<1>9. QED
  BY <1>3, <1>4, <1>5, <1>6, <1>7, <1>8

(* The new reference is kept where `dest' says.                            *)
LEMMA IncrementInv ==
  ASSUME PoolInv, TypeInv', NEW t \in Threads, Increment(t)
  PROVE  PoolInv'
<1> USE PoolAssumption
    DEF Increment, PoolInv, TypeInv, LocalTypes, BufferTypes,
        Return, Goto, At, poolVars
<1>1. /\ OthersSame(t) /\ stack'[t] = stack[t] /\ pc'[t] = "idle"
      /\ pc[t] = "inc" /\ dest'[t] = NoPlace /\ hand'[t] = {}
      /\ UNCHANGED <<attached, lost, free>>
  BY DEF OthersSame
<1>2. ThreadInv(t)
  BY ThreadOf
<1>3. PICK b \in Buffers : b = buf[t]
  BY DEF PointInv
<1>4. /\ refCount'[b] = refCount[b] + 1 /\ refCount[b] \in Nat \ {0}
      /\ \A c \in Buffers \ {b} : refCount'[c] = refCount[c]
      /\ \A c \in Buffers : refCount'[c] = 0 <=> refCount[c] = 0
  <2>1. Has(t, b)
    BY <1>1, <1>2, <1>3 DEF ThreadInv
  <2>2. refCount[b] \in Nat \ {0}
    BY <2>1, HeldIsCounted
  <2>3. QED
    BY <1>3, <2>2
<1>5. SituationInv' /\ \A c \in Buffers : Releases(c)' = Releases(c)
  <2>1. \A c \in Buffers : /\ Acquiring(t, c)' <=> Acquiring(t, c)
                           /\ Last(t, c)' <=> Last(t, c)
    BY <1>1 DEF Acquiring, Last
  <2>2. QED
    BY <1>1, <1>4, <2>1, QuietSituation
<1>6. AttachedInv'
  BY <1>1, <1>4, <1>5, QuietAttached
<1>7. PairInv'
  BY <1>1, PlacesDiffer, PairQuiet
<1>8. HomeInv'
  BY <1>1 DEF HomeInv
<1>9. \A u \in Threads : \A c : Calling(u, c)' <=> Calling(u, c)
  BY <1>1 DEF Calling, OthersSame
<1>10. ASSUME NEW h \in hand[t], dest[t] = Client(h), held[h] = None
       PROVE  ThreadsInv' /\ CountInv'
  <2>1. h \in Holders
    OBVIOUS
  <2>2. \A g \in Holders : held'[g] = IF g = h THEN b ELSE held[g]
    BY <1>3, <1>10, PlacesDiffer
  <2>3. \A o \in Buffers, s \in Slots : \A c :
          Attaching(o, s, c)' <=> Attaching(o, s, c)
    BY <1>1, <1>10, PlacesDiffer DEF Attaching, Pending, OthersSame
  <2>4. ThreadsInv'
    <3>1. ThreadInv(t)'
      BY <1>1, <1>2 DEF ThreadInv
    <3>2. \A u \in Threads \ {t} : \A g \in hand[u] : held'[g] = held[g]
      BY <2>1, <2>2 DEF PairInv, HandInv
    <3>3. QED
      BY <1>1, <3>1, <3>2, ThreadsKeep
  <2>5. Counted(b)'
    <3>1. /\ held[h] # b
          /\ \A g \in Holders : held'[g] = b <=> held[g] = b \/ g = h
      BY <1>10, <2>2
    <3>2. Counted(b)
      BY DEF CountInv
    <3>3. QED
      BY ONLY <1>4, <1>9, <2>1, <2>3, <3>1, <3>2, NewClient
  <2>6. ASSUME NEW c \in Buffers \ {b} PROVE Counted(c)'
    <3>1. \A g \in Holders : held'[g] = c <=> held[g] = c
      BY <1>10, <2>2
    <3>2. Counted(c)
      BY DEF CountInv
    <3>3. QED
      BY ONLY <1>4, <1>9, <2>3, <3>1, <3>2, KeepCount
  <2>7. QED
    BY <2>4, <2>5, <2>6 DEF CountInv
<1>11. ASSUME NEW o \in Buffers, NEW s \in Slots,
              dest[t] = Attachment(o, s), attached[o][s] = b
       PROVE  ThreadsInv' /\ CountInv'
  <2>1. \A h \in Holders : held'[h] = held[h]
    BY <1>11, PlacesDiffer
  <2>2. ~Pending(o, s)' /\ Pending(o, s)
    BY <1>1, <1>11, PlacesDiffer DEF Pending, OthersSame, PairInv, DestInv
  <2>3. \A p \in Buffers, r \in Slots :
          ~(p = o /\ r = s) => (Pending(p, r)' <=> Pending(p, r))
    BY <1>1, <1>11, PlacesDiffer DEF Pending, OthersSame
  <2>4. \A p \in Buffers, r \in Slots : \A c :
          Attaching(p, r, c)' <=>
            Attaching(p, r, c) \/ (p = o /\ r = s /\ c = b)
    BY <1>1, <1>11, <2>2, <2>3 DEF Attaching
  <2>5. ThreadsInv'
    <3>1. ThreadInv(t)'
      BY <1>1, <1>2 DEF ThreadInv
    <3>2. QED
      BY <1>1, <2>1, <3>1, ThreadsKeep
  <2>6. Counted(b)'
    <3>1. ~Attaching(o, s, b)
      BY <2>2 DEF Attaching
    <3>2. Counted(b)
      BY DEF CountInv
    <3>3. QED
      BY ONLY <1>4, <1>9, <2>1, <2>4, <3>1, <3>2, NewAttachment
  <2>7. ASSUME NEW c \in Buffers \ {b} PROVE Counted(c)'
    <3>1. Counted(c)
      BY DEF CountInv
    <3>2. QED
      BY ONLY <1>4, <1>9, <2>1, <2>4, <3>1, KeepCount
  <2>8. QED
    BY <2>5, <2>6, <2>7 DEF CountInv
<1>12. ThreadsInv' /\ CountInv'
  BY <1>1, <1>2, <1>3, <1>10, <1>11 DEF ThreadInv
<1>13. QED
  BY <1>5, <1>6, <1>7, <1>8, <1>12

(* The copy of the count makes t the one that releases b, or not.          *)
LEMMA DecrementInv ==
  ASSUME PoolInv, TypeInv', NEW t \in Threads, Decrement(t)
  PROVE  PoolInv'
<1> USE PoolAssumption
    DEF Decrement, PoolInv, TypeInv, LocalTypes, BufferTypes,
        Goto, At, poolVars
<1>1. /\ OthersSame(t) /\ stack'[t] = stack[t] /\ pc'[t] = "after"
      /\ pc[t] = "dec" /\ dest'[t] = dest[t] /\ hand'[t] = hand[t]
      /\ UNCHANGED <<attached, held, lost, free>>
  BY DEF OthersSame
<1>2. ThreadInv(t)
  BY ThreadOf
<1>3. PICK b \in Buffers : b = buf[t]
  BY DEF PointInv
<1>4. Calling(t, b)
  BY <1>1, <1>3 DEF Calling
<1>5. /\ refCount'[b] = refCount[b] - 1 /\ refCount[b] \in Nat \ {0}
      /\ \A c \in Buffers \ {b} : refCount'[c] = refCount[c]
      /\ buf'[t] = b /\ after'[t] = refCount[b] - 1
  BY <1>3, <1>4, CallIsReference, CountPositive
<1>6. ThreadsInv'
  <2>1. ThreadInv(t)'
    BY <1>1, <1>2 DEF ThreadInv
  <2>2. QED
    BY <1>1, <2>1, ThreadsKeep
<1>7. PairInv'
  BY <1>1, PairQuiet
<1>8. HomeInv'
  BY <1>1 DEF HomeInv
<1>9. \A o \in Buffers, s \in Slots : \A c :
        Attaching(o, s, c)' <=> Attaching(o, s, c)
  BY <1>1 DEF Attaching, Pending, OthersSame
<1>10. \A u \in Threads, c \in Buffers :
         Calling(u, c)' <=> Calling(u, c) /\ ~(u = t /\ c = b)
  BY <1>1, <1>3, <1>5 DEF Calling, OthersSame
<1>11. CountInv'
  <2>1. \A h \in Holders : held'[h] = held[h]
    BY <1>1
  <2>2. \A c \in Buffers : Counted(c)
    BY DEF CountInv
  <2>3. Counted(b)'
    BY ONLY <1>4, <1>5, <1>9, <1>10, <2>1, <2>2, CallGone
  <2>4. ASSUME NEW c \in Buffers \ {b} PROVE Counted(c)'
    BY ONLY <1>5, <1>9, <1>10, <2>1, <2>2, KeepCount
  <2>5. QED
    BY <2>3, <2>4 DEF CountInv
<1>12. \A c \in Buffers :
         Acquirers(c)' = Acquirers(c) /\ RingSlots(c)' = RingSlots(c)
  BY <1>1, SameAcquirers, SameRingSlots DEF Acquiring
<1>13. \A c \in Buffers \ {b} : Releases(c)' = Releases(c)
  BY <1>1, <1>3, <1>5, SameReleases DEF Last
<1> HIDE DEF Decrement, TypeInv, LocalTypes, BufferTypes, Goto, poolVars
<1>14. /\ Releases(b) = {} /\ Acquirers(b) = {} /\ RingSlots(b) = {}
       /\ b \notin lost
  BY <1>5 DEF SituationInv, Situation
<1>15. Releases(b)' = IF refCount[b] = 1 THEN {<<t, 0>>} ELSE {}
  <2>1. ASSUME NEW u \in Threads
        PROVE  ~Last(u, b) /\ \A k \in 1 .. Len(stack[u]) : stack[u][k] # b
    <3>1. ~Last(u, b)
      BY <1>14, InReleases
    <3>2. ASSUME NEW k \in 1 .. Len(stack[u]), stack[u][k] = b PROVE FALSE
      <4>1. <<u, k>> \in Releases(b)
        BY <3>2, InReleases
      <4>2. QED
        BY <1>14, <4>1
    <3>3. QED
      BY <3>1, <3>2
  <2>2. \A u \in Threads \ {t} : ~Last(u, b)'
    BY <1>1, <2>1 DEF Last, OthersSame
  <2>3. Last(t, b)' <=> refCount[b] = 1
    BY <1>1, <1>5 DEF Last
  <2>4. \A u \in Threads : stack'[u] = stack[u]
    BY <1>1 DEF OthersSame
  <2>5. ASSUME NEW x
        PROVE  x \in Releases(b)' <=> x = <<t, 0>> /\ refCount[b] = 1
    BY ONLY <2>1, <2>2, <2>3, <2>4, InReleasesNext
  <2>6. QED
    BY <2>5
<1>16. Releases(b)' # {} <=> refCount'[b] = 0
  <2>1. refCount'[b] = 0 <=> refCount[b] = 1
    BY <1>5
  <2>2. QED
    BY <1>15, <2>1
<1>17. SituationInv'
  <2>1. ASSUME NEW c \in Buffers \ {b} PROVE Situation(c)'
    BY <1>1, <1>5, <1>12, <1>13 DEF SituationInv, Situation, AtMostOne
  <2>2. Situation(b)'
    <3>1. AtMostOne(Releases(b)')
      BY <1>15 DEF AtMostOne
    <3>2. Acquirers(b)' = {} /\ RingSlots(b)' = {} /\ b \notin lost'
      BY <1>1, <1>12, <1>14
    <3>3. QED
      BY <1>16, <3>1, <3>2 DEF Situation, AtMostOne
  <2>3. QED
    BY <2>1, <2>2 DEF SituationInv
<1>18. AttachedInv'
  <2>1. \A c \in Buffers : Freeing(c)' => Freeing(c)
    BY <1>1 DEF Freeing, OthersSame
  <2>2. ~Freeing(b)
    BY <1>5, StackIsReleased DEF Freeing
  <2>3. ASSUME NEW c \in Buffers
        PROVE  (NoAttachments(c) \/ refCount[c] # 0 \/ (Releases(c) # {} /\ ~Freeing(c)))'
    BY <1>1, <1>5, <1>13, <1>16, <2>1, <2>2 DEF AttachedInv, NoAttachments
  <2>4. QED
    BY <2>3 DEF AttachedInv
<1>19. QED
  BY <1>6, <1>7, <1>8, <1>11, <1>17, <1>18

(* The slot is filled before its reference is counted.                     *)
LEMMA AttachSlotInv ==
  ASSUME PoolInv, TypeInv', NEW t \in Threads, AttachSlot(t)
  PROVE  PoolInv'
<1> USE PoolAssumption
    DEF AttachSlot, PoolInv, TypeInv, LocalTypes, BufferTypes,
        Goto, At, poolVars
<1>1. /\ OthersSame(t) /\ stack'[t] = stack[t] /\ pc'[t] = "incPool"
      /\ pc[t] = "attach" /\ hand'[t] = hand[t] /\ buf'[t] = buf[t]
      /\ outer'[t] = outer[t]
      /\ UNCHANGED <<held, refCount, lost, free>>
  BY DEF OthersSame
<1>2. /\ stack[t] = << >> /\ dest[t] = NoPlace
      /\ Has(t, buf[t]) /\ Has(t, outer[t])
  BY <1>1, ThreadOf DEF ThreadInv
<1>3. PICK o \in Buffers, b \in Buffers : o = outer[t] /\ b = buf[t]
  BY DEF PointInv
<1>4. PICK s \in Slots :
        /\ attached[o][s] = None /\ dest'[t] = Attachment(o, s)
        /\ attached' = [attached EXCEPT ![o][s] = b]
  <2>1. PICK s \in Slots :
          /\ attached[outer[t]][s] = None
          /\ attached' = [attached EXCEPT ![outer[t]][s] = buf[t]]
          /\ dest' = [dest EXCEPT ![t] = Attachment(outer[t], s)]
    BY DEF FirstSlot
  <2>2. dest'[t] = Attachment(outer[t], s)
    BY <2>1
  <2>3. QED
    BY ONLY <1>3, <2>1, <2>2
<1>5. ~Pending(o, s)
  BY <1>4, PendingPoint DEF Pending
<1>6. \A p \in Buffers, r \in Slots :
        attached'[p][r] = IF p = o /\ r = s THEN b ELSE attached[p][r]
  BY <1>4
<1>7. SituationInv' /\ \A c \in Buffers : Releases(c)' = Releases(c)
  <2>1. \A c \in Buffers : /\ Acquiring(t, c)' <=> Acquiring(t, c)
                           /\ Last(t, c)' <=> Last(t, c)
    BY <1>1 DEF Acquiring, Last
  <2>2. QED
    BY <1>1, <2>1, QuietSituation
<1>8. AttachedInv'
  <2>1. refCount[o] # 0
    BY <1>2, <1>3, HeldIsCounted
  <2>2. \A p \in Buffers, r \in Slots :
          attached'[p][r] # None => attached[p][r] # None \/ refCount[p] # 0
    BY <1>6, <2>1
  <2>3. QED
    BY <1>1, <1>7, <2>2, QuietAttached
<1>9. ThreadsInv'
  <2>1. ThreadInv(t)'
    BY <1>1, <1>2, <1>3, <1>4, <1>6 DEF ThreadInv, Has
  <2>2. \A u \in Threads \ {t}, p \in Buffers, r \in Slots :
          dest[u] = Attachment(p, r) => attached'[p][r] = attached[p][r]
    BY <1>5, <1>6 DEF Pending
  <2>3. QED
    BY <1>1, <2>1, <2>2, ThreadsKeep
<1>10. PairInv'
  <2>1. \A u \in Threads \ {t} : hand'[t] \cap hand[u] = {}
    BY <1>1 DEF PairInv, HandInv
  <2>2. \A u \in Threads \ {t} : pc[u] = "detach" =>
          ~(outer[u] = outer'[t] /\ buf[u] = buf'[t])
    BY <1>1 DEF PairInv, DetachInv
  <2>3. \A u \in Threads \ {t}, p \in Buffers, r \in Slots :
          ~(dest'[t] = Attachment(p, r) /\ dest[u] = Attachment(p, r))
    BY <1>4, <1>5, PlacesDiffer DEF Pending
  <2>4. QED
    BY <1>1, <2>1, <2>2, <2>3, PairKeep
<1>11. CountInv'
  <2>1. \A p \in Buffers, r \in Slots :
          Pending(p, r)' <=> Pending(p, r) \/ (p = o /\ r = s)
    BY <1>1, <1>2, <1>4, PlacesDiffer DEF Pending, OthersSame
  <2>2. \A p \in Buffers, r \in Slots, c \in Buffers :
          Attaching(p, r, c)' <=> Attaching(p, r, c)
    BY <1>4, <1>6, <2>1 DEF Attaching
  <2>3. \A u \in Threads : \A c : Calling(u, c)' <=> Calling(u, c)
    BY <1>1 DEF Calling, OthersSame
  <2>4. \A h \in Holders : held'[h] = held[h]
    BY <1>1
  <2>5. ASSUME NEW c \in Buffers PROVE Counted(c)'
    <3>1. Counted(c) /\ refCount'[c] = refCount[c]
      BY <1>1 DEF CountInv
    <3>2. QED
      BY ONLY <2>2, <2>3, <2>4, <3>1, KeepCount
  <2>6. QED
    BY <2>5 DEF CountInv
<1>12. HomeInv'
  BY <1>1 DEF HomeInv
<1>13. QED
  BY <1>7, <1>8, <1>9, <1>10, <1>11, <1>12

(* A slot whose reference is counted is cleared, and t has the reference.  *)
LEMMA SlotToCall ==
  ASSUME PoolInv, TypeInv', NEW t \in Threads, OthersSame(t),
         UNCHANGED <<held, refCount, lost, free>>, stack'[t] = stack[t],
         pc[t] \in {"detach", "attachments"}, pc'[t] = "decPool",
         hand'[t] = hand[t], dest'[t] = dest[t],
         NEW o \in Buffers, NEW s \in Slots, NEW b \in Buffers,
         attached[o][s] = b, ~Pending(o, s), buf'[t] = b,
         attached' = [attached EXCEPT ![o][s] = None]
  PROVE  PoolInv'
<1> USE PoolAssumption DEF PoolInv, At
<1>1. /\ attached \in [Buffers -> [Slots -> Buffers \cup {None}]]
      /\ dest[t] = NoPlace
  BY ThreadOf DEF TypeInv, BufferTypes, ThreadInv
<1>2. \A p \in Buffers, r \in Slots :
        attached'[p][r] = IF p = o /\ r = s THEN None ELSE attached[p][r]
  BY <1>1
<1>3. SituationInv' /\ \A c \in Buffers : Releases(c)' = Releases(c)
  <2>1. \A c \in Buffers : /\ Acquiring(t, c)' <=> Acquiring(t, c)
                           /\ Last(t, c)' <=> Last(t, c)
    BY DEF Acquiring, Last
  <2>2. QED
    BY <2>1, QuietSituation
<1>4. AttachedInv'
  BY <1>2, <1>3, QuietAttached
<1>5. ThreadsInv'
  <2>1. ThreadInv(t)'
    BY <1>1 DEF ThreadInv
  <2>2. \A u \in Threads \ {t}, p \in Buffers, r \in Slots :
          dest[u] = Attachment(p, r) => attached'[p][r] = attached[p][r]
    BY <1>2 DEF Pending
  <2>3. QED
    BY <2>1, <2>2, ThreadsKeep
<1>6. PairInv'
  BY PairQuiet
<1>7. CountInv'
  <2>1. \A p \in Buffers, r \in Slots : Pending(p, r)' <=> Pending(p, r)
    BY DEF Pending, OthersSame
  <2>2. \A p \in Buffers, r \in Slots, c \in Buffers :
          Attaching(p, r, c)' <=> Attaching(p, r, c) /\ ~(p = o /\ r = s)
    BY <1>2, <2>1 DEF Attaching
  <2>3. \A u \in Threads : \A c :
          Calling(u, c)' <=> Calling(u, c) \/ (u = t /\ c = b)
    BY DEF Calling, OthersSame
  <2>4. \A h \in Holders : held'[h] = held[h]
    OBVIOUS
  <2>5. \A c \in Buffers : Counted(c) /\ refCount'[c] = refCount[c]
    BY DEF CountInv
  <2>6. Counted(b)'
    <3>1. Attaching(o, s, b) /\ ~Calling(t, b)
      BY DEF Attaching, Calling
    <3>2. QED
      BY ONLY <2>2, <2>3, <2>4, <2>5, <3>1, AttachmentToCall
  <2>7. ASSUME NEW c \in Buffers \ {b} PROVE Counted(c)'
    <3>1. ~Attaching(o, s, c)
      BY DEF Attaching
    <3>2. QED
      BY ONLY <2>2, <2>3, <2>4, <2>5, <3>1, KeepCount
  <2>8. QED
    BY <2>6, <2>7 DEF CountInv
<1>8. HomeInv'
  BY DEF HomeInv
<1>9. QED
  BY <1>3, <1>4, <1>5, <1>6, <1>7, <1>8

(* DetachBuffer finds the attachment: it is counted, because clients do    *)
(* not attach and detach one pair of buffers at the same time.             *)
LEMMA DetachSlotInv ==
  ASSUME PoolInv, TypeInv', NEW t \in Threads, DetachSlot(t)
  PROVE  PoolInv'
<1> USE PoolAssumption
    DEF DetachSlot, PoolInv, TypeInv, LocalTypes, BufferTypes,
        Goto, At, poolVars, locals
<1>1. /\ OthersSame(t) /\ stack'[t] = stack[t] /\ pc'[t] = "decPool"
      /\ pc[t] = "detach" /\ hand'[t] = hand[t] /\ buf'[t] = buf[t]
      /\ dest'[t] = dest[t]
      /\ UNCHANGED <<held, refCount, lost, free>>
  BY DEF OthersSame
<1>2. PICK o \in Buffers, b \in Buffers : o = outer[t] /\ b = buf[t]
  BY DEF PointInv
<1>3. PICK s \in Slots : /\ attached[o][s] = b
                        /\ attached' = [attached EXCEPT ![o][s] = None]
  BY <1>2 DEF FirstSlot
<1>4. ~Pending(o, s)
  BY <1>1, <1>2, <1>3, PendingPoint DEF Pending, PairInv, DetachInv
<1>5. QED
  BY <1>1, <1>2, <1>3, <1>4, SlotToCall

(* A release finds an attachment: nothing is being attached to a buffer    *)
(* whose count is zero.                                                    *)
LEMMA ReleaseAttachedInv ==
  ASSUME PoolInv, TypeInv', NEW t \in Threads, ReleaseAttached(t)
  PROVE  PoolInv'
<1> USE PoolAssumption
    DEF ReleaseAttached, PoolInv, TypeInv, LocalTypes, BufferTypes,
        Goto, At, poolVars
<1>1. /\ OthersSame(t) /\ stack'[t] = stack[t] /\ pc'[t] = "decPool"
      /\ pc[t] = "attachments" /\ hand'[t] = hand[t] /\ dest'[t] = dest[t]
      /\ UNCHANGED <<held, refCount, lost, free>>
  BY DEF OthersSame
<1>2. PICK o \in Buffers : o = buf[t]
  BY DEF PointInv
<1>3. PICK s \in Slots :
        /\ attached[o][s] # None
        /\ attached' = [attached EXCEPT ![o][s] = None]
        /\ buf' = [buf EXCEPT ![t] = attached[o][s]]
  BY <1>2
<1>4. attached[o][s] \in Buffers /\ buf'[t] = attached[o][s]
  BY <1>3
<1>5. ~Pending(o, s)
  BY <1>1, <1>2, StackIsReleased, PendingIsCounted
<1>6. QED
  BY <1>1, <1>3, <1>4, <1>5, SlotToCall

-----------------------------------------------------------------------------
(* The steps of a release.                                                 *)
LEMMA DecrementReturnInv ==
  ASSUME PoolInv, TypeInv', NEW t \in Threads, DecrementReturn(t)
  PROVE  PoolInv'
<1> USE PoolAssumption
    DEF DecrementReturn, Resume, LastReference, PoolInv, TypeInv, LocalTypes,
        Goto, Return, At, poolVars, bufferVars
<1>1. /\ OthersSame(t) /\ stack'[t] = stack[t]
      /\ pc[t] = "after" /\ after[t] # 0
      /\ UNCHANGED <<held, attached, refCount, lost, free>>
  BY DEF OthersSame
<1>2. ThreadInv(t) /\ dest[t] = NoPlace
  BY <1>1, ThreadOf DEF ThreadInv
<1>3. \/ /\ pc'[t] = "idle" /\ stack[t] = << >> /\ dest'[t] = NoPlace
         /\ buf'[t] = None /\ outer'[t] = None /\ hand'[t] = {}
      \/ /\ pc'[t] = "attachments" /\ stack[t] # << >>
         /\ buf'[t] = stack[t][Len(stack[t])] /\ dest'[t] = dest[t]
         /\ outer'[t] = outer[t] /\ hand'[t] = hand[t]
  OBVIOUS
<1>4. \A c \in Buffers : /\ Calling(t, c)' <=> Calling(t, c)
                         /\ Acquiring(t, c)' <=> Acquiring(t, c)
                         /\ Last(t, c)' <=> Last(t, c)
  BY <1>1, <1>3 DEF Calling, Acquiring, Last
<1>5. dest'[t] = dest[t]
  BY <1>2, <1>3
<1>6. ThreadInv(t)'
  BY <1>1, <1>2, <1>3 DEF ThreadInv
<1>7. PairInv'
  BY <1>1, <1>3, <1>5, PairQuiet
<1>8. QED
  BY <1>1, <1>3, <1>4, <1>5, <1>6, <1>7, QuietAction

(* A step of t that touches neither the holders nor the slots, and is in   *)
(* no call that keeps a reference, keeps the counts.                       *)
LEMMA KeepCounts ==
  ASSUME CountInv, NEW t \in Threads, OthersSame(t),
         UNCHANGED <<held, attached, refCount>>,
         \A o \in Buffers, s \in Slots :
           dest'[t] = Attachment(o, s) <=> dest[t] = Attachment(o, s),
         \A c \in Buffers : ~Calling(t, c) /\ ~Calling(t, c)'
  PROVE  CountInv'
<1> SUFFICES ASSUME NEW c \in Buffers PROVE Counted(c)'
  BY DEF CountInv
<1>1. References(c)' = References(c)
  BY SameReferences
<1>2. QED
  BY <1>1, CountSame DEF CountInv

(* The attachments are gone.                                               *)
LEMMA ReleaseUnlockInv ==
  ASSUME PoolInv, TypeInv', NEW t \in Threads, ReleaseUnlock(t)
  PROVE  PoolInv'
<1> USE PoolAssumption
    DEF ReleaseUnlock, PoolInv, TypeInv, LocalTypes, BufferTypes, Goto, At,
        poolVars, locals
<1>1. /\ OthersSame(t) /\ stack'[t] = stack[t] /\ pc'[t] = "free"
      /\ pc[t] = "attachments" /\ buf'[t] = buf[t] /\ hand'[t] = hand[t]
      /\ dest'[t] = dest[t]
      /\ UNCHANGED <<held, attached, refCount, lost, free>>
  BY DEF OthersSame
<1>2. ThreadInv(t)
  BY ThreadOf
<1>3. SituationInv' /\ \A c \in Buffers : Releases(c)' = Releases(c)
  <2>1. \A c \in Buffers : /\ Acquiring(t, c)' <=> Acquiring(t, c)
                           /\ Last(t, c)' <=> Last(t, c)
    BY <1>1 DEF Acquiring, Last
  <2>2. QED
    BY <1>1, <2>1, QuietSituation
<1>4. CountInv'
  BY <1>1, KeepCounts DEF Calling
<1>5. ThreadsInv'
  <2>1. ThreadInv(t)'
    BY <1>1, <1>2 DEF ThreadInv
  <2>2. QED
    BY <1>1, <2>1, ThreadsKeep
<1>6. PairInv'
  BY <1>1, PairQuiet
<1>7. AttachedInv'
  <2>1. NoAttachments(buf[t])
    BY DEF NoAttachments
  <2>2. \A c \in Buffers : Freeing(c)' => Freeing(c) \/ c = buf[t]
    BY <1>1 DEF Freeing, OthersSame
  <2>3. ASSUME NEW c \in Buffers
        PROVE  (NoAttachments(c) \/ refCount[c] # 0 \/ (Releases(c) # {} /\ ~Freeing(c)))'
    <3>1. CASE c = buf[t]
      BY <1>1, <2>1, <3>1 DEF NoAttachments
    <3>2. CASE c # buf[t]
      BY <1>1, <1>3, <2>2, <3>2 DEF AttachedInv, NoAttachments
    <3>3. QED
      BY <3>1, <3>2
  <2>4. QED
    BY <2>3 DEF AttachedInv
<1>8. HomeInv'
  BY <1>1 DEF HomeInv
<1>9. QED
  BY <1>3, <1>4, <1>5, <1>6, <1>7, <1>8

(* The release that `after' stood for is put on the stack.                 *)
LEMMA ReleaseBufferInv ==
  ASSUME PoolInv, TypeInv', NEW t \in Threads, ReleaseBuffer(t)
  PROVE  PoolInv'
<1> USE PoolAssumption
    DEF ReleaseBuffer, LastReference, PoolInv, TypeInv, LocalTypes,
        BufferTypes, Goto, At, poolVars
<1>1. /\ OthersSame(t) /\ pc'[t] = "attachments" /\ pc[t] = "after"
      /\ after[t] = 0 /\ buf'[t] = buf[t] /\ hand'[t] = hand[t]
      /\ dest'[t] = dest[t]
      /\ UNCHANGED <<held, attached, refCount, lost, free>>
  BY DEF OthersSame
<1>2. ThreadInv(t) /\ dest[t] = NoPlace
  BY <1>1, ThreadOf DEF ThreadInv
<1>3. PICK b \in Buffers : b = buf[t]
  BY DEF PointInv
<1>4. PICK n \in Nat : n = Len(stack[t])
  <2>1. stack[t] \in Seq(Buffers)
    OBVIOUS
  <2>2. QED
    BY ONLY <2>1
<1>5. /\ stack'[t] = Append(stack[t], b) /\ Len(stack'[t]) = n + 1
      /\ stack'[t][n + 1] = b
      /\ \A k \in 1 .. n : stack'[t][k] = stack[t][k]
  BY <1>3, <1>4
<1>6. CountInv'
  BY <1>1, KeepCounts DEF Calling
<1>7. ThreadsInv'
  <2>1. ThreadInv(t)'
    BY <1>1, <1>2, <1>3, <1>5 DEF ThreadInv
  <2>2. QED
    BY <1>1, <2>1, ThreadsKeep
<1>8. PairInv'
  BY <1>1, PairQuiet
<1>9. HomeInv'
  BY <1>1 DEF HomeInv
<1>10. \A c \in Buffers :
         Acquirers(c)' = Acquirers(c) /\ RingSlots(c)' = RingSlots(c)
  BY <1>1, SameAcquirers, SameRingSlots DEF Acquiring
<1> HIDE DEF ReleaseBuffer, TypeInv, LocalTypes, BufferTypes, Goto, poolVars
<1>11. \A u \in Threads \ {t} : /\ stack'[u] = stack[u]
                                /\ \A c : Last(u, c)' <=> Last(u, c)
  BY <1>1 DEF OthersSame, Last
<1>12. \A c : ~Last(t, c)' /\ (Last(t, c) <=> c = b)
  BY <1>1, <1>3 DEF Last
<1>13. ASSUME NEW c \in Buffers \ {b}
       PROVE  Releases(c)' = Releases(c)
  <2>1. \A k : k \in 1 .. n + 1 /\ stack'[t][k] = c <=>
               k \in 1 .. n /\ stack[t][k] = c
    BY <1>4, <1>5
  <2>2. \A k : k \in 1 .. Len(stack'[t]) /\ stack'[t][k] = c <=>
               k \in 1 .. Len(stack[t]) /\ stack[t][k] = c
    BY <1>4, <1>5, <2>1
  <2>3. \A u \in Threads : \A k :
          k \in 1 .. Len(stack'[u]) /\ stack'[u][k] = c <=>
          k \in 1 .. Len(stack[u]) /\ stack[u][k] = c
    BY <1>11, <2>2
  <2>4. \A u \in Threads : Last(u, c)' <=> Last(u, c)
    BY <1>11, <1>12
  <2>5. ASSUME NEW x PROVE x \in Releases(c)' <=> x \in Releases(c)
    BY ONLY <2>3, <2>4, InReleases, InReleasesNext
  <2>6. QED
    BY <2>5
<1>14. <<t, 0>> \in Releases(b) /\ <<t, n + 1>> \in Releases(b)'
  BY <1>4, <1>5, <1>12, InReleases, InReleasesNext
<1>15. Releases(b)' = {<<t, n + 1>>}
  <2>1. \A x \in Releases(b) : x = <<t, 0>>
    BY <1>14 DEF SituationInv, Situation, AtMostOne
  <2>2. ASSUME NEW x \in Releases(b)' PROVE x = <<t, n + 1>>
    <3>1. PICK u \in Threads : \/ x = <<u, 0>> /\ Last(u, b)'
                               \/ \E k \in 1 .. Len(stack'[u]) :
                                    stack'[u][k] = b /\ x = <<u, k>>
      BY <2>2, InReleasesNext
    <3>2. CASE u # t
      <4>1. x \in Releases(b)
        BY <1>11, <3>1, <3>2, InReleases
      <4>2. QED
        BY <2>1, <3>1, <3>2, <4>1
    <3>3. CASE u = t
      <4>1. PICK k \in 1 .. n + 1 : stack'[t][k] = b /\ x = <<t, k>>
        BY <1>5, <1>12, <3>1, <3>3
      <4>2. ASSUME k \in 1 .. n PROVE FALSE
        <5>1. <<t, k>> \in Releases(b)
          BY <1>4, <1>5, <4>1, <4>2, InReleases
        <5>2. QED
          BY <2>1, <4>2, <5>1
      <4>3. QED
        BY <1>4, <4>1, <4>2
    <3>4. QED
      BY <3>2, <3>3
  <2>3. QED
    BY <1>14, <2>2
<1>16. SituationInv'
  <2>1. ASSUME NEW c \in Buffers \ {b} PROVE Situation(c)'
    BY <1>1, <1>10, <1>13 DEF SituationInv, Situation, AtMostOne
  <2>2. Situation(b)'
    BY <1>1, <1>10, <1>14, <1>15 DEF SituationInv, Situation, AtMostOne
  <2>3. QED
    BY <2>1, <2>2 DEF SituationInv
<1>17. AttachedInv'
  <2>1. \A c \in Buffers : Freeing(c)' => Freeing(c)
    BY <1>1 DEF Freeing, OthersSame
  <2>2. \A c \in Buffers : Releases(c) # {} => Releases(c)' # {}
    BY <1>13, <1>14
  <2>3. QED
    BY <1>1, <2>1, <2>2 DEF AttachedInv, NoAttachments
<1>18. QED
  BY <1>6, <1>7, <1>8, <1>9, <1>16, <1>17

-----------------------------------------------------------------------------
(* The steps of GetBuffer that take a buffer out of a situation.           *)

(* The thread that acquires b is alone, and when it leaves off nobody does.*)
LEMMA LeaveAcquirers ==
  ASSUME PoolInv, NEW t \in Threads, OthersSame(t), NEW b \in Buffers,
         Acquiring(t, b), \A c \in Buffers : ~Acquiring(t, c)'
  PROVE  /\ Releases(b) = {} /\ RingSlots(b) = {} /\ b \notin lost
         /\ refCount[b] = 0 /\ Acquirers(b)' = {}
         /\ \A c \in Buffers \ {b} : Acquirers(c)' = Acquirers(c)
<1>1. t \in Acquirers(b)
  BY InAcquirers
<1>2. Situation(b)
  BY DEF PoolInv, SituationInv
<1>3. \A u \in Acquirers(b) : u = t
  BY <1>1, <1>2 DEF Situation, AtMostOne
<1>4. \A u \in Threads \ {t} : \A c : Acquiring(u, c)' <=> Acquiring(u, c)
  BY DEF Acquiring, OthersSame
<1>5. Acquirers(b)' = {}
  BY <1>3, <1>4, InAcquirers DEF Acquirers, Acquiring
<1>6. \A c \in Buffers \ {b} : ~Acquiring(t, c)
  BY DEF Acquiring
<1>7. \A c \in Buffers \ {b} : Acquirers(c)' = Acquirers(c)
  BY <1>4, <1>6 DEF Acquirers, Acquiring
<1>8. QED
  BY <1>1, <1>2, <1>5, <1>7 DEF Situation

(* GetBuffer gets no memory: the buffer is lost.                           *)
LEMMA GetNoMemoryInv ==
  ASSUME PoolInv, TypeInv', NEW t \in Threads, GetNoMemory(t)
  PROVE  PoolInv'
<1> USE PoolAssumption
    DEF GetNoMemory, PoolInv, TypeInv, LocalTypes, BufferTypes, Return, Goto,
        At, poolVars
<1>1. /\ OthersSame(t) /\ stack'[t] = stack[t] /\ pc'[t] = "idle"
      /\ pc[t] = "memory" /\ buf'[t] = None /\ hand'[t] = {}
      /\ dest'[t] = NoPlace /\ outer'[t] = None
      /\ UNCHANGED <<held, attached, refCount, free>>
  BY DEF OthersSame
<1>2. stack[t] = << >> /\ \E h \in Holders : dest[t] = Client(h)
  BY <1>1, ThreadOf DEF ThreadInv
<1>3. PICK b \in Buffers : b = buf[t]
  BY DEF PointInv
<1>4. CountInv'
  <2>1. \A o \in Buffers, s \in Slots :
          dest'[t] # Attachment(o, s) /\ dest[t] # Attachment(o, s)
    BY <1>1, <1>2, PlacesDiffer
  <2>2. \A c \in Buffers : ~Calling(t, c) /\ ~Calling(t, c)'
    BY <1>1 DEF Calling
  <2>3. CountInv /\ UNCHANGED <<held, attached, refCount>>
    BY <1>1
  <2>4. QED
    BY ONLY <1>1, <2>1, <2>2, <2>3, t \in Threads, KeepCounts
<1>5. ThreadsInv'
  <2>1. ThreadInv(t)'
    BY <1>1, <1>2 DEF ThreadInv
  <2>2. QED
    BY <1>1, <2>1, ThreadsKeep
<1>6. PairInv'
  BY <1>1, PlacesDiffer, PairQuiet
<1>7. HomeInv'
  BY <1>1 DEF HomeInv
<1>8. lost' = lost \cup {b}
  BY <1>3
<1> HIDE DEF GetNoMemory, TypeInv, LocalTypes, BufferTypes, Return, Goto, poolVars
<1>9. \A c \in Buffers :
        Releases(c)' = Releases(c) /\ RingSlots(c)' = RingSlots(c)
  BY <1>1, SameReleases, SameRingSlots DEF Last
<1>10. /\ Releases(b) = {} /\ RingSlots(b) = {} /\ b \notin lost
       /\ refCount[b] = 0 /\ Acquirers(b)' = {}
       /\ \A c \in Buffers \ {b} : Acquirers(c)' = Acquirers(c)
  BY <1>1, <1>3, LeaveAcquirers DEF Acquiring
<1>11. SituationInv'
  <2>1. ASSUME NEW c \in Buffers \ {b} PROVE Situation(c)'
    BY <1>1, <1>8, <1>9, <1>10 DEF SituationInv, Situation, AtMostOne
  <2>2. Situation(b)'
    BY <1>1, <1>8, <1>9, <1>10 DEF Situation, AtMostOne
  <2>3. QED
    BY <2>1, <2>2 DEF SituationInv
<1>12. AttachedInv'
  <2>1. \A c \in Buffers : Freeing(c)' => Freeing(c)
    BY <1>1 DEF Freeing, OthersSame
  <2>2. QED
    BY <1>1, <1>9, <2>1 DEF AttachedInv, NoAttachments
<1>13. QED
  BY <1>4, <1>5, <1>6, <1>7, <1>11, <1>12

(* The new buffer has one reference.                                       *)
LEMMA GetInitializeInv ==
  ASSUME PoolInv, TypeInv', NEW t \in Threads, GetInitialize(t)
  PROVE  PoolInv'
<1> USE PoolAssumption
    DEF GetInitialize, PoolInv, TypeInv, LocalTypes, BufferTypes, Goto,
        At, poolVars, locals
<1>1. /\ OthersSame(t) /\ stack'[t] = stack[t] /\ pc'[t] = "count"
      /\ pc[t] = "init" /\ buf'[t] = buf[t] /\ hand'[t] = hand[t]
      /\ dest'[t] = dest[t]
      /\ UNCHANGED <<lost, free>>
  BY DEF OthersSame
<1>2. PICK h \in Holders : /\ stack[t] = << >> /\ hand[t] = {h}
                          /\ held[h] = None /\ dest[t] = Client(h)
  BY <1>1, ThreadOf DEF ThreadInv
<1>3. PICK b \in Buffers : b = buf[t]
  BY DEF PointInv
<1>4. /\ refCount'[b] = 1 /\ \A c \in Buffers \ {b} : refCount'[c] = refCount[c]
      /\ \A g \in Holders : held'[g] = IF g = h THEN b ELSE held[g]
  BY <1>2, <1>3
<1>5. /\ Releases(b) = {} /\ RingSlots(b) = {} /\ b \notin lost
      /\ refCount[b] = 0 /\ Acquirers(b)' = {}
      /\ \A c \in Buffers \ {b} : Acquirers(c)' = Acquirers(c)
  BY <1>1, <1>3, LeaveAcquirers DEF Acquiring
<1>6. \A p \in Buffers, r \in Slots : attached'[p][r] = attached[p][r]
  <2>1. NoAttachments(b)
    BY <1>5 DEF AttachedInv
  <2>2. QED
    BY <1>3, <2>1 DEF NoAttachments
<1>7. ThreadsInv'
  <2>1. ThreadInv(t)'
    BY <1>1, <1>2 DEF ThreadInv
  <2>2. \A u \in Threads \ {t} : \A g \in hand[u] : held'[g] = held[g]
    BY <1>2, <1>4 DEF PairInv, HandInv
  <2>3. QED
    BY <1>1, <1>6, <2>1, <2>2, ThreadsKeep
<1>8. PairInv'
  BY <1>1, PairQuiet
<1>9. HomeInv'
  BY <1>1 DEF HomeInv
<1> HIDE DEF GetInitialize, TypeInv, LocalTypes, BufferTypes, Goto, poolVars, locals
<1>10. CountInv'
  <2>1. \A p \in Buffers, r \in Slots : \A c :
          Attaching(p, r, c)' <=> Attaching(p, r, c)
    BY <1>1, <1>6 DEF Attaching, Pending, OthersSame
  <2>2. \A u \in Threads : \A c : Calling(u, c)' <=> Calling(u, c)
    BY <1>1 DEF Calling, OthersSame
  <2>3. \A c \in Buffers : Counted(c)
    BY DEF CountInv
  <2>4. Counted(b)'
    <3>1. /\ held[h] # b
          /\ \A g \in Holders : held'[g] = b <=> held[g] = b \/ g = h
      BY <1>2, <1>4
    <3>2. refCount'[b] = refCount[b] + 1
      BY <1>4, <1>5
    <3>3. QED
      BY ONLY <2>1, <2>2, <2>3, <3>1, <3>2, NewClient
  <2>5. ASSUME NEW c \in Buffers \ {b} PROVE Counted(c)'
    <3>1. \A g \in Holders : held'[g] = c <=> held[g] = c
      BY <1>2, <1>4
    <3>2. QED
      BY ONLY <1>4, <2>1, <2>2, <2>3, <3>1, KeepCount
  <2>6. QED
    BY <2>4, <2>5 DEF CountInv
<1>11. \A c \in Buffers :
         Releases(c)' = Releases(c) /\ RingSlots(c)' = RingSlots(c)
  BY <1>1, SameReleases, SameRingSlots DEF Last
<1>12. SituationInv'
  <2>1. ASSUME NEW c \in Buffers \ {b} PROVE Situation(c)'
    BY <1>1, <1>4, <1>5, <1>11 DEF SituationInv, Situation, AtMostOne
  <2>2. Situation(b)'
    BY <1>1, <1>4, <1>5, <1>11 DEF Situation, AtMostOne
  <2>3. QED
    BY <2>1, <2>2 DEF SituationInv
<1>13. AttachedInv'
  <2>1. \A c \in Buffers : Freeing(c)' => Freeing(c)
    BY <1>1 DEF Freeing, OthersSame
  <2>2. QED
    BY <1>4, <1>6, <1>11, <2>1 DEF AttachedInv, NoAttachments
<1>14. QED
  BY <1>7, <1>8, <1>9, <1>10, <1>12, <1>13

(* The head of the free list goes to t, the others move up.                *)
LEMMA GetExtractInv ==
  ASSUME PoolInv, TypeInv', NEW t \in Threads, GetExtract(t)
  PROVE  PoolInv'
<1> USE PoolAssumption
    DEF GetExtract, PoolInv, TypeInv, LocalTypes, BufferTypes, Goto,
        At, bufferVars
<1>1. /\ OthersSame(t) /\ stack'[t] = stack[t] /\ pc'[t] = "test"
      /\ pc[t] \in {"lock", "retry"} /\ hand'[t] = hand[t]
      /\ dest'[t] = dest[t] /\ outer'[t] = outer[t]
      /\ UNCHANGED <<held, attached, refCount, lost>>
  BY DEF OthersSame
<1>2. ThreadInv(t) /\ buf[t] = None
  BY <1>1, ThreadOf DEF ThreadInv
<1>3. PICK p \in Pools : p = pool[t]
  BY <1>1 DEF PointInv
<1>4. ThreadInv(t)'
  BY <1>1, <1>2 DEF ThreadInv
<1>5. PairInv'
  BY <1>1, PairQuiet
<1>6. CASE free[p] = << >>
  <2>1. UNCHANGED <<free, buf>>
    BY <1>3, <1>6
  <2>2. \A c \in Buffers : /\ Calling(t, c)' <=> Calling(t, c)
                           /\ Acquiring(t, c)' <=> Acquiring(t, c)
                           /\ Last(t, c)' <=> Last(t, c)
    BY <1>1, <1>2, <2>1 DEF Calling, Acquiring, Last
  <2>3. QED
    BY <1>1, <1>4, <1>5, <2>1, <2>2, QuietAction
<1>7. CASE free[p] # << >>
  <2>0. /\ free[p] \in Seq(Buffers) /\ free'[p] = Tail(free[p])
        /\ buf'[t] = Head(free[p])
        /\ \A q \in Pools \ {p} : free'[q] = free[q]
    <3>1. /\ free' = [free EXCEPT ![p] = Tail(free[p])]
          /\ buf' = [buf EXCEPT ![t] = Head(free[p])]
      BY <1>3, <1>7
    <3>2. free \in [Pools -> Seq(Buffers)] /\ buf \in [Threads -> Buffers \cup {None}]
      BY DEF PoolTypes
    <3>3. QED
      BY ONLY <3>1, <3>2, p \in Pools, t \in Threads
  <2>1. PICK n \in Nat \ {0} : n = Len(free[p])
    BY ONLY <1>7, <2>0
  <2>2. PICK b \in Buffers : b = free[p][1]
    BY ONLY <2>0, <2>1
  <2>3. /\ buf'[t] = b /\ Len(free'[p]) = n - 1
        /\ \A k \in 1 .. n - 1 : free'[p][k] = free[p][k + 1]
        /\ \A q \in Pools \ {p} : free'[q] = free[q]
    BY ONLY <1>7, <2>0, <2>1, <2>2
  <2>4. CountInv'
    BY <1>1, <1>2, KeepCounts DEF Calling
  <2>5. ThreadsInv'
    BY <1>1, <1>4, ThreadsKeep
  <2>6. HomeInv'
    <3>1. ASSUME NEW k \in 1 .. n - 1 PROVE PoolOf[free'[p][k]] = p
      <4>1. k + 1 \in 1 .. Len(free[p])
        BY ONLY <2>1, k \in 1 .. n - 1
      <4>2. PoolOf[free[p][k + 1]] = p
        BY <4>1 DEF HomeInv
      <4>3. QED
        BY ONLY <2>3, <4>2, k \in 1 .. n - 1
    <3>2. QED
      BY <2>3, <3>1 DEF HomeInv
  <2> HIDE DEF GetExtract, TypeInv, LocalTypes, BufferTypes, Goto, bufferVars
  <2>7. \A c \in Buffers : Releases(c)' = Releases(c)
    BY <1>1, SameReleases DEF Last
  <2>8. \A q \in Pools : \A k \in 1 .. Len(free'[q]) :
          LET j == IF q = p THEN k + 1 ELSE k IN
          j \in 1 .. Len(free[q]) /\ free'[q][k] = free[q][j]
    BY <2>1, <2>3
  <2>9. \A q \in Pools : \A j \in 1 .. Len(free[q]) :
          (q = p /\ j = 1)
          \/ LET k == IF q = p THEN j - 1 ELSE j IN
             k \in 1 .. Len(free'[q]) /\ free'[q][k] = free[q][j]
    BY <2>1, <2>3
  <2>10. <<p, 1>> \in RingSlots(b)
    BY <2>1, <2>2, InRingSlots
  <2>11. /\ Releases(b) = {} /\ Acquirers(b) = {} /\ b \notin lost
         /\ refCount[b] = 0 /\ \A x \in RingSlots(b) : x = <<p, 1>>
    BY <2>10 DEF SituationInv, Situation, AtMostOne
  <2>12. RingSlots(b)' = {}
    <3>1. ASSUME NEW q \in Pools, NEW k \in 1 .. Len(free'[q]),
                 free'[q][k] = b
          PROVE  FALSE
      <4>1. PICK j \in 1 .. Len(free[q]) :
              j = (IF q = p THEN k + 1 ELSE k) /\ free[q][j] = b
        BY <2>8, <3>1
      <4>2. <<q, j>> \in RingSlots(b)
        BY <4>1, InRingSlots
      <4>3. q = p /\ k + 1 = 1
        BY <2>11, <4>1, <4>2
      <4>4. QED
        BY <4>3
    <3>2. QED
      BY <3>1, InRingSlotsNext
  <2>13. ASSUME NEW c \in Buffers \ {b}
         PROVE  /\ RingSlots(c)' # {} <=> RingSlots(c) # {}
                /\ AtMostOne(RingSlots(c)) => AtMostOne(RingSlots(c)')
    <3>1. ASSUME NEW q \in Pools, NEW k \in 1 .. Len(free'[q]),
                 free'[q][k] = c
          PROVE  <<q, IF q = p THEN k + 1 ELSE k>> \in RingSlots(c)
      BY <2>8, <3>1, InRingSlots
    <3>2. ASSUME NEW q \in Pools, NEW j \in 1 .. Len(free[q]),
                 free[q][j] = c
          PROVE  <<q, IF q = p THEN j - 1 ELSE j>> \in RingSlots(c)'
      BY <2>2, <2>9, <3>2, InRingSlotsNext
    <3>3. RingSlots(c)' # {} <=> RingSlots(c) # {}
      <4>1. ASSUME NEW x \in RingSlots(c) PROVE RingSlots(c)' # {}
        BY <3>2, <4>1, InRingSlots
      <4>2. ASSUME NEW x \in RingSlots(c)' PROVE RingSlots(c) # {}
        BY <3>1, <4>2, InRingSlotsNext
      <4>3. QED
        BY <4>1, <4>2
    <3>4. ASSUME AtMostOne(RingSlots(c)),
                 NEW x \in RingSlots(c)', NEW y \in RingSlots(c)'
          PROVE  x = y
      <4>1. PICK q \in Pools, k \in Nat :
              k \in 1 .. Len(free'[q]) /\ free'[q][k] = c /\ x = <<q, k>>
        BY <3>4, InRingSlotsNext
      <4>2. PICK r \in Pools, l \in Nat :
              l \in 1 .. Len(free'[r]) /\ free'[r][l] = c /\ y = <<r, l>>
        BY <3>4, InRingSlotsNext
      <4>3. <<q, IF q = p THEN k + 1 ELSE k>> =
            <<r, IF r = p THEN l + 1 ELSE l>>
        BY <3>1, <3>4, <4>1, <4>2 DEF AtMostOne
      <4>4. k \in Int /\ l \in Int
        OBVIOUS
      <4>5. QED
        BY <4>1, <4>2, <4>3, <4>4
    <3>5. QED
      BY <3>3, <3>4 DEF AtMostOne
  <2>14. \A u \in Threads, c \in Buffers :
           Acquiring(u, c)' <=> Acquiring(u, c) \/ (u = t /\ c = b)
    BY <1>1, <1>2, <2>3 DEF Acquiring, OthersSame
  <2>15. Acquirers(b)' = {t}
    <3>1. \A u \in Threads : ~Acquiring(u, b)
      BY <2>11, InAcquirers
    <3>2. QED
      BY <2>14, <3>1 DEF Acquirers, Acquiring
  <2>16. \A c \in Buffers \ {b} : Acquirers(c)' = Acquirers(c)
    BY <2>14 DEF Acquirers, Acquiring
  <2>17. SituationInv'
    <3>1. ASSUME NEW c \in Buffers \ {b} PROVE Situation(c)'
      BY <1>1, <2>7, <2>13, <2>16 DEF SituationInv, Situation
    <3>2. Situation(b)'
      BY <1>1, <2>7, <2>11, <2>12, <2>15 DEF Situation, AtMostOne
    <3>3. QED
      BY <3>1, <3>2 DEF SituationInv
  <2>18. AttachedInv'
    <3>1. \A c \in Buffers : Freeing(c)' => Freeing(c)
      BY <1>1 DEF Freeing, OthersSame
    <3>2. QED
      BY <1>1, <2>7, <3>1 DEF AttachedInv, NoAttachments
  <2>19. QED
    BY <1>5, <2>4, <2>5, <2>6, <2>17, <2>18
<1>8. QED
  BY <1>6, <1>7

-----------------------------------------------------------------------------
(* A free list that does not contain one of the pool's buffers has room.   *)
LEMMA RoomForOne ==
  ASSUME PoolInv, NEW p \in Pools, NEW b \in BuffersOf(p), RingSlots(b) = {}
  PROVE  Len(free[p]) < Cardinality(BuffersOf(p))
<1>1. free[p] \in Seq(Buffers)
  BY DEF PoolInv, TypeInv, PoolTypes
<1>2. PICK n \in Nat : n = Len(free[p])
  BY <1>1
<1>3. IsFiniteSet(BuffersOf(p))
  BY PoolAssumption, FS_Subset DEF BuffersOf
<1>4. \A k \in 1 .. n : free[p][k] \in BuffersOf(p) \ {b}
  <2>1. ASSUME NEW k \in 1 .. n, free[p][k] = b PROVE FALSE
    <3>1. <<p, k>> \in RingSlots(b)
      BY <1>2, <2>1, InRingSlots
    <3>2. QED
      BY <3>1
  <2>2. ASSUME NEW k \in 1 .. n PROVE free[p][k] \in BuffersOf(p)
    <3>1. free[p][k] \in Buffers
      BY <1>1, <1>2
    <3>2. PoolOf[free[p][k]] = p
      BY <1>2 DEF PoolInv, HomeInv
    <3>3. QED
      BY <3>1, <3>2 DEF BuffersOf
  <2>3. QED
    BY <2>1, <2>2
<1>5. ASSUME NEW j \in 1 .. n, NEW k \in 1 .. n, free[p][j] = free[p][k]
      PROVE  j = k
  <2>1. PICK c \in Buffers : c = free[p][j]
    BY <1>4 DEF BuffersOf
  <2>2. <<p, j>> \in RingSlots(c) /\ <<p, k>> \in RingSlots(c)
    BY <1>2, <1>5, <2>1, InRingSlots
  <2>3. QED
    BY <2>2 DEF PoolInv, SituationInv, Situation, AtMostOne
<1> DEFINE f == [k \in 1 .. n |-> free[p][k]]
<1>6. f \in Injection(1 .. n, BuffersOf(p) \ {b})
  BY <1>4, <1>5 DEF Injection, IsInjective
<1>7. /\ IsFiniteSet(BuffersOf(p) \ {b})
      /\ Cardinality(BuffersOf(p) \ {b}) = Cardinality(BuffersOf(p)) - 1
  BY <1>3, FS_RemoveElement
<1>8. Cardinality(1 .. n) <= Cardinality(BuffersOf(p) \ {b})
  BY <1>6, <1>7, FS_Injection
<1>9. Cardinality(1 .. n) = n
  BY <1>2, FS_Interval
<1>10. Cardinality(BuffersOf(p)) \in Nat
  BY <1>3, FS_CardinalityType
<1>11. QED
  BY <1>2, <1>7, <1>8, <1>9, <1>10

(* The buffer is put back into the ring, and its release is done.          *)
LEMMA ReleaseFreeInv ==
  ASSUME PoolInv, TypeInv', NEW t \in Threads, ReleaseFree(t)
  PROVE  PoolInv'
<1> USE PoolAssumption DEF PoolInv, At
<1>1. /\ OthersSame(t) /\ pc[t] = "free"
      /\ UNCHANGED <<held, attached, refCount, lost>>
  BY DEF ReleaseFree, Resume, Return, Goto, bufferVars, OthersSame, TypeInv,
         LocalTypes
<1>2. ThreadInv(t) /\ dest[t] = NoPlace
  BY <1>1, ThreadOf DEF ThreadInv
<1>3. PICK b \in Buffers, n \in Nat \ {0} :
        /\ b = buf[t] /\ n = Len(stack[t]) /\ stack[t][n] = b
        /\ <<t, n>> \in Releases(b) /\ refCount[b] = 0
  <2>1. /\ buf[t] \in Buffers /\ stack[t] # << >>
        /\ buf[t] = stack[t][Len(stack[t])] /\ refCount[buf[t]] = 0
        /\ <<t, Len(stack[t])>> \in Releases(buf[t])
    BY <1>1, StackIsReleased
  <2>2. stack[t] \in Seq(Buffers)
    BY DEF TypeInv, LocalTypes
  <2>3. Len(stack[t]) \in Nat \ {0}
    BY ONLY <2>1, <2>2
  <2>4. QED
    BY ONLY <2>1, <2>3
<1>4. PICK p \in Pools : p = PoolOf[b]
  OBVIOUS
<1>5. /\ Acquirers(b) = {} /\ RingSlots(b) = {} /\ b \notin lost
      /\ \A x \in Releases(b) : x = <<t, n>>
  BY <1>3 DEF SituationInv, Situation, AtMostOne
<1>6. PICK m \in Nat : m = Len(free[p]) /\ free[p] \in Seq(Buffers)
  BY DEF TypeInv, PoolTypes
<1>7. /\ Len(free'[p]) = m + 1 /\ free'[p][m + 1] = b
      /\ \A k \in 1 .. m : free'[p][k] = free[p][k]
      /\ \A q \in Pools \ {p} : free'[q] = free[q]
  <2>1. Len(free[p]) < Cardinality(BuffersOf(p))
    BY <1>4, <1>5, RoomForOne DEF BuffersOf
  <2>2. free' = [free EXCEPT ![p] = Append(free[p], b)]
    BY <1>3, <1>4, <2>1 DEF ReleaseFree
  <2>3. free \in [Pools -> Seq(Buffers)]
    BY DEF TypeInv, PoolTypes
  <2>4. free'[p] = Append(free[p], b) /\ \A q \in Pools \ {p} : free'[q] = free[q]
    BY ONLY <2>2, <2>3, p \in Pools
  <2>5. QED
    BY ONLY <1>6, <2>4, b \in Buffers
<1>8. /\ stack'[t] \in Seq(Buffers) /\ Len(stack'[t]) = n - 1
      /\ \A k \in 1 .. n - 1 : stack'[t][k] = stack[t][k]
  <2>1. stack[t] \in Seq(Buffers)
    BY DEF TypeInv, LocalTypes
  <2>2. stack'[t] = SubSeq(stack[t], 1, Len(stack[t]) - 1)
    BY DEF ReleaseFree, TypeInv, LocalTypes
  <2>3. QED
    BY ONLY <1>3, <2>1, <2>2
<1>9. \/ /\ pc'[t] = "idle" /\ stack'[t] = << >> /\ dest'[t] = NoPlace
         /\ buf'[t] = None /\ outer'[t] = None /\ hand'[t] = {}
      \/ /\ pc'[t] = "attachments" /\ stack'[t] # << >>
         /\ buf'[t] = stack'[t][Len(stack'[t])] /\ dest'[t] = dest[t]
         /\ outer'[t] = outer[t] /\ hand'[t] = hand[t]
  BY DEF ReleaseFree, Resume, Return, Goto, TypeInv, LocalTypes
<1>10. ThreadsInv'
  <2>1. ThreadInv(t)'
    BY <1>2, <1>9 DEF ThreadInv
  <2>2. QED
    BY <1>1, <2>1, ThreadsKeep
<1>11. PairInv'
  BY <1>1, <1>2, <1>9, PairQuiet
<1>12. CountInv'
  <2>1. \A c \in Buffers : ~Calling(t, c) /\ ~Calling(t, c)'
    BY <1>1, <1>9 DEF Calling
  <2>2. dest'[t] = dest[t]
    BY <1>2, <1>9
  <2>3. QED
    BY <1>1, <2>1, <2>2, KeepCounts
<1>13. HomeInv'
  <2>1. ASSUME NEW k \in 1 .. m + 1 PROVE PoolOf[free'[p][k]] = p
    <3>1. CASE k = m + 1
      BY <1>4, <1>7, <3>1
    <3>2. CASE k # m + 1
      <4>1. k \in 1 .. m
        BY <3>2
      <4>2. QED
        BY <1>6, <1>7, <4>1 DEF HomeInv
    <3>3. QED
      BY <3>1, <3>2
  <2>2. QED
    BY <1>7, <2>1 DEF HomeInv
<1>14. \A c \in Buffers : Acquirers(c)' = Acquirers(c)
  BY <1>1, <1>9, SameAcquirers DEF Acquiring
<1>15. ASSUME NEW c \in Buffers
       PROVE  /\ c # b => Releases(c)' = Releases(c)
              /\ c = b => Releases(c)' = {}
  <2>1. \A u \in Threads : Last(u, c)' <=> Last(u, c)
    BY <1>1, <1>9 DEF Last, OthersSame
  <2>2. \A u \in Threads \ {t} : stack'[u] = stack[u]
    BY <1>1 DEF OthersSame
  <2>3. \A k : k \in 1 .. Len(stack'[t]) /\ stack'[t][k] = c <=>
               k \in 1 .. Len(stack[t]) /\ stack[t][k] = c /\ k # n
    BY ONLY <1>3, <1>8
  <2>4. ASSUME NEW x
        PROVE  x \in Releases(c)' <=> x \in Releases(c) /\ ~(c = b /\ x = <<t, n>>)
    <3>1. ASSUME x \in Releases(c)', c = b => x # <<t, n>>
          PROVE  x \in Releases(c)
      BY <2>1, <2>2, <2>3, <3>1, InReleases, InReleasesNext
    <3>2. ASSUME x \in Releases(c), c = b => x # <<t, n>>
          PROVE  x \in Releases(c)'
      BY <1>3, <2>1, <2>2, <2>3, <3>2, InReleases, InReleasesNext
    <3>3. <<t, n>> \notin Releases(c)'
      BY <2>3, InReleasesNext
    <3>4. QED
      BY <3>1, <3>2, <3>3
  <2>5. QED
    BY <1>5, <2>4
<1>16. ASSUME NEW c \in Buffers
       PROVE  /\ c # b => RingSlots(c)' = RingSlots(c)
              /\ c = b => RingSlots(c)' = {<<p, m + 1>>}
  <2>1. \A k : k \in 1 .. Len(free'[p]) /\ free'[p][k] = c <=>
               \/ k \in 1 .. Len(free[p]) /\ free[p][k] = c
               \/ k = m + 1 /\ c = b
    BY ONLY <1>6, <1>7
  <2>2. ASSUME NEW x
        PROVE  x \in RingSlots(c)' <=>
                 x \in RingSlots(c) \/ (c = b /\ x = <<p, m + 1>>)
    BY <1>7, <2>1, InRingSlots, InRingSlotsNext
  <2>3. QED
    BY <1>5, <2>2
<1>17. SituationInv'
  <2>1. ASSUME NEW c \in Buffers \ {b} PROVE Situation(c)'
    BY <1>1, <1>14, <1>15, <1>16 DEF SituationInv, Situation, AtMostOne
  <2>2. Releases(b)' = {} /\ RingSlots(b)' = {<<p, m + 1>>} /\ Acquirers(b)' = {}
    BY <1>5, <1>14, <1>15, <1>16
  <2>3. Situation(b)'
    BY <1>1, <1>3, <1>5, <2>2 DEF Situation, AtMostOne
  <2>4. QED
    BY <2>1, <2>3 DEF SituationInv
<1>18. AttachedInv'
  <2>1. \A c \in Buffers : Freeing(c)' => Freeing(c)
    BY <1>1, <1>9 DEF Freeing, OthersSame
  <2>2. NoAttachments(b)
    BY <1>1, <1>3 DEF AttachedInv, Freeing
  <2>3. QED
    BY <1>1, <1>15, <2>1, <2>2 DEF AttachedInv, NoAttachments
<1>19. QED
  BY <1>10, <1>11, <1>12, <1>13, <1>17, <1>18

-----------------------------------------------------------------------------
(* At first every buffer is once in the ring of its pool.                  *)
LEMMA OrderingSlots ==
  ASSUME TypeInv, \A p \in Pools : IsOrdering(free[p], BuffersOf(p)),
         NEW b \in Buffers
  PROVE  RingSlots(b) # {} /\ AtMostOne(RingSlots(b))
<1> USE PoolAssumption
<1>1. PICK p \in Pools : p = PoolOf[b]
  OBVIOUS
<1>2. IsFiniteSet(BuffersOf(p)) /\ b \in BuffersOf(p)
  BY <1>1, FS_Subset DEF BuffersOf
<1>3. PICK n \in Nat : n = Len(free[p])
  BY DEF TypeInv, PoolTypes
<1>4. /\ n = Cardinality(BuffersOf(p))
      /\ \A k \in 1 .. n : free[p][k] \in BuffersOf(p)
      /\ \A j, k \in 1 .. n : free[p][j] = free[p][k] => j = k
  BY <1>3 DEF IsOrdering
<1> DEFINE f == [k \in 1 .. n |-> free[p][k]]
<1>5. f \in Injection(1 .. n, BuffersOf(p))
  BY <1>4 DEF Injection, IsInjective
<1>6. Cardinality(1 .. n) = n
  BY <1>3, FS_Interval
<1>7. f \in Surjection(1 .. n, BuffersOf(p))
  BY <1>2, <1>4, <1>5, <1>6, FS_Injection
<1>8. PICK k \in 1 .. n : free[p][k] = b
  BY <1>2, <1>7 DEF Surjection
<1>9. <<p, k>> \in RingSlots(b)
  BY <1>3, <1>8, InRingSlots
<1>10. ASSUME NEW x \in RingSlots(b) PROVE x = <<p, k>>
  <2>1. PICK q \in Pools : \E j \in 1 .. Len(free[q]) :
          free[q][j] = b /\ x = <<q, j>>
    BY <1>10, InRingSlots
  <2>2. b \in BuffersOf(q)
    BY <2>1 DEF IsOrdering
  <2>3. q = p
    BY <1>1, <2>2 DEF BuffersOf
  <2>4. QED
    BY <1>3, <1>4, <1>8, <2>1, <2>3
<1>11. QED
  BY <1>9, <1>10 DEF AtMostOne

(* The invariant is inductive.                                             *)
LEMMA InitInv == Init => PoolInv
<1> SUFFICES ASSUME Init PROVE PoolInv
  OBVIOUS
<1>1. TypeInv
  BY InitTypes
<1>2. /\ \A p \in Pools : IsOrdering(free[p], BuffersOf(p))
      /\ refCount = [b \in Buffers |-> 0]
      /\ attached = [b \in Buffers |-> [s \in Slots |-> None]]
      /\ held = [h \in Holders |-> None] /\ lost = {}
      /\ pc = [t \in Threads |-> "idle"] /\ buf = [t \in Threads |-> None]
      /\ outer = [t \in Threads |-> None]
      /\ dest = [t \in Threads |-> NoPlace]
      /\ hand = [t \in Threads |-> {}] /\ stack = [t \in Threads |-> << >>]
  BY DEF Init
<1>3. ThreadsInv
  BY <1>2 DEF ThreadsInv, ThreadInv
<1>4. PairInv
  BY <1>2, PlacesDiffer DEF PairInv, HandInv, DetachInv, DestInv
<1>5. CountInv
  <2> SUFFICES ASSUME NEW b \in Buffers PROVE Counted(b)
    BY DEF CountInv
  <2>1. \A x : x \notin References(b)
    BY <1>2, PoolAssumption, InReferences DEF Attaching, Calling
  <2>2. References(b) = {}
    BY <2>1
  <2>3. QED
    BY <1>2, <2>2, FS_EmptySet DEF Counted
<1>6. AttachedInv
  BY <1>2 DEF AttachedInv, NoAttachments
<1>7. HomeInv
  BY <1>2 DEF HomeInv, IsOrdering, BuffersOf
<1>8. SituationInv
  <2> SUFFICES ASSUME NEW b \in Buffers PROVE Situation(b)
    BY DEF SituationInv
  <2>1. Releases(b) = {}
    <3>1. \A t \in Threads : ~Last(t, b) /\ 1 .. Len(stack[t]) = {}
      BY <1>2 DEF Last, At
    <3>2. QED
      BY <3>1, InReleases
  <2>2. Acquirers(b) = {}
    BY <1>2 DEF Acquirers
  <2>3. RingSlots(b) # {} /\ AtMostOne(RingSlots(b))
    BY <1>1, <1>2, OrderingSlots
  <2>4. QED
    BY <1>2, <2>1, <2>2, <2>3 DEF Situation, AtMostOne
<1>9. QED
  BY <1>1, <1>3, <1>4, <1>5, <1>6, <1>7, <1>8 DEF PoolInv

LEMMA StutterInv == PoolInv /\ UNCHANGED vars => PoolInv'
<1> SUFFICES ASSUME PoolInv, UNCHANGED vars PROVE PoolInv'
  OBVIOUS
<1> USE DEF PoolInv, vars, poolVars, bufferVars, locals
<1>1. TypeInv'
  BY DEF TypeInv, PoolTypes, BufferTypes, LocalTypes, LockInv, PointInv
<1>2. ThreadsInv'
  BY DEF ThreadsInv, ThreadInv, Has
<1>3. PairInv'
  BY DEF PairInv, HandInv, DetachInv, DestInv
<1>4. ASSUME NEW b \in Buffers
      PROVE  /\ Releases(b)' = Releases(b) /\ Acquirers(b)' = Acquirers(b)
             /\ RingSlots(b)' = RingSlots(b) /\ References(b)' = References(b)
             /\ Freeing(b)' <=> Freeing(b)
  BY DEF Releases, Acquirers, RingSlots, References, Pending, Freeing, At
<1>5. SituationInv'
  BY <1>4 DEF SituationInv, Situation, AtMostOne
<1>6. AttachedInv'
  BY <1>4 DEF AttachedInv, NoAttachments
<1>7. CountInv' /\ HomeInv'
  BY <1>4 DEF CountInv, Counted, HomeInv
<1>8. QED
  BY <1>1, <1>2, <1>3, <1>5, <1>6, <1>7

LEMMA NextInv == PoolInv /\ [Next]_vars => PoolInv'
<1> SUFFICES ASSUME PoolInv, [Next]_vars PROVE PoolInv'
  OBVIOUS
<1>1. TypeInv'
  BY NextTypes DEF PoolInv
<1>2. CASE UNCHANGED vars
  BY <1>2, StutterInv
<1>3. ASSUME NEW t \in Threads, Start(t) PROVE PoolInv'
  BY <1>1, <1>3, AbortBlockingGetBufferInv, GetBufferInv,
     IncrementReferenceCountInv, AttachBufferInv, DetachBufferInv,
     DecrementReferenceCountInv DEF Start
<1>4. ASSUME NEW t \in Threads, Quiet(t) PROVE PoolInv'
  BY <1>1, <1>4, QuietInv
<1>5. ASSUME NEW t \in Threads, GetStep(t) PROVE PoolInv'
  BY <1>1, <1>4, <1>5, GetExtractInv, GetNoMemoryInv, GetInitializeInv
     DEF GetStep, Quiet
<1>6. ASSUME NEW t \in Threads, CountStep(t) PROVE PoolInv'
  BY <1>1, <1>4, <1>6, IncrementInv, DecrementInv, DecrementReturnInv,
     AttachSlotInv, DetachSlotInv DEF CountStep, Quiet
<1>7. ASSUME NEW t \in Threads, ReleaseStep(t) PROVE PoolInv'
  BY <1>1, <1>7, ReleaseBufferInv, ReleaseAttachedInv, ReleaseUnlockInv,
     ReleaseFreeInv DEF ReleaseStep
<1>8. ASSUME NEW t \in Threads, AbortSignal(t) PROVE PoolInv'
  BY <1>4, <1>8 DEF Quiet
<1>9. QED
  BY <1>2, <1>3, <1>5, <1>6, <1>7, <1>8 DEF Next, Step

-----------------------------------------------------------------------------
(* A set of at most one element has one element if it is not empty.        *)
LEMMA AtMostOneCardinality ==
  ASSUME NEW S, AtMostOne(S)
  PROVE  Cardinality(S) = IF S = {} THEN 0 ELSE 1
<1>1. CASE S = {}
  BY <1>1, FS_EmptySet
<1>2. CASE S # {}
  <2>1. PICK x \in S : S = {x}
    BY <1>2 DEF AtMostOne
  <2>2. QED
    BY <1>2, <2>1, FS_Singleton
<1>3. QED
  BY <1>1, <1>2

(* The situations, counted.                                                *)
LEMMA SituationIsOne == PoolInv => OneSituation
<1> SUFFICES ASSUME PoolInv, NEW b \in Buffers
             PROVE  Cardinality(Releases(b)) + Cardinality(Acquirers(b))
                      + Cardinality(RingSlots(b))
                      + (IF b \in lost THEN 1 ELSE 0)
                      + (IF refCount[b] # 0 THEN 1 ELSE 0) = 1
  BY DEF OneSituation
<1>1. Situation(b)
  BY DEF PoolInv, SituationInv
<1>2. /\ Cardinality(Releases(b)) = IF Releases(b) = {} THEN 0 ELSE 1
      /\ Cardinality(Acquirers(b)) = IF Acquirers(b) = {} THEN 0 ELSE 1
      /\ Cardinality(RingSlots(b)) = IF RingSlots(b) = {} THEN 0 ELSE 1
  BY <1>1, AtMostOneCardinality DEF Situation
<1>3. QED
  BY <1>1, <1>2 DEF Situation

(* Buffer_Generic_c, lines 666-742: whatever threads share, attach, detach *)
(* and release, the reference count of a buffer is the number of client    *)
(* variables, attachments and calls under way that refer to it.            *)
THEOREM ReferencesAreCounted == Spec => []CountsReferences
<1>1. Spec => []PoolInv
  BY InitInv, NextInv, PTL DEF Spec
<1>2. PoolInv => CountsReferences
  BY DEF PoolInv, CountInv, Counted, CountsReferences
<1>3. QED
  BY <1>1, <1>2, PTL

(* Lines 699-705 of buffer_individual_generic.cpp: "only one will do the   *)
(* actual release".  No buffer is released twice, is in the ring twice, or *)
(* is free while it is referred to, and none disappears but by a GetBuffer *)
(* that gets no memory.                                                    *)
THEOREM BuffersHaveOneSituation == Spec => []OneSituation
<1>1. Spec => []PoolInv
  BY InitInv, NextInv, PTL DEF Spec
<1>2. QED
  BY <1>1, SituationIsOne, PTL
=============================================================================
