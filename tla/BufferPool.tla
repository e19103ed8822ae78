----------------------------- MODULE BufferPool -----------------------------
(***************************************************************************)
(* The reference-counted buffers of the player: class BufferPool_Generic_c *)
(* (player/buffer/buffer_pool_generic.cpp) and class Buffer_Generic_c      *)
(* (player/buffer/buffer_individual_generic.cpp).                          *)
(*                                                                         *)
(* A pool has a fixed number of buffers (every CreatePool of the player    *)
(* names one); a ring holds the free ones.  The ring is used under the     *)
(* pool's lock and without blocking, so it is the queue that RingGeneric   *)
(* implements.  A reference is kept by a client variable (`held'), by an   *)
(* attachment slot of another buffer, or by a call that is giving it up.   *)
(*                                                                         *)
(* A short critical section is one step, taken while its lock is free; the *)
(* two sections that last (the loop of GetBuffer and the loop of           *)
(* ReleaseBuffer over the attached buffers) keep the lock across steps.    *)
(* What the code does without a lock is a step of its own.                 *)
(***************************************************************************)
EXTENDS Integers, Sequences, FiniteSets

CONSTANTS
  Threads,      \* the processes of the player
  Pools,        \* the buffer pools
  Buffers,      \* all their buffers
  PoolOf,       \* the pool of each buffer
  Attachable,   \* pairs of pools: buffers of the second are attached to the first
  Transient,    \* the pools whose memory GetBuffer allocates: it may fail
  Aborted,      \* the pools on which AbortBlockingGetBuffer is called
  Getters,      \* per pool: the threads that get buffers from it
  Holders,      \* the client variables that keep a reference
  MaxAttached,  \* MAX_ATTACHED_BUFFERS
  Modes,        \* the values of NonBlocking
  None

Slots == 1 .. MaxAttached

ASSUME PoolAssumption ==
  /\ PoolOf \in [Buffers -> Pools]
  /\ Attachable \subseteq Pools \X Pools
  /\ Transient \subseteq Pools /\ Aborted \subseteq Pools
  /\ Getters \in [Pools -> SUBSET Threads]
  /\ MaxAttached \in Nat \ {0}
  /\ Modes \subseteq BOOLEAN
  /\ IsFiniteSet(Threads) /\ IsFiniteSet(Buffers) /\ IsFiniteSet(Holders)
  /\ None \notin Threads \cup Buffers \cup Holders \cup Pools

BuffersOf(p) == {b \in Buffers : PoolOf[b] = p}

VARIABLES
  free,         \* per pool: FreeBuffer
  poolCount,    \* per pool: ReferenceCount
  referenced,   \* per pool: CountOfReferencedBuffers
  abort,        \* per pool: AbortGetBuffer
  valid,        \* per pool: the Valid flag of BufferReleaseSignal
  waitedOn,     \* per pool: BufferReleaseSignalWaitedOn
  poolLock,     \* per pool: the thread that holds Lock across steps
  refCount,     \* per buffer: ReferenceCount
  attached,     \* per buffer: AttachedBuffers
  bufLock,      \* per buffer: the thread that holds Lock across steps
  lost,         \* the buffers dropped by a GetBuffer that failed
  held,         \* per holder: the buffer it refers to
  pc,           \* per thread: where it is
  pool,         \* per thread: the pool of its GetBuffer or abort
  nonBlocking,  \* per thread: the argument NonBlocking of its GetBuffer
  buf,          \* per thread: the buffer it works on
  outer,        \* per thread: the buffer it attaches to or detaches from
  after,        \* per thread: ReferenceCountAfterDecrement
  dest,         \* per thread: the place its new reference will be kept in
  hand,         \* per thread: the holders its call uses
  stack         \* per thread: the buffers it is releasing, innermost last

poolVars   == <<free, poolCount, referenced, abort, valid, waitedOn, poolLock>>
bufferVars == <<refCount, attached, bufLock, lost, held>>
locals     == <<pool, nonBlocking, buf, outer, after, dest, hand, stack>>
vars       == <<poolVars, bufferVars, pc, locals>>

Client(h)    == <<"client", h, 0>>      \* the places of references
Attachment(b, s) == <<"attachment", b, s>>
Call(t)      == <<"call", t, 0>>
NoPlace      == <<"nowhere", None, 0>>

At(t, l)     == pc[t] = l
Goto(t, l)   == pc' = [pc EXCEPT ![t] = l]
InUse(h)     == \E t \in Threads : h \in hand[t]
Holds(h, b)  == held[h] = b /\ ~InUse(h)
Vacant(h)    == Holds(h, None)

\* the first slot of b that contains x
FirstSlot(b, s, x) ==
  /\ attached[b][s] = x
  /\ \A r \in Slots : r < s => attached[b][r] # x

\* s is the elements of S in some order
IsOrdering(s, S) ==
  /\ Len(s) = Cardinality(S)
  /\ \A k \in 1 .. Len(s) : s[k] \in S
  /\ \A j, k \in 1 .. Len(s) : s[j] = s[k] => j = k

Init ==
  /\ free \in [Pools -> UNION {[1 .. n -> Buffers] : n \in 0 .. Cardinality(Buffers)}]
  /\ \A p \in Pools : IsOrdering(free[p], BuffersOf(p))
  /\ poolCount = [p \in Pools |-> 0]
  /\ referenced = [p \in Pools |-> 0]
  /\ abort = [p \in Pools |-> FALSE]
  /\ valid = [p \in Pools |-> FALSE]
  /\ waitedOn = [p \in Pools |-> FALSE]
  /\ poolLock = [p \in Pools |-> None]
  /\ refCount = [b \in Buffers |-> 0]
  /\ attached = [b \in Buffers |-> [s \in Slots |-> None]]
  /\ bufLock = [b \in Buffers |-> None]
  /\ lost = {}
  /\ held = [h \in Holders |-> None]
  /\ pc = [t \in Threads |-> "idle"]
  /\ pool = [t \in Threads |-> None]
  /\ nonBlocking = [t \in Threads |-> FALSE]
  /\ buf = [t \in Threads |-> None]
  /\ outer = [t \in Threads |-> None]
  /\ after = [t \in Threads |-> 0]
  /\ dest = [t \in Threads |-> NoPlace]
  /\ hand = [t \in Threads |-> {}]
  /\ stack = [t \in Threads |-> << >>]

\* a call returns to its caller, its locals are gone
Return(t) ==
  /\ Goto(t, "idle")
  /\ pool' = [pool EXCEPT ![t] = None]
  /\ nonBlocking' = [nonBlocking EXCEPT ![t] = FALSE]
  /\ buf' = [buf EXCEPT ![t] = None]
  /\ outer' = [outer EXCEPT ![t] = None]
  /\ after' = [after EXCEPT ![t] = 0]
  /\ dest' = [dest EXCEPT ![t] = NoPlace]
  /\ hand' = [hand EXCEPT ![t] = {}]

(***************************************************************************)
(* GetBuffer                                                               *)
(***************************************************************************)
GetBuffer(t, p, h, nb) ==
  /\ At(t, "idle") /\ t \in Getters[p] /\ Vacant(h)
  /\ abort' = [abort EXCEPT ![p] = FALSE]
  /\ pool' = [pool EXCEPT ![t] = p]
  /\ nonBlocking' = [nonBlocking EXCEPT ![t] = nb]
  /\ dest' = [dest EXCEPT ![t] = Client(h)]
  /\ hand' = [hand EXCEPT ![t] = {h}]
  /\ Goto(t, "lock")
  /\ UNCHANGED <<free, poolCount, referenced, valid, waitedOn, poolLock,
                 bufferVars, buf, outer, after, stack>>

\* the head of the loop: reset the event, then try the ring
GetExtract(t) == LET p == pool[t] IN
  /\ \/ At(t, "lock") /\ poolLock[p] = None
     \/ At(t, "retry")
  /\ poolLock' = [poolLock EXCEPT ![p] = t]
  /\ valid' = [valid EXCEPT ![p] = FALSE]
  /\ \/ /\ free[p] # << >>
        /\ buf' = [buf EXCEPT ![t] = Head(free[p])]
        /\ free' = [free EXCEPT ![p] = Tail(free[p])]
     \/ /\ free[p] = << >>
        /\ UNCHANGED <<free, buf>>
  /\ Goto(t, "test")
  /\ UNCHANGED <<poolCount, referenced, abort, waitedOn, bufferVars, pool,
                 nonBlocking, outer, after, dest, hand, stack>>

GetGot(t) == LET p == pool[t] IN
  /\ At(t, "test") /\ buf[t] # None
  /\ poolLock' = [poolLock EXCEPT ![p] = None]
  /\ Goto(t, IF p \in Transient THEN "memory" ELSE "init")
  /\ UNCHANGED <<free, poolCount, referenced, abort, valid, waitedOn,
                 bufferVars, locals>>

\* Mutant: AbortGetBuffer is not looked at
GivesUpDeaf(t) == nonBlocking[t]

\* does GetBuffer stop trying?
GivesUp(t) == nonBlocking[t] \/ abort[pool[t]]

\* Mutant: waits for a buffer even when it has one
GetSleepAnyway(t) == LET p == pool[t] IN
  /\ At(t, "test")
  /\ ~GivesUp(t)
  /\ waitedOn' = [waitedOn EXCEPT ![p] = TRUE]
  /\ poolLock' = [poolLock EXCEPT ![p] = None]
  /\ Goto(t, "wait")
  /\ UNCHANGED <<free, poolCount, referenced, abort, valid, bufferVars, locals>>

GetSleep(t) == LET p == pool[t] IN
  /\ At(t, "test") /\ buf[t] = None
  /\ ~GivesUp(t)
  /\ waitedOn' = [waitedOn EXCEPT ![p] = TRUE]
  /\ poolLock' = [poolLock EXCEPT ![p] = None]
  /\ Goto(t, "wait")
  /\ UNCHANGED <<free, poolCount, referenced, abort, valid, bufferVars, locals>>

GetNoSleep(t) ==
  /\ At(t, "test") /\ buf[t] = None
  /\ GivesUp(t)
  /\ Goto(t, "again")
  /\ UNCHANGED <<poolVars, bufferVars, locals>>

GetWake(t) ==
  /\ At(t, "wait") /\ valid[pool[t]]
  /\ Goto(t, "relock")
  /\ UNCHANGED <<poolVars, bufferVars, locals>>

GetTimeOut(t) ==                        \* BUFFER_MAXIMUM_EVENT_WAIT
  /\ At(t, "wait") /\ ~valid[pool[t]]
  /\ Goto(t, "relock")
  /\ UNCHANGED <<poolVars, bufferVars, locals>>

GetRelock(t) == LET p == pool[t] IN
  /\ At(t, "relock") /\ poolLock[p] = None
  /\ poolLock' = [poolLock EXCEPT ![p] = t]
  /\ waitedOn' = [waitedOn EXCEPT ![p] = FALSE]
  /\ Goto(t, "again")
  /\ UNCHANGED <<free, poolCount, referenced, abort, valid, bufferVars, locals>>

\* Mutant: the loop waits again without trying the ring
GetAgainNoExtract(t) ==
  /\ At(t, "again")
  /\ ~GivesUp(t)
  /\ Goto(t, "test")
  /\ UNCHANGED <<poolVars, bufferVars, locals>>

\* the end of the loop reads AbortGetBuffer once more
GetAgain(t) ==
  /\ At(t, "again")
  /\ ~GivesUp(t)
  /\ Goto(t, "retry")
  /\ UNCHANGED <<poolVars, bufferVars, locals>>

GetNoFreeBuffer(t) ==
  /\ At(t, "again")
  /\ GivesUp(t)
  /\ poolLock' = [poolLock EXCEPT ![pool[t]] = None]
  /\ Return(t)
  /\ UNCHANGED <<free, poolCount, referenced, abort, valid, waitedOn,
                 bufferVars, stack>>

\* AllocateMemoryBlock; when it fails GetBuffer returns without the buffer
GetMemory(t) ==
  /\ At(t, "memory")
  /\ Goto(t, "init")
  /\ UNCHANGED <<poolVars, bufferVars, locals>>

GetNoMemory(t) ==
  /\ At(t, "memory")
  /\ lost' = lost \cup {buf[t]}
  /\ Return(t)
  /\ UNCHANGED <<poolVars, refCount, attached, bufLock, held, stack>>

\* the fields of the new buffer are set without a lock
GetInitialize(t) == LET b == buf[t] IN
  /\ At(t, "init")
  /\ refCount' = [refCount EXCEPT ![b] = 1]
  /\ attached' = [attached EXCEPT ![b] = [s \in Slots |-> None]]
  /\ \E h \in hand[t] : held' = [held EXCEPT ![h] = b]
  /\ Goto(t, "count")
  /\ UNCHANGED <<poolVars, bufLock, lost, locals>>

GetCount(t) == LET p == pool[t] IN
  /\ At(t, "count") /\ poolLock[p] = None
  /\ poolCount' = [poolCount EXCEPT ![p] = @ + 1]
  /\ referenced' = [referenced EXCEPT ![p] = @ + 1]
  /\ Return(t)
  /\ UNCHANGED <<free, abort, valid, waitedOn, poolLock, bufferVars, stack>>

(***************************************************************************)
(* AbortBlockingGetBuffer                                                  *)
(***************************************************************************)
AbortBlockingGetBuffer(t, p) ==
  /\ At(t, "idle") /\ p \in Aborted
  /\ abort' = [abort EXCEPT ![p] = TRUE]
  /\ pool' = [pool EXCEPT ![t] = p]
  /\ Goto(t, "signal")
  /\ UNCHANGED <<free, poolCount, referenced, valid, waitedOn, poolLock,
                 bufferVars, nonBlocking, buf, outer, after, dest, hand, stack>>

AbortSignal(t) ==
  /\ At(t, "signal")
  /\ valid' = [valid EXCEPT ![pool[t]] = TRUE]
  /\ Return(t)
  /\ UNCHANGED <<free, poolCount, referenced, abort, waitedOn, poolLock,
                 bufferVars, stack>>

(***************************************************************************)
(* IncrementReferenceCount.  A client acts on a buffer through a holder    *)
(* that refers to it, and leaves that holder alone until the call returns. *)
(***************************************************************************)
IncrementReferenceCount(t, h, new) ==
  /\ At(t, "idle")
  /\ held[h] # None /\ ~InUse(h)
  /\ Vacant(new)
  /\ buf' = [buf EXCEPT ![t] = held[h]]
  /\ dest' = [dest EXCEPT ![t] = Client(new)]
  /\ hand' = [hand EXCEPT ![t] = {h, new}]
  /\ Goto(t, "incPool")
  /\ UNCHANGED <<poolVars, bufferVars, pool, nonBlocking, outer, after, stack>>

IncrementPool(t) == LET p == PoolOf[buf[t]] IN
  /\ At(t, "incPool") /\ poolLock[p] = None
  /\ poolCount' = [poolCount EXCEPT ![p] = @ + 1]
  /\ Goto(t, "inc")
  /\ UNCHANGED <<free, referenced, abort, valid, waitedOn, poolLock,
                 bufferVars, locals>>

Increment(t) == LET b == buf[t] IN
  /\ At(t, "inc") /\ bufLock[b] = None
  /\ refCount' = [refCount EXCEPT ![b] = @ + 1]
  /\ held' = [h \in Holders |-> IF dest[t] = Client(h) THEN b ELSE held[h]]
  /\ Return(t)
  /\ UNCHANGED <<poolVars, attached, bufLock, lost, stack>>

(***************************************************************************)
(* AttachBuffer and DetachBuffer: the slot changes under the lock of the   *)
(* outer buffer, the count of the inner one after that lock is given back. *)
(* Clients do not attach and detach one pair of buffers at the same time.  *)
(***************************************************************************)
Changing(o, i, labels) ==
  \E u \in Threads : /\ outer[u] = o /\ buf[u] = i
                     /\ pc[u] \in labels

AttachBuffer(t, ho, hi) == LET o == held[ho]
                               i == held[hi] IN
  /\ At(t, "idle")
  /\ o # None /\ i # None /\ ~InUse(ho) /\ ~InUse(hi)
  /\ <<PoolOf[o], PoolOf[i]>> \in Attachable
  /\ ~Changing(o, i, {"detach"})
  /\ outer' = [outer EXCEPT ![t] = o]
  /\ buf' = [buf EXCEPT ![t] = i]
  /\ hand' = [hand EXCEPT ![t] = {ho, hi}]
  /\ Goto(t, "attach")
  /\ UNCHANGED <<poolVars, bufferVars, pool, nonBlocking, after, dest, stack>>

\* Mutant: the attached buffer's own count is not incremented
AttachSlotUncounted(t) == LET o == outer[t] IN
  /\ At(t, "attach") /\ bufLock[o] = None
  /\ \E s \in Slots : /\ FirstSlot(o, s, None)
                     /\ attached' = [attached EXCEPT ![o][s] = buf[t]]
  /\ Return(t)
  /\ UNCHANGED <<poolVars, refCount, bufLock, lost, held, stack>>

AttachSlot(t) == LET o == outer[t] IN
  /\ At(t, "attach") /\ bufLock[o] = None
  /\ \E s \in Slots :
       /\ FirstSlot(o, s, None)
       /\ attached' = [attached EXCEPT ![o][s] = buf[t]]
       /\ dest' = [dest EXCEPT ![t] = Attachment(o, s)]
  /\ Goto(t, "incPool")
  /\ UNCHANGED <<poolVars, refCount, bufLock, lost, held, pool, nonBlocking,
                 buf, outer, after, hand, stack>>

AttachTooMany(t) == LET o == outer[t] IN
  /\ At(t, "attach") /\ bufLock[o] = None
  /\ \A s \in Slots : attached[o][s] # None
  /\ Return(t)
  /\ UNCHANGED <<poolVars, bufferVars, stack>>

DetachBuffer(t, ho, i) == LET o == held[ho] IN
  /\ At(t, "idle")
  /\ o # None /\ ~InUse(ho)
  /\ <<PoolOf[o], PoolOf[i]>> \in Attachable
  /\ ~Changing(o, i, {"attach", "incPool", "inc"})
  /\ outer' = [outer EXCEPT ![t] = o]
  /\ buf' = [buf EXCEPT ![t] = i]
  /\ hand' = [hand EXCEPT ![t] = {ho}]
  /\ Goto(t, "detach")
  /\ UNCHANGED <<poolVars, bufferVars, pool, nonBlocking, after, dest, stack>>

\* Mutant: the slot is not cleared
DetachSlotKept(t) == LET o == outer[t] IN
  /\ At(t, "detach") /\ bufLock[o] = None
  /\ \E s \in Slots : FirstSlot(o, s, buf[t])
  /\ Goto(t, "decPool")
  /\ UNCHANGED <<poolVars, bufferVars, locals>>

DetachSlot(t) == LET o == outer[t] IN
  /\ At(t, "detach") /\ bufLock[o] = None
  /\ \E s \in Slots :
       /\ FirstSlot(o, s, buf[t])
       /\ attached' = [attached EXCEPT ![o][s] = None]
  /\ Goto(t, "decPool")
  /\ UNCHANGED <<poolVars, refCount, bufLock, lost, held, locals>>

DetachNotFound(t) == LET o == outer[t] IN
  /\ At(t, "detach") /\ bufLock[o] = None
  /\ \A s \in Slots : attached[o][s] # buf[t]
  /\ Return(t)
  /\ UNCHANGED <<poolVars, bufferVars, stack>>

(***************************************************************************)
(* DecrementReferenceCount                                                 *)
(***************************************************************************)
DecrementReferenceCount(t, h) ==
  /\ At(t, "idle")
  /\ held[h] # None /\ ~InUse(h)
  /\ buf' = [buf EXCEPT ![t] = held[h]]
  /\ held' = [held EXCEPT ![h] = None]
  /\ Goto(t, "decPool")
  /\ UNCHANGED <<poolVars, refCount, attached, bufLock, lost, pool,
                 nonBlocking, outer, after, dest, hand, stack>>

DecrementPool(t) == LET p == PoolOf[buf[t]] IN
  /\ At(t, "decPool") /\ poolLock[p] = None
  /\ poolCount' = [poolCount EXCEPT ![p] = @ - 1]
  /\ Goto(t, "dec")
  /\ UNCHANGED <<free, referenced, abort, valid, waitedOn, poolLock,
                 bufferVars, locals>>

Decrement(t) == LET b == buf[t] IN
  /\ At(t, "dec") /\ bufLock[b] = None
  /\ refCount' = [refCount EXCEPT ![b] = @ - 1]
  /\ after' = [after EXCEPT ![t] = refCount[b] - 1]
  /\ Goto(t, "after")
  /\ UNCHANGED <<poolVars, attached, bufLock, lost, held, pool, nonBlocking,
                 buf, outer, dest, hand, stack>>

\* the caller of this call is a client, or ReleaseBuffer for the outer buffer
Resume(t, callers) ==
  \/ /\ callers = << >>
     /\ Return(t)
  \/ /\ callers # << >>
     /\ buf' = [buf EXCEPT ![t] = callers[Len(callers)]]
     /\ Goto(t, "attachments")
     /\ UNCHANGED <<pool, nonBlocking, outer, after, dest, hand>>

\* Mutant: the count is read again, instead of the copy taken under the lock
LastReferenceReread(t) == refCount[buf[t]] = 0

LastReference(t) == after[t] = 0

DecrementReturn(t) ==
  /\ At(t, "after") /\ ~LastReference(t)
  /\ Resume(t, stack[t])
  /\ UNCHANGED <<poolVars, bufferVars, stack>>

(***************************************************************************)
(* ReleaseBuffer                                                           *)
(***************************************************************************)
ReleaseBuffer(t) == LET b == buf[t] IN
  /\ At(t, "after") /\ LastReference(t)
  /\ bufLock[b] = None
  /\ bufLock' = [bufLock EXCEPT ![b] = t]
  /\ stack' = [stack EXCEPT ![t] = Append(@, b)]
  /\ Goto(t, "attachments")
  /\ UNCHANGED <<poolVars, refCount, attached, lost, held, pool, nonBlocking,
                 buf, outer, after, dest, hand>>

ReleaseAttached(t) == LET b == buf[t] IN
  /\ At(t, "attachments")
  /\ \E s \in Slots :
       /\ attached[b][s] # None
       /\ \A r \in Slots : r < s => attached[b][r] = None
       /\ attached' = [attached EXCEPT ![b][s] = None]
       /\ buf' = [buf EXCEPT ![t] = attached[b][s]]
  /\ Goto(t, "decPool")
  /\ UNCHANGED <<poolVars, refCount, bufLock, lost, held, pool, nonBlocking,
                 outer, after, dest, hand, stack>>

\* Mutant: the lock of the released buffer is not given back
ReleaseUnlockNot(t) ==
  /\ At(t, "attachments")
  /\ \A s \in Slots : attached[buf[t]][s] = None
  /\ Goto(t, "free")
  /\ UNCHANGED <<poolVars, bufferVars, locals>>

ReleaseUnlock(t) == LET b == buf[t] IN
  /\ At(t, "attachments")
  /\ \A s \in Slots : attached[b][s] = None
  /\ bufLock' = [bufLock EXCEPT ![b] = None]
  /\ Goto(t, "free")
  /\ UNCHANGED <<poolVars, refCount, attached, lost, held, locals>>

\* Mutant: the event is not set
ReleaseFreeSilent(t) == LET b == buf[t]
                            p == PoolOf[b]
                            callers == SubSeq(stack[t], 1, Len(stack[t]) - 1) IN
  /\ At(t, "free") /\ poolLock[p] = None
  /\ free' = [free EXCEPT ![p] = Append(@, b)]
  /\ referenced' = [referenced EXCEPT ![p] = @ - 1]
  /\ stack' = [stack EXCEPT ![t] = callers]
  /\ Resume(t, callers)
  /\ UNCHANGED <<poolCount, abort, valid, waitedOn, poolLock, bufferVars>>

\* the result of Insert is not looked at
ReleaseFree(t) == LET b == buf[t]
                      p == PoolOf[b]
                      callers == SubSeq(stack[t], 1, Len(stack[t]) - 1) IN
  /\ At(t, "free") /\ poolLock[p] = None
  /\ free' = IF Len(free[p]) < Cardinality(BuffersOf(p))
             THEN [free EXCEPT ![p] = Append(@, b)]
             ELSE free
  /\ valid' = [valid EXCEPT ![p] = TRUE]
  /\ referenced' = [referenced EXCEPT ![p] = @ - 1]
  /\ stack' = [stack EXCEPT ![t] = callers]
  /\ Resume(t, callers)
  /\ UNCHANGED <<poolCount, abort, waitedOn, poolLock, bufferVars>>

(***************************************************************************)
(* The specification                                                       *)
(***************************************************************************)
GetStep(t) ==
  \/ GetExtract(t) \/ GetGot(t) \/ GetSleep(t) \/ GetNoSleep(t)
  \/ GetWake(t) \/ GetTimeOut(t) \/ GetRelock(t) \/ GetAgain(t)
  \/ GetNoFreeBuffer(t) \/ GetMemory(t) \/ GetNoMemory(t)
  \/ GetInitialize(t) \/ GetCount(t)

CountStep(t) ==
  \/ IncrementPool(t) \/ Increment(t) \/ DecrementPool(t) \/ Decrement(t)
  \/ DecrementReturn(t)
  \/ AttachSlot(t) \/ AttachTooMany(t) \/ DetachSlot(t) \/ DetachNotFound(t)

ReleaseStep(t) ==
  \/ ReleaseBuffer(t) \/ ReleaseAttached(t) \/ ReleaseUnlock(t) \/ ReleaseFree(t)

Step(t) == GetStep(t) \/ CountStep(t) \/ ReleaseStep(t) \/ AbortSignal(t)

Start(t) ==
  \/ \E p \in Pools : AbortBlockingGetBuffer(t, p)
  \/ \E p \in Pools, h \in Holders, nb \in Modes : GetBuffer(t, p, h, nb)
  \/ \E h, g \in Holders : h # g /\ \/ IncrementReferenceCount(t, h, g)
                                    \/ AttachBuffer(t, h, g)
  \/ \E h \in Holders, b \in Buffers : DetachBuffer(t, h, b)
  \/ \E h \in Holders : DecrementReferenceCount(t, h)

Next == \E t \in Threads : Start(t) \/ Step(t)

Spec == Init /\ [][Next]_vars

(***************************************************************************)
(* A thread inside a call keeps running; the mutexes are kernel semaphores *)
(* whose waiters queue.                                                    *)
(***************************************************************************)
Fairness == \A t \in Threads : SF_vars(Step(t))

FairSpec == Spec /\ Fairness
-----------------------------------------------------------------------------
(***************************************************************************)
(* Where the references to a buffer, and the buffer itself, are            *)
(***************************************************************************)

\* an attachment whose reference is not counted yet
Pending(o, s) == \E t \in Threads : dest[t] = Attachment(o, s)

References(b) ==
  {Client(h) : h \in {g \in Holders : held[g] = b}}
  \cup {Attachment(x[1], x[2]) : x \in
          {y \in Buffers \X Slots : /\ attached[y[1]][y[2]] = b
                                   /\ ~Pending(y[1], y[2])}}
  \cup {Call(t) : t \in {u \in Threads : /\ pc[u] \in {"decPool", "dec"}
                                        /\ buf[u] = b}}

\* the calls that are releasing b, one element for each release
Releases(b) ==
  {<<t, 0>> : t \in {u \in Threads : At(u, "after") /\ after[u] = 0 /\ buf[u] = b}}
  \cup UNION {{<<t, k>> : k \in {j \in 1 .. Len(stack[t]) : stack[t][j] = b}} :
              t \in Threads}

\* the calls that took b from the ring and have not set its count yet
Acquirers(b) ==
  {t \in Threads : pc[t] \in {"test", "memory", "init"} /\ buf[t] = b}

RingSlots(b) ==
  UNION {{<<p, k>> : k \in {j \in 1 .. Len(free[p]) : free[p][j] = b}} : p \in Pools}

(***************************************************************************)
(* Properties                                                              *)
(***************************************************************************)

Labels == {"idle", "lock", "test", "wait", "relock", "again", "retry", "memory",
           "init", "count", "signal", "incPool", "inc", "attach", "detach",
           "decPool", "dec", "after", "attachments", "free"}

Places == {NoPlace} \cup {Client(h) : h \in Holders}
                    \cup {Attachment(x[1], x[2]) : x \in Buffers \X Slots}

(* The type invariant.  The thread that keeps a lock across steps is       *)
(* inside the section that the lock protects.                              *)
TypeOK ==
  /\ free \in [Pools -> Seq(Buffers)]
  /\ poolCount \in [Pools -> Int]
  /\ referenced \in [Pools -> Int]
  /\ abort \in [Pools -> BOOLEAN]
  /\ valid \in [Pools -> BOOLEAN]
  /\ waitedOn \in [Pools -> BOOLEAN]
  /\ poolLock \in [Pools -> Threads \cup {None}]
  /\ refCount \in [Buffers -> Int]
  /\ attached \in [Buffers -> [Slots -> Buffers \cup {None}]]
  /\ bufLock \in [Buffers -> Threads \cup {None}]
  /\ lost \subseteq Buffers
  /\ held \in [Holders -> Buffers \cup {None}]
  /\ pc \in [Threads -> Labels]
  /\ pool \in [Threads -> Pools \cup {None}]
  /\ nonBlocking \in [Threads -> BOOLEAN]
  /\ buf \in [Threads -> Buffers \cup {None}]
  /\ outer \in [Threads -> Buffers \cup {None}]
  /\ after \in [Threads -> Int]
  /\ dest \in [Threads -> Places]
  /\ hand \in [Threads -> SUBSET Holders]
  /\ stack \in [Threads -> Seq(Buffers)]
  /\ \A p \in Pools, t \in Threads :
       poolLock[p] = t => pc[t] \in {"test", "again", "retry"} /\ pool[t] = p

(* Buffer_Generic_c, lines 666-742, and ReleaseBuffer: the reference count *)
(* of a buffer is the number of references there are to it, so a client    *)
(* that holds one never acts on a buffer whose count is zero (the assertion*)
(* AssertNonZeroReferenceCount at the head of every operation).            *)
CountsReferences ==
  \A b \in Buffers : refCount[b] = Cardinality(References(b))

(* Lines 699-705 of buffer_individual_generic.cpp: "if two processes are   *)
(* decrementing the count, only one will do the actual release".  A buffer *)
(* is in one situation at a time: free, in the ring once; being acquired   *)
(* by one thread; referenced; being released, once; or dropped by a        *)
(* GetBuffer without memory.                                               *)
OneSituation ==
  \A b \in Buffers :
    Cardinality(Releases(b)) + Cardinality(Acquirers(b))
      + Cardinality(RingSlots(b)) + (IF b \in lost THEN 1 ELSE 0)
      + (IF refCount[b] # 0 THEN 1 ELSE 0) = 1

(* Lines 550-566 and 757-759: the event is reset before the ring is tried  *)
(* and set after a buffer is put back, so the only getter of a pool does   *)
(* not sit out its 50 ms while the pool has a buffer.                      *)
ReleaseWakesGetter ==
  \A p \in Pools : \A t \in Getters[p] :
    /\ Getters[p] = {t} /\ At(t, "wait") /\ pool[t] = p
    /\ free[p] # << >>
    => valid[p]

(* Lines 548-584: the only getter of a pool gets the buffer it waits for.  *)
GetEnds ==
  \A p \in Pools, t \in Threads :
    (At(t, "wait") /\ pool[t] = p /\ free[p] # << >>) ~> At(t, "idle")

(* Lines 647-658, "Abort any ongoing get buffer command".                  *)
AbortEndsGet ==
  \A p \in Aborted : \A t \in Getters[p] :
    (At(t, "wait") /\ pool[t] = p /\ abort[p]) ~> At(t, "idle")

(* Lines 707-742 and 666-787: giving up a reference ends, even when it     *)
(* releases a buffer, and the buffers attached to that one, while other    *)
(* threads take the same locks.                                            *)
DecrementEnds ==
  \A t \in Threads : At(t, "decPool") ~> At(t, "idle")
=============================================================================
