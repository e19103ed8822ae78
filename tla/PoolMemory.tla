------------------------------ MODULE PoolMemory ------------------------------
(***************************************************************************)
(* The memory of one buffer pool: which part of it each buffer has, how    *)
(* much of that is data, and the two totals the pool keeps of it           *)
(* (player/buffer/buffer_pool_generic.cpp, buffer_individual_generic.cpp). *)
(*                                                                         *)
(* The pool is one whose memory GetBuffer allocates from a supplied block. *)
(* Which buffers are free and how their references are counted is the      *)
(* subject of BufferPool, the table and the boundaries of the allocator    *)
(* that of AllocatorSimple: here a buffer is in use or not, and memory is a*)
(* set of units.  A buffer is in the hands of one thread at a time.        *)
(*                                                                         *)
(* Sizes and totals are unsigned ints: all arithmetic is modulo Words.  The*)
(* totals are changed without a lock, except that a release takes the pool *)
(* lock to change TotalUsedMemory: reading one and storing it are two steps*)
(***************************************************************************)
EXTENDS Integers, FiniteSets, FiniteSetsExt

CONSTANTS
  Threads,      \* the processes that use the pool
  Buffers,      \* its buffers
  MemorySize,   \* Size, of the supplied block
  Unit,         \* AllocationUnitSize
  Words,        \* two to the width of an unsigned int
  Requests,     \* the values of RequiredSize
  LowerBounds,  \* the values of RequiredSizeIsLowerBound
  DataSizes,    \* the sizes SetUsedDataSize is called with
  Shrinks,      \* the sizes ShrinkBuffer is called with
  Leaves,       \* the values of LeaveInFirstPartitionSize
  Extends,      \* the values of ExtendUpwards
  None

ASSUME MemoryAssumption ==
  /\ MemorySize \in Nat /\ Unit \in Nat \ {0}
  /\ Words \in Nat /\ MemorySize < Words     \* a size is an unsigned int
  /\ Requests \subseteq Nat \ {0} /\ DataSizes \subseteq Nat
  /\ Shrinks \subseteq Nat /\ Leaves \subseteq Nat
  /\ LowerBounds \subseteq BOOLEAN /\ Extends \subseteq BOOLEAN
  /\ None \notin Threads \cup Buffers

VARIABLES
  used,           \* the buffers in use
  block,          \* per buffer: PoolAllocatedOffset and Size of its BufferBlock
  dataSize,       \* per buffer: DataSize
  freeMemory,     \* the units the allocator has
  totalAllocated, \* TotalAllocatedMemory
  totalUsed,      \* TotalUsedMemory
  lock,           \* the thread that has the pool lock, or None
  pc,             \* per thread: where it is
  buf,            \* per thread: the buffer it works on
  arg,            \* per thread: the argument of SetUsedDataSize
  reg             \* per thread: the total it has read

memory == <<used, block, dataSize, freeMemory>>
totals == <<totalAllocated, totalUsed>>
locals == <<pc, buf, arg, reg>>
vars   == <<memory, totals, lock, locals>>

Units(x)     == x.base .. x.base + x.size - 1
Blk(o, s)    == [base |-> o, size |-> s]
Rounded(n)   == ((n + Unit - 1) \div Unit) * Unit
At(t, l)     == pc[t] = l
Goto(t, l)   == pc' = [pc EXCEPT ![t] = l]
Mine(t)      == block[buf[t]]
Idle(b)      == b \in used /\ \A t \in Threads : buf[t] # b

Init ==
  /\ used = {}
  /\ block = [b \in Buffers |-> Blk(0, 0)]
  /\ dataSize = [b \in Buffers |-> 0]
  /\ freeMemory = 0 .. MemorySize - 1
  /\ totalAllocated = 0 /\ totalUsed = 0
  /\ lock = None
  /\ pc = [t \in Threads |-> "idle"]
  /\ buf = [t \in Threads |-> None]
  /\ arg = [t \in Threads |-> 0]
  /\ reg = [t \in Threads |-> 0]

Call(t, b, n, l) ==
  /\ Goto(t, l)
  /\ buf' = [buf EXCEPT ![t] = b]
  /\ arg' = [arg EXCEPT ![t] = n]

Return(t) ==
  /\ Call(t, None, 0, "idle")
  /\ reg' = [reg EXCEPT ![t] = 0]

(***************************************************************************)
(* The allocator: a run is free memory that cannot be made larger.         *)
(***************************************************************************)
Runs == {x \in [base : 0 .. MemorySize, size : 1 .. MemorySize] :
           /\ Units(x) \subseteq freeMemory
           /\ x.base - 1 \notin freeMemory
           /\ x.base + x.size \notin freeMemory}

\* Allocate takes the start of a run, AllocateLargest a largest run
Allocated(n, lowerBound) ==
  IF lowerBound
  THEN {x \in Runs : x.size >= n /\ \A y \in Runs : y.size <= x.size}
  ELSE {Blk(x.base, n) : x \in {y \in Runs : y.size >= n}}

(***************************************************************************)
(* GetBuffer, from a free buffer on: AllocateMemoryBlock waits for memory. *)
(***************************************************************************)
GetBuffer(t, b, n, lowerBound) ==
  /\ At(t, "idle") /\ b \in Buffers \ used
  /\ used' = used \cup {b}
  /\ \E x \in Allocated(Rounded(n), lowerBound) :
       /\ block' = [block EXCEPT ![b] = x]
       /\ freeMemory' = freeMemory \ Units(x)
  /\ dataSize' = [dataSize EXCEPT ![b] = 0]
  /\ Call(t, b, 0, "add")
  /\ UNCHANGED <<totals, lock, reg>>

AllocatedLoad(t) ==
  /\ \/ At(t, "add") /\ Goto(t, "add_store")
     \/ At(t, "subtract") /\ Goto(t, "subtract_store")
  /\ reg' = [reg EXCEPT ![t] = totalAllocated]
  /\ UNCHANGED <<memory, totals, lock, buf, arg>>

AllocatedAdd(t) ==
  /\ At(t, "add_store")
  /\ totalAllocated' = (reg[t] + Mine(t).size) % Words
  /\ Return(t)
  /\ UNCHANGED <<memory, totalUsed, lock>>

(***************************************************************************)
(* SetUsedDataSize, which refuses more than the buffer has                 *)
(***************************************************************************)
SetUsedDataSize(t, b, n) ==
  /\ At(t, "idle") /\ Idle(b) /\ n <= block[b].size
  /\ reg' = [reg EXCEPT ![t] = totalUsed]
  /\ Call(t, b, n, "set_store")
  /\ UNCHANGED <<memory, totals, lock>>

\* Mutant: the data there was is not taken off the total
SetUsedStoreAdded(t) ==
  /\ At(t, "set_store")
  /\ totalUsed' = (reg[t] + arg[t]) % Words
  /\ dataSize' = [dataSize EXCEPT ![buf[t]] = arg[t]]
  /\ Return(t)
  /\ UNCHANGED <<used, block, freeMemory, totalAllocated, lock>>

SetUsedStore(t) ==
  /\ At(t, "set_store")
  /\ totalUsed' = (reg[t] - dataSize[buf[t]] + arg[t]) % Words
  /\ dataSize' = [dataSize EXCEPT ![buf[t]] = arg[t]]
  /\ Return(t)
  /\ UNCHANGED <<used, block, freeMemory, totalAllocated, lock>>

(***************************************************************************)
(* ShrinkBuffer: the new size is rounded up after it was compared          *)
(***************************************************************************)
\* Mutant: the start of the block is freed
TailFromBase(x, n) == {u \in Units(x) : u < x.base + x.size - n}

Tail(x, n) == {u \in Units(x) : u >= x.base + n}

ShrinkBuffer(t, b, n) ==
  /\ At(t, "idle") /\ Idle(b)
  /\ dataSize[b] <= n /\ n < block[b].size
  /\ freeMemory' = freeMemory \cup Tail(block[b], Rounded(n))
  /\ block' = [block EXCEPT ![b].size = Rounded(n)]
  /\ UNCHANGED <<used, dataSize, totals, lock, locals>>

(***************************************************************************)
(* ExtendBuffer: the block takes over the run after it, or the one before  *)
(***************************************************************************)
ExtendBuffer(t, b, upwards) ==
  /\ At(t, "idle") /\ Idle(b)
  /\ \E x \in Runs :
       /\ IF upwards THEN x.base = block[b].base + block[b].size
                     ELSE x.base + x.size = block[b].base
       /\ freeMemory' = freeMemory \ Units(x)
       /\ block' = [block EXCEPT
            ![b] = Blk(IF upwards THEN @.base ELSE x.base, @.size + x.size)]
  /\ UNCHANGED <<used, dataSize, totals, lock, locals>>

(***************************************************************************)
(* PartitionBuffer: another buffer, which was got with no memory, has what *)
(* follows the first n units.  The totals are not changed.                 *)
(***************************************************************************)
\* Mutant: the first buffer keeps its size
PartitionBufferWhole(t, b, c, n) ==
  /\ At(t, "idle") /\ Idle(b) /\ c \in Buffers \ used
  /\ n <= block[b].size
  /\ used' = used \cup {c}
  /\ block' = [block EXCEPT ![c] = Blk(block[b].base + n, block[b].size - n)]
  /\ dataSize' = [dataSize EXCEPT ![c] = (dataSize[b] - n) % Words, ![b] = n]
  /\ UNCHANGED <<freeMemory, totals, lock, locals>>

PartitionBuffer(t, b, c, n) ==
  /\ At(t, "idle") /\ Idle(b) /\ c \in Buffers \ used
  /\ n <= block[b].size
  /\ used' = used \cup {c}
  /\ block' = [block EXCEPT
       ![c] = Blk(block[b].base + n, block[b].size - n), ![b].size = n]
  /\ dataSize' = [dataSize EXCEPT ![c] = (dataSize[b] - n) % Words, ![b] = n]
  /\ UNCHANGED <<freeMemory, totals, lock, locals>>

(***************************************************************************)
(* ReleaseBuffer: DeAllocateMemoryBlock does nothing for a block of size 0 *)
(***************************************************************************)
ReleaseBuffer(t, b) ==
  /\ At(t, "idle") /\ Idle(b)
  /\ freeMemory' = freeMemory \cup Units(block[b])
  /\ Call(t, b, 0, IF block[b].size = 0 THEN "release" ELSE "subtract")
  /\ UNCHANGED <<used, block, dataSize, totals, lock, reg>>

AllocatedSubtract(t) ==
  /\ At(t, "subtract_store")
  /\ totalAllocated' = (reg[t] - Mine(t).size) % Words
  /\ block' = [block EXCEPT ![buf[t]].size = 0]
  /\ Goto(t, "release")
  /\ UNCHANGED <<used, dataSize, freeMemory, totalUsed, lock, buf, arg, reg>>

UsedLoad(t) ==
  /\ At(t, "release") /\ lock = None
  /\ lock' = t
  /\ reg' = [reg EXCEPT ![t] = totalUsed]
  /\ Goto(t, "release_store")
  /\ UNCHANGED <<memory, totals, buf, arg>>

ReleaseEnd(t) ==
  /\ At(t, "release_store")
  /\ totalUsed' = (reg[t] - dataSize[buf[t]]) % Words
  /\ dataSize' = [dataSize EXCEPT ![buf[t]] = 0]
  /\ used' = used \ {buf[t]}
  /\ block' = [block EXCEPT ![buf[t]] = Blk(0, 0)]   \* its offset is not read again
  /\ lock' = None
  /\ Return(t)
  /\ UNCHANGED <<freeMemory, totalAllocated>>

(***************************************************************************)
(* The specification                                                       *)
(***************************************************************************)
ClientStep(t, b) ==
  \/ \E n \in Requests, l \in LowerBounds : GetBuffer(t, b, n, l)
  \/ \E n \in DataSizes : SetUsedDataSize(t, b, n)
  \/ \E n \in Shrinks : ShrinkBuffer(t, b, n)
  \/ \E up \in Extends : ExtendBuffer(t, b, up)
  \/ \E n \in Leaves, c \in Buffers : PartitionBuffer(t, b, c, n)
  \/ ReleaseBuffer(t, b)

Step(t) ==
  \/ AllocatedLoad(t) \/ AllocatedAdd(t) \/ SetUsedStore(t)
  \/ AllocatedSubtract(t) \/ UsedLoad(t) \/ ReleaseEnd(t)

Next ==
  \/ \E t \in Threads, b \in Buffers : ClientStep(t, b)
  \/ \E t \in Threads : Step(t)

Spec == Init /\ [][Next]_vars

(***************************************************************************)
(* Properties                                                              *)
(***************************************************************************)
(* Types: sizes and totals are unsigned ints (buffer_pool_generic.h:103-105,*)
(* buffer_individual_generic.h).                                           *)
TypeOK ==
  /\ used \subseteq Buffers
  /\ block \in [Buffers -> [base : 0 .. MemorySize, size : 0 .. MemorySize]]
  /\ dataSize \in [Buffers -> 0 .. Words - 1]
  /\ freeMemory \subseteq 0 .. MemorySize - 1
  /\ totalAllocated \in 0 .. Words - 1 /\ totalUsed \in 0 .. Words - 1
  /\ lock \in Threads \cup {None}
  /\ pc \in [Threads -> {"idle", "add", "add_store", "set_store", "subtract",
                         "subtract_store", "release", "release_store"}]
  /\ buf \in [Threads -> Buffers \cup {None}]
  /\ arg \in [Threads -> DataSizes \cup {0}]
  /\ reg \in [Threads -> 0 .. Words - 1]

\* the memory of b is still its own, though its block has a size
Owns(b) == ~\E t \in Threads :
  buf[t] = b /\ pc[t] \in {"subtract", "subtract_store"}

AllIdle == \A t \in Threads : At(t, "idle")

(* Lines 1473-1607 and buffer_individual_generic.cpp:383-450: whatever is  *)
(* partitioned, shrunk, extended and freed, no unit of memory belongs to   *)
(* two buffers, or to a buffer and the allocator, and none is lost.        *)
MemoryOnce ==
  \A u \in 0 .. MemorySize - 1 :
    Cardinality({b \in Buffers : Owns(b) /\ u \in Units(block[b])})
      + (IF u \in freeMemory THEN 1 ELSE 0) = 1

(* Lines 747-751 and buffer_individual_generic.cpp:338, 438-443: between   *)
(* calls TotalUsedMemory is the sum of the data sizes, also when a         *)
(* partition made one of them wrap below zero.                             *)
UsedAgrees ==
  AllIdle => totalUsed = MapThenSumSet(LAMBDA b : dataSize[b], Buffers) % Words

(* Lines 1400 and 1452: between calls TotalAllocatedMemory is the memory   *)
(* that the buffers have.                                                  *)
AllocatedAgrees ==
  AllIdle => totalAllocated = MapThenSumSet(LAMBDA b : block[b].size, Buffers)

(* buffer_individual_generic.cpp:328-332, "Attempt to set DataSize larger  *)
(* than Buffer size": the data of a buffer fits in it.                     *)
DataFits == \A b \in used : AllIdle => dataSize[b] <= block[b].size
=============================================================================
