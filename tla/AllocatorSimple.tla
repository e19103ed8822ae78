--------------------------- MODULE AllocatorSimple ---------------------------
(***************************************************************************)
(* class AllocatorSimple_c (components/infrastructure/allocator_simple.cpp)*)
(* hands out the memory of a buffer pool as offsets from its base.  A table*)
(* records the free blocks.  Allocate and AllocateLargest block on a       *)
(* manual-reset event until something is freed; Free merges the block with *)
(* its free neighbours, unless they meet on a 64 Mb physical boundary.     *)
(*                                                                         *)
(* Sizes are in segments (pools create their allocator with SegmentSize 1, *)
(* so rounding does nothing) and Boundary stands for 64 Mb.  The test of   *)
(* the table and its change are one step, under the lock; what the code    *)
(* reads or writes without the lock is a step of its own: the index that   *)
(* Free reads first, InAllocate, BeingDeleted and the waits.               *)
(***************************************************************************)
EXTENDS Integers, FiniteSets

CONSTANTS
  Threads,          \* the callers
  Allocators,       \* those of them that allocate
  Freers,           \* those of them that free
  Deleters,         \* those of them that delete the allocator
  Sizes,            \* the sizes they ask for
  BufferSize,       \* constructor argument
  PhysicalAddress,  \* constructor argument
  Boundary,         \* 64 Mb
  MaxBlocks,        \* ALLOCATOR_SIMPLE_MAX_BLOCKS
  None

ASSUME AllocatorAssumption ==
  /\ Allocators \subseteq Threads /\ Freers \subseteq Threads
  /\ Deleters \subseteq Threads
  /\ Boundary \in Nat \ {0} /\ PhysicalAddress \in Nat
  /\ BufferSize \in Nat \ {0}
  /\ MaxBlocks \in Nat \ {0}
  /\ Sizes \subseteq 1 .. BufferSize
  /\ None \notin Threads

VARIABLES
  blocks,       \* Blocks
  highest,      \* HighestUsedBlockIndex
  lock,         \* the thread that returned with the lock held, or None
  valid,        \* the Valid flag of the event EntryFreed
  inAllocate,   \* InAllocate
  beingDeleted, \* BeingDeleted
  deleted,      \* the destructor has returned
  owned,        \* the blocks clients have: records base, size
  pc,           \* per thread: where it is
  want,         \* per thread: the size it asks for
  largest,      \* per thread: is this AllocateLargest?
  block,        \* per thread: the block it is freeing
  lowest,       \* per thread: LowestFreeBlock as first read
  refused       \* history: the blocks that Free had no entry for

table  == <<blocks, highest>>
flags  == <<valid, inAllocate, beingDeleted, deleted>>
locals == <<want, largest, block, lowest>>
vars   == <<table, lock, flags, owned, pc, locals, refused>>

Index       == 0 .. MaxBlocks - 1
On64MBBoundary(o) == (o + PhysicalAddress) % Boundary = 0
Blk(b, s)   == [base |-> b, size |-> s]
Past(x)     == x.base + x.size
\* a free entry of the table: nothing reads its base and size
NoBlock     == [inUse |-> FALSE, base |-> 0, size |-> 0]
FreeBlock(b, s) == [inUse |-> TRUE, base |-> b, size |-> s]

At(t, l)    == pc[t] = l
Goto(t, l)  == pc' = [pc EXCEPT ![t] = l]
Lower(m, n) == IF m < n THEN m ELSE n
Upper(m, n) == IF m > n THEN m ELSE n

(***************************************************************************)
(* Free(), which the constructor calls: the memory is cut at the physical  *)
(* boundaries.                                                             *)
(***************************************************************************)
Cut(i)  == IF i = 0 THEN 0 ELSE (i * Boundary) - (PhysicalAddress % Boundary)
Pieces  == {i \in Index : Cut(i) < BufferSize}

Init ==
  /\ blocks = [i \in Index |->
                 IF i \in Pieces
                 THEN FreeBlock(Cut(i), Lower(Cut(i + 1), BufferSize) - Cut(i))
                 ELSE NoBlock]
  /\ highest = Cardinality(Pieces) - 1
  /\ lock = None
  /\ valid = TRUE
  /\ inAllocate = FALSE /\ beingDeleted = FALSE /\ deleted = FALSE
  /\ owned = {}
  /\ pc = [t \in Threads |-> "idle"]
  /\ want = [t \in Threads |-> 0]
  /\ largest = [t \in Threads |-> FALSE]
  /\ block = [t \in Threads |-> Blk(0, 0)]
  /\ lowest = [t \in Threads |-> 0]
  /\ refused = {}

Return(t) ==
  /\ Goto(t, "idle")
  /\ want' = [want EXCEPT ![t] = 0]
  /\ largest' = [largest EXCEPT ![t] = FALSE]
  /\ block' = [block EXCEPT ![t] = Blk(0, 0)]
  /\ lowest' = [lowest EXCEPT ![t] = 0]

(***************************************************************************)
(* Allocate and AllocateLargest                                            *)
(***************************************************************************)
Scanned == 0 .. highest                 \* what the loops look at

Fits(i, n) == blocks[i].inUse /\ blocks[i].size >= n

\* the first block that is large enough
FirstFit(i, n) ==
  /\ i \in Scanned /\ Fits(i, n)
  /\ \A j \in Scanned : j < i => ~Fits(j, n)

\* LargestFreeBlock: the first of the largest blocks
LargestFree(i) ==
  /\ i \in Scanned /\ blocks[i].inUse
  /\ \A j \in Scanned : blocks[j].inUse =>
       \/ blocks[j].size < blocks[i].size
       \/ blocks[j].size = blocks[i].size /\ i <= j

Chosen(i, n, whole) == IF whole THEN LargestFree(i) /\ Fits(i, n)
                                ELSE FirstFit(i, n)

Allocate(t, n, whole) ==
  /\ At(t, "idle") /\ t \in Allocators /\ ~beingDeleted
  /\ inAllocate' = TRUE
  /\ want' = [want EXCEPT ![t] = n]
  /\ largest' = [largest EXCEPT ![t] = whole]
  /\ Goto(t, "scan")
  /\ UNCHANGED <<table, lock, valid, beingDeleted, deleted, owned, block, lowest, refused>>

AllocateFound(t) ==
  /\ At(t, "scan") /\ lock = None /\ ~beingDeleted
  /\ valid' = FALSE
  /\ \E i \in Scanned :
       /\ Chosen(i, want[t], largest[t])
       /\ LET n == IF largest[t] THEN blocks[i].size ELSE want[t] IN
          /\ owned' = owned \cup {Blk(blocks[i].base, n)}
          /\ blocks' = [blocks EXCEPT ![i] =
                          IF n = @.size THEN NoBlock
                                        ELSE FreeBlock(@.base + n, @.size - n)]
  /\ Goto(t, "leave")
  /\ UNCHANGED <<highest, lock, inAllocate, beingDeleted, deleted, locals, refused>>

AllocateNotFound(t) ==
  /\ At(t, "scan") /\ lock = None /\ ~beingDeleted
  /\ valid' = FALSE
  /\ ~\E i \in Scanned : Chosen(i, want[t], largest[t])
  /\ Goto(t, "wait")
  /\ UNCHANGED <<table, lock, inAllocate, beingDeleted, deleted, owned, locals, refused>>

\* the loop is left by a break, the lock stays taken
AllocateBreak(t) ==
  /\ At(t, "scan") /\ lock = None /\ beingDeleted
  /\ lock' = t
  /\ valid' = FALSE
  /\ Goto(t, "leave")
  /\ UNCHANGED <<table, inAllocate, beingDeleted, deleted, owned, locals, refused>>

\* Mutant: a woken thread waits again, the table is not scanned
AllocateWakeAndWait(t) ==
  /\ At(t, "wait") /\ valid
  /\ UNCHANGED vars

AllocateWake(t) ==
  /\ At(t, "wait") /\ valid
  /\ Goto(t, IF beingDeleted THEN "leave" ELSE "scan")
  /\ UNCHANGED <<table, lock, flags, owned, locals, refused>>

AllocateReturn(t) ==
  /\ At(t, "leave")
  /\ inAllocate' = FALSE
  /\ Return(t)
  /\ UNCHANGED <<table, lock, valid, beingDeleted, deleted, owned, refused>>

(***************************************************************************)
(* Free(Size, Block).  A client frees a block it has, or shrinks it and    *)
(* frees the end (ShrinkMemoryBlock).                                      *)
(***************************************************************************)
Free(t, x, n) ==
  /\ At(t, "idle") /\ t \in Freers /\ ~beingDeleted
  /\ x \in owned /\ n \in 1 .. x.size
  /\ owned' = IF n = x.size THEN owned \ {x}
              ELSE (owned \ {x}) \cup {Blk(x.base, x.size - n)}
  /\ block' = [block EXCEPT ![t] = Blk(Past(x) - n, n)]
  /\ lowest' = [lowest EXCEPT ![t] = highest + 1]
  /\ Goto(t, "free")
  /\ UNCHANGED <<table, lock, flags, want, largest, refused>>

\* Mutant: blocks are joined across a physical boundary
MergeAcross(i, l) ==
  LET x     == l.blocks[i]
      above == x.inUse /\ Past(l.block) = x.base
      below == x.inUse /\ l.block.base = Past(x)
      taken == above \/ below
  IN  [blocks |-> IF taken THEN [l.blocks EXCEPT ![i] = NoBlock] ELSE l.blocks,
       block  |-> IF above THEN Blk(l.block.base, l.block.size + x.size)
                  ELSE IF below THEN Blk(x.base, l.block.size + x.size)
                  ELSE l.block,
       next   |-> IF x.inUse /\ ~taken THEN i ELSE l.next,
       lowest |-> IF taken \/ ~x.inUse THEN Lower(l.lowest, i) ELSE l.lowest]

\* Mutant: the block is only joined to the one above it
MergeAbove(i, l) ==
  LET x     == l.blocks[i]
      above == x.inUse /\ Past(l.block) = x.base /\ ~On64MBBoundary(x.base)
  IN  [blocks |-> IF above THEN [l.blocks EXCEPT ![i] = NoBlock] ELSE l.blocks,
       block  |-> IF above THEN Blk(l.block.base, l.block.size + x.size)
                  ELSE l.block,
       next   |-> IF x.inUse /\ ~above THEN i ELSE l.next,
       lowest |-> IF above \/ ~x.inUse THEN Lower(l.lowest, i) ELSE l.lowest]

\* one turn of the loop, on the record of its local variables
Merge(i, l) ==
  LET x     == l.blocks[i]
      above == x.inUse /\ Past(l.block) = x.base /\ ~On64MBBoundary(x.base)
      below == x.inUse /\ l.block.base = Past(x) /\ ~On64MBBoundary(l.block.base)
      taken == above \/ below
  IN  [blocks |-> IF taken THEN [l.blocks EXCEPT ![i] = NoBlock] ELSE l.blocks,
       block  |-> IF above THEN Blk(l.block.base, l.block.size + x.size)
                  ELSE IF below THEN Blk(x.base, l.block.size + x.size)
                  ELSE l.block,
       next   |-> IF x.inUse /\ ~taken THEN i ELSE l.next,
       lowest |-> IF taken \/ ~x.inUse THEN Lower(l.lowest, i) ELSE l.lowest]

\* the loop, from the values its variables have before it
Merged(t) ==
  LET after[i \in -1 .. highest] ==
        IF i = -1 THEN [blocks |-> blocks, block |-> block[t],
                        next |-> 0, lowest |-> lowest[t]]
                  ELSE Merge(i, after[i - 1])
  IN  after[highest]

\* Mutant: the index of the block just freed is not taken into account
FreeMergeHighest(t) == LET l == Merged(t) IN
  /\ At(t, "free") /\ lock = None
  /\ l.lowest # MaxBlocks
  /\ blocks' = [l.blocks EXCEPT ![l.lowest] = FreeBlock(l.block.base, l.block.size)]
  /\ highest' = l.next
  /\ valid' = TRUE
  /\ Return(t)
  /\ UNCHANGED <<lock, inAllocate, beingDeleted, deleted, owned, refused>>

FreeMerge(t) == LET l == Merged(t) IN
  /\ At(t, "free") /\ lock = None
  /\ l.lowest # MaxBlocks
  /\ blocks' = [l.blocks EXCEPT ![l.lowest] = FreeBlock(l.block.base, l.block.size)]
  /\ highest' = Upper(l.lowest, l.next)
  /\ valid' = TRUE
  /\ Return(t)
  /\ UNCHANGED <<lock, inAllocate, beingDeleted, deleted, owned, refused>>

FreeTooMany(t) == LET l == Merged(t) IN
  /\ At(t, "free") /\ lock = None
  /\ l.lowest = MaxBlocks
  /\ blocks' = l.blocks
  /\ refused' = refused \cup {l.block}
  /\ valid' = TRUE
  /\ Return(t)
  /\ UNCHANGED <<highest, lock, inAllocate, beingDeleted, deleted, owned>>

(***************************************************************************)
(* ExtendToLargest: a block takes over the free block that follows it, or  *)
(* the one before it.  The boundary is an offset, which the code also      *)
(* compares with physical addresses.                                       *)
(***************************************************************************)
ExtendUpwards(x) ==
  /\ ~On64MBBoundary(Past(x)) /\ Past(x) < PhysicalAddress + BufferSize
  /\ \E i \in Scanned :
       /\ blocks[i].inUse /\ blocks[i].base = Past(x)
       /\ \A j \in Scanned : j < i => ~(blocks[j].inUse /\ blocks[j].base = Past(x))
       /\ blocks' = [blocks EXCEPT ![i] = NoBlock]
       /\ owned' = (owned \ {x}) \cup {Blk(x.base, x.size + blocks[i].size)}

ExtendDownwards(x) ==
  /\ ~On64MBBoundary(x.base) /\ x.base # PhysicalAddress
  /\ \E i \in Scanned :
       /\ blocks[i].inUse /\ Past(blocks[i]) = x.base
       /\ \A j \in Scanned : j < i => ~(blocks[j].inUse /\ Past(blocks[j]) = x.base)
       /\ blocks' = [blocks EXCEPT ![i] = NoBlock]
       /\ owned' = (owned \ {x}) \cup {Blk(blocks[i].base, x.size + blocks[i].size)}

ExtendToLargest(t, x) ==
  /\ At(t, "idle") /\ lock = None /\ ~beingDeleted /\ x \in owned
  /\ ExtendUpwards(x) \/ ExtendDownwards(x)
  /\ UNCHANGED <<highest, lock, flags, pc, locals, refused>>

(***************************************************************************)
(* The destructor.  Its caller frees and allocates nothing any more; what  *)
(* it does wait for is a call of Allocate that is blocked.                 *)
(***************************************************************************)
Delete(t) ==
  /\ At(t, "idle") /\ t \in Deleters /\ ~beingDeleted
  /\ ~\E u \in Threads : At(u, "free")
  /\ beingDeleted' = TRUE
  /\ Goto(t, "delete")
  /\ UNCHANGED <<table, lock, valid, inAllocate, deleted, owned, locals, refused>>

\* Mutant: the event is not set
DeleteSilent(t) ==
  /\ At(t, "delete")
  /\ Goto(t, "drain")
  /\ UNCHANGED <<table, lock, flags, owned, locals, refused>>

DeleteSignal(t) ==
  /\ At(t, "delete")
  /\ valid' = TRUE
  /\ Goto(t, "drain")
  /\ UNCHANGED <<table, lock, inAllocate, beingDeleted, deleted, owned, locals, refused>>

DeleteEnd(t) ==
  /\ At(t, "drain") /\ ~inAllocate
  /\ deleted' = TRUE
  /\ Return(t)
  /\ UNCHANGED <<table, lock, valid, inAllocate, beingDeleted, owned, refused>>

(***************************************************************************)
(* The specification                                                       *)
(***************************************************************************)
AllocateStep(t) ==
  \/ AllocateFound(t) \/ AllocateNotFound(t) \/ AllocateBreak(t)
  \/ AllocateWake(t) \/ AllocateReturn(t)

FreeStep(t) == FreeMerge(t) \/ FreeTooMany(t)

DeleteStep(t) == DeleteSignal(t) \/ DeleteEnd(t)

Step(t) == AllocateStep(t) \/ FreeStep(t) \/ DeleteStep(t)

Start(t) ==
  \/ \E n \in Sizes, whole \in BOOLEAN : Allocate(t, n, whole)
  \/ \E x \in owned : (\E n \in 1 .. x.size : Free(t, x, n)) \/ ExtendToLargest(t, x)
  \/ Delete(t)

Next == \E t \in Threads : Start(t) \/ Step(t)

Spec == Init /\ [][Next]_vars
\* a thread that allocates, or deletes the allocator, keeps running
Fairness == \A t \in Threads : WF_vars(AllocateStep(t)) /\ WF_vars(DeleteStep(t))

FairSpec == Spec /\ Fairness
-----------------------------------------------------------------------------
(***************************************************************************)
(* Properties                                                              *)
(***************************************************************************)
Units      == 0 .. BufferSize - 1
Covers(x, u) == x.base <= u /\ u < Past(x)
Usable     == {i \in Scanned : blocks[i].inUse}

(* The type invariant.  The lock is only kept by a thread that left the    *)
(* loop of Allocate because the allocator is being deleted.                *)
TypeOK ==
  /\ blocks \in [Index -> [inUse : BOOLEAN, base : 0 .. BufferSize,
                           size : 0 .. BufferSize]]
  /\ highest \in Index
  /\ lock \in Threads \cup {None}
  /\ lock # None => beingDeleted
  /\ valid \in BOOLEAN /\ inAllocate \in BOOLEAN
  /\ beingDeleted \in BOOLEAN /\ deleted \in BOOLEAN
  /\ owned \subseteq [base : Units, size : 1 .. BufferSize]
  /\ pc \in [Threads -> {"idle", "scan", "wait", "leave", "free", "delete", "drain"}]
  /\ want \in [Threads -> 0 .. BufferSize]
  /\ largest \in [Threads -> BOOLEAN]
  /\ block \in [Threads -> [base : 0 .. BufferSize, size : 0 .. BufferSize]]
  /\ lowest \in [Threads -> 0 .. MaxBlocks]

(* Lines 312-394, "this loop does concatenation of free blocks as well as  *)
(* freeing the current block": no memory is lost or given out twice.  Each *)
(* unit is in one usable free block, or in one block of a client, or in one*)
(* block on its way back, or in one that Free has reported it cannot keep. *)
EachUnitOnce ==
  \A u \in Units :
    Cardinality({i \in Usable : Covers(blocks[i], u)})
      + Cardinality({x \in owned : Covers(x, u)})
      + Cardinality({x \in refused : Covers(x, u)})
      + Cardinality({t \in Threads : At(t, "free") /\ Covers(block[t], u)}) = 1

(* allocator_simple.h: "this implementation will not return a block of     *)
(* memory that crosses a 64Mb physical address boundary".                  *)
CrossesNoBoundary ==
  \A x \in owned : \A u \in x.base + 1 .. Past(x) - 1 : ~On64MBBoundary(u)

(* Lines 326-357: two free blocks touch only on a physical boundary, so a  *)
(* request fails only when there is no such stretch of free memory.        *)
Coalesced ==
  \A i, j \in Usable :
    Past(blocks[i]) = blocks[j].base => On64MBBoundary(blocks[j].base)

(* Lines 91-137: the only thread that allocates does not stay blocked when *)
(* there is, for good, a block for it.                                     *)
AllocateEnds ==
  \A t \in Allocators :
    []<>~(At(t, "wait") /\ \E i \in Usable : Fits(i, want[t]))

(* Lines 59-70: the destructor gets the blocked thread out and ends.       *)
DeleteEnds == beingDeleted ~> deleted
=============================================================================
