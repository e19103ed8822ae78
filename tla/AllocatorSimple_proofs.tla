----------------------- MODULE AllocatorSimple_proofs -----------------------
(***************************************************************************)
(* For every size of the memory, of the table and of the boundary: the     *)
(* allocator's types, that no block crosses a physical boundary and, with  *)
(* one thread that frees, that each segment of the memory is in one place  *)
(* and free blocks are joined.                                             *)
(***************************************************************************)
EXTENDS AllocatorSimple, FiniteSetTheorems, WellFoundedInduction, TLAPS

(* A set of natural numbers has a least one.                               *)
LEMMA Least ==
  ASSUME NEW S \in SUBSET Nat, S # {}
  PROVE  \E m \in S : \A j \in S : m <= j
<1> DEFINE Initial == {0 .. n : n \in S}
<1>1. \A n \in S : 0 .. n \in FiniteSubsetsOf(Nat)
  BY FS_Interval DEF FiniteSubsetsOf
<1>2. Initial \subseteq FiniteSubsetsOf(Nat) /\ Initial # {}
  BY <1>1
<1>3. PICK I \in Initial : \A J \in Initial : <<J, I>> \notin StrictSubsetOrdering(Nat)
  BY <1>2, FS_StrictSubsetOrderingWellFounded, WFMin
<1>4. PICK m \in S : I = 0 .. m
  BY <1>3
<1>5. \A j \in S : m <= j
  <2> SUFFICES ASSUME NEW j \in S, j < m PROVE FALSE
    OBVIOUS
  <2>1. /\ 0 .. j \in Initial /\ 0 .. j \subseteq 0 .. m
        /\ m \in 0 .. m /\ m \notin 0 .. j
    OBVIOUS
  <2>2. <<0 .. j, 0 .. m>> \in StrictSubsetOrdering(Nat)
    BY <2>1 DEF StrictSubsetOrdering
  <2>. QED
    BY <1>3, <1>4, <2>1, <2>2
<1>. QED
  BY <1>5
-----------------------------------------------------------------------------
(* Stretches of the memory that no physical boundary divides.              *)
Whole(b, s) ==
  /\ b \in 0 .. BufferSize /\ s \in 1 .. BufferSize /\ b + s <= BufferSize
  /\ \A u \in b + 1 .. b + s - 1 : ~On64MBBoundary(u)

WholeBlock(x) == Whole(x.base, x.size)

LEMMA JoinWhole ==
  ASSUME NEW b, NEW s, NEW r, Whole(b, s), Whole(b + s, r), ~On64MBBoundary(b + s)
  PROVE  Whole(b, s + r)
<1>1. /\ b \in Nat /\ s \in Nat /\ r \in Nat /\ BufferSize \in Nat
      /\ s >= 1 /\ r >= 1 /\ b + s + r <= BufferSize
  BY AllocatorAssumption DEF Whole
<1>2. ASSUME NEW u \in b + 1 .. b + (s + r) - 1 PROVE ~On64MBBoundary(u)
  <2>1. \/ u \in b + 1 .. b + s - 1
        \/ u = b + s
        \/ u \in (b + s) + 1 .. (b + s) + r - 1
    BY <1>1
  <2>. QED
    BY <2>1 DEF Whole
<1>. QED
  BY <1>1, <1>2 DEF Whole

LEMMA SplitWhole ==
  ASSUME NEW b, NEW s, NEW n \in Nat, Whole(b, s), 1 <= n, n < s
  PROVE  Whole(b, n) /\ Whole(b + n, s - n)
<1>1. /\ b \in Nat /\ s \in Nat /\ BufferSize \in Nat
      /\ b + s <= BufferSize
  BY AllocatorAssumption DEF Whole
<1>2. /\ b + 1 .. b + n - 1 \subseteq b + 1 .. b + s - 1
      /\ (b + n) + 1 .. (b + n) + (s - n) - 1 \subseteq b + 1 .. b + s - 1
  BY <1>1
<1>. QED
  BY <1>1, <1>2 DEF Whole
-----------------------------------------------------------------------------
(* The loop of Free.                                                       *)
Entry    == [inUse : BOOLEAN, base : 0 .. BufferSize, size : 0 .. BufferSize]
Segments == [base : 0 .. BufferSize, size : 0 .. BufferSize]

Start0(t) == [blocks |-> blocks, block |-> block[t], next |-> 0, lowest |-> lowest[t]]

Turns(t, f) ==
  f = [i \in -1 .. highest |-> IF i = -1 THEN Start0(t) ELSE Merge(i, f[i - 1])]

(* Its turns are those of a function.                                      *)
LEMMA LoopHasTurns ==
  ASSUME NEW t, highest \in Nat
  PROVE  \E f : Turns(t, f) /\ Merged(t) = f[highest]
<1> DEFINE Upto(n) == \E f : f = [i \in -1 .. n |->
                         IF i = -1 THEN Start0(t) ELSE Merge(i, f[i - 1])]
           Bad == {n \in Nat : ~Upto(n)}
<1>1. Upto(0)
  <2> DEFINE f == [i \in -1 .. 0 |-> IF i = -1 THEN Start0(t) ELSE Merge(0, Start0(t))]
  <2>1. f = [i \in -1 .. 0 |-> IF i = -1 THEN Start0(t) ELSE Merge(i, f[i - 1])]
    <3>1. f[-1] = Start0(t)
      OBVIOUS
    <3> HIDE DEF f
    <3>2. \A i \in -1 .. 0 : i = -1 \/ (i = 0 /\ i - 1 = -1)
      OBVIOUS
    <3>3. \A i \in -1 .. 0 :
            (IF i = -1 THEN Start0(t) ELSE Merge(0, Start0(t))) =
            (IF i = -1 THEN Start0(t) ELSE Merge(i, f[i - 1]))
      BY <3>1, <3>2
    <3>. QED
      BY <3>3 DEF f
  <2>. QED
    BY <2>1
<1>2. ASSUME NEW n \in Nat, Upto(n) PROVE Upto(n + 1)
  <2>1. PICK f : f = [i \in -1 .. n |-> IF i = -1 THEN Start0(t) ELSE Merge(i, f[i - 1])]
    BY <1>2
  <2> DEFINE g == [i \in -1 .. n + 1 |-> IF i = n + 1 THEN Merge(n + 1, f[n]) ELSE f[i]]
  <2>2. \A i \in -1 .. n + 1 :
          (IF i = n + 1 THEN Merge(n + 1, f[n]) ELSE f[i]) =
          (IF i = -1 THEN Start0(t) ELSE Merge(i, g[i - 1]))
    <3> SUFFICES ASSUME NEW i \in -1 .. n + 1
                 PROVE (IF i = n + 1 THEN Merge(n + 1, f[n]) ELSE f[i]) =
                       (IF i = -1 THEN Start0(t) ELSE Merge(i, g[i - 1]))
      OBVIOUS
    <3>1. \A j \in -1 .. n : g[j] = f[j]
      <4>1. \A j \in -1 .. n : j \in -1 .. n + 1 /\ j # n + 1
        OBVIOUS
      <4>. QED
        BY <4>1
    <3> HIDE DEF g
    <3>2. CASE i = n + 1
      <4>1. g[i - 1] = f[n] /\ i # -1
        BY <3>1, <3>2
      <4>. QED
        BY <3>2, <4>1
    <3>3. CASE i # n + 1 /\ i # -1
      <4>1. i \in -1 .. n /\ i - 1 \in -1 .. n
        BY <3>3
      <4>2. f[i] = Merge(i, f[i - 1])
        BY <2>1, <3>3, <4>1
      <4>. QED
        BY <3>1, <3>3, <4>1, <4>2
    <3>4. CASE i # n + 1 /\ i = -1
      <4>1. i \in -1 .. n
        BY <3>4
      <4>. QED
        BY <2>1, <3>4, <4>1
    <3>. QED
      BY <3>2, <3>3, <3>4
  <2>3. g = [i \in -1 .. n + 1 |-> IF i = -1 THEN Start0(t) ELSE Merge(i, g[i - 1])]
    BY <2>2
  <2>. QED
    BY <2>3
<1>3. Bad = {}
  <2> SUFFICES ASSUME Bad # {} PROVE FALSE
    OBVIOUS
  <2> HIDE DEF Upto
  <2>1. PICK m \in Bad : \A j \in Bad : m <= j
    BY Least
  <2>2. m # 0
    BY <1>1
  <2>3. m - 1 \in Nat /\ m - 1 \notin Bad
    BY <2>1, <2>2
  <2>4. Upto(m - 1) /\ (m - 1) + 1 = m
    BY <2>3
  <2>5. Upto(m)
    BY <1>2, <2>3, <2>4
  <2>. QED
    BY <2>5
<1>4. \E f : Turns(t, f)
  BY <1>3 DEF Turns
<1> DEFINE after == CHOOSE f : Turns(t, f)
<1>5. Turns(t, after)
  BY <1>4
<1>6. Merged(t) = after[highest]
  BY DEF Merged, Turns, Start0
<1>. QED
  BY <1>5, <1>6

(* A turn joins the block to a neighbour, leaves an entry in use where it  *)
(* is, or finds a free entry.                                              *)
LEMMA MergeTurns ==
  ASSUME NEW i, NEW l
  PROVE  LET x == l.blocks[i]
             m == Merge(i, l) IN
    \/ /\ x.inUse /\ Past(l.block) = x.base /\ ~On64MBBoundary(x.base)
       /\ m.blocks = [l.blocks EXCEPT ![i] = NoBlock]
       /\ m.block = Blk(l.block.base, l.block.size + x.size)
       /\ m.next = l.next /\ m.lowest = Lower(l.lowest, i)
    \/ /\ x.inUse /\ l.block.base = Past(x) /\ ~On64MBBoundary(l.block.base)
       /\ m.blocks = [l.blocks EXCEPT ![i] = NoBlock]
       /\ m.block = Blk(x.base, l.block.size + x.size)
       /\ m.next = l.next /\ m.lowest = Lower(l.lowest, i)
    \/ /\ x.inUse
       /\ ~(Past(l.block) = x.base /\ ~On64MBBoundary(x.base))
       /\ ~(l.block.base = Past(x) /\ ~On64MBBoundary(l.block.base))
       /\ m.blocks = l.blocks /\ m.block = l.block
       /\ m.next = i /\ m.lowest = l.lowest
    \/ /\ ~x.inUse
       /\ m.blocks = l.blocks /\ m.block = l.block
       /\ m.next = l.next /\ m.lowest = Lower(l.lowest, i)
BY DEF Merge

Turned(l) ==
  /\ l.blocks \in [Index -> Entry]
  /\ \A i \in Index : l.blocks[i].inUse => WholeBlock(l.blocks[i])
  /\ l.block \in Segments /\ WholeBlock(l.block)
  /\ l.next \in 0 .. highest /\ l.lowest \in 0 .. MaxBlocks

LEMMA EntriesAndSegments ==
  /\ NoBlock \in Entry /\ ~NoBlock.inUse
  /\ \A b, s : Whole(b, s) =>
       /\ Blk(b, s) \in Segments /\ WholeBlock(Blk(b, s))
       /\ Blk(b, s).base = b /\ Blk(b, s).size = s
       /\ FreeBlock(b, s) \in Entry /\ WholeBlock(FreeBlock(b, s))
       /\ FreeBlock(b, s).base = b /\ FreeBlock(b, s).size = s
       /\ FreeBlock(b, s).inUse
BY AllocatorAssumption
   DEF NoBlock, Blk, FreeBlock, Entry, Segments, Whole, WholeBlock

LEMMA MergeKeepsWhole ==
  ASSUME highest \in Index, NEW l, Turned(l), NEW i \in 0 .. highest
  PROVE  Turned(Merge(i, l))
<1> DEFINE x == l.blocks[i]
           m == Merge(i, l)
<1>0. /\ i \in Index /\ i \in Nat /\ i <= MaxBlocks /\ MaxBlocks \in Nat
      /\ highest \in Nat
  BY AllocatorAssumption DEF Index
<1>1. /\ l.blocks \in [Index -> Entry] /\ x \in Entry
      /\ \A j \in Index : l.blocks[j].inUse => WholeBlock(l.blocks[j])
      /\ l.block \in Segments /\ WholeBlock(l.block)
      /\ l.next \in 0 .. highest /\ l.lowest \in 0 .. MaxBlocks
  BY <1>0 DEF Turned
<1>2. Lower(l.lowest, i) \in 0 .. MaxBlocks
  BY <1>0, <1>1 DEF Lower
<1>3. /\ [l.blocks EXCEPT ![i] = NoBlock] \in [Index -> Entry]
      /\ \A j \in Index : [l.blocks EXCEPT ![i] = NoBlock][j].inUse =>
                            WholeBlock([l.blocks EXCEPT ![i] = NoBlock][j])
  BY <1>0, <1>1, EntriesAndSegments
<1>4. CASE /\ x.inUse /\ Past(l.block) = x.base /\ ~On64MBBoundary(x.base)
           /\ m.blocks = [l.blocks EXCEPT ![i] = NoBlock]
           /\ m.block = Blk(l.block.base, l.block.size + x.size)
           /\ m.next = l.next /\ m.lowest = Lower(l.lowest, i)
  <2>1. Whole(l.block.base, l.block.size + x.size)
    BY <1>0, <1>1, <1>4, JoinWhole DEF WholeBlock, Past
  <2>. QED
    BY <1>1, <1>2, <1>3, <1>4, <2>1, EntriesAndSegments DEF Turned
<1>5. CASE /\ x.inUse /\ l.block.base = Past(x) /\ ~On64MBBoundary(l.block.base)
           /\ m.blocks = [l.blocks EXCEPT ![i] = NoBlock]
           /\ m.block = Blk(x.base, l.block.size + x.size)
           /\ m.next = l.next /\ m.lowest = Lower(l.lowest, i)
  <2>1. Whole(x.base, x.size + l.block.size)
    BY <1>0, <1>1, <1>5, JoinWhole DEF WholeBlock, Past
  <2>2. x.size + l.block.size = l.block.size + x.size
    BY <1>1 DEF Entry, Segments
  <2>. QED
    BY <1>1, <1>2, <1>3, <1>5, <2>1, <2>2, EntriesAndSegments DEF Turned
<1>6. CASE /\ m.blocks = l.blocks /\ m.block = l.block
           /\ m.next \in {i, l.next} /\ m.lowest \in {l.lowest, Lower(l.lowest, i)}
  BY <1>0, <1>1, <1>2, <1>6 DEF Turned
<1>7. \/ /\ x.inUse /\ Past(l.block) = x.base /\ ~On64MBBoundary(x.base)
         /\ m.blocks = [l.blocks EXCEPT ![i] = NoBlock]
         /\ m.block = Blk(l.block.base, l.block.size + x.size)
         /\ m.next = l.next /\ m.lowest = Lower(l.lowest, i)
      \/ /\ x.inUse /\ l.block.base = Past(x) /\ ~On64MBBoundary(l.block.base)
         /\ m.blocks = [l.blocks EXCEPT ![i] = NoBlock]
         /\ m.block = Blk(x.base, l.block.size + x.size)
         /\ m.next = l.next /\ m.lowest = Lower(l.lowest, i)
      \/ /\ m.blocks = l.blocks /\ m.block = l.block
         /\ m.next \in {i, l.next} /\ m.lowest \in {l.lowest, Lower(l.lowest, i)}
  BY MergeTurns
<1>. QED
  BY <1>4, <1>5, <1>6, <1>7

LEMMA LoopKeepsWhole ==
  ASSUME highest \in Index, NEW t, Turned(Start0(t))
  PROVE  Turned(Merged(t))
<1>0. highest \in Nat
  BY AllocatorAssumption DEF Index
<1>1. PICK f : Turns(t, f) /\ Merged(t) = f[highest]
  BY <1>0, LoopHasTurns
<1>2. /\ f[-1] = Start0(t)
      /\ \A i \in 0 .. highest : f[i] = Merge(i, f[i - 1])
  BY <1>0, <1>1 DEF Turns
<1> DEFINE Bad == {n \in Nat : n <= highest /\ ~Turned(f[n])}
<1>3. ASSUME Bad # {} PROVE FALSE
  <2>1. PICK m \in Bad : \A j \in Bad : m <= j
    BY <1>3, Least
  <2>2. m \in 0 .. highest /\ ~Turned(f[m])
    BY <1>0
  <2>3. Turned(f[m - 1])
    <3>1. CASE m = 0
      BY <1>2, <3>1
    <3>2. CASE m # 0
      <4>1. m - 1 \in Nat /\ m - 1 <= highest /\ m - 1 \notin Bad
        BY <1>0, <2>1, <2>2, <3>2
      <4>. QED
        BY <4>1
    <3>. QED
      BY <3>1, <3>2
  <2>. QED
    BY <1>2, <2>2, <2>3, MergeKeepsWhole
<1>. QED
  BY <1>0, <1>1, <1>3
-----------------------------------------------------------------------------
(* Types, and that no block anywhere is divided by a boundary: no step     *)
(* brings one together across a boundary, whoever else frees.              *)
AllWhole ==
  /\ \A i \in Index : blocks[i].inUse => WholeBlock(blocks[i])
  /\ \A x \in owned : WholeBlock(x)
  /\ \A t \in Threads : At(t, "free") => WholeBlock(block[t])
  /\ \A t \in Threads : At(t, "scan") \/ At(t, "wait") => want[t] >= 1

IInv == TypeOK /\ AllWhole

LEMMA WholeTypes ==
  ASSUME NEW b, NEW s, Whole(b, s)
  PROVE  Blk(b, s) \in [base : Units, size : 1 .. BufferSize]
BY AllocatorAssumption DEF Whole, Blk, Units

LEMMA SimpleTypes ==
  /\ 0 \in 0 .. BufferSize /\ 0 \in 0 .. MaxBlocks
  /\ Blk(0, 0) \in Segments
  /\ MaxBlocks \in Nat /\ BufferSize \in Nat
  /\ \A i \in Index : i \in Nat /\ i + 1 \in 0 .. MaxBlocks /\ 0 .. i \subseteq Index
BY AllocatorAssumption DEF Blk, Segments, Index

(* The entry that Allocate finds.                                          *)
LEMMA FoundIsUsable ==
  ASSUME IInv, NEW t \in Threads, NEW i \in Scanned,
         Chosen(i, want[t], largest[t])
  PROVE  /\ i \in Index /\ blocks[i].inUse /\ blocks[i].size >= want[t]
         /\ blocks[i] \in Entry /\ WholeBlock(blocks[i])
<1>1. i \in Index
  BY SimpleTypes DEF IInv, TypeOK, Scanned
<1>2. blocks[i].inUse /\ blocks[i].size >= want[t]
  BY DEF Chosen, FirstFit, Fits
<1>. QED
  BY <1>1, <1>2 DEF IInv, TypeOK, AllWhole, Entry

LEMMA AllocateKeepsIInv ==
  ASSUME IInv, NEW t \in Threads,
         \/ \E n \in Sizes, whole \in BOOLEAN : Allocate(t, n, whole)
         \/ AllocateStep(t)
  PROVE  IInv'
<1>0. TypeOK /\ AllWhole
  BY DEF IInv
<1>1. ASSUME NEW n \in Sizes, NEW whole \in BOOLEAN, Allocate(t, n, whole)
      PROVE  IInv'
  <2>1. n \in 0 .. BufferSize /\ n >= 1
    BY AllocatorAssumption
  <2>2. TypeOK'
    BY <1>0, <1>1, <2>1 DEF TypeOK, Allocate, Goto, table
  <2>3. AllWhole'
    BY <1>0, <1>1, <2>1 DEF TypeOK, AllWhole, Allocate, At, Goto, table
  <2>. QED
    BY <2>2, <2>3 DEF IInv
<1>2. ASSUME AllocateFound(t) PROVE IInv'
  <2>1. PICK i \in Scanned :
          /\ Chosen(i, want[t], largest[t])
          /\ LET n == IF largest[t] THEN blocks[i].size ELSE want[t] IN
              /\ owned' = owned \cup {Blk(blocks[i].base, n)}
              /\ blocks' = [blocks EXCEPT ![i] =
                              IF n = @.size THEN NoBlock
                                            ELSE FreeBlock(@.base + n, @.size - n)]
    BY <1>2 DEF AllocateFound
  <2> DEFINE x == blocks[i]
             n == IF largest[t] THEN x.size ELSE want[t]
  <2>2. /\ i \in Index /\ x.inUse /\ x.size >= want[t]
        /\ x \in Entry /\ WholeBlock(x)
    BY <2>1, FoundIsUsable
  <2>3. /\ n \in Nat /\ n >= 1 /\ n <= x.size /\ x.size \in Nat
        /\ want[t] \in Nat
    BY <1>0, <1>2, <2>2 DEF TypeOK, AllWhole, AllocateFound, Entry
  <2>4. Whole(x.base, n) /\ (n # x.size => Whole(x.base + n, x.size - n))
    BY <2>2, <2>3, SplitWhole DEF WholeBlock
  <2>5. /\ blocks' = [blocks EXCEPT ![i] = IF n = x.size THEN NoBlock
                                ELSE FreeBlock(x.base + n, x.size - n)]
        /\ owned' = owned \cup {Blk(x.base, n)}
    BY <2>1
  <2>6. /\ Blk(x.base, n) \in [base : Units, size : 1 .. BufferSize]
        /\ WholeBlock(Blk(x.base, n))
    BY <2>4, WholeTypes, EntriesAndSegments
  <2> HIDE DEF x, n
  <2>7. /\ blocks' \in [Index -> Entry]
        /\ \A j \in Index : blocks'[j].inUse => WholeBlock(blocks'[j])
    BY <1>0, <2>2, <2>4, <2>5, EntriesAndSegments DEF TypeOK, AllWhole, Entry
  <2>8. TypeOK'
    BY <1>0, <1>2, <2>5, <2>6, <2>7 DEF TypeOK, AllocateFound, Goto, locals, Entry
  <2>9. AllWhole'
    BY <1>0, <1>2, <2>5, <2>6, <2>7 DEF TypeOK, AllWhole, AllocateFound, At, Goto, locals
  <2>. QED
    BY <2>8, <2>9 DEF IInv
<1>3. ASSUME AllocateNotFound(t) \/ AllocateBreak(t) \/ AllocateWake(t)
      PROVE  IInv'
  <2>1. /\ \E l \in {"wait", "leave", "scan"} : Goto(t, l)
        /\ pc[t] \in {"scan", "wait"}
        /\ table' = table /\ owned' = owned /\ locals' = locals
        /\ inAllocate' = inAllocate /\ beingDeleted' = beingDeleted
        /\ deleted' = deleted /\ valid' \in BOOLEAN
        /\ lock' = lock \/ (lock' = t /\ beingDeleted)
    BY <1>0, <1>3 DEF AllocateNotFound, AllocateBreak, AllocateWake, TypeOK,
                      table, flags, At
  <2>2. TypeOK'
    BY <1>0, <2>1 DEF TypeOK, Goto, table, locals
  <2>3. AllWhole'
    BY <1>0, <2>1 DEF TypeOK, AllWhole, At, Goto, table, locals
  <2>. QED
    BY <2>2, <2>3 DEF IInv
<1>4. ASSUME AllocateReturn(t) PROVE IInv'
  <2>1. TypeOK'
    BY <1>0, <1>4, SimpleTypes DEF TypeOK, AllocateReturn, Return, Goto, table,
                                   Segments
  <2>2. AllWhole'
    BY <1>0, <1>4 DEF TypeOK, AllWhole, AllocateReturn, Return, At, Goto, table
  <2>. QED
    BY <2>1, <2>2 DEF IInv
<1>. QED
  BY <1>1, <1>2, <1>3, <1>4 DEF AllocateStep

LEMMA FreeKeepsIInv ==
  ASSUME IInv, NEW t \in Threads,
         \/ \E x \in owned : \E n \in 1 .. x.size : Free(t, x, n)
         \/ FreeStep(t)
  PROVE  IInv'
<1>0. TypeOK /\ AllWhole /\ highest \in Index
  BY DEF IInv, TypeOK
<1>1. ASSUME NEW x \in owned, NEW n \in 1 .. x.size, Free(t, x, n)
      PROVE  IInv'
  <2>1. WholeBlock(x) /\ x \in [base : Units, size : 1 .. BufferSize]
    BY <1>0 DEF TypeOK, AllWhole
  <2>2. /\ x.size \in Nat /\ x.base \in Nat /\ n \in Nat /\ n <= x.size /\ n >= 1
        /\ Past(x) - n = x.base + (x.size - n)
        /\ x.size - (x.size - n) = n
    BY <2>1 DEF Units, Past
  <2>3. n # x.size => Whole(x.base, x.size - n) /\ Whole(x.base + (x.size - n), n)
    BY <2>1, <2>2, SplitWhole DEF WholeBlock
  <2>4. n = x.size => Whole(x.base + (x.size - n), n)
    <3>1. n = x.size => x.base + (x.size - n) = x.base
      BY <2>2
    <3>. QED
      BY <2>1, <3>1 DEF WholeBlock
  <2>5. /\ Blk(Past(x) - n, n) \in Segments
        /\ WholeBlock(Blk(Past(x) - n, n))
    BY <2>2, <2>3, <2>4, EntriesAndSegments
  <2>6. n # x.size => /\ Blk(x.base, x.size - n) \in [base : Units, size : 1 .. BufferSize]
                      /\ WholeBlock(Blk(x.base, x.size - n))
    BY <2>3, EntriesAndSegments, WholeTypes
  <2>7. highest + 1 \in 0 .. MaxBlocks
    BY <1>0, SimpleTypes
  <2>8. TypeOK'
    BY <1>0, <1>1, <2>5, <2>6, <2>7 DEF TypeOK, Free, Goto, table, flags, Segments
  <2>9. AllWhole'
    BY <1>0, <1>1, <2>5, <2>6 DEF TypeOK, AllWhole, Free, At, Goto, table, flags
  <2>. QED
    BY <2>8, <2>9 DEF IInv
<1>2. ASSUME FreeStep(t) PROVE IInv'
  <2> DEFINE l == Merged(t)
  <2>1. Turned(Start0(t))
    <3>1. At(t, "free")
      BY <1>2 DEF FreeStep, FreeMerge, FreeTooMany
    <3>2. 0 \in 0 .. highest
      BY <1>0, SimpleTypes
    <3>. QED
      BY <1>0, <3>1, <3>2 DEF Turned, Start0, TypeOK, AllWhole, Entry, Segments
  <2>2. Turned(l)
    BY <1>0, <2>1, LoopKeepsWhole
  <2>3. /\ l.blocks \in [Index -> Entry]
        /\ \A i \in Index : l.blocks[i].inUse => WholeBlock(l.blocks[i])
        /\ l.next \in Index /\ l.lowest \in 0 .. MaxBlocks
        /\ Whole(l.block.base, l.block.size)
    BY <1>0, <2>2, SimpleTypes DEF Turned, WholeBlock
  <2> DEFINE b == FreeBlock(l.block.base, l.block.size)
  <2>4. b \in Entry /\ WholeBlock(b)
    BY <2>3, EntriesAndSegments
  <2>5. \/ /\ l.lowest # MaxBlocks
           /\ blocks' = [l.blocks EXCEPT ![l.lowest] = b]
           /\ highest' = Upper(l.lowest, l.next)
        \/ blocks' = l.blocks /\ highest' = highest
    BY <1>2 DEF FreeStep, FreeMerge, FreeTooMany
  <2>6. /\ Return(t) /\ valid' = TRUE /\ lock' = lock /\ owned' = owned
        /\ inAllocate' = inAllocate /\ beingDeleted' = beingDeleted
        /\ deleted' = deleted
    BY <1>2 DEF FreeStep, FreeMerge, FreeTooMany
  <2> HIDE DEF l, b
  <2>7. l.lowest # MaxBlocks => l.lowest \in Index
    BY <2>3, SimpleTypes DEF Index
  <2>8. /\ blocks' \in [Index -> Entry]
        /\ \A i \in Index : blocks'[i].inUse => WholeBlock(blocks'[i])
    BY <2>3, <2>4, <2>5, <2>7
  <2>9. highest' \in Index
    BY <1>0, <2>3, <2>5, <2>7 DEF Upper
  <2>10. TypeOK'
    BY <1>0, <2>6, <2>8, <2>9, SimpleTypes DEF TypeOK, Return, Goto, Entry, Segments
  <2>11. AllWhole'
    BY <1>0, <2>6, <2>8 DEF TypeOK, AllWhole, Return, At, Goto
  <2>. QED
    BY <2>10, <2>11 DEF IInv
<1>. QED
  BY <1>1, <1>2
LEMMA ExtendKeepsIInv ==
  ASSUME IInv, NEW t \in Threads, NEW x \in owned, ExtendToLargest(t, x)
  PROVE  IInv'
<1>0. TypeOK /\ AllWhole /\ highest \in Index
  BY DEF IInv, TypeOK
<1>1. WholeBlock(x) /\ x \in [base : Units, size : 1 .. BufferSize]
  BY <1>0 DEF TypeOK, AllWhole
<1>2. /\ pc' = pc /\ locals' = locals /\ lock' = lock /\ highest' = highest
      /\ flags' = flags
      /\ ExtendUpwards(x) \/ ExtendDownwards(x)
  BY DEF ExtendToLargest
<1>3. PICK i \in Index, y \in [base : Units, size : 1 .. BufferSize] :
        /\ WholeBlock(y)
        /\ blocks' = [blocks EXCEPT ![i] = NoBlock]
        /\ owned' = (owned \ {x}) \cup {y}
  <2>1. ASSUME ExtendUpwards(x)
        PROVE \E i \in Index, y \in [base : Units, size : 1 .. BufferSize] :
                /\ WholeBlock(y)
                /\ blocks' = [blocks EXCEPT ![i] = NoBlock]
                /\ owned' = (owned \ {x}) \cup {y}
    <3>1. PICK i \in Scanned :
            /\ blocks[i].inUse /\ blocks[i].base = Past(x)
            /\ blocks' = [blocks EXCEPT ![i] = NoBlock]
            /\ owned' = (owned \ {x}) \cup {Blk(x.base, x.size + blocks[i].size)}
      BY <2>1 DEF ExtendUpwards
    <3>2. i \in Index /\ WholeBlock(blocks[i]) /\ ~On64MBBoundary(Past(x))
      BY <1>0, <2>1, <3>1, SimpleTypes DEF Scanned, AllWhole, ExtendUpwards
    <3>3. Whole(x.base, x.size + blocks[i].size)
      BY <1>1, <3>1, <3>2, JoinWhole DEF WholeBlock, Past
    <3>. QED
      BY <3>1, <3>2, <3>3, WholeTypes, EntriesAndSegments
  <2>2. ASSUME ExtendDownwards(x)
        PROVE \E i \in Index, y \in [base : Units, size : 1 .. BufferSize] :
                /\ WholeBlock(y)
                /\ blocks' = [blocks EXCEPT ![i] = NoBlock]
                /\ owned' = (owned \ {x}) \cup {y}
    <3>1. PICK i \in Scanned :
            /\ blocks[i].inUse /\ Past(blocks[i]) = x.base
            /\ blocks' = [blocks EXCEPT ![i] = NoBlock]
            /\ owned' = (owned \ {x}) \cup {Blk(blocks[i].base, x.size + blocks[i].size)}
      BY <2>2 DEF ExtendDownwards
    <3>2. /\ i \in Index /\ WholeBlock(blocks[i]) /\ ~On64MBBoundary(x.base)
          /\ blocks[i].size \in Nat /\ x.size \in Nat
      BY <1>0, <1>1, <2>2, <3>1, SimpleTypes
         DEF Scanned, AllWhole, ExtendDownwards, TypeOK
    <3>3. Whole(blocks[i].base, blocks[i].size + x.size)
      BY <1>1, <3>1, <3>2, JoinWhole DEF WholeBlock, Past
    <3>4. blocks[i].size + x.size = x.size + blocks[i].size
      BY <3>2
    <3>. QED
      BY <3>1, <3>2, <3>3, <3>4, WholeTypes, EntriesAndSegments
  <2>. QED
    BY <1>2, <2>1, <2>2
<1>4. /\ blocks' \in [Index -> Entry]
      /\ \A j \in Index : blocks'[j].inUse => WholeBlock(blocks'[j])
  BY <1>0, <1>3, EntriesAndSegments DEF TypeOK, AllWhole, Entry
<1>5. TypeOK'
  BY <1>0, <1>2, <1>3, <1>4 DEF TypeOK, locals, flags, Entry
<1>6. AllWhole'
  BY <1>0, <1>2, <1>3, <1>4 DEF AllWhole, At, locals
<1>. QED
  BY <1>5, <1>6 DEF IInv

LEMMA DeleteKeepsIInv ==
  ASSUME IInv, NEW t \in Threads, Delete(t) \/ DeleteStep(t)
  PROVE  IInv'
<1>0. TypeOK /\ AllWhole
  BY DEF IInv
<1>1. CASE Delete(t) \/ DeleteSignal(t)
  <2>1. /\ \E l \in {"delete", "drain"} : Goto(t, l)
        /\ table' = table /\ owned' = owned /\ locals' = locals /\ lock' = lock
        /\ inAllocate' = inAllocate /\ deleted' = deleted
        /\ valid' \in BOOLEAN /\ beingDeleted' \in BOOLEAN
        /\ beingDeleted => beingDeleted'
    BY <1>0, <1>1 DEF Delete, DeleteSignal, TypeOK
  <2>2. TypeOK'
    BY <1>0, <2>1 DEF TypeOK, Goto, table, locals
  <2>3. AllWhole'
    BY <1>0, <2>1 DEF TypeOK, AllWhole, At, Goto, table, locals
  <2>. QED
    BY <2>2, <2>3 DEF IInv
<1>2. CASE DeleteEnd(t)
  <2>1. TypeOK'
    BY <1>0, <1>2, SimpleTypes DEF TypeOK, DeleteEnd, Return, Goto, table, Segments
  <2>2. AllWhole'
    BY <1>0, <1>2 DEF TypeOK, AllWhole, DeleteEnd, Return, At, Goto, table
  <2>. QED
    BY <2>1, <2>2 DEF IInv
<1>. QED
  BY <1>1, <1>2 DEF DeleteStep

LEMMA NextKeepsIInv == IInv /\ [Next]_vars => IInv'
<1> SUFFICES ASSUME IInv, [Next]_vars PROVE IInv'
  OBVIOUS
<1>1. ASSUME UNCHANGED vars PROVE IInv'
  BY <1>1 DEF IInv, TypeOK, AllWhole, At, vars, table, flags, locals
<1>2. ASSUME NEW t \in Threads, Start(t) PROVE IInv'
  BY <1>2, AllocateKeepsIInv, FreeKeepsIInv, ExtendKeepsIInv, DeleteKeepsIInv
     DEF Start
<1>3. ASSUME NEW t \in Threads, Step(t) PROVE IInv'
  BY <1>3, AllocateKeepsIInv, FreeKeepsIInv, DeleteKeepsIInv DEF Step
<1>. QED
  BY <1>1, <1>2, <1>3 DEF Next
-----------------------------------------------------------------------------
(* The cuts of the constructor are the boundaries.                         *)
LEMMA Division ==
  ASSUME NEW a \in Nat, NEW b \in Nat \ {0}
  PROVE  a \div b \in Nat /\ a % b \in 0 .. b - 1 /\ a = b * (a \div b) + (a % b)
<1>1. a \div b \in Nat /\ a % b \in 0 .. b - 1
  OBVIOUS
<1>2. a = b * (a \div b) + (a % b)
  OBVIOUS
<1>. QED
  BY <1>1, <1>2

LEMMA NoMultipleBetween ==
  ASSUME NEW b \in Nat, NEW k \in Int, NEW j \in Int, b * j < b * k, b * k < b * (j + 1)
  PROVE  FALSE
<1>1. CASE k <= j
  <2>1. b * (j - k) >= 0 /\ b * (j - k) = b * j - b * k
    BY <1>1
  <2>. QED
    BY <2>1
<1>2. CASE k >= j + 1
  <2>1. b * (k - (j + 1)) >= 0 /\ b * (k - (j + 1)) = b * k - b * (j + 1)
    BY <1>2
  <2>. QED
    BY <2>1
<1>. QED
  BY <1>1, <1>2

LEMMA MultipleHasNoRest ==
  ASSUME NEW b \in Nat \ {0}, NEW k \in Nat
  PROVE  (b * k) % b = 0
<1> DEFINE a == b * k
           j == a \div b
           e == a % b
<1>1. a \in Nat
  OBVIOUS
<1> HIDE DEF a
<1>2. j \in Nat /\ e \in 0 .. b - 1 /\ a = b * j + e
  BY <1>1, Division
<1> HIDE DEF j, e
<1>3. ASSUME e # 0 PROVE FALSE
  <2>1. b * j < b * k /\ b * k < b * j + b
    BY <1>2, <1>3 DEF a
  <2>2. b * (j + 1) = b * j + b
    BY <1>2
  <2>. QED
    BY <1>2, <2>1, <2>2, NoMultipleBetween
<1>. QED
  BY <1>3 DEF e, a

(* Where the cuts are, with respect to the multiples of Boundary.          *)
Quotient == PhysicalAddress \div Boundary

LEMMA CutsAndMultiples ==
  ASSUME NEW i \in Nat
  PROVE  /\ Quotient \in Nat /\ Cut(i) \in Nat /\ Cut(i) < Cut(i + 1)
         /\ Cut(i) + PhysicalAddress >= Boundary * (i + Quotient)
         /\ Cut(i + 1) + PhysicalAddress = Boundary * (i + Quotient + 1)
<1> DEFINE r == PhysicalAddress % Boundary
<1>1. /\ Boundary \in Nat /\ Boundary >= 1 /\ PhysicalAddress \in Nat
      /\ Quotient \in Nat /\ r \in 0 .. Boundary - 1
      /\ PhysicalAddress = Boundary * Quotient + r
  <2>1. Boundary \in Nat \ {0} /\ PhysicalAddress \in Nat
    BY AllocatorAssumption
  <2>2. /\ Quotient \in Nat /\ r \in 0 .. Boundary - 1
        /\ PhysicalAddress = Boundary * Quotient + r
    BY <2>1, Division, Zenon DEF Quotient
  <2>. QED
    BY <2>1, <2>2
<1>2. Cut(i + 1) = (i + 1) * Boundary - r /\ Cut(i) = IF i = 0 THEN 0 ELSE i * Boundary - r
  BY DEF Cut
<1> HIDE DEF r
<1>3. /\ (i + 1) * Boundary = i * Boundary + Boundary
      /\ Boundary * (i + Quotient) = i * Boundary + Boundary * Quotient
      /\ Boundary * (i + Quotient + 1) = i * Boundary + Boundary * Quotient + Boundary
      /\ i * Boundary \in Nat /\ Boundary * Quotient \in Nat
      /\ i # 0 => i * Boundary >= Boundary
      /\ i = 0 => i * Boundary = 0
  <2>1. i # 0 => (i - 1) * Boundary >= 0 /\ (i - 1) * Boundary = i * Boundary - Boundary
    BY <1>1
  <2>2. i * Boundary \in Nat /\ Boundary * Quotient \in Nat
    BY <1>1
  <2>3. /\ (i + 1) * Boundary = i * Boundary + Boundary
        /\ Boundary * (i + Quotient) = i * Boundary + Boundary * Quotient
        /\ Boundary * (i + Quotient + 1) = i * Boundary + Boundary * Quotient + Boundary
    BY <1>1
  <2>. QED
    BY <1>1, <2>1, <2>2, <2>3
<1>. QED
  BY <1>1, <1>2, <1>3

LEMMA CutIsBoundary ==
  ASSUME NEW i \in Nat
  PROVE  On64MBBoundary(Cut(i + 1))
<1>1. /\ Cut(i + 1) + PhysicalAddress = Boundary * (i + Quotient + 1)
      /\ i + Quotient + 1 \in Nat
  BY CutsAndMultiples
<1>. QED
  BY <1>1, MultipleHasNoRest, AllocatorAssumption DEF On64MBBoundary

LEMMA NoBoundaryBetweenCuts ==
  ASSUME NEW i \in Nat, NEW u \in Nat, Cut(i) < u, u < Cut(i + 1)
  PROVE  ~On64MBBoundary(u)
<1> SUFFICES ASSUME On64MBBoundary(u) PROVE FALSE
  OBVIOUS
<1> DEFINE a == u + PhysicalAddress
           k == a \div Boundary
<1>1. a \in Nat /\ Boundary \in Nat \ {0} /\ PhysicalAddress \in Nat
  BY AllocatorAssumption
<1>2. k \in Nat /\ a = Boundary * k
  <2>1. a % Boundary = 0
    BY DEF On64MBBoundary
  <2> HIDE DEF a
  <2>2. k \in Nat /\ a = Boundary * k + (a % Boundary) /\ Boundary * k \in Int
    BY <1>1, Division
  <2>. QED
    BY <2>1, <2>2
<1>3. /\ Quotient \in Nat /\ Cut(i) \in Nat /\ Cut(i + 1) \in Nat
      /\ Cut(i) + PhysicalAddress >= Boundary * (i + Quotient)
      /\ Cut(i + 1) + PhysicalAddress = Boundary * (i + Quotient + 1)
  BY CutsAndMultiples
<1>4. Boundary * (i + Quotient) < a /\ a < Boundary * (i + Quotient + 1)
  <2>1. Boundary * (i + Quotient) \in Int
    BY <1>1, <1>3
  <2>. QED
    BY <1>1, <1>3, <2>1
<1>5. i + Quotient \in Int /\ i + Quotient + 1 = (i + Quotient) + 1
  BY <1>3
<1> HIDE DEF a, k
<1>. QED
  BY <1>1, <1>2, <1>4, <1>5, NoMultipleBetween

LEMMA CutsIncrease ==
  ASSUME NEW i \in Nat, NEW j \in Nat, i < j
  PROVE  Cut(i + 1) <= Cut(j)
<1>1. /\ Cut(i + 1) + PhysicalAddress = Boundary * (i + Quotient + 1)
      /\ Quotient \in Nat /\ Cut(i + 1) \in Nat
  BY CutsAndMultiples
<1>2. /\ Cut((j - 1) + 1) + PhysicalAddress = Boundary * ((j - 1) + Quotient + 1)
      /\ Cut((j - 1) + 1) \in Nat /\ (j - 1) + 1 = j
  <2>1. j - 1 \in Nat /\ (j - 1) + 1 = j
    OBVIOUS
  <2>. QED
    BY <2>1, CutsAndMultiples
<1>3. Boundary * ((j - 1) + Quotient + 1) - Boundary * (i + Quotient + 1)
        = Boundary * (j - 1 - i)
  BY <1>1, AllocatorAssumption
<1>4. Boundary * (j - 1 - i) >= 0
  BY AllocatorAssumption
<1>5. Boundary \in Nat /\ PhysicalAddress \in Nat
  BY AllocatorAssumption
<1>6. Boundary * ((j - 1) + Quotient + 1) \in Int /\ Boundary * (i + Quotient + 1) \in Int
  BY <1>1, <1>5
<1>. QED
  BY <1>1, <1>2, <1>3, <1>4, <1>5, <1>6
LEMMA PiecesAreWhole ==
  ASSUME NEW i \in Pieces
  PROVE  Whole(Cut(i), Lower(Cut(i + 1), BufferSize) - Cut(i))
<1>1. /\ i \in Nat /\ Cut(i) < BufferSize /\ BufferSize \in Nat
      /\ Cut(i) \in Nat /\ Cut(i + 1) \in Nat /\ Cut(i) < Cut(i + 1)
  <2>1. i \in Nat /\ i + 1 \in Nat /\ Cut(i) < BufferSize
    BY SimpleTypes DEF Pieces
  <2>. QED
    BY <2>1, CutsAndMultiples, SimpleTypes
<1> DEFINE s == Lower(Cut(i + 1), BufferSize) - Cut(i)
<1>2. /\ s \in 1 .. BufferSize /\ Cut(i) + s <= BufferSize
      /\ Cut(i) + s <= Cut(i + 1)
  BY <1>1 DEF Lower
<1>3. ASSUME NEW u \in Cut(i) + 1 .. Cut(i) + s - 1 PROVE ~On64MBBoundary(u)
  <2>1. u \in Nat /\ Cut(i) < u /\ u < Cut(i + 1)
    BY <1>1, <1>2
  <2>. QED
    BY <1>1, <2>1, NoBoundaryBetweenCuts
<1> HIDE DEF s
<1>4. Whole(Cut(i), s)
  BY <1>1, <1>2, <1>3 DEF Whole
<1>. QED
  BY <1>4 DEF s

LEMMA PiecesAreSome ==
  /\ IsFiniteSet(Pieces) /\ 0 \in Pieces /\ Pieces \subseteq Index
  /\ Cardinality(Pieces) \in 1 .. MaxBlocks
<1>1. 0 \in Pieces /\ Pieces \subseteq Index
  BY AllocatorAssumption DEF Pieces, Index, Cut
<1>2. IsFiniteSet(Index) /\ Cardinality(Index) = MaxBlocks
  <2>1. 0 \in Int /\ MaxBlocks - 1 \in Int /\ ~(0 > MaxBlocks - 1)
        /\ MaxBlocks - 1 - 0 + 1 = MaxBlocks
    BY AllocatorAssumption
  <2>2. /\ IsFiniteSet(0 .. MaxBlocks - 1)
        /\ Cardinality(0 .. MaxBlocks - 1) =
             IF 0 > MaxBlocks - 1 THEN 0 ELSE MaxBlocks - 1 - 0 + 1
    BY ONLY <2>1, FS_Interval, Zenon
  <2>. QED
    BY <2>1, <2>2 DEF Index
<1>3. IsFiniteSet(Pieces) /\ Cardinality(Pieces) <= MaxBlocks
  BY <1>1, <1>2, FS_Subset
<1>4. Cardinality(Pieces) \in Nat /\ Cardinality(Pieces) # 0
  BY <1>1, <1>3, FS_CardinalityType, FS_EmptySet
<1>. QED
  BY <1>1, <1>3, <1>4, SimpleTypes

LEMMA InitIsIInv == Init => IInv
<1> SUFFICES ASSUME Init PROVE IInv
  OBVIOUS
<1>1. /\ blocks \in [Index -> Entry]
      /\ \A i \in Index : blocks[i].inUse => WholeBlock(blocks[i])
  <2>1. ASSUME NEW i \in Index
        PROVE  blocks[i] \in Entry /\ (blocks[i].inUse => WholeBlock(blocks[i]))
    BY PiecesAreWhole, EntriesAndSegments DEF Init
  <2>. QED
    BY <2>1 DEF Init
<1>2. highest \in Index
  BY PiecesAreSome, SimpleTypes DEF Init, Index
<1>3. TypeOK
  BY <1>1, <1>2, SimpleTypes DEF Init, TypeOK, Entry, Segments
<1>4. AllWhole
  BY <1>1 DEF Init, AllWhole, At
<1>. QED
  BY <1>3, <1>4 DEF IInv

LEMMA IInvAlways == Spec => []IInv
  BY InitIsIInv, NextKeepsIInv, PTL DEF Spec

(* The table, the blocks under way and the threads keep their types,       *)
(* whoever frees.                                                          *)
THEOREM TypeCorrect == Spec => []TypeOK
<1>1. IInv => TypeOK
  BY DEF IInv
<1>. QED
  BY <1>1, IInvAlways, PTL

(* No block that a client has crosses a physical boundary, wherever the    *)
(* memory begins and whoever frees.                                        *)
THEOREM NeverCrossesABoundary == Spec => []CrossesNoBoundary
<1>1. IInv => CrossesNoBoundary
  BY DEF IInv, AllWhole, WholeBlock, Whole, CrossesNoBoundary, Past
<1>. QED
  BY <1>1, IInvAlways, PTL
-----------------------------------------------------------------------------
(* With one thread that frees, each unit of the memory is in one place:    *)
(* the index of the table that Free read before it took the lock is still  *)
(* the first unused one.  The table must have an entry for each stretch    *)
(* between boundaries that the constructor cuts.                           *)
OneFreer == \A t, u \in Freers : t = u
RoomForCuts == BufferSize <= Cut(MaxBlocks)

InTable(u)   == {i \in Index : blocks[i].inUse /\ Covers(blocks[i], u)}
InOwned(u)   == {x \in owned : Covers(x, u)}
InRefused(u) == {x \in refused : Covers(x, u)}
OnTheWay(u)  == {t \in Threads : At(t, "free") /\ Covers(block[t], u)}

OnlyOne(A, B, C, D) ==
  \/ (\E a : A = {a}) /\ B = {} /\ C = {} /\ D = {}
  \/ A = {} /\ (\E b : B = {b}) /\ C = {} /\ D = {}
  \/ A = {} /\ B = {} /\ (\E c : C = {c}) /\ D = {}
  \/ A = {} /\ B = {} /\ C = {} /\ (\E d : D = {d})

(* Two blocks that Free would join.                                        *)
Abut(x, y) == Past(x) = y.base /\ ~On64MBBoundary(y.base)

Reading == \A t \in Threads : At(t, "free") => t \in Freers /\ lowest[t] = highest + 1
Beyond  == \A i \in Index : blocks[i].inUse => i <= highest
Placed  == \A u \in Units : OnlyOne(InTable(u), InOwned(u), InRefused(u), OnTheWay(u))
Joined  == \A i, j \in Index :
             blocks[i].inUse /\ blocks[j].inUse => ~Abut(blocks[i], blocks[j])

TableInv == Reading /\ Beyond /\ Placed /\ Joined

(* What a turn of the loop keeps of the table as it was before the loop.   *)
Turning(t, i, l) ==
  /\ \A j \in Index : l.blocks[j] = blocks[j] \/ (j <= i /\ l.blocks[j] = NoBlock)
  /\ l.lowest <= highest + 1
  /\ l.lowest # highest + 1 => l.lowest <= i /\ ~l.blocks[l.lowest].inUse
  /\ \A j \in Index : j <= i /\ l.blocks[j].inUse => j <= l.next
  /\ \A j \in Index : j <= i /\ l.blocks[j].inUse =>
       ~Abut(l.blocks[j], l.block) /\ ~Abut(l.block, l.blocks[j])

Reached(bs, b, u) ==
  Covers(b, u) \/ \E j \in Index : bs[j].inUse /\ Covers(bs[j], u)

TurningUnit(t, l, u) ==
  /\ Covers(l.block, u) =>
       \A j \in Index : ~(l.blocks[j].inUse /\ Covers(l.blocks[j], u))
  /\ Reached(l.blocks, l.block, u) <=> Reached(blocks, block[t], u)

LEMMA NaturalBlocks ==
  ASSUME NEW x, x \in Entry \/ x \in Segments
  PROVE  x.base \in Nat /\ x.size \in Nat /\ Past(x) \in Nat /\ Past(x) = x.base + x.size
BY SimpleTypes DEF Entry, Segments, Past

LEMMA MergeKeepsTurning ==
  ASSUME IInv, Joined, NEW t, NEW l, Turned(l), NEW i \in 0 .. highest,
         Turning(t, i - 1, l)
  PROVE  Turning(t, i, Merge(i, l))
<1> DEFINE x == l.blocks[i]
           m == Merge(i, l)
<1>0. /\ highest \in Index /\ highest \in Nat /\ i \in Index /\ i \in Nat
      /\ \A j \in Index : j \in Nat /\ (j <= i <=> j = i \/ j <= i - 1)
      /\ blocks \in [Index -> Entry]
  BY SimpleTypes DEF IInv, TypeOK, Entry, Index
<1>1. /\ l.blocks \in [Index -> Entry] /\ x \in Entry /\ l.block \in Segments
      /\ l.next \in Nat /\ l.lowest \in Nat /\ MaxBlocks \in Nat
      /\ highest < MaxBlocks
  BY <1>0, AllocatorAssumption DEF Turned, Index
<1>2. /\ \A j \in Index : l.blocks[j] = blocks[j] \/ (j <= i - 1 /\ l.blocks[j] = NoBlock)
      /\ l.lowest <= highest + 1
      /\ l.lowest # highest + 1 => l.lowest <= i - 1 /\ ~l.blocks[l.lowest].inUse
      /\ \A j \in Index : j <= i - 1 /\ l.blocks[j].inUse => j <= l.next
      /\ \A j \in Index : j <= i - 1 /\ l.blocks[j].inUse =>
           ~Abut(l.blocks[j], l.block) /\ ~Abut(l.block, l.blocks[j])
  BY DEF Turning
<1>3. x = blocks[i]
  BY <1>0, <1>2
<1>4. ASSUME NEW j \in Index, l.blocks[j].inUse, x.inUse
      PROVE  ~Abut(l.blocks[j], x) /\ ~Abut(x, l.blocks[j])
  <2>1. l.blocks[j] = blocks[j]
    BY <1>2, <1>4, EntriesAndSegments
  <2>. QED
    BY <1>0, <1>3, <1>4, <2>1 DEF Joined
<1>5. /\ Lower(l.lowest, i) \in {l.lowest, i}
      /\ Lower(l.lowest, i) <= i /\ Lower(l.lowest, i) <= highest
      /\ Lower(l.lowest, i) # i => l.lowest <= i - 1
  BY <1>0, <1>1 DEF Lower
<1> SUFFICES Turning(t, i, m)
  OBVIOUS
<1> HIDE DEF m
<1>6. /\ \A j \in Index : j # i => [l.blocks EXCEPT ![i] = NoBlock][j] = l.blocks[j]
      /\ [l.blocks EXCEPT ![i] = NoBlock][i] = NoBlock
      /\ ~NoBlock.inUse
  BY <1>0, <1>1, EntriesAndSegments
<1>7. CASE /\ x.inUse
           /\ m.blocks = [l.blocks EXCEPT ![i] = NoBlock]
           /\ \/ /\ Past(l.block) = x.base /\ ~On64MBBoundary(x.base)
                 /\ m.block = Blk(l.block.base, l.block.size + x.size)
              \/ /\ l.block.base = Past(x) /\ ~On64MBBoundary(l.block.base)
                 /\ m.block = Blk(x.base, l.block.size + x.size)
           /\ m.next = l.next /\ m.lowest = Lower(l.lowest, i)
  <2>1. \/ m.block.base = l.block.base /\ Past(m.block) = Past(x)
        \/ m.block.base = x.base /\ Past(m.block) = Past(l.block)
    BY <1>1, <1>7, NaturalBlocks DEF Blk, Past
  <2>2. \A j \in Index : m.blocks[j] = blocks[j] \/ (j <= i /\ m.blocks[j] = NoBlock)
    BY <1>0, <1>2, <1>6, <1>7
  <2>3. m.lowest <= highest + 1 /\ m.lowest <= i /\ ~m.blocks[m.lowest].inUse
    <3>1. m.lowest \in Nat /\ m.lowest <= highest + 1 /\ m.lowest <= i
      BY <1>0, <1>1, <1>5, <1>7
    <3>2. CASE m.lowest = i
      BY <1>6, <1>7, <3>1, <3>2
    <3>3. CASE m.lowest # i
      <4>1. m.lowest = l.lowest /\ l.lowest <= i - 1 /\ l.lowest # highest + 1
        BY <1>0, <1>1, <1>5, <1>7, <3>3
      <4>2. m.lowest \in Index
        BY <1>0, <1>1, <4>1 DEF Index
      <4>. QED
        BY <1>2, <1>6, <1>7, <3>1, <3>3, <4>1, <4>2
    <3>. QED
      BY <3>1, <3>2, <3>3
  <2>4. ASSUME NEW j \in Index, j <= i, m.blocks[j].inUse
        PROVE  /\ j <= i - 1 /\ l.blocks[j].inUse /\ m.blocks[j] = l.blocks[j]
               /\ j <= m.next
               /\ ~Abut(m.blocks[j], m.block) /\ ~Abut(m.block, m.blocks[j])
    <3>1. j # i /\ m.blocks[j] = l.blocks[j]
      BY <1>6, <1>7, <2>4
    <3>2. j <= i - 1 /\ l.blocks[j].inUse
      BY <1>0, <2>4, <3>1
    <3>3. /\ ~Abut(l.blocks[j], l.block) /\ ~Abut(l.block, l.blocks[j])
          /\ ~Abut(l.blocks[j], x) /\ ~Abut(x, l.blocks[j])
      BY <1>2, <1>4, <1>7, <3>2
    <3>. QED
      BY <1>2, <1>7, <2>1, <3>1, <3>2, <3>3 DEF Abut
  <2>. QED
    BY <2>2, <2>3, <2>4 DEF Turning
<1>8. CASE /\ x.inUse
           /\ ~(Past(l.block) = x.base /\ ~On64MBBoundary(x.base))
           /\ ~(l.block.base = Past(x) /\ ~On64MBBoundary(l.block.base))
           /\ m.blocks = l.blocks /\ m.block = l.block
           /\ m.next = i /\ m.lowest = l.lowest
  <2>1. ~Abut(x, l.block) /\ ~Abut(l.block, x)
    BY <1>8 DEF Abut
  <2>2. \A j \in Index : m.blocks[j] = blocks[j] \/ (j <= i /\ m.blocks[j] = NoBlock)
    BY <1>0, <1>2, <1>8
  <2>3. /\ m.lowest <= highest + 1
        /\ m.lowest # highest + 1 => m.lowest <= i /\ ~m.blocks[m.lowest].inUse
    BY <1>0, <1>1, <1>2, <1>8
  <2>4. \A j \in Index : j <= i /\ m.blocks[j].inUse =>
          ~Abut(m.blocks[j], m.block) /\ ~Abut(m.block, m.blocks[j])
    BY <1>0, <1>2, <1>8, <2>1
  <2>. QED
    BY <1>8, <2>2, <2>3, <2>4 DEF Turning
<1>9. CASE /\ ~x.inUse
           /\ m.blocks = l.blocks /\ m.block = l.block
           /\ m.next = l.next /\ m.lowest = Lower(l.lowest, i)
  <2>1. ASSUME NEW j \in Index, j <= i, m.blocks[j].inUse
        PROVE  j <= i - 1 /\ l.blocks[j].inUse
    <3>1. j # i
      BY <1>9, <2>1
    <3>. QED
      BY <1>0, <1>9, <2>1, <3>1
  <2>2. \A j \in Index : m.blocks[j] = blocks[j] \/ (j <= i /\ m.blocks[j] = NoBlock)
    BY <1>0, <1>2, <1>9
  <2>3. m.lowest <= highest + 1 /\ m.lowest <= i /\ ~m.blocks[m.lowest].inUse
    <3>1. m.lowest \in Nat /\ m.lowest <= highest + 1 /\ m.lowest <= i
      BY <1>0, <1>1, <1>5, <1>9
    <3>2. CASE m.lowest # i
      <4>1. m.lowest = l.lowest /\ l.lowest <= i - 1 /\ l.lowest # highest + 1
        BY <1>0, <1>1, <1>5, <1>9, <3>2
      <4>. QED
        BY <1>2, <1>9, <3>1, <4>1
    <3>. QED
      BY <1>9, <3>1, <3>2
  <2>. QED
    BY <1>2, <1>9, <2>1, <2>2, <2>3 DEF Turning
<1>10. \/ /\ x.inUse
          /\ m.blocks = [l.blocks EXCEPT ![i] = NoBlock]
          /\ \/ /\ Past(l.block) = x.base /\ ~On64MBBoundary(x.base)
                /\ m.block = Blk(l.block.base, l.block.size + x.size)
             \/ /\ l.block.base = Past(x) /\ ~On64MBBoundary(l.block.base)
                /\ m.block = Blk(x.base, l.block.size + x.size)
          /\ m.next = l.next /\ m.lowest = Lower(l.lowest, i)
       \/ /\ x.inUse
          /\ ~(Past(l.block) = x.base /\ ~On64MBBoundary(x.base))
          /\ ~(l.block.base = Past(x) /\ ~On64MBBoundary(l.block.base))
          /\ m.blocks = l.blocks /\ m.block = l.block
          /\ m.next = i /\ m.lowest = l.lowest
       \/ /\ ~x.inUse
          /\ m.blocks = l.blocks /\ m.block = l.block
          /\ m.next = l.next /\ m.lowest = Lower(l.lowest, i)
  BY MergeTurns DEF m
<1>. QED
  BY <1>7, <1>8, <1>9, <1>10

LEMMA MergeKeepsUnit ==
  ASSUME IInv, NEW t, NEW l, Turned(l), NEW i \in 0 .. highest,
         Turning(t, i - 1, l), NEW u \in Units,
         \A j, k \in Index : /\ blocks[j].inUse /\ Covers(blocks[j], u)
                             /\ blocks[k].inUse /\ Covers(blocks[k], u)
                             => j = k,
         TurningUnit(t, l, u)
  PROVE  TurningUnit(t, Merge(i, l), u)
<1> DEFINE x == l.blocks[i]
           m == Merge(i, l)
<1> SUFFICES TurningUnit(t, m, u)
  OBVIOUS
<1>0. i \in Index /\ u \in Int
  BY SimpleTypes DEF IInv, TypeOK, Units
<1>1. /\ l.blocks \in [Index -> Entry] /\ x \in Entry /\ l.block \in Segments
  BY <1>0 DEF Turned
<1>2. \A j \in Index : l.blocks[j].inUse => l.blocks[j] = blocks[j]
  BY EntriesAndSegments DEF Turning
<1>3. /\ Covers(l.block, u) =>
           \A j \in Index : ~(l.blocks[j].inUse /\ Covers(l.blocks[j], u))
      /\ Reached(l.blocks, l.block, u) <=> Reached(blocks, block[t], u)
  BY DEF TurningUnit
<1> HIDE DEF m
<1>4. CASE /\ x.inUse
           /\ m.blocks = [l.blocks EXCEPT ![i] = NoBlock]
           /\ \/ /\ Past(l.block) = x.base
                 /\ m.block = Blk(l.block.base, l.block.size + x.size)
              \/ /\ l.block.base = Past(x)
                 /\ m.block = Blk(x.base, l.block.size + x.size)
  <2>0. /\ x.base \in Nat /\ x.size \in Nat
        /\ l.block.base \in Nat /\ l.block.size \in Nat
    BY <1>1, NaturalBlocks
  <2>1. Covers(m.block, u) <=> Covers(l.block, u) \/ Covers(x, u)
    <3>1. CASE /\ Past(l.block) = x.base
               /\ m.block = Blk(l.block.base, l.block.size + x.size)
      BY <1>0, <2>0, <3>1 DEF Covers, Blk, Past
    <3>2. CASE /\ l.block.base = Past(x)
               /\ m.block = Blk(x.base, l.block.size + x.size)
      BY <1>0, <2>0, <3>2 DEF Covers, Blk, Past
    <3>. QED
      BY <1>4, <3>1, <3>2
  <2>2. \A j \in Index : m.blocks[j].inUse =>
          j # i /\ m.blocks[j] = l.blocks[j]
    BY <1>0, <1>1, <1>4, EntriesAndSegments
  <2>3. \A j \in Index : j # i => m.blocks[j] = l.blocks[j]
    BY <1>0, <1>1, <1>4
  <2>4. ASSUME Covers(x, u), NEW j \in Index, m.blocks[j].inUse, Covers(m.blocks[j], u)
        PROVE  FALSE
    <3>1. j # i /\ l.blocks[j].inUse /\ Covers(l.blocks[j], u)
      BY <2>2, <2>4
    <3>. QED
      BY <1>0, <1>2, <1>4, <2>4, <3>1
  <2>5. Reached(m.blocks, m.block, u) <=> Reached(l.blocks, l.block, u)
    <3>1. ASSUME Reached(m.blocks, m.block, u) PROVE Reached(l.blocks, l.block, u)
      BY <1>0, <1>4, <2>1, <2>2, <3>1 DEF Reached
    <3>2. ASSUME Reached(l.blocks, l.block, u) PROVE Reached(m.blocks, m.block, u)
      BY <2>1, <2>3, <3>2 DEF Reached
    <3>. QED
      BY <3>1, <3>2
  <2>. QED
    BY <1>3, <2>1, <2>2, <2>4, <2>5 DEF TurningUnit
<1>5. CASE m.blocks = l.blocks /\ m.block = l.block
  BY <1>3, <1>5 DEF TurningUnit
<1>6. \/ /\ x.inUse
         /\ m.blocks = [l.blocks EXCEPT ![i] = NoBlock]
         /\ \/ /\ Past(l.block) = x.base
               /\ m.block = Blk(l.block.base, l.block.size + x.size)
            \/ /\ l.block.base = Past(x)
               /\ m.block = Blk(x.base, l.block.size + x.size)
      \/ m.blocks = l.blocks /\ m.block = l.block
  BY MergeTurns DEF m
<1>. QED
  BY <1>4, <1>5, <1>6

(* At its end the loop has the whole table behind it.                      *)
LEMMA LoopKeepsTable ==
  ASSUME IInv, Joined, NEW t \in Threads, At(t, "free"),
         lowest[t] = highest + 1, Placed
  PROVE  /\ Turned(Merged(t)) /\ Turning(t, highest, Merged(t))
         /\ \A u \in Units : TurningUnit(t, Merged(t), u)
<1>0. highest \in Nat /\ highest \in Index
  BY AllocatorAssumption DEF IInv, TypeOK, Index
<1>1. \A u \in Units : \A j, k \in Index :
         /\ blocks[j].inUse /\ Covers(blocks[j], u)
         /\ blocks[k].inUse /\ Covers(blocks[k], u)
         => j = k
  <2> SUFFICES ASSUME NEW u \in Units, NEW j \in Index, NEW k \in Index,
                      j \in InTable(u), k \in InTable(u)
               PROVE  j = k
    BY DEF InTable
  <2>. QED
    BY DEF Placed, OnlyOne
<1>2. PICK f : Turns(t, f) /\ Merged(t) = f[highest]
  BY <1>0, LoopHasTurns
<1>3. /\ f[-1] = Start0(t)
      /\ \A i \in 0 .. highest : f[i] = Merge(i, f[i - 1])
  BY <1>0, <1>2 DEF Turns
<1> DEFINE Kept(n) == /\ Turned(f[n]) /\ Turning(t, n, f[n])
                      /\ \A u \in Units : TurningUnit(t, f[n], u)
           Bad == {n \in Nat : n <= highest /\ ~Kept(n)}
<1>4. Kept(-1)
  <2>1. /\ Start0(t).blocks = blocks /\ Start0(t).block = block[t]
        /\ Start0(t).next = 0 /\ Start0(t).lowest = highest + 1
    BY DEF Start0
  <2>2. Turned(Start0(t))
    <3>1. 0 \in 0 .. highest /\ highest + 1 \in 0 .. MaxBlocks
      BY <1>0, SimpleTypes
    <3>. QED
      BY <2>1, <3>1 DEF Turned, IInv, TypeOK, AllWhole, Entry, Segments
  <2>3. Turning(t, -1, Start0(t))
    <3>1. \A j \in Index : ~(j <= -1)
      BY AllocatorAssumption DEF Index
    <3>2. /\ \A j \in Index : Start0(t).blocks[j] = blocks[j]
          /\ Start0(t).lowest = highest + 1 /\ highest + 1 <= highest + 1
      BY <1>0, <2>1
    <3> DEFINE l == Start0(t)
    <3> HIDE DEF l
    <3>3. Turning(t, -1, l)
      BY <3>1, <3>2 DEF Turning, l
    <3>. QED
      BY <3>3 DEF l
  <2>4. ASSUME NEW u \in Units PROVE TurningUnit(t, Start0(t), u)
    <3>1. Covers(block[t], u) => t \in OnTheWay(u)
      BY DEF OnTheWay
    <3>2. Covers(block[t], u) => InTable(u) = {}
      BY <3>1 DEF Placed, OnlyOne
    <3>. QED
      BY <2>1, <3>2 DEF TurningUnit, InTable
  <2>. QED
    BY <1>3, <2>2, <2>3, <2>4
<1>5. ASSUME Bad # {} PROVE FALSE
  <2>1. PICK m \in Bad : \A j \in Bad : m <= j
    BY <1>5, Least
  <2>2. m \in 0 .. highest /\ m \in Nat /\ ~Kept(m)
    BY <1>0
  <2>3. Kept(m - 1)
    <3>1. CASE m = 0
      BY <1>4, <3>1
    <3>2. CASE m # 0
      <4>1. m - 1 \in Nat /\ m - 1 <= highest /\ m - 1 \notin Bad
        BY <1>0, <2>1, <2>2, <3>2
      <4>. QED
        BY <4>1
    <3>. QED
      BY <3>1, <3>2
  <2>4. Turned(f[m]) /\ Turning(t, m, f[m])
    BY <1>0, <1>3, <2>2, <2>3, MergeKeepsWhole, MergeKeepsTurning
  <2>5. ASSUME NEW u \in Units PROVE TurningUnit(t, f[m], u)
    BY <1>1, <1>3, <2>2, <2>3, MergeKeepsUnit
  <2>. QED
    BY <2>2, <2>4, <2>5
<1> HIDE DEF Kept
<1>6. Kept(highest)
  BY <1>0, <1>5
<1>. QED
  BY <1>2, <1>6 DEF Kept
-----------------------------------------------------------------------------
(* Steps that leave the table and the blocks alone.                        *)
LEMMA OthersKeepTable ==
  ASSUME TableInv, table' = table, owned' = owned, refused' = refused,
         \A t \in Threads :
           /\ At(t, "free")' <=> At(t, "free")
           /\ At(t, "free") => block'[t] = block[t] /\ lowest'[t] = lowest[t]
  PROVE  TableInv'
<1>1. blocks' = blocks /\ highest' = highest
  BY DEF table
<1>2. Reading' /\ Beyond' /\ Joined'
  BY <1>1 DEF TableInv, Reading, Beyond, Joined
<1>3. \A u \in Units : /\ InTable(u)' = InTable(u) /\ InOwned(u)' = InOwned(u)
                       /\ InRefused(u)' = InRefused(u) /\ OnTheWay(u)' = OnTheWay(u)
  BY <1>1 DEF InTable, InOwned, InRefused, OnTheWay
<1>4. Placed'
  BY <1>3 DEF TableInv, Placed, OnlyOne
<1>. QED
  BY <1>2, <1>4 DEF TableInv

LEMMA SpanCovers ==
  ASSUME NEW b, NEW s, NEW u
  PROVE  /\ Covers(Blk(b, s), u) <=> b <= u /\ u < b + s
         /\ Covers(FreeBlock(b, s), u) <=> b <= u /\ u < b + s
         /\ Past(Blk(b, s)) = b + s /\ Past(FreeBlock(b, s)) = b + s
         /\ Blk(b, s).base = b /\ FreeBlock(b, s).base = b
         /\ FreeBlock(b, s).inUse /\ ~NoBlock.inUse
BY DEF Covers, Blk, FreeBlock, Past, NoBlock

(* What is allocated leaves the lower end of a free block.                 *)
LEMMA FoundKeepsTable ==
  ASSUME IInv, TableInv, NEW t \in Threads, AllocateFound(t)
  PROVE  TableInv'
<1>0. TypeOK /\ AllWhole /\ Reading /\ Beyond /\ Placed /\ Joined
  BY DEF IInv, TableInv
<1>1. PICK i \in Scanned :
          /\ Chosen(i, want[t], largest[t])
          /\ LET n == IF largest[t] THEN blocks[i].size ELSE want[t] IN
              /\ owned' = owned \cup {Blk(blocks[i].base, n)}
              /\ blocks' = [blocks EXCEPT ![i] =
                              IF n = @.size THEN NoBlock
                                            ELSE FreeBlock(@.base + n, @.size - n)]
  BY DEF AllocateFound
<1> DEFINE x == blocks[i]
           n == IF largest[t] THEN x.size ELSE want[t]
<1>2. /\ i \in Index /\ x.inUse /\ x.size >= want[t]
      /\ x \in Entry /\ WholeBlock(x)
  BY <1>1, FoundIsUsable
<1>3. /\ n \in Nat /\ n >= 1 /\ n <= x.size /\ x.size \in Nat /\ x.base \in Nat
      /\ Past(x) = x.base + x.size /\ Past(x) <= BufferSize /\ BufferSize \in Nat
  <2>1. want[t] \in Nat /\ want[t] >= 1
    BY <1>0, AllocatorAssumption DEF TypeOK, AllWhole, AllocateFound
  <2>. QED
    BY <1>2, <2>1, NaturalBlocks, SimpleTypes DEF WholeBlock, Whole
<1>4. /\ blocks' = [blocks EXCEPT ![i] = IF n = x.size THEN NoBlock
                                ELSE FreeBlock(x.base + n, x.size - n)]
      /\ owned' = owned \cup {Blk(x.base, n)}
  BY <1>1
<1>5. /\ highest' = highest /\ refused' = refused /\ block' = block
      /\ lowest' = lowest
      /\ \A s \in Threads : At(s, "free")' <=> At(s, "free")
  BY <1>0 DEF AllocateFound, locals, Goto, At, TypeOK
<1> HIDE DEF n
<1>6. /\ \A j \in Index : j # i => blocks'[j] = blocks[j]
      /\ n = x.size => ~blocks'[i].inUse
      /\ n # x.size => blocks'[i] = FreeBlock(x.base + n, x.size - n)
  BY <1>0, <1>2, <1>4, EntriesAndSegments DEF TypeOK
<1>7. Reading' /\ Beyond'
  BY <1>0, <1>2, <1>5, <1>6 DEF Reading, Beyond
<1>8. ASSUME NEW u \in Units
      PROVE  OnlyOne(InTable(u), InOwned(u), InRefused(u), OnTheWay(u))'
  <2>0. u \in Int
    BY <1>3 DEF Units
  <2>1. OnlyOne(InTable(u), InOwned(u), InRefused(u), OnTheWay(u))
    BY <1>0 DEF Placed
  <2>2. InRefused(u)' = InRefused(u) /\ OnTheWay(u)' = OnTheWay(u)
    BY <1>5 DEF InRefused, OnTheWay
  <2>3. Covers(x, u) <=> x.base <= u /\ u < x.base + x.size
    BY <1>3 DEF Covers
  <2>4. /\ Covers(Blk(x.base, n), u) <=> x.base <= u /\ u < x.base + n
        /\ n # x.size => (Covers(FreeBlock(x.base + n, x.size - n), u)
                            <=> x.base + n <= u /\ u < x.base + x.size)
    BY <1>3, SpanCovers
  <2>5. i \in InTable(u)' <=> Covers(x, u) /\ ~Covers(Blk(x.base, n), u)
    BY <1>2, <1>3, <1>6, <2>0, <2>3, <2>4, SpanCovers DEF InTable
  <2>6. i \in InTable(u) <=> Covers(x, u)
    BY <1>2 DEF InTable
  <2>7. \A j : j # i => (j \in InTable(u)' <=> j \in InTable(u))
    BY <1>6 DEF InTable
  <2>8. Covers(Blk(x.base, n), u) => Covers(x, u)
    BY <1>3, <2>0, <2>3, <2>4
  <2>9. CASE ~Covers(x, u)
    <3>1. InTable(u)' = InTable(u)
      BY <2>5, <2>6, <2>7, <2>9
    <3>2. InOwned(u)' = InOwned(u)
      BY <1>4, <2>8, <2>9 DEF InOwned
    <3>. QED
      BY <2>1, <2>2, <3>1, <3>2
  <2>10. CASE Covers(x, u)
    <3>1. /\ InTable(u) = {i} /\ InOwned(u) = {}
          /\ InRefused(u) = {} /\ OnTheWay(u) = {}
      BY <2>1, <2>6, <2>10 DEF OnlyOne
    <3>2. CASE Covers(Blk(x.base, n), u)
      <4>1. InTable(u)' = {}
        BY <2>5, <2>7, <3>1, <3>2
      <4>2. InOwned(u)' = {Blk(x.base, n)}
        BY <1>4, <3>1, <3>2 DEF InOwned
      <4>. QED
        BY <2>2, <3>1, <4>1, <4>2 DEF OnlyOne
    <3>3. CASE ~Covers(Blk(x.base, n), u)
      <4>1. InTable(u)' = {i}
        BY <2>5, <2>7, <2>10, <3>1, <3>3
      <4>2. InOwned(u)' = {}
        BY <1>4, <3>1, <3>3 DEF InOwned
      <4>. QED
        BY <2>2, <3>1, <4>1, <4>2 DEF OnlyOne
    <3>. QED
      BY <3>2, <3>3
  <2>. QED
    BY <2>9, <2>10
<1>9. ASSUME NEW j \in Index, NEW k \in Index, blocks'[j].inUse, blocks'[k].inUse
      PROVE  ~Abut(blocks'[j], blocks'[k])
  <2>1. ASSUME NEW y, y \in {j, k}, y = i PROVE n # x.size
    BY <1>6, <1>9, <2>1
  <2>2. CASE k # i
    <3>1. blocks'[k] = blocks[k] /\ Past(blocks'[j]) = Past(blocks[j])
          /\ blocks[j].inUse
      <4>1. CASE j = i
        <5>1. Past(FreeBlock(x.base + n, x.size - n)) = x.base + x.size
          BY <1>3, SpanCovers
        <5>. QED
          BY <1>2, <1>3, <1>6, <2>1, <2>2, <4>1, <5>1
      <4>2. CASE j # i
        BY <1>6, <1>9, <2>2, <4>2
      <4>. QED
        BY <4>1, <4>2
    <3>. QED
      BY <1>0, <1>6, <1>9, <2>2, <3>1 DEF Joined, Abut
  <2>3. CASE k = i
    <3>1. n # x.size /\ blocks'[k].base = x.base + n /\ n < x.size
      <4>1. n # x.size
        BY <2>1, <2>3
      <4>2. blocks'[k] = FreeBlock(x.base + n, x.size - n)
        BY <1>6, <2>3, <4>1
      <4>. QED
        BY <1>3, <4>1, <4>2 DEF FreeBlock
    <3> SUFFICES ASSUME Past(blocks'[j]) = x.base + n PROVE FALSE
      BY <3>1 DEF Abut
    <3>2. CASE j = i
      <4>1. Past(FreeBlock(x.base + n, x.size - n)) = x.base + x.size
        BY <1>3, SpanCovers
      <4>. QED
        BY <1>3, <1>6, <3>1, <3>2, <4>1
    <3>3. CASE j # i
      <4>1. blocks'[j] = blocks[j] /\ blocks[j].inUse
        BY <1>6, <1>9, <3>3
      <4>2. /\ blocks[j].base \in Nat /\ blocks[j].size \in Nat /\ blocks[j].size >= 1
            /\ Past(blocks[j]) = blocks[j].base + blocks[j].size
        BY <1>0, <4>1, NaturalBlocks DEF TypeOK, AllWhole, WholeBlock, Whole, Entry
      <4> DEFINE u == x.base + n - 1
      <4>3. u \in Units
        BY <1>3 DEF Units
      <4>4. Covers(x, u) /\ Covers(blocks[j], u)
        BY <1>3, <3>1, <4>1, <4>2 DEF Covers
      <4> HIDE DEF u
      <4>5. i \in InTable(u) /\ j \in InTable(u)
        BY <1>2, <4>1, <4>4 DEF InTable
      <4>. QED
        BY <1>0, <3>3, <4>3, <4>5 DEF Placed, OnlyOne
    <3>. QED
      BY <3>2, <3>3
  <2>. QED
    BY <2>2, <2>3
<1>10. Placed' /\ Joined'
  <2>1. Units' = Units /\ Index' = Index
    BY DEF Units, Index
  <2>. QED
    BY <1>8, <1>9, <2>1 DEF Placed, Joined
<1>. QED
  BY <1>7, <1>10 DEF TableInv
(* A freed block, or the end of one, is on its way to the table.           *)
LEMMA FreeKeepsTable ==
  ASSUME IInv, TableInv, OneFreer, NEW t \in Threads,
         NEW x \in owned, NEW n \in 1 .. x.size, Free(t, x, n)
  PROVE  TableInv'
<1>0. TypeOK /\ AllWhole /\ Reading /\ Beyond /\ Placed /\ Joined
  BY DEF IInv, TableInv
<1>1. /\ x \in [base : Units, size : 1 .. BufferSize]
      /\ x.base \in Nat /\ x.size \in Nat /\ n \in Nat /\ n >= 1 /\ n <= x.size
      /\ Past(x) = x.base + x.size
  BY <1>0 DEF TypeOK, Units, Past
<1>2. /\ blocks' = blocks /\ highest' = highest /\ refused' = refused
      /\ t \in Freers /\ ~At(t, "free") /\ At(t, "free")'
      /\ \A s \in Threads : s # t =>
           /\ At(s, "free")' <=> At(s, "free")
           /\ block'[s] = block[s] /\ lowest'[s] = lowest[s]
      /\ block'[t] = Blk(Past(x) - n, n) /\ lowest'[t] = highest + 1
      /\ owned' = IF n = x.size THEN owned \ {x}
                  ELSE (owned \ {x}) \cup {Blk(x.base, x.size - n)}
  BY <1>0 DEF Free, table, Goto, At, TypeOK
<1>3. Reading' /\ Beyond' /\ Joined'
  BY <1>0, <1>2 DEF Reading, Beyond, Joined
<1>4. ASSUME NEW u \in Units
      PROVE  OnlyOne(InTable(u), InOwned(u), InRefused(u), OnTheWay(u))'
  <2>0. u \in Int
    BY AllocatorAssumption DEF Units
  <2>1. OnlyOne(InTable(u), InOwned(u), InRefused(u), OnTheWay(u))
    BY <1>0 DEF Placed
  <2>2. InRefused(u)' = InRefused(u) /\ InTable(u)' = InTable(u)
    BY <1>2 DEF InRefused, InTable
  <2>3. Covers(x, u) <=> x.base <= u /\ u < x.base + x.size
    BY <1>1 DEF Covers
  <2>4. /\ Covers(Blk(Past(x) - n, n), u) <=>
             x.base + x.size - n <= u /\ u < x.base + x.size
        /\ Covers(Blk(x.base, x.size - n), u) <=>
             x.base <= u /\ u < x.base + x.size - n
    BY <1>1, <2>0 DEF Covers, Past, Blk
  <2>5. /\ Covers(x, u) <=> \/ Covers(Blk(Past(x) - n, n), u)
                            \/ Covers(Blk(x.base, x.size - n), u)
        /\ ~(Covers(Blk(Past(x) - n, n), u) /\ Covers(Blk(x.base, x.size - n), u))
        /\ n = x.size => ~Covers(Blk(x.base, x.size - n), u)
    BY <1>1, <2>0, <2>3, <2>4
  <2>6. x \in InOwned(u) <=> Covers(x, u)
    BY DEF InOwned
  <2>7. /\ \A s : s # t => (s \in OnTheWay(u)' <=> s \in OnTheWay(u))
        /\ t \in OnTheWay(u)' <=> Covers(Blk(Past(x) - n, n), u)
        /\ t \notin OnTheWay(u)
    BY <1>2 DEF OnTheWay
  <2>8. CASE ~Covers(x, u)
    <3>1. OnTheWay(u)' = OnTheWay(u)
      BY <2>5, <2>7, <2>8
    <3>2. InOwned(u)' = InOwned(u)
      BY <1>2, <2>5, <2>8 DEF InOwned
    <3>. QED
      BY <2>1, <2>2, <3>1, <3>2
  <2>9. CASE Covers(x, u)
    <3>1. /\ InTable(u) = {} /\ InOwned(u) = {x}
          /\ InRefused(u) = {} /\ OnTheWay(u) = {}
      BY <2>1, <2>6, <2>9 DEF OnlyOne
    <3>2. CASE Covers(Blk(Past(x) - n, n), u)
      <4>1. OnTheWay(u)' = {t}
        BY <2>7, <3>1, <3>2
      <4>2. InOwned(u)' = {}
        BY <1>2, <2>5, <3>1, <3>2 DEF InOwned
      <4>. QED
        BY <2>2, <3>1, <4>1, <4>2 DEF OnlyOne
    <3>3. CASE ~Covers(Blk(Past(x) - n, n), u)
      <4>1. OnTheWay(u)' = {}
        BY <2>7, <3>1, <3>3
      <4>2. Covers(Blk(x.base, x.size - n), u) /\ n # x.size
        BY <2>5, <2>9, <3>3
      <4>3. InOwned(u)' = {Blk(x.base, x.size - n)}
        BY <1>2, <3>1, <4>2 DEF InOwned
      <4>. QED
        BY <2>2, <3>1, <4>1, <4>3 DEF OnlyOne
    <3>. QED
      BY <3>2, <3>3
  <2>. QED
    BY <2>8, <2>9
<1>5. Placed'
  BY <1>4 DEF Placed
<1>. QED
  BY <1>3, <1>5 DEF TableInv

(* The loop's block comes into the table, or is refused.                   *)
LEMMA FreeStepKeepsTable ==
  ASSUME IInv, IInv', TableInv, OneFreer, NEW t \in Threads, FreeStep(t)
  PROVE  TableInv'
<1>0. /\ TypeOK /\ AllWhole /\ Reading /\ Beyond /\ Placed /\ Joined
      /\ highest \in Nat /\ highest \in Index /\ MaxBlocks \in Nat
      /\ \A j \in Index : j \in Nat
  <2>1. TypeOK /\ AllWhole /\ Reading /\ Beyond /\ Placed /\ Joined
    BY DEF IInv, TableInv
  <2>2. highest \in Index
    BY <2>1 DEF TypeOK
  <2>. QED
    BY <2>1, <2>2, SimpleTypes
<1>1. At(t, "free") /\ t \in Freers /\ lowest[t] = highest + 1
  BY <1>0 DEF FreeStep, FreeMerge, FreeTooMany, Reading
<1> DEFINE l == Merged(t)
<1>2. /\ Turned(l) /\ Turning(t, highest, l)
      /\ \A u \in Units : TurningUnit(t, l, u)
  BY <1>0, <1>1, LoopKeepsTable
<1> DEFINE b == FreeBlock(l.block.base, l.block.size)
<1>3. \/ /\ l.lowest # MaxBlocks
         /\ blocks' = [l.blocks EXCEPT ![l.lowest] = b]
         /\ highest' = Upper(l.lowest, l.next)
         /\ refused' = refused
      \/ /\ l.lowest = MaxBlocks
         /\ blocks' = l.blocks /\ highest' = highest
         /\ refused' = refused \cup {l.block}
  BY DEF FreeStep, FreeMerge, FreeTooMany
<1>4. /\ owned' = owned
      /\ ~At(t, "free")'
      /\ \A s \in Threads : s # t =>
           (At(s, "free")' <=> At(s, "free")) /\ block'[s] = block[s]
  BY <1>0 DEF FreeStep, FreeMerge, FreeTooMany, Return, Goto, At, TypeOK
<1> HIDE DEF l
<1>5. /\ l.blocks \in [Index -> Entry] /\ l.block \in Segments /\ WholeBlock(l.block)
      /\ l.next \in Nat /\ l.lowest \in Nat /\ l.lowest <= MaxBlocks
      /\ \A j \in Index : l.blocks[j].inUse => WholeBlock(l.blocks[j])
  <2>1. /\ l.blocks \in [Index -> Entry] /\ l.block \in Segments
        /\ WholeBlock(l.block)
        /\ l.next \in 0 .. highest /\ l.lowest \in 0 .. MaxBlocks
        /\ \A j \in Index : l.blocks[j].inUse => WholeBlock(l.blocks[j])
    BY <1>2 DEF Turned
  <2>2. l.next \in Nat /\ l.lowest \in Nat /\ l.lowest <= MaxBlocks
    BY <1>0, <2>1
  <2>. QED
    BY <2>1, <2>2
<1>6. /\ \A j \in Index : l.blocks[j] = blocks[j] \/ l.blocks[j] = NoBlock
      /\ \A j \in Index : l.blocks[j].inUse => blocks[j].inUse /\ l.blocks[j] = blocks[j]
      /\ l.lowest <= highest + 1
      /\ l.lowest # highest + 1 => ~l.blocks[l.lowest].inUse
      /\ \A j \in Index : l.blocks[j].inUse => j <= highest
      /\ \A j \in Index : l.blocks[j].inUse => j <= l.next
      /\ \A j \in Index : l.blocks[j].inUse =>
           ~Abut(l.blocks[j], l.block) /\ ~Abut(l.block, l.blocks[j])
  <2>1. \A j \in Index : l.blocks[j] = blocks[j] \/ l.blocks[j] = NoBlock
    BY <1>2 DEF Turning
  <2>2. \A j \in Index : l.blocks[j].inUse => blocks[j].inUse /\ l.blocks[j] = blocks[j]
    BY <2>1, EntriesAndSegments
  <2>3. \A j \in Index : l.blocks[j].inUse => j <= highest
    BY <1>0, <2>2 DEF Beyond
  <2>. QED
    BY <1>2, <2>1, <2>2, <2>3 DEF Turning
<1>7. l.lowest # MaxBlocks => l.lowest \in Index /\ ~l.blocks[l.lowest].inUse
  <2> SUFFICES ASSUME l.lowest # MaxBlocks
               PROVE  l.lowest \in Index /\ ~l.blocks[l.lowest].inUse
    OBVIOUS
  <2>1. l.lowest \in Index
    BY <1>0, <1>5 DEF Index
  <2>2. l.lowest = highest + 1 => ~(l.lowest <= highest)
    BY <1>0
  <2>. QED
    BY <1>6, <2>1, <2>2
<1>8. /\ Covers(b, l.block.base) /\ b.inUse /\ b.base = l.block.base
      /\ Past(b) = Past(l.block) /\ Past(b) # b.base
      /\ \A u : Covers(b, u) <=> Covers(l.block, u)
  <2>1. l.block.base \in Nat /\ l.block.size \in Nat /\ l.block.size >= 1
    BY <1>5, NaturalBlocks DEF WholeBlock, Whole
  <2>. QED
    BY <2>1 DEF Covers, FreeBlock, Past
<1> HIDE DEF b
<1>9. Reading'
  BY <1>1, <1>4, <1>0 DEF Reading, OneFreer
<1>10. \A j \in Index : /\ blocks'[j] = IF j = l.lowest THEN b ELSE l.blocks[j]
  BY <1>3, <1>5, <1>7, <1>0 DEF Index
<1>11. Beyond'
  <2> SUFFICES ASSUME NEW j \in Index, blocks'[j].inUse PROVE j <= highest'
    BY DEF Beyond
  <2>1. CASE l.lowest # MaxBlocks
    <3>1. highest' \in Nat /\ highest' >= l.lowest /\ highest' >= l.next
      BY <1>3, <1>5, <2>1 DEF Upper
    <3>2. j = l.lowest \/ j <= l.next
      BY <1>6, <1>10
    <3>. QED
      BY <1>0, <1>5, <3>1, <3>2
  <2>2. CASE l.lowest = MaxBlocks
    <3>1. j # l.lowest
      BY <1>0, <2>2 DEF Index
    <3>. QED
      BY <1>3, <1>6, <1>10, <2>2, <3>1
  <2>. QED
    BY <2>1, <2>2
<1>12. Joined'
  <2> SUFFICES ASSUME NEW j \in Index, NEW k \in Index,
                      blocks'[j].inUse, blocks'[k].inUse
               PROVE  ~Abut(blocks'[j], blocks'[k])
    BY DEF Joined
  <2>1. CASE j = l.lowest /\ k = l.lowest
    BY <1>8, <1>10, <2>1 DEF Abut
  <2>2. CASE j = l.lowest /\ k # l.lowest
    <3>1. ~Abut(l.block, l.blocks[k])
      BY <1>6, <1>10, <2>2
    <3>. QED
      BY <1>8, <1>10, <2>2, <3>1 DEF Abut
  <2>3. CASE j # l.lowest /\ k = l.lowest
    <3>1. ~Abut(l.blocks[j], l.block)
      BY <1>6, <1>10, <2>3
    <3>. QED
      BY <1>8, <1>10, <2>3, <3>1 DEF Abut
  <2>4. CASE j # l.lowest /\ k # l.lowest
    <3>1. /\ blocks[j].inUse /\ blocks'[j] = blocks[j]
          /\ blocks[k].inUse /\ blocks'[k] = blocks[k]
      BY <1>6, <1>10, <2>4
    <3>. QED
      BY <1>0, <3>1 DEF Joined
  <2>. QED
    BY <2>1, <2>2, <2>3, <2>4
<1>13. ASSUME NEW u \in Units
       PROVE  OnlyOne(InTable(u), InOwned(u), InRefused(u), OnTheWay(u))'
  <2>1. OnlyOne(InTable(u), InOwned(u), InRefused(u), OnTheWay(u))
    BY <1>0 DEF Placed
  <2> DEFINE Rest == {j \in Index : l.blocks[j].inUse /\ Covers(l.blocks[j], u)}
  <2>2. Rest \subseteq InTable(u)
    BY <1>6 DEF InTable
  <2>3. InTable(u)' = IF l.lowest # MaxBlocks /\ Covers(l.block, u)
                      THEN Rest \cup {l.lowest} ELSE Rest
    <3>1. CASE l.lowest # MaxBlocks
      BY <1>7, <1>8, <1>10, <3>1 DEF InTable
    <3>2. CASE l.lowest = MaxBlocks
      <4>1. \A j \in Index : j # l.lowest
        BY <1>0, <3>2 DEF Index
      <4>. QED
        BY <1>10, <3>2, <4>1 DEF InTable
    <3>. QED
      BY <3>1, <3>2
  <2>4. InOwned(u)' = InOwned(u)
    BY <1>4 DEF InOwned
  <2>5. InRefused(u)' = IF l.lowest = MaxBlocks /\ Covers(l.block, u)
                        THEN InRefused(u) \cup {l.block} ELSE InRefused(u)
    BY <1>3 DEF InRefused
  <2>6. /\ OnTheWay(u)' = OnTheWay(u) \ {t}
        /\ t \in OnTheWay(u) <=> Covers(block[t], u)
    BY <1>1, <1>4 DEF OnTheWay
  <2>7. /\ Covers(l.block, u) => Rest = {}
        /\ Covers(l.block, u) \/ Rest # {} <=> t \in OnTheWay(u) \/ InTable(u) # {}
    <3>1. /\ Covers(l.block, u) =>
                \A j \in Index : ~(l.blocks[j].inUse /\ Covers(l.blocks[j], u))
          /\ Reached(l.blocks, l.block, u) <=> Reached(blocks, block[t], u)
      BY <1>2 DEF TurningUnit
    <3>2. Reached(l.blocks, l.block, u) <=> Covers(l.block, u) \/ Rest # {}
      BY DEF Reached
    <3>3. Reached(blocks, block[t], u) <=> t \in OnTheWay(u) \/ InTable(u) # {}
      BY <2>6 DEF Reached, InTable
    <3>. QED
      BY <3>1, <3>2, <3>3
  <2> HIDE DEF Rest
  <2>8. CASE Covers(l.block, u)
    <3>1. /\ InOwned(u) = {} /\ InRefused(u) = {} /\ OnTheWay(u) \ {t} = {}
      BY <2>1, <2>7, <2>8 DEF OnlyOne
    <3>. QED
      BY <2>3, <2>4, <2>5, <2>6, <2>7, <2>8, <3>1 DEF OnlyOne
  <2>9. CASE ~Covers(l.block, u) /\ Rest # {}
    <3>1. /\ \E a : InTable(u) = {a} /\ Rest = {a}
          /\ InOwned(u) = {} /\ InRefused(u) = {} /\ OnTheWay(u) = {}
      BY <2>1, <2>2, <2>9 DEF OnlyOne
    <3>. QED
      BY <2>3, <2>4, <2>5, <2>6, <2>9, <3>1 DEF OnlyOne
  <2>10. CASE ~Covers(l.block, u) /\ Rest = {}
    <3>1. InTable(u) = {} /\ t \notin OnTheWay(u)
      BY <2>7, <2>10
    <3>2. /\ InTable(u)' = InTable(u) /\ InRefused(u)' = InRefused(u)
          /\ OnTheWay(u)' = OnTheWay(u)
      BY <2>3, <2>5, <2>6, <2>10, <3>1
    <3>. QED
      BY <2>1, <2>4, <3>2
  <2>. QED
    BY <2>8, <2>9, <2>10
<1>14. Placed'
  BY <1>13 DEF Placed
<1>. QED
  BY <1>9, <1>11, <1>12, <1>14 DEF TableInv

(* A block of a client takes over the free block next to it.               *)
LEMMA ExtendKeepsTable ==
  ASSUME IInv, TableInv, NEW t \in Threads, NEW x \in owned, ExtendToLargest(t, x)
  PROVE  TableInv'
<1>0. /\ TypeOK /\ AllWhole /\ Reading /\ Beyond /\ Placed /\ Joined
      /\ highest \in Index
  <2>1. TypeOK /\ AllWhole /\ Reading /\ Beyond /\ Placed /\ Joined
    BY DEF IInv, TableInv
  <2>. QED
    BY <2>1 DEF TypeOK
<1>1. /\ x.base \in Nat /\ x.size \in Nat /\ Past(x) = x.base + x.size
  BY <1>0, AllocatorAssumption DEF TypeOK, Units, Past
<1>2. /\ pc' = pc /\ highest' = highest /\ block' = block /\ lowest' = lowest
      /\ refused' = refused
      /\ ExtendUpwards(x) \/ ExtendDownwards(x)
  BY DEF ExtendToLargest, locals
<1>3. PICK i \in Index :
        /\ blocks[i].inUse
        /\ blocks' = [blocks EXCEPT ![i] = NoBlock]
        /\ \/ /\ blocks[i].base = Past(x)
              /\ owned' = (owned \ {x}) \cup {Blk(x.base, x.size + blocks[i].size)}
           \/ /\ Past(blocks[i]) = x.base
              /\ owned' = (owned \ {x}) \cup {Blk(blocks[i].base, x.size + blocks[i].size)}
  <2>1. Scanned \subseteq Index
    BY <1>0, SimpleTypes DEF Scanned
  <2>. QED
    BY <1>2, <2>1 DEF ExtendUpwards, ExtendDownwards
<1> DEFINE z == blocks[i]
<1>4. /\ z.base \in Nat /\ z.size \in Nat /\ Past(z) = z.base + z.size
  BY <1>0, NaturalBlocks DEF TypeOK, Entry
<1>5. PICK y : /\ owned' = (owned \ {x}) \cup {y}
               /\ \A u \in Int : Covers(y, u) <=> Covers(x, u) \/ Covers(z, u)
  <2>1. CASE z.base = Past(x)
    <3>1. \A u \in Int : Covers(Blk(x.base, x.size + z.size), u) <=>
                           Covers(x, u) \/ Covers(z, u)
      BY <1>1, <1>4, <2>1, SpanCovers DEF Covers
    <3>. QED
      BY <1>1, <1>3, <1>4, <2>1, <3>1
  <2>2. CASE Past(z) = x.base
    <3>1. \A u \in Int : Covers(Blk(z.base, x.size + z.size), u) <=>
                           Covers(x, u) \/ Covers(z, u)
      BY <1>1, <1>4, <2>2, SpanCovers DEF Covers
    <3>. QED
      BY <1>1, <1>3, <1>4, <2>2, <3>1
  <2>. QED
    BY <1>3, <2>1, <2>2
<1> HIDE DEF z
<1>6. /\ ~blocks'[i].inUse
      /\ \A j \in Index : j # i => blocks'[j] = blocks[j]
  BY <1>0, <1>3, EntriesAndSegments DEF TypeOK
<1>7. Reading' /\ Beyond' /\ Joined'
  <2>1. \A j \in Index : blocks'[j].inUse => blocks'[j] = blocks[j] /\ blocks[j].inUse
    BY <1>6
  <2>. QED
    BY <1>0, <1>2, <2>1 DEF Reading, Beyond, Joined, At
<1>8. ASSUME NEW u \in Units
      PROVE  OnlyOne(InTable(u), InOwned(u), InRefused(u), OnTheWay(u))'
  <2>0. u \in Int /\ (Covers(y, u) <=> Covers(x, u) \/ Covers(z, u))
    BY <1>5, AllocatorAssumption DEF Units
  <2>1. OnlyOne(InTable(u), InOwned(u), InRefused(u), OnTheWay(u))
    BY <1>0 DEF Placed
  <2>2. InRefused(u)' = InRefused(u) /\ OnTheWay(u)' = OnTheWay(u)
    BY <1>2 DEF InRefused, OnTheWay, At
  <2>3. InTable(u)' = InTable(u) \ {i}
    BY <1>6 DEF InTable
  <2>4. /\ i \in InTable(u) <=> Covers(z, u)
        /\ x \in InOwned(u) <=> Covers(x, u)
    BY <1>3 DEF InTable, InOwned, z
  <2>5. InOwned(u)' = IF Covers(y, u) THEN (InOwned(u) \ {x}) \cup {y}
                                      ELSE InOwned(u) \ {x}
    BY <1>5 DEF InOwned
  <2>6. CASE ~Covers(x, u) /\ ~Covers(z, u)
    <3>1. InTable(u)' = InTable(u) /\ InOwned(u)' = InOwned(u)
      BY <2>0, <2>3, <2>4, <2>5, <2>6
    <3>. QED
      BY <2>1, <2>2, <3>1
  <2>7. CASE Covers(x, u) \/ Covers(z, u)
    <3>1. /\ InRefused(u) = {} /\ OnTheWay(u) = {}
          /\ InTable(u) \ {i} = {} /\ InOwned(u) \ {x} = {}
      BY <2>1, <2>4, <2>7 DEF OnlyOne
    <3>2. InTable(u)' = {} /\ InOwned(u)' = {y}
      BY <2>0, <2>3, <2>5, <2>7, <3>1
    <3>. QED
      BY <2>2, <3>1, <3>2 DEF OnlyOne
  <2>. QED
    BY <2>6, <2>7
<1>9. Placed'
  BY <1>8 DEF Placed
<1>. QED
  BY <1>7, <1>9 DEF TableInv
-----------------------------------------------------------------------------
(* The constructor fills the first entries of the table.                   *)
LEMMA PiecesAreAnInterval ==
  \A i \in Index : i \in Pieces <=> i <= Cardinality(Pieces) - 1
<1> DEFINE Out == {n \in Nat : n \notin Pieces}
<1>1. MaxBlocks \in Out
  BY AllocatorAssumption DEF Pieces, Index
<1>2. PICK k \in Out : \A n \in Out : k <= n
  BY <1>1, Least
<1>3. k \in Nat /\ k # 0 /\ k \notin Pieces /\ k <= MaxBlocks
  BY <1>1, <1>2, PiecesAreSome
<1>4. ASSUME NEW i \in Pieces PROVE i \in 0 .. k - 1
  <2>1. i \in Nat /\ i \in Index /\ Cut(i) < BufferSize /\ BufferSize \in Nat
    BY SimpleTypes DEF Pieces
  <2>2. CASE i > k
    <3>1. /\ Cut(k + 1) <= Cut(i) /\ Cut(k) < Cut(k + 1)
          /\ Cut(k) \in Nat /\ Cut(k + 1) \in Nat /\ Cut(i) \in Nat
      <4>1. k + 1 \in Nat
        BY <1>3
      <4>. QED
        BY <1>3, <2>1, <2>2, <4>1, CutsIncrease, CutsAndMultiples
    <3>2. k \in Index
      BY <1>3, <2>1, <2>2, AllocatorAssumption DEF Index
    <3>. QED
      BY <1>3, <2>1, <3>1, <3>2 DEF Pieces
  <2>. QED
    BY <1>3, <2>1, <2>2
<1>5. ASSUME NEW i \in 0 .. k - 1 PROVE i \in Pieces
  <2>1. i \in Nat /\ ~(k <= i)
    BY <1>3
  <2>. QED
    BY <1>2, <2>1
<1>6. Pieces = 0 .. k - 1
  BY <1>4, <1>5
<1>7. Cardinality(Pieces) = k
  <2>1. 0 \in Int /\ k - 1 \in Int /\ ~(0 > k - 1) /\ k - 1 - 0 + 1 = k
    BY <1>3
  <2>2. Cardinality(0 .. k - 1) = IF 0 > k - 1 THEN 0 ELSE k - 1 - 0 + 1
    BY ONLY <2>1, FS_Interval, Zenon
  <2>. QED
    BY <1>6, <2>1, <2>2
<1>. QED
  BY <1>3, <1>6, <1>7, SimpleTypes

(* One piece covers a unit.                                                *)
LEMMA OnePieceCovers ==
  ASSUME RoomForCuts, NEW u \in Units
  PROVE  \E i \in Pieces : /\ Cut(i) <= u /\ u < Cut(i + 1)
                           /\ \A j \in Pieces : Cut(j) <= u /\ u < Cut(j + 1) => j = i
<1>0. u \in Nat /\ u < BufferSize /\ BufferSize \in Nat /\ MaxBlocks \in Nat
  BY SimpleTypes DEF Units
<1>1. \A i \in Nat : Cut(i) \in Nat
  BY CutsAndMultiples
<1> DEFINE Above == {n \in Nat : u < Cut(n)}
<1>2. MaxBlocks \in Above
  BY <1>0, <1>1 DEF RoomForCuts
<1>3. PICK k \in Above : \A n \in Above : k <= n
  BY <1>2, Least
<1>4. k \in Nat /\ k # 0 /\ u < Cut(k) /\ k <= MaxBlocks
  BY <1>0, <1>2, <1>3 DEF Cut
<1>5. k - 1 \in Nat /\ k - 1 \in Index /\ k - 1 \notin Above /\ (k - 1) + 1 = k
  BY <1>0, <1>3, <1>4 DEF Index
<1> HIDE DEF Above
<1>6. Cut(k - 1) <= u /\ u < Cut((k - 1) + 1)
  BY <1>0, <1>1, <1>4, <1>5 DEF Above
<1>7. k - 1 \in Pieces
  BY <1>0, <1>1, <1>5, <1>6 DEF Pieces
<1>8. ASSUME NEW j \in Pieces, Cut(j) <= u, u < Cut(j + 1) PROVE j = k - 1
  <2>1. j \in Nat /\ j + 1 \in Nat
    BY SimpleTypes DEF Pieces
  <2>2. Cut(j) \in Nat /\ Cut(j + 1) \in Nat /\ Cut(k) \in Nat
    BY <1>1, <1>4, <2>1
  <2>3. CASE j < k - 1
    <3>1. Cut(j + 1) <= Cut(k - 1) /\ Cut(k - 1) \in Nat
      BY <1>1, <1>5, <2>1, <2>3, CutsIncrease
    <3>. QED
      BY <1>0, <1>6, <1>8, <2>2, <3>1
  <2>4. CASE k - 1 < j
    <3>1. Cut((k - 1) + 1) <= Cut(j)
      BY <1>5, <2>1, <2>4, CutsIncrease
    <3>. QED
      BY <1>0, <1>4, <1>5, <1>8, <2>2, <3>1
  <2>. QED
    BY <1>5, <2>1, <2>3, <2>4
<1>. QED
  BY <1>6, <1>7, <1>8

LEMMA InitIsTableInv ==
  ASSUME Init, RoomForCuts
  PROVE  TableInv
<1>0. /\ blocks = [i \in Index |->
                 IF i \in Pieces
                 THEN FreeBlock(Cut(i), Lower(Cut(i + 1), BufferSize) - Cut(i))
                 ELSE NoBlock]
      /\ highest = Cardinality(Pieces) - 1
      /\ owned = {} /\ refused = {} /\ \A t \in Threads : ~At(t, "free")
  BY DEF Init, At
<1>1. \A i \in Index : blocks[i].inUse <=> i \in Pieces
  BY <1>0, SpanCovers
<1>2. ASSUME NEW i \in Pieces
      PROVE  /\ i \in Nat /\ i \in Index /\ i + 1 \in Nat
             /\ Cut(i) \in Nat /\ Cut(i + 1) \in Nat /\ Cut(i) < BufferSize
             /\ blocks[i].base = Cut(i)
             /\ Past(blocks[i]) = Lower(Cut(i + 1), BufferSize)
             /\ Lower(Cut(i + 1), BufferSize) \in Nat
  <2>1. i \in Nat /\ i \in Index /\ i + 1 \in Nat /\ Cut(i) < BufferSize
    BY SimpleTypes DEF Pieces
  <2>2. Cut(i) \in Nat /\ Cut(i + 1) \in Nat /\ Lower(Cut(i + 1), BufferSize) \in Nat
    BY <2>1, CutsAndMultiples, SimpleTypes DEF Lower
  <2>3. blocks[i] = FreeBlock(Cut(i), Lower(Cut(i + 1), BufferSize) - Cut(i))
    BY <1>0, <2>1
  <2>4. /\ blocks[i].base = Cut(i)
        /\ Past(blocks[i]) = Cut(i) + (Lower(Cut(i + 1), BufferSize) - Cut(i))
    BY <2>3 DEF FreeBlock, Past
  <2>5. Cut(i) + (Lower(Cut(i + 1), BufferSize) - Cut(i)) = Lower(Cut(i + 1), BufferSize)
    BY <2>2
  <2>. QED
    BY <2>1, <2>2, <2>4, <2>5
<1>3. Reading
  BY <1>0 DEF Reading
<1>4. Beyond
  BY <1>0, <1>1, PiecesAreAnInterval DEF Beyond
<1>5. Joined
  <2> SUFFICES ASSUME NEW i \in Pieces, NEW j \in Pieces,
                      Past(blocks[i]) = blocks[j].base
               PROVE  On64MBBoundary(blocks[j].base)
    BY <1>1 DEF Joined, Abut
  <2>1. Cut(j) = Lower(Cut(i + 1), BufferSize) /\ Cut(j) < BufferSize
    BY <1>2
  <2>2. Cut(j) = Cut(i + 1)
    BY <1>2, <2>1, SimpleTypes DEF Lower
  <2>. QED
    BY <1>2, <2>2, CutIsBoundary
<1>6. ASSUME NEW u \in Units
      PROVE  OnlyOne(InTable(u), InOwned(u), InRefused(u), OnTheWay(u))
  <2>0. u \in Nat /\ u < BufferSize /\ BufferSize \in Nat
    BY SimpleTypes DEF Units
  <2>1. \A i \in Pieces : Covers(blocks[i], u) <=> Cut(i) <= u /\ u < Cut(i + 1)
    BY <1>2, <2>0 DEF Covers, Lower
  <2>2. PICK i \in Pieces : /\ Cut(i) <= u /\ u < Cut(i + 1)
                            /\ \A j \in Pieces : Cut(j) <= u /\ u < Cut(j + 1) => j = i
    BY OnePieceCovers
  <2>3. InTable(u) = {i}
    BY <1>1, <1>2, <2>1, <2>2 DEF InTable
  <2>4. InOwned(u) = {} /\ InRefused(u) = {} /\ OnTheWay(u) = {}
    BY <1>0 DEF InOwned, InRefused, OnTheWay
  <2>. QED
    BY <2>3, <2>4 DEF OnlyOne
<1>. QED
  BY <1>3, <1>4, <1>5, <1>6 DEF TableInv, Placed

LEMMA NextKeepsTable ==
  ASSUME OneFreer, IInv, IInv', TableInv, [Next]_vars
  PROVE  TableInv'
<1>0. pc \in [Threads -> {"idle", "scan", "wait", "leave", "free", "delete", "drain"}]
  BY DEF IInv, TypeOK
<1>1. ASSUME NEW t \in Threads,
             \/ \E n \in Sizes, whole \in BOOLEAN : Allocate(t, n, whole)
             \/ AllocateNotFound(t) \/ AllocateBreak(t)
             \/ AllocateWake(t) \/ AllocateReturn(t)
             \/ Delete(t) \/ DeleteStep(t)
      PROVE  TableInv'
  <2>1. table' = table /\ owned' = owned /\ refused' = refused
    BY <1>1 DEF Allocate, AllocateNotFound, AllocateBreak, AllocateWake,
         AllocateReturn, Delete, DeleteStep, DeleteSignal, DeleteEnd
  <2>2. ~At(t, "free") /\ ~At(t, "free")'
    BY <1>0, <1>1 DEF Allocate, AllocateNotFound, AllocateBreak, AllocateWake,
         AllocateReturn, Delete, DeleteStep, DeleteSignal, DeleteEnd,
         Return, Goto, At
  <2>3. \A s \in Threads : s # t =>
          /\ At(s, "free")' <=> At(s, "free")
          /\ block'[s] = block[s] /\ lowest'[s] = lowest[s]
    BY <1>0, <1>1 DEF Allocate, AllocateNotFound, AllocateBreak, AllocateWake,
         AllocateReturn, Delete, DeleteStep, DeleteSignal, DeleteEnd,
         Return, Goto, At, locals, IInv, TypeOK
  <2>. QED
    BY <2>1, <2>2, <2>3, OthersKeepTable
<1>2. ASSUME NEW t \in Threads, Start(t) PROVE TableInv'
  BY <1>1, <1>2, FreeKeepsTable, ExtendKeepsTable DEF Start
<1>3. ASSUME NEW t \in Threads, Step(t) PROVE TableInv'
  BY <1>1, <1>3, FoundKeepsTable, FreeStepKeepsTable DEF Step, AllocateStep
<1>4. ASSUME UNCHANGED vars PROVE TableInv'
  BY <1>4, OthersKeepTable DEF vars, locals, At
<1>. QED
  BY <1>2, <1>3, <1>4 DEF Next

LEMMA TableInvAlways ==
  ASSUME OneFreer, RoomForCuts
  PROVE  Spec => [](IInv /\ TableInv)
<1>1. Init => IInv /\ TableInv
  BY InitIsIInv, InitIsTableInv
<1>2. IInv /\ TableInv /\ [Next]_vars => (IInv /\ TableInv)'
  BY NextKeepsIInv, NextKeepsTable
<1>. QED
  BY <1>1, <1>2, PTL DEF Spec

LEMMA OnlyOneCounts ==
  ASSUME NEW A, NEW B, NEW C, NEW D, OnlyOne(A, B, C, D)
  PROVE  Cardinality(A) + Cardinality(B) + Cardinality(C) + Cardinality(D) = 1
<1>1. /\ Cardinality({}) = 0
      /\ \A a : Cardinality({a}) = 1
  BY FS_EmptySet, FS_Singleton
<1>2. /\ (\E a : A = {a}) => Cardinality(A) = 1
      /\ (\E a : B = {a}) => Cardinality(B) = 1
      /\ (\E a : C = {a}) => Cardinality(C) = 1
      /\ (\E a : D = {a}) => Cardinality(D) = 1
      /\ A = {} => Cardinality(A) = 0
      /\ B = {} => Cardinality(B) = 0
      /\ C = {} => Cardinality(C) = 0
      /\ D = {} => Cardinality(D) = 0
  BY <1>1, Zenon
<1>3. \/ Cardinality(A) = 1 /\ Cardinality(B) = 0 /\ Cardinality(C) = 0 /\ Cardinality(D) = 0
      \/ Cardinality(A) = 0 /\ Cardinality(B) = 1 /\ Cardinality(C) = 0 /\ Cardinality(D) = 0
      \/ Cardinality(A) = 0 /\ Cardinality(B) = 0 /\ Cardinality(C) = 1 /\ Cardinality(D) = 0
      \/ Cardinality(A) = 0 /\ Cardinality(B) = 0 /\ Cardinality(C) = 0 /\ Cardinality(D) = 1
  BY <1>2, Zenon DEF OnlyOne
<1>. QED
  BY <1>3

(* When one thread frees, each unit of the memory is, whatever is asked    *)
(* for and given back in whatever order, in one free block, or with one    *)
(* client, or on its way back, or in one block that the table had no entry *)
(* for: none is lost and none is given out twice.                          *)
THEOREM NothingLostOrShared ==
  ASSUME OneFreer, RoomForCuts
  PROVE  Spec => []EachUnitOnce
<1>1. ASSUME IInv, TableInv, NEW u \in Units
      PROVE  Cardinality({i \in Usable : Covers(blocks[i], u)})
               + Cardinality({x \in owned : Covers(x, u)})
               + Cardinality({x \in refused : Covers(x, u)})
               + Cardinality({t \in Threads : At(t, "free") /\ Covers(block[t], u)}) = 1
  <2>1. highest \in Index /\ Beyond
    BY <1>1 DEF IInv, TypeOK, TableInv
  <2>2. \A i : i \in Usable <=> i \in Index /\ blocks[i].inUse
    BY <2>1, SimpleTypes DEF Usable, Scanned, Beyond, Index
  <2>3. {i \in Usable : Covers(blocks[i], u)} = InTable(u)
    BY <2>2 DEF InTable
  <2>4. OnlyOne(InTable(u), InOwned(u), InRefused(u), OnTheWay(u))
    BY <1>1 DEF TableInv, Placed
  <2>5. Cardinality(InTable(u)) + Cardinality(InOwned(u))
          + Cardinality(InRefused(u)) + Cardinality(OnTheWay(u)) = 1
    BY <2>4, OnlyOneCounts
  <2>. QED
    BY <2>3, <2>5 DEF InOwned, InRefused, OnTheWay
<1>2. IInv /\ TableInv => EachUnitOnce
  BY <1>1 DEF EachUnitOnce
<1>. QED
  BY <1>2, TableInvAlways, PTL

(* When one thread frees, two free blocks touch only on a physical         *)
(* boundary: every stretch of free memory that may be handed out is one    *)
(* entry of the table.                                                     *)
THEOREM FreeBlocksAreJoined ==
  ASSUME OneFreer, RoomForCuts
  PROVE  Spec => []Coalesced
<1>1. IInv /\ TableInv => Coalesced
  <2> SUFFICES ASSUME IInv, TableInv, NEW i \in Usable, NEW j \in Usable,
                      Past(blocks[i]) = blocks[j].base
               PROVE  On64MBBoundary(blocks[j].base)
    BY DEF Coalesced
  <2>1. highest \in Index
    BY DEF IInv, TypeOK
  <2>2. i \in Index /\ j \in Index /\ blocks[i].inUse /\ blocks[j].inUse
    BY <2>1, SimpleTypes DEF Usable, Scanned
  <2>. QED
    BY <2>2 DEF TableInv, Joined, Abut
<1>. QED
  BY <1>1, TableInvAlways, PTL
=============================================================================
