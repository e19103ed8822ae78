-------------------------- MODULE PoolMemory_proofs --------------------------
(***************************************************************************)
(* Proofs about PoolMemory: types, that every unit of the memory of a pool *)
(* is in one place, and, when one thread uses the pool, that the total of  *)
(* the data sizes is right.                                                *)
(***************************************************************************)
EXTENDS PoolMemory, FiniteSetTheorems, WellFoundedInduction, TLAPS

(* ShrinkMemoryBlock rounds the new size up after it was compared with the *)
(* old one.  What keeps the block from growing: either every size that a   *)
(* buffer is shrunk to is a multiple of the unit (the streams of collator2,*)
(* whose buffers are partitioned at any size, only shrink to 0), or every  *)
(* buffer has a multiple of the unit (those of the older collators, which  *)
(* shrink to any size, are neither partitioned, nor extended, nor got with *)
(* a lower bound).                                                         *)
Multiple(n) == n % Unit = 0

AlignedShrinks == \A n \in Shrinks : Multiple(n)
AlignedBlocks  == Leaves = {} /\ LowerBounds \subseteq {FALSE} /\ Extends = {}

(* Where the threads and the blocks are.                                   *)
Hands ==
  /\ \A t \in Threads : At(t, "idle") <=> buf[t] = None
  /\ \A t \in Threads : buf[t] # None => buf[t] \in used
  /\ \A s, t \in Threads : buf[s] = buf[t] => s = t \/ buf[s] = None
  /\ \A t \in Threads : arg[t] <= MemorySize
  /\ \A t \in Threads : At(t, "release") \/ At(t, "release_store") => Mine(t).size = 0
  /\ \A b \in Buffers \ used : block[b].size = 0

Within  == \A b \in Buffers : block[b].base + block[b].size <= MemorySize
Aligned == AlignedShrinks \/ \A b \in Buffers : Multiple(block[b].size)

Owners(u) == {b \in Buffers : Owns(b) /\ u \in Units(block[b])}
Placed ==
  \A u \in 0 .. MemorySize - 1 :
    IF u \in freeMemory THEN Owners(u) = {} ELSE \E b \in Buffers : Owners(u) = {b}

IInv == TypeOK /\ Hands /\ Within /\ Aligned /\ Placed
-----------------------------------------------------------------------------
(* Arithmetic of the rounding.                                             *)
LEMMA Division ==
  ASSUME NEW a \in Int, NEW b \in Nat \ {0}
  PROVE  a \div b \in Int /\ a % b \in 0 .. b - 1 /\ a = b * (a \div b) + (a % b)
<1>1. a \div b \in Int /\ a % b \in 0 .. b - 1
  OBVIOUS
<1>2. a = b * (a \div b) + (a % b)
  OBVIOUS
<1>. QED
  BY <1>1, <1>2

LEMMA ProductsKeepOrder ==
  ASSUME NEW b \in Nat \ {0}, NEW j \in Int, NEW k \in Int
  PROVE  /\ j <= k => b * j <= b * k
         /\ b * j < b * (k + 1) => j <= k
         /\ b * j \in Int /\ b * (k + 1) = b * k + b
<1>1. ASSUME NEW i \in Int, NEW m \in Int, i <= m PROVE b * i <= b * m
  <2>1. b * (m - i) >= 0
    BY <1>1
  <2>2. b * (m - i) = b * m - b * i /\ b * m \in Int /\ b * i \in Int
    OBVIOUS
  <2>. QED
    BY <2>1, <2>2
<1>2. b * j \in Int /\ b * (k + 1) \in Int /\ b * (k + 1) = b * k + b
  OBVIOUS
<1>3. ASSUME k + 1 <= j PROVE b * (k + 1) <= b * j
  BY <1>1, <1>3
<1>. QED
  BY <1>1, <1>2, <1>3

LEMMA RoundedUp ==
  ASSUME NEW n \in Nat
  PROVE  /\ Rounded(n) \in Nat /\ n <= Rounded(n) /\ Multiple(Rounded(n))
         /\ \A s \in Nat : Multiple(s) /\ n <= s => Rounded(n) <= s
         /\ Multiple(n) => Rounded(n) = n
<1> DEFINE q == (n + Unit - 1) \div Unit
<1>0. Unit \in Nat /\ Unit # 0 /\ n + Unit - 1 \in Nat
  BY MemoryAssumption
<1>1. PICK e \in 0 .. Unit - 1 : n + Unit - 1 = Unit * q + e /\ q \in Int
  <2> DEFINE a == n + Unit - 1
  <2>1. a \in Int /\ Unit \in Nat \ {0}
    BY <1>0
  <2> HIDE DEF a
  <2>2. /\ a \div Unit \in Int /\ a % Unit \in 0 .. Unit - 1
        /\ a = Unit * (a \div Unit) + (a % Unit)
    BY <2>1, Division, Zenon
  <2>. QED
    BY <2>2, Zenon DEF a
<1>2. Rounded(n) = Unit * q /\ Unit * q \in Int
  <2>1. Rounded(n) = q * Unit
    BY DEF Rounded
  <2> HIDE DEF q
  <2>. QED
    BY <1>0, <1>1, <2>1
<1> HIDE DEF q
<1>3. Rounded(n) \in Nat /\ n <= Rounded(n)
  BY <1>0, <1>1, <1>2
<1>4. Multiple(Rounded(n))
  <2> DEFINE a == Rounded(n)
             k == a \div Unit
             r == a % Unit
  <2>1. a \in Int /\ a = Unit * q
    BY <1>2, <1>3
  <2> HIDE DEF a
  <2>2. k \in Int /\ r \in 0 .. Unit - 1 /\ a = Unit * k + r
    BY <1>0, <2>1, Division
  <2> HIDE DEF k, r
  <2>3. Unit * k <= Unit * q /\ Unit * q < Unit * (k + 1) /\ Unit * (k + 1) = Unit * k + Unit
    <3>1. Unit * (k + 1) = Unit * k + Unit /\ Unit * k \in Int
      BY <1>0, <2>2, ProductsKeepOrder
    <3>. QED
      BY <1>0, <1>2, <2>1, <2>2, <3>1
  <2>4. q <= k
    BY <1>0, <1>1, <2>2, <2>3, ProductsKeepOrder
  <2>5. Unit * q <= Unit * k /\ Unit * k \in Int
    BY <1>0, <1>1, <2>2, <2>4, ProductsKeepOrder
  <2>6. r = 0
    BY <1>2, <2>1, <2>2, <2>5
  <2>. QED
    BY <2>6 DEF Multiple, r, a
<1>5. ASSUME NEW s \in Nat, Multiple(s), n <= s PROVE Rounded(n) <= s
  <2> DEFINE k == s \div Unit
  <2>1. k \in Int /\ s = Unit * k + (s % Unit)
    BY <1>0, Division
  <2>2. s % Unit = 0
    BY <1>5 DEF Multiple
  <2> HIDE DEF k
  <2>3. s = Unit * k /\ Unit * k \in Int /\ Unit * (k + 1) = Unit * k + Unit
    BY <1>0, <2>1, <2>2, ProductsKeepOrder
  <2>4. Unit * q < Unit * (k + 1)
    BY <1>0, <1>1, <1>2, <1>5, <2>3
  <2>5. q <= k
    BY <1>0, <1>1, <2>1, <2>4, ProductsKeepOrder
  <2>. QED
    BY <1>0, <1>1, <1>2, <2>1, <2>3, <2>5, ProductsKeepOrder
<1>6. ASSUME Multiple(n) PROVE Rounded(n) = n
  <2>1. Rounded(n) <= n
    BY <1>5, <1>6
  <2>. QED
    BY <1>3, <2>1
<1>. QED
  BY <1>3, <1>4, <1>5, <1>6
-----------------------------------------------------------------------------
(* Steps after which every unit is where it was.                           *)
Working(c) == \E t \in Threads : buf[t] = c /\ pc[t] \in {"subtract", "subtract_store"}

LEMMA OwnsMeans == \A c : Owns(c) <=> ~Working(c)
BY DEF Owns, Working

LEMMA NumbersOfBlocks ==
  ASSUME TypeOK, Within, NEW b \in Buffers
  PROVE  /\ block[b].base \in Nat /\ block[b].size \in Nat /\ MemorySize \in Nat
         /\ block[b].base + block[b].size <= MemorySize
         /\ \A u \in Nat : u \in Units(block[b]) <=>
              block[b].base <= u /\ u < block[b].base + block[b].size
BY MemoryAssumption DEF TypeOK, Within, Units

(* A block without size has no unit.                                       *)
LEMMA EmptyBlocks ==
  ASSUME NEW x, x.base \in Nat, x.size = 0
  PROVE  Units(x) = {}
BY DEF Units

LEMMA SameOwners ==
  ASSUME Placed, freeMemory' = freeMemory,
         \A c \in Buffers : \A u \in 0 .. MemorySize - 1 :
           (Owns(c)' /\ u \in Units(block'[c])) <=> (Owns(c) /\ u \in Units(block[c]))
  PROVE  Placed'
<1>1. ASSUME NEW u \in 0 .. MemorySize - 1 PROVE Owners(u)' = Owners(u)
  BY DEF Owners
<1>. QED
  BY <1>1 DEF Placed

LEMMA InitIsIInv ==
  ASSUME AlignedShrinks \/ AlignedBlocks, Init
  PROVE  IInv
<1>0. /\ MemorySize \in Nat /\ Words \in Nat /\ MemorySize < Words
      /\ Unit \in Nat /\ Unit # 0 /\ 0 % Unit = 0
  BY MemoryAssumption
<1>1. TypeOK
  BY <1>0 DEF Init, TypeOK, Blk
<1>2. Hands /\ Within
  BY <1>0, MemoryAssumption DEF Init, Hands, Within, At, Mine, Blk
<1>3. Aligned
  BY <1>0 DEF Init, Aligned, Multiple, Blk
<1>4. ASSUME NEW u \in 0 .. MemorySize - 1 PROVE u \in freeMemory /\ Owners(u) = {}
  <2>1. \A b \in Buffers : Units(block[b]) = {}
    BY EmptyBlocks DEF Init, Blk
  <2>. QED
    BY <2>1 DEF Init, Owners
<1>. QED
  BY <1>1, <1>2, <1>3, <1>4 DEF IInv, Placed

LEMMA GetKeepsIInv ==
  ASSUME AlignedShrinks \/ AlignedBlocks, IInv, NEW t \in Threads, NEW b \in Buffers,
         NEW n \in Requests, NEW l \in LowerBounds, GetBuffer(t, b, n, l)
  PROVE  IInv'
<1>0. /\ TypeOK /\ Hands /\ Within /\ Aligned /\ Placed
      /\ b \notin used /\ pc[t] = "idle" /\ buf[t] = None /\ b # None
      /\ MemorySize \in Nat /\ n \in Nat
  BY MemoryAssumption DEF IInv, GetBuffer, Hands, At
<1>1. PICK x \in Allocated(Rounded(n), l) :
        /\ block' = [block EXCEPT ![b] = x]
        /\ freeMemory' = freeMemory \ Units(x)
  BY DEF GetBuffer
<1>2. /\ x.base \in 0 .. MemorySize /\ x.size \in 0 .. MemorySize
      /\ x \in [base : 0 .. MemorySize, size : 0 .. MemorySize]
      /\ Units(x) \subseteq freeMemory
      /\ x.size # 0
      /\ l = FALSE => x.size = Rounded(n)
  <2>1. Rounded(n) \in Nat /\ Rounded(n) >= 1
    BY <1>0, RoundedUp, MemoryAssumption
  <2>2. CASE l
    BY <1>0, <1>1, <2>2 DEF Allocated, Runs
  <2>3. CASE ~l
    <3>1. PICK y \in Runs : y.size >= Rounded(n) /\ x = Blk(y.base, Rounded(n))
      BY <1>1, <2>3 DEF Allocated
    <3>2. /\ y.base \in 0 .. MemorySize /\ y.size \in 1 .. MemorySize
          /\ Units(y) \subseteq freeMemory
      BY <3>1 DEF Runs
    <3>3. x.base = y.base /\ x.size = Rounded(n)
          /\ x \in [base : {y.base}, size : {Rounded(n)}]
      BY <3>1 DEF Blk
    <3>4. Units(x) \subseteq Units(y)
      BY <1>0, <2>1, <3>1, <3>2, <3>3 DEF Units
    <3>. QED
      BY <1>0, <2>1, <3>1, <3>2, <3>3, <3>4
  <2>. QED
    BY <2>2, <2>3, MemoryAssumption
<1>3. x.base + x.size <= MemorySize
  <2>1. x.base + x.size - 1 \in Units(x)
    BY <1>0, <1>2 DEF Units
  <2>2. x.base + x.size - 1 \in 0 .. MemorySize - 1
    BY <1>0, <1>2, <2>1 DEF TypeOK
  <2>. QED
    BY <1>0, <1>2, <2>2
<1>4. /\ used' = used \cup {b} /\ dataSize' = [dataSize EXCEPT ![b] = 0]
      /\ pc' = [pc EXCEPT ![t] = "add"] /\ buf' = [buf EXCEPT ![t] = b]
      /\ arg' = [arg EXCEPT ![t] = 0] /\ reg' = reg /\ lock' = lock
      /\ totalAllocated' = totalAllocated /\ totalUsed' = totalUsed
  BY DEF GetBuffer, Call, Goto, totals
<1>5. TypeOK'
  <2>1. /\ block' \in [Buffers -> [base : 0 .. MemorySize, size : 0 .. MemorySize]]
        /\ used' \subseteq Buffers /\ freeMemory' \subseteq 0 .. MemorySize - 1
    BY <1>0, <1>1, <1>2, <1>4 DEF TypeOK
  <2>2. /\ dataSize' \in [Buffers -> 0 .. Words - 1]
        /\ arg' \in [Threads -> DataSizes \cup {0}]
    BY <1>0, <1>4, MemoryAssumption DEF TypeOK
  <2>3. /\ buf' \in [Threads -> Buffers \cup {None}]
        /\ pc' \in [Threads -> {"idle", "add", "add_store", "set_store", "subtract",
                         "subtract_store", "release", "release_store"}]
    BY <1>0, <1>4 DEF TypeOK
  <2>. QED
    BY <1>0, <1>4, <2>1, <2>2, <2>3 DEF TypeOK
<1>6. Hands'
  BY <1>0, <1>1, <1>4 DEF Hands, TypeOK, At, Mine
<1>7. Within'
  BY <1>0, <1>1, <1>3 DEF Within, TypeOK
<1>8. Aligned'
  <2>1. CASE AlignedShrinks
    BY <2>1 DEF Aligned, AlignedShrinks, Multiple
  <2>2. CASE AlignedBlocks
    <3>1. Multiple(x.size)
      BY <1>0, <1>2, <2>2, RoundedUp DEF AlignedBlocks
    <3>. QED
      BY <1>0, <1>1, <3>1 DEF Aligned, AlignedShrinks, Multiple, TypeOK
  <2>. QED
    BY <2>1, <2>2
<1>9. ASSUME NEW u \in 0 .. MemorySize - 1
      PROVE  IF u \in freeMemory' THEN Owners(u)' = {}
                                  ELSE \E c \in Buffers : Owners(u)' = {c}
  <2>1. \A c \in Buffers : Owns(c)' <=> Owns(c)
    BY <1>0, <1>4 DEF Owns, TypeOK
  <2>2. Owns(b) /\ b \notin Owners(u)
    <3>1. block[b].size = 0 /\ block[b].base \in Nat
      BY <1>0, MemoryAssumption DEF Hands, TypeOK
    <3>. QED
      BY <1>0, <3>1, EmptyBlocks DEF Owners, Owns, Hands
  <2>3. /\ \A c : c # b => (c \in Owners(u)' <=> c \in Owners(u))
        /\ b \in Owners(u)' <=> u \in Units(x)
    BY <1>0, <1>1, <2>1, <2>2 DEF Owners, TypeOK
  <2>4. CASE u \in Units(x)
    <3>1. Owners(u) = {}
      BY <1>0, <1>2, <2>4 DEF Placed
    <3>2. Owners(u)' = {b}
      BY <2>3, <2>4, <3>1
    <3>. QED
      BY <1>1, <2>4, <3>2
  <2>5. CASE u \notin Units(x)
    <3>1. Owners(u)' = Owners(u)
      BY <2>2, <2>3, <2>5
    <3>. QED
      BY <1>0, <1>1, <2>5, <3>1 DEF Placed
  <2>. QED
    BY <2>4, <2>5
<1>10. Placed'
  BY <1>9 DEF Placed
<1>. QED
  BY <1>5, <1>6, <1>7, <1>8, <1>10 DEF IInv

(* The steps of a call in which no memory changes hands.                   *)
LEMMA QuietKeepsIInv ==
  ASSUME IInv, NEW t \in Threads,
         \/ AllocatedLoad(t) \/ AllocatedAdd(t) \/ SetUsedStore(t) \/ UsedLoad(t)
         \/ \E b \in Buffers, n \in DataSizes : SetUsedDataSize(t, b, n)
  PROVE  IInv'
<1>0. /\ TypeOK /\ Hands /\ Within /\ Aligned /\ Placed
      /\ MemorySize \in Nat /\ Words \in Nat /\ MemorySize < Words
      /\ None \notin Buffers /\ DataSizes \subseteq Nat
  BY MemoryAssumption DEF IInv
<1>1. /\ used' = used /\ block' = block /\ freeMemory' = freeMemory
  BY DEF AllocatedLoad, AllocatedAdd, SetUsedStore, UsedLoad, SetUsedDataSize, memory
<1>2. \A i \in Int : i % Words \in 0 .. Words - 1
  <2>1. Words \in Nat \ {0}
    BY <1>0
  <2>. QED
    BY <2>1, Division, Zenon
<1>3. TypeOK' /\ Hands' /\ \A c \in Buffers : Owns(c)' <=> Owns(c)
  <2>1. CASE AllocatedLoad(t)
    <3>1. /\ \/ pc[t] = "add" /\ pc' = [pc EXCEPT ![t] = "add_store"]
             \/ pc[t] = "subtract" /\ pc' = [pc EXCEPT ![t] = "subtract_store"]
          /\ reg' = [reg EXCEPT ![t] = totalAllocated]
          /\ dataSize' = dataSize /\ lock' = lock /\ buf' = buf /\ arg' = arg
          /\ totalAllocated' = totalAllocated /\ totalUsed' = totalUsed
      BY <2>1 DEF AllocatedLoad, Goto, At, memory, totals
    <3>2. TypeOK'
      BY <1>0, <1>1, <3>1 DEF TypeOK
    <3>3. Hands'
      BY <1>0, <1>1, <3>1 DEF Hands, TypeOK, At, Mine
    <3>4. \A c \in Buffers : Owns(c)' <=> Owns(c)
      BY <1>0, <3>1 DEF Owns, TypeOK
    <3>. QED
      BY <3>2, <3>3, <3>4
  <2>2. CASE AllocatedAdd(t)
    <3>1. /\ pc[t] = "add_store" /\ pc' = [pc EXCEPT ![t] = "idle"]
          /\ buf' = [buf EXCEPT ![t] = None] /\ arg' = [arg EXCEPT ![t] = 0]
          /\ reg' = [reg EXCEPT ![t] = 0]
          /\ totalAllocated' = (reg[t] + Mine(t).size) % Words
          /\ dataSize' = dataSize /\ lock' = lock /\ totalUsed' = totalUsed
      BY <2>2 DEF AllocatedAdd, Return, Call, Goto, At, memory
    <3>2. totalAllocated' \in 0 .. Words - 1
      <4>1. reg[t] \in Int /\ buf[t] \in Buffers
        BY <1>0, <3>1 DEF TypeOK, Hands, At
      <4>2. Mine(t).size \in Int
        BY <1>0, <4>1, NumbersOfBlocks DEF Mine
      <4>. QED
        BY <1>2, <3>1, <4>1, <4>2
    <3>3. TypeOK'
      BY <1>0, <1>1, <3>1, <3>2 DEF TypeOK
    <3>4. Hands'
      BY <1>0, <1>1, <3>1 DEF Hands, TypeOK, At, Mine
    <3>5. \A c \in Buffers : Owns(c)' <=> Owns(c)
      BY <1>0, <3>1 DEF Owns, TypeOK
    <3>. QED
      BY <3>3, <3>4, <3>5
  <2>3. CASE SetUsedStore(t)
    <3>1. /\ pc[t] = "set_store" /\ pc' = [pc EXCEPT ![t] = "idle"]
          /\ buf' = [buf EXCEPT ![t] = None] /\ arg' = [arg EXCEPT ![t] = 0]
          /\ reg' = [reg EXCEPT ![t] = 0]
          /\ totalUsed' = (reg[t] - dataSize[buf[t]] + arg[t]) % Words
          /\ dataSize' = [dataSize EXCEPT ![buf[t]] = arg[t]]
          /\ lock' = lock /\ totalAllocated' = totalAllocated
      BY <2>3 DEF SetUsedStore, Return, Call, Goto, At
    <3>2. /\ buf[t] \in Buffers /\ arg[t] \in Nat /\ arg[t] <= MemorySize
          /\ reg[t] \in Int /\ dataSize[buf[t]] \in Int
      <4>1. buf[t] \in Buffers
        BY <1>0, <3>1 DEF TypeOK, Hands, At
      <4>2. arg[t] \in Nat /\ arg[t] <= MemorySize
        <5>1. arg[t] \in DataSizes \cup {0} /\ arg[t] <= MemorySize
          BY <1>0 DEF TypeOK, Hands
        <5>2. 0 \in Nat
          OBVIOUS
        <5>3. arg[t] \in Nat
          BY ONLY <5>1, <5>2, MemoryAssumption, Zenon
        <5>. QED
          BY ONLY <5>1, <5>3, Zenon
      <4>3. reg[t] \in Int /\ dataSize[buf[t]] \in Int
        BY <1>0, <4>1 DEF TypeOK
      <4>. QED
        BY <4>1, <4>2, <4>3
    <3>3. totalUsed' \in 0 .. Words - 1
      BY <1>2, <3>1, <3>2
    <3>4. dataSize' \in [Buffers -> 0 .. Words - 1]
      BY <1>0, <3>1, <3>2 DEF TypeOK
    <3>5. TypeOK'
      BY <1>0, <1>1, <3>1, <3>3, <3>4 DEF TypeOK
    <3>6. Hands'
      BY <1>0, <1>1, <3>1 DEF Hands, TypeOK, At, Mine
    <3>7. \A c \in Buffers : Owns(c)' <=> Owns(c)
      BY <1>0, <3>1 DEF Owns, TypeOK
    <3>. QED
      BY <3>5, <3>6, <3>7
  <2>4. CASE UsedLoad(t)
    <3>1. /\ pc[t] = "release" /\ pc' = [pc EXCEPT ![t] = "release_store"]
          /\ reg' = [reg EXCEPT ![t] = totalUsed] /\ lock' = t
          /\ dataSize' = dataSize /\ buf' = buf /\ arg' = arg
          /\ totalAllocated' = totalAllocated /\ totalUsed' = totalUsed
      BY <2>4 DEF UsedLoad, Goto, At, memory, totals
    <3>2. TypeOK'
      BY <1>0, <1>1, <3>1 DEF TypeOK
    <3>3. Hands'
      BY <1>0, <1>1, <3>1 DEF Hands, TypeOK, At, Mine
    <3>4. \A c \in Buffers : Owns(c)' <=> Owns(c)
      BY <1>0, <3>1 DEF Owns, TypeOK
    <3>. QED
      BY <3>2, <3>3, <3>4
  <2>5. ASSUME NEW b \in Buffers, NEW n \in DataSizes, SetUsedDataSize(t, b, n)
        PROVE  TypeOK' /\ Hands' /\ \A c \in Buffers : Owns(c)' <=> Owns(c)
    <3>1. /\ pc[t] = "idle" /\ pc' = [pc EXCEPT ![t] = "set_store"]
          /\ buf' = [buf EXCEPT ![t] = b] /\ arg' = [arg EXCEPT ![t] = n]
          /\ reg' = [reg EXCEPT ![t] = totalUsed] /\ lock' = lock
          /\ b \in used /\ (\A s \in Threads : buf[s] # b) /\ n <= block[b].size
          /\ dataSize' = dataSize
          /\ totalAllocated' = totalAllocated /\ totalUsed' = totalUsed
      BY <2>5 DEF SetUsedDataSize, Call, Goto, At, Idle, memory, totals
    <3>2. n \in Nat /\ n <= MemorySize
      BY <1>0, <3>1, NumbersOfBlocks
    <3>3. TypeOK'
      <4>1. /\ arg' \in [Threads -> DataSizes \cup {0}]
            /\ buf' \in [Threads -> Buffers \cup {None}]
        BY <1>0, <3>1 DEF TypeOK
      <4>. QED
        BY <1>0, <1>1, <3>1, <4>1 DEF TypeOK
    <3>4. Hands'
      BY <1>0, <1>1, <3>1, <3>2 DEF Hands, TypeOK, At, Mine
    <3>5. \A c \in Buffers : Owns(c)' <=> Owns(c)
      BY <1>0, <3>1 DEF Owns, TypeOK
    <3>. QED
      BY <3>3, <3>4, <3>5
  <2>. QED
    BY <2>1, <2>2, <2>3, <2>4, <2>5
<1>4. Within' /\ Aligned'
  BY <1>0, <1>1 DEF Within, Aligned, AlignedShrinks, Multiple
<1>5. Placed'
  BY <1>0, <1>1, <1>3, SameOwners
<1>. QED
  BY <1>3, <1>4, <1>5 DEF IInv

(* The end of a block goes back to the allocator.                          *)
LEMMA ShrinkKeepsIInv ==
  ASSUME IInv, NEW t \in Threads, NEW b \in Buffers, NEW n \in Shrinks,
         ShrinkBuffer(t, b, n)
  PROVE  IInv'
<1> DEFINE x == block[b]
           r == Rounded(n)
<1>0. /\ TypeOK /\ Hands /\ Within /\ Aligned /\ Placed
      /\ MemorySize \in Nat /\ n \in Nat
      /\ x.base \in Nat /\ x.size \in Nat /\ x.base + x.size <= MemorySize
  BY MemoryAssumption, NumbersOfBlocks DEF IInv
<1>1. /\ n < x.size /\ b \in used /\ \A s \in Threads : buf[s] # b
      /\ block' = [block EXCEPT ![b].size = r]
      /\ freeMemory' = freeMemory \cup Tail(x, r)
      /\ used' = used /\ dataSize' = dataSize /\ lock' = lock
      /\ totalAllocated' = totalAllocated /\ totalUsed' = totalUsed
      /\ pc' = pc /\ buf' = buf /\ arg' = arg /\ reg' = reg
  BY DEF ShrinkBuffer, Idle, totals, locals
<1>2. r \in Nat /\ r <= x.size /\ Multiple(r)
  <2>1. r \in Nat /\ Multiple(r)
    BY <1>0, RoundedUp
  <2>2. CASE AlignedShrinks
    <3>1. Multiple(n)
      BY <2>2 DEF AlignedShrinks
    <3>. QED
      BY <1>0, <1>1, <2>1, <3>1, RoundedUp
  <2>3. CASE Multiple(x.size)
    BY <1>0, <1>1, <2>1, <2>3, RoundedUp
  <2>. QED
    BY <1>0, <2>2, <2>3 DEF Aligned
<1> HIDE DEF r
<1>3. /\ block'[b] = [x EXCEPT !.size = r]
      /\ block'[b].base = x.base /\ block'[b].size = r
      /\ \A c \in Buffers : c # b => block'[c] = block[c]
      /\ block' \in [Buffers -> [base : 0 .. MemorySize, size : 0 .. MemorySize]]
  BY <1>0, <1>1, <1>2 DEF TypeOK
<1>4. TypeOK'
  <2>1. Tail(x, r) \subseteq 0 .. MemorySize - 1
    BY <1>0 DEF Tail, Units
  <2>. QED
    BY <1>0, <1>1, <1>3, <2>1 DEF TypeOK
<1>5. Hands'
  BY <1>0, <1>1, <1>3 DEF Hands, TypeOK, At, Mine
<1>6. Within'
  BY <1>0, <1>2, <1>3 DEF Within
<1>7. Aligned'
  BY <1>0, <1>2, <1>3 DEF Aligned, AlignedShrinks, Multiple
<1>8. ASSUME NEW u \in 0 .. MemorySize - 1
      PROVE  IF u \in freeMemory' THEN Owners(u)' = {}
                                  ELSE \E c \in Buffers : Owners(u)' = {c}
  <2>1. (\A c \in Buffers : Owns(c)' <=> Owns(c)) /\ Owns(b)
    BY <1>1 DEF Owns
  <2>2. /\ u \in Units(x) <=> x.base <= u /\ u < x.base + x.size
        /\ u \in Units(block'[b]) <=> x.base <= u /\ u < x.base + r
        /\ u \in Tail(x, r) <=> u \in Units(x) /\ u >= x.base + r
    BY <1>0, <1>2, <1>3 DEF Units, Tail
  <2>3. u \in Units(block'[b]) <=> u \in Units(x) /\ u \notin Tail(x, r)
    BY <1>0, <1>2, <2>2
  <2>4. /\ \A c : c # b => (c \in Owners(u)' <=> c \in Owners(u))
        /\ b \in Owners(u) <=> u \in Units(x)
        /\ b \in Owners(u)' <=> u \in Units(x) /\ u \notin Tail(x, r)
    BY <1>3, <2>1, <2>3 DEF Owners
  <2>5. CASE u \in Tail(x, r)
    <3>1. Owners(u) = {b}
      BY <1>0, <2>2, <2>4, <2>5 DEF Placed
    <3>2. Owners(u)' = {}
      BY <2>4, <2>5, <3>1
    <3>. QED
      BY <1>1, <2>5, <3>2
  <2>6. CASE u \notin Tail(x, r)
    <3>1. Owners(u)' = Owners(u)
      BY <2>4, <2>6
    <3>. QED
      BY <1>0, <1>1, <2>6, <3>1 DEF Placed
  <2>. QED
    BY <2>5, <2>6
<1>9. Placed'
  BY <1>8 DEF Placed
<1>. QED
  BY <1>4, <1>5, <1>6, <1>7, <1>9 DEF IInv

(* A run of free memory joins the block next to it.                        *)
LEMMA ExtendKeepsIInv ==
  ASSUME AlignedShrinks \/ AlignedBlocks, IInv, NEW t \in Threads, NEW b \in Buffers,
         NEW up \in Extends, ExtendBuffer(t, b, up)
  PROVE  IInv'
<1> DEFINE x == block[b]
<1>0. /\ TypeOK /\ Hands /\ Within /\ Placed /\ AlignedShrinks
      /\ MemorySize \in Nat
      /\ x.base \in Nat /\ x.size \in Nat /\ x.base + x.size <= MemorySize
  BY MemoryAssumption, NumbersOfBlocks DEF IInv, AlignedBlocks
<1>1. PICK z \in Runs :
        /\ IF up THEN z.base = x.base + x.size ELSE z.base + z.size = x.base
        /\ freeMemory' = freeMemory \ Units(z)
        /\ block' = [block EXCEPT ![b] = Blk(IF up THEN x.base ELSE z.base,
                                             x.size + z.size)]
  BY DEF ExtendBuffer
<1>2. /\ b \in used /\ \A s \in Threads : buf[s] # b
      /\ used' = used /\ dataSize' = dataSize /\ lock' = lock
      /\ totalAllocated' = totalAllocated /\ totalUsed' = totalUsed
      /\ pc' = pc /\ buf' = buf /\ arg' = arg /\ reg' = reg
  BY DEF ExtendBuffer, Idle, totals, locals
<1>3. /\ z.base \in Nat /\ z.size \in Nat /\ z.size >= 1 /\ z.base + z.size <= MemorySize
      /\ Units(z) \subseteq freeMemory
  <2>1. /\ z.base \in Nat /\ z.size \in Nat /\ z.size >= 1
        /\ Units(z) \subseteq freeMemory
    BY <1>0 DEF Runs
  <2>2. z.base + z.size - 1 \in Units(z)
    BY <2>1 DEF Units
  <2>3. z.base + z.size - 1 \in 0 .. MemorySize - 1
    BY <1>0, <2>1, <2>2 DEF TypeOK
  <2>. QED
    BY <1>0, <2>1, <2>3
<1> DEFINE y == block'[b]
<1>4. /\ y = Blk(IF up THEN x.base ELSE z.base, x.size + z.size)
      /\ \A c \in Buffers : c # b => block'[c] = block[c]
  BY <1>0, <1>1 DEF TypeOK
<1>5. /\ y.base \in 0 .. MemorySize /\ y.size \in 0 .. MemorySize
      /\ y \in [base : 0 .. MemorySize, size : 0 .. MemorySize]
      /\ y.base + y.size <= MemorySize
      /\ \A u \in Int : u \in Units(y) <=> u \in Units(x) \/ u \in Units(z)
  <2>1. CASE up
    <3>1. y = Blk(x.base, x.size + z.size) /\ z.base = x.base + x.size
      BY <1>1, <1>4, <2>1
    <3>. QED
      BY <1>0, <1>3, <3>1 DEF Blk, Units
  <2>2. CASE ~up
    <3>1. y = Blk(z.base, x.size + z.size) /\ z.base + z.size = x.base
      BY <1>1, <1>4, <2>2
    <3>. QED
      BY <1>0, <1>3, <3>1 DEF Blk, Units
  <2>. QED
    BY <2>1, <2>2
<1>6. TypeOK'
  <2>1. block' \in [Buffers -> [base : 0 .. MemorySize, size : 0 .. MemorySize]]
    BY <1>0, <1>1, <1>4, <1>5 DEF TypeOK
  <2>. QED
    BY <1>0, <1>1, <1>2, <2>1 DEF TypeOK
<1>7. Hands'
  BY <1>0, <1>2, <1>4 DEF Hands, TypeOK, At, Mine
<1>8. Within' /\ Aligned'
  BY <1>0, <1>4, <1>5 DEF Within, Aligned, AlignedShrinks, Multiple
<1>9. ASSUME NEW u \in 0 .. MemorySize - 1
      PROVE  IF u \in freeMemory' THEN Owners(u)' = {}
                                  ELSE \E c \in Buffers : Owners(u)' = {c}
  <2>1. (\A c \in Buffers : Owns(c)' <=> Owns(c)) /\ Owns(b)
    BY <1>2 DEF Owns
  <2>2. u \in Units(y) <=> u \in Units(x) \/ u \in Units(z)
    BY <1>5
  <2>3. /\ \A c : c # b => (c \in Owners(u)' <=> c \in Owners(u))
        /\ b \in Owners(u) <=> u \in Units(x)
        /\ b \in Owners(u)' <=> u \in Units(x) \/ u \in Units(z)
    BY <1>4, <2>1, <2>2 DEF Owners
  <2>4. CASE u \in Units(z)
    <3>1. Owners(u) = {}
      BY <1>0, <1>3, <2>4 DEF Placed
    <3>2. Owners(u)' = {b}
      BY <2>3, <2>4, <3>1
    <3>. QED
      BY <1>1, <2>4, <3>2
  <2>5. CASE u \notin Units(z)
    <3>1. Owners(u)' = Owners(u)
      BY <2>3, <2>5
    <3>. QED
      BY <1>0, <1>1, <2>5, <3>1 DEF Placed
  <2>. QED
    BY <2>4, <2>5
<1>10. Placed'
  BY <1>9 DEF Placed
<1>. QED
  BY <1>6, <1>7, <1>8, <1>10 DEF IInv

(* What follows the first n units belongs to another buffer.               *)
LEMMA PartitionKeepsIInv ==
  ASSUME AlignedShrinks \/ AlignedBlocks, IInv, NEW t \in Threads, NEW b \in Buffers,
         NEW c \in Buffers, NEW n \in Leaves, PartitionBuffer(t, b, c, n)
  PROVE  IInv'
<1> DEFINE x == block[b]
<1>0. /\ TypeOK /\ Hands /\ Within /\ Placed /\ AlignedShrinks
      /\ MemorySize \in Nat /\ n \in Nat /\ Words \in Nat /\ MemorySize < Words
      /\ x.base \in Nat /\ x.size \in Nat /\ x.base + x.size <= MemorySize
  BY MemoryAssumption, NumbersOfBlocks DEF IInv, AlignedBlocks
<1>1. /\ n <= x.size /\ b \in used /\ c \notin used /\ c # b
      /\ \A s \in Threads : buf[s] # b
      /\ block' = [block EXCEPT ![c] = Blk(x.base + n, x.size - n), ![b].size = n]
      /\ dataSize' = [dataSize EXCEPT ![c] = (dataSize[b] - n) % Words, ![b] = n]
      /\ used' = used \cup {c} /\ freeMemory' = freeMemory /\ lock' = lock
      /\ totalAllocated' = totalAllocated /\ totalUsed' = totalUsed
      /\ pc' = pc /\ buf' = buf /\ arg' = arg /\ reg' = reg
  BY DEF PartitionBuffer, Idle, totals, locals
<1>2. /\ block'[b] = [x EXCEPT !.size = n] /\ block'[c] = Blk(x.base + n, x.size - n)
      /\ \A d \in Buffers : d # b /\ d # c => block'[d] = block[d]
      /\ DOMAIN block' = Buffers
      /\ block' = [d \in Buffers |-> block'[d]]
  BY <1>0, <1>1 DEF TypeOK
<1>3. /\ block'[b].base = x.base /\ block'[b].size = n
      /\ block'[c].base = x.base + n /\ block'[c].size = x.size - n
      /\ \A d \in {b, c} : block'[d] \in [base : 0 .. MemorySize, size : 0 .. MemorySize]
  <2>1. x \in [base : 0 .. MemorySize, size : 0 .. MemorySize]
    BY <1>0 DEF TypeOK
  <2>2. /\ block'[b].base = x.base /\ block'[b].size = n
        /\ block'[b] \in [base : 0 .. MemorySize, size : 0 .. MemorySize]
    BY <1>0, <1>1, <1>2, <2>1
  <2>3. /\ block'[c].base = x.base + n /\ block'[c].size = x.size - n
        /\ block'[c] \in [base : 0 .. MemorySize, size : 0 .. MemorySize]
    BY <1>0, <1>1, <1>2 DEF Blk
  <2>. QED
    BY <2>2, <2>3
<1>4. TypeOK'
  <2>1. block' \in [Buffers -> [base : 0 .. MemorySize, size : 0 .. MemorySize]]
    BY <1>0, <1>2, <1>3 DEF TypeOK
  <2>2. dataSize' \in [Buffers -> 0 .. Words - 1]
    <3>1. dataSize[b] - n \in Int /\ Words \in Nat \ {0} /\ n \in 0 .. Words - 1
      BY <1>0, <1>1 DEF TypeOK
    <3>2. (dataSize[b] - n) % Words \in 0 .. Words - 1
      BY <3>1, Division, Zenon
    <3>. QED
      BY <1>0, <1>1, <3>1, <3>2 DEF TypeOK
  <2>. QED
    BY <1>0, <1>1, <2>1, <2>2 DEF TypeOK
<1>5. Hands'
  BY <1>0, <1>1, <1>2, <1>3 DEF Hands, TypeOK, At, Mine
<1>6. Within' /\ Aligned'
  BY <1>0, <1>1, <1>2, <1>3 DEF Within, Aligned, AlignedShrinks, Multiple
<1>7. ASSUME NEW u \in 0 .. MemorySize - 1
      PROVE  IF u \in freeMemory' THEN Owners(u)' = {}
                                  ELSE \E d \in Buffers : Owners(u)' = {d}
  <2>1. (\A d \in Buffers : Owns(d)' <=> Owns(d)) /\ Owns(b) /\ Owns(c)
    BY <1>0, <1>1, MemoryAssumption DEF Owns, Hands
  <2>2. /\ u \in Units(x) <=> x.base <= u /\ u < x.base + x.size
        /\ u \in Units(block'[b]) <=> x.base <= u /\ u < x.base + n
        /\ u \in Units(block'[c]) <=> x.base + n <= u /\ u < x.base + x.size
        /\ u \notin Units(block[c])
    <3>1. block[c].size = 0 /\ block[c].base \in Nat
      BY <1>0, <1>1 DEF Hands, TypeOK
    <3>. QED
      BY <1>0, <1>1, <1>3, <3>1 DEF Units
  <2>3. /\ u \in Units(x) <=> u \in Units(block'[b]) \/ u \in Units(block'[c])
        /\ ~(u \in Units(block'[b]) /\ u \in Units(block'[c]))
    BY <1>0, <1>1, <2>2
  <2>4. /\ \A d : d # b /\ d # c => (d \in Owners(u)' <=> d \in Owners(u))
        /\ b \in Owners(u) <=> u \in Units(x)
        /\ c \notin Owners(u)
        /\ b \in Owners(u)' <=> u \in Units(block'[b])
        /\ c \in Owners(u)' <=> u \in Units(block'[c])
    BY <1>2, <2>1, <2>2 DEF Owners
  <2>5. CASE u \in Units(x)
    <3>1. u \notin freeMemory /\ Owners(u) = {b}
      BY <1>0, <2>4, <2>5 DEF Placed
    <3>2. Owners(u)' = {b} \/ Owners(u)' = {c}
      BY <2>3, <2>4, <2>5, <3>1
    <3>. QED
      BY <1>1, <3>1, <3>2
  <2>6. CASE u \notin Units(x)
    <3>1. \A d : d \in Owners(u)' <=> d \in Owners(u)
      BY <2>3, <2>4, <2>6
    <3>2. Owners(u)' = Owners(u)
      BY <3>1
    <3>. QED
      BY <1>0, <1>1, <3>2 DEF Placed
  <2>. QED
    BY <2>5, <2>6
<1>8. Placed'
  BY <1>7 DEF Placed
<1>. QED
  BY <1>4, <1>5, <1>6, <1>8 DEF IInv

(* A block goes back to the allocator before its buffer is free.           *)
LEMMA ReleaseKeepsIInv ==
  ASSUME IInv, NEW t \in Threads, NEW b \in Buffers, ReleaseBuffer(t, b)
  PROVE  IInv'
<1> DEFINE x == block[b]
           l == IF x.size = 0 THEN "release" ELSE "subtract"
<1>0. /\ TypeOK /\ Hands /\ Within /\ Aligned /\ Placed
      /\ MemorySize \in Nat /\ None \notin Buffers
      /\ x.base \in Nat /\ x.size \in Nat /\ x.base + x.size <= MemorySize
  BY MemoryAssumption, NumbersOfBlocks DEF IInv
<1>1. /\ pc[t] = "idle" /\ b \in used /\ \A s \in Threads : buf[s] # b
      /\ freeMemory' = freeMemory \cup Units(x)
      /\ pc' = [pc EXCEPT ![t] = l] /\ buf' = [buf EXCEPT ![t] = b]
      /\ arg' = [arg EXCEPT ![t] = 0] /\ reg' = reg
      /\ used' = used /\ block' = block /\ dataSize' = dataSize /\ lock' = lock
      /\ totalAllocated' = totalAllocated /\ totalUsed' = totalUsed
  BY DEF ReleaseBuffer, Idle, At, Call, Goto, totals
<1>2. l \in {"release", "subtract"} /\ (l = "release" => x.size = 0)
      /\ (l = "subtract" <=> x.size # 0)
  OBVIOUS
<1> HIDE DEF l
<1>3. TypeOK'
  <2>1. Units(x) \subseteq 0 .. MemorySize - 1
    BY <1>0 DEF Units
  <2>2. /\ buf' \in [Threads -> Buffers \cup {None}]
        /\ arg' \in [Threads -> DataSizes \cup {0}]
        /\ pc' \in [Threads -> {"idle", "add", "add_store", "set_store", "subtract",
                         "subtract_store", "release", "release_store"}]
    BY <1>0, <1>1, <1>2 DEF TypeOK
  <2>. QED
    BY <1>0, <1>1, <2>1, <2>2 DEF TypeOK
<1>4. Hands'
  BY <1>0, <1>1, <1>2 DEF Hands, TypeOK, At, Mine
<1>5. Within' /\ Aligned'
  BY <1>0, <1>1 DEF Within, Aligned, AlignedShrinks, Multiple
<1>6. ASSUME NEW u \in 0 .. MemorySize - 1
      PROVE  IF u \in freeMemory' THEN Owners(u)' = {}
                                  ELSE \E c \in Buffers : Owners(u)' = {c}
  <2>1. /\ \A c \in Buffers : c # b => (Owns(c)' <=> Owns(c))
        /\ Owns(b) /\ (Owns(b)' <=> x.size = 0)
    BY <1>0, <1>1, <1>2 DEF Owns, TypeOK, Hands
  <2>2. x.size = 0 => Units(x) = {}
    BY <1>0, EmptyBlocks
  <2>3. /\ \A c : c # b => (c \in Owners(u)' <=> c \in Owners(u))
        /\ b \in Owners(u) <=> u \in Units(x)
        /\ b \notin Owners(u)'
    BY <1>1, <2>1, <2>2 DEF Owners
  <2>4. CASE u \in Units(x)
    <3>1. Owners(u) = {b}
      BY <1>0, <2>3, <2>4 DEF Placed
    <3>2. Owners(u)' = {}
      BY <2>3, <3>1
    <3>. QED
      BY <1>1, <2>4, <3>2
  <2>5. CASE u \notin Units(x)
    <3>1. Owners(u)' = Owners(u)
      BY <2>3, <2>5
    <3>. QED
      BY <1>0, <1>1, <2>5, <3>1 DEF Placed
  <2>. QED
    BY <2>4, <2>5
<1>7. Placed'
  BY <1>6 DEF Placed
<1>. QED
  BY <1>3, <1>4, <1>5, <1>7 DEF IInv

LEMMA ReleaseStepsKeepIInv ==
  ASSUME IInv, NEW t \in Threads, AllocatedSubtract(t) \/ ReleaseEnd(t)
  PROVE  IInv'
<1> DEFINE b == buf[t]
<1>0. /\ TypeOK /\ Hands /\ Within /\ Aligned /\ Placed
      /\ MemorySize \in Nat /\ None \notin Buffers
      /\ Words \in Nat /\ Words # 0 /\ b \in Buffers
      /\ block[b].base \in Nat /\ block[b].size \in Nat
  <2>1. TypeOK /\ Hands /\ Within /\ Aligned /\ Placed
    BY DEF IInv
  <2>2. b \in Buffers
    BY <2>1 DEF AllocatedSubtract, ReleaseEnd, TypeOK, Hands, At
  <2>. QED
    BY <2>1, <2>2, NumbersOfBlocks, MemoryAssumption
<1>1. \A i \in Int : i % Words \in 0 .. Words - 1
  <2>1. Words \in Nat \ {0}
    BY <1>0
  <2>. QED
    BY <2>1, Division, Zenon
<1>2. /\ block'[b].size = 0 /\ block'[b].base \in 0 .. MemorySize
      /\ \A c \in Buffers : c # b => block'[c] = block[c]
      /\ block' \in [Buffers -> [base : 0 .. MemorySize, size : 0 .. MemorySize]]
      /\ freeMemory' = freeMemory
  <2>1. CASE AllocatedSubtract(t)
    BY <1>0, <2>1 DEF AllocatedSubtract, TypeOK
  <2>2. CASE ReleaseEnd(t)
    BY <1>0, <2>2 DEF ReleaseEnd, TypeOK, Blk
  <2>. QED
    BY <2>1, <2>2
<1>3. ASSUME AllocatedSubtract(t) PROVE TypeOK' /\ Hands'
  <2>1. /\ pc[t] = "subtract_store" /\ pc' = [pc EXCEPT ![t] = "release"]
        /\ totalAllocated' = (reg[t] - block[b].size) % Words
        /\ used' = used /\ dataSize' = dataSize /\ totalUsed' = totalUsed
        /\ lock' = lock /\ buf' = buf /\ arg' = arg /\ reg' = reg
    BY <1>3 DEF AllocatedSubtract, At, Goto, Mine
  <2>2. totalAllocated' \in 0 .. Words - 1
    <3>1. reg[t] - block[b].size \in Int
      BY <1>0 DEF TypeOK
    <3>. QED
      BY <1>1, <2>1, <3>1
  <2>3. TypeOK'
    BY <1>0, <1>2, <2>1, <2>2 DEF TypeOK
  <2>4. Hands'
    BY <1>0, <1>2, <2>1 DEF Hands, TypeOK, At, Mine
  <2>. QED
    BY <2>3, <2>4
<1>4. ASSUME ReleaseEnd(t) PROVE TypeOK' /\ Hands'
  <2>1. /\ pc[t] = "release_store" /\ pc' = [pc EXCEPT ![t] = "idle"]
        /\ buf' = [buf EXCEPT ![t] = None] /\ arg' = [arg EXCEPT ![t] = 0]
        /\ reg' = [reg EXCEPT ![t] = 0] /\ lock' = None
        /\ totalUsed' = (reg[t] - dataSize[b]) % Words
        /\ dataSize' = [dataSize EXCEPT ![b] = 0] /\ used' = used \ {b}
        /\ totalAllocated' = totalAllocated
    BY <1>4 DEF ReleaseEnd, At, Goto, Call, Return
  <2>2. totalUsed' \in 0 .. Words - 1
    <3>1. reg[t] - dataSize[b] \in Int
      BY <1>0 DEF TypeOK
    <3>. QED
      BY <1>1, <2>1, <3>1
  <2>3. TypeOK'
    <3>1. dataSize' \in [Buffers -> 0 .. Words - 1] /\ used' \subseteq Buffers
      BY <1>0, <2>1 DEF TypeOK
    <3>. QED
      BY <1>0, <1>2, <2>1, <2>2, <3>1 DEF TypeOK
  <2>4. Hands'
    BY <1>0, <1>2, <2>1 DEF Hands, TypeOK, At, Mine
  <2>. QED
    BY <2>3, <2>4
<1>5. Within' /\ Aligned'
  <2>1. Unit \in Nat /\ Unit # 0 /\ 0 % Unit = 0
    BY MemoryAssumption
  <2>. QED
    BY <1>0, <1>2, <2>1 DEF Within, Aligned, AlignedShrinks, Multiple
<1>6. Placed'
  <2>1. Units(block'[b]) = {}
    BY <1>2, EmptyBlocks
  <2>2. Owns(b) => Units(block[b]) = {}
    <3>1. Owns(b) => block[b].size = 0
      <4>1. CASE AllocatedSubtract(t)
        BY <4>1 DEF AllocatedSubtract, Owns, At
      <4>2. CASE ReleaseEnd(t)
        BY <1>0, <4>2 DEF ReleaseEnd, Hands, At, Mine
      <4>. QED
        BY <4>1, <4>2
    <3>. QED
      BY <1>0, <3>1, EmptyBlocks
  <2>3. \A c \in Buffers : c # b => (Owns(c)' <=> Owns(c))
    <3>1. /\ \A s \in Threads : s # t => pc'[s] = pc[s] /\ buf'[s] = buf[s]
          /\ buf'[t] \in {b, None}
      BY <1>0 DEF AllocatedSubtract, ReleaseEnd, Return, Call, Goto, TypeOK
    <3>. QED
      BY <1>0, <3>1 DEF Owns
  <2>. QED
    BY <1>0, <1>2, <2>1, <2>2, <2>3, SameOwners
<1>7. TypeOK' /\ Hands'
  BY <1>3, <1>4
<1>. QED
  BY <1>5, <1>6, <1>7 DEF IInv

LEMMA NextKeepsIInv ==
  ASSUME AlignedShrinks \/ AlignedBlocks, IInv, [Next]_vars
  PROVE  IInv'
<1>1. ASSUME UNCHANGED vars PROVE IInv'
  <2>1. /\ TypeOK' /\ Hands' /\ Within' /\ Aligned' /\ Placed
        /\ freeMemory' = freeMemory /\ block' = block
        /\ \A c : Owns(c)' <=> Owns(c)
    BY <1>1 DEF IInv, TypeOK, Hands, Within, Aligned, AlignedShrinks, Multiple,
         At, Mine, Owns, vars, memory, totals, locals
  <2>. QED
    BY <2>1, SameOwners DEF IInv
<1>2. ASSUME NEW t \in Threads, NEW b \in Buffers, ClientStep(t, b) PROVE IInv'
  BY <1>2, GetKeepsIInv, QuietKeepsIInv, ShrinkKeepsIInv, ExtendKeepsIInv,
     PartitionKeepsIInv, ReleaseKeepsIInv DEF ClientStep
<1>3. ASSUME NEW t \in Threads, Step(t) PROVE IInv'
  BY <1>3, QuietKeepsIInv, ReleaseStepsKeepIInv DEF Step
<1>. QED
  BY <1>1, <1>2, <1>3 DEF Next

LEMMA IInvAlways ==
  ASSUME AlignedShrinks \/ AlignedBlocks
  PROVE  Spec => []IInv
<1>1. Init => IInv
  BY InitIsIInv
<1>2. IInv /\ [Next]_vars => IInv'
  BY NextKeepsIInv
<1>. QED
  BY <1>1, <1>2, PTL DEF Spec

(* Whatever is got, partitioned, shrunk, extended and released, by however *)
(* many threads, each unit of the memory is with one buffer or with the    *)
(* allocator.                                                              *)
THEOREM EveryUnitInOnePlace ==
  ASSUME AlignedShrinks \/ AlignedBlocks
  PROVE  Spec => []MemoryOnce
<1>1. ASSUME IInv, NEW u \in 0 .. MemorySize - 1
      PROVE  Cardinality({b \in Buffers : Owns(b) /\ u \in Units(block[b])})
               + (IF u \in freeMemory THEN 1 ELSE 0) = 1
  <2>1. /\ Cardinality({}) = 0
        /\ \A b : Cardinality({b}) = 1
    BY FS_EmptySet, FS_Singleton
  <2>2. IF u \in freeMemory THEN Owners(u) = {} ELSE \E b \in Buffers : Owners(u) = {b}
    BY <1>1 DEF IInv, Placed
  <2>3. Cardinality(Owners(u)) + (IF u \in freeMemory THEN 1 ELSE 0) = 1
    <3>1. CASE u \in freeMemory
      BY <2>1, <2>2, <3>1
    <3>2. CASE u \notin freeMemory
      <4>1. PICK b : Owners(u) = {b}
        BY <2>2, <3>2
      <4>2. Cardinality(Owners(u)) = 1
        BY <2>1, <4>1, Zenon
      <4>. QED
        BY <3>2, <4>2
    <3>. QED
      BY <3>1, <3>2
  <2>. QED
    BY <2>3 DEF Owners
<1>2. IInv => MemoryOnce
  BY <1>1 DEF MemoryOnce
<1>. QED
  BY <1>2, IInvAlways, PTL
-----------------------------------------------------------------------------
(* Sums over the buffers.  The fold takes the elements of a set in an order*)
(* that depends on the set alone, so two functions are summed in the same. *)
Total(f) == MapThenSumSet(LAMBDA b : f[b], Buffers)

Any(s) == CHOOSE x \in s : TRUE
PartOf(f, g, s) == IF s = {} THEN 0 ELSE f[Any(s)] + g[s \ {Any(s)}]
Sums(f, g) == g = [s \in SUBSET Buffers |-> PartOf(f, g, s)]

(* A set of natural numbers has a least one.                               *)
LEMMA Least ==
  ASSUME NEW S \in SUBSET Nat, S # {}
  PROVE  \E m \in S : \A j \in S : m <= j
<1> DEFINE Below == {0 .. n : n \in S}
<1>1. \A n \in S : 0 .. n \in FiniteSubsetsOf(Nat)
  BY FS_Interval DEF FiniteSubsetsOf
<1>2. Below \subseteq FiniteSubsetsOf(Nat) /\ Below # {}
  BY <1>1
<1>3. PICK I \in Below : \A J \in Below : <<J, I>> \notin StrictSubsetOrdering(Nat)
  BY <1>2, FS_StrictSubsetOrderingWellFounded, WFMin
<1>4. PICK m \in S : I = 0 .. m
  BY <1>3
<1>5. ASSUME NEW j \in S, j < m PROVE FALSE
  <2>1. /\ 0 .. j \in Below /\ 0 .. j \subseteq 0 .. m
        /\ m \in 0 .. m /\ m \notin 0 .. j
    BY <1>5
  <2>2. <<0 .. j, 0 .. m>> \in StrictSubsetOrdering(Nat)
    BY <2>1 DEF StrictSubsetOrdering
  <2>. QED
    BY <1>3, <1>4, <2>1, <2>2
<1>. QED
  BY <1>5

LEMMA SubsetsOfBuffers ==
  ASSUME IsFiniteSet(Buffers), NEW s \in SUBSET Buffers
  PROVE  /\ IsFiniteSet(s) /\ Cardinality(s) \in Nat
         /\ Cardinality(s) <= Cardinality(Buffers)
         /\ Cardinality(s) = 0 <=> s = {}
         /\ s # {} => /\ Any(s) \in s
                      /\ s \ {Any(s)} \in SUBSET Buffers
                      /\ Cardinality(s \ {Any(s)}) = Cardinality(s) - 1
<1>1. IsFiniteSet(s) /\ Cardinality(s) <= Cardinality(Buffers)
  BY FS_Subset
<1>2. Cardinality(s) \in Nat /\ (Cardinality(s) = 0 <=> s = {})
  BY <1>1, FS_CardinalityType, FS_EmptySet
<1>3. ASSUME s # {}
      PROVE  /\ Any(s) \in s
             /\ Cardinality(s \ {Any(s)}) = Cardinality(s) - 1
  <2>1. Any(s) \in s
    BY <1>3 DEF Any
  <2>. QED
    BY <1>1, <2>1, FS_RemoveElement
<1>. QED
  BY <1>1, <1>2, <1>3

(* The recursive function of the fold exists.                              *)
LEMMA SumsExist ==
  ASSUME IsFiniteSet(Buffers), NEW f
  PROVE  \E g : Sums(f, g)
<1> DEFINE Upto(g, n) == \A s \in SUBSET Buffers :
                           Cardinality(s) <= n => g[s] = PartOf(f, g, s)
           Bad == {n \in Nat : ~\E g : Upto(g, n)}
<1>1. ASSUME Bad # {} PROVE FALSE
  <2>1. PICK n \in Bad : \A j \in Bad : n <= j
    BY <1>1, Least
  <2>2. CASE n = 0
    <3> DEFINE g == [s \in SUBSET Buffers |-> 0]
    <3>1. ASSUME NEW s \in SUBSET Buffers, Cardinality(s) <= n
          PROVE  g[s] = PartOf(f, g, s)
      <4>1. Cardinality(s) \in Nat /\ (Cardinality(s) = 0 <=> s = {})
        BY SubsetsOfBuffers
      <4>2. s = {}
        BY <2>2, <3>1, <4>1
      <4>. QED
        BY <4>2 DEF PartOf
    <3>. QED
      BY <2>1, <3>1
  <2>3. CASE n # 0
    <3>1. n - 1 \in Nat /\ n - 1 \notin Bad
      BY <2>1, <2>3
    <3>2. PICK h : Upto(h, n - 1)
      BY <3>1
    <3> DEFINE g == [s \in SUBSET Buffers |-> PartOf(f, h, s)]
    <3>3. \A s \in SUBSET Buffers : Cardinality(s) <= n - 1 => g[s] = h[s]
      BY <3>2
    <3>4. ASSUME NEW s \in SUBSET Buffers, Cardinality(s) <= n
          PROVE  g[s] = PartOf(f, g, s)
      <4>1. CASE s = {}
        BY <4>1 DEF PartOf
      <4>2. CASE s # {}
        <5>1. s \ {Any(s)} \in SUBSET Buffers /\ Cardinality(s \ {Any(s)}) <= n - 1
          BY <3>4, <4>2, SubsetsOfBuffers
        <5>2. g[s \ {Any(s)}] = h[s \ {Any(s)}]
          BY <3>3, <5>1
        <5>3. g[s] = PartOf(f, h, s)
          OBVIOUS
        <5> HIDE DEF g
        <5>. QED
          BY <4>2, <5>2, <5>3 DEF PartOf
      <4>. QED
        BY <4>1, <4>2
    <3>. QED
      BY <3>4
  <2>. QED
    BY <2>2, <2>3
<1>2. Cardinality(Buffers) \in Nat
  BY SubsetsOfBuffers
<1>3. PICK h : Upto(h, Cardinality(Buffers))
  BY <1>1, <1>2
<1>4. \A s \in SUBSET Buffers : h[s] = PartOf(f, h, s)
  BY <1>3, SubsetsOfBuffers
<1> DEFINE g == [s \in SUBSET Buffers |-> h[s]]
<1>5. ASSUME NEW s \in SUBSET Buffers PROVE g[s] = PartOf(f, g, s)
  <2>1. CASE s = {}
    BY <1>4, <2>1 DEF PartOf
  <2>2. CASE s # {}
    <3>1. s \ {Any(s)} \in SUBSET Buffers
      BY <2>2
    <3>2. g[s \ {Any(s)}] = h[s \ {Any(s)}] /\ g[s] = PartOf(f, h, s)
      BY <1>4, <3>1
    <3> HIDE DEF g
    <3>. QED
      BY <2>2, <3>2 DEF PartOf
  <2>. QED
    BY <2>1, <2>2
<1>6. g = [s \in SUBSET Buffers |-> PartOf(f, g, s)]
  <2>1. g = [s \in SUBSET Buffers |-> g[s]]
    OBVIOUS
  <2> HIDE DEF g
  <2>. QED
    BY <1>5, <2>1
<1>. QED
  BY <1>6 DEF Sums

LEMMA TotalIsASum ==
  ASSUME IsFiniteSet(Buffers), NEW f
  PROVE  \E g : /\ Total(f) = g[Buffers]
                /\ \A s \in SUBSET Buffers : g[s] = PartOf(f, g, s)
<1> DEFINE g == CHOOSE h : Sums(f, h)
<1>1. Total(f) = g[Buffers]
  BY DEF Total, MapThenSumSet, MapThenFoldSet, Sums, PartOf, Any
<1>2. Sums(f, g)
  BY SumsExist
<1> HIDE DEF g
<1>3. \A s \in SUBSET Buffers : g[s] = PartOf(f, g, s)
  BY <1>2 DEF Sums
<1>. QED
  BY <1>1, <1>3

(* The sum changes by as much as one of its terms.                         *)
LEMMA TotalChanges ==
  ASSUME IsFiniteSet(Buffers), NEW f \in [Buffers -> Int], NEW h \in [Buffers -> Int],
         NEW b \in Buffers, \A c \in Buffers : c # b => h[c] = f[c]
  PROVE  Total(f) \in Int /\ Total(h) = Total(f) + (h[b] - f[b])
<1>1. PICK F : /\ Total(f) = F[Buffers]
               /\ \A s \in SUBSET Buffers : F[s] = PartOf(f, F, s)
  BY TotalIsASum
<1>2. PICK H : /\ Total(h) = H[Buffers]
               /\ \A s \in SUBSET Buffers : H[s] = PartOf(h, H, s)
  BY TotalIsASum
<1> DEFINE d(s) == IF b \in s THEN h[b] - f[b] ELSE 0
           Good(s) == F[s] \in Int /\ H[s] = F[s] + d(s)
           Bad == {n \in Nat : \E s \in SUBSET Buffers : Cardinality(s) = n /\ ~Good(s)}
<1>3. ASSUME Bad # {} PROVE FALSE
  <2>1. PICK n \in Bad : \A j \in Bad : n <= j
    BY <1>3, Least
  <2>2. PICK s \in SUBSET Buffers : Cardinality(s) = n /\ ~Good(s)
    BY <2>1
  <2>3. CASE s = {}
    <3>1. F[s] = 0 /\ H[s] = 0 /\ d(s) = 0
      BY <1>1, <1>2, <2>3 DEF PartOf
    <3>. QED
      BY <2>2, <3>1
  <2>4. CASE s # {}
    <3> DEFINE a == Any(s)
               r == s \ {a}
    <3>1. /\ a \in s /\ a \in Buffers /\ r \in SUBSET Buffers
          /\ Cardinality(r) = n - 1 /\ n - 1 \in Nat
      <4>1. /\ Cardinality(s) \in Nat /\ (Cardinality(s) = 0 <=> s = {})
            /\ Any(s) \in s /\ s \ {Any(s)} \in SUBSET Buffers
            /\ Cardinality(s \ {Any(s)}) = Cardinality(s) - 1
        BY <2>4, SubsetsOfBuffers
      <4>. QED
        BY <2>2, <2>4, <4>1
    <3>2. n - 1 \notin Bad
      BY <2>1, <3>1
    <3>3. F[r] \in Int /\ H[r] = F[r] + d(r)
      BY <3>1, <3>2
    <3>4. F[s] = f[a] + F[r] /\ H[s] = h[a] + H[r]
      BY <1>1, <1>2, <2>4 DEF PartOf
    <3>5. b \in r <=> b \in s /\ a # b
      OBVIOUS
    <3> HIDE DEF a, r
    <3>6. f[a] \in Int /\ h[a] \in Int /\ h[b] \in Int /\ f[b] \in Int
      BY <3>1
    <3>7. CASE a = b
      <4>1. d(s) = h[b] - f[b] /\ d(r) = 0
        BY <3>1, <3>5, <3>7
      <4> HIDE DEF d
      <4>. QED
        BY <2>2, <3>3, <3>4, <3>6, <3>7, <4>1
    <3>8. CASE a # b
      <4>1. h[a] = f[a] /\ d(s) = d(r) /\ d(r) \in Int
        BY <3>1, <3>5, <3>6, <3>8
      <4> HIDE DEF d
      <4>. QED
        BY <2>2, <3>3, <3>4, <3>6, <4>1
    <3>. QED
      BY <3>7, <3>8
  <2>. QED
    BY <2>3, <2>4
<1>4. Good(Buffers)
  <2>1. Cardinality(Buffers) \in Nat
    BY SubsetsOfBuffers
  <2>. QED
    BY <1>3, <2>1
<1>. QED
  BY <1>1, <1>2, <1>4

LEMMA NothingAdded ==
  ASSUME IsFiniteSet(Buffers), NEW f \in [Buffers -> Int],
         \A b \in Buffers : f[b] = 0
  PROVE  Total(f) = 0
<1>1. PICK F : /\ Total(f) = F[Buffers]
               /\ \A s \in SUBSET Buffers : F[s] = PartOf(f, F, s)
  BY TotalIsASum
<1> DEFINE Bad == {n \in Nat : \E s \in SUBSET Buffers : Cardinality(s) = n /\ F[s] # 0}
<1>2. ASSUME Bad # {} PROVE FALSE
  <2>1. PICK n \in Bad : \A j \in Bad : n <= j
    BY <1>2, Least
  <2>2. PICK s \in SUBSET Buffers : Cardinality(s) = n /\ F[s] # 0
    BY <2>1
  <2>3. s # {}
    BY <1>1, <2>2 DEF PartOf
  <2> DEFINE r == s \ {Any(s)}
  <2>4. /\ Any(s) \in Buffers /\ r \in SUBSET Buffers
        /\ Cardinality(r) = n - 1 /\ n - 1 \in Nat
    BY <2>2, <2>3, SubsetsOfBuffers
  <2>5. n - 1 \notin Bad
    BY <2>1, <2>4
  <2>6. F[r] = 0
    BY <2>4, <2>5
  <2>7. F[s] = f[Any(s)] + F[r]
    BY <1>1, <2>3 DEF PartOf
  <2>. QED
    BY <2>2, <2>4, <2>6, <2>7
<1>3. Cardinality(Buffers) \in Nat
  BY SubsetsOfBuffers
<1>. QED
  BY <1>1, <1>2, <1>3
-----------------------------------------------------------------------------
(* Arithmetic modulo the width of an unsigned int.                         *)
LEMMA SameRemainder ==
  ASSUME NEW x \in Int, NEW y \in Int, NEW q \in Int, x = y + Words * q
  PROVE  x % Words = y % Words
<1> DEFINE j == x \div Words
           k == y \div Words
           r == x % Words
           e == y % Words
<1>0. Words \in Nat \ {0}
  BY MemoryAssumption
<1>1. /\ j \in Int /\ r \in 0 .. Words - 1 /\ x = Words * j + r
      /\ k \in Int /\ e \in 0 .. Words - 1 /\ y = Words * k + e
  BY <1>0, Division
<1> HIDE DEF j, k, r, e
<1>2. /\ Words * (k + q) = Words * k + Words * q
      /\ Words * k \in Int /\ Words * q \in Int /\ Words * j \in Int
  BY <1>0, <1>1
<1> DEFINE m == k + q
<1>3. m \in Int /\ x = Words * m + e /\ Words * m \in Int
  BY <1>1, <1>2
<1> HIDE DEF m
<1>4. Words * (j + 1) = Words * j + Words /\ Words * (m + 1) = Words * m + Words
  BY <1>0, <1>1, <1>3, ProductsKeepOrder
<1>5. Words * j < Words * (m + 1) /\ Words * m < Words * (j + 1)
  BY <1>0, <1>1, <1>2, <1>3, <1>4
<1>6. j <= m /\ m <= j
  BY <1>0, <1>1, <1>3, <1>5, ProductsKeepOrder
<1>7. r = e
  <2>1. j = m
    BY <1>1, <1>3, <1>6
  <2>2. x = Words * j + e
    BY <1>3, <2>1
  <2> DEFINE w == Words * j
  <2>3. w \in Int /\ x = w + r /\ x = w + e
    BY <1>1, <1>2, <2>2
  <2> HIDE DEF w
  <2>. QED
    BY <1>0, <1>1, <2>3
<1>8. x % Words = r /\ y % Words = e
  BY Zenon DEF r, e
<1>. QED
  BY <1>7, <1>8, Zenon

LEMMA RemainderLast ==
  ASSUME NEW a \in Int, NEW b \in Int
  PROVE  ((a % Words) + b) % Words = (a + b) % Words
<1> DEFINE k == a \div Words
           r == a % Words
<1>0. Words \in Nat \ {0}
  BY MemoryAssumption
<1>1. k \in Int /\ r \in 0 .. Words - 1 /\ a = Words * k + r
  BY <1>0, Division
<1> HIDE DEF k, r
<1>2. Words * k \in Int
  BY <1>0, <1>1
<1> DEFINE x == a + b
           y == r + b
<1>3. x \in Int /\ y \in Int /\ x = y + Words * k
  BY <1>1, <1>2
<1> HIDE DEF x, y
<1>4. x % Words = y % Words
  BY <1>1, <1>3, SameRemainder
<1>. QED
  BY <1>4 DEF x, y, r
-----------------------------------------------------------------------------
(* The totals are changed without a lock that all take: with two threads   *)
(* a store can lose the other's.  With one thread, what it has read is what*)
(* the total is.  A free buffer has no data, so that getting it and taking *)
(* it for a second partition start from nothing.                           *)
OneThread == \A s, t \in Threads : s = t

UsedInv ==
  /\ \A t \in Threads : At(t, "set_store") \/ At(t, "release_store") =>
       reg[t] = totalUsed
  /\ \A b \in Buffers \ used : dataSize[b] = 0
  /\ totalUsed = Total(dataSize) % Words

LEMMA UsedTypes ==
  ASSUME TypeOK
  PROVE  /\ Words \in Nat /\ Words # 0
         /\ dataSize \in [Buffers -> Int] /\ totalUsed \in Int
         /\ \A t \in Threads : reg[t] \in Int /\ arg[t] \in Nat
<1>1. Words \in Nat /\ Words # 0 /\ DataSizes \subseteq Nat
  BY MemoryAssumption
<1>2. 0 .. Words - 1 \subseteq Int /\ DataSizes \cup {0} \subseteq Nat
  BY <1>1
<1>3. dataSize \in [Buffers -> Int] /\ totalUsed \in Int
  BY <1>2 DEF TypeOK
<1>4. \A t \in Threads : reg[t] \in Int /\ arg[t] \in Nat
  BY <1>2 DEF TypeOK
<1>. QED
  BY <1>1, <1>3, <1>4

LEMMA InitIsUsedInv ==
  ASSUME IsFiniteSet(Buffers), Init
  PROVE  UsedInv
<1>1. dataSize \in [Buffers -> Int] /\ \A b \in Buffers : dataSize[b] = 0
  BY DEF Init
<1>2. Total(dataSize) = 0
  BY <1>1, NothingAdded
<1>3. 0 % Words = 0
  BY MemoryAssumption
<1>. QED
  BY <1>1, <1>2, <1>3 DEF Init, UsedInv, At

(* The data of one buffer changes, and the total by as much.               *)
LEMMA OneBufferChanges ==
  ASSUME IsFiniteSet(Buffers), TypeOK, UsedInv,
         NEW b \in Buffers, NEW n \in Int,
         dataSize' = [dataSize EXCEPT ![b] = n],
         totalUsed' = (totalUsed - dataSize[b] + n) % Words
  PROVE  totalUsed' = Total(dataSize') % Words
<1>1. /\ dataSize \in [Buffers -> Int] /\ dataSize' \in [Buffers -> Int]
      /\ \A c \in Buffers : c # b => dataSize'[c] = dataSize[c]
      /\ dataSize'[b] = n /\ dataSize[b] \in Int
  BY UsedTypes
<1> DEFINE f == dataSize
           g == dataSize'
<1>2. Total(f) \in Int /\ Total(g) = Total(f) + (n - f[b])
  <2>1. /\ f \in [Buffers -> Int] /\ g \in [Buffers -> Int] /\ g[b] = n
        /\ \A c \in Buffers : c # b => g[c] = f[c]
    BY <1>1
  <2> HIDE DEF f, g
  <2>. QED
    BY <2>1, TotalChanges
<1> DEFINE a == Total(f)
           x == n - f[b]
<1>3. a \in Int /\ x \in Int /\ Total(g) = a + x
  BY <1>1, <1>2
<1>4. totalUsed = a % Words /\ a % Words \in Int
  BY UsedTypes DEF UsedInv
<1>5. totalUsed - dataSize[b] + n = totalUsed + x
  BY <1>1, UsedTypes
<1> HIDE DEF a, x
<1>6. ((a % Words) + x) % Words = (a + x) % Words
  BY <1>3, RemainderLast
<1>. QED
  BY <1>3, <1>4, <1>5, <1>6

(* A partition takes the second buffer's data off the first: modulo Words, *)
(* whatever the sign, the total stays.                                     *)
LEMMA PartitionKeepsTotal ==
  ASSUME IsFiniteSet(Buffers), TypeOK, UsedInv,
         NEW b \in Buffers, NEW c \in Buffers, b # c, dataSize[c] = 0, NEW n \in Nat,
         dataSize' = [dataSize EXCEPT ![c] = (dataSize[b] - n) % Words, ![b] = n]
  PROVE  Total(dataSize') % Words = Total(dataSize) % Words
<1> DEFINE x == dataSize[b] - n
           k == x \div Words
           r == x % Words
<1>0. Words \in Nat \ {0}
  BY MemoryAssumption
<1>1. dataSize \in [Buffers -> Int] /\ dataSize[b] \in Int /\ x \in Int
  BY UsedTypes
<1>2. k \in Int /\ r \in 0 .. Words - 1 /\ x = Words * k + r
  <2> HIDE DEF x
  <2>. QED
    BY <1>0, <1>1, Division
<1> DEFINE f == dataSize
           g == [dataSize EXCEPT ![c] = r]
           h == dataSize'
<1>3. /\ f \in [Buffers -> Int] /\ g \in [Buffers -> Int] /\ h \in [Buffers -> Int]
      /\ \A a \in Buffers : a # c => g[a] = f[a]
      /\ \A a \in Buffers : a # b => h[a] = g[a]
      /\ f[c] = 0 /\ g[c] = r /\ g[b] = f[b] /\ h[b] = n /\ f[b] \in Int
  <2> HIDE DEF k
  <2>1. r \in Int /\ h = [dataSize EXCEPT ![c] = r, ![b] = n]
    BY <1>2
  <2> HIDE DEF r
  <2>. QED
    BY <1>1, <2>1
<1> HIDE DEF k, r, f, g, h
<1>4. Total(f) \in Int /\ Total(g) = Total(f) + (r - 0)
  BY <1>3, TotalChanges
<1>5. Total(g) \in Int /\ Total(h) = Total(g) + (n - f[b])
  BY <1>3, TotalChanges
<1>6. f[b] = x + n
  BY <1>1 DEF f
<1> DEFINE p == Total(f)
           s == Total(h)
           w == Words * k
<1>7. w \in Int /\ w = Words * k
  BY <1>0, <1>2
<1>8. p \in Int /\ s \in Int /\ p = s + w
  <2> HIDE DEF x, w
  <2>. QED
    BY <1>1, <1>2, <1>3, <1>4, <1>5, <1>6, <1>7
<1> HIDE DEF p, s, w
<1>9. p % Words = s % Words
  BY <1>2, <1>7, <1>8, SameRemainder
<1>. QED
  BY <1>9 DEF p, s, f, h

LEMMA NextKeepsUsedInv ==
  ASSUME OneThread, IsFiniteSet(Buffers), IInv, UsedInv, [Next]_vars
  PROVE  UsedInv'
<1>0. TypeOK /\ Hands
  BY DEF IInv
<1>1. ASSUME UNCHANGED <<dataSize, totalUsed>>, Buffers \ used' \subseteq Buffers \ used,
             \A t \in Threads : At(t, "set_store")' \/ At(t, "release_store")' =>
               reg'[t] = totalUsed'
      PROVE  UsedInv'
  BY <1>1 DEF UsedInv
<1>2. ASSUME UNCHANGED vars PROVE UsedInv'
  BY <1>2 DEF UsedInv, vars, memory, totals, locals, At
<1>3. ASSUME NEW t \in Threads, NEW b \in Buffers, ClientStep(t, b) PROVE UsedInv'
  <2>1. \A s \in Threads : s = t
    BY DEF OneThread
  <2>2. ASSUME NEW n \in Requests, NEW l \in LowerBounds, GetBuffer(t, b, n, l)
        PROVE  UsedInv'
    <3>1. dataSize' = dataSize
      BY <1>0, <2>2 DEF GetBuffer, UsedInv, TypeOK
    <3>2. /\ used' = used \cup {b} /\ totalUsed' = totalUsed
          /\ pc' = [pc EXCEPT ![t] = "add"]
      BY <2>2 DEF GetBuffer, Call, Goto, totals
    <3>3. pc'[t] = "add"
      BY <1>0, <3>2 DEF TypeOK
    <3>. QED
      BY <1>1, <2>1, <3>1, <3>2, <3>3 DEF At
  <2>3. ASSUME NEW n \in DataSizes, SetUsedDataSize(t, b, n) PROVE UsedInv'
    <3>1. reg'[t] = totalUsed /\ UNCHANGED <<dataSize, totalUsed, used>>
      BY <1>0, <2>3 DEF SetUsedDataSize, memory, totals, TypeOK
    <3>. QED
      BY <1>1, <2>1, <3>1
  <2>4. ASSUME \/ \E n \in Shrinks : ShrinkBuffer(t, b, n)
               \/ \E up \in Extends : ExtendBuffer(t, b, up)
        PROVE  UsedInv'
    <3>1. UNCHANGED <<dataSize, totalUsed, used, pc, reg>>
      BY <2>4 DEF ShrinkBuffer, ExtendBuffer, totals, locals
    <3>. QED
      BY <3>1 DEF UsedInv, At
  <2>5. ASSUME NEW n \in Leaves, NEW c \in Buffers, PartitionBuffer(t, b, c, n)
        PROVE  UsedInv'
    <3>1. /\ b \in used /\ c \in Buffers \ used /\ n \in Nat /\ dataSize[c] = 0
          /\ dataSize' = [dataSize EXCEPT ![c] = (dataSize[b] - n) % Words, ![b] = n]
          /\ used' = used \cup {c} /\ UNCHANGED <<totalUsed, pc, reg>>
      BY <2>5, MemoryAssumption DEF PartitionBuffer, Idle, totals, locals, UsedInv
    <3>2. Total(dataSize') % Words = Total(dataSize) % Words
      BY <1>0, <3>1, PartitionKeepsTotal
    <3>3. \A a \in Buffers \ used' : dataSize'[a] = 0
      BY <1>0, <3>1 DEF UsedInv, TypeOK
    <3>. QED
      BY <3>1, <3>2, <3>3 DEF UsedInv, At
  <2>6. ASSUME ReleaseBuffer(t, b) PROVE UsedInv'
    <3>1. /\ UNCHANGED <<dataSize, totalUsed, used, reg>>
          /\ pc' = [pc EXCEPT ![t] = IF block[b].size = 0 THEN "release" ELSE "subtract"]
      BY <2>6 DEF ReleaseBuffer, Call, Goto, totals
    <3>2. pc'[t] \in {"release", "subtract"}
      BY <1>0, <3>1 DEF TypeOK
    <3>. QED
      BY <1>1, <2>1, <3>1, <3>2 DEF At
  <2>. QED
    BY <1>3, <2>2, <2>3, <2>4, <2>5, <2>6 DEF ClientStep
<1>4. ASSUME NEW t \in Threads, Step(t) PROVE UsedInv'
  <2>1. \A s \in Threads : s = t
    BY DEF OneThread
  <2>2. /\ pc \in [Threads -> {"idle", "add", "add_store", "set_store", "subtract",
                               "subtract_store", "release", "release_store"}]
        /\ reg \in [Threads -> 0 .. Words - 1]
    BY <1>0 DEF TypeOK
  <2>3. CASE AllocatedLoad(t)
    <3>1. /\ UNCHANGED <<dataSize, totalUsed, used>>
          /\ pc'[t] \in {"add_store", "subtract_store"}
      BY <2>2, <2>3 DEF AllocatedLoad, Goto, memory, totals
    <3>. QED
      BY <1>1, <2>1, <3>1 DEF At
  <2>4. CASE AllocatedAdd(t)
    <3>1. /\ UNCHANGED <<dataSize, totalUsed, used>>
          /\ pc'[t] = "idle"
      BY <2>2, <2>4 DEF AllocatedAdd, Return, Call, Goto, memory
    <3>. QED
      BY <1>1, <2>1, <3>1 DEF At
  <2>5. CASE AllocatedSubtract(t)
    <3>1. /\ UNCHANGED <<dataSize, totalUsed, used>>
          /\ pc'[t] = "release"
      BY <2>2, <2>5 DEF AllocatedSubtract, Goto
    <3>. QED
      BY <1>1, <2>1, <3>1 DEF At
  <2>6. CASE UsedLoad(t)
    <3>1. /\ UNCHANGED <<dataSize, totalUsed, used>>
          /\ reg'[t] = totalUsed
      BY <2>2, <2>6 DEF UsedLoad, memory, totals
    <3>. QED
      BY <1>1, <2>1, <3>1
  <2>7. ASSUME At(t, "set_store") \/ At(t, "release_store")
        PROVE  /\ buf[t] \in Buffers /\ buf[t] \in used /\ reg[t] = totalUsed
               /\ dataSize[buf[t]] \in Int /\ totalUsed \in Int
               /\ arg[t] \in Nat
    <3>1. buf[t] \in used
      BY <1>0, <2>7 DEF Hands, At
    <3>2. buf[t] \in Buffers
      BY <1>0, <3>1 DEF TypeOK
    <3>. QED
      BY <1>0, <2>7, <3>1, <3>2, UsedTypes DEF UsedInv
  <2>8. CASE SetUsedStore(t)
    <3>1. /\ At(t, "set_store") /\ used' = used
          /\ totalUsed' = (reg[t] - dataSize[buf[t]] + arg[t]) % Words
          /\ dataSize' = [dataSize EXCEPT ![buf[t]] = arg[t]]
          /\ pc'[t] = "idle"
      BY <2>2, <2>8 DEF SetUsedStore, Return, Call, Goto
    <3>2. totalUsed' = Total(dataSize') % Words
      <4> DEFINE c == buf[t]
                 n == arg[t]
      <4>1. c \in Buffers /\ n \in Int
        BY <2>7, <3>1
      <4>2. /\ totalUsed' = (totalUsed - dataSize[c] + n) % Words
            /\ dataSize' = [dataSize EXCEPT ![c] = n]
        BY <2>7, <3>1
      <4> HIDE DEF c, n
      <4>. QED
        BY <1>0, <4>1, <4>2, OneBufferChanges
    <3>3. \A a \in Buffers \ used' : dataSize'[a] = 0
      BY <1>0, <2>7, <3>1 DEF UsedInv, TypeOK
    <3>. QED
      BY <2>1, <3>1, <3>2, <3>3 DEF UsedInv, At
  <2>9. CASE ReleaseEnd(t)
    <3>1. /\ At(t, "release_store") /\ used' = used \ {buf[t]}
          /\ totalUsed' = (reg[t] - dataSize[buf[t]]) % Words
          /\ dataSize' = [dataSize EXCEPT ![buf[t]] = 0]
          /\ pc'[t] = "idle"
      BY <2>2, <2>9 DEF ReleaseEnd, Return, Call, Goto
    <3>2. totalUsed - dataSize[buf[t]] + 0 = reg[t] - dataSize[buf[t]]
      BY <2>7, <3>1
    <3>3. totalUsed' = Total(dataSize') % Words
      <4> DEFINE c == buf[t]
      <4>1. c \in Buffers /\ 0 \in Int
        BY <2>7, <3>1
      <4>2. /\ totalUsed' = (totalUsed - dataSize[c] + 0) % Words
            /\ dataSize' = [dataSize EXCEPT ![c] = 0]
        BY <3>1, <3>2
      <4> HIDE DEF c
      <4>. QED
        BY <1>0, <4>1, <4>2, OneBufferChanges
    <3>4. \A a \in Buffers \ used' : dataSize'[a] = 0
      BY <1>0, <2>7, <3>1 DEF UsedInv, TypeOK
    <3>. QED
      BY <2>1, <3>1, <3>3, <3>4 DEF UsedInv, At
  <2>. QED
    BY <1>4, <2>3, <2>4, <2>5, <2>6, <2>8, <2>9 DEF Step
<1>. QED
  BY <1>2, <1>3, <1>4 DEF Next

(* Types, also of the totals, which wrap.                                  *)
THEOREM TypeCorrect ==
  ASSUME AlignedShrinks \/ AlignedBlocks
  PROVE  Spec => []TypeOK
<1>1. IInv => TypeOK
  BY DEF IInv
<1>. QED
  BY <1>1, IInvAlways, PTL

(* While one process at a time uses the pool, TotalUsedMemory is the sum of*)
(* the data sizes whenever no call is under way, also after a partition has*)
(* made one of them wrap below zero.                                       *)
THEOREM OneThreadKeepsTheTotal ==
  ASSUME OneThread, IsFiniteSet(Buffers), AlignedShrinks \/ AlignedBlocks
  PROVE  Spec => []UsedAgrees
<1>1. Init => UsedInv
  BY InitIsUsedInv
<1>2. IInv /\ UsedInv /\ [Next]_vars => UsedInv'
  BY NextKeepsUsedInv
<1>3. UsedInv => UsedAgrees
  BY DEF UsedInv, UsedAgrees, Total
<1>. QED
  BY <1>1, <1>2, <1>3, IInvAlways, PTL DEF Spec
=============================================================================
