SPECIFICATION FairSpec
CONSTANTS
  t1 = t1
  t2 = t2
  t3 = t3
  None = None
  Threads <- ThreeThreads
  Allocators <- Allocating
  Freers <- Freeing
  Deleters <- Deleting
  Sizes <- SmallSizes
  BufferSize = 6
  PhysicalAddress = 13
  Boundary = 4
  MaxBlocks = 3
INVARIANTS
  EachUnitOnce
  CrossesNoBoundary
  Coalesced
PROPERTIES
  AllocateEnds
  DeleteEnds
CHECK_DEADLOCK FALSE
