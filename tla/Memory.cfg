SPECIFICATION Spec
CONSTANTS
  t1 = t1
  t2 = t2
  d1 = d1
  d2 = d2
  d3 = d3
  None = None
  Threads <- OneThread
  Buffers <- ThreeBuffers
  MemorySize = 4
  Unit = 2
  Words = 8
  Requests <- OneAndFour
  LowerBounds <- Either
  DataSizes <- ZeroAndThree
  Shrinks <- ZeroAndTwo
  Leaves <- OneToThree
  Extends <- Either
SYMMETRY BufferSymmetry
INVARIANTS
  MemoryOnce
  UsedAgrees
