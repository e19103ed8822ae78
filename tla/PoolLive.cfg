SPECIFICATION FairSpec
CONSTANTS
  frames = frames
  params = params
  f1 = f1
  f2 = f2
  p1 = p1
  p2 = p2
  t1 = t1
  t2 = t2
  t3 = t3
  h1 = h1
  h2 = h2
  h3 = h3
  None = None
  Threads <- TwoThreads
  Pools <- TwoPools
  Buffers <- FrameAndParameter
  PoolOf <- PoolOfBuffers
  Attachable <- ParametersToFrames
  Transient <- ParamsPool
  Aborted <- FramesPool
  Getters <- OneGetsEach
  Holders <- TwoHolders
  Modes <- Blocking
  MaxAttached = 1
INVARIANTS
  ReleaseWakesGetter
PROPERTIES
  GetEnds
  AbortEndsGet
  DecrementEnds
