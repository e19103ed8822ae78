SPECIFICATION Spec
CONSTANTS
  frames = frames
  params = params
  f1 = f1
  f2 = f2
  p1 = p1
  p2 = p2
  t1 = t1
  t2 = t2
  t3 = t3
  h1 = h1
  h2 = h2
  h3 = h3
  None = None
  Threads <- TwoThreads
  Pools <- TwoPools
  Buffers <- FrameAndTwoParameters
  PoolOf <- PoolOfBuffers
  Attachable <- ParametersToFrames
  Transient <- NoPool
  Aborted <- FramesPool
  Getters <- EveryoneGets
  Holders <- ThreeHolders
  Modes <- BothModes
  MaxAttached = 2
SYMMETRY ThreadAndHolderSymmetry
INVARIANTS
  CountsReferences
  
