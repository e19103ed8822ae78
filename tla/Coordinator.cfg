SPECIFICATION FairSpec
CONSTANTS
  a1 = a1
  v1 = v1
  Streams <- TwoStreams
  MaxSynchronizeWaits = 2
  FollowBy = 1
  Deltas <- Back
  MaxJumps = 2
  Windowed <- OneStream
  Prompt = TRUE
INVARIANTS
  
  WindowWaitAborted
PROPERTIES
  StartsTogether
  SynchronizeEnds
  JumpIsSettled
