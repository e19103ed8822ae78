SPECIFICATION FairSpec
CONSTANTS
  None = None
  MaxFrames = 2
  MaxCalls = 2
  RingSize = 2
  TableSize = 2
  DecodeBuffers = 2
  Patient = TRUE
  Still = TRUE
CHECK_DEADLOCK FALSE
INVARIANTS
  DrainedMeansPassed
  BehindMarkerIsKept
  ResetOnTime
  OldPartsUnused
PROPERTIES
  PartsMatch
  DrainEnds
  FrameLeaves
