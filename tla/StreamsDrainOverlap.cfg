SPECIFICATION Spec
CONSTANTS
  None = None
  MaxFrames = 1
  MaxCalls = 2
  RingSize = 2
  TableSize = 2
  DecodeBuffers = 2
  Patient = FALSE
  Still = TRUE
CHECK_DEADLOCK FALSE
INVARIANT DrainedMeansPassed
