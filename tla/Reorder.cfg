SPECIFICATION ReorderFairSpec
CONSTANTS
  InvalidIndex = InvalidIndex
  MaxFrames = 7
  MaxBreaks = 1
  BreakCost = 2
  MaxParsed = 2
  DecodeContextCount = 2
  NumberOfDecodeBuffers = 4
  Working = 2
  Limit = 16
  DiscardedFrames = 1
  PlaysOut = FALSE
  DropsReferences = FALSE
CHECK_DEADLOCK FALSE
INVARIANTS
  CallsWait
PROPERTIES
  InDisplayOrder
  DecodeGoesOn
  MarkerLeaves
