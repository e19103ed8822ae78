SPECIFICATION FairSpec
CONSTANTS
  i1 = i1
  i2 = i2
  e1 = e1
  e2 = e2
  v1 = v1
  v2 = v2
  v3 = v3
  None = None
  Inserters <- TwoInserters
  Extractors <- OneExtractor
  Values <- TwoValues
  MaxEntries = 2
  Periods = {"none", "finite", "infinite"}
INVARIANTS
  NoLostWakeup
  NonEmptyIsAPromise
PROPERTIES
  WaitEnds
