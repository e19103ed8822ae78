SPECIFICATION Spec
CONSTANTS
  i1 = i1
  i2 = i2
  e1 = e1
  e2 = e2
  v1 = v1
  v2 = v2
  v3 = v3
  None = None
  Inserters <- OneInserter
  Extractors <- TwoExtractors
  Values <- ThreeValues
  MaxEntries = 2
  Periods = {"none", "finite"}
PROPERTIES
  RingIsFifo
