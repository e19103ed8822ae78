SPECIFICATION FairSpec
CONSTANTS
  s1 = s1
  s2 = s2
  g1 = g1
  w1 = w1
  k1 = k1
  k2 = k2
  None = None
  Signallers <- OneSignaller
  Getters <- OneGetter
  Watchers <- OneWatcher
  Kinds <- TwoKinds
  Criteria <- OneAndAll
  MaxOutstanding = 2
  MaxSignals = 2
  Quiet = TRUE
INVARIANTS
  ListIsChain
  NoLostSignal
PROPERTIES
  EventsAreAQueue
  GetterEnds
  LifeEndsGet
