SPECIFICATION FairSpec
CONSTANTS
  DebounceCount = 3
  WakeThreshold = 20
  SleepThreshold = 10
  SaneLimit = 1000
  NaN = NaN
  Weights <- MCWeights
  QueueLen = 2
  MaxSamples = 9
  MaxGets = 2
INVARIANTS
  TypeOK
  FreshAndInOrder
PROPERTIES
  ImplementsStream
  EventsApart
  EveryReadingLeaves
