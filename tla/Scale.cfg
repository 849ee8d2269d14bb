SPECIFICATION FairSpec
CONSTANTS
  DebounceCount = 3
  WakeThreshold = 20
  SleepThreshold = 10
  SaneLimit = 1000
  NaN = NaN
  Weights <- MCWeights
  Bits = 3
  CalSamples = 3
  KnownWeight = 60
  Infinity = 1000
INVARIANT TypeOK
PROPERTIES
  ImplementsDetector
  WakesUnderLoad
  SleepsOnceEmptied
  CalibratedAtBothPoints
  EventsMatchLoad
