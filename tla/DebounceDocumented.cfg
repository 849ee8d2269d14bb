SPECIFICATION WMSpec
CONSTANTS
  DebounceCount = 3
  WakeThreshold = 20
  SleepThreshold = 10
  SaneLimit = 1000
  NaN = NaN
  Weights <- MCWeights
PROPERTIES
  DebouncedAsDocumented
