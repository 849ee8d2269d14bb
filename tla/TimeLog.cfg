SPECIFICATION FairSpec
CONSTANTS
  Capacity = 2
  ClockPeriod = 5
  MaxCrashes = 2
  MaxFailures = 2
INVARIANT TypeOK
PROPERTIES LostOnlyWhenExcused RecoversUnlessBare
