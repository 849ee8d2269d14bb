SPECIFICATION FairSpec
CONSTANTS
  Capacity = 2
  ClockPeriod = 4
  MaxCrashes = 0
  MaxFailures = 1
PROPERTY KeepsLogging
