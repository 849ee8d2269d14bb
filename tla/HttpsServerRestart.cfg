SPECIFICATION FairSpec
CONSTANTS
  MaxMonitors = 2
  MaxGotIps = 1
  MaxFailures = 2
PROPERTY RestartedAfterFailure
