SPECIFICATION FairSpec
CONSTANTS
  MaxMonitors = 2
  MaxGotIps = 2
  MaxFailures = 3
INVARIANTS TypeOK AttemptsAreSignalled OneRestartPerFailure
