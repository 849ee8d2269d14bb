SPECIFICATION FairSpec
CONSTANTS
  MaxRetries = 2
  MaxDrops = 2
  MaxLeases = 2
INVARIANTS TypeOK MadeBeforeUse BitFollowsAssociation NeverGivesUp JoinsOnlyFound
PROPERTIES BootCompletes EventsHandled TimeoutMeansUnset
           LaterSntpStartsHarmless LaterManagerStartsHarmless
