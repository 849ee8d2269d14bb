SPECIFICATION Spec
CONSTANTS
  MaxRetries = 2
  MaxDrops = 1
  MaxLeases = 1
INVARIANT ConnectedMeansAddress
