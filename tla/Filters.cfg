SPECIFICATION FiltersSpec
CONSTANTS
  Q_min = 0
  Q_max = 1
  R_min = 1
  R_max = 2
  threshold = 1
  Q_init = 1
  R_init = 1
  BoostedQ = 4
  NormalQ = 1
  MaWindows = {1,3}
  BoostSamples = 2
  StepThreshold = 3
  Raw = {0, 4}
  CalmLimit = 0
  Clients = {other}
  MedianMin = 3
  MedianMax = 5
  MedianIncrease = 2
  BandLow = 0
  BandHigh = 2
  Size = 3
  Values = {0, 1, 3}
INVARIANTS
  TypeOK
  OutputInRange
  OneReader
  MedianRejectsStray
  MATypeOK
  SumIsExact
PROPERTIES
  StepReachesOutput
  MutexGivenBack
  ImplementsWindow
