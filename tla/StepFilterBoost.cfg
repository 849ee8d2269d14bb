SPECIFICATION SFSpec
CONSTANTS
  Q_min = 0
  Q_max = 1
  R_min = 1
  R_max = 2
  threshold = 2
  Q_init = 1
  R_init = 1
  BoostedQ = 4
  NormalQ = 1
  MaWindows = {1, 3}
  BoostSamples = 5
  StepThreshold = 7
  Raw = {0, 6, 12}
  CalmLimit = 6
INVARIANT
  BoostIsTransient
