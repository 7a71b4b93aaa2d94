SPECIFICATION Spec
CONSTANTS
  Levels <- MCLevels
  Threshold = 1
  HoldTime = 3
  ContinueTime = 2
  PerSecond = 2
  MaxBatches = 7
INVARIANTS
  TypeOK
  NamesDistinct
  SavedOnce
  PeakCovers
  DurationBounded
  NoSignalLost
