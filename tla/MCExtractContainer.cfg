SPECIFICATION Spec
CONSTANTS
  e1 = e1
  w1 = w1
  w2 = w2
  Extracts <- MCExtracts
  Watches <- MCWatches
  Unsound <- OneUnsound
INVARIANTS
  TypeOK
  WatchGone
  FinishedDeleteIsFinal
  SoundUseSurvives
  ListedUnlessCompleting
PROPERTY
  ErasedWhenEnded
