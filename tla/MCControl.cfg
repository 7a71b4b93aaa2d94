SPECIFICATION FairSpec
CONSTANTS
  Sessions = 2
  Requests <- SomeRequests
  Pieces = 2
  ReadMax = 2
  SendRoom = 1
  Wrap = 2
  MaxFiles = 1
INVARIANTS
  TypeOK
  ExecutedOnce
  IdsDistinct
  ShortAnswersIntact
PROPERTIES
  Answered
  SignalObeyed
