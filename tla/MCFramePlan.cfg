SPECIFICATION Spec
CONSTANTS
  FrameSamples = 3
  FramesPerFile = 2
  IntLimit = 16
  Recordings <- SomeRecordings
  Asked <- SomeAsked
INVARIANTS
  ReadsTheRequest
  ChannelHoldsBand
