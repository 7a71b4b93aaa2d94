SPECIFICATION Spec
CONSTANTS
  FrameUnits = 2
  RingCap = 6
  FramesPerFile = 2
  Batch = 2
  FirstOffset = 1
  Wanted = 3
  Files = 3
  Jobs <- ExtractJobs
INVARIANT
  JoinedOnce
