SPECIFICATION Spec
CONSTANTS
  MaxJobs = 2
  BasePort = 8554
  Unsound = {}
INVARIANT SourceAlive
CHECK_DEADLOCK FALSE
