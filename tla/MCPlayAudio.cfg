SPECIFICATION FairSpec
CONSTANTS
  MaxJobs = 3
  BasePort = 8554
  Unsound = {3}
INVARIANTS
  TypeOK
  RunnerHasConduit
  PortsDistinct
  QuietlyClean
PROPERTY StopReturns
CHECK_DEADLOCK FALSE
