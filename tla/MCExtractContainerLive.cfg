SPECIFICATION FairSpec
CONSTANTS
  e1 = e1
  w1 = w1
  w2 = w2
  Extracts <- MCExtracts
  Watches <- OneWatch
  Unsound = {}
PROPERTIES
  CommandReturns
  EndedJobsLeave
