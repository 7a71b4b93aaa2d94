SPECIFICATION Spec
CONSTANTS
  b1 = b1
  b2 = b2
  Cap = 4
  Mod = 8
  Data <- MCData
  Chunks <- MCChunks
INVARIANTS
  TypeOK
  NoDataRace
PROPERTY
  ImplementsFifo
