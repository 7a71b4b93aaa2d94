SPECIFICATION Spec
CONSTANTS
  FrameSamples = 131072
  Delay = 30
  Decirates = {1, 64, 128, 2048, 4096, 8192, 16384}
  MaxBlocks = 8
INVARIANT
  PairsAligned
