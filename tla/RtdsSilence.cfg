SPECIFICATION FairSpec
CONSTANTS
  LastTick = 2
  MaxBatch = 1
  MaxBuffer = 2
  MaxSkew = 2
  Boundaries = {2}
PROPERTIES
  SilenceEnds
