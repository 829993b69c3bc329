SPECIFICATION FairSpec
CONSTANTS
  LastTick = 4
  MaxBatch = 2
  MaxBuffer = 2
  MaxSkew = 1
  Boundaries = {2}
INVARIANTS
  TypeOK
  StrikeIsFirst
  GuardedWhileStarted
PROPERTIES
  SilenceEndsUnlessBlind
  StrikeReturns
