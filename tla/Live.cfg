SPECIFICATION FairSpec
CONSTANTS
  LastBucket = 2
  MaxShares = 3
  Attempts = 2
  ForceSell = TRUE
INVARIANTS
  TypeOK
  Reconciled
  ProceedsEarned
PROPERTIES
  RetryEndsWithPosition
  StopSaleFinishes
