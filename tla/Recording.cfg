SPECIFICATION FairSpec
CONSTANTS
  Feed = {"up", "down"}
  LastBucket = 1
  Price = {1}
  MaxEvents = 2
  MaxQueue = 1
INVARIANTS
  TypeOK
  NothingLost
  RowsNearTheirMarket
  ViewOfBucket
  LastQuoteStored
PROPERTIES
  SubscribedAgain
  ExitReached
CHECK_DEADLOCK FALSE
