SPECIFICATION FairSpec
CONSTANTS
  MaxCalls = 3
  MaxDaemons = 2
  Kind = {"place_order", "balance", "get_order"}
INVARIANTS
  TypeOK
  DeadForGood
PROPERTIES
  ImplementsOrderCalls
  CallsReturn
  OrphansEnd
CHECK_DEADLOCK FALSE
