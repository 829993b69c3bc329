SPECIFICATION Spec
CONSTANTS
  Up = Up
  Down = Down
  NoSide = NoSide
  NoQuote = NoQuote
  One = 4
  Theo <- MCTheo
  Quote <- MCQuote
  LastBucket = 2
  InitialCash = 24
  MaxLoss = 11
  MaxCash = 30
  Spend = 12
  MinSpend = 4
  FeeNum = 1
  FeeDen = 2
  FeeTick = 2
  Entry = 1
  CloseSlack = 0
  AskMin = 2
  AskMax = 3
  StopNum = 2
  StopDen = 5
  Times <- AnyTime
  Window = FALSE
  Persist = TRUE
  Latency = TRUE
  ForceSell = TRUE
INVARIANTS
  TypeOK
  PendingConsistent
  DrawdownBounded
PROPERTIES
  StopLossExits
  ImplementsAccount
