SPECIFICATION Spec
CONSTANTS
  Up = Up
  Down = Down
  NoSide = NoSide
  NoQuote = NoQuote
  One = 4
  Theo <- MCTheo
  Quote <- MCQuote
  LastBucket = 2
  InitialCash = 18
  MaxLoss = 18
  MaxCash = 18
  Spend = 12
  MinSpend = 4
  FeeNum = 1
  FeeDen = 2
  FeeTick = 2
  Entry = 1
  CloseSlack = 0
  AskMin = 2
  AskMax = 3
  StopNum = 2
  StopDen = 5
  Times <- Late
  Window = TRUE
  Persist = TRUE
  Latency = FALSE
  ForceSell = FALSE
INVARIANTS
  PositionInBucket
  CashFloor
PROPERTIES
  EdgeHeldBeforeBuy
