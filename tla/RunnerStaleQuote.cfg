SPECIFICATION RunnerSpec
CONSTANTS
  Up = Up
  Down = Down
  NoSide = NoSide
  NoQuote = NoQuote
  One = 4
  Theo <- MCTheo
  Quote <- OnePrice
  LastBucket = 2
  Times <- WholeBuckets
  MaxQueue = 2
  Workers = 1
  SpotWorkers = 1
  Chainlink = FALSE
  Strikes = {TRUE}
  InitialCash = 24
  MaxLoss = 100
  MaxCash = 24
  Spend = 12
  MinSpend = 4
  FeeNum = 0
  FeeDen = 1
  FeeTick = 1
  Entry = 1
  CloseSlack = 0
  AskMin = 2
  AskMax = 3
  StopNum = 1
  StopDen = 1
  Window = FALSE
  Persist = FALSE
  Latency = FALSE
  ForceSell = TRUE
PROPERTIES
  BoughtAtOwnQuote
