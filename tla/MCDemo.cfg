SPECIFICATION FairAppSpec
CONSTANTS
  Refs = {"r1", "r2", "r3"}
  Prices <- MCPrices
  PRICE_MAX = 230
  SHARES_MAX = 3
  NoOrder = NoOrder
  NoLevel = NoLevel
  Symbols = {"aapl", "msft"}
  NoMismatch = NoMismatch
  BasePrice <- MCBasePrice
  WINDOW = 2
  PRICE_UNIT = 10
  Messages <- MCMessages
  Scenarios <- DemoScenarios
  COUNTER_MOD = 4
  NoBook = NoBook
  NoPlan = NoPlan
  NoSnapshot = NoSnapshot
INVARIANTS
  OneReplay
  PassIsEarned
  SnapshotCoherent
  MirrorTracksBoard
  NeverWaitsInVain
  CounterNeverSurprises
  HonestBoardPasses
  VerdictExact
  LossesCounted
PROPERTIES
  PageCatchesUp
  RunEnds
CHECK_DEADLOCK FALSE
