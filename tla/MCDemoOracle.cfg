SPECIFICATION AppSpec
CONSTANTS
  Refs = {"r1", "r2", "r3"}
  Prices <- MCPrices
  PRICE_MAX = 230
  SHARES_MAX = 3
  NoOrder = NoOrder
  NoLevel = NoLevel
  Symbols = {"aapl", "msft"}
  NoMismatch = NoMismatch
  BasePrice <- MCBasePrice
  WINDOW = 2
  PRICE_UNIT = 10
  Messages <- OracleMessages
  Scenarios <- BelowScenarios
  COUNTER_MOD = 4
  NoBook = NoBook
  NoPlan = NoPlan
  NoSnapshot = NoSnapshot
INVARIANT
  OracleMatchesBoard
CHECK_DEADLOCK FALSE
