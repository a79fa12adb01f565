SPECIFICATION MCSpec
CONSTANTS
  Refs = {r1, r2, r3}
  Prices = {1, 2, 3}
  Quantities = {0, 1, 2}
  PRICE_MAX = 3
  SHARES_MAX = 5
  NoOrder = NoOrder
  NoLevel = NoLevel
  None = None
  Stocks = {"A", "B"}
  Locates = {1, 2}
  Captures <- AllCaptures
  Options <- AllOptions
  LOCATE = 1
  BASE = 2
  OFFSET = 1
  STEP = 1
  Lots = {2}
  MESSAGES_MAX = 4
SYMMETRY RefSymmetry
INVARIANTS
  TypeOK
  LevelsMatchOrders
  BboIsBest
  DecreaseNeverFails
  FilesOfARun
  FeedIsValid
PROPERTIES
  RaiseMutatesNothing
