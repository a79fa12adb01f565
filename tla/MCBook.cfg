SPECIFICATION FairSpec
CONSTANTS
  Refs = {1, 2, 3, 4, 5, 6, 7, 8}
  Prices <- EightPrices
  PRICE_MAX = 8
  SHARES_MAX = 3
  NoOrder = NoOrder
  NoLevel = NoLevel
  Events <- BookEvents
  StrayOps = {"REDUCE", "DELETE"}
  Hash <- Shared
  SLOTS = 2
  CAM_DEPTH = 4
  DEPTH = 8
  OWN_BASE = 1
  BasePrices = {1}
  CHUNK = 2
  SHARES_MOD = 8
  MIN_ENTRY_GAP = 4
  BUSY_DEPTH = 8
  Streams <- BookStreams
  Bubble = Bubble
  NoEvent = NoEvent
  NoEntry = NoEntry
  NoBbo = NoBbo
  NoWrite = NoWrite
INVARIANTS
  TypeOK
  OrdersStored
  LevelsAgree
  OneCopy
  AnswersSpaced
PROPERTIES
  AnswersInOrder
  EverythingAnswered
