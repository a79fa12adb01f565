SPECIFICATION Spec
CONSTANTS
  Refs = {1, 2}
  Prices <- FourPrices
  PRICE_MAX = 4
  SHARES_MAX = 3
  NoOrder = NoOrder
  NoLevel = NoLevel
  Events <- AddEvents
  StrayOps = {"REDUCE", "DELETE"}
  Hash <- OwnBucket
  SLOTS = 1
  CAM_DEPTH = 1
  DEPTH = 4
  OWN_BASE = 1
  BasePrices = {1}
  CHUNK = 2
  SHARES_MOD = 8
  MIN_ENTRY_GAP = 4
  BUSY_DEPTH = 8
  Streams <- RawStreams
  Bubble = Bubble
  NoEvent = NoEvent
  NoEntry = NoEntry
  NoBbo = NoBbo
  NoWrite = NoWrite
INVARIANTS
  LevelsAgree
