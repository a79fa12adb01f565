SPECIFICATION MCSpec
CONSTANTS
  Locates = {1, 2, 9}
  Stocks = {1, 2}
  BasePrice <- MCBasePrice
  WINDOW = 2
  Events <- MCEvents
  NoEvent = NoEvent
  NoStock = NoStock
  Items <- MCItems
  ADDR_W = 2
  NoItem = NoEvent
  Stream <- MCStream
INVARIANTS
  RegisterHoldsWhatIsOwed
PROPERTIES
  TakesItsOwn
  SourceServed
  FifoIsAQueue
