SPECIFICATION Spec
CONSTANTS
  STOCKS = 3
  FIFO_DEPTH = 2
  SPACING = 4
  Bbos = {up, down}
  NoBbo = NoBbo
SYMMETRY BboSymmetry
INVARIANTS
  FifoHoldsWhatIsOwed
  ServedWithinARound
PROPERTIES
  PublishesOldest
