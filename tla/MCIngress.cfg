SPECIFICATION IngressSpec
CONSTANTS
  MaxSeq = 6
  MaxCount = 3
  COUNT_EOS = 65535
  Packets <- MCPackets
  ClearInputs = {TRUE, FALSE}
  SupportedTypes <- Supported
  LEN_FIFO_DEPTH = 2
  NoFrame = NoFrame
  Feeds <- MCFeeds
INVARIANTS
  NoSilentLoss
  GapRegistersTrue
  EventsAreMessages
  LengthsCoverBytes
  AllAccountedFor
PROPERTIES
  FeedSpec
  ClearNeverHidesGap
  FeedConsumed
