SPECIFICATION FairSpec
CONSTANTS
  ByteSize = 9
  MetricSize = 2
  MappedSize = 12
  Sizes = {2, 3, 5}
  Pixels <- TwoPixels
  Prefetch = 2
  MaxFrames = 6
  DrainedAtWrap = TRUE
  Mortal = {}
INVARIANTS UnreadIntact CountExact
PROPERTIES ImplementsChannel EnqueueReturns
CHECK_DEADLOCK FALSE
