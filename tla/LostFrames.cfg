SPECIFICATION Spec
CONSTANTS
  ByteSize = 9
  MetricSize = 2
  MappedSize = 12
  Sizes = {3}
  Pixels <- BlankPixels
  Prefetch = 2
  MaxFrames = 8
  DrainedAtWrap = FALSE
  Mortal = {}
INVARIANT Fifo
CHECK_DEADLOCK FALSE
