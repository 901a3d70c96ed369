SPECIFICATION Spec
CONSTANTS
  ByteSize = 10
  MetricSize = 2
  MappedSize = 12
  Sizes = {3}
  Pixels <- BlankPixels
  Prefetch = 2
  MaxFrames = 4
  DrainedAtWrap = FALSE
  Mortal = {}
INVARIANT InRegion
CHECK_DEADLOCK FALSE
