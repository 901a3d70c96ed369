SPECIFICATION Spec
CONSTANTS
  ByteSize = 8
  MetricSize = 2
  MappedSize = 8
  Sizes = {1, 2, 4}
  Pixels <- TwoPixels
  Prefetch = 2
  MaxFrames = 7
  DrainedAtWrap = FALSE
  Mortal = {"streamer", "handler"}
INVARIANTS LockDiscipline CountNeverOverReports RearIntact OrderPreserved JoinProtects
CHECK_DEADLOCK FALSE
