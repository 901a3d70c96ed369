SPECIFICATION FairSpec
CONSTANTS
  FrameRate = 3
  FrameSizes = {vga, hd}
  MaxFrames = 12
  MaxRestarts = 2
  None = None
INVARIANTS PlaylistInOrder FramesAccounted FollowerServed
PROPERTIES SegmentsKept BatchesListed
CHECK_DEADLOCK FALSE
