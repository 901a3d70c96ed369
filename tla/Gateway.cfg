SPECIFICATION FairSpec
CONSTANTS
  Workers = {w1, w2}
  Ends <- FourSmall
  HeaderLen = 1
  SplitHeaders = FALSE
  AllocFails = FALSE
  Garbage = {}
  Limit = 1
  FrameRate = 2
  FrameSizes = {vga}
  None = None
  MaxFrames = 4
INVARIANTS ShownInOrder
PROPERTIES MessagesShown
CHECK_DEADLOCK FALSE
