SPECIFICATION FairSpec
CONSTANTS
  Workers = {w1, w2}
  Ends <- ThreeMessages
  HeaderLen = 2
  SplitHeaders = TRUE
  AllocFails = TRUE
  Garbage = {1, 4}
  Limit = 3
INVARIANTS FramingKept NoLostWakeup OvertakingBounded NothingLost
PROPERTIES MessagesArrive
CHECK_DEADLOCK FALSE
