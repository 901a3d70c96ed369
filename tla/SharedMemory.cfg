SPECIFICATION FairSpec
CONSTANTS
  Threads = {main, putter}
  Managers = {original, copy}
  Original = original
  Names = {n1, n2}
  Keys = {shm}
  Fds <- TwoDescriptors
  Addresses = {a1, a2}
  Sizes = {2, 3}
  Offsets = {0, 1}
  OtherSize = 4
  MaxCalls = 3
  MaxOthers = 2
  None = None
INVARIANTS EntriesOwnMappings DescriptorsKept HandlesUsable
PROPERTIES CallsReturn
CHECK_DEADLOCK FALSE
