SPECIFICATION SerialSpec
CONSTANTS
  CPUs = {1}
  MemTop = 17
  PageWords = 16
  PageSeq <- OnePage
  InitPages = 1
  Expand = 1
  Sizes = {1, 2}
INVARIANTS HeaderRight
CHECK_DEADLOCK FALSE
