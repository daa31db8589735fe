SPECIFICATION FairSerialSpec
CONSTANTS
  CPUs = {1, 2}
  MemTop = 15
  PageWords = 4
  PageSeq <- ThreePages
  InitPages = 1
  Expand = 2
  Sizes = {2, 4}
INVARIANTS BlocksApart Conserved HeaderRight ContentsKept GrowthNeeded
PROPERTIES KeepsPromise SearchEnds
CHECK_DEADLOCK FALSE
