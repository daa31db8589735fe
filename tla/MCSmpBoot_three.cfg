\* Two increments of CoresInitialized may overlap.
CONSTANTS
  CoreCount = 3
  Bsp = 0
SPECIFICATION FairSpec
PROPERTY BarrierOpens
CHECK_DEADLOCK FALSE
