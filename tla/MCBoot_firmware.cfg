\* Counters of 3 and 5 bits for 24 and 32, polled at most 5 ticks apart.
CONSTANTS
  PageSize = 4
  Header = 3
  MadtHeader = 4
  SizeT = 256
  IRQ = 1
  Firmwares <- MCFirmwares
  Mask = 8
  Wraps = {8, 32}
  Targets = {0, 1, 3}
  MaxDelay = 5
  PageBytes = 8
  Block = 4
  NameMax = 3
  Digits = 2
  Responses <- MCResponses
  Paths <- MCPaths
SPECIFICATION Spec
INVARIANTS TypeOK AccessMapped RightTables ControllersFound OverrideUsed CalibrationRight
  FilesRight ModulesMapped GetFindsFirst
PROPERTY BootEnds
\* Start-up ends.
CHECK_DEADLOCK FALSE
