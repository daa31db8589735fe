\* One override leads to the source of another.
CONSTANTS
  PageSize = 4
  Header = 3
  MadtHeader = 4
  SizeT = 256
  IRQ = 1
  Firmwares <- ChainFirmwares
  Mask = 8
  Wraps = {8}
  Targets = {1}
  MaxDelay = 1
  PageBytes = 8
  Block = 4
  NameMax = 3
  Digits = 2
  Responses = {}
  Paths = {}
SPECIFICATION Spec
INVARIANT OverrideUsed
CHECK_DEADLOCK FALSE
