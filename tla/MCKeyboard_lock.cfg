\* The reset register is in memory and start-up maps a page of a module.
CONSTANTS
  MaxPresses = 4
  Machines <- MMIOModule
  OtherCores = {"core1"}
SPECIFICATION FairSpec
PROPERTY RebootAnswered
CHECK_DEADLOCK FALSE
