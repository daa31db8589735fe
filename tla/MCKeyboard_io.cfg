\* Keys are pressed while start-up ends.
CONSTANTS
  MaxPresses = 3
  Machines <- MCMachines
  OtherCores = {"core1", "core2"}
SPECIFICATION FairSpec
INVARIANTS RebootOnRequest
PROPERTIES KeysServed RebootAnswered StartupEnds
\* The system stops when the machine has been reset.
CHECK_DEADLOCK FALSE
