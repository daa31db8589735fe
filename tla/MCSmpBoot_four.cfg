\* The four cores of the Makefile's QEMUFLAGS.
CONSTANTS
  CoreCount = 4
  Bsp = 0
SPECIFICATION FairSpec
INVARIANTS TypeOK BarrierSafe TimersCalibrated
PROPERTY CoresComeOnline
\* Start-up ends with every core halted, or in a panic.
CHECK_DEADLOCK FALSE
