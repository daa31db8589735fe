\* Two cores log, panic and take exceptions.
CONSTANTS
  Cores = {bsp, ap}
  Boot = bsp
  Splash <- MCSplash
  Texts <- MCTexts
  Report <- MCReport
  MaxCalls = 1
SPECIFICATION FairSpec
INVARIANTS TextsWhole SerialFollows ReportsApart
PROPERTIES KeepsPromise CallsReturn
\* Cores stop: idle with their calls made, or halted by a panic.
CHECK_DEADLOCK FALSE
