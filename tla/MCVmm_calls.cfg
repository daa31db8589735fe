\* A handler maps pages in the middle of start-up's calls.
CONSTANTS
  N = 2
  FrameSeq <- MCFrames
  HHDM = 8
  KernelSlide = 13
  Main = main
  Contexts = {main, irq}
  MemMap <- MCMemMap
  CallsOf <- MCCallsOf
SPECIFICATION Spec
INVARIANTS TablesAreATree MapsAsAsked DirectMapStays
PROPERTY KeepsPromise
\* With no frame left a context dies in AllocatePage.
CHECK_DEADLOCK FALSE
