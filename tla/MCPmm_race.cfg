\* FreePage on one CPU may overlap AllocatePage on another.
CONSTANTS
  CPUs = {c1, c2}
  HHDM = 3
  MemMap <- MCMemMap
SPECIFICATION Spec
INVARIANT NoDoubleUse
CHECK_DEADLOCK FALSE
