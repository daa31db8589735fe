\* Two CPUs, FreePage never overlapping AllocatePage.
CONSTANTS
  CPUs = {c1, c2}
  HHDM = 3
  MemMap <- MCMemMap
SPECIFICATION FairSerialSpec
INVARIANTS TypeOK NoDoubleUse NoLeak MutualExclusion
PROPERTIES KeepsPromise LockReturned
\* An exhausted allocator halts the CPU inside the lock and stops the rest.
CHECK_DEADLOCK FALSE
