SPECIFICATION Spec
CONSTANTS
  InitialCap = 208
  HeaderSize = 32
  Alignment = 16
  AllocSizes <- MCAllocSizes
  ReallocSizes <- MCOddReallocSizes
  CoalesceOnFree = TRUE
INVARIANTS
  SplitNodeIsNotFreed
CHECK_DEADLOCK FALSE
