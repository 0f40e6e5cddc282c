SPECIFICATION Spec
CONSTANTS
  InitialCap = 208
  HeaderSize = 32
  Alignment = 16
  AllocSizes <- MCAllocSizes
  ReallocSizes <- MCReallocSizes
  CoalesceOnFree = TRUE
INVARIANTS
  ActsLikeRealloc
CHECK_DEADLOCK FALSE
