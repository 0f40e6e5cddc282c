SPECIFICATION FairSpec
CONSTANTS
  InitialCap = 208
  HeaderSize = 32
  Alignment = 16
  AllocSizes <- MCAllocSizes
  ReallocSizes <- MCReallocSizes
  CoalesceOnFree = TRUE
INVARIANTS
  TypeOK
  Tiled
  BusyIsHeld
  Fits
  RefusedForCause
PROPERTIES
  CallsReturn
  ImplementsPool
CHECK_DEADLOCK FALSE
