SPECIFICATION Spec
CONSTANTS
  Code <- MCCode
  Entries <- MCEntries
  Height <- MCHeight
  Unentered <- U
  MaxHeight = 2
  StackSize = 8
  RetStackSize = 3
INVARIANTS
  GlobalExitEnds
CHECK_DEADLOCK FALSE
