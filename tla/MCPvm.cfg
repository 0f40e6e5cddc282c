SPECIFICATION FairSpec
CONSTANTS
  Code <- MCCode
  Entries <- MCEntries
  Height <- MCHeight
  Unentered <- U
  MaxHeight = 2
  StackSize = 8
  RetStackSize = 3
INVARIANTS
  TypeOK
  SizeLeftIsRight
  SpTracksFrame
  StaysInStack
PROPERTIES
  ReturnsToCaller
  Halts
CHECK_DEADLOCK FALSE
