SPECIFICATION Spec
CONSTANTS
  a = a
  b = b
  c = c
  d = d
  Names <- MCNames
  HashOf <- MCHashOf
  Entries = {1}
  InitialCap = 4
  MaxCap = 8
  Tombstone = Tombstone
  NoName = NoName
INVARIANTS
  FindReturnsTheEntry
