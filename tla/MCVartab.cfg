SPECIFICATION Spec
CONSTANTS
  a = a
  b = b
  c = c
  d = d
  Names <- MCNames
  HashOf <- MCHashOf
  Entries = {1, 2}
  InitialCap = 4
  MaxCap = 16
  Tombstone = Tombstone
  NoName = NoName
INVARIANTS
  TypeOK
  CountIsUsedSlots
  LookupsAgree
  EntriesSurvive
