SPECIFICATION Spec
CONSTANTS
  Sessions <- MCSessions
  Texts <- MCTexts
  Garbage <- MCGarbage
  Half = 4
  Small = 2
INVARIANTS
  TypeOK
  TokensAsWritten
  Exact
PROPERTIES
  KeepsOthers
  ScanEnds
CHECK_DEADLOCK FALSE
