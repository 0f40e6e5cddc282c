SPECIFICATION Spec
CONSTANTS
  Modes = {"repl", "program"}
  Names = {"f", "g", "v"}
  Parameters <- MCParameters
  Blocks <- MCBlocks
  MaxSubs = 2
  Weight <- MCWeight
  MaxSize = 10
  MaxScope = 3
  RetSlots = 2
  ArgRegs = 1
  Few = 1
  InitialCap = 8
INVARIANTS
  TypeOK
  NamesFound
  InStep
  GlobalsApart
  FramesHold
  LinesFound
PROPERTIES KeepsSubroutines GoesOn
CHECK_DEADLOCK FALSE
