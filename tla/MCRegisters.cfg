SPECIFICATION Spec
CONSTANTS
  RegCount = 8
  ArgRegs = 1
  ArgCounts <- MCArgCounts
  Banks = {"int", "flt"}
  Places = {"local", "literal"}
  SpillTable = 1
  FrameTop = 2
  StackWords = 75
  MaxTodo = 4
  MaxDisorderly = 2
INVARIANTS
  TypeOK
  OperandsHold
PROPERTIES
  SpComesBack
CHECK_DEADLOCK FALSE
