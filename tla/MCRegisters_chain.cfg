SPECIFICATION Spec
CONSTANTS
  RegCount = 8
  ArgRegs = 1
  ArgCounts <- MCArgCounts
  Banks = {"int"}
  Places = {"local"}
  SpillTable = 1
  FrameTop = 2
  StackWords = 75
  MaxTodo = 4
  MaxDisorderly = 4
INVARIANTS
  ResultsAreKept
CHECK_DEADLOCK FALSE
