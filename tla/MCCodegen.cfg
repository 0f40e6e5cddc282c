SPECIFICATION Spec
CONSTANTS
  Conditions <- MCConditions
  Cost <- MCCost
  Weight <- MCWeight
  MaxSize = 9
  MaxArms = 2
  MaxBreaks = 2
  Reach = 8
INVARIANTS
  TypeOK
  PatchesBranches
  InStep
  EmitsWhatRuns
  BranchesLand
  BreaksOfPending
PROPERTY StepsOn
CHECK_DEADLOCK FALSE
