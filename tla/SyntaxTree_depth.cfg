\* What the engine's specification says of CTE nesting.
SPECIFICATION Spec
CONSTANTS
  MaxStatements = 3
  MaxDistinct = 1
  MaxWalks = 1
INVARIANT EveryCTEPresented
CHECK_DEADLOCK FALSE
