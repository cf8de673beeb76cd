\* What the documentation of Walk says.
SPECIFICATION Spec
CONSTANTS
  MaxStatements = 2
  MaxDistinct = 1
  MaxWalks = 1
INVARIANT WalkVisitsDescendants
CHECK_DEADLOCK FALSE
