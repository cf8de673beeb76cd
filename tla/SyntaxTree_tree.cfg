\* Every text of up to four statements, and every walk of each of its statements.
SPECIFICATION Spec
CONSTANTS
  MaxStatements = 4
  MaxDistinct = 1
  MaxWalks = 1
INVARIANTS
  ParsedIsWhole
  SequenceIsDeclarationOrder
  WalkIsPreOrder
CHECK_DEADLOCK FALSE
