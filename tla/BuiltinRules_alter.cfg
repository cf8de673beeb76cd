\* What the specification of the rules says of ALTER TABLE.
SPECIFICATION Spec
CONSTANTS
  MaxBatch = 1
  MaxRules = 1
INVARIANT EveryAlterTableDenied
CHECK_DEADLOCK FALSE
