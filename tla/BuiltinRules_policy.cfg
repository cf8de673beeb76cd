\* Every order of up to two rules on every batch of up to two commands.
SPECIFICATION Spec
CONSTANTS
  MaxBatch = 2
  MaxRules = 2
INVARIANT VerdictIsPolicy
CHECK_DEADLOCK FALSE
