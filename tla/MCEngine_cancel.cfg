\* What the engine's specification says of cancellation "during" validation.
SPECIFICATION Spec
CONSTANTS
  c1 = c1  c2 = c2  e1 = e1  e2 = e2  r1 = r1  r2 = r2  s1 = s1  s2 = s2
  batch = batch  empty = empty  broken = broken
  Calls = {c1}
  Engines = {e1}
  Rules <- OneEngine
  MetricsOn = {e1}
  LoggerOn = {e1}
  Inputs = {batch, empty, broken}
  Malformed = {broken}
  Statements = {s1, s2}
  StatementSequence <- TwoInputs
  RuleIDs = {r1, r2}
  Stateful <- OneStateful
  NoRule = NoRule
  NoPrepared = NoPrepared
INVARIANT CanceledValidationStops
CHECK_DEADLOCK FALSE
