\* Two concurrent calls and a Prepared that may cross two engines: e1 has both
\* rules and both sinks, e2 has neither rules nor sinks.  A rule changes its
\* mind between two evaluations.
SPECIFICATION Spec
CONSTANTS
  c1 = c1  c2 = c2  e1 = e1  e2 = e2  r1 = r1  r2 = r2  s1 = s1  s2 = s2
  batch = batch  empty = empty  broken = broken
  Calls = {c1, c2}
  Engines = {e1, e2}
  Rules <- FullAndBareEngine
  MetricsOn = {e1}
  LoggerOn = {e1}
  Inputs = {batch, broken}
  Malformed = {broken}
  Statements = {s1}
  StatementSequence <- OneInput
  RuleIDs = {r1, r2}
  Stateful <- OneStateful
  NoRule = NoRule
  NoPrepared = NoPrepared
SYMMETRY CallSymmetry
INVARIANTS
  TypeOK
  AllowedMeansFullyChecked
  FirstViolation
  OneTerminalEvent
  CancellationPrecedence
  AtMostOneLateRule
  DecisionIsFresh
PROPERTY ImplementsContract
CHECK_DEADLOCK FALSE
