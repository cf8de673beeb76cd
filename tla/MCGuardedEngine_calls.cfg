\* Two guarded calls, each through either wrapper, of one engine, with an input
\* that parses or one that does not; what one call caches the other may hit.
SPECIFICATION GuardFairSpec
CONSTANTS
  g1 = g1  g2 = g2  e1 = e1  r1 = r1  s1 = s1
  batch = batch  broken = broken
  Guarded = {g1, g2}
  Calls <- EngineCalls
  Engines = {e1}
  Validator = e1
  Rules <- OneEngine
  MetricsOn = {e1}
  LoggerOn = {}
  Inputs = {batch, broken}
  Malformed = {broken}
  Oversized = {}
  Capacity = 1
  Statements = {s1}
  StatementSequence <- OneInput
  RuleIDs = {r1}
  Stateful <- OneStateful
  NoRule = NoRule
  NoPrepared = NoPrepared
INVARIANTS
  DelegatedMeansFullyChecked
  OneEventPerGuardedCall
  CancellationStopsDelegation
PROPERTIES
  EveryGuardedCallReturns
CHECK_DEADLOCK FALSE
