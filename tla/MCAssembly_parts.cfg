\* Two metrics adapters, a logger, an engine and both wrappers, in every order
\* and with every error ignored; a rule may change its identifier once.
SPECIFICATION Spec
SYMMETRY MetricsSymmetry
CONSTANTS
  m1 = m1  m2 = m2
  Metrics = {m1, m2}
  Loggers = {"l1"}
  Configs <- SomeConfigs
  Handlers = {"nil", "no handler", "handler"}
  InvalidNames = {"bad-name"}
  NotUTF8 = {"raw"}
  Engines = {"e1"}
  Rules = {"p", "q"}
  NilRules = {"nil rule", "nil pointer rule"}
  RuleLists <- SomeLists
  IDs <- SomeIDs
  maxRuleIDLength = 2
  MaxRenames = 1
  MaxReports = 2
INVARIANTS
  BuiltOnlyOnBuilt
  EngineIsSound
  CountsAreExact
  SeriesAreBounded
  NoOrphanCollectors
  ValidationsReachTheHandler
CHECK_DEADLOCK FALSE
