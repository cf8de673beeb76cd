\* A service that is not valid UTF-8 is accepted by prometheus.New.
SPECIFICATION Spec
CONSTANTS
  m1 = m1  m2 = m2
  Metrics = {m1}
  Loggers = {"l1"}
  Configs <- RawConfigs
  Handlers = {"handler"}
  InvalidNames = {"bad-name"}
  NotUTF8 = {"raw"}
  Engines = {"e1"}
  Rules = {"p"}
  NilRules = {}
  RuleLists <- OneList
  IDs <- ValidIDs
  maxRuleIDLength = 2
  MaxRenames = 0
  MaxReports = 2
INVARIANT EveryValidationIsCounted
CHECK_DEADLOCK FALSE
