------------------------------ MODULE Assembly ------------------------------
(***************************************************************************)
(* How an application puts the library together: the adapters, NewEngine   *)
(* with its rules and sinks, and NewGuardedDB of both wrappers, followed   *)
(* by validations that report to the sinks. The application may ignore any *)
(* constructor's error and hand on the nil pointer that came with it, and  *)
(* a rule may answer ID() differently from one call to the next.           *)
(*                                                                         *)
(* A rule identifier is the sequence of the classes of its bytes: "alnum", *)
(* "sep" (dot, dash, underscore) and "other", with an index that tells two *)
(* identifiers apart.                                                      *)
(***************************************************************************)
EXTENDS Adapters, FiniteSets

CONSTANTS
  Engines,          \* the application's *Engine variables
  Rules,            \* its rules
  NilRules,         \* rule arguments that are nil or hold a nil pointer
  RuleLists,        \* argument lists of NewEngine, of Rules and NilRules
  IDs,              \* what ID() may answer
  maxRuleIDLength,  \* 64 in the code
  MaxRenames,       \* bound: changes of a rule's identifier
  MaxReports        \* bound: validations

\* Variables of different types, finitely many engines.
ASSUME VariablesAssumption ==
  /\ IsFiniteSet(Engines) /\ Metrics \cap Loggers = {}
  /\ Engines \cap (Metrics \cup Loggers) = {}
  /\ {"nil", "pool", "no pool"} \cap (Engines \cup Metrics \cup Loggers) = {}
ASSUME RulesAssumption == RuleLists \subseteq Seq(Rules \cup NilRules)
ASSUME IDsAssumption == IDs \subseteq Seq({"alnum", "sep", "other"} \X Nat)
ASSUME BoundsAssumption ==
  maxRuleIDLength \in Nat /\ MaxRenames \in Nat /\ MaxReports \in Nat

VARIABLES
  id,        \* what each rule's ID() answers now
  renames,   \* changes so far
  engine,    \* Engines -> progress and result of NewEngine
  guard,     \* what its GuardedDB variable holds
  reports    \* history: the events of completed validations, per engine

assemblyVars == <<id, renames, engine, guard, reports>>
vars == <<adapterVars, assemblyVars>>

NoID == << >>

NilEngine == [state |-> "nil", metrics |-> "nil", logger |-> "nil",
              rules |-> << >>, ids |-> << >>]
NilGuard == [wrapper |-> "nil", validator |-> "nil", executor |-> "nil"]

EngineBuilt(e) == engine[e].state = "built"

\* The variables that hold something.
Constructed ==
  {m \in Metrics : MetricsBuilt(m)} \cup {l \in Loggers : LoggerBuilt(l)}
    \cup {e \in Engines : EngineBuilt(e)} \cup {"pool"}

\* Fault: a pointer in an interface is never nil.
isTypedNilInterfaceOnly(value) == FALSE

\* An interface that holds a nil pointer: of the values an application passes,
\* the variables nothing was constructed for.
isTypedNil(value) == value # "nil" /\ value \notin Constructed

\* Of both wrappers.
isNil(value) == value = "nil" \/ isTypedNil(value)

-----------------------------------------------------------------------------
(* NewEngine.                                                              *)

isASCIIAlphaNumeric(character) == character[1] = "alnum"

validRuleID(ruleID) ==
  /\ Len(ruleID) # 0 /\ Len(ruleID) <= maxRuleIDLength
  /\ \A k \in 1..Len(ruleID) :
       isASCIIAlphaNumeric(ruleID[k]) \/ (k > 1 /\ ruleID[k][1] = "sep")

\* The sinks are looked at first, then the rules one by one.
NewEngine(e, metrics, logger, rules) ==
  /\ engine[e].state = "nil"
  /\ engine' = [engine EXCEPT ![e] =
       [state |-> IF isTypedNil(metrics) \/ isTypedNil(logger) THEN "failed" ELSE "checking",
        metrics |-> metrics, logger |-> logger, rules |-> rules, ids |-> << >>]]
  /\ UNCHANGED <<adapterVars, id, renames, guard, reports>>

\* The next rule of validateRules is acceptable.
Acceptable(e) ==
  LET rule == engine[e].rules[Len(engine[e].ids) + 1]
  IN  /\ rule \notin NilRules
      /\ validRuleID(id[rule])
      /\ \A k \in 1..Len(engine[e].ids) : engine[e].ids[k] # id[rule]

\* One iteration of validateRules.
ValidateRule(e) ==
  /\ engine[e].state = "checking"
  /\ Len(engine[e].ids) < Len(engine[e].rules)
  /\ \/ /\ Acceptable(e)
        /\ engine' = [engine EXCEPT ![e].ids =
             Append(@, id[engine[e].rules[Len(engine[e].ids) + 1]])]
     \/ ~Acceptable(e) /\ engine' = [engine EXCEPT ![e].state = "failed"]
  /\ UNCHANGED <<adapterVars, id, renames, guard, reports>>

\* Fault: the identifiers are read again for the registrations.
RegisteredReread(e) == [k \in 1..Len(engine[e].rules) |-> id[engine[e].rules[k]]]

\* The registrations take the identifiers validateRules has read.
Registered(e) == engine[e].ids

Register(e) ==
  /\ engine[e].state = "checking"
  /\ Len(engine[e].ids) = Len(engine[e].rules)
  /\ engine' = [engine EXCEPT ![e].state = "built", ![e].ids = Registered(e)]
  /\ UNCHANGED <<adapterVars, id, renames, guard, reports>>

-----------------------------------------------------------------------------
(* NewGuardedDB.                                                           *)

Keep(wrapper, validator, executor) ==
  /\ guard = NilGuard
  /\ guard' = [wrapper |-> wrapper, validator |-> validator, executor |-> executor]
  /\ UNCHANGED <<adapterVars, id, renames, engine, reports>>

\* An attempt that is refused changes nothing and may be repeated.
NewDirect(validator, executor) ==
  /\ ~isNil(validator) /\ ~isNil(executor)
  /\ Keep("direct", validator, executor)

NewCaching(validator, executor, capacity, maxSQLBytes) ==
  /\ ~isNil(validator) /\ ~isNil(executor)
  /\ capacity > 0 /\ maxSQLBytes > 0
  /\ Keep("caching", validator, executor)

-----------------------------------------------------------------------------
(* Rules and validations.                                                  *)

Rename(rule) ==
  /\ renames < MaxRenames
  /\ \E new \in IDs \ {id[rule]} : id' = [id EXCEPT ![rule] = new]
  /\ renames' = renames + 1
  /\ UNCHANGED <<adapterVars, engine, guard, reports>>

\* Fault: the event asks the rule for its identifier.
ReportedIDNow(e, k) == id[engine[e].rules[k]]

\* The identifier of a violation is the registered one.
ReportedID(e, k) == engine[e].ids[k]

\* Events of the engine: a violation names one of its rules.
EventsOf(e) ==
  [outcome : Outcomes \ {"policy_violation"}, ruleID : {NoID}]
    \cup {[outcome |-> "policy_violation", ruleID |-> ReportedID(e, k)] :
            k \in 1..Len(engine[e].rules)}

\* A validation ends: each enabled sink is told, and fails on its own.
Report(e) ==
  /\ EngineBuilt(e) /\ Len(reports[e]) < MaxReports
  /\ \E event \in EventsOf(e) :
       /\ reports' = [reports EXCEPT ![e] = Append(@, event)]
       /\ counts' = IF engine[e].metrics = "nil" THEN counts
                    ELSE RecordValidation(engine[e].metrics, event)
       /\ records' \in IF engine[e].logger = "nil" THEN {records}
                       ELSE LogValidation(engine[e].logger, event)
  /\ UNCHANGED <<called, adapter, registered, handler, id, renames, engine, guard>>

Init ==
  /\ AdaptersInit
  /\ id \in [Rules -> IDs]
  /\ renames = 0
  /\ engine = [e \in Engines |-> NilEngine]
  /\ guard = NilGuard
  /\ reports = [e \in Engines |-> << >>]

Construct(e) ==
  \/ \E m \in Metrics \cup {"nil"}, l \in Loggers \cup {"nil"}, rules \in RuleLists :
       NewEngine(e, m, l, rules)
  \/ ValidateRule(e) \/ Register(e)

Guard ==
  \E v \in Engines \cup {"nil"}, x \in {"nil", "no pool", "pool"} :
    \/ NewDirect(v, x)
    \/ \E capacity, maxSQLBytes \in 0..1 : NewCaching(v, x, capacity, maxSQLBytes)

Next ==
  \/ AdaptersNext /\ UNCHANGED assemblyVars
  \/ Guard
  \/ \E rule \in Rules : Rename(rule)
  \/ \E e \in Engines : Construct(e) \/ Report(e)

Spec == Init /\ [][Next]_vars

-----------------------------------------------------------------------------
(* Properties.                                                             *)

\* Whatever errors the application ignored on the way, a GuardedDB stands on an
\* engine and an executor that exist, that engine on sinks that exist: a nil
\* pointer stops the next constructor instead of a later validation.
BuiltOnlyOnBuilt ==
  /\ guard # NilGuard => EngineBuilt(guard.validator) /\ guard.executor = "pool"
  /\ \A e \in Engines : EngineBuilt(e) =>
       {engine[e].metrics, engine[e].logger} \subseteq Constructed \cup {"nil"}

\* An engine that exists has one acceptable identifier for each of its rules,
\* no two alike and none of them nil, even if rules answer ID() differently
\* while they are being checked: what module Engine assumes of its rules.
EngineIsSound ==
  \A e \in Engines : EngineBuilt(e) =>
    LET ids == engine[e].ids IN
    /\ Len(ids) = Len(engine[e].rules)
    /\ \A k \in 1..Len(ids) :
         /\ Len(ids[k]) \in 1..maxRuleIDLength /\ ids[k][1][1] = "alnum"
         /\ \A n \in 1..Len(ids[k]) : ids[k][n][1] # "other"
         /\ engine[e].rules[k] \notin NilRules
    /\ \A k, n \in 1..Len(ids) : ids[k] = ids[n] => k = n

\* How many validations of some engines ended with an event.
ReportedBy(reporting, event) ==
  Cardinality({at \in reporting \X (1..MaxReports) :
                 at[2] <= Len(reports[at[1]]) /\ reports[at[1]][at[2]] = event})

\* Those of the engines that report to an adapter.
ReportedTo(m, event) == ReportedBy({e \in Engines : engine[e].metrics = m}, event)
ReportedToLogger(l, event) == ReportedBy({e \in Engines : engine[e].logger = l}, event)

\* The copies of an element in a bag.
Copies(x, bag) == IF BagIn(x, bag) THEN bag[x] ELSE 0

AllEvents == UNION {{reports[e][k] : k \in 1..Len(reports[e])} : e \in Engines}

\* Each adapter has counted the validations reported to it, and only those,
\* once each under its own service: two adapters never share a collector.
Counted(m) ==
  /\ \A event \in AllEvents :
       Copies(Labels(m, event), counts[adapter[m].collector]) = ReportedTo(m, event)
  /\ \A label \in BagToSet(counts[adapter[m].collector]) :
       \E event \in AllEvents : label = Labels(m, event) /\ ReportedTo(m, event) > 0

CountsAreExact ==
  \A m \in Metrics : MetricsBuilt(m) /\ adapter[m].service \notin NotUTF8 => Counted(m)

\* The time series of a collector are bounded by construction: a rule_id that is
\* not empty belongs to a violation and is an identifier some engine accepted
\* when it was built, not one that a rule took later.
SeriesAreBounded ==
  \A m \in Metrics : \A label \in BagToSet(counts[m]) :
    IF label.outcome = "policy_violation"
    THEN \E e \in Engines : \E k \in 1..Len(engine[e].ids) :
           label.ruleID = engine[e].ids[k] /\ validRuleID(label.ruleID)
    ELSE label.ruleID = NoID

\* A prometheus.New that fails leaves nothing registered, one that succeeds has
\* registered its own collector and displaced no other.
NoOrphanCollectors ==
  /\ \A r, q \in registered : r.registry = q.registry /\ r.name = q.name => r = q
  /\ {r \in registered : r.collector # "other"} =
       {[registry |-> adapter[m].registry, name |-> adapter[m].name, collector |-> m] :
          m \in {x \in Metrics : MetricsBuilt(x)}}

\* The level of an outcome in the specification of the observability adapters.
LevelOf ==
  [allowed |-> "info", canceled |-> "debug", policy_violation |-> "error",
   parser_failure |-> "error", invalid_prepared |-> "error"]

\* How often a handler was asked about an event and gave an answer.
Answered(l, event, answer) ==
  Copies([level |-> LevelOf[event.outcome], event |-> event, answer |-> answer], records[l])

\* The handler was asked about each validation reported to the logger, once, at the
\* level of its outcome, and about nothing else.
Logged(l) ==
  /\ \A event \in AllEvents :
       Answered(l, event, "disabled") + Answered(l, event, "kept") + Answered(l, event, "failed")
         = ReportedToLogger(l, event)
  /\ \A entry \in BagToSet(records[l]) :
       entry.level = LevelOf[entry.event.outcome] /\ ReportedToLogger(l, entry.event) > 0

\* Whatever a handler turns down or fails to keep, LogValidation puts every
\* validation to it exactly once: a rejection is lost only by a handler that was
\* asked for it at ERROR, never under a lower level, and a failure is not retried.
ValidationsReachTheHandler ==
  \A l \in Loggers : LoggerBuilt(l) /\ handler[l] # "no handler" => Logged(l)

\* What the specification of the observability adapters says of every adapter
\* that was built: each completed validation increments its matching series.
EveryValidationIsCounted == \A m \in Metrics : MetricsBuilt(m) => Counted(m)
=============================================================================
