------------------------------ MODULE Adapters ------------------------------
(***************************************************************************)
(* The official observability adapters: the Prometheus counter and the     *)
(* log/slog logger. New is called at most once per adapter variable of the *)
(* application. What New returns with an error is a nil pointer, which the *)
(* application may go on using.                                            *)
(***************************************************************************)
EXTENDS Naturals, Sequences, Bags

CONSTANTS
  Metrics,       \* the application's *Metrics variables
  Loggers,       \* the application's *Logger variables
  Configs,       \* configurations it calls prometheus.New with
  Handlers,      \* what it calls slog.New with
  InvalidNames,  \* metric names the Prometheus data model refuses
  NotUTF8        \* services that are not valid UTF-8

Outcomes == {"allowed", "policy_violation", "parser_failure", "canceled",
             "invalid_prepared"}
Rejecting == {"policy_violation", "parser_failure", "invalid_prepared"}

\* An interface without a value, one with a nil pointer, and any other.
NilRegisterers == {"nil", "typed nil"}

\* slog.New with a nil *slog.Logger, with a zero slog.Logger, which has no
\* handler, and with one that has a handler of whatever kind.
ASSUME HandlersAssumption == Handlers \subseteq {"nil", "no handler", "handler"}

\* A variable is neither a nil interface nor a collector of somebody else.
ASSUME AdaptersAssumption ==
  "nil" \notin Metrics \cup Loggers /\ "other" \notin Metrics

VARIABLES
  called,      \* adapter variables New was called for
  adapter,     \* Metrics -> what New returned
  registered,  \* the collectors of all registries
  counts,      \* collector -> its increments by label values, a bag
  handler,     \* Loggers -> the handler of what slog.New returned
  records      \* Loggers -> what its handler was asked to log and answered, a bag

adapterVars == <<called, adapter, registered, counts, handler, records>>

NilMetrics == [registry |-> "nil", name |-> "nil", service |-> "nil", collector |-> "nil"]

MetricsBuilt(m) == adapter[m] # NilMetrics
LoggerBuilt(l) == handler[l] # "nil"

-----------------------------------------------------------------------------
(* Prometheus.                                                             *)

defaultMetricName == "sqlguard_validations_total"

metricName(c) == IF c.metricName = "" THEN defaultMetricName ELSE c.metricName

isNilRegisterer(r) == r \in NilRegisterers

Refused(c) ==
  isNilRegisterer(c.registerer) \/ c.service = "" \/ metricName(c) \in InvalidNames

\* Collectors of that name in that registry (at most one).
Holders(registry, name) ==
  {r.collector : r \in {q \in registered : q.registry = registry /\ q.name = name}}

\* registerer.Register: a name that is taken, by an adapter or by anything else
\* of the application, is a conflict.
Conflicts(c) == Holders(c.registerer, metricName(c)) # {}

Built(c, collector) ==
  [registry |-> c.registerer, name |-> metricName(c), service |-> c.service,
   collector |-> collector]

Registration(c, collector) ==
  [registry |-> c.registerer, name |-> metricName(c), collector |-> collector]

\* Fault: the collector is registered before the service is looked at.
NewRegistersFirst(m, c) ==
  /\ m \notin called
  /\ called' = called \cup {m}
  /\ \/ (isNilRegisterer(c.registerer) \/ Conflicts(c)) /\ UNCHANGED <<adapter, registered>>
     \/ /\ ~isNilRegisterer(c.registerer) /\ ~Conflicts(c)
        /\ registered' = registered \cup {Registration(c, m)}
        /\ \/ Refused(c) /\ UNCHANGED adapter
           \/ ~Refused(c) /\ adapter' = [adapter EXCEPT ![m] = Built(c, m)]
  /\ UNCHANGED <<counts, handler, records>>

\* Fault: a collector that is registered already is taken over.
NewReuses(m, c) ==
  /\ m \notin called
  /\ called' = called \cup {m}
  /\ \/ Refused(c) /\ UNCHANGED <<adapter, registered>>
     \/ /\ ~Refused(c) /\ Conflicts(c)
        /\ adapter' = [adapter EXCEPT ![m] =
             Built(c, CHOOSE x \in Holders(c.registerer, metricName(c)) : TRUE)]
        /\ UNCHANGED registered
     \/ /\ ~Refused(c) /\ ~Conflicts(c)
        /\ registered' = registered \cup {Registration(c, m)}
        /\ adapter' = [adapter EXCEPT ![m] = Built(c, m)]
  /\ UNCHANGED <<counts, handler, records>>

New(m, c) ==
  /\ m \notin called
  /\ called' = called \cup {m}
  /\ \/ (Refused(c) \/ Conflicts(c)) /\ UNCHANGED <<adapter, registered>>
     \/ /\ ~Refused(c) /\ ~Conflicts(c)
        /\ registered' = registered \cup {Registration(c, m)}
        /\ adapter' = [adapter EXCEPT ![m] = Built(c, m)]
  /\ UNCHANGED <<counts, handler, records>>

Labels(m, event) ==
  [service |-> adapter[m].service, outcome |-> event.outcome, ruleID |-> event.ruleID]

\* The counters after RecordValidation; WithLabelValues panics for a label that
\* is not valid UTF-8.
RecordValidation(m, event) ==
  IF adapter[m].service \in NotUTF8 THEN counts
  ELSE [counts EXCEPT ![adapter[m].collector] = @ (+) SetToBag({Labels(m, event)})]

-----------------------------------------------------------------------------
(* log/slog.                                                               *)

NewLogger(l, h) ==
  /\ l \notin called
  /\ called' = called \cup {l}
  /\ handler' = [handler EXCEPT ![l] = h]
  /\ UNCHANGED <<adapter, registered, counts, records>>

\* Fault: a parser failure gets the default level.
validationLevelDefaults(outcome) ==
  IF outcome \in Rejecting \ {"parser_failure"} THEN "error"
  ELSE IF outcome = "canceled" THEN "debug" ELSE "info"

validationLevel(outcome) ==
  IF outcome \in Rejecting THEN "error"
  ELSE IF outcome = "canceled" THEN "debug" ELSE "info"

\* A handler is application code: its Enabled may turn down any level at any time,
\* and a Handle that is called keeps the record or fails.
Answers == {"disabled", "kept", "failed"}

\* Fault: a record the handler failed to keep is handed to it again.
LogValidationRetries(l, event) ==
  LET entry(answer) == [level |-> validationLevel(event.outcome), event |-> event,
                        answer |-> answer]
  IN  IF handler[l] = "no handler" THEN {records}
      ELSE {[records EXCEPT ![l] = @ (+) SetToBag({entry(answer)})
               (+) IF answer = "failed" THEN SetToBag({entry("kept")}) ELSE EmptyBag] :
              answer \in Answers}

\* The records there may be after LogValidation.  Without a handler it panics; a
\* level that is turned down ends it, and so does Handle, with its result.
LogValidation(l, event) ==
  LET entry(answer) == [level |-> validationLevel(event.outcome), event |-> event,
                        answer |-> answer]
  IN  IF handler[l] = "no handler" THEN {records}
      ELSE {[records EXCEPT ![l] = @ (+) SetToBag({entry(answer)})] : answer \in Answers}

-----------------------------------------------------------------------------

\* A registry may hold a collector of that name that is not sqlguard's.
AdaptersInit ==
  /\ called = {}
  /\ adapter = [m \in Metrics |-> NilMetrics]
  /\ \E taken \in SUBSET {[registry |-> "shared", name |-> defaultMetricName,
                           collector |-> "other"]} : registered = taken
  /\ counts = [k \in Metrics \cup {"other"} |-> EmptyBag]
  /\ handler = [l \in Loggers |-> "nil"]
  /\ records = [l \in Loggers |-> EmptyBag]

AdaptersNext ==
  \/ \E m \in Metrics, c \in Configs : New(m, c)
  \/ \E l \in Loggers, h \in Handlers : NewLogger(l, h)
=============================================================================
