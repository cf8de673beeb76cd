--------------------------- MODULE AssemblyProofs ---------------------------
(***************************************************************************)
(* What an application puts together is sound, and what its sinks hold is  *)
(* exact, for every number of adapters, engines, rules and validations and *)
(* in whatever order the constructors run.                                 *)
(*                                                                         *)
(* The invariant has one layer per part.  Adapters: what New returned is   *)
(* kept, and a variable nothing was constructed for has counted nothing.   *)
(* Construction: an engine that is being built satisfies, for the rules    *)
(* seen so far, what a built one promises.  Reporting: only built engines  *)
(* have reported, and each sink holds as many copies of an event as there  *)
(* are reports of it.                                                      *)
(***************************************************************************)
EXTENDS Assembly, FiniteSetTheorems, TLAPS

-----------------------------------------------------------------------------
(* The invariant.                                                          *)

AdapterValues == {NilMetrics} \cup {Built(c, m) : c \in Configs, m \in Metrics}

AdaptersOK ==
  /\ adapter \in [Metrics -> AdapterValues]
  /\ handler \in [Loggers -> Handlers \cup {"nil"}]
  /\ DOMAIN counts = Metrics \cup {"other"} /\ DOMAIN records = Loggers
  /\ \A m \in Metrics :
       /\ IsABag(counts[m])
       /\ MetricsBuilt(m) => m \in called /\ adapter[m].collector = m
       /\ ~MetricsBuilt(m) => counts[m] = EmptyBag
  /\ \A l \in Loggers :
       /\ IsABag(records[l])
       /\ LoggerBuilt(l) => l \in called
       /\ ~LoggerBuilt(l) => records[l] = EmptyBag

EngineValues ==
  [state : {"nil", "checking", "failed", "built"}, metrics : Metrics \cup {"nil"},
   logger : Loggers \cup {"nil"}, rules : Seq(Rules \cup NilRules), ids : Seq(IDs)]

\* Of the rules seen so far, in an engine under construction too.
RulesOK(rules, ids) ==
  /\ Len(ids) <= Len(rules)
  /\ \A k \in 1..Len(ids) : validRuleID(ids[k]) /\ rules[k] \notin NilRules
  /\ \A k, n \in 1..Len(ids) : ids[k] = ids[n] => k = n

EngineOK(e) ==
  /\ RulesOK(engine[e].rules, engine[e].ids)
  /\ EngineBuilt(e) => Len(engine[e].ids) = Len(engine[e].rules)
  /\ engine[e].state \in {"checking", "built"} =>
       {engine[e].metrics, engine[e].logger} \subseteq Constructed \cup {"nil"}

EnginesOK ==
  /\ id \in [Rules -> IDs]
  /\ engine \in [Engines -> EngineValues]
  /\ \A e \in Engines : EngineOK(e)

GuardOK ==
  guard # NilGuard =>
    guard.validator \in Engines /\ EngineBuilt(guard.validator) /\ guard.executor = "pool"

Events == [outcome : Outcomes, ruleID : IDs \cup {NoID}]

ReportsOK ==
  /\ reports \in [Engines -> Seq(Events)]
  /\ \A e \in Engines :
       Len(reports[e]) <= MaxReports /\ (reports[e] # << >> => EngineBuilt(e))

CountOK(m) ==
  /\ \A event \in Events :
       Copies(Labels(m, event), counts[m]) = ReportedTo(m, event)
  /\ \A label \in BagToSet(counts[m]) : \E event \in Events : label = Labels(m, event)

CountsOK ==
  \A m \in Metrics : MetricsBuilt(m) /\ adapter[m].service \notin NotUTF8 => CountOK(m)

\* What a handler is asked about an event, with its answer.
Entry(event, answer) ==
  [level |-> validationLevel(event.outcome), event |-> event, answer |-> answer]

Asked(event, bag) ==
  Copies(Entry(event, "disabled"), bag) + Copies(Entry(event, "kept"), bag)
    + Copies(Entry(event, "failed"), bag)

LogOK(l) ==
  /\ \A event \in Events : Asked(event, records[l]) = ReportedToLogger(l, event)
  /\ \A entry \in BagToSet(records[l]) :
       \E event \in Events, answer \in Answers : entry = Entry(event, answer)

LogsOK == \A l \in Loggers : LoggerBuilt(l) /\ handler[l] # "no handler" => LogOK(l)

SeriesOK ==
  \A m \in Metrics : \A label \in BagToSet(counts[m]) :
    IF label.outcome = "policy_violation"
    THEN \E e \in Engines : EngineBuilt(e) /\ \E k \in 1..Len(engine[e].ids) :
           label.ruleID = engine[e].ids[k]
    ELSE label.ruleID = NoID

Assembled == AdaptersOK /\ NoOrphanCollectors /\ EnginesOK /\ GuardOK
IInv == Assembled /\ ReportsOK /\ CountsOK /\ LogsOK /\ SeriesOK

-----------------------------------------------------------------------------
(* Bags and counting.                                                      *)

\* Adding one element to a bag.
LEMMA BagAdd ==
  ASSUME NEW B, IsABag(B), NEW x
  PROVE  /\ IsABag(B (+) SetToBag({x}))
         /\ BagToSet(B (+) SetToBag({x})) = BagToSet(B) \cup {x}
         /\ \A y : Copies(y, B (+) SetToBag({x})) =
                     IF y = x THEN Copies(y, B) + 1 ELSE Copies(y, B)
<1> DEFINE C == B (+) SetToBag({x})
<1>1. DOMAIN C = DOMAIN B \cup {x}
  BY DEF SetToBag, (+)
<1>2. \A y \in DOMAIN C :
        C[y] = (IF y \in DOMAIN B THEN B[y] ELSE 0) + (IF y = x THEN 1 ELSE 0)
  BY DEF SetToBag, (+)
<1>3. C = [y \in DOMAIN C |-> C[y]]
  BY DEF (+)
<1>4. \A y \in DOMAIN B : B[y] \in Nat /\ B[y] > 0
  BY DEF IsABag
<1> HIDE DEF C
<1>5. \A y \in DOMAIN C : C[y] \in {n \in Nat : n > 0}
  BY <1>1, <1>2, <1>4
<1>6. IsABag(C)
  BY <1>3, <1>5 DEF IsABag
<1>7. \A y : Copies(y, C) = IF y = x THEN Copies(y, B) + 1 ELSE Copies(y, B)
  BY <1>1, <1>2, <1>4 DEF Copies, BagIn, BagToSet
<1>8. QED
  BY <1>1, <1>6, <1>7 DEF C, BagToSet

\* The empty bag.
LEMMA BagEmpty ==
  /\ IsABag(EmptyBag) /\ BagToSet(EmptyBag) = {}
  /\ \A y : Copies(y, EmptyBag) = 0
  BY DEF IsABag, EmptyBag, SetToBag, BagToSet, Copies, BagIn

\* The reports ReportedBy counts, of whatever reports there are.
Occurrences(reps, R, event) ==
  {at \in R \X (1..MaxReports) :
     at[2] <= Len(reps[at[1]]) /\ reps[at[1]][at[2]] = event}

Count(reps, R, event) == Cardinality(Occurrences(reps, R, event))

\* ReportedBy counts the occurrences in the reports of the state.
LEMMA ReportedIsCount ==
  ASSUME NEW R, NEW event
  PROVE  ReportedBy(R, event) = Count(reports, R, event)
  BY DEF ReportedBy, Count, Occurrences

\* Occurrences are finitely many, so that they can be counted.
LEMMA OccurrencesFinite ==
  ASSUME NEW reps, NEW R \in SUBSET Engines, NEW event
  PROVE  IsFiniteSet(Occurrences(reps, R, event)) /\ Count(reps, R, event) \in Nat
<1>1. IsFiniteSet(1..MaxReports)
  BY BoundsAssumption, FS_Interval
<1>2. IsFiniteSet(R)
  BY VariablesAssumption, FS_Subset
<1>3. IsFiniteSet(R \X (1..MaxReports))
  BY <1>1, <1>2, FS_Product
<1>4. Occurrences(reps, R, event) \subseteq R \X (1..MaxReports)
  BY DEF Occurrences
<1>5. IsFiniteSet(Occurrences(reps, R, event))
  BY <1>3, <1>4, FS_Subset
<1>6. QED
  BY <1>5, FS_CardinalityType DEF Count

\* Nothing reported, nothing counted.
LEMMA NothingReported ==
  ASSUME NEW reps, NEW R \in SUBSET Engines, NEW event, \A e \in R : reps[e] = << >>
  PROVE  Count(reps, R, event) = 0
<1>1. Occurrences(reps, R, event) = {}
  BY DEF Occurrences
<1>2. QED
  BY <1>1, FS_EmptySet DEF Count

\* Only what was reported is counted.
LEMMA SomethingReported ==
  ASSUME NEW reps, NEW R \in SUBSET Engines, NEW event, Count(reps, R, event) # 0
  PROVE  \E e \in R : \E k \in 1..Len(reps[e]) : reps[e][k] = event
<1>1. Occurrences(reps, R, event) # {}
  BY FS_EmptySet DEF Count
<1>2. PICK e \in R, k \in 1..MaxReports : k <= Len(reps[e]) /\ reps[e][k] = event
  BY <1>1 DEF Occurrences
<1>3. QED
  BY <1>2

\* An engine that has reported nothing does not count.
LEMMA SilentEnginesAreFree ==
  ASSUME NEW reps, NEW R, NEW Q, NEW event,
         \A e \in Engines : reps[e] # << >> => (e \in R <=> e \in Q),
         R \subseteq Engines, Q \subseteq Engines
  PROVE  Count(reps, R, event) = Count(reps, Q, event)
<1>1. Occurrences(reps, R, event) = Occurrences(reps, Q, event)
  BY DEF Occurrences
<1>2. QED
  BY <1>1 DEF Count

\* A report is counted once, for the engines that include its own.
LEMMA OneMoreReported ==
  ASSUME NEW E, NEW reps \in [Engines -> Seq(E)], NEW e \in Engines, NEW ev \in E,
         Len(reps[e]) < MaxReports, NEW R \in SUBSET Engines, NEW event,
         NEW new, new[e] = Append(reps[e], ev), \A f \in Engines : f # e => new[f] = reps[f]
  PROVE  Count(new, R, event) =
           IF e \in R /\ event = ev THEN Count(reps, R, event) + 1
           ELSE Count(reps, R, event)
<1> DEFINE at == <<e, Len(reps[e]) + 1>>
           Old == Occurrences(reps, R, event)
<1>0. reps[e] \in Seq(E) /\ Len(reps[e]) \in Nat /\ MaxReports \in Nat
  BY BoundsAssumption
<1>1. /\ \A f \in Engines : f # e => new[f] = reps[f]
      /\ Len(new[e]) = Len(reps[e]) + 1
      /\ \A k \in 1..Len(reps[e]) : new[e][k] = reps[e][k]
      /\ new[e][Len(reps[e]) + 1] = ev
  BY <1>0
<1>2. CASE e \in R /\ event = ev
  <2>1. Occurrences(new, R, event) = Old \cup {at}
    <3>1. ASSUME NEW f \in R, NEW k \in 1..MaxReports
          PROVE  (k <= Len(new[f]) /\ new[f][k] = event)
                   <=> (k <= Len(reps[f]) /\ reps[f][k] = event) \/ <<f, k>> = at
      <4>1. CASE f # e
        BY <1>1, <4>1
      <4>2. CASE f = e
        BY <1>0, <1>1, <1>2, <4>2
      <4>3. QED
        BY <4>1, <4>2
    <3>2. at \in R \X (1..MaxReports)
      BY <1>0, <1>2
    <3>3. QED
      BY <3>1, <3>2 DEF Occurrences
  <2>2. at \notin Old
    BY <1>0 DEF Occurrences
  <2>3. Cardinality(Old \cup {at}) = Cardinality(Old) + 1
    BY <2>2, OccurrencesFinite, FS_AddElement
  <2>4. QED
    BY <1>2, <2>1, <2>3 DEF Count
<1>3. CASE ~(e \in R /\ event = ev)
  <2>1. ASSUME NEW f \in R, NEW k \in 1..MaxReports
        PROVE  (k <= Len(new[f]) /\ new[f][k] = event)
                 <=> (k <= Len(reps[f]) /\ reps[f][k] = event)
    <3>1. CASE f # e
      BY <1>1, <3>1
    <3>2. CASE f = e
      BY <1>0, <1>1, <1>3, <3>2
    <3>3. QED
      BY <3>1, <3>2
  <2>2. Occurrences(new, R, event) = Old
    BY <2>1 DEF Occurrences
  <2>3. QED
    BY <1>3, <2>2 DEF Count
<1>4. QED
  BY <1>2, <1>3

-----------------------------------------------------------------------------
(* What a step does to what is there.                                      *)

USE DEF MetricsBuilt, LoggerBuilt, EngineBuilt

\* What New returns is not nil and has its own collector.
LEMMA BuiltIsThere ==
  ASSUME NEW m \in Metrics, NEW c \in Configs
  PROVE  /\ Built(c, m) \in AdapterValues /\ Built(c, m) # NilMetrics
         /\ Built(c, m).collector = m
<1>1. Built(c, m).collector = m /\ m # "nil"
  BY AdaptersAssumption DEF Built
<1>2. NilMetrics.collector = "nil"
  BY DEF NilMetrics
<1>3. QED
  BY <1>1, <1>2 DEF AdapterValues

\* What a Metrics is constructed as is never changed again, nor is a Logger, nor
\* an engine.
LEMMA BuiltStays ==
  ASSUME IInv, [Next]_vars
  PROVE  /\ \A m \in Metrics : MetricsBuilt(m) => adapter'[m] = adapter[m]
         /\ \A l \in Loggers : LoggerBuilt(l) => handler'[l] = handler[l]
         /\ \A e \in Engines : EngineBuilt(e) => engine'[e] = engine[e]
<1>0. AdaptersOK /\ engine \in [Engines -> EngineValues]
  BY DEF IInv, Assembled, EnginesOK
<1>1. ASSUME NEW m \in Metrics, NEW c \in Configs, New(m, c), UNCHANGED assemblyVars
      PROVE  /\ \A n \in Metrics : MetricsBuilt(n) => adapter'[n] = adapter[n]
             /\ handler' = handler /\ engine' = engine
  BY <1>0, <1>1 DEF New, assemblyVars, AdaptersOK
<1>2. ASSUME NEW l \in Loggers, NEW h \in Handlers, NewLogger(l, h), UNCHANGED assemblyVars
      PROVE  /\ \A n \in Loggers : LoggerBuilt(n) => handler'[n] = handler[n]
             /\ adapter' = adapter /\ engine' = engine
  BY <1>0, <1>2 DEF NewLogger, assemblyVars, AdaptersOK
<1>3. ASSUME NEW e \in Engines, Construct(e)
      PROVE  /\ \A f \in Engines : EngineBuilt(f) => engine'[f] = engine[f]
             /\ adapter' = adapter /\ handler' = handler
  BY <1>0, <1>3 DEF Construct, NewEngine, ValidateRule, Register, adapterVars
<1>4. ASSUME \/ Guard \/ (\E rule \in Rules : Rename(rule))
             \/ (\E e \in Engines : Report(e)) \/ UNCHANGED vars
      PROVE  adapter' = adapter /\ handler' = handler /\ engine' = engine
  BY <1>4 DEF Guard, NewDirect, NewCaching, Keep, Rename, Report, vars, adapterVars, assemblyVars
<1>5. QED
  BY <1>1, <1>2, <1>3, <1>4 DEF Next, AdaptersNext

\* What has been constructed stays constructed.
LEMMA ConstructedGrows ==
  ASSUME IInv, [Next]_vars
  PROVE  Constructed \subseteq Constructed'
  BY BuiltStays DEF Constructed

\* An event of an engine is one of Events, under an identifier it has accepted.
LEMMA EventsTyped ==
  ASSUME IInv, NEW e \in Engines, EngineBuilt(e), NEW event \in EventsOf(e)
  PROVE  /\ event \in Events
         /\ IF event.outcome = "policy_violation"
            THEN \E k \in 1..Len(engine[e].ids) : event.ruleID = engine[e].ids[k]
            ELSE event.ruleID = NoID
<1>1. /\ engine[e].ids \in Seq(IDs) /\ Len(engine[e].ids) = Len(engine[e].rules)
  BY DEF IInv, Assembled, EnginesOK, EngineOK, EngineValues
<1>2. CASE event \in [outcome : Outcomes \ {"policy_violation"}, ruleID : {NoID}]
  BY <1>2 DEF Events
<1>3. CASE event \in {[outcome |-> "policy_violation", ruleID |-> ReportedID(e, k)] :
                        k \in 1..Len(engine[e].rules)}
  <2>1. PICK k \in 1..Len(engine[e].ids) :
          event = [outcome |-> "policy_violation", ruleID |-> engine[e].ids[k]]
    BY <1>1, <1>3 DEF ReportedID
  <2>2. engine[e].ids[k] \in IDs
    BY <1>1
  <2>3. QED
    BY <2>1, <2>2 DEF Events, Outcomes
<1>4. QED
  BY <1>2, <1>3 DEF EventsOf

\* The sinks of a built engine.
LEMMA SinksAreThere ==
  ASSUME IInv, NEW e \in Engines, EngineBuilt(e)
  PROVE  /\ engine[e].metrics = "nil"
              \/ (engine[e].metrics \in Metrics /\ MetricsBuilt(engine[e].metrics))
         /\ engine[e].logger = "nil"
              \/ (engine[e].logger \in Loggers /\ LoggerBuilt(engine[e].logger))
<1>1. /\ engine[e].metrics \in Metrics \cup {"nil"} /\ engine[e].logger \in Loggers \cup {"nil"}
      /\ {engine[e].metrics, engine[e].logger} \subseteq Constructed \cup {"nil"}
  BY DEF IInv, Assembled, EnginesOK, EngineOK, EngineValues
<1>2. QED
  BY <1>1, VariablesAssumption DEF Constructed

\* What a report changes.
LEMMA ReportEffect ==
  ASSUME IInv, NEW e \in Engines, Report(e)
  PROVE  /\ EngineBuilt(e) /\ Len(reports[e]) < MaxReports
         /\ \E event \in EventsOf(e), answer \in Answers :
              /\ reports' = [reports EXCEPT ![e] = Append(@, event)]
              /\ \A m \in Metrics : counts'[m] =
                   IF m = engine[e].metrics /\ adapter[m].service \notin NotUTF8
                   THEN counts[m] (+) SetToBag({Labels(m, event)}) ELSE counts[m]
              /\ \A l \in Loggers : records'[l] =
                   IF l = engine[e].logger /\ handler[l] # "no handler"
                   THEN records[l] (+) SetToBag({Entry(event, answer)}) ELSE records[l]
         /\ DOMAIN counts' = DOMAIN counts /\ DOMAIN records' = DOMAIN records
         /\ UNCHANGED <<called, adapter, registered, handler, id, renames, engine, guard>>
<1>0. AdaptersOK /\ EngineBuilt(e)
  BY DEF IInv, Assembled, Report
<1>1. PICK event \in EventsOf(e) :
        /\ reports' = [reports EXCEPT ![e] = Append(@, event)]
        /\ counts' = IF engine[e].metrics = "nil" THEN counts
                     ELSE RecordValidation(engine[e].metrics, event)
        /\ records' \in IF engine[e].logger = "nil" THEN {records}
                        ELSE LogValidation(engine[e].logger, event)
  BY DEF Report
<1>2. /\ DOMAIN counts' = DOMAIN counts
      /\ \A m \in Metrics : counts'[m] =
           IF m = engine[e].metrics /\ adapter[m].service \notin NotUTF8
           THEN counts[m] (+) SetToBag({Labels(m, event)}) ELSE counts[m]
  <2>1. CASE engine[e].metrics = "nil"
    BY <1>1, <2>1, AdaptersAssumption
  <2>2. CASE engine[e].metrics \in Metrics /\ MetricsBuilt(engine[e].metrics)
    <3>1. adapter[engine[e].metrics].collector = engine[e].metrics
      BY <1>0, <2>2 DEF AdaptersOK
    <3>2. counts' = IF adapter[engine[e].metrics].service \in NotUTF8 THEN counts
                    ELSE [counts EXCEPT ![engine[e].metrics] =
                            @ (+) SetToBag({Labels(engine[e].metrics, event)})]
      BY <1>1, <2>2, <3>1, AdaptersAssumption DEF RecordValidation
    <3>3. QED
      BY <1>0, <2>2, <3>2 DEF AdaptersOK
  <2>3. QED
    BY <1>0, <2>1, <2>2, SinksAreThere
<1>3. PICK answer \in Answers :
        /\ DOMAIN records' = DOMAIN records
        /\ \A l \in Loggers : records'[l] =
             IF l = engine[e].logger /\ handler[l] # "no handler"
             THEN records[l] (+) SetToBag({Entry(event, answer)}) ELSE records[l]
  <2>0. "kept" \in Answers
    BY DEF Answers
  <2>1. CASE engine[e].logger = "nil"
    BY <1>1, <2>0, <2>1, AdaptersAssumption
  <2>2. CASE engine[e].logger \in Loggers
    <3>1. records' \in LogValidation(engine[e].logger, event)
      BY <1>1, <2>2, AdaptersAssumption
    <3>2. CASE handler[engine[e].logger] = "no handler"
      BY <2>0, <3>1, <3>2 DEF LogValidation
    <3>3. CASE handler[engine[e].logger] # "no handler"
      <4>1. PICK answer \in Answers : records' = [records EXCEPT ![engine[e].logger] =
                                                   @ (+) SetToBag({Entry(event, answer)})]
        BY <3>1, <3>3 DEF LogValidation, Entry
      <4>2. QED
        BY <1>0, <2>2, <3>3, <4>1 DEF AdaptersOK
    <3>4. QED
      BY <3>2, <3>3
  <2>3. QED
    BY <1>0, <2>1, <2>2, SinksAreThere
<1>4. QED
  BY <1>1, <1>2, <1>3 DEF Report

-----------------------------------------------------------------------------
(* The layers, step by step.                                               *)

\* A step that is none of the adapters' constructors and no report.
Quiet ==
  \/ Guard \/ (\E rule \in Rules : Rename(rule))
  \/ (\E e \in Engines : Construct(e)) \/ UNCHANGED vars

\* A quiet step leaves adapters and reports alone.
LEMMA QuietStep ==
  ASSUME Quiet
  PROVE  UNCHANGED adapterVars /\ reports' = reports
  BY DEF Quiet, Guard, NewDirect, NewCaching, Keep, Rename, Construct, NewEngine,
         ValidateRule, Register, vars, assemblyVars

\* The kinds of step the proofs below tell apart.
LEMMA StepCases ==
  ASSUME [Next]_vars
  PROVE  \/ \E m \in Metrics, c \in Configs : New(m, c) /\ UNCHANGED assemblyVars
         \/ \E l \in Loggers, h \in Handlers : NewLogger(l, h) /\ UNCHANGED assemblyVars
         \/ \E e \in Engines : Report(e)
         \/ Quiet
  BY DEF Next, AdaptersNext, Quiet

\* Every step keeps the adapters as their constructors left them.
LEMMA AdaptersStep ==
  ASSUME IInv, [Next]_vars
  PROVE  AdaptersOK'
<1>0. AdaptersOK
  BY DEF IInv, Assembled
<1>1. ASSUME NEW m \in Metrics, NEW c \in Configs, New(m, c) PROVE AdaptersOK'
  <2>1. CASE UNCHANGED <<adapter, registered>>
    BY <1>0, <1>1, <2>1 DEF New, AdaptersOK
  <2>2. CASE adapter' = [adapter EXCEPT ![m] = Built(c, m)]
    <3>1. adapter' \in [Metrics -> AdapterValues]
      BY <1>0, <2>2, BuiltIsThere DEF AdaptersOK
    <3>2. \A n \in Metrics : MetricsBuilt(n)' => n \in called' /\ adapter'[n].collector = n
      BY <1>0, <1>1, <2>2, BuiltIsThere DEF AdaptersOK, New
    <3>3. \A n \in Metrics : ~MetricsBuilt(n)' => ~MetricsBuilt(n)
      BY <1>0, <2>2, BuiltIsThere DEF AdaptersOK
    <3>4. QED
      BY <1>0, <1>1, <3>1, <3>2, <3>3 DEF New, AdaptersOK
  <2>3. QED
    BY <1>1, <2>1, <2>2 DEF New
<1>2. ASSUME NEW l \in Loggers, NEW h \in Handlers, NewLogger(l, h) PROVE AdaptersOK'
  <2>1. handler' \in [Loggers -> Handlers \cup {"nil"}]
    BY <1>0, <1>2 DEF AdaptersOK, NewLogger
  <2>2. \A n \in Loggers : LoggerBuilt(n)' => n \in called'
    BY <1>0, <1>2 DEF AdaptersOK, NewLogger
  <2>3. \A n \in Loggers : ~LoggerBuilt(n)' => ~LoggerBuilt(n)
    BY <1>0, <1>2 DEF AdaptersOK, NewLogger
  <2>4. QED
    BY <1>0, <1>2, <2>1, <2>2, <2>3 DEF AdaptersOK, NewLogger
<1>3. ASSUME NEW e \in Engines, Report(e) PROVE AdaptersOK'
  <2>1. PICK event \in EventsOf(e), answer \in Answers :
          /\ \A m \in Metrics : counts'[m] =
               IF m = engine[e].metrics /\ adapter[m].service \notin NotUTF8
               THEN counts[m] (+) SetToBag({Labels(m, event)}) ELSE counts[m]
          /\ \A l \in Loggers : records'[l] =
               IF l = engine[e].logger /\ handler[l] # "no handler"
               THEN records[l] (+) SetToBag({Entry(event, answer)}) ELSE records[l]
    BY <1>3, ReportEffect
  <2>2. /\ EngineBuilt(e) /\ DOMAIN counts' = DOMAIN counts /\ DOMAIN records' = DOMAIN records
        /\ called' = called /\ adapter' = adapter /\ handler' = handler
    BY <1>3, ReportEffect
  <2>3. ASSUME NEW m \in Metrics
        PROVE  IsABag(counts'[m]) /\ (~MetricsBuilt(m) => counts'[m] = EmptyBag)
    <3>1. IsABag(counts[m]) /\ (~MetricsBuilt(m) => counts[m] = EmptyBag)
      BY <1>0 DEF AdaptersOK
    <3>2. CASE counts'[m] = counts[m]
      BY <3>1, <3>2
    <3>3. CASE counts'[m] = counts[m] (+) SetToBag({Labels(m, event)}) /\ m = engine[e].metrics
      <4>1. MetricsBuilt(m)
        BY <2>2, <3>3, SinksAreThere, AdaptersAssumption
      <4>2. IsABag(counts[m] (+) SetToBag({Labels(m, event)}))
        BY <3>1, BagAdd
      <4>3. QED
        BY <3>3, <4>1, <4>2
    <3>4. QED
      BY <2>1, <3>2, <3>3
  <2>4. ASSUME NEW l \in Loggers
        PROVE  IsABag(records'[l]) /\ (~LoggerBuilt(l) => records'[l] = EmptyBag)
    <3> DEFINE record == Entry(event, answer)
    <3>1. IsABag(records[l]) /\ (~LoggerBuilt(l) => records[l] = EmptyBag)
      BY <1>0 DEF AdaptersOK
    <3>2. CASE records'[l] = records[l]
      BY <3>1, <3>2
    <3>3. CASE records'[l] = records[l] (+) SetToBag({record}) /\ l = engine[e].logger
      <4>1. LoggerBuilt(l)
        BY <2>2, <3>3, SinksAreThere, AdaptersAssumption
      <4>2. IsABag(records[l] (+) SetToBag({record}))
        BY <3>1, BagAdd
      <4>3. QED
        BY <3>3, <4>1, <4>2
    <3>4. QED
      BY <2>1, <3>2, <3>3
  <2>5. QED
    BY <1>0, <2>2, <2>3, <2>4 DEF AdaptersOK
<1>4. CASE Quiet
  BY <1>0, <1>4, QuietStep DEF adapterVars, AdaptersOK
<1>5. QED
  BY <1>1, <1>2, <1>3, <1>4, StepCases

\* Every step keeps the registries free of collectors nobody owns.
LEMMA RegistryStep ==
  ASSUME IInv, [Next]_vars
  PROVE  NoOrphanCollectors'
<1>0. AdaptersOK /\ NoOrphanCollectors
  BY DEF IInv, Assembled
<1>1. ASSUME NEW m \in Metrics, NEW c \in Configs, New(m, c) PROVE NoOrphanCollectors'
  <2>1. CASE UNCHANGED <<adapter, registered>>
    BY <1>0, <2>1 DEF NoOrphanCollectors
  <2>2. CASE /\ ~Conflicts(c) /\ adapter' = [adapter EXCEPT ![m] = Built(c, m)]
             /\ registered' = registered \cup {Registration(c, m)}
    <3> DEFINE new == Registration(c, m)
               Collected(n) == [registry |-> adapter[n].registry, name |-> adapter[n].name,
                                collector |-> n]
               Others == {r \in registered : r.collector # "other"}
               There == {x \in Metrics : MetricsBuilt(x)}
    <3>1. /\ new.registry = c.registerer /\ new.name = metricName(c) /\ new.collector = m
      BY DEF Registration
    <3>2. \A r \in registered : ~(r.registry = c.registerer /\ r.name = metricName(c))
      BY <2>2 DEF Conflicts, Holders
    <3>3. \A r, q \in registered' : r.registry = q.registry /\ r.name = q.name => r = q
      <4>1. \A r, q \in registered : r.registry = q.registry /\ r.name = q.name => r = q
        BY <1>0 DEF NoOrphanCollectors
      <4> HIDE DEF new
      <4>2. registered' = registered \cup {new}
        BY <2>2 DEF new
      <4>3. QED
        BY <3>1, <3>2, <4>1, <4>2
    <3>4. ~MetricsBuilt(m)
      BY <1>0, <1>1 DEF AdaptersOK, New
    <3>5. /\ adapter'[m] = Built(c, m)
          /\ \A n \in Metrics : n # m => adapter'[n] = adapter[n]
      BY <1>0, <2>2 DEF AdaptersOK
    <3>6. {x \in Metrics : MetricsBuilt(x)'} = There \cup {m}
      BY <3>5, BuiltIsThere
    <3>7. Others = {Collected(n) : n \in There}
      BY <1>0 DEF NoOrphanCollectors
    <3>8. {r \in registered' : r.collector # "other"} = Others \cup {new}
      BY <2>2, <3>1, AdaptersAssumption
    <3>9. \A n \in There : Collected(n)' = Collected(n)
      BY <3>4, <3>5
    <3>10. Collected(m)' = new
      BY <3>5 DEF Built, Registration
    <3>11. {r \in registered' : r.collector # "other"} =
             {[registry |-> adapter'[n].registry, name |-> adapter'[n].name,
               collector |-> n] : n \in There \cup {m}}
      <4>1. {Collected(n)' : n \in There \cup {m}} = {Collected(n) : n \in There} \cup {new}
        <5> HIDE DEF Collected, new
        <5>1. QED
          BY <3>9, <3>10
      <4>2. QED
        BY <3>7, <3>8, <4>1
    <3>12. QED
      BY <3>3, <3>6, <3>11 DEF NoOrphanCollectors
  <2>3. QED
    BY <1>1, <2>1, <2>2 DEF New
<1>2. CASE UNCHANGED <<adapter, registered>>
  BY <1>0, <1>2 DEF NoOrphanCollectors
<1>3. ASSUME NEW l \in Loggers, NEW h \in Handlers, NewLogger(l, h)
      PROVE  UNCHANGED <<adapter, registered>>
  BY <1>3 DEF NewLogger
<1>4. ASSUME NEW e \in Engines, Report(e) PROVE UNCHANGED <<adapter, registered>>
  BY <1>4 DEF Report
<1>5. ASSUME Quiet PROVE UNCHANGED <<adapter, registered>>
  BY <1>5, QuietStep DEF adapterVars
<1>6. QED
  BY <1>1, <1>2, <1>3, <1>4, <1>5, StepCases

\* One more acceptable rule.
LEMMA RulesExtend ==
  ASSUME NEW rules \in Seq(Rules \cup NilRules), NEW ids \in Seq(IDs), RulesOK(rules, ids),
         Len(ids) < Len(rules), rules[Len(ids) + 1] \notin NilRules,
         NEW x \in IDs, validRuleID(x), \A k \in 1..Len(ids) : ids[k] # x
  PROVE  Append(ids, x) \in Seq(IDs) /\ RulesOK(rules, Append(ids, x))
<1> DEFINE new == Append(ids, x)
<1>1. /\ new \in Seq(IDs) /\ Len(new) = Len(ids) + 1 /\ new[Len(ids) + 1] = x
      /\ \A k \in 1..Len(ids) : new[k] = ids[k]
      /\ Len(ids) \in Nat /\ Len(rules) \in Nat
  OBVIOUS
<1> HIDE DEF new
<1>2. \A k \in 1..Len(new) : k = Len(ids) + 1 \/ k \in 1..Len(ids)
  BY <1>1
<1>3. \A k \in 1..Len(new) : validRuleID(new[k]) /\ rules[k] \notin NilRules
  BY <1>1, <1>2 DEF RulesOK
<1>4. \A k, n \in 1..Len(new) : new[k] = new[n] => k = n
  BY <1>1, <1>2 DEF RulesOK
<1>5. QED
  BY <1>1, <1>3, <1>4 DEF RulesOK, new

\* Every step keeps engines sound: NewEngine checks, Register only completes.
LEMMA EnginesStep ==
  ASSUME IInv, [Next]_vars
  PROVE  EnginesOK'
<1>0. EnginesOK /\ Constructed \subseteq Constructed'
  BY ConstructedGrows DEF IInv, Assembled
<1>1. ASSUME NEW f \in Engines, engine'[f] = engine[f] PROVE EngineOK(f)'
  BY <1>0, <1>1 DEF EnginesOK, EngineOK
<1>2. CASE engine' = engine /\ id' \in [Rules -> IDs]
  BY <1>0, <1>1, <1>2 DEF EnginesOK
<1>3. ASSUME NEW e \in Engines, NEW r \in EngineValues, id' = id,
             engine' = [engine EXCEPT ![e] = r], EngineOK(e)'
      PROVE  EnginesOK'
  <2>1. \A f \in Engines : f # e => engine'[f] = engine[f]
    BY <1>0, <1>3 DEF EnginesOK
  <2>2. QED
    BY <1>0, <1>1, <1>3, <2>1 DEF EnginesOK
<1>4. ASSUME NEW e \in Engines, NEW m \in Metrics \cup {"nil"}, NEW l \in Loggers \cup {"nil"},
             NEW rules \in RuleLists, NewEngine(e, m, l, rules)
      PROVE  EnginesOK'
  <2> DEFINE r == [state |-> IF isTypedNil(m) \/ isTypedNil(l) THEN "failed" ELSE "checking",
                   metrics |-> m, logger |-> l, rules |-> rules, ids |-> << >>]
  <2>1. engine' = [engine EXCEPT ![e] = r] /\ id' = id
    BY <1>4 DEF NewEngine
  <2>2. r \in EngineValues
    BY RulesAssumption DEF EngineValues
  <2>3. engine'[e] = r
    BY <1>0, <2>1 DEF EnginesOK
  <2>4. RulesOK(rules, << >>)
    BY RulesAssumption DEF RulesOK
  <2>5. r.state = "checking" => {m, l} \subseteq Constructed \cup {"nil"}
    BY DEF isTypedNil
  <2>6. r.state # "built" /\ r.metrics = m /\ r.logger = l /\ r.rules = rules /\ r.ids = << >>
    OBVIOUS
  <2> HIDE DEF r
  <2>7. EngineOK(e)'
    BY <1>0, <2>3, <2>4, <2>5, <2>6 DEF EngineOK
  <2>8. QED
    BY <1>3, <2>1, <2>2, <2>7
<1>5. ASSUME NEW e \in Engines, ValidateRule(e) PROVE EnginesOK'
  <2> DEFINE old == engine[e]
             next == Len(old.ids) + 1
  <2>1. /\ old \in EngineValues /\ EngineOK(e) /\ old.state = "checking"
        /\ Len(old.ids) < Len(old.rules) /\ id' = id
    BY <1>0, <1>5 DEF EnginesOK, ValidateRule
  <2>2. CASE ~Acceptable(e) /\ engine' = [engine EXCEPT ![e].state = "failed"]
    <3> DEFINE r == [old EXCEPT !.state = "failed"]
    <3>1. /\ engine' = [engine EXCEPT ![e] = r] /\ r \in EngineValues
          /\ r.state = "failed" /\ r.rules = old.rules /\ r.ids = old.ids
      BY <2>1, <2>2 DEF EngineValues
    <3> HIDE DEF r
    <3>2. engine'[e] = r
      BY <1>0, <3>1 DEF EnginesOK
    <3>3. EngineOK(e)'
      BY <2>1, <3>1, <3>2 DEF EngineOK
    <3>4. QED
      BY <1>3, <2>1, <3>1, <3>3
  <2>3. CASE /\ Acceptable(e)
             /\ engine' = [engine EXCEPT ![e].ids = Append(@, id[engine[e].rules[next]])]
    <3> DEFINE x == id[old.rules[next]]
               r == [old EXCEPT !.ids = Append(old.ids, x)]
    <3>1. /\ old.rules \in Seq(Rules \cup NilRules) /\ old.ids \in Seq(IDs)
          /\ RulesOK(old.rules, old.ids)
      BY <2>1 DEF EngineValues, EngineOK
    <3>2. /\ old.rules[next] \notin NilRules /\ validRuleID(x)
          /\ \A k \in 1..Len(old.ids) : old.ids[k] # x
      BY <2>3 DEF Acceptable
    <3>3. old.rules[next] \in Rules
      <4>1. next \in 1..Len(old.rules)
        BY <2>1, <3>1
      <4>2. QED
        BY <3>1, <3>2, <4>1
    <3>4. x \in IDs
      BY <1>0, <3>3 DEF EnginesOK
    <3> HIDE DEF x
    <3>5. Append(old.ids, x) \in Seq(IDs) /\ RulesOK(old.rules, Append(old.ids, x))
      BY <2>1, <3>1, <3>2, <3>4, RulesExtend
    <3>6. /\ engine' = [engine EXCEPT ![e] = r] /\ r \in EngineValues
          /\ r.state = "checking" /\ r.rules = old.rules /\ r.ids = Append(old.ids, x)
          /\ r.metrics = old.metrics /\ r.logger = old.logger
      BY <2>1, <2>3, <3>5 DEF EngineValues, x
    <3> HIDE DEF r
    <3>7. engine'[e] = r
      BY <1>0, <3>6 DEF EnginesOK
    <3>8. EngineOK(e)'
      BY <1>0, <2>1, <3>5, <3>6, <3>7 DEF EngineOK
    <3>9. QED
      BY <1>3, <2>1, <3>6, <3>8
  <2>4. QED
    BY <1>5, <2>2, <2>3 DEF ValidateRule
<1>6. ASSUME NEW e \in Engines, Register(e) PROVE EnginesOK'
  <2> DEFINE old == engine[e]
             r == [old EXCEPT !.state = "built"]
  <2>1. /\ old \in EngineValues /\ EngineOK(e) /\ old.state = "checking"
        /\ Len(old.ids) = Len(old.rules) /\ id' = id
    BY <1>0, <1>6 DEF EnginesOK, Register
  <2>2. engine' = [engine EXCEPT ![e] = r]
    BY <1>6, <2>1 DEF Register, Registered, EngineValues
  <2>3. /\ r \in EngineValues /\ r.rules = old.rules /\ r.ids = old.ids
        /\ r.metrics = old.metrics /\ r.logger = old.logger
    BY <2>1 DEF EngineValues
  <2> HIDE DEF r
  <2>4. engine'[e] = r
    BY <1>0, <2>2 DEF EnginesOK
  <2>5. EngineOK(e)'
    BY <1>0, <2>1, <2>3, <2>4 DEF EngineOK
  <2>6. QED
    BY <1>3, <2>1, <2>2, <2>3, <2>5
<1>7. ASSUME NEW rule \in Rules, Rename(rule) PROVE engine' = engine /\ id' \in [Rules -> IDs]
  BY <1>0, <1>7 DEF Rename, EnginesOK
<1>8. ASSUME \/ AdaptersNext /\ UNCHANGED assemblyVars
             \/ Guard \/ (\E e \in Engines : Report(e)) \/ UNCHANGED vars
      PROVE  engine' = engine /\ id' = id
  BY <1>8 DEF Guard, NewDirect, NewCaching, Keep, Report, vars, assemblyVars
<1>9. id \in [Rules -> IDs]
  BY <1>0 DEF EnginesOK
<1>10. QED
  BY <1>2, <1>4, <1>5, <1>6, <1>7, <1>8, <1>9 DEF Next, Construct

\* What NewGuardedDB keeps is what it was given.
LEMMA KeepKeeps ==
  ASSUME NEW w, NEW v, NEW x, Keep(w, v, x)
  PROVE  guard'.validator = v /\ guard'.executor = x
  BY DEF Keep

\* Every step keeps a guard on top of an engine that was built.
LEMMA GuardStep ==
  ASSUME IInv, [Next]_vars
  PROVE  GuardOK'
<1>0. GuardOK /\ \A e \in Engines : EngineBuilt(e) => EngineBuilt(e)'
  BY BuiltStays DEF IInv, Assembled
<1>1. CASE Guard
  <2>1. PICK v \in Engines \cup {"nil"}, x \in {"nil", "no pool", "pool"} :
          ~isNil(v) /\ ~isNil(x) /\ (Keep("direct", v, x) \/ Keep("caching", v, x))
    BY <1>1 DEF Guard, NewDirect, NewCaching
  <2>2. v \in Engines /\ EngineBuilt(v) /\ x = "pool"
    <3>1. v # "nil" /\ v \in Constructed /\ x # "nil" /\ x \in Constructed
      BY <2>1 DEF isNil, isTypedNil
    <3>2. /\ "no pool" \notin Engines \cup Metrics \cup Loggers
          /\ "pool" \notin Engines /\ Engines \cap (Metrics \cup Loggers) = {}
      BY VariablesAssumption
    <3>3. x = "pool"
      BY <2>1, <3>1, <3>2 DEF Constructed
    <3>4. QED
      BY <2>1, <3>1, <3>2, <3>3 DEF Constructed
  <2>3. guard'.validator = v /\ guard'.executor = x
    BY <2>1, KeepKeeps
  <2>4. QED
    BY <1>0, <2>2, <2>3 DEF GuardOK
<1>2. CASE guard' = guard
  BY <1>0, <1>2 DEF GuardOK
<1>3. ASSUME \/ AdaptersNext /\ UNCHANGED assemblyVars
             \/ (\E rule \in Rules : Rename(rule))
             \/ (\E e \in Engines : Construct(e) \/ Report(e)) \/ UNCHANGED vars
      PROVE  guard' = guard
  BY <1>3 DEF Rename, Construct, NewEngine, ValidateRule, Register, Report, vars, assemblyVars
<1>4. QED
  BY <1>1, <1>2, <1>3 DEF Next

\* Every step keeps the reports typed, bounded and those of built engines.
LEMMA ReportsStep ==
  ASSUME IInv, [Next]_vars
  PROVE  ReportsOK'
<1>0. ReportsOK /\ \A e \in Engines : EngineBuilt(e) => EngineBuilt(e)'
  BY BuiltStays DEF IInv
<1>1. CASE reports' = reports
  BY <1>0, <1>1 DEF ReportsOK
<1>2. ASSUME NEW e \in Engines, Report(e) PROVE ReportsOK'
  <2>1. /\ EngineBuilt(e) /\ Len(reports[e]) < MaxReports
        /\ \E event \in EventsOf(e) : reports' = [reports EXCEPT ![e] = Append(@, event)]
    BY <1>2, ReportEffect
  <2>2. PICK event \in Events : reports' = [reports EXCEPT ![e] = Append(@, event)]
    BY <2>1, EventsTyped
  <2>3. reports[e] \in Seq(Events) /\ Append(reports[e], event) \in Seq(Events)
    BY <1>0 DEF ReportsOK
  <2>4. reports' \in [Engines -> Seq(Events)]
    BY <1>0, <2>2, <2>3 DEF ReportsOK
  <2>5. /\ reports'[e] = Append(reports[e], event)
        /\ \A f \in Engines : f # e => reports'[f] = reports[f]
    BY <1>0, <2>2 DEF ReportsOK
  <2>6. Len(reports'[e]) <= MaxReports
    BY <2>1, <2>3, <2>5, BoundsAssumption
  <2>7. QED
    BY <1>0, <2>1, <2>4, <2>5, <2>6 DEF ReportsOK
<1>3. ASSUME AdaptersNext, UNCHANGED assemblyVars PROVE reports' = reports
  BY <1>3 DEF assemblyVars
<1>4. QED
  BY <1>1, <1>2, <1>3, QuietStep DEF Next, Quiet

\* While no new report is made, what was counted for a sink stays.
LEMMA CountStays ==
  ASSUME IInv, [Next]_vars, reports' = reports, NEW event
  PROVE  /\ \A m : ReportedTo(m, event)' = ReportedTo(m, event)
         /\ \A l : ReportedToLogger(l, event)' = ReportedToLogger(l, event)
<1>1. \A e \in Engines : reports[e] # << >> => engine'[e] = engine[e]
  BY BuiltStays DEF IInv, ReportsOK
<1>2. ASSUME NEW R \in SUBSET Engines, NEW Q \in SUBSET Engines,
             \A e \in Engines : reports[e] # << >> => (e \in R <=> e \in Q)
      PROVE  Count(reports, R, event) = Count(reports, Q, event)
  BY <1>2, SilentEnginesAreFree
<1>3. ASSUME NEW m PROVE ReportedTo(m, event)' = ReportedTo(m, event)
  <2> DEFINE R == {e \in Engines : engine'[e].metrics = m}
             Q == {e \in Engines : engine[e].metrics = m}
  <2>1. \A e \in Engines : reports[e] # << >> => (e \in R <=> e \in Q)
    BY <1>1
  <2>2. ReportedTo(m, event) = Count(reports, Q, event)
    BY DEF ReportedTo, ReportedBy, Count, Occurrences
  <2>3. ReportedTo(m, event)' = Count(reports, R, event)
    BY DEF ReportedTo, ReportedBy, Count, Occurrences
  <2>4. R \subseteq Engines /\ Q \subseteq Engines
    OBVIOUS
  <2> HIDE DEF R, Q
  <2>5. QED
    BY <1>2, <2>1, <2>2, <2>3, <2>4
<1>4. ASSUME NEW l PROVE ReportedToLogger(l, event)' = ReportedToLogger(l, event)
  <2> DEFINE R == {e \in Engines : engine'[e].logger = l}
             Q == {e \in Engines : engine[e].logger = l}
  <2>1. \A e \in Engines : reports[e] # << >> => (e \in R <=> e \in Q)
    BY <1>1
  <2>2. ReportedToLogger(l, event) = Count(reports, Q, event)
    BY DEF ReportedToLogger, ReportedBy, Count, Occurrences
  <2>3. ReportedToLogger(l, event)' = Count(reports, R, event)
    BY DEF ReportedToLogger, ReportedBy, Count, Occurrences
  <2>4. R \subseteq Engines /\ Q \subseteq Engines
    OBVIOUS
  <2> HIDE DEF R, Q
  <2>5. QED
    BY <1>2, <2>1, <2>2, <2>3, <2>4
<1>5. QED
  BY <1>3, <1>4

\* Nothing was reported to a sink that was not constructed.
LEMMA NobodyReportsTo ==
  ASSUME IInv, NEW event
  PROVE  /\ \A m \in Metrics : ~MetricsBuilt(m) => ReportedTo(m, event) = 0
         /\ \A l \in Loggers : ~LoggerBuilt(l) => ReportedToLogger(l, event) = 0
<1>1. \A e \in Engines : reports[e] # << >> => EngineBuilt(e)
  BY DEF IInv, ReportsOK
<1>2. ASSUME NEW m \in Metrics, ~MetricsBuilt(m) PROVE ReportedTo(m, event) = 0
  <2> DEFINE R == {e \in Engines : engine[e].metrics = m}
  <2>1. \A e \in R : reports[e] = << >>
    BY <1>1, <1>2, SinksAreThere, AdaptersAssumption
  <2>2. ReportedTo(m, event) = Count(reports, R, event)
    BY DEF ReportedTo, ReportedBy, Count, Occurrences
  <2>3. R \in SUBSET Engines
    OBVIOUS
  <2> HIDE DEF R
  <2>4. QED
    BY <2>1, <2>2, <2>3, NothingReported
<1>3. ASSUME NEW l \in Loggers, ~LoggerBuilt(l) PROVE ReportedToLogger(l, event) = 0
  <2> DEFINE R == {e \in Engines : engine[e].logger = l}
  <2>1. \A e \in R : reports[e] = << >>
    BY <1>1, <1>3, SinksAreThere, AdaptersAssumption
  <2>2. ReportedToLogger(l, event) = Count(reports, R, event)
    BY DEF ReportedToLogger, ReportedBy, Count, Occurrences
  <2>3. R \in SUBSET Engines
    OBVIOUS
  <2> HIDE DEF R
  <2>4. QED
    BY <2>1, <2>2, <2>3, NothingReported
<1>4. QED
  BY <1>2, <1>3

\* A report counts once for the metrics of its engine.
LEMMA ReportIsCounted ==
  ASSUME IInv, NEW e \in Engines, NEW ev \in Events, Len(reports[e]) < MaxReports,
         reports'[e] = Append(reports[e], ev),
         \A f \in Engines : f # e => reports'[f] = reports[f],
         engine' = engine, NEW event, NEW m
  PROVE  ReportedTo(m, event)' =
           IF engine[e].metrics = m /\ event = ev THEN ReportedTo(m, event) + 1
           ELSE ReportedTo(m, event)
<1> DEFINE R == {f \in Engines : engine[f].metrics = m}
<1>1. ReportedTo(m, event) = Count(reports, R, event)
  BY DEF ReportedTo, ReportedBy, Count, Occurrences
<1>2. ReportedTo(m, event)' = Count(reports', R, event)
  BY DEF ReportedTo, ReportedBy, Count, Occurrences
<1>3. R \in SUBSET Engines /\ (e \in R <=> engine[e].metrics = m)
  OBVIOUS
<1>4. reports \in [Engines -> Seq(Events)]
  BY DEF IInv, ReportsOK
<1>5. ASSUME NEW Q \in SUBSET Engines
      PROVE  Count(reports', Q, event) =
               IF e \in Q /\ event = ev THEN Count(reports, Q, event) + 1
               ELSE Count(reports, Q, event)
  BY <1>4, OneMoreReported
<1> HIDE DEF R
<1>6. QED
  BY <1>1, <1>2, <1>3, <1>5

\* And once for its logger.
LEMMA ReportIsLogged ==
  ASSUME IInv, NEW e \in Engines, NEW ev \in Events, Len(reports[e]) < MaxReports,
         reports'[e] = Append(reports[e], ev),
         \A f \in Engines : f # e => reports'[f] = reports[f],
         engine' = engine, NEW event, NEW l
  PROVE  ReportedToLogger(l, event)' =
           IF engine[e].logger = l /\ event = ev THEN ReportedToLogger(l, event) + 1
           ELSE ReportedToLogger(l, event)
<1> DEFINE R == {f \in Engines : engine[f].logger = l}
<1>1. ReportedToLogger(l, event) = Count(reports, R, event)
  BY DEF ReportedToLogger, ReportedBy, Count, Occurrences
<1>2. ReportedToLogger(l, event)' = Count(reports', R, event)
  BY DEF ReportedToLogger, ReportedBy, Count, Occurrences
<1>3. R \in SUBSET Engines /\ (e \in R <=> engine[e].logger = l)
  OBVIOUS
<1>4. reports \in [Engines -> Seq(Events)]
  BY DEF IInv, ReportsOK
<1>5. ASSUME NEW Q \in SUBSET Engines
      PROVE  Count(reports', Q, event) =
               IF e \in Q /\ event = ev THEN Count(reports, Q, event) + 1
               ELSE Count(reports, Q, event)
  BY <1>4, OneMoreReported
<1> HIDE DEF R
<1>6. QED
  BY <1>1, <1>2, <1>3, <1>5

\* Every step keeps a counter equal to the events its engines handed it.
LEMMA CountsStep ==
  ASSUME IInv, [Next]_vars
  PROVE  CountsOK'
<1>0. AdaptersOK /\ CountsOK
  BY DEF IInv, Assembled
<1>1. ASSUME NEW m \in Metrics, reports' = reports, adapter'[m] = adapter[m],
             counts'[m] = counts[m], CountOK(m)
      PROVE  CountOK(m)'
  <2>1. \A event : Labels(m, event)' = Labels(m, event)
    BY <1>1 DEF Labels
  <2>2. \A event \in Events : ReportedTo(m, event)' = ReportedTo(m, event)
    BY <1>1, CountStays
  <2>3. \A event \in Events : Copies(Labels(m, event), counts'[m]) = ReportedTo(m, event)
    BY <1>1 DEF CountOK
  <2>4. \A label \in BagToSet(counts'[m]) : \E event \in Events : label = Labels(m, event)
    BY <1>1 DEF CountOK
  <2>5. QED
    BY <2>1, <2>2, <2>3, <2>4 DEF CountOK
<1>2. CASE reports' = reports /\ adapter' = adapter /\ counts' = counts
  BY <1>0, <1>1, <1>2 DEF CountsOK
<1>3. ASSUME NEW n \in Metrics, NEW c \in Configs, New(n, c), UNCHANGED assemblyVars
      PROVE  CountsOK'
  <2>0. reports' = reports /\ counts' = counts
    BY <1>3 DEF New, assemblyVars
  <2>1. SUFFICES ASSUME NEW m \in Metrics, MetricsBuilt(m)', adapter'[m].service \notin NotUTF8
                 PROVE  CountOK(m)'
    BY DEF CountsOK
  <2>2. CASE MetricsBuilt(m)
    <3>1. adapter'[m] = adapter[m]
      BY <2>2, BuiltStays
    <3>2. QED
      BY <1>0, <1>1, <2>0, <2>1, <2>2, <3>1 DEF CountsOK
  <2>3. CASE ~MetricsBuilt(m)
    <3>1. counts'[m] = EmptyBag
      BY <1>0, <2>0, <2>3 DEF AdaptersOK
    <3>2. \A event \in Events : ReportedTo(m, event)' = 0
      BY <2>0, <2>3, CountStays, NobodyReportsTo
    <3>3. QED
      BY <3>1, <3>2, BagEmpty DEF CountOK
  <2>4. QED
    BY <2>2, <2>3
<1>4. ASSUME NEW e \in Engines, Report(e) PROVE CountsOK'
  <2>1. PICK ev \in EventsOf(e) :
          /\ reports' = [reports EXCEPT ![e] = Append(@, ev)]
          /\ \A m \in Metrics : counts'[m] =
               IF m = engine[e].metrics /\ adapter[m].service \notin NotUTF8
               THEN counts[m] (+) SetToBag({Labels(m, ev)}) ELSE counts[m]
    BY <1>4, ReportEffect
  <2>2. /\ EngineBuilt(e) /\ Len(reports[e]) < MaxReports
        /\ adapter' = adapter /\ engine' = engine
    BY <1>4, ReportEffect
  <2>3. ev \in Events
    BY <2>2, EventsTyped
  <2>4. SUFFICES ASSUME NEW m \in Metrics, MetricsBuilt(m), adapter[m].service \notin NotUTF8
                 PROVE  CountOK(m)'
    BY <2>2 DEF CountsOK
  <2>5. CountOK(m) /\ IsABag(counts[m])
    BY <1>0, <2>4 DEF CountsOK, AdaptersOK
  <2>6. \A event : Labels(m, event)' = Labels(m, event)
    BY <2>2 DEF Labels
  <2>7. \A event \in Events : ReportedTo(m, event)' =
          IF engine[e].metrics = m /\ event = ev THEN ReportedTo(m, event) + 1
          ELSE ReportedTo(m, event)
    <3>1. /\ reports'[e] = Append(reports[e], ev)
          /\ \A f \in Engines : f # e => reports'[f] = reports[f]
      BY <2>1 DEF IInv, ReportsOK
    <3>2. QED
      BY <2>2, <2>3, <3>1, ReportIsCounted
  <2>8. CASE m = engine[e].metrics
    <3> DEFINE new == counts[m] (+) SetToBag({Labels(m, ev)})
    <3>1. counts'[m] = new
      BY <2>1, <2>4, <2>8
    <3>2. /\ BagToSet(new) = BagToSet(counts[m]) \cup {Labels(m, ev)}
          /\ \A y : Copies(y, new) = IF y = Labels(m, ev) THEN Copies(y, counts[m]) + 1
                                     ELSE Copies(y, counts[m])
      BY <2>5, BagAdd
    <3> HIDE DEF new
    <3>3. ASSUME NEW event \in Events PROVE Copies(Labels(m, event), new) = ReportedTo(m, event)'
      <4>1. Labels(m, event) = Labels(m, ev) <=> event = ev
        BY <2>3 DEF Labels, Events
      <4>2. Copies(Labels(m, event), counts[m]) = ReportedTo(m, event)
        BY <2>5 DEF CountOK
      <4>3. QED
        BY <2>7, <2>8, <3>2, <4>1, <4>2
    <3>4. \A label \in BagToSet(new) : \E event \in Events : label = Labels(m, event)
      BY <2>3, <2>5, <3>2 DEF CountOK
    <3>5. QED
      BY <2>6, <3>1, <3>3, <3>4 DEF CountOK
  <2>9. CASE m # engine[e].metrics
    <3>1. counts'[m] = counts[m]
      BY <2>1, <2>9
    <3>2. QED
      BY <2>5, <2>6, <2>7, <2>9, <3>1 DEF CountOK
  <2>10. QED
    BY <2>8, <2>9
<1>5. ASSUME NEW l \in Loggers, NEW h \in Handlers, NewLogger(l, h), UNCHANGED assemblyVars
      PROVE  reports' = reports /\ adapter' = adapter /\ counts' = counts
  BY <1>5 DEF NewLogger, assemblyVars
<1>6. ASSUME Quiet PROVE reports' = reports /\ adapter' = adapter /\ counts' = counts
  BY <1>6, QuietStep DEF adapterVars
<1>7. QED
  BY <1>2, <1>3, <1>4, <1>5, <1>6, StepCases

\* One more entry is one more question about its event and none about others.
LEMMA AskedOnce ==
  ASSUME NEW B, IsABag(B), NEW ev \in Events, NEW given \in Answers, NEW event \in Events
  PROVE  Asked(event, B (+) SetToBag({Entry(ev, given)})) =
           IF event = ev THEN Asked(event, B) + 1 ELSE Asked(event, B)
<1> DEFINE new == B (+) SetToBag({Entry(ev, given)})
<1>1. \A y : Copies(y, new) = IF y = Entry(ev, given) THEN Copies(y, B) + 1 ELSE Copies(y, B)
  BY BagAdd
<1>2. \A answer \in Answers : Entry(event, answer) = Entry(ev, given) <=>
                               event = ev /\ answer = given
  BY DEF Entry
<1>3. \A y : Copies(y, B) \in Nat
  BY DEF Copies, IsABag, BagIn, BagToSet
<1>4. {"disabled", "kept", "failed"} = Answers
  BY DEF Answers
<1> HIDE DEF new
<1>5. \A answer \in Answers : Copies(Entry(event, answer), new) =
        IF event = ev /\ answer = given THEN Copies(Entry(event, answer), B) + 1
        ELSE Copies(Entry(event, answer), B)
  BY <1>1, <1>2
<1>6. Asked(event, new) = Copies(Entry(event, "disabled"), new)
                            + Copies(Entry(event, "kept"), new)
                            + Copies(Entry(event, "failed"), new)
  BY DEF Asked
<1>7. Asked(event, B) = Copies(Entry(event, "disabled"), B) + Copies(Entry(event, "kept"), B)
                          + Copies(Entry(event, "failed"), B)
  BY DEF Asked
<1>8. /\ Copies(Entry(event, "disabled"), B) \in Nat
      /\ Copies(Entry(event, "kept"), B) \in Nat
      /\ Copies(Entry(event, "failed"), B) \in Nat
  BY <1>3
<1>9. CASE event # ev
  <2>1. \A answer \in {"disabled", "kept", "failed"} :
          Copies(Entry(event, answer), new) = Copies(Entry(event, answer), B)
    BY <1>4, <1>5, <1>9
  <2>2. Asked(event, new) = Asked(event, B)
    BY <1>6, <1>7, <2>1
  <2>3. QED
    BY <1>9, <2>2 DEF new
<1>10. CASE event = ev
  <2>1. given \in {"disabled", "kept", "failed"}
    BY <1>4
  <2>2. \A answer \in {"disabled", "kept", "failed"} :
          Copies(Entry(event, answer), new) =
            IF answer = given THEN Copies(Entry(event, answer), B) + 1
            ELSE Copies(Entry(event, answer), B)
    BY <1>4, <1>5, <1>10
  <2>3. CASE given = "disabled"
    <3>1. /\ Copies(Entry(event, "disabled"), new) = Copies(Entry(event, "disabled"), B) + 1
          /\ Copies(Entry(event, "kept"), new) = Copies(Entry(event, "kept"), B)
          /\ Copies(Entry(event, "failed"), new) = Copies(Entry(event, "failed"), B)
      BY <2>2, <2>3
    <3>2. Asked(event, new) = Asked(event, B) + 1
      BY <1>6, <1>7, <1>8, <3>1
    <3>3. QED
      BY <1>10, <3>2 DEF new
  <2>4. CASE given = "kept"
    <3>1. /\ Copies(Entry(event, "disabled"), new) = Copies(Entry(event, "disabled"), B)
          /\ Copies(Entry(event, "kept"), new) = Copies(Entry(event, "kept"), B) + 1
          /\ Copies(Entry(event, "failed"), new) = Copies(Entry(event, "failed"), B)
      BY <2>2, <2>4
    <3>2. Asked(event, new) = Asked(event, B) + 1
      BY <1>6, <1>7, <1>8, <3>1
    <3>3. QED
      BY <1>10, <3>2 DEF new
  <2>5. CASE given = "failed"
    <3>1. /\ Copies(Entry(event, "disabled"), new) = Copies(Entry(event, "disabled"), B)
          /\ Copies(Entry(event, "kept"), new) = Copies(Entry(event, "kept"), B)
          /\ Copies(Entry(event, "failed"), new) = Copies(Entry(event, "failed"), B) + 1
      BY <2>2, <2>5
    <3>2. Asked(event, new) = Asked(event, B) + 1
      BY <1>6, <1>7, <1>8, <3>1
    <3>3. QED
      BY <1>10, <3>2 DEF new
  <2>6. QED
    BY <2>1, <2>3, <2>4, <2>5
<1>11. QED
  BY <1>9, <1>10

\* Every step keeps the handlers asked once about each validation handed over.
LEMMA LogsStep ==
  ASSUME IInv, [Next]_vars
  PROVE  LogsOK'
<1>0. AdaptersOK /\ LogsOK
  BY DEF IInv, Assembled
<1>1. ASSUME NEW l \in Loggers, reports' = reports, records'[l] = records[l], LogOK(l)
      PROVE  LogOK(l)'
  <2>1. \A event \in Events : ReportedToLogger(l, event)' = ReportedToLogger(l, event)
    BY <1>1, CountStays
  <2>2. QED
    BY <1>1, <2>1 DEF LogOK
<1>2. CASE reports' = reports /\ handler' = handler /\ records' = records
  BY <1>0, <1>1, <1>2 DEF LogsOK
<1>3. ASSUME NEW n \in Loggers, NEW h \in Handlers, NewLogger(n, h), UNCHANGED assemblyVars
      PROVE  LogsOK'
  <2>0. reports' = reports /\ records' = records
    BY <1>3 DEF NewLogger, assemblyVars
  <2>1. SUFFICES ASSUME NEW l \in Loggers, LoggerBuilt(l)', handler'[l] # "no handler"
                 PROVE  LogOK(l)'
    BY DEF LogsOK
  <2>2. CASE LoggerBuilt(l)
    <3>1. handler'[l] = handler[l]
      BY <2>2, BuiltStays
    <3>2. QED
      BY <1>0, <1>1, <2>0, <2>1, <2>2, <3>1 DEF LogsOK
  <2>3. CASE ~LoggerBuilt(l)
    <3>1. records'[l] = EmptyBag
      BY <1>0, <2>0, <2>3 DEF AdaptersOK
    <3>2. \A event \in Events : ReportedToLogger(l, event)' = 0
      BY <2>0, <2>3, CountStays, NobodyReportsTo
    <3>3. \A event \in Events : Asked(event, EmptyBag) = 0
      BY BagEmpty DEF Asked
    <3>4. QED
      BY <3>1, <3>2, <3>3, BagEmpty DEF LogOK
  <2>4. QED
    BY <2>2, <2>3
<1>4. ASSUME NEW e \in Engines, Report(e) PROVE LogsOK'
  <2>1. PICK ev \in EventsOf(e), given \in Answers :
          /\ reports' = [reports EXCEPT ![e] = Append(@, ev)]
          /\ \A l \in Loggers : records'[l] =
               IF l = engine[e].logger /\ handler[l] # "no handler"
               THEN records[l] (+) SetToBag({Entry(ev, given)}) ELSE records[l]
    BY <1>4, ReportEffect
  <2>2. /\ EngineBuilt(e) /\ Len(reports[e]) < MaxReports
        /\ handler' = handler /\ engine' = engine
    BY <1>4, ReportEffect
  <2>3. ev \in Events
    BY <2>2, EventsTyped
  <2>4. SUFFICES ASSUME NEW l \in Loggers, LoggerBuilt(l), handler[l] # "no handler"
                 PROVE  LogOK(l)'
    BY <2>2 DEF LogsOK
  <2>5. LogOK(l) /\ IsABag(records[l])
    BY <1>0, <2>4 DEF LogsOK, AdaptersOK
  <2>6. \A event \in Events : ReportedToLogger(l, event)' =
          IF engine[e].logger = l /\ event = ev THEN ReportedToLogger(l, event) + 1
          ELSE ReportedToLogger(l, event)
    <3>1. /\ reports'[e] = Append(reports[e], ev)
          /\ \A f \in Engines : f # e => reports'[f] = reports[f]
      BY <2>1 DEF IInv, ReportsOK
    <3>2. QED
      BY <2>2, <2>3, <3>1, ReportIsLogged
  <2>7. CASE l = engine[e].logger
    <3>1. records'[l] = records[l] (+) SetToBag({Entry(ev, given)})
      BY <2>1, <2>4, <2>7
    <3>2. \A event \in Events : Asked(event, records'[l]) =
            IF event = ev THEN Asked(event, records[l]) + 1 ELSE Asked(event, records[l])
      BY <2>3, <2>5, <3>1, AskedOnce
    <3>3. BagToSet(records'[l]) = BagToSet(records[l]) \cup {Entry(ev, given)}
      BY <2>5, <3>1, BagAdd
    <3>4. \A event \in Events : Asked(event, records'[l]) = ReportedToLogger(l, event)'
      BY <2>5, <2>6, <2>7, <3>2 DEF LogOK
    <3>5. \A entry \in BagToSet(records'[l]) :
            \E event \in Events, answer \in Answers : entry = Entry(event, answer)
      BY <2>3, <2>5, <3>3 DEF LogOK
    <3>6. QED
      BY <3>4, <3>5 DEF LogOK
  <2>8. CASE l # engine[e].logger
    <3>1. records'[l] = records[l]
      BY <2>1, <2>8
    <3>2. QED
      BY <2>5, <2>6, <2>8, <3>1 DEF LogOK
  <2>9. QED
    BY <2>7, <2>8
<1>5. ASSUME NEW m \in Metrics, NEW c \in Configs, New(m, c), UNCHANGED assemblyVars
      PROVE  reports' = reports /\ handler' = handler /\ records' = records
  BY <1>5 DEF New, assemblyVars
<1>6. ASSUME Quiet PROVE reports' = reports /\ handler' = handler /\ records' = records
  BY <1>6, QuietStep DEF adapterVars
<1>7. QED
  BY <1>2, <1>3, <1>4, <1>5, <1>6, StepCases

\* Every step keeps every series under an identifier of a built engine, or none.
LEMMA SeriesStep ==
  ASSUME IInv, [Next]_vars
  PROVE  SeriesOK'
<1>0. AdaptersOK /\ SeriesOK /\ \A e \in Engines : EngineBuilt(e) => engine'[e] = engine[e]
  BY BuiltStays DEF IInv, Assembled
<1> DEFINE Accepted(label) ==
      IF label.outcome = "policy_violation"
      THEN \E e \in Engines : EngineBuilt(e) /\ \E k \in 1..Len(engine[e].ids) :
             label.ruleID = engine[e].ids[k]
      ELSE label.ruleID = NoID
<1>1. \A label : Accepted(label) => Accepted(label)'
  BY <1>0
<1>2. CASE counts' = counts
  BY <1>0, <1>1, <1>2 DEF SeriesOK
<1>3. ASSUME NEW e \in Engines, Report(e) PROVE SeriesOK'
  <2>1. PICK ev \in EventsOf(e) :
          \A m \in Metrics : counts'[m] =
            IF m = engine[e].metrics /\ adapter[m].service \notin NotUTF8
            THEN counts[m] (+) SetToBag({Labels(m, ev)}) ELSE counts[m]
    BY <1>3, ReportEffect
  <2>2. EngineBuilt(e)
    BY <1>3, ReportEffect
  <2>3. \A m \in Metrics : Accepted(Labels(m, ev))
    <3>1. IF ev.outcome = "policy_violation"
          THEN \E k \in 1..Len(engine[e].ids) : ev.ruleID = engine[e].ids[k]
          ELSE ev.ruleID = NoID
      BY <2>2, EventsTyped
    <3>2. \A m \in Metrics : Labels(m, ev).outcome = ev.outcome /\ Labels(m, ev).ruleID = ev.ruleID
      BY DEF Labels
    <3>3. QED
      BY <2>2, <3>1, <3>2
  <2>4. ASSUME NEW m \in Metrics, NEW label \in BagToSet(counts'[m]) PROVE Accepted(label)
    <3>1. IsABag(counts[m]) /\ \A x \in BagToSet(counts[m]) : Accepted(x)
      BY <1>0 DEF AdaptersOK, SeriesOK
    <3> HIDE DEF Accepted
    <3>2. CASE counts'[m] = counts[m]
      BY <2>4, <3>1, <3>2
    <3>3. CASE counts'[m] = counts[m] (+) SetToBag({Labels(m, ev)})
      <4>1. BagToSet(counts[m] (+) SetToBag({Labels(m, ev)}))
              = BagToSet(counts[m]) \cup {Labels(m, ev)}
        BY <3>1, BagAdd
      <4>2. QED
        BY <2>3, <2>4, <3>1, <3>3, <4>1
    <3>4. QED
      BY <2>1, <3>2, <3>3
  <2>5. QED
    BY <1>1, <2>4 DEF SeriesOK
<1>4. ASSUME NEW m \in Metrics, NEW c \in Configs, New(m, c) PROVE counts' = counts
  BY <1>4 DEF New
<1>5. ASSUME NEW l \in Loggers, NEW h \in Handlers, NewLogger(l, h) PROVE counts' = counts
  BY <1>5 DEF NewLogger
<1>6. ASSUME Quiet PROVE counts' = counts
  BY <1>6, QuietStep DEF adapterVars
<1>7. QED
  BY <1>2, <1>3, <1>4, <1>5, <1>6, StepCases

\* Before anything is constructed the invariant holds.
LEMMA InitKeeps == Init => IInv
<1> SUFFICES ASSUME Init PROVE IInv
  OBVIOUS
<1>1. AdaptersOK
  <2>1. \A m \in Metrics : ~MetricsBuilt(m) /\ counts[m] = EmptyBag
    BY DEF Init, AdaptersInit
  <2>2. \A l \in Loggers : ~LoggerBuilt(l) /\ records[l] = EmptyBag
    BY DEF Init, AdaptersInit
  <2>3. /\ adapter \in [Metrics -> AdapterValues] /\ handler \in [Loggers -> Handlers \cup {"nil"}]
        /\ DOMAIN counts = Metrics \cup {"other"} /\ DOMAIN records = Loggers
    BY DEF Init, AdaptersInit, AdapterValues
  <2>4. QED
    BY <2>1, <2>2, <2>3, BagEmpty DEF AdaptersOK
<1>2. NoOrphanCollectors
  <2>1. /\ \A r \in registered : r = [registry |-> "shared", name |-> defaultMetricName,
                                      collector |-> "other"]
        /\ \A m \in Metrics : ~MetricsBuilt(m)
    BY DEF Init, AdaptersInit
  <2>2. QED
    BY <2>1 DEF NoOrphanCollectors
<1>3. EnginesOK
  <2>1. NilEngine \in EngineValues /\ NilEngine.state = "nil" /\ RulesOK(NilEngine.rules, NilEngine.ids)
    BY DEF NilEngine, EngineValues, RulesOK
  <2>2. engine = [e \in Engines |-> NilEngine] /\ id \in [Rules -> IDs]
    BY DEF Init
  <2>3. QED
    BY <2>1, <2>2 DEF EnginesOK, EngineOK
<1>4. GuardOK
  BY DEF Init, GuardOK
<1>5. ReportsOK
  BY BoundsAssumption DEF Init, ReportsOK
<1>6. CountsOK /\ LogsOK
  BY DEF Init, AdaptersInit, CountsOK, LogsOK
<1>7. SeriesOK
  <2>1. \A m \in Metrics : counts[m] = EmptyBag
    BY DEF Init, AdaptersInit
  <2>2. QED
    BY <2>1, BagEmpty DEF SeriesOK
<1>8. QED
  BY <1>1, <1>2, <1>3, <1>4, <1>5, <1>6, <1>7 DEF IInv, Assembled

\* The invariant holds in every reachable state.
LEMMA IInvHolds == Spec => []IInv
<1>1. IInv /\ [Next]_vars => IInv'
  BY AdaptersStep, RegistryStep, EnginesStep, GuardStep, ReportsStep, CountsStep, LogsStep,
     SeriesStep DEF IInv, Assembled
<1>2. QED
  BY <1>1, InitKeeps, PTL DEF Spec

-----------------------------------------------------------------------------
(* The theorems.                                                           *)

\* Whatever errors the application ignores, NewGuardedDB of both wrappers and
\* NewEngine only ever stand on what was really constructed.
THEOREM NilStopsTheNext == Spec => []BuiltOnlyOnBuilt
<1>1. IInv => BuiltOnlyOnBuilt
  BY DEF IInv, Assembled, GuardOK, EnginesOK, EngineOK, BuiltOnlyOnBuilt
<1>2. QED
  BY <1>1, IInvHolds, PTL

\* NewEngine returns an engine only with one acceptable, distinct identifier for
\* each rule, even if the rules answer ID() differently while they are checked.
THEOREM BuiltEnginesAreSound == Spec => []EngineIsSound
<1>1. ASSUME IInv PROVE EngineIsSound
  <2>1. SUFFICES ASSUME NEW e \in Engines, EngineBuilt(e), NEW k \in 1..Len(engine[e].ids)
                 PROVE  /\ Len(engine[e].ids[k]) \in 1..maxRuleIDLength
                        /\ engine[e].ids[k][1][1] = "alnum"
                        /\ \A n \in 1..Len(engine[e].ids[k]) : engine[e].ids[k][n][1] # "other"
    BY <1>1 DEF IInv, Assembled, EnginesOK, EngineOK, RulesOK, EngineIsSound
  <2> DEFINE x == engine[e].ids[k]
  <2>2. x \in IDs /\ validRuleID(x)
    BY <1>1, <2>1 DEF IInv, Assembled, EnginesOK, EngineOK, RulesOK, EngineValues
  <2> HIDE DEF x
  <2>3. x \in Seq({"alnum", "sep", "other"} \X Nat)
    BY <2>2, IDsAssumption
  <2>4. Len(x) \in 1..maxRuleIDLength /\ 1 \in 1..Len(x)
    BY <2>2, <2>3, BoundsAssumption DEF validRuleID
  <2>5. x[1][1] = "alnum"
    BY <2>2, <2>4 DEF validRuleID, isASCIIAlphaNumeric
  <2>6. \A n \in 1..Len(x) : x[n][1] # "other"
    BY <2>2 DEF validRuleID, isASCIIAlphaNumeric
  <2>7. QED
    BY <2>4, <2>5, <2>6 DEF x
<1>2. QED
  BY <1>1, IInvHolds, PTL

\* RecordValidation of each adapter has counted the validations reported to it,
\* once each and no others, however many adapters, engines and registries share
\* the process.
THEOREM CountersAreExact == Spec => []CountsAreExact
<1>1. ASSUME IInv PROVE CountsAreExact
  <2>1. SUFFICES ASSUME NEW m \in Metrics, MetricsBuilt(m), adapter[m].service \notin NotUTF8
                 PROVE  Counted(m)
    BY DEF CountsAreExact
  <2>2. CountOK(m) /\ adapter[m].collector = m /\ IsABag(counts[m])
    BY <1>1, <2>1 DEF IInv, Assembled, CountsOK, AdaptersOK
  <2>3. AllEvents \subseteq Events
    BY <1>1 DEF IInv, ReportsOK, AllEvents
  <2>4. ASSUME NEW label \in BagToSet(counts[m])
        PROVE  \E event \in AllEvents : label = Labels(m, event) /\ ReportedTo(m, event) > 0
    <3>1. PICK event \in Events : label = Labels(m, event)
      BY <2>2, <2>4 DEF CountOK
    <3>2. Copies(label, counts[m]) \in Nat /\ Copies(label, counts[m]) > 0
      BY <2>2, <2>4 DEF IsABag, Copies, BagIn, BagToSet
    <3>3. ReportedTo(m, event) > 0
      BY <2>2, <3>1, <3>2 DEF CountOK
    <3>4. event \in AllEvents
      <4> DEFINE R == {e \in Engines : engine[e].metrics = m}
      <4>1. Count(reports, R, event) # 0
        BY <3>3, ReportedIsCount DEF ReportedTo
      <4>2. R \in SUBSET Engines
        OBVIOUS
      <4> HIDE DEF R
      <4>3. \E e \in R : \E k \in 1..Len(reports[e]) : reports[e][k] = event
        BY <4>1, <4>2, SomethingReported
      <4>4. QED
        BY <4>2, <4>3 DEF AllEvents
    <3>5. QED
      BY <3>1, <3>3, <3>4
  <2>5. QED
    BY <2>2, <2>3, <2>4 DEF Counted, CountOK
<1>2. QED
  BY <1>1, IInvHolds, PTL

\* The rule_id label of a counter is empty or an identifier NewEngine accepted,
\* never one a rule has taken since.
THEOREM SeriesStayBounded == Spec => []SeriesAreBounded
<1>1. ASSUME IInv PROVE SeriesAreBounded
  <2>1. \A e \in Engines : \A k \in 1..Len(engine[e].ids) : validRuleID(engine[e].ids[k])
    BY <1>1 DEF IInv, Assembled, EnginesOK, EngineOK, RulesOK
  <2>2. QED
    BY <1>1, <2>1 DEF IInv, SeriesOK, SeriesAreBounded
<1>2. QED
  BY <1>1, IInvHolds, PTL

\* prometheus.New registers its own collector when it succeeds and nothing when
\* it fails, and no two collectors share a name in a registry.
THEOREM RegistriesAreClean == Spec => []NoOrphanCollectors
<1>1. IInv => NoOrphanCollectors
  BY DEF IInv, Assembled
<1>2. QED
  BY <1>1, IInvHolds, PTL

\* For every handler, whatever it turns down or fails to keep: LogValidation puts
\* each validation reported to the logger to it once, at the level of its outcome.
THEOREM HandlersAreTold == Spec => []ValidationsReachTheHandler
<1>1. ASSUME IInv PROVE ValidationsReachTheHandler
  <2>1. SUFFICES ASSUME NEW l \in Loggers, LoggerBuilt(l), handler[l] # "no handler"
                 PROVE  Logged(l)
    BY DEF ValidationsReachTheHandler
  <2>2. LogOK(l) /\ IsABag(records[l]) /\ AllEvents \subseteq Events
    <3>1. LogOK(l)
      BY <1>1, <2>1 DEF IInv, LogsOK
    <3>2. IsABag(records[l])
      BY <1>1, <2>1 DEF IInv, Assembled, AdaptersOK
    <3>3. AllEvents \subseteq Events
      BY <1>1 DEF IInv, ReportsOK, AllEvents
    <3>4. QED
      BY <3>1, <3>2, <3>3
  <2>3. \A event \in Events : validationLevel(event.outcome) = LevelOf[event.outcome]
    BY DEF Events, Outcomes, Rejecting, validationLevel, LevelOf
  <2>4. ASSUME NEW event \in Events
        PROVE  Answered(l, event, "disabled") + Answered(l, event, "kept")
                 + Answered(l, event, "failed") = ReportedToLogger(l, event)
    <3>1. \A answer : Answered(l, event, answer) = Copies(Entry(event, answer), records[l])
      BY <2>3 DEF Answered, Entry
    <3>2. QED
      BY <2>2, <3>1 DEF LogOK, Asked
  <2>5. ASSUME NEW entry \in BagToSet(records[l])
        PROVE  /\ entry.level = LevelOf[entry.event.outcome]
               /\ ReportedToLogger(l, entry.event) > 0
    <3>1. PICK event \in Events, answer \in Answers : entry = Entry(event, answer)
      BY <2>2, <2>5 DEF LogOK
    <3>2. entry.event = event /\ entry.level = LevelOf[event.outcome]
      BY <2>3, <3>1 DEF Entry
    <3>3. Copies(entry, records[l]) > 0 /\ \A y : Copies(y, records[l]) \in Nat
      BY <2>2, <2>5 DEF IsABag, Copies, BagIn, BagToSet
    <3>4. answer \in {"disabled", "kept", "failed"}
      BY DEF Answers
    <3>5. Asked(event, records[l]) > 0
      <4>1. /\ Copies(Entry(event, "disabled"), records[l]) \in Nat
            /\ Copies(Entry(event, "kept"), records[l]) \in Nat
            /\ Copies(Entry(event, "failed"), records[l]) \in Nat
        BY <3>3
      <4>2. \/ Copies(Entry(event, "disabled"), records[l]) > 0
            \/ Copies(Entry(event, "kept"), records[l]) > 0
            \/ Copies(Entry(event, "failed"), records[l]) > 0
        BY <3>1, <3>3, <3>4
      <4>3. Asked(event, records[l]) = Copies(Entry(event, "disabled"), records[l])
                                         + Copies(Entry(event, "kept"), records[l])
                                         + Copies(Entry(event, "failed"), records[l])
        BY DEF Asked
      <4>4. QED
        BY <4>1, <4>2, <4>3
    <3>6. QED
      BY <2>2, <3>2, <3>5 DEF LogOK
  <2>6. QED
    BY <2>2, <2>4, <2>5 DEF Logged
<1>2. QED
  BY <1>1, IInvHolds, PTL
=============================================================================
