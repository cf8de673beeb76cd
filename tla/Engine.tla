------------------------------- MODULE Engine -------------------------------
(***************************************************************************)
(* The validation engine of postgres-sqlguard: Validate, Prepare and       *)
(* ValidatePrepared as any number of goroutines run them concurrently.     *)
(*                                                                         *)
(* A call is one invocation by one goroutine.  Between two of its steps    *)
(* other calls run, the caller's context may be canceled and a rule with   *)
(* state of its own may change its mind.  An engine is immutable once      *)
(* NewEngine has returned, so it is a constant here: its rules in          *)
(* registration order and the sinks that are enabled.  What the parser     *)
(* makes of an input is a constant too (module SyntaxTree).                *)
(***************************************************************************)
EXTENDS Naturals, Sequences

CONSTANTS
  Calls,              \* invocations of the engine's methods
  Engines,            \* engines in the process; a Prepared may cross them
  Rules,              \* Rules[e]: rule identifiers in registration order
  MetricsOn,          \* engines with a non-nil Metrics
  LoggerOn,           \* engines with a non-nil Logger
  Inputs,             \* SQL texts
  Malformed,          \* the inputs parser.Parse refuses
  Statements,         \* statement roots
  StatementSequence,  \* the traversal's sequence for every other input
  RuleIDs,            \* identifiers NewEngine accepted
  Stateful,           \* <<rule, statement>> pairs whose answer may change
  NoRule,             \* the empty rule identifier
  NoPrepared          \* the zero Prepared

ASSUME RulesAssumption == Rules \in [Engines -> Seq(RuleIDs)]
ASSUME StatefulAssumption == Stateful \subseteq RuleIDs \X Statements
ASSUME SinksAssumption == MetricsOn \subseteq Engines /\ LoggerOn \subseteq Engines
ASSUME NonEmptyAssumption == Engines # {} /\ Inputs # {}
ASSUME InputsAssumption == Malformed \subseteq Inputs /\ NoPrepared \notin Inputs
ASSUME SequenceAssumption ==
  StatementSequence \in [Inputs \ Malformed -> Seq(Statements)]
\* validRuleID refuses the empty string.
ASSUME RuleIDAssumption == NoRule \notin RuleIDs

VARIABLES
  pc,           \* where each call is
  op,           \* the method it runs
  engine,       \* its receiver
  sql,          \* the SQL argument of Validate and Prepare
  prepared,     \* the Prepared being validated
  i,            \* statement index of the outer loop
  j,            \* rule index of the inner loop
  err,          \* the error the call returns
  event,        \* the terminal event built by finishValidation
  metricsSeen,  \* events the metrics sink was called with, per call
  loggerSeen,   \* events the logger was called with, per call
  canceledAt,   \* where the call was when its context ended, or "never"
  rejects,      \* <<rule, statement>> pairs the rules reject at the moment
  pool,         \* Prepared values the application holds
  approved,     \* history: <<statement, rule>> indices a rule allowed
  lateEvals,    \* history: rule evaluations made on a canceled context
  standing      \* history: pairs rejected ever since the call was invoked

callVars == <<op, engine, sql>>
loopVars == <<prepared, i, j>>
sinkVars == <<metricsSeen, loggerSeen>>
resultVars == <<err, event>>
history == <<approved, lateEvals, standing>>
vars == <<pc, callVars, loopVars, resultVars, sinkVars, canceledAt, rejects,
          pool, history>>

-----------------------------------------------------------------------------
(* Errors, outcomes and events.                                            *)

Ops == {"Validate", "Prepare", "ValidatePrepared"}

Outcomes == {"allowed", "policy_violation", "parser_failure", "canceled",
             "invalid_prepared"}

\* The errors a call can return; only a Violation carries an identifier.
Errors ==
  [type : {"nil", "context", "parse", "invalid_prepared"}, ruleID : {NoRule}]
    \cup [type : {"violation"}, ruleID : RuleIDs]

Error(t) == [type |-> t, ruleID |-> NoRule]

\* Whatever the backend reports becomes one ParseError; no property tells its
\* categories apart.
translateParserError == Error("parse")

newViolation(r) == [type |-> "violation", ruleID |-> r]

\* ValidationModeEnforce is the only mode, so an event is outcome and rule.
newValidationEvent(outcome, r) ==
  [outcome |-> outcome,
   ruleID  |-> IF outcome # "policy_violation" THEN NoRule ELSE r]

Events == [outcome : Outcomes, ruleID : RuleIDs \cup {NoRule}]
NoEvent == [outcome |-> "none", ruleID |-> NoRule]

Before == {"prepare", "parse", "parsed", "validate"}
Looping == {"loop", "evaluate"}
Emitting == {"metrics", "logger"}
Locations == {"idle", "done", "panicked"} \cup Before \cup Looping \cup Emitting

-----------------------------------------------------------------------------
(* Steps shared by the methods.                                            *)

Goto(c, l) == pc' = [pc EXCEPT ![c] = l]

\* ctx.Err() # nil
ctxErr(c) == canceledAt[c] # "never"

\* The terminal event is built here and handed to the sinks one by one
\* before the call returns its error.
finishValidation(c, outcome, r, error) ==
  /\ event' = [event EXCEPT ![c] = newValidationEvent(outcome, r)]
  /\ err' = [err EXCEPT ![c] = error]
  /\ Goto(c, "metrics")

FinishCanceled(c) == finishValidation(c, "canceled", NoRule, Error("context"))

SequenceOf(p) == StatementSequence[p]
RulesOf(c) == Rules[engine[c]]

\* Fault: the last statement is taken for the end of the sequence.
ExhaustedOffByOne(c) ==
  i[c] >= Len(SequenceOf(prepared[c])) \/ RulesOf(c) = << >>

\* Nothing is left to evaluate: the statements are used up, or there are none
\* to use because an engine without rules runs no inner loop.
Exhausted(c) == i[c] > Len(SequenceOf(prepared[c])) \/ RulesOf(c) = << >>

\* Fault: the rules are taken from the last registered to the first.
CurrentRuleReversed(c) == RulesOf(c)[Len(RulesOf(c)) + 1 - j[c]]

CurrentRule(c) == RulesOf(c)[j[c]]
CurrentStatement(c) == SequenceOf(prepared[c])[i[c]]

\* Fault: a Prepared that the same engine has allowed before is not asked about
\* again.
RejectedUnlessRemembered(c) ==
  /\ <<CurrentRule(c), CurrentStatement(c)>> \in rejects
  /\ ~ \E d \in Calls : /\ pc[d] = "done" /\ event[d].outcome = "allowed"
                        /\ prepared[d] = prepared[c] /\ engine[d] = engine[c]

\* Rule.Evaluate: rules may keep state, so the answer is the one of now.
Rejected(c) == <<CurrentRule(c), CurrentStatement(c)>> \in rejects

\* Fault: the first rule that allows a statement ends the inner loop.
AdvanceAfterFirstRule(c) ==
  i' = [i EXCEPT ![c] = @ + 1] /\ j' = [j EXCEPT ![c] = 1]

\* The next iteration of the two loops.
Advance(c) ==
  IF j[c] < Len(RulesOf(c))
  THEN /\ j' = [j EXCEPT ![c] = @ + 1]
       /\ UNCHANGED i
  ELSE /\ i' = [i EXCEPT ![c] = @ + 1]
       /\ j' = [j EXCEPT ![c] = 1]

-----------------------------------------------------------------------------
(* Prepare.                                                                *)

PrepareCheck(c) ==
  /\ pc[c] = "prepare"
  /\ \/ ctxErr(c) /\ FinishCanceled(c)
     \/ ~ctxErr(c) /\ Goto(c, "parse") /\ UNCHANGED resultVars
  /\ UNCHANGED <<callVars, loopVars, sinkVars, canceledAt, rejects, pool, history>>

\* parser.Parse is synchronous: it ends whatever happens to the context.
Parse(c) ==
  /\ pc[c] = "parse"
  /\ Goto(c, "parsed")
  /\ UNCHANGED <<callVars, loopVars, resultVars, sinkVars, canceledAt, rejects,
                 pool, history>>

\* Fault: the parser's verdict is looked at before the context.
ParseOutcomeVerdictFirst(c) ==
  IF sql[c] \in Malformed THEN "parser_failure"
  ELSE IF ctxErr(c) THEN "canceled" ELSE "parsed"

\* Fault: the parser's error is dropped.
ParseOutcomeErrorDropped(c) == IF ctxErr(c) THEN "canceled" ELSE "parsed"

\* The context is looked at before the parser's verdict.
ParseOutcome(c) ==
  IF ctxErr(c) THEN "canceled"
  ELSE IF sql[c] \in Malformed THEN "parser_failure" ELSE "parsed"

ParsedCheck(c) ==
  /\ pc[c] = "parsed"
  /\ \/ /\ ParseOutcome(c) = "canceled"
        /\ FinishCanceled(c)
        /\ UNCHANGED <<prepared, pool>>
     \/ /\ ParseOutcome(c) = "parser_failure"
        /\ finishValidation(c, "parser_failure", NoRule, translateParserError)
        /\ UNCHANGED <<prepared, pool>>
     \/ /\ ParseOutcome(c) = "parsed"
        /\ prepared' = [prepared EXCEPT ![c] = sql[c]]
        /\ \/ /\ op[c] = "Prepare"          \* returned without an event
              /\ Goto(c, "done")
              /\ pool' = pool \cup {sql[c]}
           \/ /\ op[c] = "Validate"
              /\ Goto(c, "validate")
              /\ UNCHANGED pool
        /\ UNCHANGED resultVars
  /\ UNCHANGED <<callVars, i, j, sinkVars, canceledAt, rejects, history>>

-----------------------------------------------------------------------------
(* ValidatePrepared.                                                       *)

\* The context is looked at before the prepared value.
ValidateOutcome(c) ==
  IF ctxErr(c) THEN "canceled"
  ELSE IF prepared[c] = NoPrepared THEN "invalid_prepared" ELSE "valid"

ValidateCheck(c) ==
  /\ pc[c] = "validate"
  /\ \/ ValidateOutcome(c) = "canceled" /\ FinishCanceled(c)
     \/ /\ ValidateOutcome(c) = "invalid_prepared"
        /\ finishValidation(c, "invalid_prepared", NoRule, Error("invalid_prepared"))
     \/ /\ ValidateOutcome(c) = "valid"
        /\ Goto(c, "loop")
        /\ UNCHANGED resultVars
  /\ UNCHANGED <<callVars, loopVars, sinkVars, canceledAt, rejects, pool, history>>

\* Fault: the context is looked at once, before the loops.
LoopHeadUnchecked(c) ==
  /\ pc[c] = "loop"
  /\ \/ Exhausted(c) /\ finishValidation(c, "allowed", NoRule, Error("nil"))
     \/ ~Exhausted(c) /\ Goto(c, "evaluate") /\ UNCHANGED resultVars
  /\ UNCHANGED <<callVars, loopVars, sinkVars, canceledAt, rejects, pool, history>>

\* The head of the loops: leave them, stop on a canceled context, or go on to
\* the rule.
LoopHead(c) ==
  /\ pc[c] = "loop"
  /\ \/ Exhausted(c) /\ finishValidation(c, "allowed", NoRule, Error("nil"))
     \/ ~Exhausted(c) /\ ctxErr(c) /\ FinishCanceled(c)
     \/ ~Exhausted(c) /\ ~ctxErr(c) /\ Goto(c, "evaluate") /\ UNCHANGED resultVars
  /\ UNCHANGED <<callVars, loopVars, sinkVars, canceledAt, rejects, pool, history>>

Evaluate(c) ==
  /\ pc[c] = "evaluate"
  /\ \/ /\ Rejected(c)
        /\ finishValidation(c, "policy_violation", CurrentRule(c),
                            newViolation(CurrentRule(c)))
        /\ UNCHANGED <<loopVars, approved>>
     \/ /\ ~Rejected(c)
        /\ approved' = [approved EXCEPT ![c] = @ \cup {<<i[c], j[c]>>}]
        /\ Advance(c)
        /\ Goto(c, "loop")
        /\ UNCHANGED <<prepared, resultVars>>
  /\ lateEvals' = [lateEvals EXCEPT ![c] = IF ctxErr(c) THEN @ + 1 ELSE @]
  /\ UNCHANGED <<callVars, sinkVars, canceledAt, rejects, pool, standing>>

\* A panic of application code in Evaluate is not recovered: it unwinds the
\* call before finishValidation.
RulePanic(c) ==
  /\ pc[c] = "evaluate"
  /\ Goto(c, "panicked")
  /\ UNCHANGED <<callVars, loopVars, resultVars, sinkVars, canceledAt, rejects,
                 pool, history>>

-----------------------------------------------------------------------------
(* The sinks, called one after the other by finishValidation.              *)

SinkResults == {"nil", "error", "panic"}

\* Fault: a panic of one sink skips the rest of finishValidation.
isolatePanicSkips(result, next) == IF result = "panic" THEN "done" ELSE next

\* Where a call is after a sink has answered with result: the deferred
\* recover discards an error and a panic alike.
isolateObservabilityFailure(result, next) == next

EmitMetrics(c) ==
  /\ pc[c] = "metrics"
  /\ \/ /\ engine[c] \in MetricsOn
        /\ metricsSeen' = [metricsSeen EXCEPT ![c] = Append(@, event[c])]
        /\ \E r \in SinkResults : Goto(c, isolateObservabilityFailure(r, "logger"))
     \/ /\ engine[c] \notin MetricsOn
        /\ Goto(c, "logger")
        /\ UNCHANGED metricsSeen
  /\ UNCHANGED <<callVars, loopVars, resultVars, loggerSeen, canceledAt, rejects,
                 pool, history>>

EmitLogger(c) ==
  /\ pc[c] = "logger"
  /\ \/ /\ engine[c] \in LoggerOn
        /\ loggerSeen' = [loggerSeen EXCEPT ![c] = Append(@, event[c])]
        /\ \E r \in SinkResults : Goto(c, isolateObservabilityFailure(r, "done"))
     \/ /\ engine[c] \notin LoggerOn
        /\ Goto(c, "done")
        /\ UNCHANGED loggerSeen
  /\ UNCHANGED <<callVars, loopVars, resultVars, metricsSeen, canceledAt, rejects,
                 pool, history>>

-----------------------------------------------------------------------------
(* The application: it calls, cancels contexts and changes its rules.      *)

Invoke(c, o, e) ==
  /\ pc[c] = "idle"
  /\ op' = [op EXCEPT ![c] = o]
  /\ engine' = [engine EXCEPT ![c] = e]
  /\ standing' = [standing EXCEPT ![c] = rejects]
  /\ UNCHANGED <<i, j, resultVars, sinkVars, canceledAt, rejects, pool,
                 approved, lateEvals>>

\* Validate prepares first; Prepare stops there.
InvokeWithSQL(c) ==
  \E o \in {"Validate", "Prepare"}, e \in Engines, s \in Inputs :
    /\ Invoke(c, o, e)
    /\ sql' = [sql EXCEPT ![c] = s]
    /\ Goto(c, "prepare")
    /\ UNCHANGED prepared

InvokeWithPrepared(c) ==
  \E e \in Engines, p \in pool :
    /\ Invoke(c, "ValidatePrepared", e)
    /\ prepared' = [prepared EXCEPT ![c] = p]
    /\ Goto(c, "validate")
    /\ UNCHANGED sql

\* Cancellation or an expired deadline, at any point of the call.
Cancel(c) ==
  /\ ~ctxErr(c)
  /\ pc[c] \notin {"done", "panicked"}
  /\ canceledAt' = [canceledAt EXCEPT ![c] = pc[c]]
  /\ UNCHANGED <<pc, callVars, loopVars, resultVars, sinkVars, rejects, pool,
                 history>>

ChangeRule(pair) ==
  /\ rejects' = IF pair \in rejects THEN rejects \ {pair} ELSE rejects \cup {pair}
  /\ standing' = [c \in Calls |-> standing[c] \cap rejects']
  /\ UNCHANGED <<pc, callVars, loopVars, resultVars, sinkVars, canceledAt, pool,
                 approved, lateEvals>>

-----------------------------------------------------------------------------

Init ==
  /\ pc = [c \in Calls |-> "idle"]
  /\ op = [c \in Calls |-> "Validate"]
  /\ engine = [c \in Calls |-> CHOOSE e \in Engines : TRUE]
  /\ sql = [c \in Calls |-> CHOOSE s \in Inputs : TRUE]
  /\ prepared = [c \in Calls |-> NoPrepared]
  /\ i = [c \in Calls |-> 1]
  /\ j = [c \in Calls |-> 1]
  /\ err = [c \in Calls |-> Error("nil")]
  /\ event = [c \in Calls |-> NoEvent]
  /\ metricsSeen = [c \in Calls |-> << >>]
  /\ loggerSeen = [c \in Calls |-> << >>]
  /\ canceledAt = [c \in Calls |-> "never"]
  /\ rejects \in SUBSET (RuleIDs \X Statements)
  /\ pool = {NoPrepared}
  /\ approved = [c \in Calls |-> {}]
  /\ lateEvals = [c \in Calls |-> 0]
  /\ standing = [c \in Calls |-> {}]

\* What the engine does on behalf of a call.
Step(c) ==
  \/ PrepareCheck(c) \/ Parse(c) \/ ParsedCheck(c)
  \/ ValidateCheck(c) \/ LoopHead(c) \/ Evaluate(c) \/ RulePanic(c)
  \/ EmitMetrics(c) \/ EmitLogger(c)

Next ==
  \/ \E c \in Calls :
       Step(c) \/ InvokeWithSQL(c) \/ InvokeWithPrepared(c) \/ Cancel(c)
  \/ \E pair \in Stateful : ChangeRule(pair)

Spec == Init /\ [][Next]_vars

-----------------------------------------------------------------------------
(* Properties.                                                             *)

\* The type invariant.
TypeOK ==
  /\ pc \in [Calls -> Locations]
  /\ op \in [Calls -> Ops]
  /\ engine \in [Calls -> Engines]
  /\ sql \in [Calls -> Inputs]
  /\ prepared \in [Calls -> (Inputs \ Malformed) \cup {NoPrepared}]
  /\ i \in [Calls -> Nat \ {0}]
  /\ j \in [Calls -> Nat \ {0}]
  /\ err \in [Calls -> Errors]
  /\ event \in [Calls -> Events \cup {NoEvent}]
  /\ metricsSeen \in [Calls -> Seq(Events)]
  /\ loggerSeen \in [Calls -> Seq(Events)]
  /\ canceledAt \in [Calls -> Locations \cup {"never"}]
  /\ rejects \subseteq RuleIDs \X Statements
  /\ pool \subseteq (Inputs \ Malformed) \cup {NoPrepared}
  /\ approved \in [Calls -> SUBSET (Nat \X Nat)]
  /\ lateEvals \in [Calls -> Nat]
  /\ standing \in [Calls -> SUBSET (RuleIDs \X Statements)]

\* Statement-rule pairs that come before statement s and rule r, statements in
\* traversal order and rules in registration order, of n statements and m rules.
Preceding(n, m, s, r) ==
  {p \in (1..n) \X (1..m) : p[1] < s \/ (p[1] = s /\ p[2] < r)}

PairsBefore(c, s, r) ==
  Preceding(Len(SequenceOf(prepared[c])), Len(RulesOf(c)), s, r)

AllPairs(c) == (1..Len(SequenceOf(prepared[c]))) \X (1..Len(RulesOf(c)))

\* A call is allowed only when the complete input was parsed and every rule of
\* its engine has allowed every statement during this very call: no statement,
\* no rule and no cancellation check ends the double loop of ValidatePrepared
\* early with a nil error.
AllowedMeansFullyChecked ==
  \A c \in Calls : event[c].outcome = "allowed" =>
    /\ prepared[c] \in Inputs \ Malformed
    /\ op[c] = "Validate" => prepared[c] = sql[c]
    /\ approved[c] = AllPairs(c)

\* A Violation names the first rejecting pair in traversal and registration
\* order: exactly the pairs before it were evaluated and allowed, none after
\* it was looked at, and the identifier is the one registered at its place.
FirstViolation ==
  \A c \in Calls : event[c].outcome = "policy_violation" =>
    \E s \in 1..Len(SequenceOf(prepared[c])), r \in 1..Len(RulesOf(c)) :
      /\ event[c].ruleID = RulesOf(c)[r]
      /\ approved[c] = PairsBefore(c, s, r)

\* The outcome finishValidation reports for the error a call returns.
OutcomeOf(error) ==
  [nil |-> "allowed", violation |-> "policy_violation", parse |-> "parser_failure",
   context |-> "canceled", invalid_prepared |-> "invalid_prepared"][error.type]

TerminalEvents(c, enabled) ==
  IF engine[c] \in enabled THEN <<event[c]>> ELSE << >>

\* When a call returns, each enabled sink was called exactly once, with the
\* event of the error that is returned, whatever the other sink did and
\* however many phases the call went through; a successful Prepare and a call
\* a rule's panic unwound have told no sink anything.
OneTerminalEvent ==
  \A c \in Calls :
    /\ pc[c] = "done" =>
         IF op[c] = "Prepare" /\ err[c] = Error("nil")
         THEN metricsSeen[c] = << >> /\ loggerSeen[c] = << >>
         ELSE /\ event[c] = [outcome |-> OutcomeOf(err[c]), ruleID |-> err[c].ruleID]
              /\ metricsSeen[c] = TerminalEvents(c, MetricsOn)
              /\ loggerSeen[c] = TerminalEvents(c, LoggerOn)
    /\ pc[c] = "panicked" => metricsSeen[c] = << >> /\ loggerSeen[c] = << >>

\* A context that ends before the rules are reached wins over everything else
\* the call could report (malformed SQL, a zero Prepared): the call returns the
\* context's error, no rule ran for it, and Prepare has handed out no value.
CancellationPrecedence ==
  \A c \in Calls :
    pc[c] = "done" /\ canceledAt[c] \in {"idle"} \cup Before =>
      /\ err[c] = Error("context")
      /\ approved[c] = {}
      /\ op[c] # "ValidatePrepared" => prepared[c] \in {NoPrepared, sql[c]}
      /\ op[c] = "Prepare" => prepared[c] = NoPrepared

\* However late the context ends, at most one more rule is evaluated, the one
\* the call had already gone on to.
AtMostOneLateRule == \A c \in Calls : lateEvals[c] <= 1

\* Decisions are not carried over from one call to the next: a rule that has
\* rejected a statement ever since a call began cannot have been passed by it,
\* even if the same Prepared was allowed by an earlier call.
DecisionIsFresh ==
  \A c \in Calls : event[c].outcome = "allowed" =>
    \A s \in 1..Len(SequenceOf(prepared[c])), r \in 1..Len(RulesOf(c)) :
      <<RulesOf(c)[r], SequenceOf(prepared[c])[s]>> \notin standing[c]

\* What the specification of the engine says of a context canceled "before or
\* during" validation: the call returns the context's error.
CanceledValidationStops ==
  \A c \in Calls :
    pc[c] = "done" /\ canceledAt[c] \in {"idle"} \cup Before \cup Looping =>
      err[c] = Error("context")

\* The refinement mapping to ValidationContract.
Phase(c) ==
  IF pc[c] = "idle" THEN "idle"
  ELSE IF pc[c] \in Before \cup Looping THEN "open"
  ELSE IF pc[c] \in Emitting THEN "answered"
  ELSE IF pc[c] = "done" THEN "returned" ELSE "unwound"
phaseBar == [c \in Calls |-> Phase(c)]
Subject(c) == IF op[c] = "ValidatePrepared" THEN prepared[c] ELSE sql[c]
subjectBar == [c \in Calls |-> Subject(c)]
canceledBar == [c \in Calls |-> ctxErr(c)]
Told(c) ==
  {x \in {"metrics"} : metricsSeen[c] = <<event[c]>>}
    \cup {x \in {"logger"} : loggerSeen[c] = <<event[c]>>}
toldBar == [c \in Calls |-> Told(c)]

Contract == INSTANCE ValidationContract WITH
  phase <- phaseBar, subject <- subjectBar, canceled <- canceledBar,
  passed <- approved, answer <- err, told <- toldBar

\* The engine's steps implement the contract: its checkpoints, its ordered
\* loops and its two sink calls are one way of keeping the promise.
ImplementsContract == Contract!Spec
=============================================================================
