---------------------------- MODULE EngineProofs ----------------------------
(***************************************************************************)
(* Proofs about Engine, for every set of calls, engines, rules and inputs. *)
(*                                                                         *)
(* TypeOK is not inductive by itself: the rule an evaluation names exists  *)
(* only while the loop indices are in bounds, and a sink is handed an      *)
(* event only if one was built. IInv adds, for each call, where the loops  *)
(* stand and what has been approved so far, and what the event says once   *)
(* it is built. What the sinks are told, what an ended context leads to    *)
(* and that decisions are made anew need further layers over IInv (SInv),  *)
(* and each layer is kept by the same argument: a step keeps what is known *)
(* of its own call and leaves the other calls alone.                       *)
(*                                                                         *)
(* The last part shows that every step is a step of ValidationContract or  *)
(* one the contract does not notice.                                       *)
(***************************************************************************)
EXTENDS Engine, TLAPS

\* Before the rules are reached nothing was evaluated and nothing decided.
NotStarted(c) ==
  pc[c] \in {"idle"} \cup Before =>
    /\ i[c] = 1 /\ j[c] = 1
    /\ approved[c] = {}
    /\ event[c] = NoEvent

\* The method decides where a call may be, and Validate goes on with its input.
OnItsWay(c) ==
  /\ pc[c] \in {"prepare", "parse", "parsed"} => op[c] \in {"Validate", "Prepare"}
  /\ pc[c] \in {"validate"} \cup Looping =>
       /\ op[c] \in {"Validate", "ValidatePrepared"}
       /\ op[c] = "Validate" => prepared[c] = sql[c]

\* In the loops exactly the pairs before the indices have been approved.
InLoop(c) ==
  pc[c] \in Looping =>
    /\ prepared[c] \in Inputs \ Malformed
    /\ i[c] \in 1..(Len(SequenceOf(prepared[c])) + 1)
    /\ RulesOf(c) # << >> => j[c] \in 1..Len(RulesOf(c))
    /\ approved[c] = PairsBefore(c, i[c], j[c])
    /\ event[c] = NoEvent
    /\ pc[c] = "evaluate" => ~Exhausted(c)

\* A sink is told of an event that was built, and it says what happened.
Decision(c) ==
  /\ pc[c] \in Emitting => event[c] \in Events
  /\ event[c] # NoEvent => pc[c] \in Emitting \cup {"done"}
  /\ event[c].outcome = "allowed" =>
       /\ prepared[c] \in Inputs \ Malformed
       /\ op[c] = "Validate" => prepared[c] = sql[c]
       /\ approved[c] = AllPairs(c)
  /\ event[c].outcome = "policy_violation" =>
       \E s \in 1..Len(SequenceOf(prepared[c])), r \in 1..Len(RulesOf(c)) :
         /\ event[c].ruleID = RulesOf(c)[r]
         /\ approved[c] = PairsBefore(c, s, r)

CallInv(c) == NotStarted(c) /\ OnItsWay(c) /\ InLoop(c) /\ Decision(c)

IInv == TypeOK /\ \A c \in Calls : CallInv(c)

-----------------------------------------------------------------------------
(* The order of the statement-rule pairs.                                  *)

\* The first iteration of ValidatePrepared's loops has no pair before it.
LEMMA PrecedingFirst ==
  ASSUME NEW n \in Nat, NEW m \in Nat
  PROVE  Preceding(n, m, 1, 1) = {}
  BY DEF Preceding

\* The next rule of the same statement has one more pair before it.
LEMMA PrecedingNextRule ==
  ASSUME NEW n \in Nat, NEW m \in Nat, NEW s \in 1..n, NEW r \in 1..m
  PROVE  Preceding(n, m, s, r + 1) = Preceding(n, m, s, r) \cup {<<s, r>>}
  BY DEF Preceding

\* So has the first rule of the next statement, after the last rule.
LEMMA PrecedingNextStatement ==
  ASSUME NEW n \in Nat, NEW m \in Nat, NEW s \in 1..n, m > 0
  PROVE  Preceding(n, m, s + 1, 1) = Preceding(n, m, s, m) \cup {<<s, m>>}
  BY DEF Preceding

\* After the last statement every pair is before.
LEMMA PrecedingAll ==
  ASSUME NEW n \in Nat, NEW m \in Nat, NEW r \in Nat
  PROVE  Preceding(n, m, n + 1, r) = (1..n) \X (1..m)
  BY DEF Preceding

\* Without rules there are no pairs at all.
LEMMA PrecedingNone ==
  ASSUME NEW n \in Nat, NEW s \in Nat, NEW r \in Nat
  PROVE  Preceding(n, 0, s, r) = (1..n) \X (1..0)
  BY DEF Preceding

-----------------------------------------------------------------------------
(* A step of one call leaves the other calls alone.                        *)

\* What a call's own goroutine and its context decide.
Local(c) == <<pc[c], op[c], engine[c], sql[c], prepared[c], i[c], j[c], err[c],
              event[c], metricsSeen[c], loggerSeen[c], canceledAt[c],
              approved[c], lateEvals[c]>>

CallStep(c) == Step(c) \/ InvokeWithSQL(c) \/ InvokeWithPrepared(c) \/ Cancel(c)

USE DEF callVars, loopVars, sinkVars, resultVars, history, Goto

\* Engines share no mutable state between calls: nothing a call runs on reads
\* or writes another call's variables.
LEMMA StepIsLocal ==
  ASSUME TypeOK, NEW c \in Calls, NEW d \in Calls, c # d, CallStep(c)
  PROVE  Local(d)' = Local(d)
<1>1. CASE PrepareCheck(c)
  BY <1>1 DEF TypeOK, Local, PrepareCheck, FinishCanceled, finishValidation
<1>2. CASE Parse(c)
  BY <1>2 DEF TypeOK, Local, Parse
<1>3. CASE ParsedCheck(c)
  BY <1>3 DEF TypeOK, Local, ParsedCheck, FinishCanceled, finishValidation
<1>4. CASE ValidateCheck(c)
  BY <1>4 DEF TypeOK, Local, ValidateCheck, FinishCanceled, finishValidation
<1>5. CASE LoopHead(c)
  BY <1>5 DEF TypeOK, Local, LoopHead, FinishCanceled, finishValidation
<1>6. CASE Evaluate(c)
  BY <1>6 DEF TypeOK, Local, Evaluate, Advance, finishValidation
<1>7. CASE RulePanic(c)
  BY <1>7 DEF TypeOK, Local, RulePanic
<1>8. CASE EmitMetrics(c)
  BY <1>8 DEF TypeOK, Local, EmitMetrics
<1>9. CASE EmitLogger(c)
  BY <1>9 DEF TypeOK, Local, EmitLogger
<1>10. CASE InvokeWithSQL(c)
  BY <1>10 DEF TypeOK, Local, InvokeWithSQL, Invoke
<1>11. CASE InvokeWithPrepared(c)
  BY <1>11 DEF TypeOK, Local, InvokeWithPrepared, Invoke
<1>12. CASE Cancel(c)
  BY <1>12 DEF TypeOK, Local, Cancel
<1>13. QED
  BY <1>1, <1>2, <1>3, <1>4, <1>5, <1>6, <1>7, <1>8, <1>9, <1>10, <1>11, <1>12
     DEF CallStep, Step

\* What is known of a call depends on nothing but its own variables.
LEMMA LocalKeepsCallInv ==
  ASSUME NEW d \in Calls, CallInv(d), Local(d)' = Local(d)
  PROVE  CallInv(d)'
  BY DEF Local, CallInv, NotStarted, OnItsWay, InLoop, Decision, PairsBefore,
         AllPairs, SequenceOf, RulesOf, Exhausted

-----------------------------------------------------------------------------
(* Type correctness.                                                       *)

USE DEF Locations, Before, Looping, Emitting, Ops

\* The errors and events finishValidation is called with are well formed.
LEMMA ErrorsAndEvents ==
  /\ \A t \in {"nil", "context", "parse", "invalid_prepared"} : Error(t) \in Errors
  /\ \A r \in RuleIDs : newViolation(r) \in Errors
  /\ \A o \in Outcomes, r \in RuleIDs \cup {NoRule} :
       newValidationEvent(o, r) \in Events
  BY DEF Error, Errors, newViolation, newValidationEvent, Events

ResultTypes == /\ pc \in [Calls -> Locations]
               /\ err \in [Calls -> Errors]
               /\ event \in [Calls -> Events \cup {NoEvent}]

\* finishValidation keeps the types of what it assigns.
LEMMA FinishTyped ==
  ASSUME TypeOK, NEW c \in Calls, NEW o \in Outcomes, NEW r \in RuleIDs \cup {NoRule},
         NEW e \in Errors, finishValidation(c, o, r, e)
  PROVE  ResultTypes'
<1>1. newValidationEvent(o, r) \in Events
  BY ErrorsAndEvents
<1>2. QED
  BY <1>1 DEF TypeOK, finishValidation, ResultTypes

\* So does finishing with the context's error.
LEMMA CanceledTyped ==
  ASSUME TypeOK, NEW c \in Calls, FinishCanceled(c)
  PROVE  ResultTypes'
  BY FinishTyped, ErrorsAndEvents DEF FinishCanceled, Outcomes

\* The rule and the statement an evaluation is about exist.
LEMMA CurrentPairExists ==
  ASSUME TypeOK, NEW c \in Calls, CallInv(c), pc[c] = "evaluate"
  PROVE  /\ i[c] \in 1..Len(SequenceOf(prepared[c]))
         /\ j[c] \in 1..Len(RulesOf(c))
         /\ Len(SequenceOf(prepared[c])) \in Nat /\ Len(RulesOf(c)) \in Nat
         /\ CurrentRule(c) \in RuleIDs
         /\ CurrentStatement(c) \in Statements
<1>1. /\ SequenceOf(prepared[c]) \in Seq(Statements)
      /\ RulesOf(c) \in Seq(RuleIDs)
  BY RulesAssumption, SequenceAssumption
     DEF TypeOK, CallInv, InLoop, SequenceOf, RulesOf
<1>2. QED
  BY <1>1 DEF TypeOK, CallInv, InLoop, Exhausted, CurrentRule, CurrentStatement

\* The loops only count upwards, from one.
LEMMA AdvanceTyped ==
  ASSUME NEW c \in Calls, Advance(c),
         i \in [Calls -> Nat \ {0}], j \in [Calls -> Nat \ {0}]
  PROVE  i' \in [Calls -> Nat \ {0}] /\ j' \in [Calls -> Nat \ {0}]
<1>1. i[c] + 1 \in Nat \ {0} /\ j[c] + 1 \in Nat \ {0} /\ 1 \in Nat \ {0}
  OBVIOUS
<1>2. CASE j[c] < Len(RulesOf(c))
  BY <1>1, <1>2 DEF Advance
<1>3. CASE ~(j[c] < Len(RulesOf(c)))
  BY <1>1, <1>3 DEF Advance
<1>4. QED
  BY <1>2, <1>3

\* Every step of a call and of the application keeps the types.
LEMMA TypePreserved ==
  ASSUME IInv, Next
  PROVE  TypeOK'
<1> USE DEF IInv, TypeOK
<1>1. ASSUME NEW c \in Calls, PrepareCheck(c) PROVE TypeOK'
  <2>1. ResultTypes'
    BY <1>1, CanceledTyped DEF PrepareCheck, ResultTypes
  <2>2. QED
    BY <1>1, <2>1 DEF PrepareCheck, ResultTypes
<1>2. ASSUME NEW c \in Calls, Parse(c) PROVE TypeOK'
  BY <1>2 DEF Parse
<1>3. ASSUME NEW c \in Calls, ParsedCheck(c) PROVE TypeOK'
  <2>1. ResultTypes'
    <3>1. CASE ParseOutcome(c) = "canceled"
      BY <1>3, <3>1, CanceledTyped DEF ParsedCheck
    <3>2. CASE ParseOutcome(c) = "parser_failure"
      BY <1>3, <3>2, FinishTyped, ErrorsAndEvents DEF ParsedCheck, translateParserError, Outcomes
    <3>3. CASE ParseOutcome(c) = "parsed"
      BY <1>3, <3>3 DEF ParsedCheck, ResultTypes
    <3>4. QED
      BY <1>3, <3>1, <3>2, <3>3 DEF ParsedCheck
  <2>2. /\ prepared' \in [Calls -> (Inputs \ Malformed) \cup {NoPrepared}]
        /\ pool' \subseteq (Inputs \ Malformed) \cup {NoPrepared}
    <3>1. CASE ParseOutcome(c) = "parsed"
      <4>1. sql[c] \in Inputs \ Malformed
        BY <3>1 DEF ParseOutcome
      <4>2. QED
        BY <1>3, <3>1, <4>1 DEF ParsedCheck
    <3>2. CASE ParseOutcome(c) # "parsed"
      BY <1>3, <3>2 DEF ParsedCheck
    <3>3. QED
      BY <3>1, <3>2
  <2>3. QED
    BY <1>3, <2>1, <2>2 DEF ParsedCheck, ResultTypes
<1>4. ASSUME NEW c \in Calls, ValidateCheck(c) PROVE TypeOK'
  <2>1. ResultTypes'
    <3>1. CASE ValidateOutcome(c) = "canceled"
      BY <1>4, <3>1, CanceledTyped DEF ValidateCheck
    <3>2. CASE ValidateOutcome(c) = "invalid_prepared"
      BY <1>4, <3>2, FinishTyped, ErrorsAndEvents DEF ValidateCheck, Outcomes
    <3>3. CASE ValidateOutcome(c) = "valid"
      BY <1>4, <3>3 DEF ValidateCheck, ResultTypes
    <3>4. QED
      BY <1>4, <3>1, <3>2, <3>3 DEF ValidateCheck
  <2>2. QED
    BY <1>4, <2>1 DEF ValidateCheck, ResultTypes
<1>5. ASSUME NEW c \in Calls, LoopHead(c) PROVE TypeOK'
  <2>1. ResultTypes'
    <3>1. CASE Exhausted(c)
      BY <1>5, <3>1, FinishTyped, ErrorsAndEvents DEF LoopHead, Outcomes
    <3>2. CASE ~Exhausted(c) /\ ctxErr(c)
      BY <1>5, <3>2, CanceledTyped DEF LoopHead
    <3>3. CASE ~Exhausted(c) /\ ~ctxErr(c)
      BY <1>5, <3>3 DEF LoopHead, ResultTypes
    <3>4. QED
      BY <3>1, <3>2, <3>3
  <2>2. QED
    BY <1>5, <2>1 DEF LoopHead, ResultTypes
<1>6. ASSUME NEW c \in Calls, Evaluate(c) PROVE TypeOK'
  <2>1. /\ CurrentRule(c) \in RuleIDs
        /\ i[c] \in Nat \ {0} /\ j[c] \in Nat \ {0}
    BY <1>6, CurrentPairExists DEF Evaluate
  <2>2. lateEvals' \in [Calls -> Nat]
    BY <1>6 DEF Evaluate
  <2>3. CASE Rejected(c)
    <3>1. ResultTypes'
      BY <1>6, <2>1, <2>3, FinishTyped, ErrorsAndEvents DEF Evaluate, Outcomes
    <3>2. QED
      BY <1>6, <2>2, <2>3, <3>1 DEF Evaluate, ResultTypes
  <2>4. CASE ~Rejected(c)
    <3>1. approved' \in [Calls -> SUBSET (Nat \X Nat)]
      <4>1. approved[c] \cup {<<i[c], j[c]>>} \in SUBSET (Nat \X Nat)
        BY <2>1
      <4>2. approved' = [approved EXCEPT ![c] = approved[c] \cup {<<i[c], j[c]>>}]
        BY <1>6, <2>4 DEF Evaluate
      <4>3. QED
        BY <4>1, <4>2
    <3>2. i' \in [Calls -> Nat \ {0}] /\ j' \in [Calls -> Nat \ {0}]
      <4>1. Advance(c)
        BY <1>6, <2>4 DEF Evaluate
      <4>2. QED
        BY <4>1, AdvanceTyped
    <3>3. QED
      BY <1>6, <2>2, <2>4, <3>1, <3>2 DEF Evaluate
  <2>5. QED
    BY <2>3, <2>4
<1>7. ASSUME NEW c \in Calls, RulePanic(c) PROVE TypeOK'
  BY <1>7 DEF RulePanic
<1>8. ASSUME NEW c \in Calls, EmitMetrics(c) PROVE TypeOK'
  <2>1. Append(metricsSeen[c], event[c]) \in Seq(Events)
    <3>1. event[c] \in Events
      BY <1>8 DEF EmitMetrics, CallInv, Decision
    <3>2. QED
      BY <3>1
  <2>2. metricsSeen' \in [Calls -> Seq(Events)]
    BY <1>8, <2>1 DEF EmitMetrics
  <2>3. pc' \in [Calls -> Locations]
    BY <1>8 DEF EmitMetrics, isolateObservabilityFailure
  <2>4. QED
    BY <1>8, <2>2, <2>3 DEF EmitMetrics
<1>9. ASSUME NEW c \in Calls, EmitLogger(c) PROVE TypeOK'
  <2>1. Append(loggerSeen[c], event[c]) \in Seq(Events)
    <3>1. event[c] \in Events
      BY <1>9 DEF EmitLogger, CallInv, Decision
    <3>2. QED
      BY <3>1
  <2>2. loggerSeen' \in [Calls -> Seq(Events)]
    BY <1>9, <2>1 DEF EmitLogger
  <2>3. pc' \in [Calls -> Locations]
    BY <1>9 DEF EmitLogger, isolateObservabilityFailure
  <2>4. QED
    BY <1>9, <2>2, <2>3 DEF EmitLogger
<1>10. ASSUME NEW c \in Calls, InvokeWithSQL(c) PROVE TypeOK'
  BY <1>10 DEF InvokeWithSQL, Invoke
<1>11. ASSUME NEW c \in Calls, InvokeWithPrepared(c) PROVE TypeOK'
  BY <1>11 DEF InvokeWithPrepared, Invoke
<1>12. ASSUME NEW c \in Calls, Cancel(c) PROVE TypeOK'
  BY <1>12 DEF Cancel
<1>13. ASSUME NEW pair \in Stateful, ChangeRule(pair) PROVE TypeOK'
  BY <1>13, StatefulAssumption DEF ChangeRule
<1>14. QED
  BY <1>1, <1>2, <1>3, <1>4, <1>5, <1>6, <1>7, <1>8, <1>9, <1>10, <1>11, <1>12,
     <1>13 DEF Next, Step

-----------------------------------------------------------------------------
(* The loops and the decision.                                             *)

\* What finishValidation does to its own call when it builds an event for
\* anything but a policy decision.
LEMMA PlainFinish ==
  ASSUME TypeOK, NEW c \in Calls, CallInv(c), event[c] = NoEvent,
         NEW o \in {"canceled", "parser_failure", "invalid_prepared"},
         NEW e, finishValidation(c, o, NoRule, e)
  PROVE  CallInv(c)'
<1>1. pc'[c] = "metrics" /\ event'[c] = [outcome |-> o, ruleID |-> NoRule]
  BY DEF TypeOK, finishValidation, newValidationEvent
<1>2. event'[c] \in Events
  BY <1>1 DEF Events, Outcomes
<1>3. QED
  BY <1>1, <1>2 DEF CallInv, NotStarted, OnItsWay, InLoop, Decision

\* Each step of a call keeps what is known of that call.
LEMMA OwnStep ==
  ASSUME IInv, TypeOK', NEW c \in Calls, CallStep(c)
  PROVE  CallInv(c)'
<1> USE DEF IInv
<1>0. CallInv(c)
  OBVIOUS
<1>1. CASE PrepareCheck(c)
  <2>1. event[c] = NoEvent
    BY <1>0, <1>1 DEF PrepareCheck, CallInv, NotStarted
  <2>2. CASE ctxErr(c)
    BY <1>1, <2>1, <2>2, PlainFinish DEF PrepareCheck, FinishCanceled
  <2>3. CASE ~ctxErr(c)
    BY <1>0, <1>1, <2>3 DEF PrepareCheck, TypeOK, CallInv, NotStarted, OnItsWay,
       InLoop, Decision, NoEvent
  <2>4. QED
    BY <2>2, <2>3
<1>2. CASE Parse(c)
  BY <1>0, <1>2 DEF Parse, TypeOK, CallInv, NotStarted, OnItsWay, InLoop, Decision,
     NoEvent
<1>3. CASE ParsedCheck(c)
  <2>1. event[c] = NoEvent
    BY <1>0, <1>3 DEF ParsedCheck, CallInv, NotStarted
  <2>2. CASE ParseOutcome(c) = "canceled"
    BY <1>3, <2>1, <2>2, PlainFinish DEF ParsedCheck, FinishCanceled
  <2>3. CASE ParseOutcome(c) = "parser_failure"
    BY <1>3, <2>1, <2>3, PlainFinish DEF ParsedCheck
  <2>4. CASE ParseOutcome(c) = "parsed"
    BY <1>0, <1>3, <2>1, <2>4 DEF ParsedCheck, TypeOK, CallInv, NotStarted,
       OnItsWay, InLoop, Decision, NoEvent
  <2>5. QED
    BY <1>3, <2>2, <2>3, <2>4 DEF ParsedCheck
<1>4. CASE ValidateCheck(c)
  <2>1. event[c] = NoEvent
    BY <1>0, <1>4 DEF ValidateCheck, CallInv, NotStarted
  <2>2. CASE ValidateOutcome(c) = "canceled"
    BY <1>4, <2>1, <2>2, PlainFinish DEF ValidateCheck, FinishCanceled
  <2>3. CASE ValidateOutcome(c) = "invalid_prepared"
    BY <1>4, <2>1, <2>3, PlainFinish DEF ValidateCheck
  <2>4. CASE ValidateOutcome(c) = "valid"
    <3>1. /\ pc'[c] = "loop" /\ prepared[c] \in Inputs \ Malformed
          /\ i[c] = 1 /\ j[c] = 1 /\ approved[c] = {}
      BY <1>0, <1>4, <2>4 DEF ValidateCheck, ValidateOutcome, TypeOK, CallInv,
         NotStarted
    <3>2. /\ Len(SequenceOf(prepared[c])) \in Nat /\ Len(RulesOf(c)) \in Nat
          /\ RulesOf(c) # << >> => 1 \in 1..Len(RulesOf(c))
          /\ 1 \in 1..(Len(SequenceOf(prepared[c])) + 1)
      BY <3>1, RulesAssumption, SequenceAssumption DEF TypeOK, SequenceOf, RulesOf
    <3>3. PairsBefore(c, 1, 1) = {}
      BY <3>2, PrecedingFirst DEF PairsBefore
    <3>4. UNCHANGED <<op, engine, sql, prepared, i, j, event, approved>>
      BY <1>4, <2>4 DEF ValidateCheck
    <3>5. QED
      BY <1>0, <1>4, <2>1, <3>1, <3>2, <3>3, <3>4 DEF ValidateCheck, CallInv,
         NotStarted, OnItsWay, InLoop, Decision, NoEvent, PairsBefore, SequenceOf, RulesOf
  <2>5. QED
    BY <1>4, <2>2, <2>3, <2>4 DEF ValidateCheck
<1>5. CASE LoopHead(c)
  <2>0. /\ pc[c] = "loop" /\ event[c] = NoEvent
        /\ prepared[c] \in Inputs \ Malformed
    BY <1>0, <1>5 DEF LoopHead, CallInv, InLoop
  <2>1. CASE Exhausted(c)
    <3>1. /\ pc'[c] = "metrics"
          /\ event'[c] = [outcome |-> "allowed", ruleID |-> NoRule]
          /\ UNCHANGED <<op, engine, sql, prepared, approved>>
      BY <1>5, <2>1 DEF LoopHead, finishValidation, newValidationEvent, TypeOK
    <3>2. event'[c] \in Events
      BY <3>1 DEF Events, Outcomes
    <3>3. approved[c] = AllPairs(c)
      <4>1. SequenceOf(prepared[c]) \in Seq(Statements) /\ RulesOf(c) \in Seq(RuleIDs)
        BY <2>0, RulesAssumption, SequenceAssumption DEF TypeOK, SequenceOf, RulesOf
      <4>2. /\ approved[c] = PairsBefore(c, i[c], j[c]) /\ j[c] \in Nat
            /\ i[c] \in 1..(Len(SequenceOf(prepared[c])) + 1)
        BY <1>0, <2>0 DEF CallInv, InLoop, TypeOK
      <4>3. CASE i[c] > Len(SequenceOf(prepared[c]))
        <5>1. i[c] = Len(SequenceOf(prepared[c])) + 1
          BY <4>1, <4>2, <4>3
        <5>2. Len(SequenceOf(prepared[c])) \in Nat /\ Len(RulesOf(c)) \in Nat
          BY <4>1
        <5>3. PairsBefore(c, Len(SequenceOf(prepared[c])) + 1, j[c]) = AllPairs(c)
          BY <4>2, <5>2, PrecedingAll DEF PairsBefore, AllPairs
        <5>4. QED
          BY <4>2, <5>1, <5>3
      <4>4. CASE RulesOf(c) = << >>
        BY <4>1, <4>2, <4>4, PrecedingNone DEF PairsBefore, AllPairs
      <4>5. QED
        BY <2>1, <4>3, <4>4 DEF Exhausted
    <3>4. op[c] = "Validate" => prepared[c] = sql[c]
      BY <1>0, <2>0 DEF CallInv, OnItsWay
    <3>5. QED
      BY <2>0, <3>1, <3>2, <3>3, <3>4 DEF CallInv, NotStarted, OnItsWay, InLoop,
         Decision, AllPairs, SequenceOf, RulesOf
  <2>2. CASE ~Exhausted(c) /\ ctxErr(c)
    BY <1>5, <2>0, <2>2, PlainFinish DEF LoopHead, FinishCanceled
  <2>3. CASE ~Exhausted(c) /\ ~ctxErr(c)
    BY <1>0, <1>5, <2>0, <2>3 DEF LoopHead, TypeOK, CallInv, NotStarted, OnItsWay,
       InLoop, Decision, NoEvent, PairsBefore, SequenceOf, RulesOf, Exhausted
  <2>4. QED
    BY <2>1, <2>2, <2>3
<1>6. CASE Evaluate(c)
  <2> DEFINE n == Len(SequenceOf(prepared[c]))
             m == Len(RulesOf(c))
  <2>0. /\ pc[c] = "evaluate" /\ event[c] = NoEvent
        /\ prepared[c] \in Inputs \ Malformed
        /\ approved[c] = Preceding(n, m, i[c], j[c])
    BY <1>0, <1>6 DEF Evaluate, CallInv, InLoop, PairsBefore
  <2>1. /\ i[c] \in 1..n /\ j[c] \in 1..m /\ n \in Nat /\ m \in Nat
        /\ CurrentRule(c) \in RuleIDs
    BY <1>0, <2>0, CurrentPairExists
  <2>2. CASE Rejected(c)
    <3>1. /\ pc'[c] = "metrics"
          /\ event'[c] = [outcome |-> "policy_violation", ruleID |-> CurrentRule(c)]
          /\ UNCHANGED <<op, engine, sql, prepared, i, j, approved>>
      BY <1>6, <2>2 DEF Evaluate, finishValidation, newValidationEvent, TypeOK
    <3>2. event'[c] \in Events
      BY <2>1, <3>1 DEF Events, Outcomes
    <3>3. \E s \in 1..n, r \in 1..m :
            /\ event'[c].ruleID = RulesOf(c)[r]
            /\ approved[c] = Preceding(n, m, s, r)
      BY <2>0, <2>1, <3>1 DEF CurrentRule
    <3>4. QED
      BY <2>0, <3>1, <3>2, <3>3 DEF CallInv, NotStarted, OnItsWay, InLoop, Decision,
         PairsBefore, SequenceOf, RulesOf
  <2>3. CASE ~Rejected(c)
    <3>1. /\ pc'[c] = "loop" /\ Advance(c)
          /\ approved'[c] = approved[c] \cup {<<i[c], j[c]>>}
          /\ UNCHANGED <<op, engine, sql, prepared, event>>
      BY <1>6, <2>3 DEF Evaluate, TypeOK
    <3>2. /\ i'[c] \in 1..(n + 1) /\ j'[c] \in 1..m
          /\ approved'[c] = Preceding(n, m, i'[c], j'[c])
      <4>1. CASE j[c] < m
        <5>1. i'[c] = i[c] /\ j'[c] = j[c] + 1
          BY <3>1, <4>1 DEF Advance, TypeOK
        <5>2. QED
          <6>1. Preceding(n, m, i[c], j[c] + 1)
                  = Preceding(n, m, i[c], j[c]) \cup {<<i[c], j[c]>>}
            BY <2>1, PrecedingNextRule
          <6>2. i[c] \in 1..(n + 1) /\ j[c] + 1 \in 1..m
            BY <2>1, <4>1
          <6>3. QED
            BY <2>0, <3>1, <5>1, <6>1, <6>2
      <4>2. CASE ~(j[c] < m)
        <5>1. i'[c] = i[c] + 1 /\ j'[c] = 1 /\ j[c] = m /\ m > 0
          BY <2>1, <3>1, <4>2 DEF Advance, TypeOK
        <5>2. QED
          <6>1. Preceding(n, m, i[c] + 1, 1)
                  = Preceding(n, m, i[c], m) \cup {<<i[c], m>>}
            BY <2>1, <5>1, PrecedingNextStatement
          <6>2. i[c] + 1 \in 1..(n + 1) /\ 1 \in 1..m
            BY <2>1, <5>1
          <6>3. QED
            BY <2>0, <3>1, <5>1, <6>1, <6>2
      <4>3. QED
        BY <4>1, <4>2
    <3>3. /\ op[c] \in {"Validate", "ValidatePrepared"}
          /\ op[c] = "Validate" => prepared[c] = sql[c]
      BY <1>0, <2>0 DEF CallInv, OnItsWay
    <3>4. QED
      BY <2>0, <3>1, <3>2, <3>3 DEF CallInv, NotStarted, OnItsWay, InLoop, Decision,
         NoEvent, PairsBefore, SequenceOf, RulesOf
  <2>4. QED
    BY <2>2, <2>3
<1>7. CASE RulePanic(c)
  BY <1>0, <1>7 DEF RulePanic, TypeOK, CallInv, NotStarted, OnItsWay, InLoop,
     Decision, NoEvent
<1>8. CASE EmitMetrics(c)
  BY <1>0, <1>8 DEF EmitMetrics, isolateObservabilityFailure, TypeOK, CallInv,
     NotStarted, OnItsWay, InLoop, Decision, PairsBefore, AllPairs, SequenceOf, RulesOf
<1>9. CASE EmitLogger(c)
  BY <1>0, <1>9 DEF EmitLogger, isolateObservabilityFailure, TypeOK, CallInv,
     NotStarted, OnItsWay, InLoop, Decision, PairsBefore, AllPairs, SequenceOf, RulesOf
<1>10. CASE InvokeWithSQL(c)
  BY <1>0, <1>10 DEF InvokeWithSQL, Invoke, TypeOK, CallInv, NotStarted, OnItsWay,
     InLoop, Decision, NoEvent
<1>11. CASE InvokeWithPrepared(c)
  BY <1>0, <1>11 DEF InvokeWithPrepared, Invoke, TypeOK, CallInv, NotStarted,
     OnItsWay, InLoop, Decision, NoEvent
<1>12. CASE Cancel(c)
  BY <1>0, <1>12 DEF Cancel, CallInv, NotStarted, OnItsWay, InLoop, Decision,
     PairsBefore, AllPairs, SequenceOf, RulesOf, Exhausted
<1>13. QED
  BY <1>1, <1>2, <1>3, <1>4, <1>5, <1>6, <1>7, <1>8, <1>9, <1>10, <1>11, <1>12
     DEF CallStep, Step

\* A rule that changes its mind changes nothing a call has on record.
LEMMA ChangeRuleIsLocal ==
  ASSUME NEW pair \in Stateful, ChangeRule(pair), NEW d \in Calls
  PROVE  Local(d)' = Local(d)
  BY DEF ChangeRule, Local

\* The invariant is inductive.
LEMMA IInvInductive == IInv /\ [Next]_vars => IInv'
<1> SUFFICES ASSUME IInv, [Next]_vars PROVE IInv'
  OBVIOUS
<1>1. CASE Next
  <2>1. TypeOK'
    BY <1>1, TypePreserved
  <2>2. ASSUME NEW d \in Calls PROVE CallInv(d)'
    <3>1. CASE \E c \in Calls : CallStep(c)
      <4>1. PICK c \in Calls : CallStep(c)
        BY <3>1
      <4>2. CASE c = d
        BY <2>1, <4>1, <4>2, OwnStep
      <4>3. CASE c # d
        BY <4>1, <4>3, StepIsLocal, LocalKeepsCallInv DEF IInv
      <4>4. QED
        BY <4>2, <4>3
    <3>2. CASE \E pair \in Stateful : ChangeRule(pair)
      BY <3>2, ChangeRuleIsLocal, LocalKeepsCallInv DEF IInv
    <3>3. QED
      BY <1>1, <3>1, <3>2 DEF Next, CallStep
  <2>3. QED
    BY <2>1, <2>2 DEF IInv
<1>2. CASE UNCHANGED vars
  <2>1. TypeOK'
    BY <1>2 DEF IInv, TypeOK, vars
  <2>2. ASSUME NEW d \in Calls PROVE CallInv(d)'
    BY <1>2, LocalKeepsCallInv DEF IInv, Local, vars
  <2>3. QED
    BY <2>1, <2>2 DEF IInv
<1>3. QED
  BY <1>1, <1>2

\* It holds before any call is made.
LEMMA IInvInitially == Init => IInv
<1> SUFFICES ASSUME Init PROVE IInv
  OBVIOUS
<1>1. TypeOK
  <2>1. Error("nil") \in Errors
    BY ErrorsAndEvents
  <2>2. QED
    BY <2>1, NonEmptyAssumption DEF Init, TypeOK
<1>2. ASSUME NEW c \in Calls PROVE CallInv(c)
  BY DEF Init, CallInv, NotStarted, OnItsWay, InLoop, Decision, NoEvent
<1>3. QED
  BY <1>1, <1>2 DEF IInv

\* Hence it always holds.
LEMMA AlwaysIInv == Spec => []IInv
  BY IInvInitially, IInvInductive, PTL DEF Spec

-----------------------------------------------------------------------------
(* The theorems.                                                           *)

\* Every variable keeps its type, whatever the calls, engines, rules, inputs
\* and sinks are: in particular a Prepared is never made of malformed SQL, a
\* Violation names a registered rule and a sink is never handed a missing event.
THEOREM TypeCorrect == Spec => []TypeOK
  BY AlwaysIInv, PTL DEF IInv

\* A call that returns nil had every rule of its engine allow every statement
\* of its parsed input during that call: neither ValidatePrepared's loops nor
\* its cancellation checks can end early with a nil error.
THEOREM AllowedIsComplete == Spec => []AllowedMeansFullyChecked
<1>1. IInv => AllowedMeansFullyChecked
  BY DEF IInv, CallInv, Decision, AllowedMeansFullyChecked
<1>2. QED
  BY <1>1, AlwaysIInv, PTL

\* A Violation is the first one in traversal and registration order: exactly the
\* pairs before it were evaluated, and they were allowed.
THEOREM ViolationIsFirst == Spec => []FirstViolation
<1>1. IInv => FirstViolation
  BY DEF IInv, CallInv, Decision, FirstViolation
<1>2. QED
  BY <1>1, AlwaysIInv, PTL

-----------------------------------------------------------------------------
(* The layers: reporting, cancellation, lateness and freshness.            *)

Silent(c) == metricsSeen[c] = << >> /\ loggerSeen[c] = << >>

EventOf(error) == [outcome |-> OutcomeOf(error), ruleID |-> error.ruleID]

Undecided == {"idle", "panicked"} \cup Before \cup Looping

\* An event is built together with the error it reports, and each sink is told
\* when the call passes it.
Reporting(c) ==
  /\ pc[c] \in Undecided => err[c] = Error("nil") /\ event[c] = NoEvent /\ Silent(c)
  /\ pc[c] = "metrics" => Silent(c)
  /\ pc[c] = "logger" =>
       metricsSeen[c] = TerminalEvents(c, MetricsOn) /\ loggerSeen[c] = << >>
  /\ pc[c] = "done" =>
       \/ /\ op[c] = "Prepare" /\ err[c] = Error("nil") /\ event[c] = NoEvent
          /\ Silent(c)
       \/ /\ event[c] # NoEvent
          /\ metricsSeen[c] = TerminalEvents(c, MetricsOn)
          /\ loggerSeen[c] = TerminalEvents(c, LoggerOn)
  /\ event[c] # NoEvent =>
       event[c] = EventOf(err[c]) /\ (op[c] = "Prepare" => err[c] # Error("nil"))

\* A context that ended before the rules keeps the call away from them.
Cancellation(c) ==
  /\ pc[c] \in {"idle", "prepare", "parse", "parsed"} => prepared[c] = NoPrepared
  /\ canceledAt[c] \in {"idle"} \cup Before =>
       /\ pc[c] \notin Looping \cup {"panicked"}
       /\ pc[c] \in Emitting \cup {"done"} =>
            /\ err[c] = Error("context")
            /\ approved[c] = {}
            /\ op[c] # "ValidatePrepared" => prepared[c] \in {NoPrepared, sql[c]}
            /\ op[c] = "Prepare" => prepared[c] = NoPrepared

\* The evaluation that is under way is the first the context can be late for.
Lateness(c) ==
  /\ lateEvals[c] <= 1
  /\ ~ctxErr(c) \/ pc[c] = "evaluate" => lateEvals[c] = 0

\* A pair that was allowed was not rejected at that moment.
Freshness(c) ==
  /\ standing[c] \subseteq rejects
  /\ \A p \in approved[c] :
       <<RulesOf(c)[p[2]], SequenceOf(prepared[c])[p[1]]>> \notin standing[c]

Layers(c) == Reporting(c) /\ Cancellation(c) /\ Lateness(c) /\ Freshness(c)

SInv == IInv /\ \A c \in Calls : Layers(c)

-----------------------------------------------------------------------------
(* What finishValidation leaves behind.                                    *)

\* finishValidation pairs each error with the event that reports it.
LEMMA FinishPairs ==
  ASSUME TypeOK, NEW c \in Calls, NEW o, NEW r, NEW e,
         finishValidation(c, o, r, e), o = OutcomeOf(e), o # "none",
         e.ruleID = IF o = "policy_violation" THEN r ELSE NoRule
  PROVE  /\ pc'[c] = "metrics"
         /\ err'[c] = e
         /\ event'[c] = EventOf(e)
         /\ event'[c] # NoEvent
  BY DEF TypeOK, finishValidation, newValidationEvent, EventOf, NoEvent

\* The errors a call ends with and their outcomes.
LEMMA Outcome ==
  /\ \A t \in {"nil", "context", "parse", "invalid_prepared"} :
       Error(t).ruleID = NoRule
  /\ OutcomeOf(Error("nil")) = "allowed"
  /\ OutcomeOf(Error("context")) = "canceled"
  /\ OutcomeOf(Error("parse")) = "parser_failure"
  /\ OutcomeOf(Error("invalid_prepared")) = "invalid_prepared"
  /\ \A r : /\ OutcomeOf(newViolation(r)) = "policy_violation"
            /\ newViolation(r).ruleID = r
  BY DEF OutcomeOf, Error, newViolation

\* A call that finishes has told nobody yet.
LEMMA FinishReports ==
  ASSUME TypeOK, NEW c \in Calls, Reporting(c), pc[c] \in Undecided, NEW o, NEW r, NEW e,
         finishValidation(c, o, r, e), o = OutcomeOf(e), o # "none",
         e.ruleID = IF o = "policy_violation" THEN r ELSE NoRule,
         op[c] = "Prepare" => e # Error("nil"),
         UNCHANGED <<op, metricsSeen, loggerSeen>>
  PROVE  Reporting(c)'
  BY FinishPairs DEF Reporting, Silent, Undecided

-----------------------------------------------------------------------------
(* Each layer is kept by the steps of its own call.                        *)

\* A call's own step keeps its account of what the sinks were told.
LEMMA ReportingKept ==
  ASSUME IInv, NEW c \in Calls, Reporting(c), CallStep(c)
  PROVE  Reporting(c)'
<1> USE DEF IInv
<1>1. CASE PrepareCheck(c)
  <2>1. CASE ctxErr(c)
    BY <1>1, <2>1, FinishReports, Outcome DEF PrepareCheck, FinishCanceled, Undecided, Error
  <2>2. CASE ~ctxErr(c)
    BY <1>1, <2>2 DEF PrepareCheck, Reporting, Silent, Undecided, TypeOK
  <2>3. QED
    BY <2>1, <2>2
<1>2. CASE Parse(c)
  BY <1>2 DEF Parse, Reporting, Silent, Undecided, TypeOK
<1>3. CASE ParsedCheck(c)
  <2>1. CASE ParseOutcome(c) = "canceled"
    BY <1>3, <2>1, FinishReports, Outcome DEF ParsedCheck, FinishCanceled, Undecided, Error
  <2>2. CASE ParseOutcome(c) = "parser_failure"
    BY <1>3, <2>2, FinishReports, Outcome DEF ParsedCheck, translateParserError, Undecided, Error
  <2>3. CASE ParseOutcome(c) = "parsed"
    BY <1>3, <2>3 DEF ParsedCheck, Reporting, Silent, Undecided, TypeOK
  <2>4. QED
    BY <1>3, <2>1, <2>2, <2>3 DEF ParsedCheck
<1>4. CASE ValidateCheck(c)
  <2>1. CASE ValidateOutcome(c) = "canceled"
    BY <1>4, <2>1, FinishReports, Outcome DEF ValidateCheck, FinishCanceled, Undecided, Error
  <2>2. CASE ValidateOutcome(c) = "invalid_prepared"
    BY <1>4, <2>2, FinishReports, Outcome DEF ValidateCheck, Undecided, Error
  <2>3. CASE ValidateOutcome(c) = "valid"
    BY <1>4, <2>3 DEF ValidateCheck, Reporting, Silent, Undecided, TypeOK
  <2>4. QED
    BY <1>4, <2>1, <2>2, <2>3 DEF ValidateCheck
<1>5. CASE LoopHead(c)
  <2>0. pc[c] = "loop" /\ op[c] # "Prepare"
    BY <1>5 DEF LoopHead, CallInv, OnItsWay
  <2>1. CASE Exhausted(c)
    BY <1>5, <2>0, <2>1, FinishReports, Outcome DEF LoopHead, Undecided
  <2>2. CASE ~Exhausted(c) /\ ctxErr(c)
    BY <1>5, <2>0, <2>2, FinishReports, Outcome DEF LoopHead, FinishCanceled, Undecided
  <2>3. CASE ~Exhausted(c) /\ ~ctxErr(c)
    BY <1>5, <2>3 DEF LoopHead, Reporting, Silent, Undecided, TypeOK
  <2>4. QED
    BY <2>1, <2>2, <2>3
<1>6. CASE Evaluate(c)
  <2>0. pc[c] = "evaluate" /\ op[c] # "Prepare"
    BY <1>6 DEF Evaluate, CallInv, OnItsWay
  <2>1. CASE Rejected(c)
    BY <1>6, <2>0, <2>1, FinishReports, Outcome DEF Evaluate, Undecided
  <2>2. CASE ~Rejected(c)
    BY <1>6, <2>2 DEF Evaluate, Reporting, Silent, Undecided, TypeOK
  <2>3. QED
    BY <2>1, <2>2
<1>7. CASE RulePanic(c)
  BY <1>7 DEF RulePanic, Reporting, Silent, Undecided, TypeOK
<1>8. CASE EmitMetrics(c)
  <2>1. /\ pc[c] = "metrics" /\ pc'[c] = "logger" /\ Silent(c)
        /\ UNCHANGED <<op, engine, err, event, loggerSeen>>
    BY <1>8 DEF EmitMetrics, isolateObservabilityFailure, Reporting, TypeOK
  <2>2. metricsSeen'[c] = TerminalEvents(c, MetricsOn)
    BY <1>8, <2>1 DEF EmitMetrics, TypeOK, Silent, TerminalEvents
  <2>3. QED
    BY <2>1, <2>2 DEF Reporting, Silent, Undecided, TerminalEvents
<1>9. CASE EmitLogger(c)
  <2>1. /\ pc[c] = "logger" /\ pc'[c] = "done" /\ loggerSeen[c] = << >>
        /\ metricsSeen[c] = TerminalEvents(c, MetricsOn)
        /\ UNCHANGED <<op, engine, err, event, metricsSeen>>
    BY <1>9 DEF EmitLogger, isolateObservabilityFailure, Reporting, TypeOK
  <2>2. loggerSeen'[c] = TerminalEvents(c, LoggerOn)
    BY <1>9, <2>1 DEF EmitLogger, TypeOK, TerminalEvents
  <2>3. event[c] # NoEvent
    BY <2>1 DEF CallInv, Decision, Events, Outcomes, NoEvent
  <2>4. QED
    BY <2>1, <2>2, <2>3 DEF Reporting, Silent, Undecided, TerminalEvents
<1>10. CASE InvokeWithSQL(c)
  BY <1>10 DEF InvokeWithSQL, Invoke, Reporting, Silent, Undecided, TypeOK
<1>11. CASE InvokeWithPrepared(c)
  BY <1>11 DEF InvokeWithPrepared, Invoke, Reporting, Silent, Undecided, TypeOK
<1>12. CASE Cancel(c)
  BY <1>12 DEF Cancel, Reporting, Silent, Undecided, TerminalEvents
<1>13. QED
  BY <1>1, <1>2, <1>3, <1>4, <1>5, <1>6, <1>7, <1>8, <1>9, <1>10, <1>11, <1>12
     DEF CallStep, Step

\* A call's own step keeps what an ended context must lead to.
LEMMA CancellationKept ==
  ASSUME IInv, NEW c \in Calls, Cancellation(c), CallStep(c)
  PROVE  Cancellation(c)'
<1> USE DEF IInv
<1>1. CASE PrepareCheck(c)
  BY <1>1 DEF PrepareCheck, FinishCanceled, finishValidation, ctxErr, Cancellation,
     CallInv, NotStarted, TypeOK
<1>2. CASE Parse(c)
  BY <1>2 DEF Parse, Cancellation, TypeOK
<1>3. CASE ParsedCheck(c)
  BY <1>3 DEF ParsedCheck, ParseOutcome, FinishCanceled, finishValidation, ctxErr,
     Cancellation, CallInv, NotStarted, TypeOK
<1>4. CASE ValidateCheck(c)
  BY <1>4 DEF ValidateCheck, ValidateOutcome, FinishCanceled, finishValidation, ctxErr,
     Cancellation, CallInv, NotStarted, OnItsWay, TypeOK
<1>5. CASE LoopHead(c)
  BY <1>5 DEF LoopHead, FinishCanceled, finishValidation, Cancellation, TypeOK
<1>6. CASE Evaluate(c)
  BY <1>6 DEF Evaluate, finishValidation, Cancellation, TypeOK
<1>7. CASE RulePanic(c)
  BY <1>7 DEF RulePanic, Cancellation, TypeOK
<1>8. CASE EmitMetrics(c)
  BY <1>8 DEF EmitMetrics, isolateObservabilityFailure, Cancellation, TypeOK
<1>9. CASE EmitLogger(c)
  BY <1>9 DEF EmitLogger, isolateObservabilityFailure, Cancellation, TypeOK
<1>10. CASE InvokeWithSQL(c)
  BY <1>10 DEF InvokeWithSQL, Invoke, Cancellation, TypeOK
<1>11. CASE InvokeWithPrepared(c)
  BY <1>11 DEF InvokeWithPrepared, Invoke, Cancellation, TypeOK
<1>12. CASE Cancel(c)
  BY <1>12 DEF Cancel, ctxErr, Cancellation, TypeOK
<1>13. QED
  BY <1>1, <1>2, <1>3, <1>4, <1>5, <1>6, <1>7, <1>8, <1>9, <1>10, <1>11, <1>12
     DEF CallStep, Step

\* A call's own step keeps its account of rules run after the end of the context.
LEMMA LatenessKept ==
  ASSUME IInv, NEW c \in Calls, Lateness(c), CallStep(c)
  PROVE  Lateness(c)'
<1> USE DEF IInv
<1>1. CASE PrepareCheck(c) \/ Parse(c) \/ ParsedCheck(c) \/ ValidateCheck(c)
  BY <1>1 DEF PrepareCheck, Parse, ParsedCheck, ValidateCheck, FinishCanceled,
     finishValidation, Lateness, ctxErr, TypeOK
<1>2. CASE LoopHead(c)
  BY <1>2 DEF LoopHead, FinishCanceled, finishValidation, Lateness, ctxErr, TypeOK
<1>3. CASE Evaluate(c)
  <2>1. pc[c] = "evaluate" /\ lateEvals[c] = 0 /\ pc'[c] # "evaluate"
    BY <1>3 DEF Evaluate, finishValidation, Lateness, TypeOK
  <2>2. lateEvals'[c] = IF ctxErr(c) THEN 1 ELSE 0
    BY <1>3, <2>1 DEF Evaluate, TypeOK
  <2>3. UNCHANGED canceledAt
    BY <1>3 DEF Evaluate
  <2>4. QED
    BY <2>1, <2>2, <2>3 DEF Lateness, ctxErr
<1>4. CASE RulePanic(c) \/ EmitMetrics(c) \/ EmitLogger(c)
  BY <1>4 DEF RulePanic, EmitMetrics, EmitLogger, isolateObservabilityFailure,
     Lateness, ctxErr, TypeOK
<1>5. CASE InvokeWithSQL(c) \/ InvokeWithPrepared(c)
  BY <1>5 DEF InvokeWithSQL, InvokeWithPrepared, Invoke, Lateness, ctxErr, TypeOK
<1>6. CASE Cancel(c)
  BY <1>6 DEF Cancel, Lateness, ctxErr, TypeOK
<1>7. QED
  BY <1>1, <1>2, <1>3, <1>4, <1>5, <1>6 DEF CallStep, Step

\* A call's own step keeps its decision made of answers of this call.
LEMMA FreshnessKept ==
  ASSUME IInv, NEW c \in Calls, Freshness(c), CallStep(c)
  PROVE  Freshness(c)'
<1> USE DEF IInv
<1>1. CASE ParsedCheck(c)
  BY <1>1 DEF ParsedCheck, Freshness, CallInv, NotStarted
<1>2. CASE Evaluate(c)
  <2>1. UNCHANGED <<standing, rejects, engine, prepared>>
    BY <1>2 DEF Evaluate
  <2>2. CASE Rejected(c)
    BY <1>2, <2>1, <2>2 DEF Evaluate, Freshness, RulesOf, SequenceOf
  <2>3. CASE ~Rejected(c)
    <3>1. approved'[c] = approved[c] \cup {<<i[c], j[c]>>}
      BY <1>2, <2>3 DEF Evaluate, TypeOK
    <3>2. <<RulesOf(c)[j[c]], SequenceOf(prepared[c])[i[c]]>> \notin standing[c]
      BY <2>3 DEF Rejected, CurrentRule, CurrentStatement, Freshness
    <3>3. QED
      BY <2>1, <3>1, <3>2 DEF Freshness, RulesOf, SequenceOf
  <2>4. QED
    BY <2>2, <2>3
<1>3. CASE InvokeWithSQL(c)
  BY <1>3 DEF InvokeWithSQL, Invoke, Freshness, CallInv, NotStarted, TypeOK
<1>4. CASE InvokeWithPrepared(c)
  BY <1>4 DEF InvokeWithPrepared, Invoke, Freshness, CallInv, NotStarted, TypeOK
<1>5. CASE \/ PrepareCheck(c) \/ Parse(c) \/ ValidateCheck(c) \/ LoopHead(c)
           \/ RulePanic(c) \/ EmitMetrics(c) \/ EmitLogger(c) \/ Cancel(c)
  <2>1. UNCHANGED <<standing, rejects, engine, prepared, approved>>
    BY <1>5 DEF PrepareCheck, Parse, ValidateCheck, LoopHead, RulePanic, EmitMetrics,
       EmitLogger, Cancel
  <2>2. QED
    BY <2>1 DEF Freshness, RulesOf, SequenceOf
<1>6. QED
  BY <1>1, <1>2, <1>3, <1>4, <1>5 DEF CallStep, Step

-----------------------------------------------------------------------------
(* The other calls.                                                        *)

\* What is on record about a call does not change while its variables do not
\* and the pairs that were rejected all along become at most fewer.
LEMMA LocalKeepsLayers ==
  ASSUME NEW d \in Calls, Layers(d), Local(d)' = Local(d),
         standing'[d] \subseteq standing[d], standing'[d] \subseteq rejects'
  PROVE  Layers(d)'
<1>1. Reporting(d)'
  BY DEF Layers, Local, Reporting, Silent, TerminalEvents
<1>2. Cancellation(d)'
  BY DEF Layers, Local, Cancellation
<1>3. Lateness(d)'
  BY DEF Layers, Local, Lateness, ctxErr
<1>4. Freshness(d)'
  BY DEF Layers, Local, Freshness, RulesOf, SequenceOf
<1>5. QED
  BY <1>1, <1>2, <1>3, <1>4 DEF Layers

\* A step of one call changes neither the rules nor what another remembers.
LEMMA StandingIsLocal ==
  ASSUME TypeOK, NEW c \in Calls, NEW d \in Calls, c # d, CallStep(c)
  PROVE  standing'[d] = standing[d] /\ rejects' = rejects
  BY DEF TypeOK, CallStep, Step, PrepareCheck, Parse, ParsedCheck, ValidateCheck,
     LoopHead, Evaluate, RulePanic, EmitMetrics, EmitLogger, InvokeWithSQL,
     InvokeWithPrepared, Invoke, Cancel

\* All layers together are inductive: own steps above, other calls by locality.
LEMMA SInvInductive == SInv /\ [Next]_vars => SInv'
<1> SUFFICES ASSUME SInv, [Next]_vars PROVE SInv'
  OBVIOUS
<1>0. IInv /\ TypeOK /\ IInv' /\ \A d \in Calls : Layers(d)
  BY IInvInductive DEF SInv, IInv
<1>1. ASSUME NEW d \in Calls PROVE Layers(d)'
  <2>1. CASE \E c \in Calls : CallStep(c)
    <3>1. PICK c \in Calls : CallStep(c)
      BY <2>1
    <3>2. CASE c = d
      BY <1>0, <3>1, <3>2, ReportingKept, CancellationKept, LatenessKept, FreshnessKept
         DEF Layers
    <3>3. CASE c # d
      BY <1>0, <3>1, <3>3, StepIsLocal, StandingIsLocal, LocalKeepsLayers
         DEF Layers, Freshness
    <3>4. QED
      BY <3>2, <3>3
  <2>2. CASE \E pair \in Stateful : ChangeRule(pair)
    <3>1. standing'[d] = standing[d] \cap rejects'
      BY <2>2 DEF ChangeRule
    <3>2. QED
      BY <1>0, <2>2, <3>1, ChangeRuleIsLocal, LocalKeepsLayers
  <2>3. CASE UNCHANGED vars
    BY <1>0, <2>3, LocalKeepsLayers DEF vars, Local, Layers, Freshness
  <2>4. QED
    BY <2>1, <2>2, <2>3 DEF Next, CallStep
<1>2. QED
  BY <1>0, <1>1 DEF SInv

\* All layers hold before any call is made.
LEMMA SInvInitially == Init => SInv
<1> SUFFICES ASSUME Init PROVE SInv
  OBVIOUS
<1>1. ASSUME NEW c \in Calls PROVE Layers(c)
  BY DEF Init, Layers, Reporting, Silent, Undecided, Cancellation, Lateness, Freshness,
     ctxErr
<1>2. QED
  BY <1>1, IInvInitially DEF SInv

\* All layers hold in every reachable state.
LEMMA AlwaysSInv == Spec => []SInv
  BY SInvInitially, SInvInductive, PTL DEF Spec

-----------------------------------------------------------------------------
(* The theorems.                                                           *)

\* When a call returns, finishValidation has told each enabled sink exactly once,
\* of the error that is returned, whatever the sinks did; a successful Prepare
\* and a call that a rule's panic unwound have told none.
THEOREM ReportedOnce == Spec => []OneTerminalEvent
<1>1. SInv => OneTerminalEvent
  BY DEF SInv, Layers, Reporting, Silent, Undecided, EventOf, OneTerminalEvent
<1>2. QED
  BY <1>1, AlwaysSInv, PTL

\* A context that ends before the rules are reached decides the call, over a
\* malformed input and a zero Prepared: no rule runs and Prepare hands out nothing.
THEOREM CancellationWins == Spec => []CancellationPrecedence
<1>1. SInv => CancellationPrecedence
  BY DEF SInv, Layers, Cancellation, CancellationPrecedence
<1>2. QED
  BY <1>1, AlwaysSInv, PTL

\* Whenever the context ends, ValidatePrepared evaluates at most the rule it had
\* already gone on to, however many rules and statements are left.
THEOREM LateRulesAreBounded == Spec => []AtMostOneLateRule
<1>1. SInv => AtMostOneLateRule
  BY DEF SInv, Layers, Lateness, AtMostOneLateRule
<1>2. QED
  BY <1>1, AlwaysSInv, PTL

\* A call is never allowed past a rule that has rejected one of its statements
\* ever since the call began, whatever earlier calls of any engine decided about
\* the same Prepared.
THEOREM DecisionsAreFresh == Spec => []DecisionIsFresh
<1>1. SInv => DecisionIsFresh
  <2> SUFFICES ASSUME SInv, NEW c \in Calls, event[c].outcome = "allowed",
                      NEW s \in 1..Len(SequenceOf(prepared[c])),
                      NEW r \in 1..Len(RulesOf(c))
               PROVE  <<RulesOf(c)[r], SequenceOf(prepared[c])[s]>> \notin standing[c]
    BY DEF DecisionIsFresh
  <2>1. <<s, r>> \in approved[c]
    BY DEF SInv, IInv, CallInv, Decision, AllPairs
  <2>2. QED
    BY <2>1 DEF SInv, Layers, Freshness
<1>2. QED
  BY <1>1, AlwaysSInv, PTL

-----------------------------------------------------------------------------
(* The engine implements ValidationContract. Each step of a call is one    *)
(* step of the contract for that call or leaves everything the contract    *)
(* speaks of alone: the checkpoints, the ordered loops and the two sinks   *)
(* are one way of keeping an order-free promise.                           *)

\* A contract step of call c, and the step that nobody notices.
ContractStep(c) ==
  \/ \E o \in {"Validate", "Prepare"}, e \in Engines, x \in Inputs : Contract!Ask(c, o, e, x)
  \/ \E e \in Engines, x \in pool : Contract!Ask(c, "ValidatePrepared", e, x)
  \/ Contract!Cancel(c) \/ Contract!Pass(c) \/ Contract!Answer(c) \/ Contract!Deliver(c)
  \/ Contract!HandOver(c) \/ Contract!Unwind(c)

-----------------------------------------------------------------------------
(* The mapping.                                                            *)

\* What the mapping says of a call follows from the call's own variables, so a
\* step changes it at its own call only.
LEMMA BarsAreLocal ==
  ASSUME TypeOK, NEW c \in Calls, CallStep(c)
  PROVE  /\ phaseBar' = [phaseBar EXCEPT ![c] = phaseBar'[c]]
         /\ subjectBar' = [subjectBar EXCEPT ![c] = subjectBar'[c]]
         /\ canceledBar' = [canceledBar EXCEPT ![c] = canceledBar'[c]]
         /\ toldBar' = [toldBar EXCEPT ![c] = toldBar'[c]]
<1>1. \A d \in Calls : d # c => Local(d)' = Local(d)
  BY StepIsLocal
<1>2. phaseBar' = [phaseBar EXCEPT ![c] = phaseBar'[c]]
  <2>1. \A d \in Calls : d # c => Phase(d)' = Phase(d)
    BY <1>1 DEF Phase, Local
  <2>2. QED
    BY <2>1 DEF phaseBar
<1>3. subjectBar' = [subjectBar EXCEPT ![c] = subjectBar'[c]]
  <2>1. \A d \in Calls : d # c => Subject(d)' = Subject(d)
    BY <1>1 DEF Subject, Local
  <2>2. QED
    BY <2>1 DEF subjectBar
<1>4. canceledBar' = [canceledBar EXCEPT ![c] = canceledBar'[c]]
  BY <1>1 DEF canceledBar, ctxErr, Local
<1>5. toldBar' = [toldBar EXCEPT ![c] = toldBar'[c]]
  <2>1. \A d \in Calls : d # c => Told(d)' = Told(d)
    BY <1>1 DEF Told, Local
  <2>2. QED
    BY <2>1 DEF toldBar
<1>6. QED
  BY <1>2, <1>3, <1>4, <1>5

\* The mapping at a call whose variables are known.
LEMMA BarsAt ==
  ASSUME NEW c \in Calls
  PROVE  /\ pc[c] = "idle" => phaseBar[c] = "idle"
         /\ pc[c] \in Before \cup Looping => phaseBar[c] = "open"
         /\ pc[c] \in Emitting => phaseBar[c] = "answered"
         /\ pc[c] = "done" => phaseBar[c] = "returned"
         /\ pc[c] = "panicked" => phaseBar[c] = "unwound"
         /\ op[c] = "ValidatePrepared" => subjectBar[c] = prepared[c]
         /\ op[c] # "ValidatePrepared" => subjectBar[c] = sql[c]
         /\ canceledBar[c] = ctxErr(c)
         /\ Silent(c) => toldBar[c] = {}
<1>1. Silent(c) => toldBar[c] = {}
  <2>1. Silent(c) => Told(c) = {}
    BY DEF Silent, Told
  <2>2. QED
    BY <2>1 DEF toldBar
<1>2. QED
  BY <1>1 DEF phaseBar, Phase, subjectBar, Subject, canceledBar

-----------------------------------------------------------------------------
(* The moves of the contract.                                              *)

\* While a call is open it may go from one location to the next unnoticed.
LEMMA Unnoticed ==
  ASSUME TypeOK, NEW c \in Calls, CallStep(c),
         pc[c] \in Before \cup Looping, pc'[c] \in Before \cup Looping,
         Silent(c), Silent(c)', Subject(c)' = Subject(c),
         UNCHANGED <<op, engine, canceledAt, approved, err, rejects, pool>>
  PROVE  UNCHANGED Contract!vars
<1>1. phaseBar'[c] = phaseBar[c]
  BY DEF phaseBar, Phase
<1>2. subjectBar'[c] = subjectBar[c] /\ canceledBar'[c] = canceledBar[c]
  BY DEF subjectBar, canceledBar, ctxErr
<1>3. toldBar'[c] = toldBar[c]
  BY DEF toldBar, Told, Silent
<1>4. /\ phaseBar' = [phaseBar EXCEPT ![c] = phaseBar'[c]]
      /\ subjectBar' = [subjectBar EXCEPT ![c] = subjectBar'[c]]
      /\ canceledBar' = [canceledBar EXCEPT ![c] = canceledBar'[c]]
      /\ toldBar' = [toldBar EXCEPT ![c] = toldBar'[c]]
  BY BarsAreLocal
<1>5. phaseBar' = phaseBar /\ toldBar' = toldBar
  BY <1>1, <1>3, <1>4 DEF phaseBar, toldBar
<1>6. subjectBar' = subjectBar /\ canceledBar' = canceledBar
  BY <1>2, <1>4 DEF subjectBar, canceledBar
<1>7. QED
  BY <1>5, <1>6 DEF Contract!vars

\* finishValidation is the answer, if the error it is called with is permitted.
LEMMA Answering ==
  ASSUME TypeOK, NEW c \in Calls, CallStep(c), NEW o, NEW r, NEW e,
         pc[c] \in Before \cup Looping, Silent(c), finishValidation(c, o, r, e),
         UNCHANGED <<callVars, prepared, metricsSeen, loggerSeen, canceledAt, approved,
                     rejects, pool>>,
         Contract!Permitted(c, e)
  PROVE  Contract!Answer(c)
<1>1. pc'[c] = "metrics" /\ err' = [err EXCEPT ![c] = e] /\ err'[c] = e
  BY DEF TypeOK, finishValidation
<1>2. phaseBar[c] = "open" /\ phaseBar' = [phaseBar EXCEPT ![c] = "answered"]
  BY <1>1, BarsAreLocal DEF phaseBar, Phase
<1>3. UNCHANGED <<subjectBar, canceledBar>>
  BY DEF subjectBar, Subject, canceledBar, ctxErr
<1>4. toldBar'[c] = {} /\ toldBar[c] = {}
  BY DEF toldBar, Told, Silent
<1>5. UNCHANGED toldBar
  BY <1>4, BarsAreLocal DEF toldBar
<1>6. Contract!Permitted(c, err'[c]) /\ err' = [err EXCEPT ![c] = err'[c]]
  BY <1>1
<1>7. QED
  BY <1>2, <1>3, <1>5, <1>6 DEF Contract!Answer

\* A context that has ended permits the context's error.
LEMMA CanceledIsPermitted ==
  ASSUME NEW c \in Calls, ctxErr(c)
  PROVE  Contract!Permitted(c, Error("context"))
  BY DEF Contract!Permitted, canceledBar, Error

\* In the loops a call is about a well-formed input, and the contract's pairs are
\* the engine's.
LEMMA LoopSubject ==
  ASSUME IInv, NEW c \in Calls, pc[c] \in Looping
  PROVE  /\ op[c] # "Prepare" /\ Contract!WellFormed(c)
         /\ subjectBar[c] = prepared[c]
         /\ Contract!Pairs(c) = AllPairs(c)
<1>1. op[c] # "Prepare" /\ prepared[c] \in Inputs \ Malformed /\ Subject(c) = prepared[c]
  BY DEF IInv, CallInv, InLoop, OnItsWay, Subject
<1>2. QED
  BY <1>1 DEF subjectBar, Contract!WellFormed, Contract!Pairs, AllPairs, RulesOf, SequenceOf

-----------------------------------------------------------------------------
(* Every step of a call is a move of the contract or goes unnoticed.       *)

\* Before the decision nobody was told anything.
LEMMA SilentWhileOpen ==
  ASSUME SInv, NEW c \in Calls, pc[c] \in Before \cup Looping
  PROVE  Silent(c)
  BY DEF SInv, Layers, Reporting, Undecided

\* The steps of Prepare are moves of the contract or go unnoticed.
LEMMA PrepareRefines ==
  ASSUME SInv, NEW c \in Calls, PrepareCheck(c) \/ Parse(c) \/ ParsedCheck(c)
  PROVE  ContractStep(c) \/ UNCHANGED Contract!vars
<1>0. TypeOK /\ CallStep(c) /\ Silent(c) /\ op[c] \in {"Validate", "Prepare"}
  BY SilentWhileOpen DEF SInv, IInv, CallInv, OnItsWay, CallStep, Step, PrepareCheck, Parse,
     ParsedCheck
<1>1. CASE PrepareCheck(c)
  <2>1. CASE ctxErr(c)
    BY <1>0, <1>1, <2>1, Answering, CanceledIsPermitted
       DEF PrepareCheck, FinishCanceled, ContractStep
  <2>2. CASE ~ctxErr(c)
    <3>1. pc[c] = "prepare" /\ pc'[c] = "parse" /\ Silent(c)' /\ Subject(c)' = Subject(c)
      BY <1>0, <1>1, <2>2 DEF PrepareCheck, TypeOK, Silent, Subject
    <3>2. QED
      BY <1>0, <1>1, <2>2, <3>1, Unnoticed DEF PrepareCheck
  <2>3. QED
    BY <2>1, <2>2
<1>2. CASE Parse(c)
  <2>1. pc[c] = "parse" /\ pc'[c] = "parsed" /\ Silent(c)' /\ Subject(c)' = Subject(c)
    BY <1>0, <1>2 DEF Parse, TypeOK, Silent, Subject
  <2>2. QED
    BY <1>0, <1>2, <2>1, Unnoticed DEF Parse
<1>3. CASE ParsedCheck(c)
  <2>0. Subject(c) = sql[c] /\ subjectBar[c] = sql[c]
    BY <1>0 DEF Subject, subjectBar
  <2>1. CASE ParseOutcome(c) = "canceled"
    <3>1. ctxErr(c)
      BY <2>1 DEF ParseOutcome
    <3>2. QED
      BY <1>0, <1>3, <2>1, <3>1, Answering, CanceledIsPermitted
         DEF ParsedCheck, FinishCanceled, ContractStep
  <2>2. CASE ParseOutcome(c) = "parser_failure"
    <3>1. Contract!Permitted(c, Error("parse"))
      BY <1>0, <2>0, <2>2 DEF ParseOutcome, Contract!Permitted, Error
    <3>2. QED
      BY <1>0, <1>3, <2>2, <3>1, Answering DEF ParsedCheck, translateParserError,
                                                      ContractStep
  <2>3. CASE ParseOutcome(c) = "parsed"
    <3>0. /\ pc[c] = "parsed" /\ sql[c] \in Inputs \ Malformed
          /\ Silent(c)' /\ Subject(c)' = Subject(c) /\ Told(c)' = Told(c)
          /\ UNCHANGED <<op, engine, canceledAt, approved, err, rejects>>
      BY <1>0, <1>3, <2>3 DEF ParsedCheck, ParseOutcome, TypeOK, Silent, Subject, Told
    <3>1. CASE op[c] = "Prepare"
      <4>1. pc'[c] = "done" /\ pool' = pool \cup {sql[c]}
        BY <1>0, <1>3, <2>3, <3>1 DEF ParsedCheck, TypeOK
      <4>2. phaseBar[c] = "open" /\ phaseBar' = [phaseBar EXCEPT ![c] = "returned"]
        BY <1>0, <3>0, <4>1, BarsAreLocal DEF phaseBar, Phase
      <4>3. UNCHANGED <<subjectBar, canceledBar, toldBar>>
        <5>1. subjectBar'[c] = subjectBar[c] /\ toldBar'[c] = toldBar[c]
          BY <3>0 DEF subjectBar, toldBar
        <5>2. QED
          BY <1>0, <3>0, <5>1, BarsAreLocal DEF subjectBar, toldBar, canceledBar, ctxErr
      <4>4. Contract!HandOver(c)
        BY <2>0, <3>0, <3>1, <4>1, <4>2, <4>3 DEF Contract!HandOver, Contract!WellFormed
      <4>5. QED
        BY <4>4 DEF ContractStep
    <3>2. CASE op[c] = "Validate"
      <4>1. pc'[c] = "validate" /\ pool' = pool
        BY <1>0, <1>3, <2>3, <3>2 DEF ParsedCheck, TypeOK
      <4>2. QED
        BY <1>0, <3>0, <4>1, Unnoticed
    <3>3. QED
      BY <1>0, <3>1, <3>2
  <2>4. QED
    BY <1>3, <2>1, <2>2, <2>3 DEF ParsedCheck
<1>4. QED
  BY <1>1, <1>2, <1>3

\* The checks of ValidatePrepared are moves of the contract or go unnoticed.
LEMMA ValidateRefines ==
  ASSUME SInv, NEW c \in Calls, ValidateCheck(c) \/ LoopHead(c)
  PROVE  ContractStep(c) \/ UNCHANGED Contract!vars
<1>0. TypeOK /\ CallStep(c) /\ Silent(c) /\ IInv
  BY SilentWhileOpen DEF SInv, IInv, CallStep, Step, ValidateCheck, LoopHead
<1>1. CASE ValidateCheck(c)
  <2>1. CASE ValidateOutcome(c) = "canceled"
    <3>1. ctxErr(c)
      BY <2>1 DEF ValidateOutcome
    <3>2. QED
      BY <1>0, <1>1, <2>1, <3>1, Answering, CanceledIsPermitted
         DEF ValidateCheck, FinishCanceled, ContractStep
  <2>2. CASE ValidateOutcome(c) = "invalid_prepared"
    <3>1. prepared[c] = NoPrepared /\ Subject(c) = NoPrepared
      BY <1>0, <1>1, <2>2, InputsAssumption DEF ValidateCheck, ValidateOutcome, IInv,
         CallInv, OnItsWay, TypeOK, Subject
    <3>2. Contract!Permitted(c, Error("invalid_prepared"))
      BY <3>1 DEF Contract!Permitted, Error, subjectBar
    <3>3. QED
      BY <1>0, <1>1, <2>2, <3>2, Answering DEF ValidateCheck, ContractStep
  <2>3. CASE ValidateOutcome(c) = "valid"
    <3>1. pc[c] = "validate" /\ pc'[c] = "loop" /\ Silent(c)' /\ Subject(c)' = Subject(c)
      BY <1>0, <1>1, <2>3 DEF ValidateCheck, TypeOK, Silent, Subject
    <3>2. QED
      BY <1>0, <1>1, <2>3, <3>1, Unnoticed DEF ValidateCheck
  <2>4. QED
    BY <1>1, <2>1, <2>2, <2>3 DEF ValidateCheck
<1>2. CASE LoopHead(c)
  <2>0. pc[c] = "loop"
    BY <1>2 DEF LoopHead
  <2>1. CASE Exhausted(c)
    <3>1. approved[c] = AllPairs(c)
      <4>1. /\ event'[c].outcome = "allowed"
            /\ UNCHANGED <<approved, prepared, engine>>
        BY <1>0, <1>2, <2>1 DEF LoopHead, finishValidation, newValidationEvent, TypeOK
      <4>2. (approved[c] = AllPairs(c))'
        <5>1. TypeOK'
          BY <1>0, <1>2, TypePreserved DEF Next, Step
        <5>2. QED
          BY <1>0, <4>1, <5>1, OwnStep DEF CallInv, Decision
      <4>3. QED
        BY <4>1, <4>2 DEF AllPairs, SequenceOf, RulesOf
    <3>2. Contract!Permitted(c, Error("nil"))
      BY <1>0, <2>0, <3>1, LoopSubject DEF Contract!Permitted, Error
    <3>3. QED
      BY <1>0, <1>2, <2>0, <2>1, <3>2, Answering DEF LoopHead, ContractStep
  <2>2. CASE ~Exhausted(c) /\ ctxErr(c)
    BY <1>0, <1>2, <2>2, Answering, CanceledIsPermitted
       DEF LoopHead, FinishCanceled, ContractStep
  <2>3. CASE ~Exhausted(c) /\ ~ctxErr(c)
    <3>1. pc'[c] = "evaluate" /\ Silent(c)' /\ Subject(c)' = Subject(c)
      BY <1>0, <1>2, <2>3 DEF LoopHead, TypeOK, Silent, Subject
    <3>2. QED
      BY <1>0, <1>2, <2>0, <2>3, <3>1, Unnoticed DEF LoopHead
  <2>4. QED
    BY <2>1, <2>2, <2>3
<1>3. QED
  BY <1>1, <1>2

\* An evaluation passes the pair, answers with the violation or unwinds the call.
LEMMA EvaluateRefines ==
  ASSUME SInv, NEW c \in Calls, Evaluate(c) \/ RulePanic(c)
  PROVE  ContractStep(c) \/ UNCHANGED Contract!vars
<1>0. /\ TypeOK /\ CallStep(c) /\ Silent(c) /\ IInv /\ pc[c] = "evaluate" /\ CallInv(c)
      /\ phaseBar[c] = "open"
  BY SilentWhileOpen, BarsAt DEF SInv, IInv, CallStep, Step, Evaluate, RulePanic
<1>1. /\ op[c] # "Prepare" /\ Contract!WellFormed(c) /\ subjectBar[c] = prepared[c]
      /\ Contract!Pairs(c) = AllPairs(c)
  BY <1>0, LoopSubject
<1>2. <<i[c], j[c]>> \in Contract!Pairs(c)
  BY <1>0, <1>1, CurrentPairExists DEF AllPairs
<1>3. Contract!Rejecting(c, <<i[c], j[c]>>) <=> Rejected(c)
  BY <1>1 DEF Contract!Rejecting, Rejected, CurrentRule, CurrentStatement, RulesOf, SequenceOf
<1>4. CASE Evaluate(c) /\ Rejected(c)
  <2>1. Contract!Permitted(c, newViolation(CurrentRule(c)))
    <3>1. newViolation(CurrentRule(c)).ruleID = Rules[engine[c]][<<i[c], j[c]>>[2]]
      BY DEF newViolation, CurrentRule, RulesOf
    <3>2. newViolation(CurrentRule(c)).type = "violation"
      BY DEF newViolation
    <3>3. QED
      BY <1>1, <1>2, <1>3, <1>4, <3>1, <3>2 DEF Contract!Permitted
  <2>2. QED
    BY <1>0, <1>4, <2>1, Answering DEF Evaluate, ContractStep
<1>5. CASE Evaluate(c) /\ ~Rejected(c)
  <2>1. /\ pc'[c] = "loop" /\ approved' = [approved EXCEPT ![c] = @ \cup {<<i[c], j[c]>>}]
        /\ UNCHANGED <<op, engine, sql, prepared, canceledAt, err, event, metricsSeen,
                       loggerSeen, rejects, pool>>
    BY <1>0, <1>5 DEF Evaluate, TypeOK
  <2>2. UNCHANGED <<phaseBar, subjectBar, canceledBar, toldBar>>
    <3>1. phaseBar'[c] = phaseBar[c]
      BY <1>0, <2>1 DEF phaseBar, Phase
    <3>2. UNCHANGED phaseBar
      BY <1>0, <3>1, BarsAreLocal DEF phaseBar
    <3>3. UNCHANGED <<subjectBar, canceledBar, toldBar>>
      BY <2>1 DEF subjectBar, Subject, canceledBar, ctxErr, toldBar, Told
    <3>4. QED
      BY <3>2, <3>3
  <2>3. Contract!Pass(c)
    BY <1>0, <1>1, <1>2, <1>3, <1>5, <2>1, <2>2 DEF Contract!Pass
  <2>4. QED
    BY <2>3 DEF ContractStep
<1>6. CASE RulePanic(c)
  <2>1. /\ pc'[c] = "panicked"
        /\ UNCHANGED <<op, engine, sql, prepared, canceledAt, err, event, metricsSeen,
                       loggerSeen, rejects, pool, approved>>
    BY <1>0, <1>6 DEF RulePanic, TypeOK
  <2>2. phaseBar' = [phaseBar EXCEPT ![c] = "unwound"]
    BY <1>0, <2>1, BarsAreLocal DEF phaseBar, Phase
  <2>3. UNCHANGED <<subjectBar, canceledBar, toldBar>>
    BY <2>1 DEF subjectBar, Subject, canceledBar, ctxErr, toldBar, Told
  <2>4. Contract!Unwind(c)
    BY <1>0, <1>1, <2>1, <2>2, <2>3 DEF Contract!Unwind
  <2>5. QED
    BY <2>4 DEF ContractStep
<1>7. QED
  BY <1>4, <1>5, <1>6

\* The sinks are told one by one; the second one completes the delivery.
LEMMA EmitRefines ==
  ASSUME SInv, NEW c \in Calls, EmitMetrics(c) \/ EmitLogger(c)
  PROVE  ContractStep(c) \/ UNCHANGED Contract!vars
<1>0. TypeOK /\ CallStep(c) /\ Reporting(c) /\ phaseBar[c] = "answered"
  BY BarsAt DEF SInv, IInv, Layers, CallStep, Step, EmitMetrics, EmitLogger
<1>1. CASE EmitMetrics(c)
  <2>1. /\ pc[c] = "metrics" /\ pc'[c] = "logger" /\ Silent(c)
        /\ metricsSeen'[c] = TerminalEvents(c, MetricsOn)
        /\ UNCHANGED <<op, engine, sql, prepared, canceledAt, err, event, loggerSeen,
                       rejects, pool, approved>>
    BY <1>0, <1>1 DEF EmitMetrics, isolateObservabilityFailure, Reporting, Silent, TypeOK,
       TerminalEvents
  <2>2. Told(c) = {} /\ Told(c)' = {x \in {"metrics"} : engine[c] \in MetricsOn}
    BY <2>1 DEF Told, Silent, TerminalEvents
  <2>3. /\ Told(c)' \in SUBSET (Contract!Enabled(c) \ toldBar[c])
        /\ toldBar' = [toldBar EXCEPT ![c] = @ \cup Told(c)']
    <3>1. toldBar[c] = {} /\ toldBar'[c] = Told(c)'
      BY <2>2 DEF toldBar
    <3>2. Told(c)' \subseteq Contract!Enabled(c)
      BY <2>2 DEF Contract!Enabled
    <3>3. QED
      BY <1>0, <3>1, <3>2, BarsAreLocal
  <2>4. UNCHANGED <<phaseBar, subjectBar, canceledBar>>
    <3>1. phaseBar'[c] = phaseBar[c]
      BY <2>1 DEF phaseBar, Phase
    <3>2. UNCHANGED phaseBar
      BY <1>0, <3>1, BarsAreLocal DEF phaseBar
    <3>3. UNCHANGED <<subjectBar, canceledBar>>
      BY <2>1 DEF subjectBar, Subject, canceledBar, ctxErr
    <3>4. QED
      BY <3>2, <3>3
  <2>5. Contract!Deliver(c)
    BY <1>0, <2>1, <2>3, <2>4 DEF Contract!Deliver
  <2>6. QED
    BY <2>5 DEF ContractStep
<1>2. CASE EmitLogger(c)
  <2>1. /\ pc[c] = "logger" /\ pc'[c] = "done" /\ loggerSeen[c] = << >>
        /\ metricsSeen[c] = TerminalEvents(c, MetricsOn)
        /\ loggerSeen'[c] = TerminalEvents(c, LoggerOn)
        /\ UNCHANGED <<op, engine, sql, prepared, canceledAt, err, event, metricsSeen,
                       rejects, pool, approved>>
    BY <1>0, <1>2 DEF EmitLogger, isolateObservabilityFailure, Reporting, TypeOK,
       TerminalEvents
  <2>2. /\ Told(c) = {x \in {"metrics"} : engine[c] \in MetricsOn}
        /\ Told(c)' = Contract!Enabled(c)
    BY <2>1 DEF Told, TerminalEvents, Contract!Enabled
  <2>3. /\ (Told(c)' \ Told(c)) \in SUBSET (Contract!Enabled(c) \ toldBar[c])
        /\ toldBar' = [toldBar EXCEPT ![c] = @ \cup (Told(c)' \ Told(c))]
        /\ toldBar'[c] = Contract!Enabled(c)
    <3>1. toldBar[c] = Told(c) /\ toldBar'[c] = Told(c)'
      BY DEF toldBar
    <3>2. Told(c) \subseteq Told(c)'
      BY <2>2 DEF Contract!Enabled
    <3>3. Told(c)' = Told(c) \cup (Told(c)' \ Told(c))
      BY <3>2
    <3>4. QED
      BY <1>0, <2>2, <3>1, <3>3, BarsAreLocal
  <2>4. phaseBar' = [phaseBar EXCEPT ![c] = "returned"] /\ UNCHANGED <<subjectBar, canceledBar>>
    <3>1. phaseBar' = [phaseBar EXCEPT ![c] = "returned"]
      BY <1>0, <2>1, BarsAreLocal DEF phaseBar, Phase
    <3>2. UNCHANGED <<subjectBar, canceledBar>>
      BY <2>1 DEF subjectBar, Subject, canceledBar, ctxErr
    <3>3. QED
      BY <3>1, <3>2
  <2>5. Contract!Deliver(c)
    BY <1>0, <2>1, <2>3, <2>4 DEF Contract!Deliver
  <2>6. QED
    BY <2>5 DEF ContractStep
<1>3. QED
  BY <1>1, <1>2

\* The application's steps.
LEMMA InvokeRefines ==
  ASSUME SInv, NEW c \in Calls, InvokeWithSQL(c) \/ InvokeWithPrepared(c) \/ Cancel(c)
  PROVE  ContractStep(c) \/ UNCHANGED Contract!vars
<1>0. TypeOK /\ CallStep(c)
  BY DEF SInv, IInv, CallStep
<1>1. CASE InvokeWithSQL(c)
  <2>1. PICK o \in {"Validate", "Prepare"}, e \in Engines, s \in Inputs :
          /\ Invoke(c, o, e) /\ sql' = [sql EXCEPT ![c] = s]
          /\ Goto(c, "prepare") /\ UNCHANGED prepared
    BY <1>1 DEF InvokeWithSQL
  <2>2. /\ pc[c] = "idle" /\ pc'[c] = "prepare" /\ op'[c] = o /\ sql'[c] = s
        /\ op' = [op EXCEPT ![c] = o] /\ engine' = [engine EXCEPT ![c] = e]
        /\ UNCHANGED <<canceledAt, err, event, metricsSeen, loggerSeen, rejects, pool, approved>>
    BY <1>0, <2>1 DEF Invoke, TypeOK
  <2>3. /\ phaseBar[c] = "idle" /\ phaseBar' = [phaseBar EXCEPT ![c] = "open"]
        /\ subjectBar' = [subjectBar EXCEPT ![c] = s]
    <3>1. phaseBar[c] = "idle" /\ phaseBar'[c] = "open" /\ subjectBar'[c] = s
      BY <2>2 DEF phaseBar, Phase, subjectBar, Subject
    <3>2. QED
      BY <1>0, <3>1, BarsAreLocal
  <2>4. UNCHANGED <<canceledBar, toldBar>>
    BY <2>2 DEF canceledBar, ctxErr, toldBar, Told
  <2>5. Contract!Ask(c, o, e, s)
    BY <2>2, <2>3, <2>4 DEF Contract!Ask
  <2>6. QED
    BY <2>5 DEF ContractStep
<1>2. CASE InvokeWithPrepared(c)
  <2>1. PICK e \in Engines, p \in pool :
          /\ Invoke(c, "ValidatePrepared", e) /\ prepared' = [prepared EXCEPT ![c] = p]
          /\ Goto(c, "validate") /\ UNCHANGED sql
    BY <1>2 DEF InvokeWithPrepared
  <2>2. /\ pc[c] = "idle" /\ pc'[c] = "validate" /\ op'[c] = "ValidatePrepared"
        /\ prepared'[c] = p /\ op' = [op EXCEPT ![c] = "ValidatePrepared"]
        /\ engine' = [engine EXCEPT ![c] = e]
        /\ UNCHANGED <<canceledAt, err, event, metricsSeen, loggerSeen, rejects, pool, approved>>
    BY <1>0, <2>1 DEF Invoke, TypeOK
  <2>3. /\ phaseBar[c] = "idle" /\ phaseBar' = [phaseBar EXCEPT ![c] = "open"]
        /\ subjectBar' = [subjectBar EXCEPT ![c] = p]
    <3>1. phaseBar[c] = "idle" /\ phaseBar'[c] = "open" /\ subjectBar'[c] = p
      BY <2>2 DEF phaseBar, Phase, subjectBar, Subject
    <3>2. QED
      BY <1>0, <3>1, BarsAreLocal
  <2>4. UNCHANGED <<canceledBar, toldBar>>
    BY <2>2 DEF canceledBar, ctxErr, toldBar, Told
  <2>5. Contract!Ask(c, "ValidatePrepared", e, p)
    BY <2>2, <2>3, <2>4 DEF Contract!Ask
  <2>6. QED
    BY <2>5 DEF ContractStep
<1>3. CASE Cancel(c)
  <2>1. /\ canceledAt'[c] # "never"
        /\ UNCHANGED <<pc, op, engine, sql, prepared, err, event, metricsSeen, loggerSeen,
                       rejects, pool, approved>>
    BY <1>0, <1>3 DEF Cancel, TypeOK
  <2>2. canceledBar' = [canceledBar EXCEPT ![c] = TRUE]
    BY <1>0, <2>1, BarsAreLocal DEF canceledBar, ctxErr
  <2>3. UNCHANGED <<phaseBar, subjectBar, toldBar>>
    BY <2>1 DEF phaseBar, Phase, subjectBar, Subject, toldBar, Told
  <2>4. Contract!Cancel(c)
    BY <2>1, <2>2, <2>3 DEF Contract!Cancel
  <2>5. QED
    BY <2>4 DEF ContractStep
<1>4. QED
  BY <1>1, <1>2, <1>3

-----------------------------------------------------------------------------

\* The bars depend on nothing a rule's change of mind touches.
LEMMA ChangeRuleRefines ==
  ASSUME SInv, NEW pair \in Stateful, ChangeRule(pair)
  PROVE  Contract!ChangeRules
<1>1. rejects' \subseteq RuleIDs \X Statements
  BY StatefulAssumption DEF SInv, IInv, TypeOK, ChangeRule
<1>2. UNCHANGED <<phaseBar, subjectBar, canceledBar, toldBar>>
  BY DEF ChangeRule, phaseBar, Phase, subjectBar, Subject, canceledBar, ctxErr, toldBar, Told
<1>3. QED
  BY <1>1, <1>2 DEF ChangeRule, Contract!ChangeRules

\* The engine implements the contract: whatever the calls interleave with,
\* whatever their contexts, rules and sinks do, a caller sees one permitted
\* answer per call, delivered to every enabled sink before it is returned, and
\* nil only after every rule has passed every statement.
THEOREM EngineImplementsContract == Spec => ImplementsContract
<1>1. Init => Contract!Init
  <2> SUFFICES ASSUME Init PROVE Contract!Init
    OBVIOUS
  <2>1. phaseBar = [c \in Calls |-> "idle"]
    BY DEF Init, phaseBar, Phase
  <2>2. canceledBar = [c \in Calls |-> FALSE]
    BY DEF Init, canceledBar, ctxErr
  <2>3. toldBar = [c \in Calls |-> {}]
    BY DEF Init, toldBar, Told
  <2>4. QED
    BY <2>1, <2>2, <2>3 DEF Init, Contract!Init, Contract!Nil, Error
<1>2. SInv /\ [Next]_vars => [Contract!Next]_Contract!vars
  <2> SUFFICES ASSUME SInv, [Next]_vars
               PROVE  Contract!Next \/ UNCHANGED Contract!vars
    OBVIOUS
  <2>1. ASSUME NEW c \in Calls, CallStep(c)
        PROVE  Contract!Next \/ UNCHANGED Contract!vars
    <3>1. ContractStep(c) \/ UNCHANGED Contract!vars
      BY <2>1, PrepareRefines, ValidateRefines, EvaluateRefines, EmitRefines, InvokeRefines
         DEF CallStep, Step
    <3>2. QED
      BY <3>1 DEF ContractStep, Contract!Next
  <2>2. CASE \E pair \in Stateful : ChangeRule(pair)
    BY <2>2, ChangeRuleRefines DEF Contract!Next
  <2>3. CASE UNCHANGED vars
    BY <2>3 DEF vars, Contract!vars, phaseBar, Phase, subjectBar, Subject, canceledBar,
       ctxErr, toldBar, Told
  <2>4. QED
    BY <2>1, <2>2, <2>3 DEF Next, CallStep
<1>3. QED
  BY <1>1, <1>2, AlwaysSInv, PTL DEF Spec, ImplementsContract, Contract!Spec
=============================================================================
