------------------------- MODULE ValidationContract -------------------------
(***************************************************************************)
(* What the engine promises to a caller, without saying how.               *)
(*                                                                         *)
(* A request is answered once.  The answer is a context error only if the  *)
(* context has ended, a parser failure only for a malformed input, a       *)
(* violation only of a rule that rejects one of the statements at that     *)
(* moment, and nil only after every rule has passed every statement, in    *)
(* whatever order.  The answer stands: the caller gets it when every       *)
(* enabled sink has been told of it, and nothing changes it on the way.    *)
(* Preparing a well-formed input tells no sink anything.                   *)
(***************************************************************************)
EXTENDS Naturals, Sequences

CONSTANTS Calls, Engines, Rules, MetricsOn, LoggerOn, Inputs, Malformed,
          Statements, StatementSequence, RuleIDs, Stateful, NoRule, NoPrepared

VARIABLES
  phase,     \* "idle", "open", "answered", "returned" or "unwound"
  op,        \* the method called
  engine,    \* the engine asked
  subject,   \* the SQL text or Prepared the request is about
  canceled,  \* whether the request's context has ended
  passed,    \* <<statement, rule>> pairs that have been allowed
  answer,    \* the error returned
  told,      \* the sinks that have been told of the answer
  rejects,   \* <<rule, statement>> pairs the rules reject at the moment
  pool       \* Prepared values the application holds

vars == <<phase, op, engine, subject, canceled, passed, answer, told, rejects, pool>>

Nil == [type |-> "nil", ruleID |-> NoRule]

Enabled(c) == {x \in {"metrics", "logger"} :
                 engine[c] \in IF x = "metrics" THEN MetricsOn ELSE LoggerOn}

WellFormed(c) == subject[c] \in Inputs \ Malformed

Pairs(c) == (1..Len(StatementSequence[subject[c]])) \X (1..Len(Rules[engine[c]]))

Rejecting(c, p) ==
  <<Rules[engine[c]][p[2]], StatementSequence[subject[c]][p[1]]>> \in rejects

Ask(c, o, e, x) ==
  /\ phase[c] = "idle"
  /\ phase' = [phase EXCEPT ![c] = "open"]
  /\ op' = [op EXCEPT ![c] = o]
  /\ engine' = [engine EXCEPT ![c] = e]
  /\ subject' = [subject EXCEPT ![c] = x]
  /\ UNCHANGED <<canceled, passed, answer, told, rejects, pool>>

Cancel(c) ==
  /\ canceled' = [canceled EXCEPT ![c] = TRUE]
  /\ UNCHANGED <<phase, op, engine, subject, passed, answer, told, rejects, pool>>

Pass(c) ==
  /\ phase[c] = "open" /\ op[c] # "Prepare" /\ WellFormed(c)
  /\ \E p \in Pairs(c) :
       /\ ~Rejecting(c, p)
       /\ passed' = [passed EXCEPT ![c] = @ \cup {p}]
  /\ UNCHANGED <<phase, op, engine, subject, canceled, answer, told, rejects, pool>>

Permitted(c, a) ==
  \/ a.type = "context" /\ canceled[c]
  \/ a.type = "parse" /\ op[c] # "ValidatePrepared" /\ subject[c] \in Malformed
  \/ a.type = "invalid_prepared" /\ subject[c] = NoPrepared
  \/ /\ op[c] # "Prepare" /\ WellFormed(c)
     /\ \/ a.type = "nil" /\ passed[c] = Pairs(c)
        \/ /\ a.type = "violation"
           /\ \E p \in Pairs(c) : Rejecting(c, p) /\ a.ruleID = Rules[engine[c]][p[2]]

Answer(c) ==
  /\ phase[c] = "open"
  /\ phase' = [phase EXCEPT ![c] = "answered"]
  /\ Permitted(c, answer'[c])
  /\ answer' = [answer EXCEPT ![c] = answer'[c]]
  /\ UNCHANGED <<op, engine, subject, canceled, passed, told, rejects, pool>>

\* Some of the sinks that are left are told; once all are, the call may return.
Deliver(c) ==
  /\ phase[c] = "answered"
  /\ \E sinks \in SUBSET (Enabled(c) \ told[c]) :
       told' = [told EXCEPT ![c] = @ \cup sinks]
  /\ \/ UNCHANGED phase
     \/ /\ told'[c] = Enabled(c)
        /\ phase' = [phase EXCEPT ![c] = "returned"]
  /\ UNCHANGED <<op, engine, subject, canceled, passed, answer, rejects, pool>>

HandOver(c) ==
  /\ phase[c] = "open" /\ op[c] = "Prepare" /\ WellFormed(c)
  /\ phase' = [phase EXCEPT ![c] = "returned"]
  /\ pool' = pool \cup {subject[c]}
  /\ UNCHANGED <<op, engine, subject, canceled, passed, answer, told, rejects>>

\* A panicking rule takes the call down before anything was answered.
Unwind(c) ==
  /\ phase[c] = "open" /\ op[c] # "Prepare" /\ WellFormed(c)
  /\ phase' = [phase EXCEPT ![c] = "unwound"]
  /\ UNCHANGED <<op, engine, subject, canceled, passed, answer, told, rejects, pool>>

ChangeRules ==
  /\ rejects' \subseteq RuleIDs \X Statements
  /\ UNCHANGED <<phase, op, engine, subject, canceled, passed, answer, told, pool>>

Init ==
  /\ phase = [c \in Calls |-> "idle"]
  /\ canceled = [c \in Calls |-> FALSE]
  /\ passed = [c \in Calls |-> {}]
  /\ answer = [c \in Calls |-> Nil]
  /\ told = [c \in Calls |-> {}]
  /\ rejects \subseteq RuleIDs \X Statements
  /\ pool = {NoPrepared}

Next ==
  \/ \E c \in Calls :
       \/ \E o \in {"Validate", "Prepare"}, e \in Engines, x \in Inputs : Ask(c, o, e, x)
       \/ \E e \in Engines, x \in pool : Ask(c, "ValidatePrepared", e, x)
       \/ Cancel(c) \/ Pass(c) \/ Answer(c) \/ Deliver(c) \/ HandOver(c) \/ Unwind(c)
  \/ ChangeRules

Spec == Init /\ [][Next]_vars
=============================================================================
