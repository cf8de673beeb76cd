---------------------------- MODULE GuardContract ----------------------------
(***************************************************************************)
(* What a guard in front of a database executor promises, whatever it      *)
(* caches: the fate of a call is settled once, at one moment of that call, *)
(* by the policy and the context of that moment, and only a call settled   *)
(* with nil reaches the executor, with the operation and the SQL the       *)
(* caller gave.                                                            *)
(***************************************************************************)
CONSTANTS Callers, Operations, Inputs, Malformed

VARIABLES
  phase,     \* "ready", "open" or "settled"
  request,   \* the call in hand: operation, SQL, whether it has a rewriter
  canceled,  \* whether the call's context has ended
  answer,    \* the error the call was settled with
  sent,      \* what the executor was handed during the call
  denied     \* inputs the policy rejects at the moment

vars == <<phase, request, canceled, answer, sent, denied>>

Requests == [op : Operations, sql : Inputs, rewriter : BOOLEAN]

Ask(c) ==
  /\ phase[c] = "ready"
  /\ phase' = [phase EXCEPT ![c] = "open"]
  /\ \E r \in Requests : request' = [request EXCEPT ![c] = r]
  /\ canceled' = [canceled EXCEPT ![c] = FALSE]
  /\ answer' = [answer EXCEPT ![c] = "none"]
  /\ sent' = [sent EXCEPT ![c] = {}]
  /\ UNCHANGED denied

\* The errors that are true of the call at this moment.
Permitted(c) ==
  IF request[c].rewriter THEN {"rewriter"}
  ELSE (IF canceled[c] THEN {"context"} ELSE {})
         \cup (IF request[c].sql \in Malformed THEN {"parse"}
               ELSE IF request[c].sql \in denied THEN {"violation"} ELSE {"nil"})

Settle(c) ==
  /\ phase[c] = "open"
  /\ phase' = [phase EXCEPT ![c] = "settled"]
  /\ \E a \in Permitted(c) : answer' = [answer EXCEPT ![c] = a]
  /\ UNCHANGED <<request, canceled, sent, denied>>

Execute(c) ==
  /\ phase[c] = "settled" /\ answer[c] = "nil" /\ sent[c] = {}
  /\ sent' = [sent EXCEPT ![c] = {<<request[c].op, request[c].sql>>}]
  /\ phase' = [phase EXCEPT ![c] = "ready"]
  /\ UNCHANGED <<request, canceled, answer, denied>>

Refuse(c) ==
  /\ phase[c] = "settled" /\ answer[c] # "nil"
  /\ phase' = [phase EXCEPT ![c] = "ready"]
  /\ UNCHANGED <<request, canceled, answer, sent, denied>>

\* A refusal no step separates from the decision.
SettleAndRefuse(c) ==
  /\ phase[c] = "open"
  /\ phase' = [phase EXCEPT ![c] = "ready"]
  /\ \E a \in Permitted(c) \ {"nil"} : answer' = [answer EXCEPT ![c] = a]
  /\ UNCHANGED <<request, canceled, sent, denied>>

\* A rule's panic passes through the guard before anything is settled.
Unwind(c) ==
  /\ phase[c] = "open" /\ ~request[c].rewriter
  /\ phase' = [phase EXCEPT ![c] = "ready"]
  /\ answer' = [answer EXCEPT ![c] = "panic"]
  /\ UNCHANGED <<request, canceled, sent, denied>>

Cancel(c) ==
  /\ canceled' = [canceled EXCEPT ![c] = TRUE]
  /\ UNCHANGED <<phase, request, answer, sent, denied>>

ChangePolicy ==
  /\ denied' \subseteq Inputs
  /\ UNCHANGED <<phase, request, canceled, answer, sent>>

Init ==
  /\ phase = [c \in Callers |-> "ready"]
  /\ canceled = [c \in Callers |-> FALSE]
  /\ answer = [c \in Callers |-> "none"]
  /\ sent = [c \in Callers |-> {}]
  /\ denied \subseteq Inputs

Next ==
  \/ \E c \in Callers :
       \/ Ask(c) \/ Settle(c) \/ Execute(c) \/ Refuse(c) \/ SettleAndRefuse(c)
       \/ Unwind(c) \/ Cancel(c)
  \/ ChangePolicy

Spec == Init /\ [][Next]_vars
=============================================================================
