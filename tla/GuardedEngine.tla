---------------------------- MODULE GuardedEngine ----------------------------
(***************************************************************************)
(* Both example wrappers on top of the engine they guard with. A guarded   *)
(* call of the direct wrapper (example/pgx) makes one engine call,         *)
(* Validate; one of the caching wrapper (example/pgx-prepared) makes       *)
(* ValidatePrepared alone on a hit, Prepare and then ValidatePrepared on a *)
(* miss. All of its engine calls run on the caller's context.              *)
(* PreparedGuard looks at the cache with an engine that answers in one     *)
(* step; here the engine's own steps, its events and its cancellation      *)
(* checkpoints interleave.                                                 *)
(*                                                                         *)
(* Exec, Query and QueryRow differ in how they hand an error back, which   *)
(* PreparedGuard models; here a guarded call returns it.                   *)
(***************************************************************************)
EXTENDS Engine, LRUCache

CONSTANTS
  Guarded,     \* guarded calls, each made by a goroutine of its own
  Validator,   \* the engine both wrappers were given
  Oversized    \* the inputs longer than maxSQLBytes

first(g) == <<g, "first">>
second(g) == <<g, "second">>

ASSUME CallsAssumption == Calls = Guarded \X {"first", "second"}
ASSUME ValidatorAssumption == Validator \in Engines /\ Oversized \subseteq Inputs

VARIABLES
  at,        \* where each guarded call is
  request,   \* its wrapper, SQL and whether an argument is a QueryRewriter
  returns,   \* the error it returns
  cache,     \* <<SQL, Prepared>> entries, most recently used first
  sent,      \* the SQL handed to the executor
  endedAt    \* where its deciding engine call was when the context ended

guardVars == <<at, request, returns, cache, sent, endedAt>>
allVars == <<vars, guardVars>>

Requests == [wrapper : {"direct", "caching"}, sql : Inputs, rewriter : BOOLEAN]

Become(g, l) == at' = [at EXCEPT ![g] = l]

\* The engine call whose answer is the guarded call's.
Deciding(g) == IF request[g].wrapper = "direct" THEN first(g) ELSE second(g)

Refuse(g, error) ==
  /\ returns' = [returns EXCEPT ![g] = error]
  /\ Become(g, "returned")

CallWithSQL(c, o, s) ==
  InvokeWithSQL(c) /\ op'[c] = o /\ engine'[c] = Validator /\ sql'[c] = s

CallWithPrepared(c, p) ==
  InvokeWithPrepared(c) /\ engine'[c] = Validator /\ prepared'[c] = p

-----------------------------------------------------------------------------
(* The wrappers.                                                           *)

Enter(g) ==
  /\ at[g] = "ready"
  /\ \E r \in Requests : request' = [request EXCEPT ![g] = r]
  /\ Become(g, "entered")
  /\ UNCHANGED <<vars, returns, cache, sent, endedAt>>

\* containsQueryRewriter comes before anything else.
CheckRewriter(g) ==
  /\ request[g].rewriter
  /\ Refuse(g, Error("rewriter"))
  /\ UNCHANGED <<vars, cache>>

Direct(g) ==
  /\ ~request[g].rewriter /\ request[g].wrapper = "direct"
  /\ CallWithSQL(first(g), "Validate", request[g].sql)
  /\ Become(g, "deciding")
  /\ UNCHANGED <<returns, cache>>

InCache(g) == request[g].sql \in Keys(cache)

\* Fault: a Prepared that came out of the cache is taken as allowed.
HitTrusted(g) ==
  /\ ~request[g].rewriter /\ request[g].wrapper = "caching" /\ InCache(g)
  /\ cache' = Get(cache, request[g].sql)
  /\ Become(g, "execute")
  /\ UNCHANGED <<vars, returns>>

Hit(g) ==
  /\ ~request[g].rewriter /\ request[g].wrapper = "caching" /\ InCache(g)
  /\ CallWithPrepared(second(g), Lookup(cache, request[g].sql))
  /\ cache' = Get(cache, request[g].sql)
  /\ Become(g, "deciding")
  /\ UNCHANGED returns

\* Fault: a miss waits for any other call that is looking up the same SQL.
MissSingleFlight(g) ==
  /\ ~request[g].rewriter /\ request[g].wrapper = "caching" /\ ~InCache(g)
  /\ \A h \in Guarded \ {g} :
       at[h] \in {"entered", "preparing", "deciding"} => request[h].sql # request[g].sql
  /\ CallWithSQL(first(g), "Prepare", request[g].sql)
  /\ Become(g, "preparing")
  /\ UNCHANGED <<returns, cache>>

Miss(g) ==
  /\ ~request[g].rewriter /\ request[g].wrapper = "caching" /\ ~InCache(g)
  /\ CallWithSQL(first(g), "Prepare", request[g].sql)
  /\ Become(g, "preparing")
  /\ UNCHANGED <<returns, cache>>

Begin(g) ==
  /\ at[g] = "entered"
  /\ CheckRewriter(g) \/ Direct(g) \/ Hit(g) \/ Miss(g)
  /\ UNCHANGED <<request, sent, endedAt>>

\* Fault: SQL that could not be prepared is validated directly.
PreparedFallsBack(g) ==
  /\ at[g] = "preparing" /\ pc[first(g)] = "done"
  /\ \/ /\ err[first(g)] # Error("nil")
        /\ CallWithSQL(second(g), "Validate", request[g].sql)
     \/ /\ err[first(g)] = Error("nil")
        /\ CallWithPrepared(second(g), prepared[first(g)])
  /\ Become(g, "deciding")
  /\ UNCHANGED <<request, returns, cache, sent, endedAt>>

\* Prepare has returned.
Prepared(g) ==
  /\ at[g] = "preparing" /\ pc[first(g)] = "done"
  /\ \/ /\ err[first(g)] # Error("nil")
        /\ Refuse(g, err[first(g)])
        /\ UNCHANGED vars
     \/ /\ err[first(g)] = Error("nil")
        /\ CallWithPrepared(second(g), prepared[first(g)])
        /\ Become(g, "deciding")
        /\ UNCHANGED returns
  /\ UNCHANGED <<request, cache, sent, endedAt>>

\* A miss that fits the size limit and got a policy decision is kept.
Cacheable(g) ==
  /\ request[g].wrapper = "caching" /\ pc[first(g)] = "done"
  /\ request[g].sql \notin Oversized
  /\ err[second(g)].type \in {"nil", "violation"}

\* The deciding engine call has returned.
Decided(g) ==
  /\ at[g] = "deciding" /\ pc[Deciding(g)] = "done"
  /\ \/ /\ Cacheable(g)
        /\ cache' = Add(cache, request[g].sql, prepared[second(g)])
     \/ ~Cacheable(g) /\ UNCHANGED cache
  /\ \/ err[Deciding(g)] # Error("nil") /\ Refuse(g, err[Deciding(g)])
     \/ /\ err[Deciding(g)] = Error("nil")
        /\ Become(g, "execute")
        /\ UNCHANGED returns
  /\ UNCHANGED <<vars, request, sent, endedAt>>

\* The executor's own result goes back to the caller, its own error included; the
\* guard's part of it is nil.
Delegate(g) ==
  /\ at[g] = "execute"
  /\ sent' = [sent EXCEPT ![g] = @ \cup {request[g].sql}]
  /\ Refuse(g, Error("nil"))
  /\ UNCHANGED <<vars, request, cache, endedAt>>

\* A rule's panic is recovered by neither the engine nor the wrapper.
Unwind(g) ==
  /\ at[g] = "deciding" /\ pc[Deciding(g)] = "panicked"
  /\ Become(g, "panicked")
  /\ UNCHANGED <<vars, request, returns, cache, sent, endedAt>>

\* Fault: the second engine call is given a context of its own.
ContextOfFirst(g) == {first(g)}

\* The engine calls that run on the caller's context.
ContextOf(g) == {first(g), second(g)}

\* Once the deciding call has answered, only the executor looks at the context.
CancelContext(g) ==
  /\ at[g] \notin {"returned", "panicked"} /\ endedAt[g] = "never"
  /\ pc[Deciding(g)] \notin {"done", "panicked"} \cup Emitting
  /\ endedAt' = [endedAt EXCEPT ![g] = pc[Deciding(g)]]
  /\ canceledAt' = [c \in Calls |-> IF c \in ContextOf(g) THEN pc[c] ELSE canceledAt[c]]
  /\ UNCHANGED <<pc, callVars, loopVars, resultVars, sinkVars, rejects, pool,
                 history, at, request, returns, cache, sent>>

-----------------------------------------------------------------------------

GuardInit ==
  /\ Init
  /\ at = [g \in Guarded |-> "ready"]
  /\ request = [g \in Guarded |->
       [wrapper |-> "direct", sql |-> CHOOSE s \in Inputs : TRUE, rewriter |-> FALSE]]
  /\ returns = [g \in Guarded |-> Error("none")]
  /\ cache = << >>
  /\ sent = [g \in Guarded |-> {}]
  /\ endedAt = [g \in Guarded |-> "never"]

\* One step of the goroutine that makes the guarded call.
GuardStep(g) ==
  \/ Begin(g) \/ Prepared(g) \/ Decided(g) \/ Delegate(g) \/ Unwind(g)
  \/ \E c \in {first(g), second(g)} : Step(c) /\ UNCHANGED guardVars

GuardNext ==
  \/ \E g \in Guarded : Enter(g) \/ GuardStep(g) \/ CancelContext(g)
  \/ \E pair \in Stateful : ChangeRule(pair) /\ UNCHANGED guardVars

GuardSpec == GuardInit /\ [][GuardNext]_allVars

\* A goroutine that can take a step is eventually scheduled; rules, sinks and
\* the executor return or panic.
GuardFairSpec == GuardSpec /\ \A g \in Guarded : WF_allVars(GuardStep(g))

-----------------------------------------------------------------------------
(* Properties.                                                             *)

\* What either wrapper hands to the executor is the caller's SQL, no argument
\* of the call can replace it, and the engine call that decided about it was
\* about a Prepared of that SQL and evaluated every rule on every statement:
\* a cached Prepared stands in for the parser and for nothing else.
DelegatedMeansFullyChecked ==
  \A g \in Guarded : sent[g] # {} =>
    /\ sent[g] = {request[g].sql} /\ ~request[g].rewriter
    /\ prepared[Deciding(g)] = request[g].sql
    /\ approved[Deciding(g)] = AllPairs(Deciding(g))

\* A guarded call that returns has caused exactly one event, the one of the
\* error it returns, on a hit, on a miss that ends in either of its two engine
\* calls, and through the direct wrapper; one refused for a rewriting argument
\* or unwound by a rule has caused none.
OneEventPerGuardedCall ==
  \A g \in Guarded :
    LET told == metricsSeen[first(g)] \o metricsSeen[second(g)]
        silent == Validator \notin MetricsOn \/ returns[g].type = "rewriter"
    IN  /\ at[g] = "returned" =>
             told = IF silent THEN << >>
                    ELSE <<[outcome |-> OutcomeOf(returns[g]), ruleID |-> returns[g].ruleID]>>
        /\ at[g] = "panicked" => told = << >>

\* When the caller's context ends before the rules are reached, be it between
\* Prepare and ValidatePrepared, no rule is evaluated, nothing reaches the
\* executor and the cache keeps nothing of the call.
CancellationStopsDelegation ==
  \A g \in Guarded : endedAt[g] \in {"idle"} \cup Before =>
    /\ sent[g] = {} /\ approved[Deciding(g)] = {}
    /\ pc[Deciding(g)] = "done" => err[Deciding(g)] = Error("context") /\ ~Cacheable(g)

\* Every guarded call returns to its caller or is unwound, however the engine
\* calls it is made of interleave, fail or are canceled.
EveryGuardedCallReturns ==
  \A g \in Guarded : at[g] # "ready" ~> at[g] \in {"returned", "panicked"}
=============================================================================
