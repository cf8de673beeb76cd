------------------------- MODULE GuardedEngineProofs -------------------------
(***************************************************************************)
(* What the wrappers promise together with the engine, for every number of *)
(* guarded calls, every cache size and every set of rules and inputs.      *)
(*                                                                         *)
(* The engine's invariant SInv is carried over: the steps of a guarded     *)
(* call are steps of the engine or leave it alone, except for the end of   *)
(* the caller's context, which reaches two engine calls at once. On top of *)
(* it stands what a guarded call's place says about its two engine calls.  *)
(***************************************************************************)
EXTENDS GuardedEngine, EngineProofs, LRUCacheProofs

Places == {"ready", "entered", "preparing", "deciding", "execute", "returned",
           "panicked"}

\* What the cache holds: each Prepared under the SQL it was made of.
CacheEntries == {<<s, s>> : s \in Inputs}

GuardTypes ==
  /\ at \in [Guarded -> Places]
  /\ request \in [Guarded -> Requests]
  /\ returns \in [Guarded -> Errors \cup {Error("none"), Error("rewriter")}]
  /\ cache \in Seq(CacheEntries) /\ Len(cache) <= Capacity
  /\ sent \in [Guarded -> SUBSET Inputs]
  /\ endedAt \in [Guarded -> Locations \cup {"never"}]

\* A Prepare that returns nil hands out the Prepared of its argument.
HandsOut(c) ==
  pc[c] = "done" /\ op[c] = "Prepare" /\ err[c] = Error("nil") => prepared[c] = sql[c]

\* Neither engine call was made.
Untouched(g) == pc[first(g)] = "idle" /\ pc[second(g)] = "idle"

\* Prepare was called on a miss, and nothing else.
Prepares(g) ==
  /\ request[g].wrapper = "caching" /\ ~request[g].rewriter
  /\ op[first(g)] = "Prepare" /\ engine[first(g)] = Validator
  /\ sql[first(g)] = request[g].sql
  /\ pc[first(g)] # "idle" /\ pc[second(g)] = "idle"

\* The deciding call was made, about the request's SQL; the other one was not
\* needed or has handed out a Prepared.
Decides(g) ==
  /\ ~request[g].rewriter
  /\ pc[Deciding(g)] # "idle" /\ engine[Deciding(g)] = Validator
  /\ request[g].wrapper = "direct" =>
       /\ op[first(g)] = "Validate" /\ sql[first(g)] = request[g].sql
       /\ pc[second(g)] = "idle"
  /\ request[g].wrapper = "caching" =>
       /\ op[second(g)] = "ValidatePrepared" /\ prepared[second(g)] = request[g].sql
       /\ \/ pc[first(g)] = "idle"
          \/ /\ pc[first(g)] = "done" /\ op[first(g)] = "Prepare"
             /\ err[first(g)] = Error("nil")

\* A guarded call returns what its last engine call returned, and delegates
\* only if that was nil.
Returned(g) ==
  \/ /\ request[g].rewriter /\ Untouched(g)
     /\ returns[g] = Error("rewriter") /\ sent[g] = {}
  \/ /\ Prepares(g) /\ pc[first(g)] = "done" /\ err[first(g)] # Error("nil")
     /\ returns[g] = err[first(g)] /\ sent[g] = {}
  \/ /\ Decides(g) /\ pc[Deciding(g)] = "done" /\ returns[g] = err[Deciding(g)]
     /\ sent[g] = IF err[Deciding(g)] = Error("nil") THEN {request[g].sql} ELSE {}

\* What the place of a guarded call says.
Progress(g) ==
  /\ at[g] # "returned" => sent[g] = {}
  /\ at[g] \in {"ready", "entered"} => Untouched(g)
  /\ at[g] = "preparing" => Prepares(g)
  /\ at[g] \in {"deciding", "execute", "panicked"} => Decides(g)
  /\ at[g] = "execute" => pc[Deciding(g)] = "done" /\ err[Deciding(g)] = Error("nil")
  /\ at[g] = "panicked" => pc[Deciding(g)] = "panicked"
  /\ at[g] = "returned" => Returned(g)

\* The deciding engine call sees the caller's context end.
SharesContext(g) ==
  endedAt[g] # "never" =>
    /\ canceledAt[Deciding(g)] = endedAt[g]
    /\ at[g] = "ready" => \A c \in {first(g), second(g)} : canceledAt[c] = endedAt[g]

GInv ==
  /\ SInv /\ GuardTypes
  /\ \A c \in Calls : HandsOut(c)
  /\ \A g \in Guarded : Progress(g) /\ SharesContext(g)

USE DEF callVars, loopVars, sinkVars, resultVars, history, Goto,
        Locations, Before, Looping, Emitting, Ops

-----------------------------------------------------------------------------
(* The engine's steps.                                                     *)

\* The two engine calls of a guarded call are its own.
LEMMA OwnCalls ==
  ASSUME NEW g \in Guarded
  PROVE  /\ first(g) \in Calls /\ second(g) \in Calls
         /\ \A h : first(g) # second(h)
         /\ \A h : h # g => first(h) # first(g) /\ second(h) # second(g)
  BY CallsAssumption DEF first, second

\* Deciding is one of the two.
LEMMA DecidingIsOwn ==
  ASSUME NEW g \in Guarded
  PROVE  Deciding(g) \in {first(g), second(g)} /\ Deciding(g) \in Calls
  BY OwnCalls DEF Deciding

\* What the engine does for a call leaves its arguments alone, and the Prepared
\* that ValidatePrepared was given too.
LEMMA StepKeepsArguments ==
  ASSUME IInv, NEW c \in Calls, Step(c)
  PROVE  /\ UNCHANGED <<op, engine, sql, canceledAt>>
         /\ pc[c] \notin {"idle", "done", "panicked"} /\ pc'[c] # "idle"
         /\ op[c] = "ValidatePrepared" => prepared'[c] = prepared[c]
<1> USE DEF IInv, TypeOK
<1>1. CASE PrepareCheck(c)
  BY <1>1 DEF PrepareCheck, FinishCanceled, finishValidation
<1>2. CASE Parse(c)
  BY <1>2 DEF Parse
<1>3. CASE ParsedCheck(c)
  <2>1. op[c] # "ValidatePrepared"
    BY <1>3 DEF ParsedCheck, CallInv, OnItsWay
  <2>2. QED
    BY <1>3, <2>1 DEF ParsedCheck, FinishCanceled, finishValidation
<1>4. CASE ValidateCheck(c)
  BY <1>4 DEF ValidateCheck, FinishCanceled, finishValidation
<1>5. CASE LoopHead(c)
  BY <1>5 DEF LoopHead, FinishCanceled, finishValidation
<1>6. CASE Evaluate(c)
  BY <1>6 DEF Evaluate, finishValidation
<1>7. CASE RulePanic(c)
  BY <1>7 DEF RulePanic
<1>8. CASE EmitMetrics(c)
  BY <1>8 DEF EmitMetrics, isolateObservabilityFailure
<1>9. CASE EmitLogger(c)
  BY <1>9 DEF EmitLogger, isolateObservabilityFailure
<1>10. QED
  BY <1>1, <1>2, <1>3, <1>4, <1>5, <1>6, <1>7, <1>8, <1>9 DEF Step

\* Prepare hands out a Prepared where it returns nil, and nowhere else.
LEMMA HandsOutKept ==
  ASSUME SInv, NEW c \in Calls, HandsOut(c),
         Step(c) \/ InvokeWithSQL(c) \/ InvokeWithPrepared(c)
  PROVE  HandsOut(c)'
<1> USE DEF SInv, IInv, TypeOK
<1>1. CASE InvokeWithSQL(c) \/ InvokeWithPrepared(c)
  BY <1>1 DEF InvokeWithSQL, InvokeWithPrepared, HandsOut
<1>2. CASE ParsedCheck(c)
  <2>1. CASE ParseOutcome(c) = "parsed"
    BY <1>2, <2>1 DEF ParsedCheck, HandsOut
  <2>2. CASE ParseOutcome(c) # "parsed"
    BY <1>2, <2>2 DEF ParsedCheck, FinishCanceled, finishValidation, HandsOut
  <2>3. QED
    BY <2>1, <2>2
<1>3. CASE EmitLogger(c)
  <2>0. event[c] \in Events
    BY <1>3 DEF EmitLogger, CallInv, Decision
  <2>1. event[c] # NoEvent
    BY <2>0 DEF Events, Outcomes, NoEvent
  <2>2. op[c] = "Prepare" => err[c] # Error("nil")
    BY <2>1 DEF Layers, Reporting
  <2>3. QED
    BY <1>3, <2>2 DEF EmitLogger, HandsOut
<1>4. CASE \/ PrepareCheck(c) \/ Parse(c) \/ ValidateCheck(c) \/ LoopHead(c)
           \/ Evaluate(c) \/ RulePanic(c) \/ EmitMetrics(c)
  <2>1. pc'[c] # "done"
    BY <1>4 DEF PrepareCheck, Parse, ValidateCheck, LoopHead, Evaluate, RulePanic,
       EmitMetrics, isolateObservabilityFailure, FinishCanceled, finishValidation
  <2>2. QED
    BY <2>1 DEF HandsOut
<1>5. QED
  BY <1>1, <1>2, <1>3, <1>4 DEF Step

\* What is known of Prepare depends on the call's own variables.
LEMMA LocalKeepsHandsOut ==
  ASSUME NEW d \in Calls, HandsOut(d), Local(d)' = Local(d)
  PROVE  HandsOut(d)'
  BY DEF HandsOut, Local

\* The end of the caller's context is none of the engine's own steps: it may
\* reach one engine call before it begins and another where it is or after it has
\* returned.  The engine's invariant is kept all the same.
LEMMA ContextEndKeeps ==
  ASSUME SInv, NEW g \in Guarded, CancelContext(g)
  PROVE  SInv'
<1>1. /\ UNCHANGED <<pc, op, engine, sql, prepared, i, j, err, event, metricsSeen,
                     loggerSeen, rejects, pool, approved, lateEvals, standing>>
      /\ \A c \in Calls : canceledAt'[c] \in {canceledAt[c], pc[c]}
      /\ canceledAt' = [c \in Calls |-> canceledAt'[c]]
  BY DEF CancelContext
<1>2. canceledAt' \in [Calls -> Locations \cup {"never"}]
  BY <1>1 DEF SInv, IInv, TypeOK
<1>3. TypeOK'
  BY <1>1, <1>2 DEF SInv, IInv, TypeOK
<1>4. ASSUME NEW c \in Calls PROVE CallInv(c)'
  BY <1>1 DEF SInv, IInv, CallInv, NotStarted, OnItsWay, InLoop, Decision, PairsBefore,
     AllPairs, SequenceOf, RulesOf, Exhausted
<1>5. ASSUME NEW c \in Calls PROVE Layers(c)'
  <2>1. Reporting(c)'
    BY <1>1 DEF SInv, Layers, Reporting, Silent, TerminalEvents
  <2>2. Cancellation(c)'
    BY <1>1 DEF SInv, Layers, Cancellation
  <2>3. Lateness(c)'
    <3>1. canceledAt'[c] # "never" \/ canceledAt'[c] = canceledAt[c]
      BY <1>1 DEF SInv, IInv, TypeOK
    <3>2. QED
      BY <1>1, <3>1 DEF SInv, Layers, Lateness, ctxErr
  <2>4. Freshness(c)'
    BY <1>1 DEF SInv, Layers, Freshness, RulesOf, SequenceOf
  <2>5. QED
    BY <2>1, <2>2, <2>3, <2>4 DEF Layers
<1>6. QED
  BY <1>3, <1>4, <1>5 DEF SInv, IInv

-----------------------------------------------------------------------------
(* One guarded call does not disturb another.                              *)

\* What a guarded call and its engine calls decide.
GuardLocal(g) == <<at[g], request[g], returns[g], sent[g], endedAt[g],
                   Local(first(g)), Local(second(g))>>

\* What is known of a guarded call depends on nothing else; the cache is shared,
\* and nothing that is known of a call is about it.
LEMMA GuardLocalKeeps ==
  ASSUME NEW g \in Guarded, Progress(g), SharesContext(g), GuardLocal(g)' = GuardLocal(g)
  PROVE  Progress(g)' /\ SharesContext(g)'
<1> DEFINE f == first(g)  s == second(g)  d == Deciding(g)
<1>1. /\ at'[g] = at[g] /\ request'[g] = request[g] /\ returns'[g] = returns[g]
      /\ sent'[g] = sent[g] /\ endedAt'[g] = endedAt[g]
      /\ d' = d
  BY DEF GuardLocal, Deciding
<1>2. \A c \in {f, s} :
        /\ pc'[c] = pc[c] /\ op'[c] = op[c] /\ engine'[c] = engine[c]
        /\ sql'[c] = sql[c] /\ prepared'[c] = prepared[c] /\ err'[c] = err[c]
        /\ canceledAt'[c] = canceledAt[c]
  BY DEF GuardLocal, Local
<1>3. d \in {f, s}
  BY DecidingIsOwn
<1>4. Untouched(g)' = Untouched(g)
  BY <1>2 DEF Untouched
<1>5. Prepares(g)' = Prepares(g)
  BY <1>1, <1>2 DEF Prepares
<1>6. Decides(g)' = Decides(g)
  BY <1>1, <1>2, <1>3 DEF Decides
<1>7. Progress(g)'
  BY <1>1, <1>2, <1>3, <1>4, <1>5, <1>6 DEF Progress, Returned
<1>8. SharesContext(g)'
  BY <1>1, <1>2, <1>3 DEF SharesContext
<1>9. QED
  BY <1>7, <1>8

\* Steps of the engine for one guarded call leave the calls of another alone.
LEMMA OtherCallsAlone ==
  ASSUME TypeOK, NEW g \in Guarded, NEW h \in Guarded, g # h,
         \/ \E c \in {first(g), second(g)} : CallStep(c)
         \/ UNCHANGED vars
  PROVE  Local(first(h))' = Local(first(h)) /\ Local(second(h))' = Local(second(h))
<1>1. CASE UNCHANGED vars
  BY <1>1 DEF vars, Local
<1>2. CASE \E c \in {first(g), second(g)} : CallStep(c)
  <2>1. PICK c \in {first(g), second(g)} : CallStep(c)
    BY <1>2
  <2>2. c \in Calls /\ first(h) \in Calls /\ second(h) \in Calls
    BY <2>1, OwnCalls
  <2>3. c # first(h) /\ c # second(h)
    BY <2>1, OwnCalls
  <2>4. QED
    BY <2>1, <2>2, <2>3, StepIsLocal
<1>3. QED
  BY <1>1, <1>2

-----------------------------------------------------------------------------
(* The steps of a guarded call keep what is known of it.                   *)

Known(g) == Progress(g) /\ SharesContext(g)

\* The request is fixed when the wrapper is entered, before either engine call;
\* if the context has ended by then, both calls see it.
LEMMA EnterKeeps ==
  ASSUME GInv, NEW g \in Guarded, Enter(g)
  PROVE  GuardTypes' /\ Known(g)'
<1>1. /\ at[g] = "ready" /\ at' = [at EXCEPT ![g] = "entered"]
      /\ UNCHANGED <<vars, returns, cache, sent, endedAt>>
  BY DEF Enter, Become
<1>2. PICK r \in Requests : request' = [request EXCEPT ![g] = r]
  BY DEF Enter
<1>3. GuardTypes'
  BY <1>1, <1>2 DEF GInv, GuardTypes, Places
<1>4. at'[g] = "entered" /\ Untouched(g)' /\ sent'[g] = {}
  BY <1>1 DEF GInv, GuardTypes, Progress, Untouched, vars
<1>5. Progress(g)'
  BY <1>4 DEF Progress
<1>6. SharesContext(g)'
  BY <1>1, <1>4 DEF GInv, SharesContext, Deciding, vars
<1>7. QED
  BY <1>3, <1>5, <1>6 DEF Known

\* What a call with SQL does to its engine call.
LEMMA CalledWithSQL ==
  ASSUME TypeOK, NEW c \in Calls, NEW o, NEW s, CallWithSQL(c, o, s)
  PROVE  /\ CallStep(c)
         /\ pc[c] = "idle" /\ pc'[c] = "prepare"
         /\ op'[c] = o /\ engine'[c] = Validator /\ sql'[c] = s
         /\ UNCHANGED canceledAt
  BY DEF CallWithSQL, CallStep, InvokeWithSQL, Invoke, TypeOK

\* What a call with a Prepared does to its engine call.
LEMMA CalledWithPrepared ==
  ASSUME TypeOK, NEW c \in Calls, NEW p, CallWithPrepared(c, p)
  PROVE  /\ CallStep(c)
         /\ pc[c] = "idle" /\ pc'[c] = "validate"
         /\ op'[c] = "ValidatePrepared" /\ engine'[c] = Validator /\ prepared'[c] = p
         /\ UNCHANGED canceledAt
  BY DEF CallWithPrepared, CallStep, InvokeWithPrepared, Invoke, TypeOK

\* A guarded call that moves on without touching its context still shares it.
LEMMA ContextUnmoved ==
  ASSUME NEW g \in Guarded, SharesContext(g), at'[g] # "ready",
         request'[g] = request[g], endedAt'[g] = endedAt[g], UNCHANGED canceledAt
  PROVE  SharesContext(g)'
  BY DEF SharesContext, Deciding

\* A rewriting argument ends the guarded call before either engine call.
LEMMA CheckRewriterKeeps ==
  ASSUME GInv, NEW g \in Guarded, at[g] = "entered", CheckRewriter(g),
         UNCHANGED <<request, sent, endedAt>>
  PROVE  GuardTypes' /\ Known(g)'
<1>1. /\ request[g].rewriter /\ at' = [at EXCEPT ![g] = "returned"]
      /\ returns' = [returns EXCEPT ![g] = Error("rewriter")]
      /\ UNCHANGED <<vars, cache, request, sent, endedAt>>
  BY DEF CheckRewriter, Refuse, Become
<1>2. GuardTypes'
  BY <1>1 DEF GInv, GuardTypes, Places
<1>3. /\ at'[g] = "returned" /\ returns'[g] = Error("rewriter")
      /\ sent'[g] = {} /\ Untouched(g)' /\ request'[g].rewriter
  BY <1>1 DEF GInv, GuardTypes, Progress, Untouched, vars
<1>4. Progress(g)'
  BY <1>3 DEF Progress, Returned
<1>5. SharesContext(g)'
  BY <1>1, <1>3, ContextUnmoved DEF GInv, vars
<1>6. QED
  BY <1>2, <1>4, <1>5 DEF Known

\* The direct wrapper calls Validate with the caller's SQL.
LEMMA DirectKeeps ==
  ASSUME GInv, NEW g \in Guarded, at[g] = "entered", Direct(g),
         UNCHANGED <<request, sent, endedAt>>
  PROVE  /\ GuardTypes' /\ Known(g)'
         /\ CallStep(first(g))
<1> DEFINE f == first(g)  s == second(g)
<1>0. f \in Calls /\ s \in Calls /\ f # s /\ TypeOK
  BY OwnCalls DEF GInv, SInv, IInv
<1>1. /\ ~request[g].rewriter /\ request[g].wrapper = "direct"
      /\ CallWithSQL(f, "Validate", request[g].sql)
      /\ at' = [at EXCEPT ![g] = "deciding"]
      /\ UNCHANGED <<request, returns, cache, sent, endedAt>>
  BY DEF Direct, Become
<1>2. /\ CallStep(f) /\ pc'[f] = "prepare" /\ op'[f] = "Validate"
      /\ engine'[f] = Validator /\ sql'[f] = request[g].sql /\ UNCHANGED canceledAt
  BY <1>0, <1>1, CalledWithSQL
<1>3. pc'[s] = "idle"
  BY <1>0, <1>2, StepIsLocal DEF Local, GInv, Progress, Untouched
<1>4. GuardTypes'
  BY <1>1 DEF GInv, GuardTypes, Places
<1>5. at'[g] = "deciding" /\ sent'[g] = {}
  BY <1>1 DEF GInv, GuardTypes, Progress
<1>6. Decides(g)'
  BY <1>1, <1>2, <1>3 DEF Decides, Deciding
<1>7. Progress(g)'
  BY <1>5, <1>6 DEF Progress
<1>8. SharesContext(g)'
  BY <1>1, <1>2, <1>5, ContextUnmoved DEF GInv
<1>9. QED
  BY <1>2, <1>4, <1>7, <1>8 DEF Known

\* A miss calls Prepare with the caller's SQL.
LEMMA MissKeeps ==
  ASSUME GInv, NEW g \in Guarded, at[g] = "entered", Miss(g),
         UNCHANGED <<request, sent, endedAt>>
  PROVE  /\ GuardTypes' /\ Known(g)'
         /\ CallStep(first(g))
<1> DEFINE f == first(g)  s == second(g)
<1>0. f \in Calls /\ s \in Calls /\ f # s /\ TypeOK
  BY OwnCalls DEF GInv, SInv, IInv
<1>1. /\ ~request[g].rewriter /\ request[g].wrapper = "caching"
      /\ CallWithSQL(f, "Prepare", request[g].sql)
      /\ at' = [at EXCEPT ![g] = "preparing"]
      /\ UNCHANGED <<request, returns, cache, sent, endedAt>>
  BY DEF Miss, Become
<1>2. /\ CallStep(f) /\ pc'[f] = "prepare" /\ op'[f] = "Prepare"
      /\ engine'[f] = Validator /\ sql'[f] = request[g].sql /\ UNCHANGED canceledAt
  BY <1>0, <1>1, CalledWithSQL
<1>3. pc'[s] = "idle"
  BY <1>0, <1>2, StepIsLocal DEF Local, GInv, Progress, Untouched
<1>4. GuardTypes'
  BY <1>1 DEF GInv, GuardTypes, Places
<1>5. at'[g] = "preparing" /\ sent'[g] = {}
  BY <1>1 DEF GInv, GuardTypes, Progress
<1>6. Prepares(g)'
  BY <1>1, <1>2, <1>3 DEF Prepares
<1>7. Progress(g)'
  BY <1>5, <1>6 DEF Progress
<1>8. SharesContext(g)'
  BY <1>1, <1>2, <1>5, ContextUnmoved DEF GInv
<1>9. QED
  BY <1>2, <1>4, <1>7, <1>8 DEF Known

\* A hit calls ValidatePrepared with what the cache holds under the caller's SQL,
\* a Prepared of that SQL.
LEMMA HitKeeps ==
  ASSUME GInv, NEW g \in Guarded, at[g] = "entered", Hit(g),
         UNCHANGED <<request, sent, endedAt>>
  PROVE  /\ GuardTypes' /\ Known(g)'
         /\ CallStep(second(g))
<1> DEFINE f == first(g)  s == second(g)  key == request[g].sql
<1>0. f \in Calls /\ s \in Calls /\ f # s /\ TypeOK
  BY OwnCalls DEF GInv, SInv, IInv
<1>1. /\ ~request[g].rewriter /\ request[g].wrapper = "caching"
      /\ key \in Keys(cache)
      /\ CallWithPrepared(s, Lookup(cache, key))
      /\ cache' = Get(cache, key)
      /\ at' = [at EXCEPT ![g] = "deciding"]
      /\ UNCHANGED <<request, returns, sent, endedAt>>
  BY DEF Hit, InCache, Become
<1>2. cache \in Seq(CacheEntries) /\ Len(cache) <= Capacity
  BY DEF GInv, GuardTypes
<1>3. Lookup(cache, key) = key
  <2>1. PICK entry \in Entries(cache) : KeyOf(entry) = key /\ Lookup(cache, key) = entry[2]
    BY <1>1, <1>2, LookupFinds
  <2>2. entry \in CacheEntries
    BY <1>2, <2>1 DEF Entries
  <2>3. QED
    BY <2>1, <2>2 DEF CacheEntries, KeyOf
<1>4. cache' \in Seq(CacheEntries) /\ Len(cache') <= Capacity
  BY <1>1, <1>2, GetKeeps
<1>5. /\ CallStep(s) /\ pc'[s] = "validate" /\ op'[s] = "ValidatePrepared"
      /\ engine'[s] = Validator /\ prepared'[s] = key /\ UNCHANGED canceledAt
  BY <1>0, <1>1, <1>3, CalledWithPrepared
<1>6. pc'[f] = "idle"
  BY <1>0, <1>5, StepIsLocal DEF Local, GInv, Progress, Untouched
<1>7. GuardTypes'
  BY <1>1, <1>4 DEF GInv, GuardTypes, Places
<1>8. at'[g] = "deciding" /\ sent'[g] = {}
  BY <1>1 DEF GInv, GuardTypes, Progress
<1>9. Decides(g)'
  BY <1>1, <1>5, <1>6 DEF Decides, Deciding
<1>10. Progress(g)'
  BY <1>8, <1>9 DEF Progress
<1>11. SharesContext(g)'
  BY <1>1, <1>5, <1>8, ContextUnmoved DEF GInv
<1>12. QED
  BY <1>5, <1>7, <1>10, <1>11 DEF Known

\* When Prepare has returned, its error is the guarded call's or its Prepared is
\* validated on the same context.
LEMMA PreparedKeeps ==
  ASSUME GInv, NEW g \in Guarded, Prepared(g)
  PROVE  /\ GuardTypes' /\ Known(g)'
         /\ CallStep(second(g)) \/ UNCHANGED vars
<1> DEFINE f == first(g)  s == second(g)
<1>0. /\ f \in Calls /\ s \in Calls /\ f # s /\ TypeOK
      /\ at[g] = "preparing" /\ pc[f] = "done" /\ Prepares(g) /\ sent[g] = {}
      /\ UNCHANGED <<request, cache, sent, endedAt>>
  BY OwnCalls DEF GInv, SInv, IInv, Prepared, Progress
<1>1. CASE err[f] # Error("nil")
  <2>1. /\ returns' = [returns EXCEPT ![g] = err[f]]
        /\ at' = [at EXCEPT ![g] = "returned"] /\ UNCHANGED vars
    BY <1>1 DEF Prepared, Refuse, Become
  <2>2. GuardTypes'
    BY <1>0, <2>1 DEF GInv, GuardTypes, Places, TypeOK
  <2>3. /\ at'[g] = "returned" /\ returns'[g] = err[f]
    BY <2>1 DEF GInv, GuardTypes
  <2>4. Prepares(g)' /\ pc'[f] = "done" /\ err'[f] = err[f] /\ sent'[g] = {}
    BY <1>0, <2>1 DEF Prepares, vars
  <2>5. Progress(g)'
    BY <1>1, <2>3, <2>4 DEF Progress, Returned
  <2>6. SharesContext(g)'
    BY <1>0, <2>1, <2>3, ContextUnmoved DEF GInv, vars
  <2>7. QED
    BY <2>1, <2>2, <2>5, <2>6 DEF Known
<1>2. CASE err[f] = Error("nil")
  <2>1. /\ CallWithPrepared(s, prepared[f])
        /\ at' = [at EXCEPT ![g] = "deciding"] /\ UNCHANGED returns
    BY <1>2 DEF Prepared, Become
  <2>2. prepared[f] = request[g].sql
    BY <1>0, <1>2 DEF GInv, HandsOut, Prepares
  <2>3. /\ CallStep(s) /\ pc'[s] = "validate" /\ op'[s] = "ValidatePrepared"
        /\ engine'[s] = Validator /\ prepared'[s] = request[g].sql
        /\ UNCHANGED canceledAt
    BY <1>0, <2>1, <2>2, CalledWithPrepared
  <2>4. pc'[f] = "done" /\ op'[f] = "Prepare" /\ err'[f] = Error("nil")
    BY <1>0, <1>2, <2>3, StepIsLocal DEF Local, Prepares
  <2>5. GuardTypes'
    BY <1>0, <2>1 DEF GInv, GuardTypes, Places
  <2>6. at'[g] = "deciding" /\ sent'[g] = {}
    BY <1>0, <2>1 DEF GInv, GuardTypes
  <2>7. Decides(g)'
    BY <1>0, <2>3, <2>4 DEF Decides, Deciding, Prepares
  <2>8. Progress(g)'
    BY <2>6, <2>7 DEF Progress
  <2>9. SharesContext(g)'
    BY <1>0, <2>3, <2>6, ContextUnmoved DEF GInv
  <2>10. QED
    BY <2>3, <2>5, <2>8, <2>9 DEF Known
<1>3. QED
  BY <1>1, <1>2

\* What the wrapper keeps of a miss is the Prepared of the caller's SQL.
LEMMA DecidedKeepsCache ==
  ASSUME GInv, NEW g \in Guarded, Decided(g)
  PROVE  cache' \in Seq(CacheEntries) /\ Len(cache') <= Capacity
<1>0. /\ cache \in Seq(CacheEntries) /\ Len(cache) <= Capacity /\ Decides(g)
      /\ request[g].sql \in Inputs
  BY DEF GInv, GuardTypes, Decided, Progress, Requests
<1>1. CASE Cacheable(g)
  <2>1. cache' = Add(cache, request[g].sql, prepared[second(g)])
    BY <1>1 DEF Decided
  <2>2. prepared[second(g)] = request[g].sql
    BY <1>0, <1>1 DEF Cacheable, Decides
  <2>3. <<request[g].sql, request[g].sql>> \in CacheEntries
    BY <1>0 DEF CacheEntries
  <2>4. QED
    BY <1>0, <2>1, <2>2, <2>3, AddKeeps
<1>2. CASE ~Cacheable(g)
  BY <1>0, <1>2 DEF Decided
<1>3. QED
  BY <1>1, <1>2

\* The answer of the deciding call is returned, or leads to the executor.
LEMMA DecidedKeeps ==
  ASSUME GInv, NEW g \in Guarded, Decided(g)
  PROVE  GuardTypes' /\ Known(g)'
<1> DEFINE d == Deciding(g)
<1>0. /\ d \in Calls /\ TypeOK
      /\ at[g] = "deciding" /\ pc[d] = "done" /\ Decides(g) /\ sent[g] = {}
      /\ UNCHANGED <<vars, request, sent, endedAt>>
  BY DecidingIsOwn DEF GInv, SInv, IInv, Decided, Progress
<1>1. d' = d /\ Decides(g)' /\ pc'[d] = "done" /\ err'[d] = err[d] /\ sent'[g] = {}
  BY <1>0 DEF Decides, Deciding, vars
<1>2. CASE err[d] # Error("nil")
  <2>1. /\ returns' = [returns EXCEPT ![g] = err[d]]
        /\ at' = [at EXCEPT ![g] = "returned"]
    BY <1>2 DEF Decided, Refuse, Become
  <2>2. GuardTypes'
    BY <1>0, <2>1, DecidedKeepsCache DEF GInv, GuardTypes, Places, TypeOK
  <2>3. at'[g] = "returned" /\ returns'[g] = err[d]
    BY <2>1 DEF GInv, GuardTypes
  <2>4. Progress(g)'
    BY <1>1, <1>2, <2>3 DEF Progress, Returned
  <2>5. SharesContext(g)'
    BY <1>0, <2>3, ContextUnmoved DEF GInv, vars
  <2>6. QED
    BY <2>2, <2>4, <2>5 DEF Known
<1>3. CASE err[d] = Error("nil")
  <2>1. at' = [at EXCEPT ![g] = "execute"] /\ UNCHANGED returns
    BY <1>3 DEF Decided, Become
  <2>2. GuardTypes'
    BY <1>0, <2>1, DecidedKeepsCache DEF GInv, GuardTypes, Places
  <2>3. at'[g] = "execute"
    BY <2>1 DEF GInv, GuardTypes
  <2>4. Progress(g)'
    BY <1>1, <1>3, <2>3 DEF Progress
  <2>5. SharesContext(g)'
    BY <1>0, <2>3, ContextUnmoved DEF GInv, vars
  <2>6. QED
    BY <2>2, <2>4, <2>5 DEF Known
<1>4. QED
  BY <1>2, <1>3

\* The executor is handed the caller's SQL.
LEMMA DelegateKeeps ==
  ASSUME GInv, NEW g \in Guarded, Delegate(g)
  PROVE  GuardTypes' /\ Known(g)'
<1> DEFINE d == Deciding(g)
<1>0. /\ at[g] = "execute" /\ pc[d] = "done" /\ err[d] = Error("nil")
      /\ Decides(g) /\ sent[g] = {} /\ request[g].sql \in Inputs
      /\ UNCHANGED <<vars, request, cache, endedAt>>
  BY DEF GInv, GuardTypes, Requests, Delegate, Progress
<1>1. d' = d /\ Decides(g)' /\ pc'[d] = "done" /\ err'[d] = Error("nil")
  BY <1>0 DEF Decides, Deciding, vars
<1>2. /\ sent' = [sent EXCEPT ![g] = sent[g] \cup {request[g].sql}]
      /\ returns' = [returns EXCEPT ![g] = Error("nil")]
      /\ at' = [at EXCEPT ![g] = "returned"]
  BY DEF Delegate, Refuse, Become
<1>3. GuardTypes'
  BY <1>0, <1>2, ErrorsAndEvents DEF GInv, GuardTypes, Places
<1>4. /\ at'[g] = "returned" /\ returns'[g] = Error("nil")
      /\ sent'[g] = {request'[g].sql}
  BY <1>0, <1>2 DEF GInv, GuardTypes
<1>5. Progress(g)'
  BY <1>1, <1>4 DEF Progress, Returned
<1>6. SharesContext(g)'
  BY <1>0, <1>4, ContextUnmoved DEF GInv, vars
<1>7. QED
  BY <1>3, <1>5, <1>6 DEF Known

\* A rule's panic unwinds the guarded call as well.
LEMMA UnwindKeeps ==
  ASSUME GInv, NEW g \in Guarded, Unwind(g)
  PROVE  GuardTypes' /\ Known(g)'
<1> DEFINE d == Deciding(g)
<1>0. /\ at[g] = "deciding" /\ pc[d] = "panicked" /\ Decides(g) /\ sent[g] = {}
      /\ at' = [at EXCEPT ![g] = "panicked"]
      /\ UNCHANGED <<vars, request, returns, cache, sent, endedAt>>
  BY DEF GInv, Unwind, Become, Progress
<1>1. d' = d /\ Decides(g)' /\ pc'[d] = "panicked" /\ sent'[g] = {}
  BY <1>0 DEF Decides, Deciding, vars
<1>2. GuardTypes' /\ at'[g] = "panicked"
  BY <1>0 DEF GInv, GuardTypes, Places
<1>3. Progress(g)'
  BY <1>1, <1>2 DEF Progress
<1>4. SharesContext(g)'
  BY <1>0, <1>2, ContextUnmoved DEF GInv, vars
<1>5. QED
  BY <1>2, <1>3, <1>4 DEF Known

\* Only a call that is preparing or deciding has an engine call under way, and
\* only the one.
LEMMA UnderWay ==
  ASSUME GInv, NEW g \in Guarded, NEW c \in {first(g), second(g)},
         pc[c] \notin {"idle", "done", "panicked"}
  PROVE  \/ at[g] = "preparing" /\ c = first(g)
         \/ at[g] = "deciding" /\ c = Deciding(g)
<1>1. at[g] \in Places /\ request[g].wrapper \in {"direct", "caching"} /\ Progress(g)
  BY DEF GInv, GuardTypes, Requests
<1>2. CASE at[g] \in {"ready", "entered"}
  BY <1>1, <1>2 DEF Progress, Untouched
<1>3. CASE at[g] = "preparing"
  BY <1>1, <1>3 DEF Progress, Prepares
<1>4. CASE at[g] = "deciding"
  BY <1>1, <1>4 DEF Progress, Decides, Deciding
<1>5. CASE at[g] \in {"execute", "panicked"}
  BY <1>1, <1>5 DEF Progress, Decides, Deciding
<1>6. CASE at[g] = "returned"
  BY <1>1, <1>6 DEF Progress, Returned, Untouched, Prepares, Decides, Deciding
<1>7. QED
  BY <1>1, <1>2, <1>3, <1>4, <1>5, <1>6 DEF Places

\* The engine works on a call of the goroutine's own.
LEMMA EngineStepKeeps ==
  ASSUME GInv, NEW g \in Guarded, NEW c \in {first(g), second(g)}, Step(c),
         UNCHANGED guardVars
  PROVE  GuardTypes' /\ Known(g)'
<1> DEFINE f == first(g)  s == second(g)
<1>0. f \in Calls /\ s \in Calls /\ f # s /\ c \in Calls /\ IInv /\ TypeOK
  BY OwnCalls DEF GInv, SInv, IInv
<1>1. /\ UNCHANGED <<at, request, returns, cache, sent, endedAt>>
      /\ Deciding(g)' = Deciding(g)
  BY DEF guardVars, Deciding
<1>2. GuardTypes'
  BY <1>1 DEF GInv, GuardTypes
<1>3. /\ UNCHANGED <<op, engine, sql, canceledAt>>
      /\ pc[c] \notin {"idle", "done", "panicked"} /\ pc'[c] # "idle"
      /\ op[c] = "ValidatePrepared" => prepared'[c] = prepared[c]
  BY <1>0, StepKeepsArguments
<1>4. ASSUME NEW d \in {f, s}, d # c
      PROVE  pc'[d] = pc[d] /\ err'[d] = err[d] /\ prepared'[d] = prepared[d]
  BY <1>0, <1>4, StepIsLocal DEF CallStep, Local
<1>5. SharesContext(g)'
  BY <1>1, <1>3 DEF GInv, SharesContext
<1>6. CASE at[g] = "preparing" /\ c = f
  <2>1. Prepares(g)'
    BY <1>0, <1>1, <1>3, <1>4, <1>6 DEF GInv, Progress, Prepares
  <2>2. QED
    BY <1>1, <1>2, <1>5, <1>6, <2>1 DEF GInv, Progress, Known
<1>7. CASE at[g] = "deciding" /\ c = Deciding(g)
  <2>1. Decides(g)'
    <3>1. Decides(g)
      BY <1>7 DEF GInv, Progress
    <3>2. CASE request[g].wrapper = "direct"
      BY <1>0, <1>1, <1>3, <1>4, <1>7, <3>1, <3>2 DEF Decides, Deciding
    <3>3. CASE request[g].wrapper # "direct"
      BY <1>0, <1>1, <1>3, <1>4, <1>7, <3>1, <3>3 DEF Decides, Deciding
    <3>4. QED
      BY <3>2, <3>3
  <2>2. QED
    BY <1>1, <1>2, <1>5, <1>7, <2>1 DEF GInv, Progress, Known
<1>8. QED
  BY <1>3, <1>6, <1>7, UnderWay

\* The end of the context moves no call; the deciding one is where it is recorded
\* to have ended.
LEMMA CancelContextKeeps ==
  ASSUME GInv, NEW g \in Guarded, CancelContext(g)
  PROVE  GuardTypes' /\ Known(g)'
<1> DEFINE f == first(g)  s == second(g)  d == Deciding(g)
<1>0. f \in Calls /\ s \in Calls /\ d \in {f, s}
  BY OwnCalls, DecidingIsOwn
<1>1. /\ endedAt' = [endedAt EXCEPT ![g] = pc[d]]
      /\ canceledAt'[f] = pc[f] /\ canceledAt'[s] = pc[s]
      /\ UNCHANGED <<pc, op, engine, sql, prepared, err, at, request, returns, cache, sent>>
  BY <1>0 DEF CancelContext, ContextOf
<1>2. pc[d] \in Locations /\ endedAt'[g] = pc[d] /\ d' = d
  BY <1>0, <1>1 DEF GInv, SInv, IInv, TypeOK, GuardTypes, Deciding
<1>3. GuardTypes'
  BY <1>1, <1>2 DEF GInv, GuardTypes
<1>4. Progress(g)'
  BY <1>1, <1>2 DEF GInv, Progress, Returned, Untouched, Prepares, Decides
<1>5. SharesContext(g)'
  <2>1. canceledAt'[d] = pc[d]
    BY <1>0, <1>1
  <2>2. at[g] = "ready" => pc[f] = pc[d] /\ pc[s] = pc[d]
    BY <1>0 DEF GInv, Progress, Untouched
  <2>3. QED
    BY <1>1, <1>2, <2>1, <2>2 DEF SharesContext
<1>6. QED
  BY <1>3, <1>4, <1>5 DEF Known

-----------------------------------------------------------------------------
(* The invariant.                                                          *)

\* A step of a guarded call is the engine's on one of its calls, or none of the
\* engine's; it keeps what is known of it and changes nothing of another's.
LEMMA OwnGuardStep ==
  ASSUME GInv, NEW g \in Guarded, Enter(g) \/ GuardStep(g)
  PROVE  /\ GuardTypes' /\ Known(g)'
         /\ \/ \E c \in {first(g), second(g)} :
                 Step(c) \/ InvokeWithSQL(c) \/ InvokeWithPrepared(c)
            \/ UNCHANGED vars
         /\ \A h \in Guarded : h # g =>
              /\ at'[h] = at[h] /\ request'[h] = request[h] /\ returns'[h] = returns[h]
              /\ sent'[h] = sent[h] /\ endedAt'[h] = endedAt[h]
<1> USE DEF Become, Refuse
<1>1. CASE Enter(g)
  BY <1>1, EnterKeeps DEF Enter, GInv, GuardTypes
<1>2. CASE Begin(g)
  <2>0. at[g] = "entered" /\ UNCHANGED <<request, sent, endedAt>>
    BY <1>2 DEF Begin
  <2>1. CASE CheckRewriter(g)
    BY <2>0, <2>1, CheckRewriterKeeps DEF CheckRewriter, GInv, GuardTypes
  <2>2. CASE Direct(g)
    BY <2>0, <2>2, DirectKeeps DEF Direct, CallWithSQL, GInv, GuardTypes
  <2>3. CASE Hit(g)
    BY <2>0, <2>3, HitKeeps DEF Hit, CallWithPrepared, GInv, GuardTypes
  <2>4. CASE Miss(g)
    BY <2>0, <2>4, MissKeeps DEF Miss, CallWithSQL, GInv, GuardTypes
  <2>5. QED
    BY <1>2, <2>1, <2>2, <2>3, <2>4 DEF Begin
<1>3. CASE Prepared(g)
  BY <1>3, PreparedKeeps DEF Prepared, CallWithPrepared, GInv, GuardTypes
<1>4. CASE Decided(g)
  BY <1>4, DecidedKeeps DEF Decided, GInv, GuardTypes
<1>5. CASE Delegate(g)
  BY <1>5, DelegateKeeps DEF Delegate, GInv, GuardTypes
<1>6. CASE Unwind(g)
  BY <1>6, UnwindKeeps DEF Unwind, GInv, GuardTypes
<1>7. CASE \E c \in {first(g), second(g)} : Step(c) /\ UNCHANGED guardVars
  BY <1>7, EngineStepKeeps DEF guardVars
<1>8. QED
  BY <1>1, <1>2, <1>3, <1>4, <1>5, <1>6, <1>7 DEF GuardStep

\* The invariant is kept by the guarded call that moves, by those that do not, by
\* a context that ends and by a rule that changes its mind.
LEMMA GInvInductive == GInv /\ [GuardNext]_allVars => GInv'
<1> SUFFICES ASSUME GInv, [GuardNext]_allVars PROVE GInv'
  OBVIOUS
<1>0. SInv /\ TypeOK /\ \A h \in Guarded : Progress(h) /\ SharesContext(h)
  BY DEF GInv, SInv, IInv
<1>1. ASSUME NEW g \in Guarded, Enter(g) \/ GuardStep(g) PROVE GInv'
  <2>1. /\ GuardTypes' /\ Known(g)'
        /\ \/ \E c \in {first(g), second(g)} :
                Step(c) \/ InvokeWithSQL(c) \/ InvokeWithPrepared(c)
           \/ UNCHANGED vars
    BY <1>1, OwnGuardStep
  <2>2. SInv'
    <3>1. [Next]_vars
      BY <2>1, OwnCalls DEF Next
    <3>2. QED
      BY <1>0, <3>1, SInvInductive
  <2>3. ASSUME NEW d \in Calls PROVE HandsOut(d)'
    <3>0. HandsOut(d)
      BY DEF GInv
    <3>1. CASE UNCHANGED vars
      BY <3>0, <3>1 DEF HandsOut, vars
    <3>2. ASSUME NEW c \in {first(g), second(g)},
                 Step(c) \/ InvokeWithSQL(c) \/ InvokeWithPrepared(c)
          PROVE  HandsOut(d)'
      <4>1. c \in Calls /\ CallStep(c)
        BY <3>2, OwnCalls DEF CallStep
      <4>2. CASE c = d
        BY <1>0, <3>0, <3>2, <4>2, HandsOutKept
      <4>3. CASE c # d
        BY <1>0, <3>0, <4>1, <4>3, StepIsLocal, LocalKeepsHandsOut
      <4>4. QED
        BY <4>2, <4>3
    <3>3. QED
      BY <2>1, <3>1, <3>2
  <2>4. ASSUME NEW h \in Guarded, h # g PROVE Known(h)'
    <3>1. /\ at'[h] = at[h] /\ request'[h] = request[h] /\ returns'[h] = returns[h]
          /\ sent'[h] = sent[h] /\ endedAt'[h] = endedAt[h]
      BY <1>1, <2>4, OwnGuardStep
    <3>2. Local(first(h))' = Local(first(h)) /\ Local(second(h))' = Local(second(h))
      BY <1>0, <2>1, <2>4, OtherCallsAlone DEF CallStep
    <3>3. QED
      BY <1>0, <3>1, <3>2, GuardLocalKeeps DEF GuardLocal, Known
  <2>5. QED
    BY <2>1, <2>2, <2>3, <2>4 DEF GInv, Known
<1>2. ASSUME NEW g \in Guarded, CancelContext(g) PROVE GInv'
  <2>1. SInv' /\ GuardTypes' /\ Known(g)'
    BY <1>0, <1>2, ContextEndKeeps, CancelContextKeeps
  <2>2. ASSUME NEW d \in Calls PROVE HandsOut(d)'
    BY <1>2 DEF CancelContext, GInv, HandsOut
  <2>3. ASSUME NEW h \in Guarded, h # g PROVE Known(h)'
    <3>1. first(h) \in Calls \ ContextOf(g) /\ second(h) \in Calls \ ContextOf(g)
      BY <2>3, OwnCalls DEF ContextOf
    <3>2. /\ canceledAt'[first(h)] = canceledAt[first(h)]
          /\ canceledAt'[second(h)] = canceledAt[second(h)]
          /\ endedAt'[h] = endedAt[h]
      BY <1>2, <2>3, <3>1 DEF CancelContext, GInv, GuardTypes
    <3>3. GuardLocal(h)' = GuardLocal(h)
      BY <1>2, <3>2 DEF CancelContext, GuardLocal, Local
    <3>4. QED
      BY <1>0, <3>3, GuardLocalKeeps DEF Known
  <2>4. QED
    BY <2>1, <2>2, <2>3 DEF GInv, Known
<1>3. ASSUME NEW pair \in Stateful, ChangeRule(pair), UNCHANGED guardVars PROVE GInv'
  <2>1. SInv'
    BY <1>0, <1>3, SInvInductive DEF Next
  <2>2. \A d \in Calls : Local(d)' = Local(d)
    BY <1>3, ChangeRuleIsLocal
  <2>3. ASSUME NEW h \in Guarded PROVE Known(h)'
    BY <1>0, <1>3, <2>2, OwnCalls, GuardLocalKeeps DEF guardVars, GuardLocal, Known
  <2>4. \A d \in Calls : HandsOut(d)'
    BY <2>2, LocalKeepsHandsOut DEF GInv
  <2>5. GuardTypes'
    BY <1>3 DEF GInv, GuardTypes, guardVars
  <2>6. QED
    BY <2>1, <2>3, <2>4, <2>5 DEF GInv, Known
<1>4. CASE UNCHANGED allVars
  <2>1. SInv'
    BY <1>0, <1>4, SInvInductive DEF allVars
  <2>2. \A d \in Calls : Local(d)' = Local(d)
    BY <1>4 DEF allVars, vars, Local
  <2>3. ASSUME NEW h \in Guarded PROVE Known(h)'
    BY <1>0, <1>4, <2>2, OwnCalls, GuardLocalKeeps DEF allVars, guardVars, GuardLocal, Known
  <2>4. \A d \in Calls : HandsOut(d)'
    BY <2>2, LocalKeepsHandsOut DEF GInv
  <2>5. GuardTypes'
    BY <1>4 DEF GInv, GuardTypes, allVars, guardVars
  <2>6. QED
    BY <2>1, <2>3, <2>4, <2>5 DEF GInv, Known
<1>5. QED
  BY <1>1, <1>2, <1>3, <1>4 DEF GuardNext

\* Initially no guarded call was made and the cache is empty.
LEMMA GInvInitially == GuardInit => GInv
<1> SUFFICES ASSUME GuardInit PROVE GInv
  OBVIOUS
<1>1. SInv
  BY SInvInitially DEF GuardInit
<1>2. GuardTypes
  <2>1. (CHOOSE s \in Inputs : TRUE) \in Inputs
    BY NonEmptyAssumption
  <2>2. request \in [Guarded -> Requests]
    BY <2>1 DEF GuardInit, Requests
  <2>3. cache \in Seq(CacheEntries) /\ Len(cache) <= Capacity
    BY CapacityAssumption DEF GuardInit
  <2>4. QED
    BY <2>2, <2>3 DEF GuardInit, GuardTypes, Places
<1>3. \A c \in Calls : HandsOut(c)
  BY DEF GuardInit, Init, HandsOut
<1>4. ASSUME NEW g \in Guarded PROVE Progress(g) /\ SharesContext(g)
  BY OwnCalls DEF GuardInit, Init, Progress, SharesContext, Untouched
<1>5. QED
  BY <1>1, <1>2, <1>3, <1>4 DEF GInv

\* So the invariant always holds.
LEMMA AlwaysGInv == GuardSpec => []GInv
  BY GInvInitially, GInvInductive, PTL DEF GuardSpec

-----------------------------------------------------------------------------
(* The theorems.                                                           *)

\* Whatever either wrapper hands to its executor was allowed, as it stands, by an
\* engine call of the same guarded call that evaluated every rule on every one of
\* its statements; a cached Prepared replaces the parser only.
THEOREM DelegationIsChecked == GuardSpec => []DelegatedMeansFullyChecked
<1>1. GInv => DelegatedMeansFullyChecked
  <2> SUFFICES ASSUME GInv, NEW g \in Guarded, sent[g] # {}
               PROVE  /\ sent[g] = {request[g].sql} /\ ~request[g].rewriter
                      /\ prepared[Deciding(g)] = request[g].sql
                      /\ approved[Deciding(g)] = AllPairs(Deciding(g))
    BY DEF DelegatedMeansFullyChecked
  <2> DEFINE d == Deciding(g)
  <2>1. /\ Decides(g) /\ pc[d] = "done" /\ err[d] = Error("nil")
        /\ sent[g] = {request[g].sql}
    BY DEF GInv, Progress, Returned
  <2>2. d \in Calls /\ CallInv(d) /\ Reporting(d)
    BY DecidingIsOwn DEF GInv, SInv, IInv, Layers
  <2>3. request[g].wrapper \in {"direct", "caching"}
    BY DEF GInv, GuardTypes, Requests
  <2>4. op[d] # "Prepare"
    BY <2>1, <2>3 DEF Decides, Deciding
  <2>5. event[d] = EventOf(Error("nil"))
    BY <2>1, <2>2, <2>4 DEF Reporting
  <2>6. event[d].outcome = "allowed"
    BY <2>5, Outcome DEF EventOf
  <2>7. approved[d] = AllPairs(d) /\ (op[d] = "Validate" => prepared[d] = sql[d])
    BY <2>2, <2>6 DEF CallInv, Decision
  <2>8. prepared[d] = request[g].sql
    BY <2>1, <2>3, <2>7 DEF Decides, Deciding
  <2>9. QED
    BY <2>1, <2>7, <2>8 DEF Decides
<1>2. QED
  BY <1>1, AlwaysGInv, PTL

\* The two engine calls of a guarded call make one event between them, the one of
\* the error the caller gets, and none when the wrapper refused or a rule panicked.
THEOREM GuardedCallsReportOnce == GuardSpec => []OneEventPerGuardedCall
<1>1. GInv => OneEventPerGuardedCall
  <2> SUFFICES ASSUME GInv, NEW g \in Guarded
               PROVE  LET told == metricsSeen[first(g)] \o metricsSeen[second(g)]
                          silent == Validator \notin MetricsOn \/ returns[g].type = "rewriter"
                      IN  /\ at[g] = "returned" =>
                               told = IF silent THEN << >> ELSE <<EventOf(returns[g])>>
                          /\ at[g] = "panicked" => told = << >>
    BY DEF OneEventPerGuardedCall, EventOf
  <2> DEFINE f == first(g)  s == second(g)  d == Deciding(g)
             told == metricsSeen[f] \o metricsSeen[s]
             Report(e) == IF Validator \in MetricsOn THEN <<EventOf(e)>> ELSE << >>
  <2>0. /\ f \in Calls /\ s \in Calls /\ d \in {f, s}
        /\ \A c \in {f, s} : CallInv(c) /\ Reporting(c) /\ metricsSeen[c] \in Seq(Events)
        /\ \A c \in {f, s} : err[c] \in Errors
    BY OwnCalls, DecidingIsOwn DEF GInv, SInv, IInv, Layers, TypeOK
  <2>1. \A c \in {f, s} : pc[c] \in {"idle", "panicked"} => metricsSeen[c] = << >>
    BY <2>0 DEF Reporting, Silent, Undecided
  <2>2. \A c \in {f, s} :
          pc[c] = "done" /\ op[c] = "Prepare" /\ err[c] = Error("nil") => metricsSeen[c] = << >>
    BY <2>0 DEF Reporting, Silent
  <2>3. \A c \in {f, s} :
          /\ pc[c] = "done" /\ engine[c] = Validator
          /\ op[c] # "Prepare" \/ err[c] # Error("nil")
          => metricsSeen[c] = Report(err[c])
    BY <2>0 DEF Reporting, TerminalEvents
  <2>4. \A e \in Errors : e.type # "rewriter"
    BY DEF Errors
  <2>5. request[g].wrapper \in {"direct", "caching"}
    BY DEF GInv, GuardTypes, Requests
  <2>6. \A t : t \in Seq(Events) => << >> \o t = t /\ t \o << >> = t
    OBVIOUS
  <2>7. Decides(g) => \/ d = f /\ metricsSeen[s] = << >>
                      \/ d = s /\ metricsSeen[f] = << >>
    BY <2>1, <2>2, <2>5 DEF Decides, Deciding
  <2>8. Decides(g) => told = metricsSeen[d]
    BY <2>0, <2>6, <2>7
  <2>9. ASSUME at[g] = "panicked" PROVE told = << >>
    BY <2>0, <2>1, <2>8, <2>9 DEF GInv, Progress
  <2>10. ASSUME at[g] = "returned"
         PROVE  told = IF Validator \notin MetricsOn \/ returns[g].type = "rewriter"
                       THEN << >> ELSE <<EventOf(returns[g])>>
    <3>1. CASE Untouched(g) /\ returns[g] = Error("rewriter")
      BY <2>1, <2>6, <3>1 DEF Untouched, Error
    <3>2. CASE /\ Prepares(g) /\ pc[f] = "done" /\ err[f] # Error("nil")
               /\ returns[g] = err[f]
      <4>1. told = Report(err[f])
        BY <2>0, <2>1, <2>3, <2>6, <3>2 DEF Prepares
      <4>2. QED
        BY <2>0, <2>4, <3>2, <4>1
    <3>3. CASE Decides(g) /\ pc[d] = "done" /\ returns[g] = err[d]
      <4>1. op[d] # "Prepare" /\ engine[d] = Validator
        BY <2>5, <3>3 DEF Decides, Deciding
      <4>2. told = Report(err[d])
        BY <2>0, <2>3, <2>8, <3>3, <4>1
      <4>3. QED
        BY <2>0, <2>4, <3>3, <4>2
    <3>4. QED
      BY <2>10, <3>1, <3>2, <3>3 DEF GInv, Progress, Returned
  <2>11. QED
    BY <2>9, <2>10
<1>2. QED
  BY <1>1, AlwaysGInv, PTL

\* A context that ends before the deciding call has reached the rules, between the
\* two engine calls included, keeps the SQL from the rules, the executor and the
\* cache.
THEOREM ContextStopsDelegation == GuardSpec => []CancellationStopsDelegation
<1>1. GInv => CancellationStopsDelegation
  <2> SUFFICES ASSUME GInv, NEW g \in Guarded, endedAt[g] \in {"idle"} \cup Before
               PROVE  /\ sent[g] = {} /\ approved[Deciding(g)] = {}
                      /\ pc[Deciding(g)] = "done" =>
                           err[Deciding(g)] = Error("context") /\ ~Cacheable(g)
    BY DEF CancellationStopsDelegation
  <2> DEFINE d == Deciding(g)
  <2>1. /\ d \in Calls /\ pc[d] \in Locations /\ CallInv(d) /\ Cancellation(d)
        /\ canceledAt[d] \in {"idle"} \cup Before
    BY DecidingIsOwn DEF GInv, SInv, IInv, TypeOK, Layers, SharesContext
  <2>2. approved[d] = {}
    BY <2>1 DEF CallInv, NotStarted, Cancellation
  <2>3. pc[d] = "done" => err[d] = Error("context")
    BY <2>1 DEF Cancellation
  <2>4. sent[g] = {}
    <3>1. Error("context") # Error("nil")
      BY DEF Error
    <3>2. QED
      BY <2>3, <3>1 DEF GInv, Progress, Returned
  <2>5. pc[d] = "done" => ~Cacheable(g)
    BY <2>3 DEF Cacheable, Deciding, Error
  <2>6. QED
    BY <2>2, <2>3, <2>4, <2>5
<1>2. QED
  BY <1>1, AlwaysGInv, PTL
=============================================================================
