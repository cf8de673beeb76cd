---------------------------- MODULE PreparedGuard ----------------------------
(***************************************************************************)
(* The pgx-prepared GuardedDB: Exec, Query and QueryRow validate SQL       *)
(* through a bounded LRU cache of Prepared values before they delegate to  *)
(* the wrapped executor. Any number of goroutines share one GuardedDB and  *)
(* its cache, and each makes one call after the other.                     *)
(*                                                                         *)
(* The cache is LRUCache, with CacheOptions.Capacity entries. The          *)
(* validator is an engine seen from outside: a Prepared is identified with *)
(* the SQL it was made of, and what the policy says of it may change at    *)
(* any time.                                                               *)
(***************************************************************************)
EXTENDS LRUCache, FiniteSets

CONSTANTS
  Callers,      \* goroutines
  Operations,   \* of "Exec", "Query" and "QueryRow"
  Inputs,       \* SQL texts
  Malformed,    \* the inputs Prepare refuses
  Oversized,    \* the inputs longer than maxSQLBytes
  Changing,     \* inputs whose policy decision may change
  NoInput       \* no SQL yet, no Prepared yet

ASSUME OperationsAssumption ==
  Operations # {} /\ Operations \subseteq {"Exec", "Query", "QueryRow"}
ASSUME InputsAssumption ==
  /\ Inputs # {} /\ Malformed \subseteq Inputs /\ Oversized \subseteq Inputs
  /\ Changing \subseteq Inputs /\ NoInput \notin Inputs

VARIABLES
  pc,        \* where each caller is
  request,   \* its call: operation, SQL, whether an argument is a QueryRewriter
  prepared,  \* the Prepared it holds
  err,       \* the error of the call
  canceled,  \* whether the call's context has ended
  cache,     \* <<key, Prepared>> entries, most recently used first
  sent,      \* <<operation, SQL>> handed to the executor during the call
  denied,    \* inputs the policy rejects at the moment
  decided,   \* history: inputs that a completed validation has decided
  recency    \* history: keys by last use, most recent first, never evicted

callVars == <<request, prepared, canceled>>
cacheVars == <<cache, recency>>
vars == <<pc, callVars, err, cacheVars, sent, denied, decided>>

Requests == [op : Operations, sql : Inputs, rewriter : BOOLEAN]
Errors == {"none", "nil", "rewriter", "context", "parse", "violation", "panic"}
Prepareds == (Inputs \ Malformed) \cup {NoInput}
Locations == {"ready", "rewriter", "lookup", "prepare", "validate", "revalidate",
              "store", "execute", "row"}

Goto(c, l) == pc' = [pc EXCEPT ![c] = l]
SQL(c) == request[c].sql

\* A guard failure: Exec and Query return the error, QueryRow returns a
\* failedRow that keeps it for Scan.
Refuse(c, e) ==
  /\ err' = [err EXCEPT ![c] = e]
  /\ Goto(c, IF request[c].op = "QueryRow" THEN "row" ELSE "ready")

-----------------------------------------------------------------------------
(* One call.                                                               *)

Call(c) ==
  /\ pc[c] \in {"ready", "row"}
  /\ \E r \in Requests : request' = [request EXCEPT ![c] = r]
  /\ prepared' = [prepared EXCEPT ![c] = NoInput]
  /\ err' = [err EXCEPT ![c] = "none"]
  /\ canceled' = [canceled EXCEPT ![c] = FALSE]
  /\ sent' = [sent EXCEPT ![c] = {}]
  /\ Goto(c, "rewriter")
  /\ UNCHANGED <<cacheVars, denied, decided>>

\* containsQueryRewriter comes before anything else.
CheckRewriter(c) ==
  /\ pc[c] = "rewriter"
  /\ \/ request[c].rewriter /\ Refuse(c, "rewriter")
     \/ ~request[c].rewriter /\ Goto(c, "lookup") /\ UNCHANGED err
  /\ UNCHANGED <<callVars, cacheVars, sent, denied, decided>>

CacheGet(c) ==
  /\ pc[c] = "lookup"
  /\ \/ /\ SQL(c) \in Keys(cache)
        /\ prepared' = [prepared EXCEPT ![c] = Lookup(cache, SQL(c))]
        /\ cache' = Get(cache, SQL(c))
        /\ recency' = Used(recency, SQL(c))
        /\ Goto(c, "revalidate")
     \/ /\ SQL(c) \notin Keys(cache)
        /\ Goto(c, "prepare")
        /\ UNCHANGED <<prepared, cacheVars>>
  /\ UNCHANGED <<request, err, canceled, sent, denied, decided>>

\* Fault: the parser's error is not looked at.
PrepareErrorDropped(c) ==
  /\ pc[c] = "prepare"
  /\ \/ canceled[c] /\ Refuse(c, "context") /\ UNCHANGED prepared
     \/ /\ prepared' = [prepared EXCEPT ![c] = SQL(c)]
        /\ Goto(c, "validate")
        /\ UNCHANGED err
  /\ UNCHANGED <<request, canceled, cacheVars, sent, denied, decided>>

\* validator.Prepare.  A context that ends while it runs may go unnoticed.
Prepare(c) ==
  /\ pc[c] = "prepare"
  /\ \/ canceled[c] /\ Refuse(c, "context") /\ UNCHANGED prepared
     \/ SQL(c) \in Malformed /\ Refuse(c, "parse") /\ UNCHANGED prepared
     \/ /\ SQL(c) \notin Malformed
        /\ prepared' = [prepared EXCEPT ![c] = SQL(c)]
        /\ Goto(c, "validate")
        /\ UNCHANGED err
  /\ UNCHANGED <<request, canceled, cacheVars, sent, denied, decided>>

\* Fault: a Prepared that came out of the cache is taken as allowed.
AnswersRemembered(c) ==
  IF pc[c] = "revalidate" THEN {"nil"}
  ELSE {IF prepared[c] \in denied THEN "violation" ELSE "nil"}

\* What validator.ValidatePrepared can answer now.  The Prepared is one the validator
\* returned, so that ErrInvalidPrepared is no answer of it.
Answers(c) ==
  (IF canceled[c] THEN {"context"} ELSE {})
    \cup {IF prepared[c] \in denied THEN "violation" ELSE "nil"}

isCacheableValidationOutcome(e) == e \in {"nil", "violation"}

\* validator.ValidatePrepared on a hit (the answer is the call's) and on a miss
\* (the entry is stored first).
Validate(c) ==
  /\ pc[c] \in {"validate", "revalidate"}
  /\ \E e \in Answers(c) :
       /\ decided' = IF isCacheableValidationOutcome(e)
                     THEN decided \cup {prepared[c]} ELSE decided
       /\ \/ /\ pc[c] = "validate"
             /\ err' = [err EXCEPT ![c] = e]
             /\ Goto(c, "store")
          \/ /\ pc[c] = "revalidate" /\ e = "nil"
             /\ err' = [err EXCEPT ![c] = e]
             /\ Goto(c, "execute")
          \/ pc[c] = "revalidate" /\ e # "nil" /\ Refuse(c, e)
  /\ UNCHANGED <<callVars, cacheVars, sent, denied>>

\* A rule panics below the guard, which does not recover: the call is unwound
\* to whoever does, and may be followed by another.
Panic(c) ==
  /\ pc[c] \in {"validate", "revalidate"}
  /\ err' = [err EXCEPT ![c] = "panic"]
  /\ Goto(c, "ready")
  /\ UNCHANGED <<callVars, cacheVars, sent, denied, decided>>

\* Fault: every validated Prepared is kept.
CacheableAlways(c) == TRUE

Cacheable(c) == SQL(c) \notin Oversized /\ isCacheableValidationOutcome(err[c])

\* The rest of validate on a miss: another call may have stored the same SQL,
\* or evicted it again, in the meantime.
CacheAdd(c) ==
  /\ pc[c] = "store"
  /\ \/ /\ Cacheable(c)
        /\ cache' = Add(cache, SQL(c), prepared[c])
        /\ recency' = Used(recency, SQL(c))
     \/ ~Cacheable(c) /\ UNCHANGED cacheVars
  /\ \/ err[c] = "nil" /\ Goto(c, "execute") /\ UNCHANGED err
     \/ err[c] # "nil" /\ Refuse(c, err[c])
  /\ UNCHANGED <<callVars, sent, denied, decided>>

\* The executor's own result goes back to the caller unchanged.
Execute(c) ==
  /\ pc[c] = "execute"
  /\ sent' = [sent EXCEPT ![c] = @ \cup {<<request[c].op, SQL(c)>>}]
  /\ Goto(c, "ready")
  /\ UNCHANGED <<callVars, err, cacheVars, denied, decided>>

\* failedRow.Scan gives the kept error to the caller, who may also drop the row.
Scan(c) ==
  /\ pc[c] = "row"
  /\ Goto(c, "ready")
  /\ UNCHANGED <<callVars, err, cacheVars, sent, denied, decided>>

Cancel(c) ==
  /\ pc[c] \notin {"ready", "row"} /\ ~canceled[c]
  /\ canceled' = [canceled EXCEPT ![c] = TRUE]
  /\ UNCHANGED <<pc, request, prepared, err, cacheVars, sent, denied, decided>>

ChangePolicy(s) ==
  /\ denied' = IF s \in denied THEN denied \ {s} ELSE denied \cup {s}
  /\ UNCHANGED <<pc, callVars, err, cacheVars, sent, decided>>

-----------------------------------------------------------------------------

Init ==
  /\ pc = [c \in Callers |-> "ready"]
  /\ request = [c \in Callers |-> CHOOSE r \in Requests : TRUE]
  /\ prepared = [c \in Callers |-> NoInput]
  /\ err = [c \in Callers |-> "none"]
  /\ canceled = [c \in Callers |-> FALSE]
  /\ cache = << >>
  /\ sent = [c \in Callers |-> {}]
  /\ denied \in SUBSET Changing
  /\ decided = {}
  /\ recency = << >>

Step(c) ==
  \/ CheckRewriter(c) \/ CacheGet(c) \/ Prepare(c) \/ Validate(c) \/ Panic(c)
  \/ CacheAdd(c) \/ Execute(c)

Next ==
  \/ \E c \in Callers : Call(c) \/ Step(c) \/ Scan(c) \/ Cancel(c)
  \/ \E s \in Changing : ChangePolicy(s)

Spec == Init /\ [][Next]_vars

-----------------------------------------------------------------------------
(* Properties.                                                             *)

\* The type invariant.
TypeOK ==
  /\ pc \in [Callers -> Locations]
  /\ request \in [Callers -> Requests]
  /\ prepared \in [Callers -> Prepareds]
  /\ err \in [Callers -> Errors]
  /\ canceled \in [Callers -> BOOLEAN]
  /\ cache \in Seq(Inputs \X (Inputs \ Malformed))
  /\ sent \in [Callers -> SUBSET (Operations \X Inputs)]
  /\ denied \subseteq Inputs
  /\ decided \subseteq Inputs
  /\ recency \in Seq(Seq(Inputs))

\* The executor is handed exactly the caller's operation and SQL, and only when
\* this call's own validation of a Prepared made of that very SQL returned nil,
\* whichever goroutine prepared it and whatever was evicted in between.
DelegatedMeansValidated ==
  \A c \in Callers : sent[c] # {} =>
    /\ sent[c] = {<<request[c].op, SQL(c)>>}
    /\ prepared[c] = SQL(c)
    /\ err[c] = "nil" /\ ~request[c].rewriter

\* The cache never holds more than Capacity entries nor two for one key, however
\* many calls miss the same SQL at once.
CacheBounded ==
  Len(cache) <= Capacity /\ Cardinality(Keys(cache)) = Len(cache)

\* Every retained entry maps a key to the Prepared made of it, is within the
\* size limit, and a validation of it was carried through to a policy decision:
\* parser failures and cancellations leave nothing behind.
CacheIsSound ==
  \A entry \in Entries(cache) :
    /\ entry[2] = KeyOf(entry)
    /\ KeyOf(entry) \notin Malformed \cup Oversized
    /\ KeyOf(entry) \in decided

\* Eviction is by least recent use: the cache holds the keys used last, hits
\* included, in that order.
EvictsLeastRecent ==
  /\ Len(cache) <= Len(recency)
  /\ \A k \in 1..Len(cache) : KeyOf(cache[k]) = KeyOf(recency[k])

\* The refinement mapping to GuardContract.
Phase(c) ==
  IF pc[c] \in {"ready", "row"} THEN "ready"
  ELSE IF pc[c] \in {"store", "execute"} THEN "settled" ELSE "open"
phaseBar == [c \in Callers |-> Phase(c)]

Contract == INSTANCE GuardContract WITH phase <- phaseBar, answer <- err

\* The cache is invisible: every call is settled by the policy of one moment of
\* that call, as if there were no cache, and delegated accordingly.
ImplementsGuard == Contract!Spec
=============================================================================
