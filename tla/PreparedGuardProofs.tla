------------------------- MODULE PreparedGuardProofs -------------------------
(***************************************************************************)
(* The pgx-prepared wrapper is right for every number of goroutines, every *)
(* cache capacity and every set of inputs: what it delegates was           *)
(* validated, its cache stays bounded, sound and in order of use, and it   *)
(* implements GuardContract, the guard that has no cache at all.           *)
(*                                                                         *)
(* None of the properties is inductive by itself. What a caller may store  *)
(* depends on what it was told before (Calls); that a hit may be trusted   *)
(* depends on what others stored (CacheIsSound); and which key is evicted  *)
(* depends on the cache and the history of uses being the same sequence of *)
(* keys as far as the cache reaches (InOrder).                             *)
(***************************************************************************)
EXTENDS PreparedGuard, LRUCacheProofs

\* What is known of a call at each of its steps.
CallOK(c) ==
  /\ pc[c] \notin {"ready", "row"} => sent[c] = {}
  /\ pc[c] \notin {"ready", "row", "rewriter"} => ~request[c].rewriter
  /\ pc[c] \in {"validate", "revalidate", "store", "execute"} => prepared[c] = SQL(c)
  /\ pc[c] = "store" /\ isCacheableValidationOutcome(err[c]) => SQL(c) \in decided
  /\ pc[c] = "execute" => err[c] = "nil"
  /\ sent[c] # {} =>
       /\ sent[c] = {<<request[c].op, SQL(c)>>} /\ prepared[c] = SQL(c)
       /\ err[c] = "nil" /\ ~request[c].rewriter

Calls == \A c \in Callers : CallOK(c)

InOrder == WellKeyed(cache) /\ WellKeyed(recency) /\ Aligned(cache, recency)

IInv == TypeOK /\ Calls /\ CacheIsSound /\ InOrder

CacheEntries == Inputs \X (Inputs \ Malformed)

-----------------------------------------------------------------------------
(* The shared cache.                                                       *)

\* A hit finds the Prepared made of that very SQL and leaves the same entries.
LEMMA HitKeeps ==
  ASSUME IInv, NEW key \in Inputs, key \in Keys(cache)
  PROVE  /\ Lookup(cache, key) = key /\ key \notin Malformed
         /\ Get(cache, key) \in Seq(CacheEntries)
         /\ Used(recency, key) \in Seq(Seq(Inputs))
         /\ Entries(Get(cache, key)) = Entries(cache)
         /\ WellKeyed(Get(cache, key)) /\ WellKeyed(Used(recency, key))
         /\ Aligned(Get(cache, key), Used(recency, key))
<1>1. cache \in Seq(CacheEntries) /\ recency \in Seq(Seq(Inputs))
  BY DEF IInv, TypeOK, CacheEntries
<1>2. WellKeyed(cache) /\ WellKeyed(recency) /\ Aligned(cache, recency) /\ CacheIsSound
  BY DEF IInv, InOrder
<1>3. Lookup(cache, key) = key /\ key \notin Malformed
  <2>1. PICK entry \in Entries(cache) : KeyOf(entry) = key /\ Lookup(cache, key) = entry[2]
    BY <1>1, LookupFinds
  <2>2. QED
    BY <1>2, <2>1 DEF CacheIsSound
<1>4. /\ Get(cache, key) \in Seq(CacheEntries) /\ Entries(Get(cache, key)) = Entries(cache)
      /\ WellKeyed(Get(cache, key))
  BY <1>1, <1>2, GetKeeps
<1>5. Used(recency, key) \in Seq(Seq(Inputs)) /\ WellKeyed(Used(recency, key))
  BY <1>1, <1>2, UsedKeeps
<1>6. Aligned(Get(cache, key), Used(recency, key))
  BY <1>1, <1>2, GetStaysAligned
<1>7. QED
  BY <1>3, <1>4, <1>5, <1>6

\* Storing a Prepared under its SQL adds nothing else, whatever other callers
\* stored or evicted since the miss.
LEMMA StoreKeeps ==
  ASSUME IInv, NEW key \in Inputs \ Malformed
  PROVE  /\ Add(cache, key, key) \in Seq(CacheEntries)
         /\ Used(recency, key) \in Seq(Seq(Inputs))
         /\ Entries(Add(cache, key, key)) \subseteq Entries(cache) \cup {<<key, key>>}
         /\ WellKeyed(Add(cache, key, key)) /\ WellKeyed(Used(recency, key))
         /\ Aligned(Add(cache, key, key), Used(recency, key))
<1>1. /\ cache \in Seq(CacheEntries) /\ recency \in Seq(Seq(Inputs))
      /\ <<key, key>> \in CacheEntries
  BY DEF IInv, TypeOK, CacheEntries
<1>2. /\ WellKeyed(cache) /\ WellKeyed(recency) /\ Aligned(cache, recency)
      /\ Len(cache) <= Capacity
  BY DEF IInv, InOrder, Aligned
<1>3. /\ Add(cache, key, key) \in Seq(CacheEntries)
      /\ Entries(Add(cache, key, key)) \subseteq Entries(cache) \cup {<<key, key>>}
      /\ WellKeyed(Add(cache, key, key))
  BY <1>1, <1>2, AddKeeps
<1>4. Used(recency, key) \in Seq(Seq(Inputs)) /\ WellKeyed(Used(recency, key))
  BY <1>1, <1>2, UsedKeeps
<1>5. Aligned(Add(cache, key, key), Used(recency, key))
  BY <1>1, <1>2, AddStaysAligned
<1>6. QED
  BY <1>3, <1>4, <1>5

-----------------------------------------------------------------------------
(* One step of the wrapper.                                                *)

USE DEF SQL, Goto, callVars, cacheVars

\* The parts of a caller's request.
LEMMA RequestTyped ==
  ASSUME TypeOK, NEW c \in Callers
  PROVE  /\ SQL(c) \in Inputs /\ request[c].op \in Operations
         /\ request[c].rewriter \in BOOLEAN
  BY DEF TypeOK, Requests

\* What a caller that stores holds.
LEMMA StoredIsWhole ==
  ASSUME IInv, NEW c \in Callers, pc[c] = "store", Cacheable(c)
  PROVE  /\ prepared[c] = SQL(c) /\ SQL(c) \in Inputs \ Malformed
         /\ SQL(c) \notin Oversized /\ SQL(c) \in decided
<1>1. prepared[c] = SQL(c) /\ SQL(c) \in decided /\ SQL(c) \notin Oversized
  BY DEF IInv, Calls, CallOK, Cacheable
<1>2. SQL(c) \in Inputs
  BY RequestTyped DEF IInv
<1>3. prepared[c] \in (Inputs \ Malformed) \cup {NoInput}
  BY DEF IInv, TypeOK, Prepareds
<1>4. QED
  BY <1>1, <1>2, <1>3, InputsAssumption

\* The cache keeps its type, its order and its soundness in every step.
LEMMA CacheStep ==
  ASSUME IInv, NEW c \in Callers, CacheGet(c) \/ CacheAdd(c)
  PROVE  /\ cache' \in Seq(CacheEntries) /\ recency' \in Seq(Seq(Inputs))
         /\ InOrder' /\ CacheIsSound'
<1>0. cache \in Seq(CacheEntries) /\ recency \in Seq(Seq(Inputs)) /\ InOrder /\ CacheIsSound
  BY DEF IInv, TypeOK, CacheEntries
<1>1. decided' = decided /\ SQL(c) \in Inputs
  BY RequestTyped DEF CacheGet, CacheAdd, IInv
<1>2. CASE UNCHANGED cacheVars
  BY <1>0, <1>1, <1>2 DEF InOrder, CacheIsSound
<1>3. CASE CacheGet(c) /\ ~UNCHANGED cacheVars
  <2>1. /\ SQL(c) \in Keys(cache)
        /\ cache' = Get(cache, SQL(c)) /\ recency' = Used(recency, SQL(c))
    BY <1>3 DEF CacheGet
  <2>2. /\ Get(cache, SQL(c)) \in Seq(CacheEntries)
        /\ Used(recency, SQL(c)) \in Seq(Seq(Inputs))
        /\ Entries(Get(cache, SQL(c))) = Entries(cache)
        /\ WellKeyed(Get(cache, SQL(c))) /\ WellKeyed(Used(recency, SQL(c)))
        /\ Aligned(Get(cache, SQL(c)), Used(recency, SQL(c)))
    BY <1>1, <2>1, HitKeeps
  <2>3. QED
    BY <1>0, <1>1, <2>1, <2>2 DEF InOrder, CacheIsSound
<1>4. CASE CacheAdd(c) /\ ~UNCHANGED cacheVars
  <2>1. /\ pc[c] = "store" /\ Cacheable(c)
        /\ cache' = Add(cache, SQL(c), prepared[c]) /\ recency' = Used(recency, SQL(c))
    BY <1>4 DEF CacheAdd
  <2>2. /\ prepared[c] = SQL(c) /\ SQL(c) \in Inputs \ Malformed
        /\ SQL(c) \notin Oversized /\ SQL(c) \in decided
    BY <2>1, StoredIsWhole
  <2>3. /\ Add(cache, SQL(c), SQL(c)) \in Seq(CacheEntries)
        /\ Used(recency, SQL(c)) \in Seq(Seq(Inputs))
        /\ Entries(Add(cache, SQL(c), SQL(c)))
             \subseteq Entries(cache) \cup {<<SQL(c), SQL(c)>>}
        /\ WellKeyed(Add(cache, SQL(c), SQL(c))) /\ WellKeyed(Used(recency, SQL(c)))
        /\ Aligned(Add(cache, SQL(c), SQL(c)), Used(recency, SQL(c)))
    BY <2>2, StoreKeeps
  <2>4. CacheIsSound'
    <3>1. ASSUME NEW entry \in Entries(cache')
          PROVE  /\ entry[2] = KeyOf(entry) /\ KeyOf(entry) \in decided
                 /\ KeyOf(entry) \notin Malformed \cup Oversized
      <4>1. entry \in Entries(cache) \/ entry = <<SQL(c), SQL(c)>>
        BY <2>1, <2>2, <2>3, <3>1
      <4>2. CASE entry \in Entries(cache)
        BY <1>0, <4>2 DEF CacheIsSound
      <4>3. CASE entry = <<SQL(c), SQL(c)>>
        BY <2>2, <4>3 DEF KeyOf
      <4>4. QED
        BY <4>1, <4>2, <4>3
    <3>2. QED
      BY <1>1, <3>1 DEF CacheIsSound
  <2>5. QED
    BY <2>1, <2>2, <2>3, <2>4 DEF InOrder
<1>5. QED
  BY <1>2, <1>3, <1>4

\* Initially.
LEMMA InitKeeps == Init => IInv
<1>1. SUFFICES ASSUME Init PROVE IInv
  OBVIOUS
<1>2. TypeOK
  <2>1. Requests # {}
    <3>1. PICK o \in Operations, s \in Inputs : TRUE
      BY OperationsAssumption, InputsAssumption
    <3>2. [op |-> o, sql |-> s, rewriter |-> FALSE] \in Requests
      BY DEF Requests
    <3>3. QED
      BY <3>2
  <2>2. (CHOOSE r \in Requests : TRUE) \in Requests
    BY <2>1
  <2>3. request \in [Callers -> Requests]
    BY <1>1, <2>2 DEF Init
  <2>4. QED
    BY <1>1, <2>3, InputsAssumption DEF Init, TypeOK, Locations, Prepareds, Errors
<1>3. Calls
  BY <1>1 DEF Init, Calls, CallOK
<1>4. CacheIsSound
  BY <1>1 DEF Init, CacheIsSound, Entries
<1>5. InOrder
  BY <1>1, CapacityAssumption DEF Init, InOrder, WellKeyed, Aligned
<1>6. QED
  BY <1>2, <1>3, <1>4, <1>5 DEF IInv

\* Every step keeps the types.
LEMMA TypeStep ==
  ASSUME IInv, [Next]_vars
  PROVE  TypeOK'
<1>0. TypeOK
  BY DEF IInv
<1>1. ASSUME NEW c \in Callers, Call(c) PROVE TypeOK'
  BY <1>0, <1>1 DEF Call, TypeOK, Locations, Errors, Prepareds
<1>2. ASSUME NEW c \in Callers, CheckRewriter(c) PROVE TypeOK'
  BY <1>0, <1>2 DEF CheckRewriter, Refuse, TypeOK, Locations, Errors
<1>3. ASSUME NEW c \in Callers, CacheGet(c) PROVE TypeOK'
  <2>1. cache' \in Seq(Inputs \X (Inputs \ Malformed)) /\ recency' \in Seq(Seq(Inputs))
    BY <1>3, CacheStep DEF CacheEntries
  <2>2. prepared' \in [Callers -> Prepareds]
    <3>1. CASE prepared' = prepared
      BY <1>0, <3>1 DEF TypeOK
    <3>2. CASE SQL(c) \in Keys(cache) /\ prepared' = [prepared EXCEPT ![c] = Lookup(cache, SQL(c))]
      <4>1. Lookup(cache, SQL(c)) = SQL(c) /\ SQL(c) \in Inputs \ Malformed
        BY <1>0, <3>2, RequestTyped, HitKeeps
      <4>2. QED
        BY <1>0, <3>2, <4>1 DEF TypeOK, Prepareds
    <3>3. QED
      BY <1>3, <3>1, <3>2 DEF CacheGet
  <2>3. pc' \in [Callers -> Locations]
    BY <1>0, <1>3 DEF CacheGet, TypeOK, Locations
  <2>4. QED
    BY <1>0, <1>3, <2>1, <2>2, <2>3 DEF CacheGet, TypeOK
<1>4. ASSUME NEW c \in Callers, Prepare(c) PROVE TypeOK'
  <2>1. SQL(c) \in Inputs
    BY <1>0, RequestTyped
  <2>2. QED
    BY <1>0, <1>4, <2>1 DEF Prepare, Refuse, TypeOK, Locations, Errors, Prepareds
<1>5. ASSUME NEW c \in Callers, Validate(c) PROVE TypeOK'
  <2>1. prepared[c] = SQL(c) /\ SQL(c) \in Inputs
    BY <1>0, <1>5, RequestTyped DEF Validate, IInv, Calls, CallOK
  <2>2. PICK e \in Answers(c) :
          /\ decided' = IF isCacheableValidationOutcome(e)
                        THEN decided \cup {prepared[c]} ELSE decided
          /\ \/ err' = [err EXCEPT ![c] = e] /\ Goto(c, "store")
             \/ err' = [err EXCEPT ![c] = e] /\ Goto(c, "execute")
             \/ Refuse(c, e)
    BY <1>5 DEF Validate
  <2>3. e \in Errors
    BY DEF Answers, Errors
  <2>4. decided' \in SUBSET Inputs
    BY <1>0, <2>1, <2>2 DEF TypeOK
  <2>5. err' = [err EXCEPT ![c] = e]
    BY <2>2 DEF Refuse
  <2>6. \E l \in {"store", "execute", "row", "ready"} : pc' = [pc EXCEPT ![c] = l]
    BY <2>2 DEF Refuse
  <2>7. err' \in [Callers -> Errors]
    BY <1>0, <2>3, <2>5 DEF TypeOK
  <2>8. pc' \in [Callers -> Locations]
    BY <1>0, <2>6 DEF TypeOK, Locations
  <2>9. QED
    BY <1>0, <1>5, <2>4, <2>7, <2>8 DEF Validate, TypeOK
<1>6. ASSUME NEW c \in Callers, Panic(c) PROVE TypeOK'
  BY <1>0, <1>6 DEF Panic, TypeOK, Locations, Errors
<1>7. ASSUME NEW c \in Callers, CacheAdd(c) PROVE TypeOK'
  <2>1. cache' \in Seq(Inputs \X (Inputs \ Malformed)) /\ recency' \in Seq(Seq(Inputs))
    BY <1>7, CacheStep DEF CacheEntries
  <2>2. pc' \in [Callers -> Locations] /\ err' \in [Callers -> Errors]
    BY <1>0, <1>7 DEF CacheAdd, Refuse, TypeOK, Locations
  <2>3. QED
    BY <1>0, <1>7, <2>1, <2>2 DEF CacheAdd, TypeOK
<1>8. ASSUME NEW c \in Callers, Execute(c) PROVE TypeOK'
  <2>1. <<request[c].op, SQL(c)>> \in Operations \X Inputs
    BY <1>0, RequestTyped
  <2>2. sent' \in [Callers -> SUBSET (Operations \X Inputs)]
    BY <1>0, <1>8, <2>1 DEF Execute, TypeOK
  <2>3. QED
    BY <1>0, <1>8, <2>2 DEF Execute, TypeOK, Locations
<1>9. ASSUME NEW c \in Callers, Scan(c) PROVE TypeOK'
  BY <1>0, <1>9 DEF Scan, TypeOK, Locations
<1>10. ASSUME NEW c \in Callers, Cancel(c) PROVE TypeOK'
  BY <1>0, <1>10 DEF Cancel, TypeOK
<1>11. ASSUME NEW s \in Changing, ChangePolicy(s) PROVE TypeOK'
  BY <1>0, <1>11, InputsAssumption DEF ChangePolicy, TypeOK
<1>12. CASE UNCHANGED vars
  BY <1>0, <1>12 DEF vars, TypeOK
<1>13. QED
  BY <1>1, <1>2, <1>3, <1>4, <1>5, <1>6, <1>7, <1>8, <1>9, <1>10, <1>11, <1>12 DEF Next, Step

\* A step of one caller leaves alone what is known of the others.
LEMMA OthersStay ==
  ASSUME IInv, NEW c \in Callers, Call(c) \/ Step(c) \/ Scan(c) \/ Cancel(c),
         NEW d \in Callers, d # c
  PROVE  CallOK(d)'
<1>1. /\ pc'[d] = pc[d] /\ sent'[d] = sent[d] /\ request'[d] = request[d]
      /\ prepared'[d] = prepared[d] /\ err'[d] = err[d]
  BY DEF IInv, TypeOK, Step, Call, CheckRewriter, CacheGet, Prepare, Validate, Panic,
         CacheAdd, Execute, Scan, Cancel, Refuse
<1>2. decided \subseteq decided'
  BY DEF Step, Call, CheckRewriter, CacheGet, Prepare, Validate, Panic,
         CacheAdd, Execute, Scan, Cancel
<1>3. CallOK(d)
  BY DEF IInv, Calls
<1>4. QED
  BY <1>1, <1>2, <1>3 DEF CallOK

\* Every step keeps what is known of the calls.
LEMMA CallStep ==
  ASSUME IInv, [Next]_vars
  PROVE  Calls'
<1>0. TypeOK /\ \A c \in Callers : CallOK(c)
  BY DEF IInv, Calls
<1>1. ASSUME NEW c \in Callers, Call(c) PROVE CallOK(c)'
  BY <1>0, <1>1 DEF Call, CallOK, TypeOK
<1>2. ASSUME NEW c \in Callers, CheckRewriter(c) PROVE CallOK(c)'
  BY <1>0, <1>2 DEF CheckRewriter, Refuse, CallOK, TypeOK
<1>3. ASSUME NEW c \in Callers, CacheGet(c) PROVE CallOK(c)'
  <2>1. SQL(c) \in Keys(cache) => Lookup(cache, SQL(c)) = SQL(c)
    BY <1>0, RequestTyped, HitKeeps
  <2>2. QED
    BY <1>0, <1>3, <2>1 DEF CacheGet, CallOK, TypeOK
<1>4. ASSUME NEW c \in Callers, Prepare(c) PROVE CallOK(c)'
  BY <1>0, <1>4 DEF Prepare, Refuse, CallOK, TypeOK
<1>5. ASSUME NEW c \in Callers, Validate(c) PROVE CallOK(c)'
  BY <1>0, <1>5 DEF Validate, Refuse, CallOK, TypeOK
<1>6. ASSUME NEW c \in Callers, Panic(c) PROVE CallOK(c)'
  BY <1>0, <1>6 DEF Panic, CallOK, TypeOK
<1>7. ASSUME NEW c \in Callers, CacheAdd(c) PROVE CallOK(c)'
  BY <1>0, <1>7 DEF CacheAdd, Refuse, CallOK, TypeOK
<1>8. ASSUME NEW c \in Callers, Execute(c) PROVE CallOK(c)'
  BY <1>0, <1>8 DEF Execute, CallOK, TypeOK
<1>9. ASSUME NEW c \in Callers, Scan(c) PROVE CallOK(c)'
  BY <1>0, <1>9 DEF Scan, CallOK, TypeOK
<1>10. ASSUME NEW c \in Callers, Cancel(c) PROVE CallOK(c)'
  BY <1>0, <1>10 DEF Cancel, CallOK, TypeOK
<1>11. ASSUME NEW s \in Changing, ChangePolicy(s) PROVE Calls'
  BY <1>0, <1>11 DEF ChangePolicy, Calls, CallOK
<1>12. CASE UNCHANGED vars
  BY <1>0, <1>12 DEF vars, Calls, CallOK
<1>13. ASSUME NEW c \in Callers, Call(c) \/ Step(c) \/ Scan(c) \/ Cancel(c) PROVE Calls'
  <2>1. CallOK(c)'
    BY <1>1, <1>2, <1>3, <1>4, <1>5, <1>6, <1>7, <1>8, <1>9, <1>10, <1>13 DEF Step
  <2>2. \A d \in Callers : d # c => CallOK(d)'
    BY <1>13, OthersStay
  <2>3. QED
    BY <2>1, <2>2 DEF Calls
<1>14. QED
  BY <1>11, <1>12, <1>13 DEF Next

\* Every step keeps the cache sound and in order of use.
LEMMA CacheKept ==
  ASSUME IInv, [Next]_vars
  PROVE  InOrder' /\ CacheIsSound'
<1>1. ASSUME NEW c \in Callers, CacheGet(c) \/ CacheAdd(c) PROVE InOrder' /\ CacheIsSound'
  BY <1>1, CacheStep
<1>2. ASSUME cache' = cache, recency' = recency, decided \subseteq decided'
      PROVE  InOrder' /\ CacheIsSound'
  BY <1>2 DEF IInv, InOrder, CacheIsSound
<1>3. ASSUME NEW c \in Callers,
             \/ Call(c) \/ CheckRewriter(c) \/ Prepare(c) \/ Validate(c) \/ Panic(c)
             \/ Execute(c) \/ Scan(c) \/ Cancel(c)
      PROVE  cache' = cache /\ recency' = recency /\ decided \subseteq decided'
  BY <1>3 DEF Call, CheckRewriter, Prepare, Validate, Panic, Execute, Scan, Cancel
<1>4. ASSUME NEW s \in Changing, ChangePolicy(s)
      PROVE  cache' = cache /\ recency' = recency /\ decided \subseteq decided'
  BY <1>4 DEF ChangePolicy
<1>5. CASE UNCHANGED vars
  BY <1>2, <1>5 DEF vars
<1>6. QED
  BY <1>1, <1>2, <1>3, <1>4, <1>5 DEF Next, Step

\* The invariant holds in every reachable state.
LEMMA IInvHolds == Spec => []IInv
<1>1. IInv /\ [Next]_vars => IInv'
  BY TypeStep, CallStep, CacheKept DEF IInv
<1>2. QED
  BY <1>1, InitKeeps, PTL DEF Spec

-----------------------------------------------------------------------------
(* The theorems.                                                           *)

\* The state of the wrapper, its cache and its callers keeps its type.
THEOREM TypeCorrect == Spec => []TypeOK
<1>1. IInv => TypeOK
  BY DEF IInv
<1>2. QED
  BY <1>1, IInvHolds, PTL

\* Exec, Query and QueryRow hand the executor the caller's own operation and
\* SQL, and only after this call's validation of a Prepared made of that SQL
\* returned nil, whoever put the Prepared in the cache.
THEOREM OnlyValidatedIsDelegated == Spec => []DelegatedMeansValidated
<1>1. IInv => DelegatedMeansValidated
  BY DEF IInv, Calls, CallOK, DelegatedMeansValidated
<1>2. QED
  BY <1>1, IInvHolds, PTL

\* The cache holds at most Capacity entries and no key twice, for every
\* capacity and however many calls miss the same SQL at once.
THEOREM CacheStaysBounded == Spec => []CacheBounded
<1>1. ASSUME IInv PROVE CacheBounded
  <2>1. cache \in Seq(CacheEntries) /\ WellKeyed(cache) /\ Len(cache) <= Capacity
    BY <1>1 DEF IInv, TypeOK, CacheEntries, InOrder, Aligned
  <2>2. Cardinality(Keys(cache)) = Len(cache)
    BY <2>1, KeysAreCounted
  <2>3. QED
    BY <2>1, <2>2 DEF CacheBounded
<1>2. QED
  BY <1>1, IInvHolds, PTL

\* What is in the cache is a Prepared under the SQL it was made of, within the
\* size limit, that some validation carried through to a policy decision.
THEOREM CacheStaysSound == Spec => []CacheIsSound
<1>1. IInv => CacheIsSound
  BY DEF IInv
<1>2. QED
  BY <1>1, IInvHolds, PTL

\* The cache holds the keys used last in the order of their last use, hits and
\* repeated insertions by concurrent callers included.
THEOREM EvictionIsLeastRecent == Spec => []EvictsLeastRecent
<1>1. IInv => EvictsLeastRecent
  BY DEF IInv, InOrder, Aligned, EvictsLeastRecent
<1>2. QED
  BY <1>1, IInvHolds, PTL

-----------------------------------------------------------------------------
(* The guard without a cache.                                              *)

\* A step of c moves no phase but its own.
LEMMA PhaseMoves ==
  ASSUME TypeOK, TypeOK', NEW c \in Callers, NEW l, pc' = [pc EXCEPT ![c] = l]
  PROVE  /\ phaseBar' = [phaseBar EXCEPT ![c] = Phase(c)']
         /\ phaseBar[c] = Phase(c)
<1>1. \A d \in Callers : d # c => pc'[d] = pc[d]
  BY DEF TypeOK
<1>2. \A d \in Callers : d # c => Phase(d)' = Phase(d)
  BY <1>1 DEF Phase
<1>3. QED
  BY <1>2 DEF phaseBar

\* Every step is a step of the contract, or changes nothing of it.
LEMMA StepImplements ==
  ASSUME IInv, IInv', [Next]_vars
  PROVE  [Contract!Next]_Contract!vars
<1>0. TypeOK /\ TypeOK' /\ (\A c \in Callers : CallOK(c)) /\ (\A c \in Callers : CallOK(c)')
  BY DEF IInv, Calls
<1> DEFINE Moves(c, p, q) ==
      phaseBar[c] = p /\ phaseBar' = [phaseBar EXCEPT ![c] = q]
<1>1. ASSUME NEW c \in Callers, Call(c) PROVE Contract!Ask(c)
  <2>1. pc[c] \in {"ready", "row"} /\ pc' = [pc EXCEPT ![c] = "rewriter"] /\ pc'[c] = "rewriter"
    BY <1>0, <1>1 DEF Call, TypeOK
  <2>2. Moves(c, "ready", "open")
    BY <1>0, <2>1, PhaseMoves DEF Phase
  <2>3. QED
    BY <1>1, <2>2 DEF Call, Contract!Ask, Requests, Contract!Requests
<1>2. ASSUME NEW c \in Callers, CheckRewriter(c)
      PROVE  Contract!SettleAndRefuse(c) \/ UNCHANGED Contract!vars
  <2>1. CASE request[c].rewriter
    <3>1. pc[c] = "rewriter" /\ Refuse(c, "rewriter")
      BY <1>2, <2>1 DEF CheckRewriter
    <3>2. Moves(c, "open", "ready")
      BY <1>0, <3>1, PhaseMoves DEF Phase, Refuse, TypeOK
    <3>3. QED
      BY <1>2, <2>1, <3>1, <3>2 DEF CheckRewriter, Refuse, Contract!SettleAndRefuse, Contract!Permitted
  <2>2. CASE ~request[c].rewriter
    <3>1. pc[c] = "rewriter" /\ pc' = [pc EXCEPT ![c] = "lookup"] /\ pc'[c] = "lookup"
      BY <1>0, <1>2, <2>2 DEF CheckRewriter, TypeOK
    <3>2. Moves(c, "open", "open")
      BY <1>0, <3>1, PhaseMoves DEF Phase
    <3>3. phaseBar' = phaseBar
      BY <3>2 DEF phaseBar
    <3>4. QED
      BY <1>2, <2>2, <3>3 DEF CheckRewriter, Contract!vars
  <2>3. QED
    BY <2>1, <2>2
<1>3. ASSUME NEW c \in Callers, CacheGet(c) PROVE UNCHANGED Contract!vars
  <2>1. \E l \in {"prepare", "revalidate"} :
          pc[c] = "lookup" /\ pc' = [pc EXCEPT ![c] = l] /\ pc'[c] = l
    BY <1>0, <1>3 DEF CacheGet, TypeOK
  <2>2. Moves(c, "open", "open")
    BY <1>0, <2>1, PhaseMoves DEF Phase
  <2>3. phaseBar' = phaseBar
    BY <2>2 DEF phaseBar
  <2>4. QED
    BY <1>3, <2>3 DEF CacheGet, Contract!vars
<1>4. ASSUME NEW c \in Callers, Prepare(c)
      PROVE  Contract!SettleAndRefuse(c) \/ UNCHANGED Contract!vars
  <2>1. pc[c] = "prepare" /\ ~request[c].rewriter
    BY <1>0, <1>4 DEF Prepare, CallOK
  <2>2. ASSUME NEW e, Refuse(c, e),
               (e = "context" /\ canceled[c]) \/ (e = "parse" /\ SQL(c) \in Malformed)
        PROVE  Contract!SettleAndRefuse(c)
    <3>1. Moves(c, "open", "ready")
      BY <1>0, <2>1, <2>2, PhaseMoves DEF Phase, Refuse, TypeOK
    <3>2. e \in Contract!Permitted(c) \ {"nil"}
      BY <2>1, <2>2 DEF Contract!Permitted
    <3>3. QED
      BY <1>4, <2>2, <3>1, <3>2 DEF Prepare, Refuse, Contract!SettleAndRefuse
  <2>3. CASE pc' = [pc EXCEPT ![c] = "validate"] /\ UNCHANGED err
    <3>1. pc'[c] = "validate"
      BY <1>0, <2>3 DEF TypeOK
    <3>2. Moves(c, "open", "open")
      BY <1>0, <2>1, <2>3, <3>1, PhaseMoves DEF Phase
    <3>3. phaseBar' = phaseBar
      BY <3>2 DEF phaseBar
    <3>4. QED
      BY <1>4, <2>3, <3>3 DEF Prepare, Contract!vars
  <2>4. QED
    BY <1>4, <2>2, <2>3 DEF Prepare
<1>5. ASSUME NEW c \in Callers, Validate(c)
      PROVE  Contract!Settle(c) \/ Contract!SettleAndRefuse(c)
  <2>1. /\ pc[c] \in {"validate", "revalidate"} /\ ~request[c].rewriter
        /\ prepared[c] = SQL(c) /\ SQL(c) \notin Malformed
    <3>1. SQL(c) \in Inputs /\ prepared[c] \in (Inputs \ Malformed) \cup {NoInput}
      BY <1>0, RequestTyped DEF TypeOK, Prepareds
    <3>2. pc[c] \in {"validate", "revalidate"} /\ ~request[c].rewriter /\ prepared[c] = SQL(c)
      BY <1>0, <1>5 DEF Validate, CallOK
    <3>3. QED
      BY <3>1, <3>2, InputsAssumption
  <2>2. PICK e \in Answers(c) :
          \/ err' = [err EXCEPT ![c] = e] /\ Goto(c, "store")
          \/ err' = [err EXCEPT ![c] = e] /\ Goto(c, "execute")
          \/ e # "nil" /\ Refuse(c, e)
    BY <1>5 DEF Validate
  <2>3. e \in Contract!Permitted(c)
    BY <2>1 DEF Answers, Contract!Permitted
  <2>4. CASE err' = [err EXCEPT ![c] = e] /\ (Goto(c, "store") \/ Goto(c, "execute"))
    <3>1. Moves(c, "open", "settled")
      BY <1>0, <2>1, <2>4, PhaseMoves DEF Phase, TypeOK
    <3>2. QED
      BY <1>5, <2>3, <2>4, <3>1 DEF Validate, Contract!Settle
  <2>5. CASE e # "nil" /\ Refuse(c, e)
    <3>1. Moves(c, "open", "ready")
      BY <1>0, <2>1, <2>5, PhaseMoves DEF Phase, Refuse, TypeOK
    <3>2. QED
      BY <1>5, <2>3, <2>5, <3>1 DEF Validate, Refuse, Contract!SettleAndRefuse
  <2>6. QED
    BY <2>2, <2>4, <2>5
<1>6. ASSUME NEW c \in Callers, Panic(c) PROVE Contract!Unwind(c)
  <2>1. /\ pc[c] \in {"validate", "revalidate"} /\ ~request[c].rewriter
        /\ pc' = [pc EXCEPT ![c] = "ready"] /\ pc'[c] = "ready"
    BY <1>0, <1>6 DEF Panic, CallOK, TypeOK
  <2>2. Moves(c, "open", "ready")
    BY <1>0, <2>1, PhaseMoves DEF Phase
  <2>3. QED
    BY <1>6, <2>1, <2>2 DEF Panic, Contract!Unwind
<1>7. ASSUME NEW c \in Callers, CacheAdd(c)
      PROVE  Contract!Refuse(c) \/ UNCHANGED Contract!vars
  <2>1. CASE err[c] = "nil"
    <3>1. pc[c] = "store" /\ pc' = [pc EXCEPT ![c] = "execute"] /\ pc'[c] = "execute"
      BY <1>0, <1>7, <2>1 DEF CacheAdd, TypeOK
    <3>2. Moves(c, "settled", "settled")
      BY <1>0, <3>1, PhaseMoves DEF Phase
    <3>3. phaseBar' = phaseBar
      BY <3>2 DEF phaseBar
    <3>4. QED
      BY <1>7, <2>1, <3>3 DEF CacheAdd, Contract!vars
  <2>2. CASE err[c] # "nil"
    <3>1. pc[c] = "store" /\ Refuse(c, err[c])
      BY <1>7, <2>2 DEF CacheAdd
    <3>2. Moves(c, "settled", "ready")
      BY <1>0, <3>1, PhaseMoves DEF Phase, Refuse, TypeOK
    <3>3. err' = err
      BY <1>0, <3>1 DEF Refuse, TypeOK
    <3>4. QED
      BY <1>7, <2>2, <3>2, <3>3 DEF CacheAdd, Contract!Refuse
  <2>3. QED
    BY <2>1, <2>2
<1>8. ASSUME NEW c \in Callers, Execute(c) PROVE Contract!Execute(c)
  <2>1. /\ pc[c] = "execute" /\ err[c] = "nil" /\ sent[c] = {}
        /\ pc' = [pc EXCEPT ![c] = "ready"] /\ pc'[c] = "ready"
    BY <1>0, <1>8 DEF Execute, CallOK, TypeOK
  <2>2. Moves(c, "settled", "ready")
    BY <1>0, <2>1, PhaseMoves DEF Phase
  <2>3. sent' = [sent EXCEPT ![c] = {<<request[c].op, SQL(c)>>}]
    BY <1>8, <2>1 DEF Execute
  <2>4. QED
    BY <1>8, <2>1, <2>2, <2>3 DEF Execute, Contract!Execute
<1>9. ASSUME NEW c \in Callers, Scan(c) PROVE UNCHANGED Contract!vars
  <2>1. pc[c] = "row" /\ pc' = [pc EXCEPT ![c] = "ready"] /\ pc'[c] = "ready"
    BY <1>0, <1>9 DEF Scan, TypeOK
  <2>2. Moves(c, "ready", "ready")
    BY <1>0, <2>1, PhaseMoves DEF Phase
  <2>3. phaseBar' = phaseBar
    BY <2>2 DEF phaseBar
  <2>4. QED
    BY <1>9, <2>3 DEF Scan, Contract!vars
<1>10. ASSUME NEW c \in Callers, Cancel(c) PROVE Contract!Cancel(c)
  BY <1>10 DEF Cancel, Contract!Cancel, phaseBar, Phase
<1>11. ASSUME NEW s \in Changing, ChangePolicy(s) PROVE Contract!ChangePolicy
  BY <1>0, <1>11 DEF ChangePolicy, Contract!ChangePolicy, phaseBar, Phase, TypeOK
<1>12. CASE UNCHANGED vars
  BY <1>12 DEF vars, Contract!vars, phaseBar, Phase
<1>13. QED
  <2>1. ASSUME NEW c \in Callers, Call(c) \/ Step(c) \/ Scan(c) \/ Cancel(c)
        PROVE  Contract!Next \/ UNCHANGED Contract!vars
    BY <1>1, <1>2, <1>3, <1>4, <1>5, <1>6, <1>7, <1>8, <1>9, <1>10, <2>1 DEF Step, Contract!Next
  <2>2. ASSUME NEW s \in Changing, ChangePolicy(s) PROVE Contract!Next
    BY <1>11, <2>2 DEF Contract!Next
  <2>3. QED
    BY <1>12, <2>1, <2>2 DEF Next

\* The cache is invisible: a caller of the wrapper is answered, and the executor
\* reached, as if every call were validated afresh.
THEOREM CacheIsInvisible == Spec => ImplementsGuard
<1>1. Init => Contract!Init
  <2> SUFFICES ASSUME Init PROVE Contract!Init
    OBVIOUS
  <2>1. phaseBar = [c \in Callers |-> "ready"]
    BY DEF Init, phaseBar, Phase
  <2>2. QED
    BY <2>1, InputsAssumption DEF Init, Contract!Init
<1>2. IInv /\ IInv' /\ [Next]_vars => [Contract!Next]_Contract!vars
  BY StepImplements
<1>3. QED
  BY <1>1, <1>2, IInvHolds, PTL DEF Spec, ImplementsGuard, Contract!Spec
=============================================================================
