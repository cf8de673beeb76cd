# Verification of postgres-sqlguard

postgres-sqlguard validates SQL text against application policy before it
reaches PostgreSQL. This directory holds TLA+ models of its core, the TLC
configurations that check them on small instances and the proofs TLAPS checks
for every instance.

## Inventory

| Component | State | Operations | Interacts with |
| --- | --- | --- | --- |
| Engine (`engine.go`, `prepared.go`, `validator.go`) | immutable registrations and sinks; per call: loop position, error | `NewEngine`, `Validate`, `Prepare`, `ValidatePrepared` | parser, rules, sinks, the caller's context |
| Rule contract (`rule.go`) | whatever a rule keeps | `ID`, `Evaluate`, `validRuleID` | called by the engine, from many goroutines |
| Errors and events (`errors.go`, `observability.go`) | none | constructors | engine to caller and sinks |
| Parser boundary (`internal/parser`) | none | `Parse`, `convertMessage`, `convertValue`, node accessors | libpg_query over a C-string interface |
| Traversal (`traversal.go`) | none | `StatementSequence` | engine |
| Statement facade (`statement.go`) | none | typed accessors, `Walk` | rules |
| Built-in rules (`pkg/rules`) | none | six `Evaluate` methods | facade |
| Prometheus adapter | a counter in a registry | `New`, `RecordValidation` | called by the engine; the registry is shared with the application |
| slog adapter | a logger with a handler | `New`, `LogValidation` | called by the engine |
| pgx example | none | `NewGuardedDB`, `Exec`, `Query`, `QueryRow` | engine, executor |
| pgx-prepared example | a bounded LRU cache of `Prepared` | the same | engine, executor, cache shared by goroutines |

What is hard: calls run concurrently on one engine and share `Prepared` values;
a context may end between any two instructions of a call and is looked at only
at certain points; rules and sinks are application code that changes its mind,
fails or panics; a decision has to be complete, first in a fixed order, made
anew each time and reported exactly once, even when one guarded call is two
engine calls; the backend is external and sees the text as a C string; cache
entries are looked up, built and stored in separate steps that other goroutines
interleave with; constructors hand nil pointers to an application that may not
look at their errors.

What makes each part correct:

* engine: nil only after every rule has allowed every statement; the first
  violation in order; one event per decision; cancellation before the rules wins;
* construction: nothing is built on a nil pointer; an engine's identifiers are
  valid and distinct whatever `ID()` answers later;
* parser boundary: the parse is of the whole text; nothing is lost in the copy,
  and nothing that a rule does reaches the copy;
* traversal and `Walk`: pre-order, each node once, no gap;
* rules: exactly the described commands are refused (two forms of ALTER TABLE are
  not, see `rules_alter`), whichever rules are registered in whichever order;
* adapters: registries and counts are exact, series bounded; a handler is asked
  about each validation once, at the level of its outcome;
* guards: only what this call's own validation allowed reaches the executor;
  the cache is bounded, exact and invisible; every call returns.

## Modules

The engine and what calls it:

* `ValidationContract`: what the engine promises, without order or checkpoints.
* `Engine`: the engine's methods, one action per stretch of code between two
  points where something else can happen. `PrepareCheck`, `Parse` and
  `ParsedCheck` are `Prepare`; `ValidateCheck`, `LoopHead`, `Evaluate` and
  `RulePanic` are `ValidatePrepared`; `EmitMetrics` and `EmitLogger` are
  `finishValidation`. `Validate` runs through both. The environment invokes
  calls, ends contexts (`Cancel`) and changes rules (`ChangeRule`). `pc`, `i`
  and `j` are a call's place, `err` and `event` its result; `approved`,
  `lateEvals`, `standing` and `canceledAt` record history for the properties.
* `EngineProofs`: the inductive invariants of `Engine`, the theorems, and that
  `Engine` implements `ValidationContract`.
* `GuardedEngine`: both pgx wrappers composed with `Engine` (it extends it, so
  the engine's own actions are the steps of a guarded call). `Direct` makes one
  engine call, `Hit` one, `Miss` and `Prepared` two; all of them run on the
  caller's context, which `CancelContext` ends. A rule's panic unwinds the
  guarded call (`Unwind`). `GuardSpec` is its safety part, `GuardFairSpec` adds
  the fairness. `GuardedEngineProofs` proves its safety properties.
* `GuardContract`: what a guard in front of an executor promises. It has no cache.
* `LRUCache`: the cache library (external): sequences of entries, most recently
  used first; `Get` and `Add` are atomic, as its lock makes them.
  `LRUCacheProofs` holds the lemmas about them.
* `PreparedGuard`: the pgx-prepared wrapper with its cache: `CheckRewriter`,
  `CacheGet`, `Prepare`, `Validate`, `CacheAdd`, `Execute` are the steps of a call.
  The engine's answer is one step here, so that the cache can be larger and the
  goroutines make calls without end. `decided` and `recency` are history.
  `PreparedGuardProofs` proves its properties and that it implements
  `GuardContract`.

Construction and the sinks:

* `Adapters`: `prometheus.New` and `RecordValidation`, `slog.New` and
  `LogValidation`. Registries and handlers are external: a registry refuses a
  name it holds and a counter panics on a label that is not UTF-8. A handler is
  application code: it may turn down any level at any time, and when it is given a
  record it may fail (`Answers`). A zero `slog.Logger` has no handler at all.
* `Assembly`: the application's side, over `Adapters`: `NewEngine` with its check
  of the sinks, `validateRules` one `ID()` at a time (`ValidateRule`), the
  registrations (`Register`), `NewGuardedDB` of both wrappers, rules that rename
  themselves, and validations that report. The variable of a constructor that was
  not called or that failed is a nil pointer; `isTypedNil` finds it in an interface.
  `AssemblyProofs` proves the properties of both modules.

What rules see:

* `SyntaxTree`: `Parse`, the conversion, `StatementSequence` and `Walk`, on texts
  that are written clause by clause. The messages (parent and field) are the
  external backend's view, `tree` the package's: reference `n` stands for the
  `*Node` made of message `n`, 0 for the nil pointer. `appendStatement` and
  `walkNode` recurse in the code; here they are steps over the list of references
  that are still to be taken up, in the order of the recursion, so that the visitor
  decides after each node and not once for a walk. The reference definitions
  (`Precedes`, `Declared`) are on the messages and know nothing of such a list.
  Proved about in `SyntaxTreeProofs`.
* `Facade`: one field of any family, its conversion to a value and the typed
  accessors. Slices of bytes live in a heap, so that a write to one is seen by
  everyone who shares it. Proved about in `FacadeProofs`.
* `BuiltinRules`: the six rules. `Statement` says which statement kind and fields
  the grammar gives a command (external). `Evaluate`, `NextStatement` and
  `AllowBatch` are the iterations of `ValidatePrepared`'s loops. `Forbids` states the
  policies in terms of commands, as the rules' constructors describe them, and
  `Overlooked` the ALTER TABLE forms that `deny_alter_table` forbids and lets pass.
  `BuiltinRulesProofs` proves that the rules are the policies but for these.

`MCEngine`, `MCGuardedEngine`, `MCPreparedGuard` and `MCAssembly` are instances
for TLC; `SyntaxTree`, `Facade` and `BuiltinRules` need none.

Definitions whose comment begins with `Fault` are wrong variants of a definition
near them. They are used by no specification; each shows that a property
tells the code from a plausible mistake.

## Runs

| Run | Checks | Bounds |
| --- | --- | --- |
| `engine` | type invariant, six safety properties, refinement of `ValidationContract` | two calls; an engine with two rules and both sinks, one with neither; a batch of two statements and a malformed input; every initial policy, one pair that changes |
| `engine_cancel` | violated: cancellation during validation | one call |
| `guarded_engine` | what is delegated was checked, one event per guarded call, cancellation between engine calls, every guarded call returns | two guarded calls through either wrapper, cache of one entry, one batch, one malformed input, a rule that changes its mind |
| `guard_cache` | type invariant, delegation and cache invariants, refinement of `GuardContract` | two goroutines without end, capacity 2, three cacheable inputs, one oversized, one malformed |
| `assembly` | construction, identifiers, registries, counts, what handlers are asked to log | two metrics adapters, a logger, an engine, a guard; six configurations, four rule lists, six identifiers; one rename, two validations |
| `sink_service` | violated: every validation is counted | one adapter |
| `tree` | whole text, declaration order, pre-order of `Walk` for every visitor | four statements, any nesting, a DISTINCT, NUL byte or syntax error anywhere |
| `tree_walk` | violated: `Walk` visits all descendants | two statements |
| `tree_depth` | violated: CTEs at every nesting depth | three statements |
| `facade` | accessors answer what was parsed; the tree cannot be written to | eight families, lists of up to two, numbers up to two, two questions, any writes |
| `rules_policy` | the verdicts of the loops and the rules against the policies | two rules in any order, two commands |
| `rules_alter` | violated: every ALTER TABLE denied | one rule, one command |

Why the bounds are enough:

* Two calls show every interference in the code: calls meet only in the rules'
  state, the `Prepared` values, the cache and the sinks, and never wait for each
  other. Two statements and two rules give each loop a first, a last and a
  following iteration.
* A cache of two for three inputs evicts, hits and refills. The goroutines of
  `guard_cache` make calls for ever, so no count of calls is bounded; in
  `guarded_engine` each makes one call, which is an engine call or two.
  `Engine` itself makes each call once; a `Prepared` outlives the call that made it.
* `guard_cache` uses `QueryRow` only: it has every step of the other two and, in
  addition, a row that keeps the error until `Scan`. `Exec` and `Query` return it.
* `GuardedEngine` does not end a context after the deciding engine call has
  answered: from there on only the executor looks at it.
* Four statements give a statement with a CTE, one nested in it and one after it.
* In `Assembly`, identifiers are sequences of byte classes and `maxRuleIDLength`
  is scaled from 64 to 2, so that one identifier is exactly as long as allowed and
  one is longer. Two adapters can meet in one registry or use two; one rename
  happens before, while or after a rule is checked. A refused `NewGuardedDB`
  changes nothing and may be repeated, so one guard variable is enough.

Calls may all be over, texts and validations come to an end, so those runs do
not treat a stop as a deadlock; `guard_cache`, whose goroutines never stop, does.
Symmetry is used for calls (`engine`), callers (`guard_cache`) and metrics
adapters (`assembly`), never in the run that checks liveness.

### Fairness

`guarded_engine` assumes weak fairness of `GuardStep(g)`, the next step of the
goroutine that makes a guarded call, its engine calls included: the Go scheduler
runs every runnable goroutine, the parser and the executor return, and rules and
sinks return or panic. Starting a call, ending a context and changing a rule are
the application's choice and are not fair.

### How the modules support each other

`EngineIsSound` in `Assembly` shows for every engine that `NewEngine` builds what
`Engine` assumes of one: its rules have identifiers, valid, distinct and not
empty. `Engine` shows that the event of a decision is offered once to each sink;
`CountsAreExact` and `ValidationsReachTheHandler` go on from there. `PreparedGuard`
treats the engine's answer as one step, and `GuardedEngine` shows that the
engine's own steps, interleaved, deliver the same: nothing is delegated that was
not fully checked, and no call reports twice.

### Disagreements

* `engine_cancel`: the context is checked before each rule and not after it. A
  context that ends during the last evaluation is not noticed; the specification
  in `openspec/specs/validation-engine/spec.md` promises the context's error for
  cancellation "before or during" validation.
* `sink_service`: `prometheus.New` accepts any service that is not empty. One that
  is not valid UTF-8 makes the counter panic on every recording, the engine
  discards the panic as it should, and nothing is ever counted.
  `CountsAreExact` states what holds for the others.
  `slog.New` is like it: it accepts any logger that is not nil, and a zero
  `slog.Logger` has no handler, so that every `LogValidation` panics and nothing is
  ever logged, although `openspec/specs/observability/spec.md` promises one record for
  each event. No run is made of this; `ValidationsReachTheHandler` states what holds
  for loggers with a handler. It does not say that a rejection is kept: a handler
  that turns down ERROR or fails loses it, by its own choice and not the adapter's.
* `tree_walk`: `walkNode` ends the walk at a nil child, and the conversion makes
  nil children of empty messages in lists. `WalkIsPreOrder` states what holds.
* `tree_depth`: the sequence follows CTEs of visited statements only.
  `SequenceIsDeclarationOrder` states what holds.
* `rules_alter`: RENAME and SET SCHEMA have statement kinds `deny_alter_table`
  does not name. `VerdictIsPolicy` states what holds and names them as its exception.

## Proofs

Every safety property that a passing run checks is also a theorem, for every value
of the constants; so are the two refinements.

| Module | Theorem | States |
| --- | --- | --- |
| `EngineProofs` | `TypeCorrect` | `TypeOK` |
| | `AllowedIsComplete` | `AllowedMeansFullyChecked` |
| | `ViolationIsFirst` | `FirstViolation` |
| | `ReportedOnce` | `OneTerminalEvent` |
| | `CancellationWins` | `CancellationPrecedence` |
| | `LateRulesAreBounded` | `AtMostOneLateRule` |
| | `DecisionsAreFresh` | `DecisionIsFresh` |
| | `EngineImplementsContract` | `ImplementsContract` |
| `GuardedEngineProofs` | `DelegationIsChecked` | `DelegatedMeansFullyChecked` |
| | `GuardedCallsReportOnce` | `OneEventPerGuardedCall` |
| | `ContextStopsDelegation` | `CancellationStopsDelegation` |
| `PreparedGuardProofs` | `TypeCorrect` | `TypeOK` |
| | `OnlyValidatedIsDelegated` | `DelegatedMeansValidated` |
| | `CacheStaysBounded` | `CacheBounded` |
| | `CacheStaysSound` | `CacheIsSound` |
| | `EvictionIsLeastRecent` | `EvictsLeastRecent` |
| | `CacheIsInvisible` | `ImplementsGuard` |
| `AssemblyProofs` | `NilStopsTheNext` | `BuiltOnlyOnBuilt` |
| | `BuiltEnginesAreSound` | `EngineIsSound` |
| | `CountersAreExact` | `CountsAreExact` |
| | `SeriesStayBounded` | `SeriesAreBounded` |
| | `RegistriesAreClean` | `NoOrphanCollectors` |
| | `HandlersAreTold` | `ValidationsReachTheHandler` |
| `FacadeProofs` | `AnswersStayTrue` | `AnswersAreTheStatement` |
| | `TreeStaysImmutable` | `TreeIsImmutable` |
| `BuiltinRulesProofs` | `VerdictsArePolicy` | `VerdictIsPolicy` |
| `SyntaxTreeProofs` | `Correct` | the inductive invariant `IInv` |
| | `ParseTakesAll` | `ParsedIsWhole` |
| | `SequencePresentsAll` | `SequenceIsDeclarationOrder` |
| | `WalksKeepOrder` | `WalkIsPreOrder` |
| | `NothingTwice` | no statement is presented twice, no node visited twice |

### Assumptions

They are named in the modules that declare the constants, and TLC evaluates them
on the runs of those modules.

* `Engine`: an engine's rules are a sequence of identifiers and the empty identifier
  is none of them (`validRuleID`; `EngineIsSound` shows it of every engine built);
  every input that is not malformed has a sequence of statements; there is an
  engine and an input.
* `GuardedEngine`: a guarded call has two engine calls to make, and the wrapper's
  engine is one of the engines.
* `LRUCache`: the capacity is positive, as the library requires.
* `PreparedGuard`: there are operations and inputs to call with.
* `Adapters`, `Assembly`: variables of different Go types are different, none of
  them is the nil interface, a pool or somebody else's collector; there are
  finitely many engines; identifiers are sequences of bytes. `slog.New` is called
  with nil, a zero logger or one with a handler, of which nothing is assumed.
* The bounds `MaxReports`, `MaxRenames`, `MaxBatch`, `MaxRules`, `MaxItems`,
  `MaxNumber` and `MaxAsked` are any numbers, so the theorems hold for runs of every
  length. `maxRuleIDLength` is any number too, and so are `MaxStatements` and
  `MaxDistinct`: the theorems are about texts of every size and depth. `MaxWalks` is
  0 or 1; a walk changes nothing that another could see.

### Engine

None of the properties is inductive. `IInv` adds to the type invariant, for each
call: nothing was evaluated or decided before the loops (`NotStarted`); the method
fixes where a call may be and that `Validate` goes on with its own input
(`OnItsWay`); in the loops the indices are in bounds and exactly the pairs before
them are approved (`InLoop`); and an event, once built, says what happened
(`Decision`). Five lemmas on `Preceding` carry the loop arithmetic; `StepIsLocal`
and `LocalKeepsCallInv` show that a step of one call leaves what is known of the
others alone, so that `OwnStep` needs one case per action.

`SInv` adds four layers, each kept by the same split into own and other calls:

* `Reporting`: an event is built together with the error it reports, and what a
  sink was told depends only on whether the call has passed it;
* `Cancellation`: a context that ended before the loops keeps the call out of them,
  and no `Prepared` exists before `Parse`. A context that ends in the loops is not
  covered, which is what `engine_cancel` is about;
* `Lateness`: while an evaluation is under way none has been late, because the
  loop head has just looked at the context;
* `Freshness`: an approved pair is not one whose rule has rejected it since the call
  began (`standing` only shrinks, and an evaluation that allows is of now).

For the refinement, locations are mapped to the contract's phases. The mapping at a call
depends on that call's variables only (`BarsAreLocal`), so each step needs to be
looked at for its own call: it is one move of the contract, or it goes unnoticed.
The moves need the invariant: that `nil` is permitted follows from `InLoop`, and that
the sinks were served before the return follows from `Reporting`.

### Wrappers

`LRUCacheProofs` shows, for every capacity, that `Get` only reorders, that `Add`
adds nothing but its entry and keeps keys distinct, and that both keep a cache
`Aligned` with the history of uses: it holds the first keys of that history, all of
them unless it is full. Eviction of the least recently used key is a consequence.

In `PreparedGuardProofs`, `IInv` is the type invariant with what is known of each
call at each step (`Calls`), `CacheIsSound` and `InOrder` (distinct keys and
alignment). Calls and cache need each other: a hit may be trusted because of what
others stored, and what is stored is sound because of what the storing call was
told. That `GuardContract` is implemented follows with the cache left out of the
mapping: a lookup, a parse, a store are unnoticed, only decisions and delegations
are moves.

In `GuardedEngineProofs` the engine's `SInv` is reused. The steps of a guarded call
are steps of the engine or leave it alone, with one exception: the end of the
caller's context reaches both engine calls at once and is no engine step, so that
`ContextEndKeeps` shows separately that it keeps `SInv`. `Progress` says for each
place of a guarded call which engine calls were made and about what, and
`SharesContext` that the deciding one sees the caller's context end.

### Construction, sinks and what rules see

`AssemblyProofs` has one layer per part. An engine under construction satisfies, for
the rules seen so far, what a built one promises, which makes the check of
identifiers one at a time inductive. Exact counts say that a bag holds as many
copies of a label as there are reports of events with it; the reports are counted
as a finite set of places in the engines' histories, so that one more report is one
more place, and `Labels` tells events apart. For a handler the same is shown of the
sum over its three answers (`LogOK`): whichever it gives, it was asked once more
(`AskedOnce`).

`FacadeProofs` splits the heap: the tree's own slices come first, every slice a rule
was given lies behind them, so no write reaches the tree. The rest is that the
conversion, followed by an accessor, is the statement.

`BuiltinRulesProofs` shows for each rule that it rejects what the grammar makes of
a command exactly if the policy forbids the command and it is not one of the
overlooked forms (`RuleIsPolicy`). The verdict alone is not inductive; `LoopOK` adds
that no pair of a statement and a rule before the one the loops are at was to be
refused, so that the pair that ends them is the first.

### The syntax tree

What a recursive function computes for every tree would be an induction over data,
which is out of the provers' reach. Two things replace it. The traversals are
loops, so that their correctness is an invariant; and the few facts about trees that
this needs are shown by looking at the first exception (`FirstOne`: a set of numbers
that is not empty has a least element). A message stands in one written before it,
so a first exception has a parent that is none.

`IInv` says that the text is such a tree (`TextOK`), that what was parsed is its
conversion (`ParsedOK`), and for each traversal that its work is `Spread` out before
it: what was taken up is in pre-order; it comes before everything below every
element of the list; what is below an earlier element comes before what is below
a later one; and taken up and below together are everything there is to visit. One lemma
about `Spread` serves both traversals (`SpreadStep`: the first element is taken up
and its children stand in its place); they differ in what counts as a child, the
statements a statement declares or the values of all fields. That the children
are in order is `Children` (`InOrder` really sorts, `Ranks` and `Listed`), that what is
below a message is below one of its children is `Branches`, and that siblings
order all that is below them is `Siblings`. These rest on the equation of
`Enclosing`, a recursive function: it exists because the chain of a message is the
least set that holds it and, with any message, the one it stands in
(`EnclosingExists`).

`NothingTwice` needs in addition that pre-order is strict (`Strict`): the relation
by itself does not say that two messages may not each precede the other.

### Only model-checked

* `EveryGuardedCallReturns`: liveness under fairness.
* The violations, which are counterexamples.

## Not modelled

Wording and formatting of messages and log records and their times; the two
build-tagged one-line backends, which only call libpg_query (`SyntaxTree` models
the backend from how `Parse` uses it); the benchmark chart and size tools, which
are developer tools and no part of the library. A context that ends while the
executor runs is the executor's business. Field names and statement kinds are
modelled where a rule or the traversal reads them.

## Plan

Everything the code changes state in is modelled, and every safety property that a
run checks is proved. What could still be added is a proof of
`EveryGuardedCallReturns`, which needs a prover for fairness and `ENABLED`, and
further statement-bearing fields in `SyntaxTree` when `appendStatement` comes to
follow them.
