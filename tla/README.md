# Verification of industrial-agent-runtime

TLA+ models of the reference loop in `src/src/industrial_agent_runtime`, the
TLC configurations that check them on small instances, and TLAPS proofs of
what holds for every instance. Paths below are relative to
`src/src/industrial_agent_runtime/` unless they start with `src/`.

## The system

One `Coordinator` drives one task to a terminal status. It asks a model for
typed turns, applies the model's state updates, dispatches tool requests and
batches of them through deterministic gates, verifies and ingests results, and
persists the final status in a store that the consumer owns. The run is
sequential; the store, the reference world and every hook are shared with
other actors that may act between any two accesses of the run.

| Component | State | Operations | Hard behaviour |
|---|---|---|---|
| `coordinator.py` Coordinator | status, usage, known_refs, feedback, request ids | `run`, `_project`, `_update`, `_execute`, `_ingest`, `_validate_batch`, `_batch`, `_persist_terminal_status` | interleaving with other writers, partial failure, ordering of waves, budgets, termination |
| `gates.py` GatePipeline, `reconcile` | none (a function of configuration and run state) | `static_check`, `resolve`, `check_budget`, `check_side_effect`, `authorize`, `check_dispatch`, `reconcile` | a resolver that changes its mind, a reference world that moves, overdrawn results |
| `gates.py` GatePolicy | the chain of its parents | constructor, `delegate`, `allows_tool` | authority must only narrow along a chain of any length |
| `verification.py` ResultVerificationPipeline | none | `verify` (V0-V6), `verify_finish`, `check_refs` | state changes during verification, references that impersonate others |
| `protocols.py` TaskStateStore | revision, status, content | `revision`, `status`, `project`, `apply_batch`, `transition_status` | optimistic concurrency; terminal status is sticky; a consumer that breaks the protocol |
| `trace.py` TraceRecorder | an event file, projection artifacts | `persist_projection`, `read_projection`, `append`, `read_events` | a crash or a failing write anywhere; reading back what was written |
| `hooks.py` | consumer's | gate, approval, executor, verifier, ingestor, guard, resolver | any of them may deny, raise, answer nonsense or be absent |
| `contracts.py`, `actions.py` | immutable values | constructors that validate | boundary values |
| `schema.py` | none | `schema_errors`, `instance_errors` | what one function relies on and the other must have checked; numbers and booleans |
| `serialization.py`, `provider.py`, `__init__.py` | none, or a script | pure functions, a fake provider, exports | none of their own |

How they interact: Coordinator calls everything else. Per turn it reads the
store, projects it, asks the provider, applies the update at the projection's
revision, and then handles one action. A request goes preflight (G0, G1,
sizing, quota, G3) -> authorize (the same again, the reference revision, the
consumer, approval) -> check_dispatch (state revision, reference revision) ->
charge -> executor -> reconcile -> reference check; its result goes verify at
the current revision -> apply at that revision -> compare -> references become
citable. Each of these steps writes an event to the run directory, before the
effect it announces or after the effect it reports. Everything denied
becomes feedback for the next turn; everything unexpected fails the run; the end is one
guarded status transition.

What makes it correct, component by component:

- Coordinator: no budget is exceeded, no request id runs twice, writes happen
  only at the revision that was judged, a batch that was admitted can be
  carried through, dependencies decide what runs, a refused turn is never
  silent, a cancelled task is left alone, the result tells the truth, and the
  run ends.
- Gates: what runs was granted and approved at the state it starts from.
- GatePolicy: no descendant admits a call that an ancestor would not.
- TraceRecorder: no call is made that an audit would not find announced; no two
  runs have effects on one directory; what was written can be read back.
- Schema: what it decides is what the schema means, and it does decide.
- Verification: what becomes citable is visible, and an id means one thing.
- Store: a stale write changes nothing; a terminal status is never replaced.

## Modules

`TaskStateStore` - the consumer's store and the reference world.
`storeRevision`, `storeStatus` and `referenceRevision` stand for what
`revision()`, `status()` and `reference_revision()` return; content is left out
because the runtime never looks at it. `ApplyBatch` and `TransitionStatus` are
translated from the store that the tests run against
(`src/tests/test_contracts.py`, class ConsumerStore); `FaultyTransition` is a
store that breaks the protocol. `ExternalWrite`, `ExternalTransition` and
`ReferenceMoves` are the other actors. Non-terminal statuses are one, RUNNING:
the code only asks whether the status is terminal.

`Gates` - the pipeline as predicates. It has no variables, as the code's
pipeline has no state. Each stage is TRUE exactly when the code does not deny.
A draw is a function from the dimensions it names to naturals. A resolver is a
hook that may answer differently each time, so sizing yields a set
(`SizingsOf`) and may also refuse (`ResolverMayRefuse`).

`Verification` - stages V0 to V5 and the structural finish check as
predicates over abstract results. A reference is `[id, vis, body]`; equality of
the records is equality of the envelopes.

`Coordinator` - the run. `pc` names the next access to shared state; each
action makes at most one such access and the local computation that follows it,
so that other actors can move between any two accesses:

| Locations | Code | Actions |
|---|---|---|
| TASK, HEAD | `run` 397-414 | Start, LoopHead |
| PROJECT, PROJECTED | `_project` 123-135, charge 421 | Project, Projected, TurnFails |
| GENERATE | `generate` 428, `_update` 137-181 | TurnFails, TurnDenied, UpdateRejected, TurnAccepted |
| TOOL, BATCH | `_request_supported`, `_validate_batch` | PreflightTool, PreflightBatch |
| WAVE | `_batch` 366-394 | Wave, BatchSettled |
| AUTHORIZE, BIND | `authorize` | Authorize, Bind, BindDenied |
| RECHECK, DISPATCH | `check_dispatch`, `_execute` 213-236 | Recheck, Dispatch, DispatchDenied |
| EXECUTING | `_execute` 237-258 | ExecutorReturns |
| VERIFY, REVERIFY | `_ingest` 264-280, V6 | VerifyResult, ResultRejected, VerifyRevision |
| APPLY, SETTLE | `_ingest` 284-300 | Apply, ApplyRejected, Settle |
| FINISH | `run` 453-485 | FinishAccepted, FinishDenied, FinishRaises |
| PERSIST .. CONFIRM | `_persist_terminal_status` | Persist, PriorStatus, Transition, TransitionMisbehaves, TransitionRaises, Observe, Confirm |
| REPORT, DONE, RAISED | `run` 498-504 | Report, Returned |
| where the store is read | `except` clauses, or none | RunRaises, Access... |

`used`, `known`, `requestIds`, `feedback`, `runStatus`, `output` and `errors`
are the Coordinator's attributes and the locals of `run`; `work`, `sized`,
`collected` and `current` are the locals of `_batch` (a single request is a
batch of one); `frozen` and `before` are those of `_execute`; `revision`,
`returned`, `prior` and `observed` those of `_ingest` and
`_persist_terminal_status`. `overdrawn` and `late` are history variables that
no action reads. Feedback is the set of stages it speaks of, errors are kinds
of errors.

Hooks are nondeterministic: wherever a consumer decides, both answers are
possible, and an exception takes the path its handler takes. `Faults` says
which collaborators also break their contracts: PROJECTION (`project` raises or
returns a projection bound to no revision of the store), PROVIDER (`generate`
raises), GUARD (`reference_revision` raises), STORE (`transition_status` or
`apply_batch` answers wrongly), ACCESS (a read of `revision` or `status` raises:
the actions RunRaises, AccessFailsRun, AccessDeniesItem, AccessRejectsResult and
AccessHidesTransition, one per way the code catches it or does not). `Metered` is the set of values considered for
"max_total_tokens is set".

Operators whose comment starts with "Mutated" are not part of the model. Each
is the definition that follows it with a plausible bug, kept to show that a
property of the runs can fail: put in place of the definition, TLC finds the
property violated (the pairs are listed in `PROJECT.json`).

`Authority`, `Dependencies` - the vocabulary that several modules share: classes,
standard counters and the constructor's rules for a policy; what the
dependencies of a batch mean.

`RunContract` - the abstract specification of a run, in optimistic transactions:
it looks at the store's revision (Look), has it confirmed unchanged after it has
judged (Grant), and then makes at most one effect, a Write at that revision or
the execution of a request never executed before, or gives up. Once it has come
to a verdict (Decide) it makes no effect but one transition to it (End, Refused,
Doubt), and it returns what is stored or says that it may not be. A store that can
always be reached (`Reachable`) refuses only a transition that is not allowed. It knows
nothing of turns, batches, gates, references or results.

`CoordinatorContract` - `Coordinator` as an implementation of `RunContract`. The
mapping reads the phase off `pc`. `basis`, the revision of the transaction under
way, is the revision of the projection while a model turn is pending, that of the
frozen request from BIND to DISPATCH, and that of the result or of the status
while one is being verified or persisted. Executed requests, model calls and the
verdict are those of the run; doubt is the error STATUS_PERSISTENCE_FAILED. The
contract excludes a store that breaks its protocol (fault STORE), because
nothing can be promised about what such a store holds; the store is `Reachable`
unless there is the fault ACCESS.

`WorkGraph` - the two loops over the dependencies of a batch, one turn of a loop
per action: `CheckKnown`, `Pass`, `Stuck`, `Admitted` are `_validate_batch`
325-333, `Wave` and `AllSettled` are `_batch` 366-394. `Coordinator` uses the
meaning (`Acyclic`, and one wave after the other); `WorkGraph` shows that the
loops compute it.

`GatePolicy` - chains of policies. `Root` and `Child` are the constructor without
and with a parent, `Delegate` is `delegate`; `AllowsTool` walks the chain as
`allows_tool` does, `Admits` is what G1 asks.

`TraceRecorder` - the run directory. `PersistProjection`, `PersistRaises`,
`AppendEvent` and `AppendRaises` are the two writing methods, succeeding and
failing; `Decodes` is whether `read_events` returns. Bytes and digests are left
out: an artifact is absent, partial or whole, and the event file is its events,
what its end looks like and whether some line of it does not decode.

`RunTrace` - a Coordinator on its directory: the table `Writes` says for each
location which event it writes, where the run goes from there, and where it goes
if the write raises (a denial in `_execute`, a failed run inside the loop's try,
out of `run` elsewhere). Effects outside the directory - model calls, executions,
applied batches, the transition - are recorded in a history variable. Every way
that Coordinator can go is open here. `Die` stops the process between two steps
or inside a write; `Restart` makes another Coordinator on the directory.

`Schema` - the JSON Schema subset. A JSON value is a record with one field named
after its kind. The values come from `Json`, any set of them that holds the parts
of each (`Elements`), and `Height` says how deep one nests: that is what
`freeze_json` leaves, so the code's recursion over a value is a recursive function
over `Json`. `Reached` and `Judged` are what the two recursive functions call
themselves for, `Supported`, `SchemaRaises` and `Fits` are what they say of one
schema or value, `Equal` is `_equal`. `Check` is G0, `Verify` is V2; the finish
check does what V2 does. `SchemaMeaning` says independently what a schema means,
keyword by keyword. `SchemaRaises` is where `schema_errors` itself raises: an array is
hashed with all that is within it (`Occurring`, `Unhashable`), an invalid type is printed
for the message (`Unprintable`), a bound is tested for being finite, and a pattern is
compiled. On the instance that is checked, the 6,246 evaluations were also compared with
those of `schema.py` itself (CPython 3.11) and agree.

`MCCoordinator`, `MCSchema` - the small instances: references, tools, policies,
budgets, turns and outcomes; schemas and values, with their parts and heights.

The theorems are in modules of their own. Those on `Coordinator` build on each
other: `CoordinatorSafety` (types, references, budgets, the result),
`CoordinatorDispatch` (dispatch and order of requests), `CoordinatorBounds` (sums
over a batch, the measure of progress), `ContractProofs` (the refinement, and what
rests on its invariant). `GatePolicyProofs`, `RunTraceProofs`, `WorkGraphProofs` and
`SchemaProofs` belong to the module in their name.

## Assumptions about the configuration

`StoreAssumption`, `GatesAssumption`, `VerificationAssumption` and
`CoordinatorAssumption` state what constructors enforce (nonnegative budgets,
no extra dimension with the name of a standard counter, no ADMIN grant, MUTATE
always approved) and what typing gives. That the context references of a task have
ids of their own is not among them, because `Task` does not check it: they are a tuple
in which ids may recur, and `LastOfEachId` keeps the last of each as the loop's
dictionaries do, so that a hidden envelope and a visible one under one id are told
apart by their order.

`SchemaAssumption` says what a JSON value is after `freeze_json`
(`serialization.py:12-49`): of one of the seven kinds, with parts that are JSON values
and nest less deep, so that no value is inside itself. `WorkIdsAssumption` says that a
batch is finite, `TraceAssumption` and `RunAssumption` that the parameters of the run
directory are of their types.

## What the runs check

The comment before each property, in its module, says what it means and where
the code makes it true.

- `tool_turns` (MCTool): budgets, request ids, authorisation, references, late
  work, revision bindings, feedback. Two model calls, two tool calls,
  three steps, two rollouts; a single read, a simulation citing a reference that
  only an earlier result can have brought, a read citing a hidden reference, a
  batch of two reads and a finish; context references of which a visible, a hidden and
  another visible one share an id; results that bring a reference, a rival of it
  or a forgery of a hidden one, embed a hidden one, cite an unknown reason, break
  the schema, belong to another request, or raise; a resolver that answers
  nothing, a bound or an excess. Other actors write twice, cancel, and move the
  reference world once. Two tool calls are enough for a repeated id, a
  redefined reference and a quota reached in the middle of a turn.
- `contract` (MCContract): `Coordinator` implements `RunContract`, step by step,
  and what batches and mutating requests promise, on one instance: an unreachable
  store, a failing provider, projection and guard, other actors that write and
  cancel. Batches of three items in a chain, a join and with mixed draws, a pair, a
  single simulation, and batches the preflight must refuse: a cycle, one request id
  twice, an unknown dependency, asks that only together exceed the quota, an
  unsettled batch. Three items are the least with a dependency that was skipped
  because its own failed. Two rollouts against two simulations of at most two make
  the cumulative check matter, and a simulation that uses three makes the overdraft
  happen while there are still tool calls for another batch. ResultsSettled says
  that a result, once collected, is ingested or rejected before the next turn unless
  the run fails. A MUTATE, a READ and a moving reference world - twice, once on each
  side of an approval - are for approvals and reference revisions.
- `endings` (MCEnd): how a run ends and that it does. The store may misbehave or be
  out of reach, provider and guard may fail, other actors cancel, fail or complete
  the task, and the token budget may be set; a MUTATE, a dependency line, a cycle, an
  idle turn and a finish. A projection that never matches is left out, because with
  it a run need not end (`projection_fault`). Termination holds by returning, or by
  raising when the store is out of reach (`store_outage`). RunAdvances says why: every
  step of the run lowers a measure, five numbers compared one after the other - model
  calls left, what other actors may still do, the way through the turn, the items of
  the turn left, the way of the item under way - and no step of the others raises it.
  A wave without a ready item would change nothing, which such a property does not
  see; Termination does.
- `work_graph` (MCWorkGraph): every dependency relation of up to four items, self
  loops and unknown dependencies included, and every choice of what fails. Four
  items are the least with a diamond, and with a cycle behind an item that is
  ready at once. Settles says that both loops end, WalkAdvances that each turn of one
  that changes anything brings its end nearer; that none changes nothing is said by
  Settles, and proved by `NeverIdleThm`.
- `delegation` (MCPolicy): every chain of three policies, the least in which what
  a parent does not say must be found at a grandparent.
- `trace` (MCTrace): two Coordinators on one directory, two model calls and three
  requests in each; a write that raises, and a process that dies inside a write,
  may leave nothing of it, a part, all but its line end, or the whole; both may
  happen in one run. A second turn is needed for an event to follow what another left.
- `schema` (MCSchema): schemas with each keyword, nested to depth two, ill-formed
  and unknown ones, against arguments that are objects, as `actions.py:33-34` asks, and
  outputs of every kind, at and beyond the bounds, with integers beyond a double or too
  long to print, objects inside a type, a pattern whose compilation overflows, and TRUE
  next to 1.
- `projection_fault`, `mutate_race`, `store_outage`, `line_boundaries` and
  `huge_integers` show the five disagreements below.

Bounds are MaxRevision (external writes stop there), MaxReference, the quotas
and the sets of turns and outcomes; MaxTurns, MaxItems and MaxRuns of RunTrace;
WorkIds of WorkGraph; MaxDepth of GatePolicy; Json, the finite set of the schemas and
values of the instance and their parts; MaxDouble and MaxPrinted, which stand for the
largest integers that convert to a double and to text and only have to be smaller than
some integers of the instance, and Overflowing, for patterns like `a{5000000000}`. The
quotas bound a run by themselves, as in the code.

Deadlock is checked everywhere but in `trace` and `line_boundaries`: a finished
run of Coordinator is the action Returned, while in RunTrace the last process
really stops, dead or done.

### Fairness

`FairSpec` adds weak fairness of `Run`: the run is one synchronous call, so its
next step, once possible, is taken. It also says that a hook, once called,
returns - no timeout is in the code, and a hook that hangs hangs the run.
Nothing obliges the other actors to move. No strong fairness is used and no
choice among outcomes is assumed fair. `FairSpec` of WorkGraph is weak fairness
of `Walk`, the next step of two local loops, which nothing can hold up.

### Disagreements between code and documents

1. A projection that does not match the store is denied before the model call is
   charged (`coordinator.py:125-128`, `421`), and the loop continues
   (`488-489`). A consumer that keeps doing so keeps the run alive for ever,
   while `src/docs/specs/runtime-v0.md:515` says every task terminates.
2. The revision of the reference world is compared immediately before the
   executor is called (`gates.py:495-498`) and is not handed to it
   (`coordinator.py:239`). A change in between is not rejected, while
   `src/docs/specs/deterministic-gates-v0.md:205` says that execution must
   reject the operation if the state changed between validation and application.
3. `_persist_terminal_status` reads the revision and the status outside its try
   block (`coordinator.py:508-509`) and once more in its handler (`525`), and `run`
   reads the revision for the result (`499`, `503`). With a store that cannot be
   reached `run` raises, while `src/docs/specs/runtime-v0.md:347-349` asks for a
   FAILED result with `STATUS_PERSISTENCE_FAILED`.
4. `append` writes one line of JSON that keeps non-ASCII text, and `read_events`
   splits with `str.splitlines` (`trace.py:72-73`), which also splits at U+2028,
   U+2029 and U+0085. An event whose text holds one of them is written without an
   error, and from then on the file cannot be read back, while `trace.py:1`
   promises durable JSONL events and `src/docs/specs/runtime-v0.md:488-490` a trace
   sufficient for audit and replay.
5. `_is_number` calls `math.isfinite` (`schema.py:22`), which raises OverflowError
   for an integer beyond a double. Where such an integer stands below a property of the
   arguments, or in an output, that the schema looks into, `instance_errors` raises
   instead of deciding, although `schema_errors` accepted the schema (`schema.py:89`);
   in the finish check (`coordinator.py:458`) that fails the run instead of denying the
   turn.

## What is proved

TLAPS checks the following for every value of the constants: any tools, quotas,
policies, turns, outcomes, faults, work ids, runs, chains, schemas and values of any
depth, and any bounds on the other actors. The two theorems marked * assume that the store keeps its protocol
(`"STORE" \notin Faults`), which is what the contract promises about.

| Theorem | Module | Says |
|---|---|---|
| `TypeOKThm` | CoordinatorSafety | every variable keeps its type |
| `KnownRefsSoundThm` | CoordinatorSafety | what is citable is visible, no two citable references share an id, and none that a result brought has the id of a context reference, hidden or not |
| `BudgetRespectedThm` | CoordinatorSafety | no quota is exceeded except where a result overdrew its reservation; the standard counters never are |
| `ResultMatchesStoreThm` | CoordinatorSafety | the result claims no more than the store holds, or says that persistence failed |
| `DispatchesAccountedThm` | CoordinatorDispatch | a dispatch is counted once, under an id of its own |
| `ExecutingIsAuthorizedThm` | CoordinatorDispatch | a request is dispatched under an id never dispatched before; what is executed was granted and, where needed, approved, cites only known references, and its reservation fits beside what was charged where nothing was overdrawn |
| `DependenciesDecideThm` | CoordinatorDispatch | the outcomes of its dependencies alone decide whether an item runs or is skipped |
| `WaveOrderThm` | CoordinatorDispatch | a wave is collected whole before any of it is ingested, in order |
| `ResultsSettledThm` | CoordinatorDispatch | a collected result is ingested or rejected, unless the run fails |
| `BatchReservationHoldsThm` | CoordinatorBounds | a batch that was admitted can be carried through: what waits of it fits what is left, in every dimension that no result overdrew |
| `OverdraftBlocksBatchesThm` | CoordinatorBounds | once a result has overdrawn a dimension, no further batch is admitted |
| `RunAdvancesThm` | CoordinatorBounds | every step of a run lowers the measure, and no step of another actor raises it, if no projection is faulty |
| `MeasuredThm` | CoordinatorBounds | the measure is in a well-founded order, so a run takes finitely many steps |
| `ImplementsContractThm` * | ContractProofs | Coordinator implements RunContract |
| `WritesAreBoundThm` * | ContractProofs | each write is applied at the revision that was judged |
| `LateWorkBoundedThm` | ContractProofs | work after others ended the task belongs to one turn |
| `ResultExplainedThm` | ContractProofs | every reported status has its reason |
| `ReferenceDisciplineThm` | ContractProofs | a MUTATE starts at the approved reference revision; a READ that returns to a changed world fails the run |
| `NoSilentTurnThm` | ContractProofs | a request, a batch or a finish that goes back to the loop, and a denied projection, leave feedback; turns that ask for nothing are outside |
| `VerdictThm` | WorkGraphProofs | the preflight admits exactly the acyclic batches with known dependencies |
| `WavesFollowPassesThm` | WorkGraphProofs | the waves settle items in the order of the passes, whatever fails |
| `NeverIdleThm` | WorkGraphProofs | an admitted batch always has a ready item: the wave loop cannot spin |
| `SkippedExactlyThm` | WorkGraphProofs | an item is skipped exactly if a chain of dependencies leads to a failure |
| `WalkAdvancesThm` | WorkGraphProofs | every turn of either loop lowers a natural number |
| `NeverWidensThm` | GatePolicyProofs | what a descendant admits every ancestor admits |
| `OwnListDecidesThm` | GatePolicyProofs | a delegated policy's own allowlist decides |
| `EffectiveValidThm` | GatePolicyProofs | the effective policy satisfies what `Gates` assumes of one |
| `WriteAheadThm` | RunTraceProofs | calls are on disk before they are made |
| `OnlyTheLastUntracedThm` | RunTraceProofs | at most the last applied batch is missing from the trace |
| `OneRunPerDirectoryThm` | RunTraceProofs | one Coordinator at most has effects on a directory |
| `ReadBackThm` | RunTraceProofs | without a line boundary in an event's text, what was appended without an error can be read back: disagreement 4 has no other cause |
| `EqualMeans` | SchemaProofs | the equality of const and enum is equality of what two JSON values mean |
| `MeaningHolds` | SchemaProofs | `instance_errors` finds nothing exactly if the value conforms to the accepted schema |
| `DecidesByMeaningThm` | SchemaProofs | G0 and V2 decide by what a schema means |
| `RaisesForCauseThm` | SchemaProofs | an evaluation raises only for a huge integer, an object within a type, or a pattern that overflows |
| `OutputJudgeableThm` | SchemaProofs | V2 meets no schema beyond the subset |
| `AcceptedRaisesForHugeThm` | SchemaProofs | with accepted schemas only a huge integer in the value makes an evaluation raise: disagreement 5 has no other cause |

None of them needs fairness. Each rests on an inductive invariant, because the
property does not explain itself:

- `TypeInv` is TypeOK and `Placed`: the items that are not absent are items of the
  turn; no item has a state before the preflight; `current` is the READY item
  while it is being executed and the RETURNED item while it is being ingested;
  and from `authorize` on, its tool is a registered one. Without the last two,
  TypeOK does not survive ExecutorReturns, whose outcomes and reservation are
  looked up under `current`. The lemma `GoesOn` covers every action that moves
  on to the next item, `ChargedBounds` is what reconcile guarantees.
- `RefsInv` is KnownRefsSound and: between VERIFY and SETTLE what `check_refs` said
  of the result still holds of the run's references. It is inductive because only
  Settle, which ends the interval, changes `known`: this is where ingesting the
  results of a wave one after the other, each verified after the previous one was
  made citable, matters. `CitableSound` is the local argument: a new id is
  compared with `ReservedRefs`, so it is neither a known id nor that of any context
  reference: `ContextCovers` shows that what `LastOfEachId` keeps has all the ids, for
  of finitely many positions with one id there is a last.
- `BudgetInv` is BudgetRespected and what was checked before the charge it pays
  for: at PROJECT and PROJECTED both counters of the loop head are below their
  quota, at GENERATE the steps still are, from BIND to DISPATCH `check_budget`
  still holds of the reservation, and at EXECUTING usage and reservation together
  fit in every dimension that is not overdrawn. Since `TypeInv` supplies the
  arithmetic, the step is proved from both.
- `ClaimInv` relates status, output and store over the five accesses of
  `_persist_terminal_status`; `Honest` says that the stored status is terminal
  and the reported one, or that the report admits the failure. It survives the
  other actors because a terminal status is never replaced, and a store that
  breaks its protocol because Confirm looks at the stored status itself.
- `Fresh` says that what waits to be dispatched has ids of its own that were never
  used: the preflight compares with `requestIds` only once, so the ids must stay
  fresh while other items of the batch are dispatched. `Accounted` adds that a model
  call pays for its step before the step is taken.
- `Authorized` carries what authorize granted to the executor: the checks hold of
  `known`, which does not change between BIND and EXECUTING. With it, `Fresh` gives the
  id at DISPATCH and `BudgetInv` the reservation at EXECUTING.
- `Decided` and `Ordered` are the dependency rule with known dependencies, and the
  order of a wave with: between two waves nothing is left to execute or to ingest.
- `Batched` says that what waits of a batch fits in what is left, and it is proved with
  sums: what the items draw together is the number of `Units`, pairs of an item and a
  number below its draw. `TotalCounts` shows that the fold of the code's sums counts
  them, for any finite set and whatever order the fold takes, by looking at a smallest
  set for which it would not. Then removing an item removes its draw, and a draw
  that `reconcile` charges is at most the one that was set aside.
- The measure `Left` of RunAdvances falls at the loop head because a call is charged,
  within a turn because `pc` goes on, and between two waves because a wave is
  never empty: `Sortable`, the dependencies that the preflight found acyclic, still
  holds there. `MeasuresWellFounded` shows that every set of such measures has a
  least one, and `BelowAsymmetric` that nothing is below itself by a detour.
- `RunInv` of ContractProofs gathers what the refinement needs: the revision of a
  transaction is the one compared, and no request of a waiting item is spent.
  Every action is then shown to be one step of the contract or none.
- `LateInv` says that late work carries the number of the last model call, and that
  the loop head is not passed once there is some. `ExplainInv` says which reason a
  status has while it is being persisted, `Baseline` that a READ has a reference
  revision to be compared with, `Spoken` when a turn has been spoken of.
- `GraphInv` relates the passes to the remaining items: what was visited in one
  pass is a layer (`Layered`), and what is pending waits for the last layer or for
  something pending (`Waiting`). From it, a pass that admits nothing has found a
  set in which everything waits for a member, which is a cycle.
- `SkipInv` is SkippedExactly while the waves go on: of what has an outcome, an item is
  skipped exactly if one of its dependencies did not complete, and what is skipped is
  in every set that holds whatever waits for a failure or for one of the set. `Ahead`,
  the measure of the two loops, falls because no pass that goes on and no wave is empty.
- `ChainInv` says that every policy narrows every ancestor and not only its parent,
  from the transitivity of `Narrows`.
- `AuditInv` says of the file that an event never follows half of one unless the
  run is about to deny or fail; of the calls, that the announcement is on disk
  when the call is next; of the batches, where the last may still await its event.
  `WholeLines` is what an append leaves that does not fail.
- The functions of `Schema` recurse over values of any depth. `Recursion` shows, from
  nothing but a measure that falls, that an equation whose right side looks only at
  smaller arguments has exactly one solution (solutions up to a measure exist and
  agree), so each function satisfies the equation that defines it. `LeastMeasure` is
  then the induction over JSON values: a counterexample would have one of least
  Height. `Canonical` needs a proof of its own, having no set of results given in
  advance. `MeaningHolds` takes the keywords one by one at one value and leaves its
  parts to smaller ones, and `JudgedInv` carries to `verdict` what G0 found of the
  output's schema.

The proofs use the named assumptions of the modules and nothing else. MaxReference
only restricts TLC's instances. So does MaxRevision, but for progress: Termination and
RunAdvances say that a run ends when the other actors write finitely often. A write
between `project` and the comparison that follows (`coordinator.py:125`) costs the run a
turn of the loop that is not charged, so others that hit that window for ever would
keep it from its end, without any fault, as in disagreement 1.

Only model-checked are Termination and Settles, liveness under fairness, which the
prover does not handle. What the prover can say of them is proved: each step lowers a
measure without infinite descent, so that with FairSpec a run can only end, or stop
where no step is possible; that there is no such place is the deadlock check of
`endings` and `work_graph`.

## Abstractions to keep in mind

- `append` and `persist_projection` write, flush and fsync; a write that returned
  is on disk. The code does not fsync the directory, so this assumes that the file
  system keeps the entries of new files.
- One process at a time writes to a run directory. Nothing in the code locks it.
- RunTrace keeps the lines of the kinds an audit reads (task, model turn, dispatch,
  update, ingestion, status) and merges consecutive events with no effect between
  them, as the gate events of one request.
- Numbers of `Schema` are integers; floats occur in the subset only with integral
  values, as 1.0 that equals 1. Regular expressions are a table of which pattern
  compiles, of which overflows, and of which is found in which text. Python's limit on
  recursion is left out: what nests too deep for it would raise as well.
- In `Coordinator` a finish check that raises is FinishRaises, whatever raised: an
  output with a huge integer, or a verifier.

## Not modelled, and why

- Serialization and checksums: pure data conversion without state. What of it
  matters elsewhere is modelled there: the line boundaries that `canonical_json`
  lets through, the huge integers that `freeze_json` lets through.
- The validation in the constructors of `contracts.py` and `actions.py`: stated as
  assumptions on the constants; the loop only ever sees values that passed it.
- SUBTASK: not implemented in the code, refused by the preflight.
- The fake provider's script and the package's exports: nothing that a provider
  answering anything does not cover.
- Floating-point budgets: draws are naturals. Rounding in sums is not modelled.

## Plan

What is left, in order of importance:

1. Freshness of a finish. `verify_finish` judges an output at one revision and
   `_persist_terminal_status` binds DONE to a revision read afterwards
   (`coordinator.py:508`). The documents only bind the status transition itself, so
   there is no claim to check; a decision of the authors would make one.
2. Floating-point draws: sums with rounding against quotas, as `reconcile` and
   `check_budget` add them in different orders.
