----------------------------- MODULE Coordinator -----------------------------
(***************************************************************************)
(* One run of the Coordinator: the turn loop, atomic model updates, gated  *)
(* dispatch, result verification and ingestion, ordered TOOL waves, and    *)
(* the persistence of the terminal status.  The run is sequential; what    *)
(* makes it hard is that the store, the reference world and every hook are *)
(* shared with other actors that move between any two of its accesses.     *)
(* One action therefore makes at most one access to shared state; the      *)
(* local computation that follows an access belongs to the same action.    *)
(***************************************************************************)
EXTENDS TaskStateStore, Gates, Verification, Dependencies, FiniteSetsExt

CONSTANTS WorkIds,    \* work ids, numbered in their lexical order
          Turns,      \* what the model may answer
          Outcomes,   \* what the executor may answer, by tool name
          Metered,    \* whether max_total_tokens is set: the values considered
          Faults      \* which collaborators may misbehave

VARIABLES
  pc,            \* the next access or decision of the run
  runStatus,     \* self.status
  used,          \* self.usage
  known,         \* self.known_refs
  requestIds,    \* self._request_ids
  feedback,      \* the stages self.feedback speaks of
  output,        \* a structured output was accepted
  errors,        \* the kinds of errors collected for the result
  projected,     \* the revision the current projection is bound to
  turn,          \* the accepted turn being acted on
  work,          \* where each work item of the turn stands
  sized,         \* the preflight reservation of each item
  collected,     \* executed results awaiting verification
  current,       \* the work item being executed or ingested
  frozen,        \* the bindings of the FrozenRequest
  before,        \* the reference revision before a non-MUTATE dispatch
  revision,      \* revision read by _ingest or _persist_terminal_status
  returned,      \* revision returned by apply_batch or transition_status
  prior,         \* prior_status of _persist_terminal_status
  observed,      \* observed_revision of _persist_terminal_status
  result,        \* the RuntimeResult
  overdrawn,     \* history: dimensions charged beyond a reservation
  late           \* history: turns that charged anything after the task was terminal

runVars      == <<runStatus, used, known, requestIds, feedback, output, errors>>
batchVars    == <<work, sized, collected, current>>
dispatchVars == <<frozen, before>>
ingestVars   == <<revision, returned>>
persistVars  == <<prior, observed, result>>
history      == <<overdrawn, late>>
shared       == <<storeVars, referenceRevision>>
local        == <<pc, runVars, projected, turn, batchVars, dispatchVars,
                  ingestVars, persistVars, history>>
vars         == <<shared, local>>

-----------------------------------------------------------------------------
NoRevision == -1
Revisions  == Nat \cup {NoRevision}

(* A TOOL_REQUEST is a batch of one item with no dependencies.  plain: the   *)
(* item is a TOOL, not pre-completed, with a well-formed budget request; ask *)
(* is that request.  settled: the batch is ALL_SETTLED, its own budget       *)
(* request is well formed, and no work id occurs twice.  valid, refs and     *)
(* embedded belong to a finish.                                              *)
IsItem(i) == /\ i.request.id \in Nat /\ i.request.refs \subseteq Refs
             /\ i.deps \subseteq Nat /\ IsDraw(i.ask) /\ i.plain \in BOOLEAN
NoTurn   == [action |-> "NONE", items |-> [k \in {} |-> 0], ask |-> NoDraw,
             settled |-> TRUE, valid |-> TRUE, refs |-> <<>>, embedded |-> {}]

(* Where each action variant of an accepted turn is handled.                 *)
Route   == [NONE |-> "HEAD", TOOL_REQUEST |-> "TOOL", WORK_BATCH |-> "BATCH",
            FINISH_PROPOSAL |-> "FINISH"]

NoFrozen  == [state |-> NoRevision, reference |-> NoRevision, approved |-> FALSE]
NoOutcome == [result |-> NoResult, clean |-> FALSE]
NoReport  == [status |-> "RUNNING", revision |-> NoRevision, output |-> FALSE,
              errors |-> {}]

ItemStates == {"ABSENT", "PENDING", "READY", "RETURNED",
               "COMPLETED", "FAILED", "SKIPPED_DEPENDENCY"}
Settled    == {"COMPLETED", "FAILED", "SKIPPED_DEPENDENCY"}
Stages     == {"MODEL_TURN", "STATE_UPDATE", "EXECUTION", "VERIFY_RESULT",
               "RESULT_INGESTION", "WORK_BATCH", "TOOL_REQUEST"}
ErrorKinds == {"TOKENS", "TASK_FAILURE", "STATUS_PERSISTENCE_FAILED"}
Locations  == {"TASK", "HEAD", "PROJECT", "PROJECTED", "GENERATE",
               "TOOL", "BATCH", "WAVE", "AUTHORIZE", "BIND", "RECHECK",
               "DISPATCH", "EXECUTING", "VERIFY", "REVERIFY", "APPLY", "SETTLE",
               "FINISH", "PERSIST", "PRIOR", "TRANSITION", "OBSERVE", "CONFIRM",
               "REPORT", "DONE", "RAISED"}

ASSUME CoordinatorAssumption ==
  /\ WorkIds \subseteq Nat /\ IsFiniteSet(WorkIds)
  /\ \A t \in Turns :
       /\ t.action \in DOMAIN Route
       /\ DOMAIN t.items \subseteq WorkIds
       /\ IsDraw(t.ask)
       /\ \A k \in DOMAIN t.items : IsItem(t.items[k])
       /\ t.action = "TOOL_REQUEST" =>
            \E k \in WorkIds : DOMAIN t.items = {k} /\ t.items[k].deps = {}
       /\ Declared(t.refs) \subseteq Refs
  /\ \A tool \in DOMAIN Specs : \A o \in Outcomes[tool] :
       /\ o.kind \in Kinds /\ o.defect \in Defects /\ IsDraw(o.actual)
       /\ Declared(o.refs) \subseteq Refs
  /\ Metered \subseteq BOOLEAN /\ Metered # {}
  /\ Faults \subseteq {"PROJECTION", "PROVIDER", "GUARD", "STORE", "ACCESS"}

-----------------------------------------------------------------------------
(* Mutated: the reverse of the lexical order.                                *)
Greatest(S) == CHOOSE k \in S : \A j \in S : k >= j

Least(S)   == CHOOSE k \in S : \A j \in S : k <= j
In(w, s)   == {k \in WorkIds : w[k] = s}
Request    == turn.items[current].request
ToolOf(k)  == Specs[turn.items[k].request.tool]
Guarded    == "reference_guard" \in Hooks
Reference  == IF Guarded THEN referenceRevision ELSE NoRevision

(* A turn is known by the number of its model call.                          *)
Late(n) == late' = IF storeStatus \in Terminal THEN late \cup {n} ELSE late

Charge(dims) == used' = [d \in DOMAIN used |-> IF d \in dims THEN used[d] + 1 ELSE used[d]]

NoWork == /\ work' = [k \in WorkIds |-> "ABSENT"]
          /\ sized' = [k \in WorkIds |-> NoSizing]
          /\ collected' = [k \in WorkIds |-> NoOutcome]
          /\ current' = 0

(* The locals of a turn go out of scope.                                     *)
EndTurn == /\ projected' = NoRevision /\ turn' = NoTurn
           /\ NoWork
           /\ frozen' = NoFrozen /\ before' = NoRevision
           /\ revision' = NoRevision /\ returned' = NoRevision

(* except Denied: the turn ends, the model is told, nothing is retried.      *)
DenyTurn(stage) == /\ pc' = "HEAD"
                   /\ EndTurn
                   /\ feedback' = feedback \cup {stage}
                   /\ UNCHANGED <<runStatus, known, requestIds, output, errors, persistVars>>

(* except Exception: the run fails closed.                                   *)
FailRun == /\ pc' = "PERSIST"
           /\ EndTurn
           /\ runStatus' = "FAILED"
           /\ errors' = errors \cup {"TASK_FAILURE"}
           /\ UNCHANGED <<known, requestIds, feedback, output, persistVars>>

(* Mutated: what was collected is not ingested.                              *)
ProceedUncollected(w) ==
  LET ready == In(w, "READY")
  IN /\ work' = w
     /\ pc' = IF ready # {} THEN "AUTHORIZE" ELSE "WAVE"
     /\ current' = IF ready # {} THEN Least(ready) ELSE 0

(* After an item leaves execution or ingestion: the rest of the wave is      *)
(* executed first, then the collected results are ingested, each in lexical  *)
(* order, then the next wave is planned.                                     *)
Proceed(w) ==
  LET ready == In(w, "READY")
      taken == In(w, "RETURNED")
  IN /\ work' = w
     /\ pc' = IF ready # {} THEN "AUTHORIZE" ELSE IF taken # {} THEN "VERIFY" ELSE "WAVE"
     /\ current' = IF ready # {} THEN Least(ready) ELSE IF taken # {} THEN Least(taken) ELSE 0

(* Mutated: a denied item is tried again.                                    *)
DenyItemRetried == /\ Proceed(work)
                   /\ feedback' = feedback \cup {"EXECUTION"}
                   /\ frozen' = NoFrozen /\ before' = NoRevision

(* A request that is denied before dispatch, or whose executor raised.  Its  *)
(* outcome is read only by the next wave, so it is recorded at once.         *)
DenyItem == /\ Proceed([work EXCEPT ![current] = "FAILED"])
            /\ feedback' = feedback \cup {"EXECUTION"}
            /\ frozen' = NoFrozen /\ before' = NoRevision

(* Mutated: the end of a TOOL_REQUEST is not reported.                       *)
NothingToReport == {}

OutcomeToReport == IF turn.action = "TOOL_REQUEST" THEN {"TOOL_REQUEST"} ELSE {}

(* The end of _ingest; a TOOL_REQUEST reports its outcome, a batch later.    *)
EndIngest(state, stages) ==
  /\ Proceed([work EXCEPT ![current] = state])
  /\ collected' = [collected EXCEPT ![current] = NoOutcome]
  /\ revision' = NoRevision /\ returned' = NoRevision
  /\ feedback' = feedback \cup stages \cup OutcomeToReport

Init ==
  /\ StoreInit
  /\ pc = "TASK" /\ runStatus = "RUNNING"
  /\ used = [d \in DOMAIN Quota |-> 0]
  /\ known = InitiallyKnown
  /\ requestIds = {} /\ feedback = {} /\ output = FALSE /\ errors = {}
  /\ projected = NoRevision /\ turn = NoTurn
  /\ work = [k \in WorkIds |-> "ABSENT"]
  /\ sized = [k \in WorkIds |-> NoSizing]
  /\ collected = [k \in WorkIds |-> NoOutcome]
  /\ current = 0
  /\ frozen = NoFrozen /\ before = NoRevision
  /\ revision = NoRevision /\ returned = NoRevision
  /\ prior = "RUNNING" /\ observed = NoRevision /\ result = NoReport
  /\ overdrawn = {} /\ late = {}

-----------------------------------------------------------------------------
(* Mutated: a cancellation does not stop the loop.                           *)
StoppedUncancelled == storeStatus \in Terminal \ {"CANCELLED"}

Stopped == storeStatus \in Terminal

(* run(), before the loop: a terminal store is only observed, and a token    *)
(* budget fails the run because nothing meters tokens.  The code reads the   *)
(* status twice, here and at the loop head; a terminal one stays, so that    *)
(* one reading stands for both.                                              *)
Start ==
  /\ pc = "TASK"
  /\ \/ /\ Stopped
        /\ runStatus' = storeStatus /\ pc' = "PERSIST" /\ UNCHANGED errors
     \/ /\ ~Stopped /\ TRUE \in Metered
        /\ runStatus' = "FAILED" /\ pc' = "PERSIST" /\ errors' = errors \cup {"TOKENS"}
     \/ /\ ~Stopped /\ FALSE \in Metered
        /\ pc' = "HEAD" /\ UNCHANGED <<runStatus, errors>>
  /\ UNCHANGED <<shared, used, known, requestIds, feedback, output, projected, turn,
                 batchVars, dispatchVars, ingestVars, persistVars, history>>

(* The loop head: a terminal store first, then exhaustion of either counter  *)
(* that every turn needs.                                                    *)
LoopHead ==
  /\ pc = "HEAD"
  /\ \/ /\ Stopped
        /\ runStatus' = storeStatus /\ pc' = "PERSIST"
     \/ /\ ~Stopped
        /\ Remaining(used, "model_calls") <= 0 \/ Remaining(used, "steps") <= 0
        /\ runStatus' = "EXHAUSTED" /\ pc' = "PERSIST"
     \/ /\ ~Stopped
        /\ Remaining(used, "model_calls") > 0 /\ Remaining(used, "steps") > 0
        /\ pc' = "PROJECT" /\ UNCHANGED runStatus
  /\ UNCHANGED <<shared, used, known, requestIds, feedback, output, errors, projected,
                 turn, batchVars, dispatchVars, ingestVars, persistVars, history>>

(* store.project(): a snapshot at the current revision.  A faulty consumer   *)
(* returns one bound to no revision of this store, or to another task.       *)
Project ==
  /\ pc = "PROJECT"
  /\ \/ projected' = storeRevision
     \/ "PROJECTION" \in Faults /\ projected' = NoRevision
  /\ pc' = "PROJECTED"
  /\ UNCHANGED <<shared, runVars, turn, batchVars, dispatchVars, ingestVars,
                 persistVars, history>>

(* The rest of _project() and the charge of the model call.  A projection    *)
(* that no longer matches the store is denied before anything is charged;    *)
(* otherwise the feedback now belongs to the projection and starts afresh.   *)
Projected ==
  /\ pc = "PROJECTED"
  /\ \/ /\ projected # storeRevision
        /\ DenyTurn("MODEL_TURN")
        /\ UNCHANGED <<used, history>>
     \/ /\ projected = storeRevision
        /\ pc' = "GENERATE"
        /\ feedback' = {}
        /\ Charge({"model_calls"})
        /\ Late(used["model_calls"] + 1)
        /\ UNCHANGED <<runStatus, known, requestIds, output, errors, projected, turn,
                       batchVars, dispatchVars, ingestVars, persistVars, overdrawn>>
  /\ UNCHANGED shared

-----------------------------------------------------------------------------
(* provider.generate and _update.  The model may take arbitrarily long.      *)

(* store.project or provider.generate raises.                                *)
TurnFails ==
  /\ \/ pc = "PROJECT" /\ "PROJECTION" \in Faults
     \/ pc = "GENERATE" /\ "PROVIDER" \in Faults
  /\ FailRun
  /\ UNCHANGED <<shared, used, history>>

(* Not a ModelTurn, or one without a state update whose projection, revision *)
(* or turn id does not match: the turn is denied.                            *)
TurnDenied ==
  /\ pc = "GENERATE"
  /\ DenyTurn("MODEL_TURN")
  /\ UNCHANGED <<shared, used, history>>

(* A state update is charged one step before it is judged.  It is refused    *)
(* when the turn or the update is misbound, when the store moved on, and     *)
(* whenever the consumer says so; the action that came with it is dropped.   *)
UpdateRejected ==
  /\ pc = "GENERATE"
  /\ Charge({"steps"})
  /\ DenyTurn("STATE_UPDATE")
  /\ UNCHANGED <<shared, history>>

(* Mutated: the update is bound to whatever revision the store is at.        *)
LatestRevision == storeRevision

(* The expected_revision that _update hands to apply_batch.                  *)
UpdateRevision == projected

(* The turn is accepted: its update, if any, is applied at the revision of   *)
(* the projection the model saw, and then its action is routed.              *)
TurnAccepted ==
  \E t \in Turns, update \in {"NONE", "VALID"} :
    /\ pc = "GENERATE"
    /\ \/ update = "NONE" /\ UNCHANGED <<storeVars, used>>
       \/ update = "VALID" /\ Charge({"steps"}) /\ ApplyBatch(UpdateRevision)
    /\ pc' = Route[t.action]
    /\ IF t.action = "NONE"
       THEN EndTurn
       ELSE /\ turn' = t /\ projected' = NoRevision
            /\ UNCHANGED <<batchVars, dispatchVars, ingestVars>>
    /\ UNCHANGED <<referenceRevision, runStatus, known, requestIds, feedback, output,
                   errors, persistVars, history>>

-----------------------------------------------------------------------------
(* Preflight.  It reads no shared state and charges nothing.                 *)

(* Mutated: a request id may be dispatched again.                            *)
SupportedAgain(request) ==
  IF ExecutionHooks \subseteq Hooks THEN StaticCheck(request, known) ELSE {}

(* _request_supported: the reservations the request may be given.            *)
Supported(request) ==
  IF request.id \notin requestIds /\ ExecutionHooks \subseteq Hooks
  THEN StaticCheck(request, known) ELSE {}

MayRefuse(request) ==
  Supported(request) # {} => ResolverMayRefuse(Specs[request.tool])

PreflightTool ==
  /\ pc = "TOOL"
  /\ \E k \in DOMAIN turn.items :
       \/ \E s \in Supported(turn.items[k].request) :
            /\ pc' = "AUTHORIZE" /\ current' = k
            /\ work' = [work EXCEPT ![k] = "READY"]
            /\ sized' = [sized EXCEPT ![k] = s]
            /\ UNCHANGED <<runVars, turn, projected, collected, dispatchVars,
                           ingestVars, persistVars>>
       \/ /\ MayRefuse(turn.items[k].request)
          /\ DenyTurn("EXECUTION")
          /\ UNCHANGED used
  /\ UNCHANGED <<shared, history>>

(* What the draws of some items come to in a dimension.                      *)
Total(draws, S, d) == MapThenSumSet(LAMBDA k : Amount(draws[k], d), S)

(* The dimensions whose sum over the items is compared with what is left:    *)
(* all of them, asked for or not.  Mutated: those that some item asks for.   *)
AskedDimensions(batch) == UNION {DOMAIN batch.items[k].ask : k \in DOMAIN batch.items}

SummedDimensions(batch) == {"tool_calls", "steps"} \cup (DOMAIN Quota \ Standard)

(* Declared budget requests are checked one by one and then summed; they     *)
(* may name tool_calls, steps and the configured extra dimensions.           *)
AsksFit(batch) ==
  LET charged == {"tool_calls", "steps"}
      asks    == {batch.ask} \cup {batch.items[k].ask : k \in DOMAIN batch.items}
      Asked   == [k \in DOMAIN batch.items |-> batch.items[k].ask]
  IN /\ \A ask \in asks : \A d \in DOMAIN ask :
          /\ d \in Standard => d \in charged
          /\ d \in DOMAIN Quota /\ ask[d] <= Remaining(used, d)
     /\ \A d \in SummedDimensions(batch) :
          Total(Asked, DOMAIN batch.items, d) <= Remaining(used, d)

(* Mutated: every reservation fits by itself.                                *)
ReservationsFitAlone(ids, s) == \A k \in ids : CheckBudget(1, s[k].draw, used)

(* Cumulative G2: every reservation of the batch fits together.              *)
ReservationsFit(ids, s) ==
  LET draws == [k \in ids |-> s[k].draw]
      draw  == [d \in UNION {DOMAIN s[k].draw : k \in ids} |-> Total(draws, ids, d)]
  IN CheckBudget(Cardinality(ids), draw, used)

(* _validate_batch with the reservations s: structure, quota, then G3.       *)
ValidBatch(batch, s) ==
  LET items == batch.items IN
  /\ batch.settled
  /\ \A k \in DOMAIN items :
       /\ items[k].plain
       /\ \A j \in DOMAIN items : items[j].request.id = items[k].request.id => j = k
  /\ DependenciesKnown(items)
  /\ Acyclic(items)
  /\ Cardinality(DOMAIN items) <= Remaining(used, "tool_calls")
  /\ Cardinality(DOMAIN items) <= Remaining(used, "steps")
  /\ AsksFit(batch)
  /\ ReservationsFit(DOMAIN items, s)
  /\ \A k \in DOMAIN items : CheckSideEffect(Specs[items[k].request.tool], s[k].draw)

(* One reservation per item, as the preflight may find them.                 *)
Preflights ==
  LET ids == DOMAIN turn.items
      of  == [k \in ids |-> Supported(turn.items[k].request)]
  IN {s \in [ids -> UNION {of[k] : k \in ids}] : \A k \in ids : s[k] \in of[k]}

PreflightBatch ==
  /\ pc = "BATCH"
  /\ \/ \E s \in Preflights :
          /\ ValidBatch(turn, s)
          /\ pc' = "WAVE"
          /\ work' = [k \in WorkIds |-> IF k \in DOMAIN s THEN "PENDING" ELSE "ABSENT"]
          /\ sized' = [k \in WorkIds |-> IF k \in DOMAIN s THEN s[k] ELSE NoSizing]
          /\ UNCHANGED <<runVars, turn, projected, current, collected, dispatchVars,
                         ingestVars, persistVars>>
     \/ /\ \/ \E k \in DOMAIN turn.items : MayRefuse(turn.items[k].request)
           \/ \E s \in Preflights : ~ValidBatch(turn, s)
        /\ DenyTurn("WORK_BATCH")
        /\ UNCHANGED used
  /\ UNCHANGED <<shared, history>>

Deps(k) == turn.items[k].deps
Planned == {k \in In(work, "PENDING") : \A d \in Deps(k) : work[d] \in Settled}

(* Mutated: a skipped dependency does not skip the item.                     *)
SkippedAfterFailure == {k \in Planned : \E d \in Deps(k) : work[d] = "FAILED"}

Skipped == {k \in Planned : \E d \in Deps(k) : work[d] # "COMPLETED"}

(* _batch: plan a wave of the items whose dependencies are all settled; the  *)
(* ones with an unsuccessful dependency are skipped, the others are run.     *)
Wave ==
  /\ pc = "WAVE" /\ In(work, "PENDING") # {}
  /\ Proceed([k \in WorkIds |-> IF k \in Skipped THEN "SKIPPED_DEPENDENCY"
                                 ELSE IF k \in Planned THEN "READY" ELSE work[k]])
  /\ UNCHANGED <<shared, runVars, turn, projected, sized, collected, dispatchVars,
                 ingestVars, persistVars, history>>

(* Everything is settled: ALL_SETTLED is reported and the turn is over.      *)
BatchSettled ==
  /\ pc = "WAVE" /\ In(work, "PENDING") = {}
  /\ pc' = "HEAD" /\ EndTurn
  /\ feedback' = IF turn.action = "WORK_BATCH" THEN feedback \cup {"WORK_BATCH"} ELSE feedback
  /\ UNCHANGED <<shared, runStatus, used, known, requestIds, output, errors,
                 persistVars, history>>

-----------------------------------------------------------------------------
(* _execute: authorize, re-bind, dispatch once, reconcile.                   *)

(* authorize, up to its first hook: static_check must reproduce the          *)
(* reservation of the preflight, then quota, then G3.  The state revision    *)
(* that everything is bound to is read here.                                 *)
Authorize ==
  /\ pc = "AUTHORIZE"
  /\ LET s == sized[current]
         static == StaticCheck(Request, known)
     IN \/ /\ s \in static
           /\ CheckBudget(1, s.draw, used)
           /\ CheckSideEffect(ToolOf(current), s.draw)
           /\ frozen' = [NoFrozen EXCEPT !.state = storeRevision]
           /\ pc' = "BIND"
           /\ UNCHANGED <<runVars, batchVars, before>>
        \/ /\ \/ static # {s}
              \/ ~CheckBudget(1, s.draw, used)
              \/ ~CheckSideEffect(ToolOf(current), s.draw)
              \/ ResolverMayRefuse(ToolOf(current))
           /\ DenyItem
           /\ UNCHANGED <<runStatus, used, known, requestIds, output, errors,
                          sized, collected>>
  /\ UNCHANGED <<shared, projected, turn, ingestVars, persistVars, history>>

(* The rest of authorize: bind the reference revision, ask the consumer and, *)
(* when the consumer or the policy requires it, the approval hook.           *)
Bind ==
  /\ pc = "BIND"
  /\ \E asked \in BOOLEAN :
       LET approval == NeedsApproval(ToolOf(current), asked) IN
       /\ approval => "approval" \in Hooks
       /\ frozen' = [frozen EXCEPT !.reference = Reference, !.approved = approval]
  /\ pc' = "RECHECK"
  /\ UNCHANGED <<shared, runVars, projected, turn, batchVars, before, ingestVars,
                 persistVars, history>>

(* A hook that denies, answers nonsense or raises denies.                    *)
BindDenied ==
  /\ pc = "BIND"
  /\ DenyItem
  /\ UNCHANGED <<shared, runStatus, used, known, requestIds, output, errors, projected,
                 turn, sized, collected, ingestVars, persistVars, history>>

(* check_dispatch: the task state is where the request was authorized.       *)
Recheck ==
  /\ pc = "RECHECK"
  /\ \/ /\ storeRevision = frozen.state
        /\ pc' = "DISPATCH"
        /\ UNCHANGED <<runVars, batchVars, dispatchVars>>
     \/ /\ storeRevision # frozen.state
        /\ DenyItem
        /\ UNCHANGED <<runStatus, used, known, requestIds, output, errors, sized, collected>>
  /\ UNCHANGED <<shared, projected, turn, ingestVars, persistVars, history>>

(* Mutated: the reference revision of the approval is not compared.          *)
ReferenceGuarded == ToolOf(current).cls = "MUTATE" => Guarded

(* check_dispatch: a MUTATE is dispatched only at the reference revision it  *)
(* was approved at.  Every other class records a baseline instead.           *)
ReferenceHolds ==
  ToolOf(current).cls = "MUTATE" => Guarded /\ referenceRevision = frozen.reference

(* The one place where a call is charged and its request id spent.           *)
Dispatch ==
  /\ pc = "DISPATCH"
  /\ ReferenceHolds
  /\ before' = IF ToolOf(current).cls = "MUTATE" THEN NoRevision ELSE Reference
  /\ Charge({"tool_calls", "steps"})
  /\ requestIds' = requestIds \cup {Request.id}
  /\ Late(used["model_calls"])
  /\ pc' = "EXECUTING"
  /\ UNCHANGED <<shared, runStatus, known, feedback, output, errors, projected, turn,
                 batchVars, frozen, ingestVars, persistVars, overdrawn>>

DispatchDenied ==
  /\ pc = "DISPATCH"
  /\ ~ReferenceHolds \/ (Guarded /\ "GUARD" \in Faults)
  /\ DenyItem
  /\ UNCHANGED <<shared, runStatus, used, known, requestIds, output, errors, projected,
                 turn, sized, collected, ingestVars, persistVars, history>>

-----------------------------------------------------------------------------
(* executor.execute and its reconciliation.  The adapter may touch the       *)
(* reference world.  Unknown use is charged at the full reservation.         *)
Reserved == sized[current].draw
Actual(outcome) == IF outcome.kind = "BOUND" THEN outcome.actual ELSE Reserved

Execute(outcome) ==
  /\ used' = Reconcile(used, Reserved, Actual(outcome))
  /\ overdrawn' = overdrawn \cup
       {d \in DOMAIN used : Charged(Reserved, Actual(outcome), d) > Amount(Reserved, d)}
  /\ referenceRevision' \in {referenceRevision, referenceRevision + 1}
  /\ referenceRevision' <= MaxReference

(* A class that must not change the reference world has a baseline, and a    *)
(* different revision now fails the whole run.                               *)
ReferenceBreached ==
  /\ before # NoRevision
  /\ referenceRevision' # before \/ "GUARD" \in Faults

ExecutorReturns ==
  /\ pc = "EXECUTING"
  /\ \E outcome \in Outcomes[Request.tool] :
    /\ Execute(outcome)
    /\ \/ /\ ReferenceBreached
          /\ FailRun
       \/ /\ before # NoRevision => referenceRevision' = before
          /\ IF outcome.kind = "RAISED"
             THEN /\ DenyItem
                  /\ UNCHANGED collected
             ELSE /\ collected' = [collected EXCEPT ![current] =
                         [result |-> outcome, clean |-> ~Violates(Reserved, Actual(outcome))]]
                  /\ Proceed([work EXCEPT ![current] = "RETURNED"])
                  /\ frozen' = NoFrozen /\ before' = NoRevision
                  /\ UNCHANGED feedback
          /\ UNCHANGED <<runStatus, known, requestIds, output, errors, projected, turn,
                         sized, ingestVars, persistVars>>
  /\ UNCHANGED <<storeVars, late>>

-----------------------------------------------------------------------------
(* _ingest: verify at the current revision, then apply at that revision.     *)
Executed == collected[current].result

(* V0-V5 and the consumer hook.                                              *)
VerifyResult ==
  /\ pc = "VERIFY"
  /\ Verify(Executed, collected[current].clean, known)
  /\ revision' = storeRevision
  /\ pc' = "REVERIFY"
  /\ UNCHANGED <<shared, runVars, projected, turn, batchVars, dispatchVars, returned,
                 persistVars, history>>

(* Any rejection, of a stage, of the consumer or by an error, is final.      *)
ResultRejected ==
  /\ pc = "VERIFY"
  /\ EndIngest("FAILED", {"VERIFY_RESULT"})
  /\ UNCHANGED <<shared, runStatus, used, known, requestIds, output, errors, projected,
                 turn, sized, dispatchVars, persistVars, history>>

(* V6: the state did not change while the result was verified.               *)
VerifyRevision ==
  /\ pc = "REVERIFY"
  /\ \/ /\ storeRevision = revision
        /\ pc' = "APPLY"
        /\ UNCHANGED <<runVars, batchVars, ingestVars>>
     \/ /\ storeRevision # revision
        /\ EndIngest("FAILED", {"VERIFY_RESULT"})
        /\ UNCHANGED <<runStatus, used, known, requestIds, output, errors, sized>>
  /\ UNCHANGED <<shared, projected, turn, dispatchVars, persistVars, history>>

(* apply_batch, unless ingestion derived no delta.                           *)
Apply ==
  /\ pc = "APPLY"
  /\ IF Executed.deltas
     THEN /\ ApplyBatch(revision)
          /\ \/ returned' = revision + 1
             \/ "STORE" \in Faults /\ returned' = revision
     ELSE UNCHANGED storeVars /\ returned' = revision
  /\ pc' = "SETTLE"
  /\ UNCHANGED <<referenceRevision, runVars, projected, turn, batchVars, dispatchVars,
                 revision, persistVars, history>>

ApplyRejected ==
  /\ pc = "APPLY" /\ Executed.deltas
  /\ EndIngest("FAILED", {"RESULT_INGESTION"})
  /\ UNCHANGED <<shared, runStatus, used, known, requestIds, output, errors, projected,
                 turn, sized, dispatchVars, persistVars, history>>

(* The store must be where the ingestion left it; then, and only then, the   *)
(* references of the result become citable.                                  *)
Settle ==
  /\ pc = "SETTLE"
  /\ \/ /\ storeRevision = returned
        /\ known' = Citable(known, Executed.refs)
        /\ EndIngest("COMPLETED", {})
        /\ UNCHANGED <<runStatus, used, requestIds, output, errors, projected, turn,
                       sized, dispatchVars, persistVars>>
     \/ /\ storeRevision # returned
        /\ FailRun
        /\ UNCHANGED used
  /\ UNCHANGED <<shared, history>>

-----------------------------------------------------------------------------
(* FINISH_PROPOSAL: the structural checks, then the consumer's verdict.      *)
FinishAccepted ==
  /\ pc = "FINISH"
  /\ "verifier" \in Hooks
  /\ VerifyFinish(turn, known)
  /\ output' = TRUE /\ runStatus' = "DONE"
  /\ pc' = "PERSIST"
  /\ EndTurn
  /\ UNCHANGED <<shared, used, known, requestIds, feedback, errors, persistVars, history>>

FinishDenied ==
  /\ pc = "FINISH"
  /\ DenyTurn("MODEL_TURN")
  /\ UNCHANGED <<shared, used, history>>

(* A verifier that raises fails the run instead of denying the turn, and so  *)
(* does a structural check that raises (Schema says on which outputs).       *)
FinishRaises ==
  /\ pc = "FINISH"
  /\ "verifier" \in Hooks
  /\ FailRun
  /\ UNCHANGED <<shared, used, history>>

-----------------------------------------------------------------------------
(* _persist_terminal_status: read, read, transition, read, read.             *)
Persist ==
  /\ pc = "PERSIST"
  /\ revision' = storeRevision
  /\ pc' = "PRIOR"
  /\ UNCHANGED <<shared, runVars, projected, turn, batchVars, dispatchVars, returned,
                 persistVars, history>>

PriorStatus ==
  /\ pc = "PRIOR"
  /\ prior' = storeStatus
  /\ pc' = "TRANSITION"
  /\ UNCHANGED <<shared, runVars, projected, turn, batchVars, dispatchVars, ingestVars,
                 observed, result, history>>

(* Mutated: the failure is not recorded.                                     *)
PersistenceFailedQuietly ==
  runStatus' = "FAILED" /\ output' = FALSE /\ UNCHANGED errors

(* STATUS_PERSISTENCE_FAILED: no success is claimed, nothing is retried.     *)
PersistenceFailed ==
  /\ runStatus' = "FAILED" /\ output' = FALSE
  /\ errors' = errors \cup {"STATUS_PERSISTENCE_FAILED"}

Transition ==
  /\ pc = "TRANSITION"
  /\ TransitionStatus(runStatus, revision)
  /\ returned' = storeRevision'
  /\ pc' = "OBSERVE"
  /\ UNCHANGED <<referenceRevision, runVars, projected, turn, batchVars, dispatchVars,
                 revision, persistVars, history>>

(* A faulty store answers with any revision after any half of the change.    *)
TransitionMisbehaves ==
  /\ pc = "TRANSITION" /\ "STORE" \in Faults
  /\ FaultyTransition(runStatus)
  /\ returned' \in {storeRevision, storeRevision + 1}
  /\ pc' = "OBSERVE"
  /\ UNCHANGED <<referenceRevision, runVars, projected, turn, batchVars, dispatchVars,
                 revision, persistVars, history>>

(* transition_status raises: a stale or illegal request changed nothing, nor *)
(* did one that never reached the store; a faulty store may have.            *)
TransitionRaises ==
  /\ pc = "TRANSITION"
  /\ \/ /\ ~MayTransition(runStatus, revision) \/ "ACCESS" \in Faults
        /\ UNCHANGED storeVars
     \/ "STORE" \in Faults /\ FaultyTransition(runStatus)
  /\ PersistenceFailed
  /\ pc' = "REPORT"
  /\ UNCHANGED <<referenceRevision, used, known, requestIds, feedback, projected, turn,
                 batchVars, dispatchVars, ingestVars, persistVars, history>>

Observe ==
  /\ pc = "OBSERVE"
  /\ observed' = storeRevision
  /\ pc' = "CONFIRM"
  /\ UNCHANGED <<shared, runVars, projected, turn, batchVars, dispatchVars, ingestVars,
                 prior, result, history>>

(* Mutated: only the revisions are compared, not the status.                 *)
ConfirmedRevision ==
  returned = observed /\ ((returned = revision) <=> (prior = runStatus))

(* The postconditions of the transition.                                     *)
Confirmed ==
  /\ returned = observed
  /\ storeStatus = runStatus
  /\ (returned = revision) <=> (prior = runStatus)

Confirm ==
  /\ pc = "CONFIRM"
  /\ IF Confirmed THEN UNCHANGED <<runStatus, output, errors>> ELSE PersistenceFailed
  /\ pc' = "REPORT"
  /\ UNCHANGED <<shared, used, known, requestIds, feedback, projected, turn, batchVars,
                 dispatchVars, ingestVars, persistVars, history>>

Report ==
  /\ pc = "REPORT"
  /\ result' = [status |-> runStatus, revision |-> storeRevision,
                output |-> output, errors |-> errors]
  /\ pc' = "DONE"
  /\ UNCHANGED <<shared, runVars, projected, turn, batchVars, dispatchVars, ingestVars,
                 prior, observed, history>>

-----------------------------------------------------------------------------
(* The store cannot be reached, and the access of the run raises.            *)

(* Outside every try block, and in the handler of a failed transition, the   *)
(* exception leaves run(): there is no result.                               *)
RunRaises ==
  /\ pc \in {"TASK", "HEAD", "PERSIST", "PRIOR", "TRANSITION", "OBSERVE", "CONFIRM", "REPORT"}
  /\ "ACCESS" \in Faults
  /\ pc' = "RAISED"
  /\ UNCHANGED <<shared, runVars, projected, turn, batchVars, dispatchVars, ingestVars,
                 persistVars, history>>

(* In the loop the run fails,                                                *)
AccessFailsRun ==
  /\ pc \in {"PROJECTED", "GENERATE", "SETTLE", "FINISH"}
  /\ pc = "FINISH" => "verifier" \in Hooks
  /\ "ACCESS" \in Faults
  /\ FailRun
  /\ UNCHANGED <<shared, used, history>>

(* before dispatch the request is denied: a gate that cannot decide denies,  *)
AccessDeniesItem ==
  /\ pc \in {"AUTHORIZE", "RECHECK"}
  /\ "ACCESS" \in Faults
  /\ DenyItem
  /\ UNCHANGED <<shared, runStatus, used, known, requestIds, output, errors, projected,
                 turn, sized, collected, ingestVars, persistVars, history>>

(* in verification the result is rejected,                                   *)
AccessRejectsResult ==
  /\ pc = "REVERIFY"
  /\ "ACCESS" \in Faults
  /\ EndIngest("FAILED", {"VERIFY_RESULT"})
  /\ UNCHANGED <<shared, runStatus, used, known, requestIds, output, errors, projected,
                 turn, sized, dispatchVars, persistVars, history>>

(* and after the transition nothing is known of it.                          *)
AccessHidesTransition ==
  /\ pc \in {"OBSERVE", "CONFIRM"}
  /\ "ACCESS" \in Faults
  /\ PersistenceFailed
  /\ pc' = "REPORT"
  /\ UNCHANGED <<shared, used, known, requestIds, feedback, projected, turn, batchVars,
                 dispatchVars, ingestVars, persistVars, history>>

-----------------------------------------------------------------------------
ModelTurn == TurnFails \/ TurnDenied \/ UpdateRejected \/ TurnAccepted
Preflight == PreflightTool \/ PreflightBatch \/ Wave \/ BatchSettled
Gate      == Authorize \/ Bind \/ BindDenied \/ Recheck \/ Dispatch \/ DispatchDenied
Ingest    == VerifyResult \/ ResultRejected \/ VerifyRevision \/ Apply \/ ApplyRejected
               \/ Settle
Finish    == FinishAccepted \/ FinishDenied \/ FinishRaises
Conclude  == Persist \/ PriorStatus \/ Transition \/ TransitionMisbehaves
               \/ TransitionRaises \/ Observe \/ Confirm \/ Report

Outage    == RunRaises \/ AccessFailsRun \/ AccessDeniesItem \/ AccessRejectsResult
               \/ AccessHidesTransition

Run == Start \/ LoopHead \/ Project \/ Projected \/ ModelTurn \/ Preflight \/ Gate
         \/ ExecutorReturns \/ Ingest \/ Finish \/ Conclude \/ Outage

(* Other actors may move whether or not the run is over.                     *)
Others == Environment /\ UNCHANGED local

Returned == pc \in {"DONE", "RAISED"} /\ UNCHANGED vars

Next == Run \/ Others \/ Returned

Spec == Init /\ [][Next]_vars

(* The run is one sequential call: as long as it can take its next step, it  *)
(* eventually does.  Nothing obliges the other actors to move.               *)
FairSpec == Spec /\ WF_vars(Run)

-----------------------------------------------------------------------------
(* Every variable has its type.                                              *)
RunTypeOK ==
  /\ pc \in Locations /\ runStatus \in Statuses
  /\ used \in [DOMAIN Quota -> Nat]
  /\ known \subseteq Refs
  /\ requestIds \subseteq Nat /\ IsFiniteSet(requestIds)
  /\ feedback \subseteq Stages
  /\ output \in BOOLEAN /\ errors \subseteq ErrorKinds
  /\ overdrawn \subseteq DOMAIN Quota
  /\ late \subseteq Nat

TurnTypeOK ==
  /\ projected \in Revisions
  /\ turn \in Turns \cup {NoTurn}
  /\ work \in [WorkIds -> ItemStates]
  /\ DOMAIN sized = WorkIds /\ \A k \in WorkIds : IsDraw(sized[k].draw)
  /\ DOMAIN collected = WorkIds
  /\ \A k \in WorkIds : Declared(collected[k].result.refs) \subseteq Refs
  /\ current \in WorkIds \cup {0}
  /\ frozen \in [state : Revisions, reference : Revisions, approved : BOOLEAN]
  /\ before \in Revisions /\ revision \in Revisions /\ returned \in Revisions

ReportTypeOK ==
  /\ observed \in Revisions /\ prior \in Statuses
  /\ result \in [status : Statuses, revision : Revisions, output : BOOLEAN,
                 errors : SUBSET ErrorKinds]

TypeOK == StoreTypeOK /\ RunTypeOK /\ TurnTypeOK /\ ReportTypeOK

-----------------------------------------------------------------------------
(* Safety.                                                                   *)

(* No quota is ever exceeded, except a dimension for which some executed     *)
(* result admitted, or hid, more use than was reserved (_charge,             *)
(* check_budget and reconcile agree).  The standard counters never are.      *)
BudgetRespected ==
  /\ overdrawn \cap Standard = {}
  /\ \A d \in DOMAIN Quota \ overdrawn : used[d] <= Quota[d]

(* Every dispatch spends a request id of its own and is charged once, as a   *)
(* tool call and as a step; the only other steps are state updates, at most  *)
(* one per model call (_execute, _update).                                   *)
DispatchesAccounted ==
  /\ used["tool_calls"] = Cardinality(requestIds)
  /\ used["tool_calls"] <= used["steps"]
  /\ used["steps"] <= used["tool_calls"] + used["model_calls"]

(* The cumulative preflight of a batch stays good to its last item: what is  *)
(* still to be dispatched fits beside what was charged, in every dimension   *)
(* that no result overdrew (_validate_batch, reconcile).                     *)
Undispatched == {k \in WorkIds : work[k] \in {"PENDING", "READY"}}

BatchReservationHolds ==
  turn.action = "WORK_BATCH" /\ pc # "BATCH" =>
    LET waiting == IF pc = "EXECUTING" THEN Undispatched \ {current} ELSE Undispatched
        draws   == [k \in WorkIds |-> sized[k].draw]
    IN /\ used["tool_calls"] + Cardinality(waiting) <= Quota["tool_calls"]
       /\ used["steps"] + Cardinality(waiting) <= Quota["steps"]
       /\ \A d \in DOMAIN Quota \ (overdrawn \cup Standard) :
            used[d] + Total(draws, Undispatched, d) <= Quota[d]

(* What runs is what was granted: when the executor is called, the tool is   *)
(* allowed by task and policy, its class is granted and is not ADMIN, every  *)
(* reference it cites is a known Agent-visible one, a MUTATE was approved,   *)
(* and what it may draw beside its call and its step is still in the quota   *)
(* of every dimension that no result overdrew.  A request that is about to   *)
(* be dispatched has an id that never was, in this turn or an earlier one,   *)
(* though its id was looked at before the other items of its batch ran       *)
(* (G0-G3 over all the hooks, _request_supported, _validate_batch).          *)
ExecutingIsAuthorized ==
  /\ pc = "DISPATCH" => Request.id \notin requestIds
  /\ pc = "EXECUTING" =>
       /\ Request.tool \in AllowedTools \cap Policy.tools
       /\ ToolOf(current).cls \in Policy.classes \ {"ADMIN"}
       /\ ToolOf(current).cls \in Policy.approval => frozen.approved
       /\ \A r \in Request.refs : r \in known /\ r.vis = "AGENT"
       /\ \A d \in DOMAIN Quota \ (overdrawn \cup Standard) :
            used[d] + Amount(Reserved, d) <= Quota[d]

(* The dependencies decide what runs: an item is executed only after all its *)
(* dependencies completed, and is skipped only if one did not (_batch).      *)
DependenciesDecide ==
  \A k \in WorkIds :
    /\ work[k] \in {"READY", "RETURNED", "COMPLETED", "FAILED"} =>
         \A d \in turn.items[k].deps : work[d] = "COMPLETED"
    /\ work[k] = "SKIPPED_DEPENDENCY" =>
         \E d \in turn.items[k].deps : work[d] \in {"FAILED", "SKIPPED_DEPENDENCY"}

(* A wave is collected completely before any of it is ingested, and it is    *)
(* ingested in lexical order (OQ-3, INGESTION_ORDER_POLICY).                 *)
WaveOrder ==
  pc \in {"VERIFY", "REVERIFY", "APPLY", "SETTLE"} =>
    /\ In(work, "READY") = {}
    /\ work[current] = "RETURNED"
    /\ \A k \in In(work, "RETURNED") : current <= k

(* What the Agent may cite is Agent-visible, and an id never means two       *)
(* things: no two citable references share one, and nothing that came with a *)
(* result has the id of a context reference, citable, hidden or dropped from *)
(* the dictionaries (check_refs over both of them, then setdefault).         *)
KnownRefsSound ==
  \A r \in known :
    /\ r.vis = "AGENT"
    /\ \A s \in known : s.id = r.id => s = r
    /\ r \in InitiallyKnown \/ r.id \notin Ids(Declared(ContextRefs))

(* The result does not claim more than the store holds: a status other than  *)
(* the stored one is a FAILED that says STATUS_PERSISTENCE_FAILED, and       *)
(* output comes only with DONE (_persist_terminal_status).                   *)
ResultMatchesStore ==
  pc = "DONE" =>
    /\ result.status # storeStatus =>
         result.status = "FAILED" /\ "STATUS_PERSISTENCE_FAILED" \in result.errors
    /\ result.output => result.status = "DONE"

(* Every outcome has its reason: DONE an accepted finish, FAILED an error,   *)
(* EXHAUSTED an exhausted counter, unless the store held it before the run   *)
(* tried to persist it, so that another actor answers for it (run,           *)
(* _persist_terminal_status).                                                *)
ResultExplained ==
  pc = "DONE" =>
    \/ result.status = prior
    \/ result.status = "DONE" /\ result.output
    \/ result.status = "FAILED" /\ result.errors # {}
    \/ /\ result.status = "EXHAUSTED"
       /\ \E d \in {"model_calls", "steps"} : used[d] = Quota[d]

(* What is still called, dispatched and charged after another actor made the *)
(* task terminal belongs to one turn, the one whose loop head was past (run, *)
(* _batch, _execute).                                                        *)
LateWorkBounded == \A m, n \in late : m = n

-----------------------------------------------------------------------------
(* Action properties.                                                        *)

(* The run writes the store only at the revision its judgement was made at:  *)
(* a model update at the revision of its projection, an ingestion at the     *)
(* revision that was verified, a transition at the revision it read.         *)
JudgedAt == CASE pc = "GENERATE" -> projected
              [] pc \in {"APPLY", "TRANSITION"} -> revision
              [] OTHER -> NoRevision

WritesAreBound ==
  [][pc' # pc /\ storeRevision' # storeRevision => storeRevision = JudgedAt]_vars

(* What a request, a batch or a finish came to is never silent: whenever one *)
(* gives the turn back to the loop, or a projection is denied, the model     *)
(* will be told.  A turn whose model call ends it, one without an action     *)
(* among them, is not spoken of here.                                        *)
NoSilentTurn ==
  [][pc' = "HEAD" /\ pc \notin {"TASK", "GENERATE", "HEAD"} => feedback' # {}]_vars

(* Nothing of a turn is left half done: when the turn is over its items were *)
(* all settled, or none was begun, unless the whole run failed, which is the *)
(* only thing that drops collected results (_batch, _ingest).                *)
ResultsSettled ==
  [][turn # NoTurn /\ turn' = NoTurn /\ runStatus' # "FAILED" =>
       \/ \A k \in WorkIds : work[k] = "ABSENT"
       \/ \A k \in DOMAIN turn.items : work[k] \in Settled]_vars

(* An overdrawn dimension closes the door to every later batch, whatever its *)
(* items draw: a zero request exceeds a negative remainder.                  *)
OverdraftBlocksBatches ==
  [][pc = "BATCH" /\ pc' = "WAVE" => \A d \in DOMAIN Quota : used[d] <= Quota[d]]_vars

(* The reference world belongs to approved MUTATEs: such a call starts only  *)
(* at the reference revision it was approved at, and any other call that     *)
(* returns to a changed reference world ends the run (check_dispatch,        *)
(* _execute).                                                                *)
ReferenceDiscipline ==
  [][Guarded =>
      /\ pc # "EXECUTING" /\ pc' = "EXECUTING" /\ ToolOf(current)'.cls = "MUTATE" =>
           referenceRevision = frozen'.reference
      /\ pc = "EXECUTING" /\ pc' # pc /\ ToolOf(current).cls # "MUTATE"
           /\ referenceRevision' # before => runStatus' = "FAILED"]_vars

-----------------------------------------------------------------------------
(* Progress.  What the run has left, in the order in which it counts: the    *)
(* model calls; what other actors may still do to a projection, or have done *)
(* to the present one; the way to the end of the turn and of the run; how    *)
(* far the items are from being settled; the way of the item at hand.        *)
TurnWay == [TASK |-> 12, GENERATE |-> 12, TOOL |-> 11, BATCH |-> 11, FINISH |-> 10,
            HEAD |-> 9, PROJECT |-> 8, PROJECTED |-> 7, PERSIST |-> 6, PRIOR |-> 5,
            TRANSITION |-> 4, OBSERVE |-> 3, CONFIRM |-> 2, REPORT |-> 1, DONE |-> 0,
            RAISED |-> 0]
ItemWay == [WAVE |-> 0, AUTHORIZE |-> 5, BIND |-> 4, RECHECK |-> 3, DISPATCH |-> 2,
            EXECUTING |-> 1, VERIFY |-> 4, REVERIFY |-> 3, APPLY |-> 2, SETTLE |-> 1]

Disturbances ==
  (IF storeRevision < MaxRevision THEN MaxRevision - storeRevision ELSE 0)
  + (IF Stopped THEN 0 ELSE 1)
  + (IF pc = "PROJECTED" /\ projected # storeRevision THEN 1 ELSE 0)

Among(states) == {k \in WorkIds : work[k] \in states}
Unsettled == Cardinality(Among({"PENDING"})) + Cardinality(Among({"PENDING", "READY"}))
               + Cardinality(Among({"PENDING", "READY", "RETURNED"}))

TurnLeft == IF pc \in DOMAIN ItemWay THEN 10 ELSE TurnWay[pc]
ItemLeft == IF pc \in DOMAIN ItemWay THEN ItemWay[pc] ELSE 0

Left == <<Remaining(used, "model_calls"), Disturbances, TurnLeft, Unsettled, ItemLeft>>

(* The lexicographic order.                                                  *)
Below(a, b) == \E i \in DOMAIN b : a[i] < b[i] /\ \A j \in 1..(i - 1) : a[j] = b[j]

(* Every step of the run leaves it less to do, and no step of another actor  *)
(* leaves it more: neither the turn loop nor the wave loop nor a denial can  *)
(* go round without using something up, unless the projection itself is      *)
(* faulty (run, _project, _batch, _execute, _ingest).  A loop that went      *)
(* round with nothing changed would be a stutter, of which an action         *)
(* property says nothing: Termination does.                                  *)
RunAdvances ==
  [][ "PROJECTION" \notin Faults =>
        IF UNCHANGED local THEN ~Below(Left, Left') ELSE Below(Left', Left)]_vars

-----------------------------------------------------------------------------
(* Liveness and claims of the documents.                                     *)

(* "Every task terminates by success, explicit failure, cancellation, or     *)
(* exhaustion" (docs/specs/runtime-v0.md): run() returns, or raises because  *)
(* the store cannot be reached.                                              *)
Termination == <>(pc = "DONE" \/ ("ACCESS" \in Faults /\ pc = "RAISED"))

(* "If persistence fails or postconditions disagree, stop fail-closed:       *)
(* return a runtime FAILED result" (docs/specs/runtime-v0.md): once the run  *)
(* set out to persist its status, it returns a result.                       *)
PersistenceFailureReturns == pc = "PERSIST" ~> pc = "DONE"

(* "Execution MUST reject the operation if that state changed between        *)
(* validation and application" (docs/specs/deterministic-gates-v0.md): a     *)
(* MUTATE result is returned only if the reference world was, when the       *)
(* executor applied it, at the revision the request was bound to.            *)
MutateAppliedAsValidated ==
  [][/\ pc = "EXECUTING" /\ pc' # pc
     /\ ToolOf(current).cls = "MUTATE"
     /\ referenceRevision' # referenceRevision
     => referenceRevision = frozen.reference]_vars
=============================================================================
