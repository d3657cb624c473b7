------------------------- MODULE CoordinatorDispatch -------------------------
(***************************************************************************)
(* What is dispatched, how it is counted, and in which order a batch runs, *)
(* proved for every value of the constants of Coordinator.                 *)
(***************************************************************************)
EXTENDS CoordinatorSafety

(* What happens to the items of a turn.  An item leaves the turn's waiting   *)
(* only forwards; the steps that are not about items leave all this alone,   *)
(* or end the turn.                                                          *)
Begun == {"WAVE"} \cup Acting \cup Ingesting

(* The steps after which no item is left, and the ones that move none.       *)
NoItems    == \A k \in WorkIds : work[k] = "ABSENT"
ItemsStill == UNCHANGED <<turn, work, current>>

LEMMA EndTurnEmpties == EndTurn => NoItems'
  BY DEF EndTurn, NoWork, NoItems

(* Where a step that is not about items ends.                                *)
LEMMA Elsewhere ==
  ASSUME TypeInv, \/ Start \/ LoopHead \/ Project \/ Projected \/ ModelTurn
                  \/ Finish \/ Conclude
  PROVE  \/ NoItems' /\ pc' \notin Begun /\ UNCHANGED requestIds
         \/ ItemsStill /\ pc \notin Begun /\ pc' \notin Begun /\ UNCHANGED requestIds
<1>1. CASE Start \/ LoopHead \/ Project \/ Projected
  BY <1>1, EndTurnEmpties DEF Start, LoopHead, Project, Projected, DenyTurn, ItemsStill, Begun,
     Acting, Ingesting, runVars, batchVars
<1>2. CASE ModelTurn
  <2>1. CASE TurnAccepted
    <3>1. PICK t \in Turns : /\ pc' = Route[t.action]
                             /\ IF t.action = "NONE" THEN EndTurn ELSE UNCHANGED batchVars
      BY <2>1 DEF TurnAccepted
    <3>2. pc' \in {"HEAD", "TOOL", "BATCH", "FINISH"}
      BY <3>1, CoordinatorAssumption DEF CoordinatorAssumption, Route
    <3>3. UNCHANGED requestIds /\ pc = "GENERATE"
      BY <2>1 DEF TurnAccepted
    <3>4. NoItems
      BY <3>3 DEF TypeInv, Placed, Idle, NoItems
    <3>5. NoItems'
      BY <3>1, <3>4, EndTurnEmpties DEF NoItems, batchVars
    <3> QED
      BY <3>2, <3>3, <3>5 DEF Begun, Acting, Ingesting
  <2>2. CASE TurnFails \/ TurnDenied \/ UpdateRejected
    BY <2>2, EndTurnEmpties DEF TurnFails, TurnDenied, UpdateRejected, FailRun, DenyTurn, Begun,
       Acting, Ingesting
  <2> QED
    BY <1>2, <2>1, <2>2 DEF ModelTurn
<1>3. CASE Finish
  BY <1>3, EndTurnEmpties DEF Finish, FinishAccepted, FinishDenied, FinishRaises, FailRun,
     DenyTurn, Begun, Acting, Ingesting
<1>4. CASE Conclude
  BY <1>4 DEF Conclude, Persist, PriorStatus, Transition, TransitionMisbehaves,
     TransitionRaises, Observe, Confirm, Report, ItemsStill, Begun, Acting, Ingesting, runVars,
     batchVars
<1> QED
  BY <1>1, <1>2, <1>3, <1>4

(* A step of an item at hand: what becomes of it.                            *)
Moves(states) ==
  \E st \in states : Proceed([work EXCEPT ![current] = st]) /\ UNCHANGED turn

(* The steps of a begun turn either end it, keep its items still, plan a     *)
(* wave, or move one item on.                                                *)
LEMMA ItemSteps ==
  ASSUME TypeInv, Gate \/ ExecutorReturns \/ Ingest \/ Outage
  PROVE  \/ NoItems' /\ pc' \notin Begun /\ UNCHANGED requestIds
         \/ ItemsStill /\ Dispatch
         \/ ItemsStill /\ pc \notin Begun /\ pc' \notin Begun /\ UNCHANGED requestIds
         \/ /\ ItemsStill /\ UNCHANGED requestIds
            /\ \/ pc \in Acting \ {"EXECUTING"} /\ pc' \in Acting \ {"EXECUTING"}
               \/ pc \in Ingesting /\ pc' \in Ingesting
         \/ pc \in Acting /\ Moves({"RETURNED", "FAILED"}) /\ UNCHANGED requestIds
         \/ pc \in Ingesting /\ Moves({"COMPLETED", "FAILED"}) /\ UNCHANGED requestIds
<1>1. CASE Gate
  <2>1. CASE Dispatch
    BY <2>1 DEF Dispatch, ItemsStill, batchVars
  <2>2. CASE Authorize \/ Bind \/ Recheck
    BY <2>2 DEF Authorize, Bind, Recheck, DenyItem, Moves, ItemsStill, Acting, runVars, batchVars
  <2>3. CASE BindDenied \/ DispatchDenied
    BY <2>3 DEF BindDenied, DispatchDenied, DenyItem, Moves, Acting
  <2> QED
    BY <1>1, <2>1, <2>2, <2>3 DEF Gate
<1>2. CASE ExecutorReturns
  <2>1. CASE FailRun
    BY <1>2, <2>1, EndTurnEmpties DEF FailRun, Begun, Acting, Ingesting
  <2>2. CASE ~FailRun
    BY <1>2, <2>2 DEF ExecutorReturns, DenyItem, Moves, Acting
  <2> QED
    BY <2>1, <2>2
<1>3. CASE Ingest
  <2>1. CASE FailRun
    BY <1>3, <2>1, EndTurnEmpties DEF FailRun, Begun, Acting, Ingesting
  <2>2. CASE VerifyResult \/ Apply
    BY <2>2 DEF VerifyResult, Apply, ItemsStill, Ingesting, runVars, batchVars
  <2>3. CASE VerifyRevision
    BY <2>3 DEF VerifyRevision, EndIngest, Moves, ItemsStill, Ingesting, runVars, batchVars
  <2>4. CASE ResultRejected \/ ApplyRejected
    BY <2>4 DEF ResultRejected, ApplyRejected, EndIngest, Moves, Ingesting
  <2>5. CASE Settle /\ ~FailRun
    BY <2>5 DEF Settle, EndIngest, Moves, Ingesting
  <2> QED
    BY <1>3, <2>1, <2>2, <2>3, <2>4, <2>5 DEF Ingest
<1>4. CASE Outage
  <2>1. CASE RunRaises \/ AccessHidesTransition
    BY <2>1 DEF RunRaises, AccessHidesTransition, ItemsStill, Begun, Acting, Ingesting, runVars,
       batchVars
  <2>2. CASE AccessFailsRun
    BY <2>2, EndTurnEmpties DEF AccessFailsRun, FailRun, Begun, Acting, Ingesting
  <2>3. CASE AccessDeniesItem
    BY <2>3 DEF AccessDeniesItem, DenyItem, Moves, Acting
  <2>4. CASE AccessRejectsResult
    BY <2>4 DEF AccessRejectsResult, EndIngest, Moves, Ingesting
  <2> QED
    BY <1>4, <2>1, <2>2, <2>3, <2>4 DEF Outage
<1> QED
  BY <1>1, <1>2, <1>3, <1>4

(* What moving the current item does to the others.                          *)
LEMMA MovesOne ==
  ASSUME TypeInv, NEW states, states \subseteq ItemStates, Moves(states), current \in WorkIds
  PROVE  /\ turn' = turn
         /\ pc' \in {"AUTHORIZE", "VERIFY", "WAVE"}
         /\ \E st \in states :
              \A k \in WorkIds : work'[k] = IF k = current THEN st ELSE work[k]
<1>1. PICK st \in states : Proceed([work EXCEPT ![current] = st]) /\ UNCHANGED turn
  BY DEF Moves
<1>2. work \in [WorkIds -> ItemStates]
  BY DEF TypeInv, TypeOK, TurnTypeOK
<1>3. work' = [k \in WorkIds |-> IF k = current THEN st ELSE work[k]]
  BY <1>1, <1>2 DEF Proceed
<1>4. pc' \in {"AUTHORIZE", "VERIFY", "WAVE"}
  BY <1>1 DEF Proceed
<1> QED
  BY <1>1, <1>3, <1>4

LEMMA CurrentItem ==
  ASSUME TypeInv, pc \in Acting \cup Ingesting
  PROVE  /\ current \in WorkIds
         /\ pc \in Acting => work[current] = "READY"
         /\ pc \in Ingesting => work[current] = "RETURNED"
  BY DEF TypeInv, Placed

-----------------------------------------------------------------------------
(* At most once.  What waits to be dispatched has ids of its own that were   *)
(* never dispatched; the item that is executing has just spent its own.      *)
Waiting == IF pc = "EXECUTING" THEN Undispatched \ {current} ELSE Undispatched

Fresh ==
  /\ \A k \in Waiting : turn.items[k].request.id \notin requestIds
  /\ \A j, k \in Undispatched : turn.items[j].request.id = turn.items[k].request.id => j = k

LEMMA FreshEmpty == NoItems' => Fresh'
  BY DEF NoItems, Fresh, Waiting, Undispatched

LEMMA FreshStill ==
  ASSUME Fresh, ItemsStill, UNCHANGED requestIds, pc # "EXECUTING", pc' # "EXECUTING"
  PROVE  Fresh'
  BY DEF Fresh, Waiting, Undispatched, ItemsStill

LEMMA FreshMoves ==
  ASSUME TypeInv, Fresh, NEW states, states \subseteq Settled \cup {"RETURNED"},
         pc \in Acting \cup Ingesting, Moves(states), UNCHANGED requestIds
  PROVE  Fresh'
<1>1. states \subseteq ItemStates /\ states \cap {"PENDING", "READY"} = {}
  BY DEF ItemStates, Settled
<1>2. current \in WorkIds
  BY CurrentItem
<1>3. /\ turn' = turn /\ pc' # "EXECUTING"
      /\ \E st \in states : \A k \in WorkIds : work'[k] = IF k = current THEN st ELSE work[k]
  BY <1>1, <1>2, MovesOne
<1>4. Undispatched' \subseteq Undispatched \ {current}
  BY <1>1, <1>3 DEF Undispatched
<1> QED
  BY <1>3, <1>4 DEF Fresh, Waiting

LEMMA FreshDispatch ==
  ASSUME TypeInv, Fresh, Dispatch
  PROVE  Fresh' /\ Request.id \notin requestIds
<1>1. /\ pc = "DISPATCH" /\ pc' = "EXECUTING" /\ UNCHANGED <<turn, work, current>>
      /\ requestIds' = requestIds \cup {Request.id}
  BY DEF Dispatch, batchVars
<1>2. current \in Undispatched
  BY <1>1, CurrentItem DEF Acting, Undispatched
<1>3. \A k \in Undispatched : turn.items[k].request.id \notin requestIds
  BY <1>1 DEF Fresh, Waiting
<1>4. \A k \in Undispatched \ {current} : turn.items[k].request.id # Request.id
  BY <1>2 DEF Fresh, Request
<1>5. Undispatched' = Undispatched /\ Waiting' = Undispatched \ {current}
  BY <1>1 DEF Undispatched, Waiting
<1> QED
  BY <1>1, <1>2, <1>3, <1>4, <1>5 DEF Fresh, Request

LEMMA FreshPreflight ==
  ASSUME TypeInv, Fresh, Preflight
  PROVE  Fresh'
<1>1. CASE PreflightTool
  <2>1. CASE EndTurn
    BY <2>1, EndTurnEmpties, FreshEmpty
  <2>2. CASE ~EndTurn
    <3>1. PICK k \in DOMAIN turn.items :
            /\ Supported(turn.items[k].request) # {}
            /\ pc' = "AUTHORIZE" /\ current' = k
            /\ work' = [work EXCEPT ![k] = "READY"]
            /\ UNCHANGED <<runVars, turn>>
      BY <1>1, <2>2 DEF PreflightTool, DenyTurn
    <3>2. \A j \in WorkIds : work[j] = "ABSENT"
      BY <1>1 DEF PreflightTool, TypeInv, Placed, Idle
    <3>3. turn.items[k].request.id \notin requestIds
      BY <3>1 DEF Supported
    <3>4. Undispatched' \subseteq {k}
      BY <3>1, <3>2 DEF Undispatched, TypeInv, TypeOK, TurnTypeOK
    <3> QED
      BY <3>1, <3>3, <3>4 DEF Fresh, Waiting, runVars
  <2> QED
    BY <2>1, <2>2
<1>2. CASE PreflightBatch
  <2>1. CASE EndTurn
    BY <2>1, EndTurnEmpties, FreshEmpty
  <2>2. CASE ~EndTurn
    <3>1. PICK s \in Preflights :
            /\ ValidBatch(turn, s) /\ pc' = "WAVE"
            /\ work' = [k \in WorkIds |-> IF k \in DOMAIN s THEN "PENDING" ELSE "ABSENT"]
            /\ UNCHANGED <<runVars, turn>>
      BY <1>2, <2>2 DEF PreflightBatch, DenyTurn
    <3>2. DOMAIN s = DOMAIN turn.items
          /\ \A k \in DOMAIN s : s[k] \in Supported(turn.items[k].request)
      BY PreflightsTyped
    <3>3. \A k \in DOMAIN s : turn.items[k].request.id \notin requestIds
      BY <3>2 DEF Supported
    <3>4. Undispatched' \subseteq DOMAIN turn.items
      BY <3>1, <3>2 DEF Undispatched
    <3>5. \A j, k \in DOMAIN turn.items :
            turn.items[j].request.id = turn.items[k].request.id => j = k
      BY <3>1 DEF ValidBatch
    <3> QED
      BY <3>1, <3>2, <3>3, <3>4, <3>5 DEF Fresh, Waiting, runVars
  <2> QED
    BY <2>1, <2>2
<1>3. CASE Wave
  <2>1. Undispatched' \subseteq Undispatched /\ pc # "EXECUTING" /\ pc' # "EXECUTING"
        /\ UNCHANGED <<requestIds, turn>>
    BY <1>3 DEF Wave, Proceed, Undispatched, Planned, In, runVars
  <2> QED
    BY <2>1 DEF Fresh, Waiting
<1>4. CASE BatchSettled
  BY <1>4, EndTurnEmpties, FreshEmpty DEF BatchSettled
<1> QED
  BY <1>1, <1>2, <1>3, <1>4 DEF Preflight

LEMMA FreshStep == TypeInv /\ Fresh /\ [Next]_vars => Fresh'
<1> SUFFICES ASSUME TypeInv, Fresh, [Next]_vars PROVE Fresh'
  OBVIOUS
<1>1. CASE Start \/ LoopHead \/ Project \/ Projected \/ ModelTurn \/ Finish \/ Conclude
  BY <1>1, Elsewhere, FreshEmpty, FreshStill DEF Begun, Acting
<1>2. CASE Preflight
  BY <1>2, FreshPreflight
<1>3. CASE Gate \/ ExecutorReturns \/ Ingest \/ Outage
  <2>1. {"RETURNED", "FAILED"} \subseteq Settled \cup {"RETURNED"}
        /\ {"COMPLETED", "FAILED"} \subseteq Settled \cup {"RETURNED"}
        /\ "EXECUTING" \in Begun /\ "EXECUTING" \notin Ingesting
    BY DEF Settled, Begun, Acting, Ingesting
  <2> QED
    BY <1>3, <2>1, ItemSteps, FreshEmpty, FreshStill, FreshMoves, FreshDispatch
<1>4. CASE Others \/ Returned \/ UNCHANGED vars
  BY <1>4 DEF Others, Returned, vars, local, runVars, batchVars, Fresh, Waiting, Undispatched
<1> QED
  BY <1>1, <1>2, <1>3, <1>4 DEF Next, Run

-----------------------------------------------------------------------------
(* Counting.  A model call is charged before its state update can be, so     *)
(* there is always room for that step.                                       *)
Accounted ==
  /\ DispatchesAccounted
  /\ pc = "GENERATE" => used["steps"] < used["tool_calls"] + used["model_calls"]

LEMMA AccountedInit == Init => Accounted
<1> SUFFICES ASSUME Init PROVE Accounted
  OBVIOUS
<1>1. used["tool_calls"] = 0 /\ used["steps"] = 0 /\ used["model_calls"] = 0
  BY GatesAssumption DEF Init, GatesAssumption, Standard
<1>2. Cardinality(requestIds) = 0
  BY FS_EmptySet DEF Init
<1> QED
  BY <1>1, <1>2 DEF Accounted, DispatchesAccounted, Init

LEMMA AccountedQuiet ==
  ASSUME Accounted, UNCHANGED <<used, requestIds>>, pc' # "GENERATE"
  PROVE  Accounted'
  BY DEF Accounted, DispatchesAccounted

(* The charges of the three counters.                                        *)
LEMMA CountersCharged ==
  ASSUME TypeInv, NEW dims, Charge(dims)
  PROVE  \A d \in {"tool_calls", "steps", "model_calls"} :
           /\ used[d] \in Nat
           /\ used'[d] = IF d \in dims THEN used[d] + 1 ELSE used[d]
  BY QuotaTyped DEF Charge

LEMMA AccountedStep == TypeInv /\ Fresh /\ Accounted /\ [Next]_vars => Accounted'
<1> SUFFICES ASSUME TypeInv, Fresh, Accounted, [Next]_vars PROVE Accounted'
  OBVIOUS
<1>1. CASE Projected
  <2>1. CASE UNCHANGED <<used, requestIds>> /\ pc' # "GENERATE"
    BY <2>1, AccountedQuiet
  <2>2. CASE Charge({"model_calls"}) /\ UNCHANGED requestIds
    BY <2>2, CountersCharged DEF Accounted, DispatchesAccounted
  <2> QED
    BY <1>1, <2>1, <2>2 DEF Projected, DenyTurn
<1>2. CASE ModelTurn
  <2>0. UNCHANGED requestIds /\ pc' # "GENERATE"
    <3>1. ASSUME NEW t \in Turns PROVE Route[t.action] # "GENERATE"
      BY CoordinatorAssumption DEF CoordinatorAssumption, Route
    <3> QED
      BY <1>2, <3>1 DEF ModelTurn, TurnFails, TurnDenied, UpdateRejected, TurnAccepted, FailRun,
         DenyTurn
  <2>1. CASE UNCHANGED used
    BY <2>0, <2>1, AccountedQuiet
  <2>2. CASE pc = "GENERATE" /\ Charge({"steps"})
    BY <2>0, <2>2, CountersCharged DEF Accounted, DispatchesAccounted
  <2> QED
    BY <1>2, <2>1, <2>2 DEF ModelTurn, TurnFails, TurnDenied, UpdateRejected, TurnAccepted
<1>3. CASE Dispatch
  <2>1. /\ requestIds' = requestIds \cup {Request.id} /\ pc' = "EXECUTING"
        /\ Charge({"tool_calls", "steps"})
    BY <1>3 DEF Dispatch
  <2>2. Request.id \notin requestIds /\ IsFiniteSet(requestIds)
    BY <1>3, FreshDispatch DEF TypeInv, TypeOK, RunTypeOK
  <2>3. Cardinality(requestIds') = Cardinality(requestIds) + 1
    BY <2>1, <2>2, FS_AddElement
  <2> QED
    BY <2>1, <2>3, CountersCharged DEF Accounted, DispatchesAccounted
<1>4. CASE ExecutorReturns
  <2>1. PICK outcome \in Outcomes[Request.tool] : Execute(outcome)
    BY <1>4 DEF ExecutorReturns
  <2>2. pc' # "GENERATE" /\ UNCHANGED requestIds
    BY <1>4 DEF ExecutorReturns, FailRun, DenyItem, Proceed
  <2>3. \A d \in Standard : used'[d] = used[d]
    <3>1. \A d \in Standard : used[d] \in Nat /\ d \in DOMAIN used
      BY QuotaTyped
    <3> QED
      BY <2>1, <3>1 DEF Execute, Reconcile, Charged
  <2> QED
    BY <2>2, <2>3 DEF Accounted, DispatchesAccounted, Standard
<1>5. CASE Start \/ LoopHead \/ Project \/ Preflight \/ (Gate /\ ~Dispatch)
  BY <1>5, AccountedQuiet DEF Start, LoopHead, Project, Preflight, PreflightTool, PreflightBatch,
     Wave, BatchSettled, Gate, Authorize, Bind, BindDenied, Recheck, DispatchDenied, DenyItem,
     DenyTurn, Proceed, runVars
<1>6. CASE Ingest \/ Finish
  BY <1>6, AccountedQuiet DEF Ingest, VerifyResult, ResultRejected, VerifyRevision, Apply,
     ApplyRejected, Settle, EndIngest, Proceed, Finish, FinishAccepted, FinishDenied,
     FinishRaises, FailRun, DenyTurn, runVars
<1>7. CASE Conclude
  BY <1>7, AccountedQuiet DEF Conclude, Persist, PriorStatus, Transition, TransitionMisbehaves,
     TransitionRaises, Observe, Confirm, Report, runVars
<1>8. CASE Outage
  BY <1>8, AccountedQuiet DEF Outage, RunRaises, AccessFailsRun, AccessDeniesItem,
     AccessRejectsResult, AccessHidesTransition, FailRun, DenyItem, EndIngest, Proceed, runVars
<1>9. CASE Others \/ Returned \/ UNCHANGED vars
  BY <1>9 DEF Others, Returned, vars, local, runVars, Accounted, DispatchesAccounted
<1> QED
  BY <1>1, <1>2, <1>3, <1>4, <1>5, <1>6, <1>7, <1>8, <1>9 DEF Next, Run, Gate

LEMMA FreshInit == Init => Fresh
  BY DEF Init, Fresh, Waiting, Undispatched

(* Every dispatch spends a request id of its own and is charged once as a    *)
(* call and as a step, and the only other steps are state updates, whatever  *)
(* the model asks for, repeats or batches (_request_supported, _execute).    *)
THEOREM DispatchesAccountedThm == Spec => []DispatchesAccounted
<1>1. Accounted => DispatchesAccounted
  BY DEF Accounted
<1> QED
  BY <1>1, FreshInit, FreshStep, AccountedInit, AccountedStep, TypeInvThm, PTL DEF Spec

-----------------------------------------------------------------------------
(* Authority.  What authorize granted stands until the executor is called.   *)
Authorized ==
  /\ pc \in Bound =>
       /\ G0(Request, known) /\ G1(Request)
       /\ ToolOf(current).cls # "ADMIN"
  /\ pc \in Bound \ {"BIND"} =>
       (ToolOf(current).cls \in Policy.approval => frozen.approved)

LEMMA AuthorizedElsewhere == pc' \notin Bound => Authorized'
  BY DEF Authorized

LEMMA AuthorizedStep == TypeInv /\ Authorized /\ [Next]_vars => Authorized'
<1> SUFFICES ASSUME TypeInv, Authorized, [Next]_vars PROVE Authorized'
  OBVIOUS
<1>1. CASE Authorize
  <2>1. CASE pc' = "BIND"
    <3>1. sized[current] \in StaticCheck(Request, known)
          /\ CheckSideEffect(ToolOf(current), sized[current].draw)
          /\ UNCHANGED <<known, turn, current>>
      BY <1>1, <2>1 DEF Authorize, DenyItem, Proceed, runVars, batchVars
    <3>2. G0(Request, known) /\ G1(Request) /\ ToolOf(current).cls # "ADMIN"
      BY <3>1 DEF StaticCheck, CheckSideEffect
    <3> QED
      BY <2>1, <3>1, <3>2 DEF Authorized, Bound, Request, ToolOf
  <2>2. CASE pc' # "BIND"
    BY <1>1, <2>2, AuthorizedElsewhere DEF Authorize, DenyItem, Proceed, Bound, Acting
  <2> QED
    BY <2>1, <2>2
<1>2. CASE Bind
  <2>1. PICK asked \in BOOLEAN : frozen' = [frozen EXCEPT !.reference = Reference,
                                   !.approved = NeedsApproval(ToolOf(current), asked)]
    BY <1>2 DEF Bind
  <2>2. /\ pc = "BIND" /\ pc' = "RECHECK" /\ UNCHANGED <<known, turn, current>>
        /\ frozen'.approved = NeedsApproval(ToolOf(current), asked)
    BY <1>2, <2>1 DEF Bind, runVars, batchVars, TypeInv, TypeOK, TurnTypeOK
  <2> QED
    BY <2>2 DEF Authorized, Bound, Acting, Request, ToolOf, NeedsApproval
<1>3. CASE (Recheck /\ pc' = "DISPATCH") \/ Dispatch
  <2>1. /\ pc \in {"RECHECK", "DISPATCH"} /\ pc' \in {"DISPATCH", "EXECUTING"}
        /\ UNCHANGED <<known, turn, current, frozen>>
    BY <1>3 DEF Recheck, Dispatch, DenyItem, Proceed, runVars, batchVars, dispatchVars
  <2> QED
    BY <2>1 DEF Authorized, Bound, Acting, Request, ToolOf
<1>4. CASE Run /\ ~Authorize /\ ~Bind /\ ~Dispatch /\ ~(Recheck /\ pc' = "DISPATCH")
  <2>1. CASE Start \/ LoopHead \/ Project \/ Projected \/ ModelTurn \/ Finish \/ Conclude
    <3>1. pc' \notin Begun \/ pc' \notin Bound
      BY <2>1, Elsewhere DEF Begun, Bound
    <3> QED
      BY <3>1, AuthorizedElsewhere DEF Begun, Bound
  <2>2. CASE Preflight
    BY <2>2, AuthorizedElsewhere DEF Preflight, PreflightTool, PreflightBatch, Wave,
       BatchSettled, DenyTurn, Proceed, Bound, Acting
  <2>3. CASE BindDenied \/ Recheck \/ DispatchDenied
    BY <1>4, <2>3, AuthorizedElsewhere DEF BindDenied, Recheck, DispatchDenied, DenyItem,
       Proceed, Bound, Acting
  <2>4. CASE ExecutorReturns \/ Outage
    BY <2>4, AuthorizedElsewhere DEF ExecutorReturns, Outage, RunRaises, AccessFailsRun,
       AccessDeniesItem, AccessRejectsResult, AccessHidesTransition, FailRun, DenyItem,
       EndIngest, Proceed, Bound, Acting
  <2>5. CASE Ingest
    BY <2>5, AuthorizedElsewhere DEF Ingest, VerifyResult, ResultRejected, VerifyRevision, Apply,
       ApplyRejected, Settle, FailRun, EndIngest, Proceed, Bound, Acting
  <2> QED
    BY <1>4, <2>1, <2>2, <2>3, <2>4, <2>5 DEF Run, Gate
<1>5. CASE Others \/ Returned \/ UNCHANGED vars
  BY <1>5 DEF Others, Returned, vars, local, runVars, batchVars, dispatchVars, Authorized,
     Request, ToolOf
<1> QED
  BY <1>1, <1>2, <1>3, <1>4, <1>5 DEF Next

(* The executor is called only with what task, policy and hooks all grant,   *)
(* with citable references, with its reservation still in the quota, and     *)
(* under a request id that was fresh when it was dispatched, whatever the    *)
(* model asks and however often (static_check, authorize, _execute).         *)
THEOREM ExecutingIsAuthorizedThm == Spec => []ExecutingIsAuthorized
<1>1. Init => Authorized
  BY DEF Init, Authorized, Bound, Acting
<1>2. ASSUME TypeInv, Fresh, pc = "DISPATCH" PROVE Request.id \notin requestIds
  <2>1. current \in Waiting
    BY <1>2 DEF TypeInv, Placed, Acting, Waiting, Undispatched
  <2> QED
    BY <1>2, <2>1 DEF Fresh, Request
<1>3. ASSUME TypeInv, Authorized, pc = "EXECUTING"
      PROVE  /\ Request.tool \in AllowedTools \cap Policy.tools
             /\ ToolOf(current).cls \in Policy.classes \ {"ADMIN"}
             /\ ToolOf(current).cls \in Policy.approval => frozen.approved
             /\ \A r \in Request.refs : r \in known /\ r.vis = "AGENT"
  BY <1>3, GatesAssumption DEF GatesAssumption, Authorized, Bound, Acting, G0, G1, ToolOf, Request,
     TypeInv, Placed
<1>4. ASSUME BudgetInv, pc = "EXECUTING"
      PROVE  \A d \in DOMAIN Quota \ (overdrawn \cup Standard) :
               used[d] + Amount(Reserved, d) <= Quota[d]
  BY <1>4 DEF BudgetInv
<1>5. TypeInv /\ Fresh /\ Authorized /\ BudgetInv => ExecutingIsAuthorized
  BY <1>2, <1>3, <1>4 DEF ExecutingIsAuthorized
<1> QED
  BY <1>1, <1>5, AuthorizedStep, FreshInit, FreshStep, BudgetInit, BudgetStep, TypeInvThm, PTL
  DEF Spec

-----------------------------------------------------------------------------
(* The order of a batch.                                                     *)

(* A TOOL_REQUEST is what PreflightTool sees.                                *)
Chosen == pc = "TOOL" => turn.action = "TOOL_REQUEST"

LEMMA ChosenStep == TypeInv /\ Chosen /\ [Next]_vars => Chosen'
<1> SUFFICES ASSUME TypeInv, Chosen, [Next]_vars PROVE Chosen'
  OBVIOUS
<1>1. CASE TurnAccepted
  <2>1. PICK t \in Turns : /\ pc' = Route[t.action]
                           /\ IF t.action = "NONE" THEN EndTurn ELSE turn' = t
    BY <1>1 DEF TurnAccepted
  <2>2. Route[t.action] = "TOOL" => t.action = "TOOL_REQUEST"
    BY CoordinatorAssumption DEF CoordinatorAssumption, Route
  <2> QED
    BY <2>1, <2>2 DEF Chosen
<1>2. CASE Run /\ ~TurnAccepted
  <2>1. pc' # "TOOL"
    BY <1>2 DEF Run, Start, LoopHead, Project, Projected, ModelTurn, TurnFails, TurnDenied,
       UpdateRejected, Preflight, PreflightTool, PreflightBatch, Wave, BatchSettled, Gate,
       Authorize, Bind, BindDenied, Recheck, Dispatch, DispatchDenied, ExecutorReturns, Ingest,
       VerifyResult, ResultRejected, VerifyRevision, Apply, ApplyRejected, Settle, Finish,
       FinishAccepted, FinishDenied, FinishRaises, Conclude, Persist, PriorStatus, Transition,
       TransitionMisbehaves, TransitionRaises, Observe, Confirm, Report, Outage, RunRaises,
       AccessFailsRun, AccessDeniesItem, AccessRejectsResult, AccessHidesTransition, FailRun,
       DenyTurn, DenyItem, EndIngest, Proceed
  <2> QED
    BY <2>1 DEF Chosen
<1>3. CASE Others \/ Returned \/ UNCHANGED vars
  BY <1>3 DEF Others, Returned, vars, local, Chosen
<1> QED
  BY <1>1, <1>2, <1>3 DEF Next

(* A dependency that is settled stays what it is, so what a wave decided     *)
(* remains justified.                                                        *)
Decided ==
  /\ DependenciesDecide
  /\ \A k \in WorkIds : work[k] # "ABSENT" => turn.items[k].deps \subseteq WorkIds

LEMMA DecidedStill ==
  ASSUME Decided, UNCHANGED <<turn, work>>
  PROVE  Decided'
  BY DEF Decided, DependenciesDecide

LEMMA DecidedEmpty == NoItems' => Decided'
  BY DEF NoItems, Decided, DependenciesDecide

LEMMA DecidedMoves ==
  ASSUME TypeInv, Decided, NEW states, states \subseteq {"RETURNED", "COMPLETED", "FAILED"},
         pc \in Acting \cup Ingesting, Moves(states)
  PROVE  Decided'
<1>1. states \subseteq ItemStates
  BY DEF ItemStates
<1>2. current \in WorkIds /\ work[current] \in {"READY", "RETURNED"}
  BY CurrentItem
<1>3. PICK st \in states : \A k \in WorkIds : work'[k] = IF k = current THEN st ELSE work[k]
  BY <1>1, <1>2, MovesOne
<1>4. turn' = turn
  BY DEF Moves
<1>5. st \in {"RETURNED", "COMPLETED", "FAILED"}
  OBVIOUS
<1>6. ASSUME NEW k \in WorkIds, work'[k] # "ABSENT"
      PROVE  /\ turn'.items[k].deps \subseteq WorkIds
             /\ work'[k] \in {"READY", "RETURNED", "COMPLETED", "FAILED"} =>
                  \A d \in turn'.items[k].deps : work'[d] = "COMPLETED"
             /\ work'[k] = "SKIPPED_DEPENDENCY" =>
                  \E d \in turn'.items[k].deps : work'[d] \in {"FAILED", "SKIPPED_DEPENDENCY"}
  <2>1. work[k] # "ABSENT" /\ turn.items[k].deps \subseteq WorkIds
    BY <1>2, <1>3, <1>6 DEF Decided
  <2>2. \A d \in turn.items[k].deps : d \in WorkIds /\ (d # current => work'[d] = work[d])
    BY <1>3, <2>1
  <2>3. work'[k] \in {"READY", "RETURNED", "COMPLETED", "FAILED"} =>
          work[k] \in {"READY", "RETURNED", "COMPLETED", "FAILED"}
    BY <1>2, <1>3
  <2>4. work'[k] = "SKIPPED_DEPENDENCY" => work[k] = "SKIPPED_DEPENDENCY"
    BY <1>3, <1>5
  <2> QED
    BY <1>2, <1>4, <2>1, <2>2, <2>3, <2>4 DEF Decided, DependenciesDecide
<1> QED
  BY <1>6 DEF Decided, DependenciesDecide

LEMMA DecidedWave ==
  ASSUME TypeInv, Decided, Wave
  PROVE  Decided'
<1> DEFINE w == [k \in WorkIds |-> IF k \in Skipped THEN "SKIPPED_DEPENDENCY"
                                   ELSE IF k \in Planned THEN "READY" ELSE work[k]]
<1>1. work' = w /\ turn' = turn
  BY DEF Wave, Proceed
<1>2. \A d \in WorkIds : work[d] \in Settled => w[d] = work[d]
  BY DEF Settled, Skipped, Planned, In
<1>3. ASSUME NEW k \in WorkIds, w[k] # "ABSENT"
      PROVE  /\ turn.items[k].deps \subseteq WorkIds
             /\ w[k] \in {"READY", "RETURNED", "COMPLETED", "FAILED"} =>
                  \A d \in turn.items[k].deps : w[d] = "COMPLETED"
             /\ w[k] = "SKIPPED_DEPENDENCY" =>
                  \E d \in turn.items[k].deps : w[d] \in {"FAILED", "SKIPPED_DEPENDENCY"}
  <2>1. turn.items[k].deps \subseteq WorkIds
    BY <1>3 DEF Decided, Skipped, Planned, In
  <2>2. CASE k \in Skipped
    <3>1. PICK d \in turn.items[k].deps : work[d] # "COMPLETED" /\ work[d] \in Settled
      BY <2>2 DEF Skipped, Planned, Deps
    <3>2. w[d] \in {"FAILED", "SKIPPED_DEPENDENCY"}
      BY <1>2, <2>1, <3>1 DEF Settled
    <3> QED
      BY <2>1, <2>2, <3>2
  <2>3. CASE k \in Planned \ Skipped
    <3>1. \A d \in turn.items[k].deps : work[d] = "COMPLETED" /\ work[d] \in Settled
      BY <2>3 DEF Skipped, Planned, Deps
    <3>2. \A d \in turn.items[k].deps : w[d] = "COMPLETED"
      BY <1>2, <2>1, <3>1
    <3> QED
      BY <2>1, <2>3, <3>2
  <2>4. CASE k \notin Planned
    <3>1. w[k] = work[k]
      BY <2>4 DEF Skipped
    <3>2. \A d \in turn.items[k].deps : work[d] \in Settled => w[d] = work[d]
      BY <1>2, <2>1
    <3> HIDE DEF w
    <3> QED
      BY <2>1, <3>1, <3>2 DEF Decided, DependenciesDecide, Settled
  <2> QED
    BY <2>2, <2>3, <2>4
<1> HIDE DEF w
<1> QED
  BY <1>1, <1>3 DEF Decided, DependenciesDecide

LEMMA DecidedPreflight ==
  ASSUME TypeInv, Chosen, Decided, Preflight
  PROVE  Decided'
<1>1. CASE PreflightTool
  <2>1. CASE EndTurn
    BY <2>1, EndTurnEmpties, DecidedEmpty
  <2>2. CASE ~EndTurn
    <3>1. PICK k \in DOMAIN turn.items :
            work' = [work EXCEPT ![k] = "READY"] /\ turn' = turn
      BY <1>1, <2>2 DEF PreflightTool, DenyTurn
    <3>2. turn.items[k].deps = {} /\ k \in WorkIds
      <4>1. turn \in Turns /\ turn.action = "TOOL_REQUEST"
        BY <1>1, ItemTyped DEF PreflightTool, Chosen
      <4> QED
        BY <4>1, CoordinatorAssumption DEF CoordinatorAssumption
    <3>3. work' = [j \in WorkIds |-> IF j = k THEN "READY" ELSE "ABSENT"]
      BY <1>1, <3>1, <3>2 DEF PreflightTool, TypeInv, TypeOK, TurnTypeOK, Placed, Idle
    <3> QED
      BY <3>1, <3>2, <3>3 DEF Decided, DependenciesDecide
  <2> QED
    BY <2>1, <2>2
<1>2. CASE PreflightBatch
  <2>1. CASE EndTurn
    BY <2>1, EndTurnEmpties, DecidedEmpty
  <2>2. CASE ~EndTurn
    <3>1. PICK s \in Preflights :
            /\ ValidBatch(turn, s) /\ turn' = turn
            /\ work' = [k \in WorkIds |-> IF k \in DOMAIN s THEN "PENDING" ELSE "ABSENT"]
      BY <1>2, <2>2 DEF PreflightBatch, DenyTurn
    <3>2. DOMAIN s = DOMAIN turn.items
      BY PreflightsTyped
    <3>3. \A k \in DOMAIN turn.items : k \in WorkIds /\ turn.items[k].deps \subseteq WorkIds
      BY <3>1, ItemTyped DEF ValidBatch, DependenciesKnown
    <3> QED
      BY <3>1, <3>2, <3>3 DEF Decided, DependenciesDecide
  <2> QED
    BY <2>1, <2>2
<1>3. CASE Wave
  BY <1>3, DecidedWave
<1>4. CASE BatchSettled
  BY <1>4, EndTurnEmpties, DecidedEmpty DEF BatchSettled
<1> QED
  BY <1>1, <1>2, <1>3, <1>4 DEF Preflight

LEMMA DecidedStep == TypeInv /\ Chosen /\ Decided /\ [Next]_vars => Decided'
<1> SUFFICES ASSUME TypeInv, Chosen, Decided, [Next]_vars PROVE Decided'
  OBVIOUS
<1>1. CASE Start \/ LoopHead \/ Project \/ Projected \/ ModelTurn \/ Finish \/ Conclude
  <2>1. CASE NoItems'
    BY <2>1, DecidedEmpty
  <2>2. CASE ItemsStill
    BY <2>2, DecidedStill DEF ItemsStill
  <2> QED
    BY <1>1, <2>1, <2>2, Elsewhere
<1>2. CASE Preflight
  BY <1>2, DecidedPreflight
<1>3. CASE Gate \/ ExecutorReturns \/ Ingest \/ Outage
  <2>1. CASE NoItems'
    BY <2>1, DecidedEmpty
  <2>2. CASE ItemsStill
    BY <2>2, DecidedStill DEF ItemsStill
  <2> QED
    BY <1>3, <2>1, <2>2, ItemSteps, DecidedMoves
<1>4. CASE Others \/ Returned \/ UNCHANGED vars
  BY <1>4, DecidedStill DEF Others, Returned, vars, local, batchVars
<1> QED
  BY <1>1, <1>2, <1>3, <1>4 DEF Next, Run

(* An item of a batch is executed only after all its dependencies completed, *)
(* and is skipped only after one of them did not, for any batch and however  *)
(* its items fail (_batch).                                                  *)
THEOREM DependenciesDecideThm == Spec => []DependenciesDecide
<1>1. Init => Chosen /\ Decided
  BY DEF Init, Chosen, Decided, DependenciesDecide
<1>2. Decided => DependenciesDecide
  BY DEF Decided
<1> QED
  BY <1>1, <1>2, ChosenStep, DecidedStep, TypeInvThm, PTL DEF Spec

(* Between two waves nothing is left to execute or to ingest, and every item *)
(* of the turn has been begun.                                               *)
Ordered ==
  /\ WaveOrder
  /\ pc = "WAVE" => In(work, "READY") = {} /\ In(work, "RETURNED") = {}
  /\ pc \in Begun => \A k \in DOMAIN turn.items : work[k] # "ABSENT"

LEMMA OrderedElsewhere ==
  ASSUME Ordered, pc' \notin Begun
  PROVE  Ordered'
  BY DEF Ordered, WaveOrder, Begun, Ingesting

LEMMA OrderedStill ==
  ASSUME Ordered, ItemsStill, pc \in Begun, pc' # "WAVE", pc' \in Ingesting => pc \in Ingesting
  PROVE  Ordered'
<1>1. In(work, "READY")' = In(work, "READY") /\ In(work, "RETURNED")' = In(work, "RETURNED")
  BY DEF ItemsStill, In
<1> QED
  BY <1>1 DEF Ordered, WaveOrder, ItemsStill, Ingesting

(* Proceed chooses the least item, and executes before it ingests.           *)
LEMMA OrderedProceeds ==
  ASSUME NEW w, Proceed(w), UNCHANGED turn, \A k \in DOMAIN turn.items : w[k] # "ABSENT"
  PROVE  Ordered'
<1> DEFINE ready == In(w, "READY")
           taken == In(w, "RETURNED")
<1>1. /\ work' = w
      /\ pc' = IF ready # {} THEN "AUTHORIZE" ELSE IF taken # {} THEN "VERIFY" ELSE "WAVE"
      /\ current' = IF ready # {} THEN Least(ready) ELSE IF taken # {} THEN Least(taken) ELSE 0
  BY DEF Proceed
<1>2. WorkIds \subseteq Nat
  BY CoordinatorAssumption DEF CoordinatorAssumption
<1>3. taken # {} => Least(taken) \in taken /\ \A k \in taken : Least(taken) <= k
  BY <1>2, LeastExists DEF In
<1>4. /\ In(work, "READY")' = ready /\ In(work, "RETURNED")' = taken
      /\ \A k \in taken : w[k] = "RETURNED"
  BY <1>1 DEF In
<1>5. turn' = turn /\ \A k \in DOMAIN turn.items : w[k] # "ABSENT"
  OBVIOUS
<1> HIDE DEF ready, taken
<1>6. WaveOrder'
  <2>1. CASE pc' = "VERIFY"
    <3>1. ready = {} /\ taken # {} /\ current' = Least(taken)
      BY <1>1, <2>1
    <3> QED
      BY <1>1, <1>3, <1>4, <3>1 DEF WaveOrder
  <2>2. CASE pc' \in {"AUTHORIZE", "WAVE"}
    BY <2>2 DEF WaveOrder
  <2> QED
    BY <1>1, <2>1, <2>2
<1>7. pc' = "WAVE" => ready = {} /\ taken = {}
  BY <1>1
<1> QED
  BY <1>1, <1>4, <1>5, <1>6, <1>7 DEF Ordered

LEMMA OrderedMoves ==
  ASSUME TypeInv, Ordered, NEW states, states \subseteq ItemStates \ {"ABSENT"},
         pc \in Acting \cup Ingesting, Moves(states)
  PROVE  Ordered'
<1>1. PICK st \in states : Proceed([work EXCEPT ![current] = st]) /\ UNCHANGED turn
  BY DEF Moves
<1>2. \A k \in DOMAIN turn.items : work[k] # "ABSENT"
  BY DEF Ordered, Begun
<1>3. work \in [WorkIds -> ItemStates]
  BY DEF TypeInv, TypeOK, TurnTypeOK
<1>4. \A k \in DOMAIN turn.items : [work EXCEPT ![current] = st][k] # "ABSENT"
  BY <1>2, <1>3, ItemTyped
<1> DEFINE w == [work EXCEPT ![current] = st]
<1>5. Proceed(w) /\ \A k \in DOMAIN turn.items : w[k] # "ABSENT"
  BY <1>1, <1>4
<1> HIDE DEF w
<1> QED
  BY <1>1, <1>5, OrderedProceeds

LEMMA OrderedPreflight ==
  ASSUME TypeInv, Chosen, Ordered, Preflight
  PROVE  Ordered'
<1>1. CASE PreflightTool
  <2>1. CASE pc' = "HEAD"
    BY <2>1, OrderedElsewhere DEF Begun, Acting, Ingesting
  <2>2. CASE pc' # "HEAD"
    <3>1. PICK k \in DOMAIN turn.items :
            /\ work' = [work EXCEPT ![k] = "READY"]
            /\ pc' = "AUTHORIZE" /\ turn' = turn
      BY <1>1, <2>2 DEF PreflightTool, DenyTurn
    <3>2. DOMAIN turn.items = {k} /\ k \in WorkIds
      <4>1. turn \in Turns /\ turn.action = "TOOL_REQUEST"
        BY <1>1, ItemTyped DEF PreflightTool, Chosen
      <4> QED
        BY <4>1, CoordinatorAssumption DEF CoordinatorAssumption
    <3>3. work'[k] = "READY"
      BY <3>1, <3>2 DEF TypeInv, TypeOK, TurnTypeOK
    <3> QED
      BY <3>1, <3>2, <3>3 DEF Ordered, WaveOrder
  <2> QED
    BY <2>1, <2>2
<1>2. CASE PreflightBatch
  <2>1. CASE pc' = "HEAD"
    BY <2>1, OrderedElsewhere DEF Begun, Acting, Ingesting
  <2>2. CASE pc' # "HEAD"
    <3>1. PICK s \in Preflights :
            /\ pc' = "WAVE" /\ turn' = turn
            /\ work' = [k \in WorkIds |-> IF k \in DOMAIN s THEN "PENDING" ELSE "ABSENT"]
      BY <1>2, <2>2 DEF PreflightBatch, DenyTurn
    <3>2. DOMAIN s = DOMAIN turn.items /\ \A k \in DOMAIN turn.items : k \in WorkIds
      BY PreflightsTyped, ItemTyped
    <3>3. In(work, "READY")' = {} /\ In(work, "RETURNED")' = {}
      BY <3>1 DEF In
    <3> QED
      BY <3>1, <3>2, <3>3 DEF Ordered, WaveOrder
  <2> QED
    BY <2>1, <2>2
<1>3. CASE Wave
  <2> DEFINE w == [k \in WorkIds |-> IF k \in Skipped THEN "SKIPPED_DEPENDENCY"
                                     ELSE IF k \in Planned THEN "READY" ELSE work[k]]
  <2>1. Proceed(w) /\ UNCHANGED turn
    BY <1>3 DEF Wave
  <2>2. \A k \in DOMAIN turn.items : k \in WorkIds /\ work[k] # "ABSENT"
    BY <1>3, ItemTyped DEF Wave, Ordered, Begun
  <2>3. \A k \in DOMAIN turn.items : w[k] # "ABSENT"
    BY <2>2
  <2> HIDE DEF w
  <2> QED
    BY <2>1, <2>3, OrderedProceeds
<1>4. CASE BatchSettled
  BY <1>4, OrderedElsewhere DEF BatchSettled, Begun, Acting, Ingesting
<1> QED
  BY <1>1, <1>2, <1>3, <1>4 DEF Preflight

LEMMA OrderedStep == TypeInv /\ Chosen /\ Ordered /\ [Next]_vars => Ordered'
<1> SUFFICES ASSUME TypeInv, Chosen, Ordered, [Next]_vars PROVE Ordered'
  OBVIOUS
<1>1. CASE Start \/ LoopHead \/ Project \/ Projected \/ ModelTurn \/ Finish \/ Conclude
  BY <1>1, Elsewhere, OrderedElsewhere
<1>2. CASE Preflight
  BY <1>2, OrderedPreflight
<1>3. CASE Gate \/ ExecutorReturns \/ Ingest \/ Outage
  <2>1. CASE pc' \notin Begun
    BY <2>1, OrderedElsewhere
  <2>2. ASSUME ItemsStill, \/ Dispatch
                           \/ pc \in Acting /\ pc' \in Acting
                           \/ pc \in Ingesting /\ pc' \in Ingesting
        PROVE  Ordered'
    <3>1. pc \in Begun /\ pc' # "WAVE" /\ (pc' \in Ingesting => pc \in Ingesting)
      BY <2>2 DEF Dispatch, Begun, Acting, Ingesting
    <3> QED
      BY <2>2, <3>1, OrderedStill
  <2>3. CASE /\ pc \in Acting \cup Ingesting
             /\ Moves({"RETURNED", "FAILED"}) \/ Moves({"COMPLETED", "FAILED"})
    <3>1. {"RETURNED", "FAILED"} \subseteq ItemStates \ {"ABSENT"}
          /\ {"COMPLETED", "FAILED"} \subseteq ItemStates \ {"ABSENT"}
      BY DEF ItemStates
    <3> QED
      BY <2>3, <3>1, OrderedMoves
  <2> QED
    BY <1>3, <2>1, <2>2, <2>3, ItemSteps
<1>4. CASE Others \/ Returned \/ UNCHANGED vars
  BY <1>4 DEF Others, Returned, vars, local, batchVars, Ordered, WaveOrder, In
<1> QED
  BY <1>1, <1>2, <1>3, <1>4 DEF Next, Run

LEMMA OrderedInit == Init => Chosen /\ Ordered
  BY DEF Init, Chosen, Ordered, WaveOrder, Begun, Acting, Ingesting

(* A wave is executed to its end before any of its results is ingested, and  *)
(* they are ingested in lexical order, whatever was denied or failed in      *)
(* between (_batch; OQ-3).                                                   *)
THEOREM WaveOrderThm == Spec => []WaveOrder
<1>1. Ordered => WaveOrder
  BY DEF Ordered
<1> QED
  BY <1>1, OrderedInit, ChosenStep, OrderedStep, TypeInvThm, PTL DEF Spec

(* A turn ends before its items were begun, with all of them settled, or     *)
(* with the run: results that were collected are never dropped otherwise     *)
(* (_batch, _ingest).                                                        *)
THEOREM ResultsSettledThm == Spec => ResultsSettled
<1> DEFINE Kept == turn # NoTurn /\ turn' = NoTurn /\ runStatus' # "FAILED" =>
                     \/ \A k \in WorkIds : work[k] = "ABSENT"
                     \/ \A k \in DOMAIN turn.items : work[k] \in Settled
<1>1. TypeInv /\ Ordered /\ [Next]_vars => Kept
  <2> SUFFICES ASSUME TypeInv, Ordered, Next, turn' # turn, runStatus' # "FAILED",
                      \E k \in WorkIds : work[k] # "ABSENT"
               PROVE  \A k \in DOMAIN turn.items : work[k] \in Settled
    BY DEF vars, local
  <2>1. pc \notin Idle
    BY DEF TypeInv, Placed
  <2>2. ~(Start \/ LoopHead \/ Project \/ Projected \/ ModelTurn \/ Finish)
        /\ ~(PreflightTool \/ PreflightBatch)
    BY <2>1 DEF Start, LoopHead, Project, Projected, ModelTurn, TurnFails, TurnDenied,
       UpdateRejected, TurnAccepted, Finish, FinishAccepted, FinishDenied, FinishRaises,
       PreflightTool, PreflightBatch, Idle
  <2>3. ~(Conclude \/ Others \/ Returned \/ Wave)
    BY DEF Conclude, Persist, PriorStatus, Transition, TransitionMisbehaves, TransitionRaises,
       Observe, Confirm, Report, Others, Returned, Wave, local, vars
  <2>4. ~(Gate \/ ExecutorReturns \/ Ingest \/ Outage)
    BY DEF Gate, Authorize, Bind, BindDenied, Recheck, Dispatch, DispatchDenied, ExecutorReturns,
       Ingest, VerifyResult, ResultRejected, VerifyRevision, Apply, ApplyRejected, Settle,
       Outage, RunRaises, AccessFailsRun, AccessDeniesItem, AccessRejectsResult,
       AccessHidesTransition, FailRun
  <2>5. BatchSettled
    BY <2>2, <2>3, <2>4 DEF Next, Run, Preflight
  <2>6. \A s \in {"PENDING", "READY", "RETURNED"} : In(work, s) = {}
    BY <2>5 DEF BatchSettled, Ordered
  <2>7. \A k \in DOMAIN turn.items : k \in WorkIds /\ work[k] # "ABSENT"
    BY <2>5, ItemTyped DEF BatchSettled, Ordered, Begun
  <2> QED
    BY <2>6, <2>7 DEF In, Settled, ItemStates, TypeInv, TypeOK, TurnTypeOK
<1> QED
  BY <1>1, OrderedInit, ChosenStep, OrderedStep, TypeInvThm, PTL DEF Spec, ResultsSettled
=============================================================================
