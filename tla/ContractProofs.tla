---------------------------- MODULE ContractProofs ----------------------------
(***************************************************************************)
(* What Coordinator promises, for every value of its constants: over a     *)
(* store that keeps its protocol every run is a run of RunContract, and    *)
(* its writes are bound to the revisions they were judged at; over any     *)
(* store, late work is bounded, results are explained, the reference world *)
(* is left to approved MUTATEs, and no turn ends in silence.               *)
(***************************************************************************)
EXTENDS CoordinatorBounds, CoordinatorContract

RunInv == TypeInv /\ Fresh /\ Accounted /\ BudgetInv /\ ClaimInv

LEMMA ContractInit == Init => Contract!Init
  BY GatesAssumption DEF Init, Contract!Init, Contract!StoreInit, StoreInit, Phase, Basis,
     GatesAssumption, Standard, Contract!None, NoRevision, Contract!Terminal, Terminal

(* The contract has FiniteSets of its own.                                   *)
LEMMA SameCardinality ==
  ASSUME NEW S PROVE Contract!Cardinality(S) = Cardinality(S)
  BY Zenon DEF Contract!Cardinality, Cardinality

(* Steps that the contract does not see.                                     *)
Unseen == UNCHANGED <<shared, requestIds, runStatus, errors>>
            /\ used'["model_calls"] = used["model_calls"]

LEMMA Stutters ==
  ASSUME Unseen, Phase' = Phase, Basis' = Basis
  PROVE  UNCHANGED Contract!contractVars
  BY DEF Unseen, shared, storeVars, Contract!contractVars, Contract!storeVars

(* A transaction given up.                                                   *)
LEMMA GivesUp ==
  ASSUME Unseen, Phase \in {"WORKING", "GRANTED"}, Phase' = "WORKING", Basis' = NoRevision
  PROVE  Contract!GiveUp
  BY DEF Unseen, shared, storeVars, Contract!GiveUp, Contract!world, Contract!storeVars,
     Contract!None, NoRevision

LEMMA Looks ==
  ASSUME Unseen, Phase \in {"WORKING", "ENDING"}, Phase' = Phase, Basis = NoRevision,
         Basis' = storeRevision
  PROVE  Contract!Look
  BY DEF Unseen, shared, storeVars, Contract!Look, Contract!world, Contract!storeVars,
     Contract!None, NoRevision

(* The run comes to a verdict.                                               *)
LEMMA Decides ==
  ASSUME UNCHANGED <<shared, requestIds>>, used'["model_calls"] = used["model_calls"],
         Phase \in {"WORKING", "GRANTED"},
         Phase' = "ENDING", Basis' = NoRevision,
         runStatus' \in {"DONE", "FAILED", "EXHAUSTED"} \/ runStatus' = storeStatus,
         runStatus' \in Terminal,
         ("STATUS_PERSISTENCE_FAILED" \in errors') = ("STATUS_PERSISTENCE_FAILED" \in errors)
  PROVE  Contract!Decide
<1>1. Contract!Decided(runStatus')
  BY DEF Contract!Decided, Contract!Terminal, Terminal, Contract!None, NoRevision
<1>2. runStatus' \in Contract!Terminal
  BY DEF Contract!Terminal, Terminal
<1> QED
  BY <1>1, <1>2 DEF Contract!Decide, shared, storeVars, Contract!world, Contract!storeVars

LEMMA Fails ==
  ASSUME FailRun, UNCHANGED <<shared, used>>, Phase \in {"WORKING", "GRANTED"}
  PROVE  Contract!Decide
<1>1. /\ Phase' = "ENDING" /\ Basis' = NoRevision
      /\ runStatus' = "FAILED" /\ UNCHANGED requestIds
      /\ ("STATUS_PERSISTENCE_FAILED" \in errors') = ("STATUS_PERSISTENCE_FAILED" \in errors)
  BY DEF FailRun, Phase, Basis
<1> QED
  BY <1>1, Decides DEF Terminal

(* The run goes on to the next item, or denies the turn.                     *)
LEMMA GoesBack ==
  ASSUME pc' \in {"HEAD", "AUTHORIZE", "VERIFY", "WAVE"}
  PROVE  Phase' = "WORKING" /\ Basis' = NoRevision
  BY DEF Phase, Basis

-----------------------------------------------------------------------------
(* The steps of Coordinator as steps of the contract.  Over a store that     *)
(* keeps its protocol:                                                       *)
Step == Contract!Next \/ UNCHANGED Contract!contractVars

LEMMA LoopSteps ==
  ASSUME RunInv, Start \/ LoopHead \/ Project \/ Projected
  PROVE  Step
<1>1. CASE Start
  <2>0. /\ pc = "TASK" /\ UNCHANGED <<shared, used, requestIds>>
        /\ errors' \in {errors, errors \cup {"TOKENS"}}
        /\ \/ pc' = "PERSIST" /\ (runStatus' = storeStatus \/ runStatus' = "FAILED")
              /\ runStatus' \in Terminal
           \/ pc' = "HEAD" /\ UNCHANGED <<runStatus, errors>>
    BY <1>1 DEF Start, Stopped, Terminal
  <2>1. ("STATUS_PERSISTENCE_FAILED" \in errors') = ("STATUS_PERSISTENCE_FAILED" \in errors)
    BY <2>0
  <2>2. CASE pc' = "PERSIST"
    <3>1. Phase \in {"WORKING", "GRANTED"} /\ Phase' = "ENDING" /\ Basis' = NoRevision
      BY <2>0, <2>2 DEF Phase, Basis
    <3> QED
      BY <2>0, <2>1, <2>2, <3>1, Decides DEF Step, Contract!Next
  <2>3. CASE pc' = "HEAD" /\ UNCHANGED <<runStatus, errors>>
    BY <2>0, <2>3, Stutters DEF Step, Unseen, Phase, Basis
  <2> QED
    BY <2>0, <2>2, <2>3
<1>2. CASE LoopHead
  <2>1. /\ pc = "HEAD" /\ UNCHANGED <<shared, used, requestIds, errors>>
        /\ \/ pc' = "PERSIST" /\ (runStatus' = storeStatus \/ runStatus' = "EXHAUSTED")
              /\ runStatus' \in Terminal
           \/ pc' = "PROJECT" /\ UNCHANGED runStatus
    BY <1>2 DEF LoopHead, Stopped, Terminal
  <2>2. CASE pc' = "PERSIST"
    <3>1. Phase \in {"WORKING", "GRANTED"} /\ Phase' = "ENDING" /\ Basis' = NoRevision
      BY <2>1, <2>2 DEF Phase, Basis
    <3> QED
      BY <2>1, <2>2, <3>1, Decides DEF Step, Contract!Next
  <2>3. CASE pc' = "PROJECT" /\ UNCHANGED runStatus
    BY <2>1, <2>3, Stutters DEF Step, Unseen, Phase, Basis
  <2> QED
    BY <2>1, <2>2, <2>3
<1>3. CASE Project
  <2>1. /\ pc = "PROJECT" /\ pc' = "PROJECTED" /\ Unseen
        /\ projected' \in {storeRevision, NoRevision}
    BY <1>3 DEF Project, Unseen, runVars
  <2>2. /\ Phase = "WORKING" /\ Phase' = Phase
        /\ Basis = NoRevision /\ Basis' = projected'
    BY <2>1 DEF Phase, Basis
  <2> QED
    BY <2>1, <2>2, Stutters, Looks DEF Step, Contract!Next
<1>4. CASE Projected /\ pc' = "HEAD"
  <2>1. pc = "PROJECTED" /\ Unseen
    BY <1>4 DEF Projected, DenyTurn, Unseen
  <2>2. Phase \in {"WORKING", "GRANTED"}
    BY <2>1 DEF Phase
  <2> QED
    BY <1>4, <2>1, <2>2, GoesBack, GivesUp DEF Step, Contract!Next
<1>5. CASE Projected /\ pc' # "HEAD"
  <2>1. /\ pc = "PROJECTED" /\ projected = storeRevision
        /\ pc' = "GENERATE" /\ Charge({"model_calls"})
        /\ UNCHANGED <<shared, runStatus, requestIds, errors, projected>>
    BY <1>5 DEF Projected, DenyTurn
  <2>2. /\ used["model_calls"] < Quota["model_calls"]
        /\ used'["model_calls"] = used["model_calls"] + 1
    BY <2>1, QuotaTyped, GatesAssumption
    DEF RunInv, BudgetInv, TypeInv, TypeOK, RunTypeOK, Charge, GatesAssumption, Standard
  <2>3. Phase = "WORKING" /\ Basis = storeRevision /\ Phase' = "GRANTED" /\ Basis' = Basis
    BY <2>1 DEF Phase, Basis
  <2>4. Contract!Grant
    BY <2>1, <2>2, <2>3 DEF Contract!Grant, Contract!world, Contract!storeVars, shared, storeVars
  <2> QED
    BY <2>4 DEF Step, Contract!Next
<1> QED
  BY <1>1, <1>2, <1>3, <1>4, <1>5

LEMMA ModelTurnSteps ==
  ASSUME RunInv, ModelTurn
  PROVE  Step
<1>1. CASE TurnFails
  <2>1. FailRun /\ UNCHANGED <<shared, used>> /\ Phase \in {"WORKING", "GRANTED"}
    BY <1>1 DEF TurnFails, Phase
  <2> QED
    BY <2>1, Fails DEF Step, Contract!Next
<1>2. CASE TurnDenied \/ UpdateRejected
  <2>1. used'["model_calls"] = used["model_calls"]
    BY <1>2, GatesAssumption DEF TurnDenied, UpdateRejected, Charge, GatesAssumption, Standard,
       RunInv, TypeInv, TypeOK, RunTypeOK
  <2>2. pc = "GENERATE" /\ pc' = "HEAD" /\ UNCHANGED <<shared, requestIds, runStatus, errors>>
    BY <1>2 DEF TurnDenied, UpdateRejected, DenyTurn
  <2>3. Phase \in {"WORKING", "GRANTED"}
    BY <2>2 DEF Phase
  <2> QED
    BY <2>1, <2>2, <2>3, GoesBack, GivesUp DEF Step, Contract!Next, Unseen
<1>3. CASE TurnAccepted
  <2>1. PICK t \in Turns :
          /\ \/ UNCHANGED <<storeVars, used>>
             \/ Charge({"steps"}) /\ ApplyBatch(UpdateRevision)
          /\ pc' = Route[t.action]
    BY <1>3 DEF TurnAccepted
  <2>2. pc = "GENERATE" /\ UNCHANGED <<referenceRevision, runStatus, requestIds, errors>>
    BY <1>3 DEF TurnAccepted
  <2>3. pc' \in {"HEAD", "TOOL", "BATCH", "FINISH"}
    BY <2>1, CoordinatorAssumption DEF CoordinatorAssumption, Route
  <2>4. Phase = "GRANTED" /\ Phase' = "WORKING" /\ Basis = projected /\ Basis' = NoRevision
    BY <2>2, <2>3 DEF Phase, Basis
  <2>5. used'["model_calls"] = used["model_calls"]
    BY <2>1, GatesAssumption DEF Charge, GatesAssumption, Standard, RunInv, TypeInv, TypeOK,
       RunTypeOK
  <2>6. CASE UNCHANGED storeVars
    BY <2>2, <2>4, <2>5, <2>6, GivesUp DEF Step, Contract!Next, Unseen, shared
  <2>7. CASE ApplyBatch(UpdateRevision)
    <3>1. Contract!Write
      BY <2>2, <2>4, <2>5, <2>7 DEF Contract!Write, ApplyBatch, Contract!ApplyBatch,
         UpdateRevision, Contract!None, NoRevision
    <3> QED
      BY <3>1 DEF Step, Contract!Next
  <2> QED
    BY <2>1, <2>6, <2>7
<1> QED
  BY <1>1, <1>2, <1>3 DEF ModelTurn

LEMMA PreflightSteps ==
  ASSUME RunInv, Preflight
  PROVE  Step
<1>1. /\ pc \in {"TOOL", "BATCH", "WAVE"}
      /\ pc' \in {"HEAD", "AUTHORIZE", "VERIFY", "WAVE"}
      /\ Unseen
  BY DEF Preflight, PreflightTool, PreflightBatch, Wave, BatchSettled, DenyTurn, Proceed,
     Unseen, runVars
<1>2. Phase = "WORKING" /\ Basis = NoRevision
  BY <1>1 DEF Phase, Basis
<1> QED
  BY <1>1, <1>2, GoesBack, Stutters DEF Step

(* Before it is dispatched a request is judged, and nothing is written.      *)
LEMMA GateSteps ==
  ASSUME RunInv, Gate
  PROVE  Step
<1>1. CASE Authorize /\ pc' = "BIND"
  <2>1. /\ pc = "AUTHORIZE" /\ Unseen
        /\ frozen' = [NoFrozen EXCEPT !.state = storeRevision]
    BY <1>1 DEF Authorize, DenyItem, Proceed, Unseen, runVars
  <2>2. frozen'.state = storeRevision
    BY <2>1 DEF NoFrozen
  <2>3. Phase = "WORKING" /\ Phase' = Phase /\ Basis = NoRevision /\ Basis' = storeRevision
    BY <1>1, <2>1, <2>2 DEF Phase, Basis
  <2> QED
    BY <2>1, <2>3, Looks DEF Step, Contract!Next
<1>2. CASE Bind
  <2>1. /\ pc = "BIND" /\ pc' = "RECHECK" /\ Unseen
        /\ \E r, a : frozen' = [frozen EXCEPT !.reference = r, !.approved = a]
    BY <1>2 DEF Bind, Unseen, runVars
  <2>2. frozen'.state = frozen.state
    BY <2>1 DEF RunInv, TypeInv, TypeOK, TurnTypeOK
  <2>3. Phase' = Phase /\ Basis' = Basis
    BY <2>1, <2>2 DEF Phase, Basis
  <2> QED
    BY <2>1, <2>3, Stutters DEF Step
<1>3. CASE Recheck /\ pc' = "DISPATCH"
  <2>1. pc = "RECHECK" /\ storeRevision = frozen.state /\ Unseen /\ UNCHANGED frozen
    BY <1>3 DEF Recheck, DenyItem, Proceed, Unseen, runVars, dispatchVars
  <2>2. Phase = "WORKING" /\ Basis = storeRevision /\ Phase' = "GRANTED" /\ Basis' = Basis
    BY <1>3, <2>1 DEF Phase, Basis
  <2>3. Contract!Grant
    BY <2>1, <2>2 DEF Contract!Grant, Unseen, Contract!world, Contract!storeVars, shared,
       storeVars
  <2> QED
    BY <2>3 DEF Step, Contract!Next
<1>4. CASE Dispatch
  <2>1. /\ pc = "DISPATCH" /\ pc' = "EXECUTING" /\ Charge({"tool_calls", "steps"})
        /\ requestIds' = requestIds \cup {Request.id}
        /\ UNCHANGED <<shared, runStatus, errors>>
    BY <1>4 DEF Dispatch
  <2>2. used'["model_calls"] = used["model_calls"]
    BY <2>1, GatesAssumption DEF Charge, GatesAssumption, Standard, RunInv, TypeInv, TypeOK,
       RunTypeOK
  <2>3. current \in WorkIds /\ work[current] = "READY" /\ current \in DOMAIN turn.items
    BY <2>1 DEF RunInv, TypeInv, Placed, Acting
  <2>4. Request.id \notin requestIds
    BY <2>1, <2>3 DEF RunInv, Fresh, Waiting, Undispatched, Request
  <2>5. Request.id \in RequestIds
    BY <2>3, ItemTyped DEF RunInv, RequestIds, Request
  <2>6. Cardinality(requestIds) < Quota["tool_calls"]
    BY <2>1, QuotaTyped DEF RunInv, BudgetInv, Covered, CheckBudget, Remaining, Accounted,
       DispatchesAccounted
  <2>7. Phase = "GRANTED" /\ Phase' = "EXECUTING" /\ Basis' = NoRevision
    BY <2>1 DEF Phase, Basis
  <2>8. Contract!Execute(Request.id)
    BY <2>1, <2>2, <2>4, <2>6, <2>7, SameCardinality DEF Contract!Execute, Contract!world, Contract!storeVars,
       shared, storeVars, Contract!None, NoRevision
  <2> QED
    BY <2>5, <2>8 DEF Step, Contract!Next
<1>5. CASE DenyItem /\ Unseen /\ pc \in {"AUTHORIZE", "BIND", "RECHECK", "DISPATCH"}
  <2>1. pc' \in {"AUTHORIZE", "VERIFY", "WAVE"}
    BY <1>5 DEF DenyItem, Proceed
  <2>2. Phase \in {"WORKING", "GRANTED"}
    BY <1>5 DEF Phase
  <2> QED
    BY <1>5, <2>1, <2>2, GoesBack, GivesUp DEF Step, Contract!Next
<1> QED
  <2>1. CASE Authorize \/ Recheck
    BY <1>1, <1>3, <1>5, <2>1 DEF Authorize, Recheck, Unseen
  <2>2. CASE BindDenied \/ DispatchDenied
    BY <1>5, <2>2 DEF BindDenied, DispatchDenied, Unseen
  <2> QED
    BY <1>2, <1>4, <2>1, <2>2 DEF Gate

LEMMA ExecutorSteps ==
  ASSUME RunInv, ExecutorReturns
  PROVE  Step
<1>1. PICK outcome : Execute(outcome)
  BY DEF ExecutorReturns
<1>2. /\ pc = "EXECUTING" /\ UNCHANGED storeVars
      /\ referenceRevision' \in {referenceRevision, referenceRevision + 1}
  BY <1>1 DEF ExecutorReturns, Execute
<1>3. used'["model_calls"] = used["model_calls"]
  <2>1. used' = [d \in DOMAIN used |-> used[d] + Charged(Reserved, Actual(outcome), d)]
    BY <1>1 DEF Execute, Reconcile
  <2>2. Charged(Reserved, Actual(outcome), "model_calls") = 0
    BY DEF Charged, Standard
  <2> QED
    BY <2>1, <2>2, QuotaTyped DEF RunInv
<1>4. Phase = "EXECUTING" /\ Basis = NoRevision
  BY <1>2 DEF Phase, Basis
<1>5. CASE FailRun
  <2>1. /\ Phase' = "ENDING" /\ Basis' = NoRevision
        /\ runStatus' = "FAILED" /\ UNCHANGED requestIds
        /\ ("STATUS_PERSISTENCE_FAILED" \in errors') = ("STATUS_PERSISTENCE_FAILED" \in errors)
    BY <1>5 DEF FailRun, Phase, Basis
  <2>2. Contract!Executed
    BY <1>2, <1>3, <1>4, <2>1 DEF Contract!Executed, Contract!Decided, Contract!Terminal,
       Contract!storeVars, storeVars, Contract!None, NoRevision
  <2> QED
    BY <2>2 DEF Step, Contract!Next
<1>6. CASE ~FailRun
  <2>1. /\ pc' \in {"AUTHORIZE", "VERIFY", "WAVE"}
        /\ UNCHANGED <<runStatus, requestIds, errors>>
    BY <1>6 DEF ExecutorReturns, DenyItem, Proceed
  <2>2. Phase' = "WORKING" /\ Basis' = NoRevision
    BY <2>1, GoesBack
  <2>3. Contract!Executed
    BY <1>2, <1>3, <1>4, <2>1, <2>2 DEF Contract!Executed, Contract!storeVars, storeVars
  <2> QED
    BY <2>3 DEF Step, Contract!Next
<1> QED
  BY <1>5, <1>6

-----------------------------------------------------------------------------
LEMMA IngestSteps ==
  ASSUME RunInv, Ingest
  PROVE  Step
<1>1. CASE VerifyResult
  <2>1. pc = "VERIFY" /\ pc' = "REVERIFY" /\ revision' = storeRevision /\ Unseen
    BY <1>1 DEF VerifyResult, Unseen, runVars
  <2>2. Phase = "WORKING" /\ Phase' = Phase /\ Basis = NoRevision /\ Basis' = storeRevision
    BY <2>1 DEF Phase, Basis
  <2> QED
    BY <2>1, <2>2, Looks DEF Step, Contract!Next
<1>2. CASE VerifyRevision /\ pc' = "APPLY"
  <2>1. pc = "REVERIFY" /\ storeRevision = revision /\ Unseen /\ UNCHANGED revision
    BY <1>2 DEF VerifyRevision, EndIngest, Proceed, Unseen, runVars, ingestVars
  <2>2. Phase = "WORKING" /\ Basis = storeRevision /\ Phase' = "GRANTED" /\ Basis' = Basis
    BY <1>2, <2>1 DEF Phase, Basis
  <2>3. Contract!Grant
    BY <2>1, <2>2 DEF Contract!Grant, Unseen, Contract!world, Contract!storeVars, shared,
       storeVars
  <2> QED
    BY <2>3 DEF Step, Contract!Next
<1>3. CASE Apply
  <2>1. /\ pc = "APPLY" /\ pc' = "SETTLE"
        /\ UNCHANGED <<referenceRevision, runStatus, used, requestIds, errors>>
        /\ ApplyBatch(revision) \/ UNCHANGED storeVars
    BY <1>3 DEF Apply, runVars
  <2>2. Phase = "GRANTED" /\ Phase' = "WORKING" /\ Basis = revision /\ Basis' = NoRevision
    BY <2>1 DEF Phase, Basis
  <2>3. CASE UNCHANGED storeVars
    BY <2>1, <2>2, <2>3, GivesUp DEF Step, Contract!Next, Unseen, shared
  <2>4. CASE ApplyBatch(revision)
    <3>1. Contract!Write
      BY <2>1, <2>2, <2>4 DEF Contract!Write, ApplyBatch, Contract!ApplyBatch, Contract!None,
         NoRevision
    <3> QED
      BY <3>1 DEF Step, Contract!Next
  <2> QED
    BY <2>1, <2>3, <2>4
<1>4. CASE Settle /\ FailRun
  <2>1. UNCHANGED <<shared, used>> /\ Phase \in {"WORKING", "GRANTED"}
    BY <1>4 DEF Settle, EndIngest, Phase
  <2> QED
    BY <1>4, <2>1, Fails DEF Step, Contract!Next
<1>5. ASSUME Unseen, NEW st, NEW stages, EndIngest(st, stages),
             pc \in {"VERIFY", "REVERIFY", "APPLY", "SETTLE"}
      PROVE  Step
  <2>1. pc' \in {"AUTHORIZE", "VERIFY", "WAVE"}
    BY <1>5 DEF EndIngest, Proceed
  <2>2. Phase \in {"WORKING", "GRANTED"}
    BY <1>5 DEF Phase
  <2> QED
    BY <1>5, <2>1, <2>2, GoesBack, GivesUp DEF Step, Contract!Next
<1>6. CASE ResultRejected \/ ApplyRejected
  BY <1>5, <1>6 DEF ResultRejected, ApplyRejected, Unseen
<1>7. CASE VerifyRevision /\ pc' # "APPLY"
  BY <1>5, <1>7 DEF VerifyRevision, Unseen
<1>8. CASE Settle /\ ~FailRun
  BY <1>5, <1>8 DEF Settle, Unseen
<1> QED
  BY <1>1, <1>2, <1>3, <1>4, <1>6, <1>7, <1>8 DEF Ingest

LEMMA FinishSteps ==
  ASSUME RunInv, Finish
  PROVE  Step
<1>1. CASE FinishAccepted
  <2>1. /\ pc = "FINISH" /\ pc' = "PERSIST" /\ runStatus' = "DONE"
        /\ UNCHANGED <<shared, used, requestIds, errors>>
    BY <1>1 DEF FinishAccepted
  <2>2. Phase \in {"WORKING", "GRANTED"} /\ Phase' = "ENDING" /\ Basis' = NoRevision
    BY <2>1 DEF Phase, Basis
  <2> QED
    BY <2>1, <2>2, Decides DEF Step, Contract!Next, Terminal
<1>2. CASE FinishDenied
  <2>1. pc = "FINISH" /\ pc' = "HEAD" /\ Unseen
    BY <1>2 DEF FinishDenied, DenyTurn, Unseen
  <2>2. Phase \in {"WORKING", "GRANTED"}
    BY <2>1 DEF Phase
  <2> QED
    BY <2>1, <2>2, GoesBack, GivesUp DEF Step, Contract!Next
<1>3. CASE FinishRaises
  <2>1. FailRun /\ UNCHANGED <<shared, used>> /\ Phase \in {"WORKING", "GRANTED"}
    BY <1>3 DEF FinishRaises, Phase
  <2> QED
    BY <2>1, Fails DEF Step, Contract!Next
<1> QED
  BY <1>1, <1>2, <1>3 DEF Finish

LEMMA ConcludeSteps ==
  ASSUME RunInv, Conclude, "STORE" \notin Faults
  PROVE  Step
<1>1. CASE Persist
  <2>1. pc = "PERSIST" /\ pc' = "PRIOR" /\ revision' = storeRevision /\ Unseen
    BY <1>1 DEF Persist, Unseen, runVars
  <2>2. Phase = "ENDING" /\ Phase' = Phase /\ Basis = NoRevision /\ Basis' = storeRevision
    BY <2>1 DEF Phase, Basis
  <2> QED
    BY <2>1, <2>2, Looks DEF Step, Contract!Next
<1>2. CASE PriorStatus
  <2>1. pc = "PRIOR" /\ pc' = "TRANSITION" /\ Unseen /\ UNCHANGED revision
    BY <1>2 DEF PriorStatus, Unseen, runVars, ingestVars
  <2>2. Phase' = Phase /\ Basis' = Basis
    BY <2>1 DEF Phase, Basis
  <2> QED
    BY <2>1, <2>2, Stutters DEF Step
<1>3. CASE Transition
  <2>1. /\ pc = "TRANSITION" /\ pc' = "OBSERVE" /\ TransitionStatus(runStatus, revision)
        /\ UNCHANGED <<referenceRevision, runStatus, used, requestIds, errors>>
    BY <1>3 DEF Transition, runVars
  <2>2. Phase = "ENDING" /\ Phase' = "ENDED" /\ Basis = revision /\ Basis' = NoRevision
    BY <2>1 DEF Phase, Basis
  <2>3. Contract!TransitionStatus(runStatus, revision)
    BY <2>1 DEF TransitionStatus, MayTransition, Contract!TransitionStatus,
       Contract!MayTransition, Terminal, Contract!Terminal
  <2>4. Contract!End
    BY <2>1, <2>2, <2>3 DEF Contract!End, Contract!None, NoRevision
  <2> QED
    BY <2>4 DEF Step, Contract!Next
<1>4. CASE TransitionRaises
  <2>1. /\ pc = "TRANSITION" /\ pc' = "REPORT"
        /\ "ACCESS" \notin Faults => ~MayTransition(runStatus, revision)
        /\ PersistenceFailed /\ UNCHANGED <<shared, used, requestIds>>
    BY <1>4 DEF TransitionRaises, shared
  <2>2. Phase = "ENDING" /\ Phase' = "ENDED" /\ Basis = revision /\ Basis' = NoRevision
    BY <2>1 DEF Phase, Basis
  <2>3. "ACCESS" \notin Faults => ~Contract!MayTransition(runStatus, revision)
    BY <2>1 DEF MayTransition, Contract!MayTransition, Terminal, Contract!Terminal
  <2>4. Contract!Refused
    BY <2>1, <2>2, <2>3 DEF Contract!Refused, PersistenceFailed, Contract!world,
       Contract!storeVars, shared, storeVars, Contract!None, NoRevision
  <2> QED
    BY <2>4 DEF Step, Contract!Next
<1>5. CASE Observe
  <2>1. pc = "OBSERVE" /\ pc' = "CONFIRM" /\ Unseen
    BY <1>5 DEF Observe, Unseen, runVars
  <2>2. Phase' = Phase /\ Basis' = Basis
    BY <2>1 DEF Phase, Basis
  <2> QED
    BY <2>1, <2>2, Stutters DEF Step
<1>6. CASE Confirm
  <2>1. /\ pc = "CONFIRM" /\ pc' = "REPORT" /\ UNCHANGED <<shared, used, requestIds>>
        /\ UNCHANGED <<runStatus, errors>> \/ PersistenceFailed
    BY <1>6 DEF Confirm
  <2>2. Phase = "ENDED" /\ Phase' = Phase /\ Basis' = Basis
    BY <2>1 DEF Phase, Basis
  <2>3. CASE UNCHANGED <<runStatus, errors>>
    BY <2>1, <2>2, <2>3, Stutters DEF Step, Unseen
  <2>4. CASE PersistenceFailed
    <3>1. Contract!Doubt
      BY <2>1, <2>2, <2>4 DEF Contract!Doubt, PersistenceFailed, Contract!world,
         Contract!storeVars, shared, storeVars
    <3> QED
      BY <3>1 DEF Step, Contract!Next
  <2> QED
    BY <2>1, <2>3, <2>4
<1>7. CASE Report
  <2>1. pc = "REPORT" /\ pc' = "DONE" /\ Unseen
    BY <1>7 DEF Report, Unseen, runVars
  <2>2. Phase = "ENDED" /\ Phase' = "RETURNED" /\ Basis' = Basis
    BY <2>1 DEF Phase, Basis
  <2>3. "STATUS_PERSISTENCE_FAILED" \in errors \/ storeStatus = runStatus
    BY <2>1 DEF RunInv, ClaimInv, Honest
  <2>4. Contract!Return
    BY <2>1, <2>2, <2>3 DEF Contract!Return, Unseen, Contract!world, Contract!storeVars,
       shared, storeVars
  <2> QED
    BY <2>4 DEF Step, Contract!Next
<1> QED
  BY <1>1, <1>2, <1>3, <1>4, <1>5, <1>6, <1>7 DEF Conclude, TransitionMisbehaves

LEMMA OutageSteps ==
  ASSUME RunInv, Outage
  PROVE  Step
<1>1. CASE RunRaises
  <2>1. /\ pc \in {"TASK", "HEAD", "PERSIST", "PRIOR", "TRANSITION", "OBSERVE", "CONFIRM",
                   "REPORT"}
        /\ pc' = "RAISED" /\ Unseen
    BY <1>1 DEF RunRaises, Unseen, runVars
  <2>2. Phase \in {"WORKING", "ENDING", "ENDED"} /\ Phase' = "RAISED" /\ Basis' = NoRevision
    BY <2>1 DEF Phase, Basis
  <2>3. Contract!Raise
    BY <2>1, <2>2 DEF Contract!Raise, Unseen, Contract!world, Contract!storeVars, shared,
       storeVars, Contract!None, NoRevision
  <2> QED
    BY <2>3 DEF Step, Contract!Next
<1>2. CASE AccessFailsRun
  <2>1. FailRun /\ UNCHANGED <<shared, used>> /\ Phase \in {"WORKING", "GRANTED"}
    BY <1>2 DEF AccessFailsRun, Phase
  <2> QED
    BY <2>1, Fails DEF Step, Contract!Next
<1>3. CASE AccessDeniesItem \/ AccessRejectsResult
  <2>1. /\ pc \in {"AUTHORIZE", "RECHECK", "REVERIFY"} /\ Unseen
        /\ pc' \in {"AUTHORIZE", "VERIFY", "WAVE"}
    BY <1>3 DEF AccessDeniesItem, AccessRejectsResult, DenyItem, EndIngest, Proceed, Unseen
  <2>2. Phase \in {"WORKING", "GRANTED"}
    BY <2>1 DEF Phase
  <2> QED
    BY <2>1, <2>2, GoesBack, GivesUp DEF Step, Contract!Next
<1>4. CASE AccessHidesTransition
  <2>1. /\ pc \in {"OBSERVE", "CONFIRM"} /\ pc' = "REPORT" /\ PersistenceFailed
        /\ UNCHANGED <<shared, used, requestIds>>
    BY <1>4 DEF AccessHidesTransition
  <2>2. Phase = "ENDED" /\ Phase' = Phase /\ Basis' = Basis
    BY <2>1 DEF Phase, Basis
  <2>3. Contract!Doubt
    BY <2>1, <2>2 DEF Contract!Doubt, PersistenceFailed, Contract!world, Contract!storeVars,
       shared, storeVars
  <2> QED
    BY <2>3 DEF Step, Contract!Next
<1> QED
  BY <1>1, <1>2, <1>3, <1>4 DEF Outage

LEMMA OthersSteps ==
  ASSUME Others
  PROVE  Step
<1>1. Environment /\ UNCHANGED <<pc, runStatus, used, requestIds, errors>>
      /\ UNCHANGED <<projected, frozen, revision>>
  BY DEF Others, local, runVars, dispatchVars, ingestVars
<1>2. Phase' = Phase /\ Basis' = Basis
  BY <1>1 DEF Phase, Basis
<1>3. Contract!Environment
  BY <1>1 DEF Environment, ExternalWrite, ExternalTransition, ReferenceMoves, TransitionStatus,
     MayTransition, storeVars, Terminal, Contract!Environment, Contract!ExternalWrite,
     Contract!ExternalTransition, Contract!ReferenceMoves, Contract!TransitionStatus,
     Contract!MayTransition, Contract!storeVars, Contract!Terminal
<1>4. Contract!Others
  BY <1>1, <1>2, <1>3 DEF Contract!Others
<1> QED
  BY <1>4 DEF Step, Contract!Next

LEMMA ContractStep ==
  "STORE" \notin Faults /\ RunInv /\ [Next]_vars => [Contract!Next]_Contract!contractVars
<1> SUFFICES ASSUME "STORE" \notin Faults, RunInv, [Next]_vars PROVE Step
  BY DEF Step
<1>1. CASE Run
  BY <1>1, LoopSteps, ModelTurnSteps, PreflightSteps, GateSteps, ExecutorSteps, IngestSteps,
     FinishSteps, ConcludeSteps, OutageSteps DEF Run
<1>2. CASE Others
  BY <1>2, OthersSteps
<1>3. CASE Returned \/ UNCHANGED vars
  <2>1. Unseen /\ UNCHANGED <<pc, projected, frozen, revision>>
    BY <1>3 DEF Returned, vars, local, Unseen, runVars, dispatchVars, ingestVars
  <2>2. Phase' = Phase /\ Basis' = Basis
    BY <2>1 DEF Phase, Basis
  <2> QED
    BY <2>1, <2>2, Stutters DEF Step
<1> QED
  BY <1>1, <1>2, <1>3 DEF Next

(* The run keeps its contract, for every value of the constants, as long as  *)
(* the store keeps its protocol: whatever the model answers, the executor    *)
(* and the hooks do, other actors write and whenever an access fails, each   *)
(* effect of the run is one that the contract allows.                        *)
THEOREM ImplementsContractThm ==
  ASSUME "STORE" \notin Faults
  PROVE  Spec => ImplementsContract
<1>1. Init => RunInv
  BY TypeInit, FreshInit, AccountedInit, BudgetInit, ClaimInit DEF RunInv
<1>2. RunInv /\ [Next]_vars => RunInv'
  BY TypeStep, FreshStep, AccountedStep, BudgetStep, ClaimStep DEF RunInv
<1>3. RunInv /\ [Next]_vars => [Contract!Next]_Contract!contractVars
  BY ContractStep
<1> QED
  BY <1>1, <1>2, <1>3, ContractInit, PTL DEF Spec, ImplementsContract, Contract!Spec

-----------------------------------------------------------------------------
(* Work after the end.  A late turn is the one whose model call was counted  *)
(* last; the loop head lets no other begin.                                  *)
LateInv ==
  /\ \A n \in late : n = used["model_calls"]
  /\ late # {} => storeStatus \in Terminal /\ pc \notin {"PROJECT", "PROJECTED"}

LEMMA LateQuiet ==
  ASSUME LateInv, UNCHANGED late, used'["model_calls"] = used["model_calls"],
         storeStatus \in Terminal => storeStatus' \in Terminal,
         late # {} => pc' \notin {"PROJECT", "PROJECTED"}
  PROVE  LateInv'
  BY DEF LateInv

(* Only the loop head lets a turn begin.                                     *)
LEMMA TurnBegins ==
  ASSUME Run, pc' \in {"PROJECT", "PROJECTED"}
  PROVE  (LoopHead /\ storeStatus \notin Terminal) \/ Project
<1>1. CASE TurnAccepted
  BY <1>1, CoordinatorAssumption DEF CoordinatorAssumption, TurnAccepted, Route
<1>2. CASE ~TurnAccepted
  BY <1>2 DEF Run, Start, LoopHead, Stopped, Projected, ModelTurn, TurnFails, TurnDenied,
     UpdateRejected, Preflight, PreflightTool, PreflightBatch, Wave, BatchSettled, Gate, Authorize,
     Bind, BindDenied, Recheck, Dispatch, DispatchDenied, ExecutorReturns, Ingest, VerifyResult,
     ResultRejected, VerifyRevision, Apply, ApplyRejected, Settle, Finish, FinishAccepted,
     FinishDenied, FinishRaises, Conclude, Persist, PriorStatus, Transition,
     TransitionMisbehaves, TransitionRaises, Observe, Confirm, Report, Outage, RunRaises,
     AccessFailsRun, AccessDeniesItem, AccessRejectsResult, AccessHidesTransition, FailRun,
     DenyTurn, DenyItem, EndIngest, Proceed
<1> QED
  BY <1>1, <1>2

LEMMA LateStep == TypeInv /\ ClaimInv /\ LateInv /\ [Next]_vars => LateInv'
<1> SUFFICES ASSUME TypeInv, ClaimInv, LateInv, [Next]_vars PROVE LateInv'
  OBVIOUS
<1>1. CASE Projected
  <2>1. CASE pc' = "GENERATE"
    <3>1. /\ late = {} /\ UNCHANGED shared
          /\ Charge({"model_calls"}) /\ Late(used["model_calls"] + 1)
      BY <1>1, <2>1 DEF Projected, DenyTurn, LateInv
    <3>2. used'["model_calls"] = used["model_calls"] + 1
      BY <3>1, QuotaTyped DEF Charge
    <3> QED
      BY <2>1, <3>1, <3>2 DEF LateInv, Late, shared, storeVars
  <2>2. CASE pc' = "HEAD" /\ UNCHANGED <<shared, used, history>>
    BY <2>2, LateQuiet DEF shared, storeVars, history
  <2> QED
    BY <1>1, <2>1, <2>2 DEF Projected, DenyTurn
<1>2. CASE Dispatch
  <2>1. UNCHANGED shared /\ Late(used["model_calls"]) /\ pc' = "EXECUTING"
    BY <1>2 DEF Dispatch
  <2>2. used'["model_calls"] = used["model_calls"]
    BY <1>2, CallsStill DEF Run, Gate, Dispatch, Projected
  <2> QED
    BY <2>1, <2>2 DEF LateInv, Late, shared, storeVars
<1>3. CASE Run /\ ~Projected /\ ~Dispatch
  <2>1. late # {} => pc' \notin {"PROJECT", "PROJECTED"}
    BY <1>3, TurnBegins DEF LateInv, Project
  <2> QED
    BY <1>3, <2>1, CallsStill, TerminalStays, LateQuiet
<1>4. CASE Others
  <2>1. /\ UNCHANGED <<pc, used, late>>
        /\ storeStatus \in Terminal => storeStatus' \in Terminal
    BY <1>4 DEF Others, Environment, ExternalWrite, ExternalTransition, ReferenceMoves,
       storeVars, local, runVars, history
  <2> QED
    BY <2>1 DEF LateInv
<1>5. CASE Returned \/ UNCHANGED vars
  BY <1>5 DEF Returned, vars, local, shared, storeVars, runVars, history, LateInv
<1> QED
  BY <1>1, <1>2, <1>3, <1>4, <1>5 DEF Next

(* Whatever is still called, dispatched and charged after the task became    *)
(* terminal belongs to a single turn, even over a faulty store.              *)
THEOREM LateWorkBoundedThm == Spec => []LateWorkBounded
<1>1. Init => LateInv
  BY DEF Init, LateInv
<1>2. LateInv => LateWorkBounded
  BY DEF LateInv, LateWorkBounded
<1> QED
  BY <1>1, <1>2, TypeInit, TypeStep, ClaimInit, ClaimStep, LateStep, PTL DEF Spec

-----------------------------------------------------------------------------
(* Why a run ended.  The reason is there when the run concludes and is not   *)
(* lost on the way; a status that needs none was in the store by then, and a *)
(* terminal status is not replaced.                                          *)
Reason(st) ==
  \/ st = "DONE" /\ output
  \/ st = "FAILED" /\ errors # {}
  \/ st = "EXHAUSTED" /\ \E d \in {"model_calls", "steps"} : used[d] = Quota[d]

ExplainInv ==
  /\ pc \in {"PERSIST", "PRIOR"} => Reason(runStatus) \/ storeStatus = runStatus
  /\ pc \in {"TRANSITION", "OBSERVE", "CONFIRM", "REPORT"} => Reason(runStatus) \/ runStatus = prior
  /\ ResultExplained

LEMMA ExplainElsewhere ==
  ASSUME pc' \notin Concluding
  PROVE  ExplainInv'
  BY DEF ExplainInv, ResultExplained, Concluding

LEMMA ExplainFailure ==
  ASSUME FailRun
  PROVE  ExplainInv'
  BY DEF FailRun, ExplainInv, ResultExplained, Reason

LEMMA ExplainVerdict ==
  ASSUME pc' = "PERSIST",
         \/ storeStatus' = runStatus'
         \/ runStatus' = "FAILED" /\ errors' # {}
         \/ runStatus' = "EXHAUSTED" /\ \E d \in {"model_calls", "steps"} : used'[d] = Quota[d]
  PROVE  ExplainInv'
<1>1. (Reason(runStatus) \/ storeStatus = runStatus)'
  BY DEF Reason
<1> QED
  BY <1>1 DEF ExplainInv, ResultExplained

(* The steps that do not conclude.                                           *)
LEMMA StaysOut ==
  ASSUME Preflight \/ Gate \/ ExecutorReturns \/ Ingest \/ Project \/ Projected \/ ModelTurn
  PROVE  FailRun \/ pc' \notin Concluding
<1>1. CASE TurnAccepted
  BY <1>1, CoordinatorAssumption DEF CoordinatorAssumption, TurnAccepted, Route, Concluding
<1>2. CASE ~TurnAccepted
  BY <1>2 DEF Project, Projected, ModelTurn, TurnFails, TurnDenied, UpdateRejected, Preflight,
     PreflightTool, PreflightBatch, Wave, BatchSettled, Gate, Authorize, Bind, BindDenied,
     Recheck, Dispatch, DispatchDenied, ExecutorReturns, Ingest, VerifyResult, ResultRejected,
     VerifyRevision, Apply, ApplyRejected, Settle, DenyTurn, DenyItem, EndIngest, Proceed,
     Concluding
<1> QED
  BY <1>1, <1>2

LEMMA ExplainLoop ==
  ASSUME TypeInv, BudgetInv, Start \/ LoopHead
  PROVE  ExplainInv'
<1>1. CASE pc' = "PERSIST" /\ Start
  <2>1. runStatus' = storeStatus' \/ (runStatus' = "FAILED" /\ "TOKENS" \in errors')
    BY <1>1 DEF Start, shared, storeVars
  <2> QED
    BY <1>1, <2>1, ExplainVerdict
<1>2. CASE pc' = "PERSIST" /\ LoopHead
  <2>1. \/ runStatus' = storeStatus'
        \/ /\ runStatus' = "EXHAUSTED" /\ used' = used
           /\ Remaining(used, "model_calls") <= 0 \/ Remaining(used, "steps") <= 0
    BY <1>2 DEF LoopHead, shared, storeVars
  <2>2. \A d \in {"model_calls", "steps"} :
          /\ used[d] \in Nat /\ Quota[d] \in Nat
          /\ used[d] <= Quota[d]
    BY QuotaTyped DEF BudgetInv, BudgetRespected
  <2>3. \/ runStatus' = storeStatus'
        \/ runStatus' = "EXHAUSTED" /\ \E d \in {"model_calls", "steps"} : used'[d] = Quota[d]
    BY <2>1, <2>2 DEF Remaining
  <2> QED
    BY <1>2, <2>3, ExplainVerdict
<1>3. CASE pc' # "PERSIST"
  BY <1>3, ExplainElsewhere DEF Start, LoopHead, Concluding
<1> QED
  BY <1>1, <1>2, <1>3

LEMMA ExplainConclude ==
  ASSUME ClaimInv, ExplainInv, Conclude \/ AccessHidesTransition
  PROVE  ExplainInv'
<1>1. CASE PersistenceFailed /\ pc' = "REPORT"
  BY <1>1 DEF PersistenceFailed, ExplainInv, ResultExplained, Reason
<1>2. CASE Persist \/ PriorStatus \/ Observe
  BY <1>2 DEF Persist, PriorStatus, Observe, ExplainInv, ResultExplained, Reason, runVars, shared,
     storeVars
<1>3. CASE Transition \/ TransitionMisbehaves \/ (Confirm /\ UNCHANGED <<runStatus, output, errors>>)
  BY <1>3 DEF Transition, TransitionMisbehaves, Confirm, ExplainInv, ResultExplained, Reason,
     runVars, persistVars
<1>4. CASE Report
  <2>1. /\ pc = "REPORT" /\ pc' = "DONE" /\ UNCHANGED <<used, prior>>
        /\ result'.status = runStatus /\ result'.output = output /\ result'.errors = errors
    BY <1>4 DEF Report, runVars
  <2> QED
    BY <2>1 DEF ExplainInv, ResultExplained, Reason
<1>5. CASE TransitionRaises \/ AccessHidesTransition
  BY <1>1, <1>5 DEF TransitionRaises, AccessHidesTransition
<1>6. CASE Confirm
  BY <1>1, <1>3, <1>6 DEF Confirm
<1> QED
  BY <1>2, <1>3, <1>4, <1>5, <1>6 DEF Conclude

LEMMA ExplainStep ==
  TypeInv /\ BudgetInv /\ ClaimInv /\ ExplainInv /\ [Next]_vars => ExplainInv'
<1> SUFFICES ASSUME TypeInv, BudgetInv, ClaimInv, ExplainInv, [Next]_vars PROVE ExplainInv'
  OBVIOUS
<1>1. CASE Finish
  BY <1>1, ExplainFailure, ExplainElsewhere DEF Finish, FinishAccepted, FinishDenied,
     FinishRaises, DenyTurn, Concluding, ExplainInv, ResultExplained, Reason
<1>2. CASE Outage /\ ~AccessHidesTransition
  BY <1>2, ExplainFailure, ExplainElsewhere DEF Outage, RunRaises, AccessFailsRun,
     AccessDeniesItem, AccessRejectsResult, DenyItem, EndIngest, Proceed, Concluding
<1>3. CASE Run /\ ~Finish /\ ~(Outage /\ ~AccessHidesTransition)
  BY <1>3, ExplainLoop, ExplainConclude, StaysOut, ExplainFailure, ExplainElsewhere DEF Run
<1>4. CASE Others
  <2>1. UNCHANGED <<pc, runStatus, used, output, errors, prior, result>>
    BY <1>4 DEF Others, local, runVars, persistVars
  <2>2. storeStatus \in Terminal => storeStatus' = storeStatus
    BY <1>4 DEF Others, Environment, ExternalWrite, ExternalTransition, ReferenceMoves, storeVars
  <2> QED
    BY <2>1, <2>2 DEF ExplainInv, ResultExplained, Reason, ClaimInv, Concluding
<1>5. CASE Returned \/ UNCHANGED vars
  BY <1>5 DEF Returned, vars, local, shared, storeVars, runVars, persistVars, ExplainInv,
     ResultExplained, Reason
<1> QED
  BY <1>1, <1>2, <1>3, <1>4, <1>5 DEF Next

(* Every result has its reason (run, _persist_terminal_status).              *)
THEOREM ResultExplainedThm == Spec => []ResultExplained
<1>1. Init => ExplainInv
  BY DEF Init, ExplainInv, ResultExplained
<1>2. ExplainInv => ResultExplained
  BY DEF ExplainInv
<1> QED
  BY <1>1, <1>2, TypeInit, TypeStep, BudgetInit, BudgetStep, ClaimInit, ClaimStep, ExplainStep,
     PTL DEF Spec

-----------------------------------------------------------------------------
(* The revisions at which the run writes and dispatches.                     *)

(* Every write is bound to the revision it was judged at, as long as the     *)
(* store keeps its protocol (_update, _ingest, _persist_terminal_status).    *)
THEOREM WritesAreBoundThm ==
  ASSUME "STORE" \notin Faults
  PROVE  Spec => WritesAreBound
<1> DEFINE Bounded == pc' # pc /\ storeRevision' # storeRevision => storeRevision = JudgedAt
<1>1. [Next]_vars => Bounded
  <2> SUFFICES ASSUME Next, pc' # pc, storeRevision' # storeRevision
               PROVE  storeRevision = JudgedAt
    BY DEF vars, local
  <2>1. ~(Others \/ Returned)
    BY DEF Others, Returned, local, vars
  <2>2. CASE TurnAccepted
    BY <2>2 DEF TurnAccepted, ApplyBatch, UpdateRevision, JudgedAt, storeVars
  <2>3. CASE Apply \/ Transition
    BY <2>3 DEF Apply, ApplyBatch, Transition, TransitionStatus, MayTransition, JudgedAt, storeVars
  <2>4. CASE Run /\ ~TurnAccepted /\ ~Apply /\ ~Transition
    BY <2>4 DEF Run, Start, LoopHead, Project, Projected, ModelTurn, TurnFails, TurnDenied,
       UpdateRejected, Preflight, PreflightTool, PreflightBatch, Wave, BatchSettled, Gate,
       Authorize, Bind, BindDenied, Recheck, Dispatch, DispatchDenied, ExecutorReturns, Ingest,
       VerifyResult, ResultRejected, VerifyRevision, ApplyRejected, Settle, Finish,
       FinishAccepted, FinishDenied, FinishRaises, Conclude, Persist, PriorStatus,
       TransitionMisbehaves, TransitionRaises, Observe, Confirm, Report, Outage, RunRaises,
       AccessFailsRun, AccessDeniesItem, AccessRejectsResult, AccessHidesTransition, shared,
       storeVars
  <2> QED
    BY <2>1, <2>2, <2>3, <2>4 DEF Next
<1> QED
  BY <1>1, PTL DEF Spec, WritesAreBound

(* A dispatch of anything but a MUTATE has a baseline to be compared with.   *)
Baseline == pc = "EXECUTING" /\ Guarded /\ ToolOf(current).cls # "MUTATE" => before # NoRevision

(* Only Dispatch starts the executor, and only its return ends that.         *)
LEMMA Dispatches ==
  ASSUME TypeInv, Next, pc' # pc
  PROVE  /\ pc' = "EXECUTING" => Dispatch
         /\ pc = "EXECUTING" => ExecutorReturns
<1>1. ~(Others \/ Returned)
  BY DEF Others, Returned, local, vars
<1>2. CASE Start \/ LoopHead \/ Project \/ Projected \/ ModelTurn \/ Finish \/ Conclude
  <2>1. pc' # "EXECUTING"
    BY <1>2, Elsewhere DEF Begun, Acting
  <2>2. pc # "EXECUTING"
    BY <1>2 DEF Start, LoopHead, Project, Projected, ModelTurn, TurnFails, TurnDenied,
       UpdateRejected, TurnAccepted, Finish, FinishAccepted, FinishDenied, FinishRaises, Conclude,
       Persist, PriorStatus, Transition, TransitionMisbehaves, TransitionRaises, Observe, Confirm,
       Report
  <2> QED
    BY <2>1, <2>2
<1>3. CASE Preflight
  BY <1>3 DEF Preflight, PreflightTool, PreflightBatch, Wave, BatchSettled, DenyTurn, Proceed
<1>4. CASE Gate \/ ExecutorReturns \/ Ingest \/ Outage
  <2>1. pc' = "EXECUTING" => Dispatch
    BY <1>4 DEF Gate, Authorize, Bind, BindDenied, Recheck, DispatchDenied, ExecutorReturns,
       Ingest, VerifyResult, ResultRejected, VerifyRevision, Apply, ApplyRejected, Settle, Outage,
       RunRaises, AccessFailsRun, AccessDeniesItem, AccessRejectsResult, AccessHidesTransition,
       FailRun, DenyItem, EndIngest, Proceed
  <2>2. pc = "EXECUTING" => ExecutorReturns
    BY <1>4 DEF Gate, Authorize, Bind, BindDenied, Recheck, Dispatch, DispatchDenied, Ingest,
       VerifyResult, ResultRejected, VerifyRevision, Apply, ApplyRejected, Settle, Outage,
       RunRaises, AccessFailsRun, AccessDeniesItem, AccessRejectsResult, AccessHidesTransition
  <2> QED
    BY <2>1, <2>2
<1> QED
  BY <1>1, <1>2, <1>3, <1>4 DEF Next, Run

LEMMA BaselineStep == TypeInv /\ Baseline /\ [Next]_vars => Baseline'
<1> SUFFICES ASSUME TypeInv, Baseline, [Next]_vars, pc' = "EXECUTING" PROVE Baseline'
  BY DEF Baseline
<1>1. CASE Next /\ pc' # pc
  <2>1. Dispatch
    BY <1>1, Dispatches
  <2>2. /\ UNCHANGED <<turn, current, referenceRevision>>
        /\ before' = IF ToolOf(current).cls = "MUTATE" THEN NoRevision ELSE Reference
    BY <2>1 DEF Dispatch, batchVars, shared
  <2>3. ToolOf(current)' = ToolOf(current)
    BY <2>2 DEF ToolOf
  <2>4. Guarded => Reference # NoRevision
    BY DEF Reference, NoRevision, TypeInv, TypeOK, StoreTypeOK
  <2> QED
    BY <2>2, <2>3, <2>4 DEF Baseline
<1>2. CASE Next /\ pc' = pc
  <2>1. ~Run
    BY <1>2 DEF Run, Start, LoopHead, Project, Projected, ModelTurn, TurnFails, TurnDenied,
       UpdateRejected, TurnAccepted, Preflight, PreflightTool, PreflightBatch, Wave, BatchSettled,
       Gate, Authorize, Bind, BindDenied, Recheck, Dispatch, DispatchDenied, ExecutorReturns,
       Ingest, VerifyResult, ResultRejected, VerifyRevision, Apply, ApplyRejected, Settle, Finish,
       FinishAccepted, FinishDenied, FinishRaises, Conclude, Persist, PriorStatus, Transition,
       TransitionMisbehaves, TransitionRaises, Observe, Confirm, Report, Outage, RunRaises,
       AccessFailsRun, AccessDeniesItem, AccessRejectsResult, AccessHidesTransition, FailRun,
       DenyItem, Proceed
  <2>2. UNCHANGED local
    BY <1>2, <2>1 DEF Next, Others, Returned, vars
  <2> QED
    BY <1>2, <2>2 DEF local, batchVars, dispatchVars, Baseline, ToolOf
<1>3. CASE UNCHANGED vars
  BY <1>3 DEF vars, local, batchVars, dispatchVars, Baseline, ToolOf
<1> QED
  BY <1>1, <1>2, <1>3

(* The reference world belongs to approved MUTATEs (check_dispatch,          *)
(* _execute): what the theorem says of a guarded run needs no assumption on  *)
(* the guard beyond its answers being the revisions of that world.           *)
THEOREM ReferenceDisciplineThm == Spec => ReferenceDiscipline
<1> DEFINE Disciplined ==
      Guarded =>
        /\ pc # "EXECUTING" /\ pc' = "EXECUTING" /\ ToolOf(current)'.cls = "MUTATE" =>
             referenceRevision = frozen'.reference
        /\ pc = "EXECUTING" /\ pc' # pc /\ ToolOf(current).cls # "MUTATE"
             /\ referenceRevision' # before => runStatus' = "FAILED"
<1>1. TypeInv /\ Baseline /\ [Next]_vars => Disciplined
  <2> SUFFICES ASSUME TypeInv, Baseline, Next, pc' # pc, Guarded PROVE Disciplined
    BY DEF vars, local
  <2>1. ASSUME pc' = "EXECUTING", ToolOf(current)'.cls = "MUTATE"
        PROVE  referenceRevision = frozen'.reference
    <3>1. Dispatch
      BY <2>1, Dispatches
    <3>2. UNCHANGED <<turn, current, frozen>> /\ ReferenceHolds
      BY <3>1 DEF Dispatch, batchVars
    <3>3. ToolOf(current)' = ToolOf(current)
      BY <3>2 DEF ToolOf
    <3> QED
      BY <2>1, <3>2, <3>3 DEF ReferenceHolds
  <2>2. ASSUME pc = "EXECUTING", ToolOf(current).cls # "MUTATE", referenceRevision' # before
        PROVE  runStatus' = "FAILED"
    <3>1. ExecutorReturns /\ before # NoRevision
      BY <2>2, Dispatches DEF Baseline
    <3> QED
      BY <2>2, <3>1 DEF ExecutorReturns, FailRun
  <2> QED
    BY <2>1, <2>2
<1>2. Init => Baseline
  BY DEF Init, Baseline
<1> QED
  BY <1>1, <1>2, TypeInit, TypeStep, BaselineStep, PTL DEF Spec, ReferenceDiscipline

-----------------------------------------------------------------------------
(* What the model is told.  A TOOL_REQUEST has been spoken of by the time    *)
(* its single item is settled; a batch is spoken of when it is over.         *)
Spoken ==
  /\ pc = "TOOL" => turn.action = "TOOL_REQUEST"
  /\ pc = "BATCH" => turn.action = "WORK_BATCH"
  /\ pc \in Begun => turn.action \in {"TOOL_REQUEST", "WORK_BATCH"}
  /\ pc = "WAVE" => turn.action = "WORK_BATCH" \/ feedback # {}

LEMMA SpokenElsewhere ==
  ASSUME pc' \notin {"TOOL", "BATCH"} \cup Begun
  PROVE  Spoken'
  BY DEF Spoken, Begun

LEMMA SpokenGoesOn ==
  ASSUME Spoken, pc \in Begun, UNCHANGED turn, pc' \in Begun,
         pc' = "WAVE" => turn.action = "WORK_BATCH" \/ feedback' # {}
  PROVE  Spoken'
  BY DEF Spoken, Begun, Acting, Ingesting

LEMMA SpokenMoves ==
  ASSUME Spoken, pc \in Acting \cup Ingesting, UNCHANGED turn, NEW w, Proceed(w),
         turn.action = "TOOL_REQUEST" => feedback' # {}
  PROVE  Spoken'
<1>1. turn.action \in {"TOOL_REQUEST", "WORK_BATCH"} /\ pc \in Begun
  BY DEF Spoken, Begun
<1>2. pc' \in Begun
  BY DEF Proceed, Begun, Acting, Ingesting
<1> QED
  BY <1>1, <1>2, SpokenGoesOn

LEMMA SpokenItems ==
  ASSUME TypeInv, Spoken, Gate \/ ExecutorReturns \/ Ingest \/ Outage
  PROVE  Spoken'
<1>1. ASSUME DenyItem, UNCHANGED turn, pc \in Acting PROVE Spoken'
  BY <1>1, SpokenMoves DEF DenyItem
<1>2. ASSUME NEW st, NEW stages, EndIngest(st, stages), UNCHANGED turn, pc \in Ingesting
      PROVE  Spoken'
  <2>1. turn.action = "TOOL_REQUEST" => feedback' # {}
    BY <1>2 DEF EndIngest, OutcomeToReport
  <2> QED
    BY <1>2, <2>1, SpokenMoves DEF EndIngest
<1>3. CASE FailRun
  BY <1>3, SpokenElsewhere DEF FailRun, Begun, Acting, Ingesting
<1>4. CASE Gate
  <2>1. CASE DenyItem
    BY <1>1, <1>4, <2>1 DEF Gate, Authorize, Bind, BindDenied, Recheck, Dispatch, DispatchDenied,
       Acting
  <2>2. CASE ~DenyItem
    <3>1. pc \in Begun /\ pc' \in Begun \ {"WAVE"} /\ UNCHANGED turn
      BY <1>4, <2>2 DEF Gate, Authorize, Bind, BindDenied, Recheck, Dispatch, DispatchDenied,
         Begun, Acting
    <3> QED
      BY <3>1, SpokenGoesOn
  <2> QED
    BY <2>1, <2>2
<1>5. CASE ExecutorReturns /\ ~FailRun
  <2>1. pc = "EXECUTING" /\ UNCHANGED turn
        /\ (DenyItem \/ Proceed([work EXCEPT ![current] = "RETURNED"]))
    BY <1>5 DEF ExecutorReturns
  <2>2. CASE DenyItem
    BY <1>1, <2>1, <2>2 DEF Acting
  <2>3. CASE Proceed([work EXCEPT ![current] = "RETURNED"])
    <3> DEFINE w == [work EXCEPT ![current] = "RETURNED"]
    <3>1. current \in WorkIds /\ work \in [WorkIds -> ItemStates]
      BY <2>1 DEF TypeInv, TypeOK, TurnTypeOK, Placed, Acting
    <3>2. w[current] = "RETURNED"
      BY <3>1
    <3>3. current \in In(w, "RETURNED")
      BY <3>1, <3>2 DEF In
    <3> HIDE DEF w
    <3>4. pc' \in {"AUTHORIZE", "VERIFY"}
      BY <2>3, <3>3 DEF Proceed, w
    <3> QED
      BY <2>1, <3>4, SpokenGoesOn DEF Begun, Acting, Ingesting
  <2> QED
    BY <2>1, <2>2, <2>3
<1>6. CASE Ingest /\ ~FailRun
  <2>1. CASE VerifyResult \/ Apply
    <3>1. pc \in Begun /\ pc' \in Begun \ {"WAVE"} /\ UNCHANGED turn
      BY <2>1 DEF VerifyResult, Apply, Begun, Ingesting
    <3> QED
      BY <3>1, SpokenGoesOn
  <2>2. CASE VerifyRevision
    <3>1. CASE pc' = "APPLY"
      <4>1. pc \in Begun /\ pc' \in Begun \ {"WAVE"} /\ UNCHANGED turn
        BY <2>2, <3>1 DEF VerifyRevision, Begun, Ingesting
      <4> QED
        BY <4>1, SpokenGoesOn
    <3>2. CASE pc' # "APPLY"
      BY <1>2, <2>2, <3>2 DEF VerifyRevision, Ingesting
    <3> QED
      BY <3>1, <3>2
  <2>3. CASE ResultRejected \/ ApplyRejected \/ Settle
    BY <1>2, <1>6, <2>3 DEF ResultRejected, ApplyRejected, Settle, Ingesting
  <2> QED
    BY <1>6, <2>1, <2>2, <2>3 DEF Ingest
<1>7. CASE Outage
  <2>1. CASE AccessDeniesItem
    BY <1>1, <2>1 DEF AccessDeniesItem, Acting
  <2>2. CASE AccessRejectsResult
    BY <1>2, <2>2 DEF AccessRejectsResult, Ingesting
  <2>3. CASE RunRaises \/ AccessFailsRun \/ AccessHidesTransition
    BY <2>3, SpokenElsewhere DEF RunRaises, AccessFailsRun, AccessHidesTransition, FailRun, Begun,
       Acting, Ingesting
  <2> QED
    BY <1>7, <2>1, <2>2, <2>3 DEF Outage
<1> QED
  BY <1>3, <1>4, <1>5, <1>6, <1>7

LEMMA SpokenStep == TypeInv /\ Spoken /\ [Next]_vars => Spoken'
<1> SUFFICES ASSUME TypeInv, Spoken, [Next]_vars PROVE Spoken'
  OBVIOUS
<1>1. CASE TurnAccepted
  <2>1. PICK t \in Turns : /\ pc' = Route[t.action]
                           /\ IF t.action = "NONE" THEN EndTurn ELSE turn' = t
    BY <1>1 DEF TurnAccepted
  <2>2. /\ Route[t.action] \in {"HEAD", "TOOL", "BATCH", "FINISH"}
        /\ Route[t.action] = "TOOL" => t.action = "TOOL_REQUEST"
        /\ Route[t.action] = "BATCH" => t.action = "WORK_BATCH"
    BY CoordinatorAssumption DEF CoordinatorAssumption, Route
  <2> QED
    BY <2>1, <2>2 DEF Spoken, Begun, Acting, Ingesting
<1>2. CASE \/ Start \/ LoopHead \/ Project \/ Projected \/ TurnFails \/ TurnDenied
           \/ UpdateRejected \/ Finish \/ Conclude
  <2>1. pc' \notin {"TOOL", "BATCH"} \cup Begun
    BY <1>2 DEF Start, LoopHead, Project, Projected, TurnFails, TurnDenied, UpdateRejected, Finish,
       FinishAccepted, FinishDenied, FinishRaises, Conclude, Persist, PriorStatus, Transition,
       TransitionMisbehaves, TransitionRaises, Observe, Confirm, Report, FailRun, DenyTurn, Begun,
       Acting, Ingesting
  <2> QED
    BY <2>1, SpokenElsewhere
<1>3. CASE Preflight
  <2>1. CASE pc' = "HEAD"
    BY <2>1, SpokenElsewhere DEF Begun, Acting, Ingesting
  <2>2. CASE PreflightTool /\ pc' # "HEAD"
    BY <2>2 DEF PreflightTool, DenyTurn, Spoken, Begun, Acting, Ingesting
  <2>3. CASE PreflightBatch /\ pc' # "HEAD"
    BY <2>3 DEF PreflightBatch, DenyTurn, Spoken, Begun, Acting, Ingesting
  <2>4. CASE Wave
    <3>1. pc = "WAVE" /\ pc' \in {"AUTHORIZE", "VERIFY", "WAVE"} /\ UNCHANGED <<turn, feedback>>
      BY <2>4 DEF Wave, Proceed, runVars
    <3> QED
      BY <3>1, SpokenGoesOn DEF Spoken, Begun, Acting, Ingesting
  <2> QED
    BY <1>3, <2>1, <2>2, <2>3, <2>4 DEF Preflight, BatchSettled
<1>4. CASE Gate \/ ExecutorReturns \/ Ingest \/ Outage
  BY <1>4, SpokenItems
<1>5. CASE Others \/ Returned \/ UNCHANGED vars
  BY <1>5 DEF Others, Returned, vars, local, runVars, Spoken
<1> QED
  BY <1>1, <1>2, <1>3, <1>4, <1>5 DEF Next, Run, ModelTurn

(* A request, batch or finish that comes to nothing, or to something, is     *)
(* always reported to the model (except Denied, _execute, _ingest, _batch).  *)
THEOREM NoSilentTurnThm == Spec => NoSilentTurn
<1> DEFINE Told == pc' = "HEAD" /\ pc \notin {"TASK", "GENERATE", "HEAD"} => feedback' # {}
<1>1. Spoken /\ [Next]_vars => Told
  <2> SUFFICES ASSUME Spoken, Next, pc' = "HEAD", pc \notin {"TASK", "GENERATE", "HEAD"}
               PROVE  feedback' # {}
    BY DEF vars, local
  <2>1. ~(Others \/ Returned)
    BY DEF Others, Returned, local, vars
  <2>2. ASSUME NEW stage, DenyTurn(stage) PROVE feedback' # {}
    BY <2>2 DEF DenyTurn
  <2>3. CASE BatchSettled
    BY <2>3 DEF BatchSettled, Spoken
  <2>4. CASE Projected \/ PreflightTool \/ PreflightBatch \/ Finish
    BY <2>2, <2>4 DEF Projected, PreflightTool, PreflightBatch, Finish, FinishAccepted,
       FinishDenied, FinishRaises, FailRun
  <2>5. ~(Start \/ LoopHead \/ Project \/ ModelTurn \/ Wave \/ Gate \/ ExecutorReturns \/ Ingest
            \/ Conclude \/ Outage)
    BY DEF Start, LoopHead, Project, ModelTurn, TurnFails, TurnDenied, UpdateRejected,
       TurnAccepted, Wave, Gate, Authorize, Bind, BindDenied, Recheck, Dispatch, DispatchDenied,
       ExecutorReturns, Ingest, VerifyResult, ResultRejected, VerifyRevision, Apply,
       ApplyRejected, Settle, Conclude, Persist, PriorStatus, Transition, TransitionMisbehaves,
       TransitionRaises, Observe, Confirm, Report, Outage, RunRaises, AccessFailsRun,
       AccessDeniesItem, AccessRejectsResult, AccessHidesTransition, FailRun, DenyItem, EndIngest,
       Proceed
  <2> QED
    BY <2>1, <2>3, <2>4, <2>5 DEF Next, Run, Preflight
<1>2. Init => Spoken
  BY DEF Init, Spoken, Begun, Acting, Ingesting
<1> QED
  BY <1>1, <1>2, TypeInit, TypeStep, SpokenStep, PTL DEF Spec, NoSilentTurn
=============================================================================
