-------------------------- MODULE CoordinatorSafety --------------------------
(***************************************************************************)
(* Type correctness of Coordinator, the lemmas about its helpers that the  *)
(* other proofs use, and its safety invariants about what the Agent may    *)
(* cite, what the run may spend and what its result claims, proved for     *)
(* every value of the constants.                                           *)
(***************************************************************************)
EXTENDS Coordinator, FiniteSetTheorems, WellFoundedInduction, TLAPS

(* A nonempty set of naturals has the least element that Least chooses.      *)
LEMMA LeastExists ==
  ASSUME NEW S, S \subseteq Nat, S # {}
  PROVE  Least(S) \in S /\ \A j \in S : Least(S) <= j
<1> DEFINE R == OpToRel(<, Nat)
<1>1. PICK k \in S : \A j \in S : ~(<<j, k>> \in R)
  <2>1. IsWellFoundedOn(R, Nat)
    BY NatLessThanWellFounded
  <2> HIDE DEF R
  <2> QED
    BY <2>1, WFMin
<1>2. ASSUME NEW j \in S PROVE k <= j
  <2>1. ~(<<j, k>> \in {ss \in Nat \X Nat : ss[1] < ss[2]})
    BY <1>1 DEF OpToRel
  <2>2. j \in Nat /\ k \in Nat
    OBVIOUS
  <2>3. ~(j < k)
    BY <2>1, <2>2
  <2> QED
    BY <2>2, <2>3
<1> QED
  BY <1>2 DEF Least

(* Whatever static_check sizes is a draw (reservation, resolve).             *)
LEMMA SizingIsDraw ==
  ASSUME NEW spec, IsToolSpec(spec), NEW s \in SizingsOf(spec)
  PROVE  IsDraw(s.draw) /\ DOMAIN s.draw \cap Standard = {}
<1>1. Sizeable(spec)
  BY DEF SizingsOf
<1>2. PICK a : IsDraw(a) /\ s = Resolve(spec, a)
  BY <1>1, GatesAssumption DEF SizingsOf, GatesAssumption
<1>3. s.draw = [d \in Declares(spec) |-> IF d \in DOMAIN a THEN a[d] ELSE Reservation(spec)[d]]
  BY <1>2 DEF Resolve
<1>4. Declares(spec) \subseteq Dimensions
  BY DEF Declares, IsToolSpec, IsDraw
<1>5. \A d \in Declares(spec) : Reservation(spec)[d] \in Nat
  BY <1>1 DEF Reservation, Declares, Sizeable, IsToolSpec, IsDraw
<1>6. \A d \in DOMAIN a : a[d] \in Nat
  BY <1>2 DEF IsDraw
<1>7. s.draw \in [Declares(spec) -> Nat]
  BY <1>3, <1>5, <1>6
<1> QED
  BY <1>1, <1>4, <1>7 DEF IsDraw, Sizeable

(* A request that passes static_check names a registered tool.               *)
LEMMA SupportedTyped ==
  ASSUME NEW request, NEW s \in Supported(request)
  PROVE  /\ request.tool \in DOMAIN Specs
         /\ s \in StaticCheck(request, known)
         /\ IsDraw(s.draw) /\ DOMAIN s.draw \cap Standard = {}
<1>1. s \in StaticCheck(request, known)
  BY DEF Supported
<1>2. request.tool \in DOMAIN Specs /\ s \in SizingsOf(Specs[request.tool])
  BY <1>1 DEF StaticCheck, G0
<1> QED
  BY <1>1, <1>2, SizingIsDraw, GatesAssumption DEF GatesAssumption

LEMMA NoDrawIsDraw == IsDraw(NoDraw) /\ DOMAIN NoDraw = {}
  BY DEF IsDraw, NoDraw

(* What is charged is a natural; it is at most the reservation in every      *)
(* dimension that the result did not overdraw, and at least the reservation  *)
(* when the result violated it (reconcile).                                  *)
LEMMA ChargedBounds ==
  ASSUME NEW reserved, IsDraw(reserved), NEW actual, IsDraw(actual), NEW d
  PROVE  /\ Charged(reserved, actual, d) \in Nat
         /\ Amount(reserved, d) \in Nat
         /\ d \in Standard => Charged(reserved, actual, d) = 0
         /\ d \notin Standard /\ Violates(reserved, actual)
              => Charged(reserved, actual, d) >= Amount(reserved, d)
         /\ ~Violates(reserved, actual)
              => Charged(reserved, actual, d) <= Amount(reserved, d)
<1>1. Amount(reserved, d) \in Nat /\ Amount(actual, d) \in Nat
  BY DEF Amount, IsDraw
<1>2. ASSUME ~Violates(reserved, actual)
      PROVE  Amount(actual, d) <= Amount(reserved, d)
  <2>1. CASE d \in DOMAIN actual /\ d \in DOMAIN reserved
    BY <1>1, <1>2, <2>1 DEF Violates, Amount, IsDraw
  <2>2. CASE d \in DOMAIN actual /\ d \notin DOMAIN reserved
    BY <1>1, <1>2, <2>2 DEF Violates, Amount, IsDraw
  <2>3. CASE d \notin DOMAIN actual
    BY <1>1, <2>3 DEF Amount
  <2> QED
    BY <2>1, <2>2, <2>3
<1> QED
  BY <1>1, <1>2 DEF Charged

-----------------------------------------------------------------------------
(* Type correctness.  TypeOK is not inductive by itself: that an item being  *)
(* executed or ingested is one of the turn, and that its tool is registered, *)
(* depends on where the run is.                                              *)
Acting    == {"AUTHORIZE", "BIND", "RECHECK", "DISPATCH", "EXECUTING"}
Bound     == Acting \ {"AUTHORIZE"}
Ingesting == {"VERIFY", "REVERIFY", "APPLY", "SETTLE"}
Idle      == {"TASK", "HEAD", "PROJECT", "PROJECTED", "GENERATE", "TOOL", "BATCH", "FINISH"}

Placed ==
  /\ \A k \in WorkIds : work[k] # "ABSENT" => k \in DOMAIN turn.items
  /\ pc \in Idle => \A k \in WorkIds : work[k] = "ABSENT"
  /\ pc \in Acting => current \in WorkIds /\ work[current] = "READY"
  /\ pc \in Ingesting => current \in WorkIds /\ work[current] = "RETURNED"
  /\ pc \in Bound => Request.tool \in DOMAIN Specs

TypeInv == TypeOK /\ Placed

LEMMA NothingTyped ==
  /\ IsDraw(NoSizing.draw)
  /\ Declared(NoOutcome.result.refs) = {}
  /\ NoFrozen \in [state : Revisions, reference : Revisions, approved : BOOLEAN]
  /\ NoRevision \in Revisions
  /\ DOMAIN NoTurn.items = {}
<1>1. IsDraw(NoSizing.draw)
  BY NoDrawIsDraw DEF NoSizing
<1>2. Declared(NoOutcome.result.refs) = {}
  BY DEF Declared, NoOutcome, NoResult
<1>3. NoFrozen \in [state : Revisions, reference : Revisions, approved : BOOLEAN]
  BY DEF NoFrozen, Revisions, NoRevision
<1> QED
  BY <1>1, <1>2, <1>3 DEF Revisions, NoTurn

LEMMA TypeInit == Init => TypeInv
<1> SUFFICES ASSUME Init PROVE TypeInv
  OBVIOUS
<1>1. StoreTypeOK
  BY StoreAssumption DEF Init, StoreInit, StoreTypeOK, StoreAssumption, Statuses
<1>2. RunTypeOK
  <2>1. IsFiniteSet(requestIds)
    BY FS_EmptySet DEF Init
  <2>2. InitiallyKnown \subseteq Refs
    BY VerificationAssumption DEF VerificationAssumption, InitiallyKnown, LastOfEachId
  <2> QED
    BY <2>1, <2>2 DEF Init, RunTypeOK, Locations, Statuses
<1>3. TurnTypeOK
  BY NothingTyped DEF Init, TurnTypeOK, ItemStates
<1>4. ReportTypeOK
  BY NothingTyped DEF Init, ReportTypeOK, Statuses, NoReport
<1>5. Placed
  BY DEF Init, Placed, Acting, Bound, Ingesting, Idle
<1> QED
  BY <1>1, <1>2, <1>3, <1>4, <1>5 DEF TypeInv, TypeOK

(* The turn being worked on is one of the model's, and its items are typed.  *)
LEMMA ItemTyped ==
  ASSUME TypeInv, NEW k \in DOMAIN turn.items
  PROVE  turn \in Turns /\ k \in WorkIds /\ IsItem(turn.items[k])
<1>1. turn \in Turns
  BY NothingTyped DEF TypeInv, TypeOK, TurnTypeOK
<1> QED
  BY <1>1, CoordinatorAssumption DEF CoordinatorAssumption

(* The actions of the other actors.                                          *)
LEMMA TypeEnvironment ==
  ASSUME TypeInv, Environment, UNCHANGED local
  PROVE  TypeInv'
<1>1. StoreTypeOK'
  BY StoreAssumption DEF TypeInv, TypeOK, StoreTypeOK, Environment, ExternalWrite,
     ExternalTransition, ReferenceMoves, TransitionStatus, MayTransition, storeVars,
     StoreAssumption, Terminal, Statuses
<1>2. RunTypeOK' /\ TurnTypeOK' /\ ReportTypeOK' /\ Placed'
  BY DEF TypeInv, TypeOK, RunTypeOK, TurnTypeOK, ReportTypeOK, Placed, Request, local, runVars,
     batchVars, dispatchVars, ingestVars, persistVars, history
<1> QED
  BY <1>1, <1>2 DEF TypeInv, TypeOK

(* Where no item is being executed or ingested, Placed is about work only.   *)
LEMMA PlacedElsewhere ==
  ASSUME TypeInv, UNCHANGED <<turn, work>>, pc' \notin Acting \cup Ingesting,
         pc' \in Idle => pc \in Idle
  PROVE  Placed'
  BY DEF TypeInv, Placed, Bound

LEMMA EndTurnTyped ==
  ASSUME EndTurn, pc' \in {"HEAD", "PERSIST"}
  PROVE  TurnTypeOK' /\ Placed'
<1>1. TurnTypeOK'
  BY NothingTyped DEF EndTurn, NoWork, TurnTypeOK, ItemStates
<1>2. Placed'
  BY DEF EndTurn, NoWork, Placed, Acting, Bound, Ingesting
<1> QED
  BY <1>1, <1>2

LEMMA DenyTyped ==
  ASSUME TypeInv, NEW stage \in Stages, DenyTurn(stage), UNCHANGED <<shared, history>>,
         used' \in [DOMAIN Quota -> Nat]
  PROVE  TypeInv'
<1>1. StoreTypeOK' /\ RunTypeOK' /\ ReportTypeOK'
  BY DEF TypeInv, TypeOK, StoreTypeOK, RunTypeOK, ReportTypeOK, DenyTurn, Locations, shared,
     storeVars, history, persistVars
<1> QED
  BY <1>1, EndTurnTyped DEF DenyTurn, TypeInv, TypeOK

LEMMA FailTyped ==
  ASSUME TypeInv, FailRun, StoreTypeOK', used' \in [DOMAIN Quota -> Nat],
         overdrawn' \subseteq DOMAIN Quota, late' \subseteq Nat
  PROVE  TypeInv'
<1>1. RunTypeOK' /\ ReportTypeOK'
  BY DEF TypeInv, TypeOK, RunTypeOK, ReportTypeOK, FailRun, Locations, Statuses, Terminal,
     ErrorKinds, persistVars
<1> QED
  BY <1>1, EndTurnTyped DEF FailRun, TypeInv, TypeOK

LEMMA ChargeTyped ==
  ASSUME TypeInv, NEW dims, Charge(dims)
  PROVE  used' \in [DOMAIN Quota -> Nat]
  BY DEF TypeInv, TypeOK, RunTypeOK, Charge

(* Going on to the next item, to ingestion or to the next wave.              *)
LEMMA ProceedTyped ==
  ASSUME NEW w \in [WorkIds -> ItemStates],
         \A k \in WorkIds : w[k] # "ABSENT" => k \in DOMAIN turn.items,
         Proceed(w), UNCHANGED turn
  PROVE  /\ work' \in [WorkIds -> ItemStates]
         /\ current' \in WorkIds \cup {0}
         /\ pc' \in {"AUTHORIZE", "VERIFY", "WAVE"}
         /\ Placed'
<1> DEFINE ready == In(w, "READY")
           taken == In(w, "RETURNED")
<1>0. /\ work' = w
      /\ pc' = IF ready # {} THEN "AUTHORIZE" ELSE IF taken # {} THEN "VERIFY" ELSE "WAVE"
      /\ current' = IF ready # {} THEN Least(ready) ELSE IF taken # {} THEN Least(taken) ELSE 0
  BY DEF Proceed
<1>1. WorkIds \subseteq Nat
  BY CoordinatorAssumption DEF CoordinatorAssumption
<1>2. ready # {} => Least(ready) \in WorkIds /\ w[Least(ready)] = "READY"
  BY <1>1, LeastExists DEF In
<1>3. taken # {} => Least(taken) \in WorkIds /\ w[Least(taken)] = "RETURNED"
  BY <1>1, LeastExists DEF In
<1> HIDE DEF ready, taken
<1>4. /\ current' \in WorkIds \cup {0}
      /\ pc' \in {"AUTHORIZE", "VERIFY", "WAVE"}
      /\ pc' = "AUTHORIZE" => current' \in WorkIds /\ w[current'] = "READY"
      /\ pc' = "VERIFY" => current' \in WorkIds /\ w[current'] = "RETURNED"
  BY <1>0, <1>2, <1>3
<1>5. Placed'
  BY <1>0, <1>4 DEF Placed, Acting, Bound, Ingesting, Idle
<1> QED
  BY <1>0, <1>4, <1>5
-----------------------------------------------------------------------------
LEMMA TypeLoop ==
  ASSUME TypeInv, Start \/ LoopHead \/ Project \/ Projected
  PROVE  TypeInv'
<1>1. CASE Start \/ LoopHead
  <2>1. pc' \in {"PERSIST", "HEAD", "PROJECT"} /\ runStatus' \in Statuses /\ errors' \subseteq ErrorKinds
    BY <1>1 DEF Start, LoopHead, TypeInv, TypeOK, RunTypeOK, ErrorKinds, Statuses, StoreTypeOK,
       Terminal
  <2>2. UNCHANGED <<shared, used, known, requestIds, feedback, output, projected, turn,
                    batchVars, dispatchVars, ingestVars, persistVars, history>>
    BY <1>1 DEF Start, LoopHead
  <2>3. StoreTypeOK' /\ RunTypeOK' /\ TurnTypeOK' /\ ReportTypeOK'
    BY <2>1, <2>2 DEF TypeInv, TypeOK, StoreTypeOK, RunTypeOK, TurnTypeOK, ReportTypeOK, shared,
       storeVars, batchVars, dispatchVars, ingestVars, persistVars, history, Locations
  <2>4. Placed'
    BY <1>1, <2>1, <2>2, PlacedElsewhere DEF Start, LoopHead, Acting, Ingesting, Idle, batchVars
  <2> QED
    BY <2>3, <2>4 DEF TypeInv, TypeOK
<1>2. CASE Project
  <2>1. StoreTypeOK' /\ RunTypeOK' /\ TurnTypeOK' /\ ReportTypeOK'
    BY <1>2, NothingTyped DEF Project, TypeInv, TypeOK, StoreTypeOK, RunTypeOK, TurnTypeOK,
       ReportTypeOK, shared, storeVars, runVars, batchVars, dispatchVars, ingestVars,
       persistVars, history, Locations, Revisions
  <2>2. Placed'
    BY <1>2, PlacedElsewhere DEF Project, Acting, Ingesting, Idle, batchVars
  <2> QED
    BY <2>1, <2>2 DEF TypeInv, TypeOK
<1>3. CASE Projected
  <2>1. CASE DenyTurn("MODEL_TURN") /\ UNCHANGED <<used, history>>
    <3>1. used' \in [DOMAIN Quota -> Nat] /\ "MODEL_TURN" \in Stages /\ UNCHANGED shared
      BY <1>3, <2>1 DEF Projected, TypeInv, TypeOK, RunTypeOK, Stages
    <3> QED
      BY <2>1, <3>1, DenyTyped
  <2>2. CASE pc' = "GENERATE"
    <3>1. used' \in [DOMAIN Quota -> Nat]
      BY <1>3, <2>2, ChargeTyped DEF Projected, DenyTurn
    <3>2. /\ feedback' = {} /\ late' \subseteq Nat
          /\ UNCHANGED <<shared, runStatus, known, requestIds, output, errors, projected, turn,
                         batchVars, dispatchVars, ingestVars, persistVars, overdrawn>>
      <4>1. used["model_calls"] + 1 \in Nat /\ late \subseteq Nat
        BY GatesAssumption DEF GatesAssumption, Standard, TypeInv, TypeOK, RunTypeOK
      <4> QED
        BY <1>3, <2>2, <4>1 DEF Projected, DenyTurn, Late
    <3>4. StoreTypeOK' /\ RunTypeOK' /\ TurnTypeOK' /\ ReportTypeOK'
      BY <2>2, <3>1, <3>2 DEF TypeInv, TypeOK, StoreTypeOK, RunTypeOK, TurnTypeOK,
         ReportTypeOK, shared, storeVars, batchVars, dispatchVars, ingestVars, persistVars,
         Locations
    <3>3. Placed'
      BY <1>3, <2>2, PlacedElsewhere DEF Projected, DenyTurn, Acting, Ingesting, Idle, batchVars
    <3> QED
      BY <3>3, <3>4 DEF TypeInv, TypeOK
  <2> QED
    BY <1>3, <2>1, <2>2 DEF Projected
<1> QED
  BY <1>1, <1>2, <1>3

LEMMA TypeModelTurn ==
  ASSUME TypeInv, ModelTurn
  PROVE  TypeInv'
<1>0. used \in [DOMAIN Quota -> Nat] /\ overdrawn \subseteq DOMAIN Quota /\ late \subseteq Nat
      /\ StoreTypeOK
  BY DEF TypeInv, TypeOK, RunTypeOK
<1>1. CASE TurnFails
  <2>1. FailRun /\ StoreTypeOK' /\ UNCHANGED <<used, overdrawn, late>>
    BY <1>0, <1>1 DEF TurnFails, StoreTypeOK, shared, storeVars, history
  <2> QED
    BY <1>0, <2>1, FailTyped
<1>2. CASE TurnDenied
  <2>1. "MODEL_TURN" \in Stages
    BY DEF Stages
  <2> QED
    BY <1>0, <1>2, <2>1, DenyTyped DEF TurnDenied
<1>3. CASE UpdateRejected
  <2>1. "STATE_UPDATE" \in Stages
    BY DEF Stages
  <2> QED
    BY <1>3, <2>1, ChargeTyped, DenyTyped DEF UpdateRejected
<1>4. CASE TurnAccepted
  <2>1. PICK t \in Turns, update \in {"NONE", "VALID"} :
          /\ \/ update = "NONE" /\ UNCHANGED <<storeVars, used>>
             \/ update = "VALID" /\ Charge({"steps"}) /\ ApplyBatch(UpdateRevision)
          /\ pc' = Route[t.action]
          /\ IF t.action = "NONE"
             THEN EndTurn
             ELSE /\ turn' = t /\ projected' = NoRevision
                  /\ UNCHANGED <<batchVars, dispatchVars, ingestVars>>
    BY <1>4 DEF TurnAccepted
  <2>2. pc = "GENERATE" /\ UNCHANGED <<referenceRevision, runStatus, known, requestIds, feedback,
                                       output, errors, persistVars, history>>
    BY <1>4 DEF TurnAccepted
  <2>3. t.action \in DOMAIN Route
    BY CoordinatorAssumption DEF CoordinatorAssumption
  <2>4. pc' \in {"HEAD", "TOOL", "BATCH", "FINISH"} /\ (t.action = "NONE" => pc' = "HEAD")
    BY <2>1, <2>3 DEF Route
  <2>5. StoreTypeOK'
    BY <1>0, <2>1, <2>2 DEF StoreTypeOK, ApplyBatch, storeVars
  <2>6. used' \in [DOMAIN Quota -> Nat]
    BY <1>0, <2>1, ChargeTyped
  <2>7. RunTypeOK' /\ ReportTypeOK'
    BY <2>2, <2>4, <2>6 DEF TypeInv, TypeOK, RunTypeOK, ReportTypeOK, persistVars, history,
       Locations
  <2>8. TurnTypeOK' /\ Placed'
    <3>1. CASE t.action = "NONE"
      BY <2>1, <2>4, <3>1, EndTurnTyped
    <3>2. CASE t.action # "NONE"
      <4>1. TurnTypeOK'
        BY <2>1, <3>2, NothingTyped DEF TypeInv, TypeOK, TurnTypeOK, batchVars, dispatchVars,
           ingestVars
      <4>2. Placed'
        <5>1. pc' \notin Acting \cup Ingesting \cup Bound /\ pc \in Idle
          BY <2>2, <2>4 DEF Acting, Ingesting, Bound, Idle
        <5>2. work' = work /\ \A k \in WorkIds : work[k] = "ABSENT"
          BY <2>1, <3>2, <5>1 DEF TypeInv, Placed, batchVars
        <5> QED
          BY <5>1, <5>2 DEF Placed
      <4> QED
        BY <4>1, <4>2
    <3> QED
      BY <3>1, <3>2
  <2> QED
    BY <2>5, <2>7, <2>8 DEF TypeInv, TypeOK
<1> QED
  BY <1>1, <1>2, <1>3, <1>4 DEF ModelTurn

-----------------------------------------------------------------------------
(* Preflight.                                                                *)
LEMMA TypePreflightTool ==
  ASSUME TypeInv, PreflightTool
  PROVE  TypeInv'
<1>0. used \in [DOMAIN Quota -> Nat] /\ "EXECUTION" \in Stages
  BY DEF TypeInv, TypeOK, RunTypeOK, Stages
<1>1. PICK k \in DOMAIN turn.items :
        \/ \E s \in Supported(turn.items[k].request) :
             /\ pc' = "AUTHORIZE" /\ current' = k
             /\ work' = [work EXCEPT ![k] = "READY"]
             /\ sized' = [sized EXCEPT ![k] = s]
             /\ UNCHANGED <<runVars, turn, projected, collected, dispatchVars,
                            ingestVars, persistVars>>
        \/ DenyTurn("EXECUTION") /\ UNCHANGED used
  BY DEF PreflightTool
<1>2. UNCHANGED <<shared, history>> /\ pc = "TOOL"
  BY DEF PreflightTool
<1>3. CASE DenyTurn("EXECUTION") /\ UNCHANGED used
  BY <1>0, <1>2, <1>3, DenyTyped
<1>4. CASE \E s \in Supported(turn.items[k].request) :
             /\ pc' = "AUTHORIZE" /\ current' = k
             /\ work' = [work EXCEPT ![k] = "READY"]
             /\ sized' = [sized EXCEPT ![k] = s]
             /\ UNCHANGED <<runVars, turn, projected, collected, dispatchVars,
                            ingestVars, persistVars>>
  <2>1. PICK s \in Supported(turn.items[k].request) :
             /\ pc' = "AUTHORIZE" /\ current' = k
             /\ work' = [work EXCEPT ![k] = "READY"]
             /\ sized' = [sized EXCEPT ![k] = s]
             /\ UNCHANGED <<runVars, turn, projected, collected, dispatchVars,
                            ingestVars, persistVars>>
    BY <1>4
  <2>2. IsDraw(s.draw)
    BY SupportedTyped
  <2>3. k \in WorkIds
    BY ItemTyped
  <2>4. StoreTypeOK' /\ RunTypeOK' /\ ReportTypeOK'
    BY <1>2, <2>1 DEF TypeInv, TypeOK, StoreTypeOK, RunTypeOK, ReportTypeOK, shared, storeVars,
       runVars, persistVars, history, Locations
  <2>5. TurnTypeOK'
    <3>1. work' \in [WorkIds -> ItemStates]
      BY <2>1, <2>3 DEF TypeInv, TypeOK, TurnTypeOK, ItemStates
    <3>2. DOMAIN sized' = WorkIds /\ \A j \in WorkIds : IsDraw(sized'[j].draw)
      BY <2>1, <2>2, <2>3 DEF TypeInv, TypeOK, TurnTypeOK
    <3> QED
      BY <2>1, <2>3, <3>1, <3>2 DEF TypeInv, TypeOK, TurnTypeOK, dispatchVars, ingestVars
  <2>6. Placed'
    <3>1. work' = [j \in WorkIds |-> IF j = k THEN "READY" ELSE "ABSENT"]
      BY <1>2, <2>1, <2>3 DEF TypeInv, TypeOK, TurnTypeOK, Placed, Idle
    <3> QED
      BY <2>1, <2>3, <3>1 DEF Placed, Acting, Ingesting, Bound, Idle
  <2> QED
    BY <2>4, <2>5, <2>6 DEF TypeInv, TypeOK
<1> QED
  BY <1>1, <1>3, <1>4

LEMMA PreflightsTyped ==
  ASSUME NEW s \in Preflights
  PROVE  DOMAIN s = DOMAIN turn.items /\ \A k \in DOMAIN s : s[k] \in Supported(turn.items[k].request)
<1> DEFINE of == [k \in DOMAIN turn.items |-> Supported(turn.items[k].request)]
<1>1. /\ s \in [DOMAIN turn.items -> UNION {of[k] : k \in DOMAIN turn.items}]
      /\ \A k \in DOMAIN turn.items : s[k] \in of[k]
  BY DEF Preflights
<1> QED
  BY <1>1

LEMMA TypePreflightBatch ==
  ASSUME TypeInv, PreflightBatch
  PROVE  TypeInv'
<1>0. used \in [DOMAIN Quota -> Nat] /\ "WORK_BATCH" \in Stages
  BY DEF TypeInv, TypeOK, RunTypeOK, Stages
<1>1. UNCHANGED <<shared, history>>
  BY DEF PreflightBatch
<1>2. CASE DenyTurn("WORK_BATCH") /\ UNCHANGED used
  BY <1>0, <1>1, <1>2, DenyTyped
<1>3. ASSUME NEW s \in Preflights,
             /\ pc' = "WAVE"
             /\ work' = [k \in WorkIds |-> IF k \in DOMAIN s THEN "PENDING" ELSE "ABSENT"]
             /\ sized' = [k \in WorkIds |-> IF k \in DOMAIN s THEN s[k] ELSE NoSizing]
             /\ UNCHANGED <<runVars, turn, projected, current, collected, dispatchVars,
                            ingestVars, persistVars>>
      PROVE  TypeInv'
  <2>1. DOMAIN s = DOMAIN turn.items /\ \A k \in DOMAIN s : IsDraw(s[k].draw)
    BY PreflightsTyped, SupportedTyped
  <2>2. StoreTypeOK' /\ RunTypeOK' /\ ReportTypeOK'
    BY <1>1, <1>3 DEF TypeInv, TypeOK, StoreTypeOK, RunTypeOK, ReportTypeOK, shared, storeVars,
       runVars, persistVars, history, Locations
  <2>3. DOMAIN sized' = WorkIds /\ \A k \in WorkIds : IsDraw(sized'[k].draw)
    BY <1>3, <2>1, NothingTyped
  <2>4. TurnTypeOK'
    BY <1>3, <2>3 DEF TypeInv, TypeOK, TurnTypeOK, dispatchVars, ingestVars, ItemStates
  <2>5. Placed'
    BY <1>3, <2>1 DEF Placed, Acting, Ingesting, Bound, Idle
  <2> QED
    BY <2>2, <2>4, <2>5 DEF TypeInv, TypeOK
<1> QED
  BY <1>2, <1>3 DEF PreflightBatch

(* Whatever goes on to the next item keeps its types.                        *)
LEMMA GoesOn ==
  ASSUME TypeInv, NEW w \in [WorkIds -> ItemStates],
         \A k \in WorkIds : w[k] # "ABSENT" => k \in DOMAIN turn.items,
         Proceed(w), StoreTypeOK', used' \in [DOMAIN Quota -> Nat], known' \subseteq Refs,
         feedback' \subseteq Stages, overdrawn' \subseteq DOMAIN Quota,
         UNCHANGED <<runStatus, requestIds, output, errors, late, projected, turn, sized,
                     persistVars>>,
         UNCHANGED dispatchVars \/ (frozen' = NoFrozen /\ before' = NoRevision),
         UNCHANGED ingestVars \/ (revision' = NoRevision /\ returned' = NoRevision),
         DOMAIN collected' = WorkIds,
         \A k \in WorkIds : Declared(collected'[k].result.refs) \subseteq Refs
  PROVE  TypeInv'
<1>1. /\ work' \in [WorkIds -> ItemStates]
      /\ current' \in WorkIds \cup {0}
      /\ pc' \in {"AUTHORIZE", "VERIFY", "WAVE"}
      /\ Placed'
  BY ProceedTyped
<1>2. RunTypeOK' /\ ReportTypeOK'
  BY <1>1 DEF TypeInv, TypeOK, RunTypeOK, ReportTypeOK, persistVars, Locations
<1>3. TurnTypeOK'
  BY <1>1, NothingTyped DEF TypeInv, TypeOK, TurnTypeOK, dispatchVars, ingestVars
<1> QED
  BY <1>1, <1>2, <1>3 DEF TypeInv, TypeOK

(* The state of one item of the turn changes.                                *)
LEMMA ItemMoves ==
  ASSUME TypeInv, current \in WorkIds, work[current] # "ABSENT", NEW st \in ItemStates
  PROVE  /\ [work EXCEPT ![current] = st] \in [WorkIds -> ItemStates]
         /\ \A k \in WorkIds : [work EXCEPT ![current] = st][k] # "ABSENT" => k \in DOMAIN turn.items
  BY DEF TypeInv, TypeOK, TurnTypeOK, Placed

LEMMA TypeWave ==
  ASSUME TypeInv, Wave \/ BatchSettled
  PROVE  TypeInv'
<1>1. CASE Wave
  <2> DEFINE w == [k \in WorkIds |-> IF k \in Skipped THEN "SKIPPED_DEPENDENCY"
                                     ELSE IF k \in Planned THEN "READY" ELSE work[k]]
  <2>1. Proceed(w) /\ UNCHANGED <<shared, runVars, turn, projected, sized, collected,
                                  dispatchVars, ingestVars, persistVars, history>>
    BY <1>1 DEF Wave
  <2>2. w \in [WorkIds -> ItemStates]
    BY DEF TypeInv, TypeOK, TurnTypeOK, ItemStates
  <2>3. \A k \in WorkIds : w[k] # "ABSENT" => k \in DOMAIN turn.items
    BY DEF Skipped, Planned, In, TypeInv, Placed
  <2> HIDE DEF w
  <2>4. StoreTypeOK' /\ used' \in [DOMAIN Quota -> Nat] /\ known' \subseteq Refs
        /\ feedback' \subseteq Stages /\ overdrawn' \subseteq DOMAIN Quota
    BY <2>1 DEF TypeInv, TypeOK, StoreTypeOK, RunTypeOK, shared, storeVars, runVars, history
  <2>5. DOMAIN collected' = WorkIds
        /\ \A k \in WorkIds : Declared(collected'[k].result.refs) \subseteq Refs
    BY <2>1 DEF TypeInv, TypeOK, TurnTypeOK
  <2> QED
    <3>1. UNCHANGED <<runStatus, requestIds, output, errors, late, projected, turn, sized,
                      persistVars>>
      BY <2>1 DEF runVars, history
    <3>2. UNCHANGED dispatchVars /\ UNCHANGED ingestVars
      BY <2>1
    <3> QED
      BY <2>1, <2>2, <2>3, <2>4, <2>5, <3>1, <3>2, GoesOn
<1>2. CASE BatchSettled
  <2>1. StoreTypeOK' /\ RunTypeOK' /\ ReportTypeOK'
    BY <1>2 DEF BatchSettled, TypeInv, TypeOK, StoreTypeOK, RunTypeOK, ReportTypeOK, shared,
       storeVars, persistVars, history, Locations, Stages
  <2> QED
    BY <1>2, <2>1, EndTurnTyped DEF BatchSettled, TypeInv, TypeOK
<1> QED
  BY <1>1, <1>2

-----------------------------------------------------------------------------
(* Gated dispatch.                                                           *)
LEMMA DenyItemTyped ==
  ASSUME TypeInv, current \in WorkIds, work[current] # "ABSENT", DenyItem,
         UNCHANGED <<shared, runStatus, used, known, requestIds, output, errors, projected,
                     turn, sized, collected, ingestVars, persistVars, history>>
  PROVE  TypeInv'
<1> DEFINE w == [work EXCEPT ![current] = "FAILED"]
<1>1. w \in [WorkIds -> ItemStates] /\ \A k \in WorkIds : w[k] # "ABSENT" => k \in DOMAIN turn.items
  BY ItemMoves DEF ItemStates
<1>2. Proceed(w) /\ frozen' = NoFrozen /\ before' = NoRevision
  BY DEF DenyItem
<1> HIDE DEF w
<1>3. StoreTypeOK' /\ used' \in [DOMAIN Quota -> Nat] /\ known' \subseteq Refs
      /\ feedback' \subseteq Stages /\ overdrawn' \subseteq DOMAIN Quota
  BY DEF DenyItem, TypeInv, TypeOK, StoreTypeOK, RunTypeOK, shared, storeVars, history, Stages
<1>4. DOMAIN collected' = WorkIds
      /\ \A k \in WorkIds : Declared(collected'[k].result.refs) \subseteq Refs
  BY DEF TypeInv, TypeOK, TurnTypeOK
<1>5. UNCHANGED <<runStatus, requestIds, output, errors, late, projected, turn, sized,
                  persistVars>>
  BY DEF history
<1> QED
  BY <1>1, <1>2, <1>3, <1>4, <1>5, GoesOn

(* The item being executed.                                                  *)
LEMMA ActingItem ==
  ASSUME TypeInv, pc \in Acting
  PROVE  /\ current \in WorkIds /\ work[current] = "READY"
         /\ turn \in Turns /\ current \in DOMAIN turn.items /\ IsItem(turn.items[current])
         /\ IsDraw(sized[current].draw)
<1>1. current \in WorkIds /\ work[current] = "READY" /\ current \in DOMAIN turn.items
  BY DEF TypeInv, Placed
<1> QED
  BY <1>1, ItemTyped DEF TypeInv, TypeOK, TurnTypeOK

LEMMA TypeGate ==
  ASSUME TypeInv, Gate
  PROVE  TypeInv'
<1>0. pc \in Acting
  BY DEF Gate, Authorize, Bind, BindDenied, Recheck, Dispatch, DispatchDenied, Acting
<1>i. /\ current \in WorkIds /\ work[current] = "READY"
      /\ current \in DOMAIN turn.items /\ IsItem(turn.items[current])
  BY <1>0, ActingItem
<1>d. CASE DenyItem /\ UNCHANGED <<shared, runStatus, used, known, requestIds, output, errors,
              projected, turn, sized, collected, ingestVars, persistVars, history>>
  BY <1>i, <1>d, DenyItemTyped
<1>1. CASE Authorize /\ pc' = "BIND"
  <2>1. /\ frozen' = [NoFrozen EXCEPT !.state = storeRevision]
        /\ sized[current] \in StaticCheck(Request, known)
        /\ UNCHANGED <<shared, runVars, projected, turn, batchVars, before, ingestVars,
                       persistVars, history>>
    BY <1>1 DEF Authorize, DenyItem, Proceed
  <2>2. Request.tool \in DOMAIN Specs
    BY <2>1 DEF StaticCheck, G0
  <2>3. frozen' \in [state : Revisions, reference : Revisions, approved : BOOLEAN]
    BY <2>1 DEF NoFrozen, Revisions, NoRevision, TypeInv, TypeOK, StoreTypeOK
  <2>4. StoreTypeOK' /\ RunTypeOK' /\ TurnTypeOK' /\ ReportTypeOK'
    BY <1>1, <2>1, <2>3 DEF TypeInv, TypeOK, StoreTypeOK, RunTypeOK, TurnTypeOK, ReportTypeOK,
       shared, storeVars, runVars, batchVars, ingestVars, persistVars, history, Locations
  <2>5. Placed'
    BY <1>1, <1>i, <2>1, <2>2 DEF TypeInv, Placed, Acting, Bound, Ingesting, Idle, Request, batchVars
  <2> QED
    BY <2>4, <2>5 DEF TypeInv, TypeOK
<1>2. CASE Bind
  <2>1. PICK asked \in BOOLEAN : frozen' = [frozen EXCEPT !.reference = Reference,
                                   !.approved = NeedsApproval(ToolOf(current), asked)]
    BY <1>2 DEF Bind
  <2>2. Reference \in Revisions
    BY DEF Reference, Revisions, NoRevision, TypeInv, TypeOK, StoreTypeOK
  <2>3. NeedsApproval(ToolOf(current), asked) \in BOOLEAN
    BY DEF NeedsApproval
  <2>4. frozen' \in [state : Revisions, reference : Revisions, approved : BOOLEAN]
    BY <2>1, <2>2, <2>3 DEF TypeInv, TypeOK, TurnTypeOK
  <2>5. pc = "BIND" /\ pc' = "RECHECK"
        /\ UNCHANGED <<shared, runVars, projected, turn, batchVars, before, ingestVars,
                       persistVars, history>>
    BY <1>2 DEF Bind
  <2>6. StoreTypeOK' /\ RunTypeOK' /\ TurnTypeOK' /\ ReportTypeOK'
    BY <2>4, <2>5 DEF TypeInv, TypeOK, StoreTypeOK, RunTypeOK, TurnTypeOK, ReportTypeOK,
       shared, storeVars, runVars, batchVars, ingestVars, persistVars, history, Locations
  <2>7. Placed'
    BY <2>5 DEF TypeInv, Placed, Acting, Bound, Ingesting, Idle, Request, batchVars
  <2> QED
    BY <2>6, <2>7 DEF TypeInv, TypeOK
<1>3. CASE Recheck /\ pc' = "DISPATCH"
  <2>1. pc = "RECHECK" /\ UNCHANGED <<shared, runVars, batchVars, dispatchVars, projected, turn,
                                      ingestVars, persistVars, history>>
    BY <1>3 DEF Recheck, DenyItem, Proceed
  <2>2. StoreTypeOK' /\ RunTypeOK' /\ TurnTypeOK' /\ ReportTypeOK'
    BY <1>3, <2>1 DEF TypeInv, TypeOK, StoreTypeOK, RunTypeOK, TurnTypeOK, ReportTypeOK, shared,
       storeVars, runVars, batchVars, dispatchVars, ingestVars, persistVars, history, Locations
  <2>3. Placed'
    BY <1>3, <2>1 DEF TypeInv, Placed, Acting, Bound, Ingesting, Idle, Request, batchVars
  <2> QED
    BY <2>2, <2>3 DEF TypeInv, TypeOK
<1>4. CASE Dispatch
  <2>1. /\ pc = "DISPATCH" /\ pc' = "EXECUTING"
        /\ before' = IF ToolOf(current).cls = "MUTATE" THEN NoRevision ELSE Reference
        /\ requestIds' = requestIds \cup {Request.id}
        /\ UNCHANGED <<shared, runStatus, known, feedback, output, errors, projected, turn,
                       batchVars, frozen, ingestVars, persistVars, overdrawn>>
    BY <1>4 DEF Dispatch
  <2>l. late' \subseteq Nat
    <3>1. used["model_calls"] \in Nat /\ late \subseteq Nat
      BY GatesAssumption DEF GatesAssumption, Standard, TypeInv, TypeOK, RunTypeOK
    <3> QED
      BY <1>4, <3>1 DEF Dispatch, Late
  <2>2. used' \in [DOMAIN Quota -> Nat]
    BY <1>4, ChargeTyped DEF Dispatch
  <2>3. requestIds' \subseteq Nat /\ IsFiniteSet(requestIds')
    BY <1>i, <2>1, FS_AddElement DEF TypeInv, TypeOK, RunTypeOK, IsItem, Request
  <2>4. before' \in Revisions
    BY <2>1 DEF Reference, Revisions, NoRevision, TypeInv, TypeOK, StoreTypeOK
  <2>5. StoreTypeOK' /\ RunTypeOK' /\ TurnTypeOK' /\ ReportTypeOK'
    BY <2>1, <2>l, <2>2, <2>3, <2>4 DEF TypeInv, TypeOK, StoreTypeOK, RunTypeOK, TurnTypeOK,
       ReportTypeOK, shared, storeVars, batchVars, ingestVars, persistVars, Locations
  <2>6. Placed'
    BY <2>1 DEF TypeInv, Placed, Acting, Bound, Ingesting, Idle, Request, batchVars
  <2> QED
    BY <2>5, <2>6 DEF TypeInv, TypeOK
<1> QED
  <2>1. CASE Authorize
    BY <1>1, <1>d, <2>1 DEF Authorize, DenyItem
  <2>2. CASE Recheck
    BY <1>3, <1>d, <2>2 DEF Recheck, DenyItem
  <2> QED
    BY <1>2, <1>4, <1>d, <2>1, <2>2 DEF Gate, BindDenied, DispatchDenied

(* The executor returns: the charge is a natural in every dimension.         *)
LEMMA TypeExecutor ==
  ASSUME TypeInv, ExecutorReturns
  PROVE  TypeInv'
<1>0. pc \in Acting /\ pc \in Bound
  BY DEF ExecutorReturns, Acting, Bound
<1>i. /\ current \in WorkIds /\ work[current] = "READY"
      /\ IsDraw(Reserved) /\ Request.tool \in DOMAIN Specs
  BY <1>0, ActingItem DEF TypeInv, Placed, Reserved
<1>1. PICK outcome \in Outcomes[Request.tool] :
        /\ Execute(outcome)
        /\ \/ /\ ReferenceBreached
              /\ FailRun
           \/ /\ IF outcome.kind = "RAISED"
                 THEN /\ DenyItem
                      /\ UNCHANGED collected
                 ELSE /\ collected' = [collected EXCEPT ![current] =
                             [result |-> outcome, clean |-> ~Violates(Reserved, Actual(outcome))]]
                      /\ Proceed([work EXCEPT ![current] = "RETURNED"])
                      /\ frozen' = NoFrozen /\ before' = NoRevision
                      /\ UNCHANGED feedback
              /\ UNCHANGED <<runStatus, known, requestIds, output, errors, projected, turn,
                             sized, ingestVars, persistVars>>
  BY DEF ExecutorReturns
<1>2. UNCHANGED <<storeVars, late>>
  BY DEF ExecutorReturns
<1>3. IsDraw(Actual(outcome)) /\ Declared(outcome.refs) \subseteq Refs
  BY <1>i, CoordinatorAssumption DEF CoordinatorAssumption, Actual
<1>4. used' \in [DOMAIN Quota -> Nat]
  <2>1. used \in [DOMAIN Quota -> Nat]
    BY DEF TypeInv, TypeOK, RunTypeOK
  <2>2. used' = [d \in DOMAIN used |-> used[d] + Charged(Reserved, Actual(outcome), d)]
    BY <1>1 DEF Execute, Reconcile
  <2>3. \A d : Charged(Reserved, Actual(outcome), d) \in Nat
    BY <1>i, <1>3, ChargedBounds
  <2>4. used' = [d \in DOMAIN Quota |-> used[d] + Charged(Reserved, Actual(outcome), d)]
    BY <2>1, <2>2
  <2> QED
    BY <2>1, <2>3, <2>4
<1>5. overdrawn' \subseteq DOMAIN Quota
  BY <1>1 DEF Execute, TypeInv, TypeOK, RunTypeOK
<1>6. StoreTypeOK'
  BY <1>1, <1>2 DEF Execute, TypeInv, TypeOK, StoreTypeOK, storeVars
<1>7. known \subseteq Refs /\ feedback \subseteq Stages /\ late \subseteq Nat /\ late' = late
  BY <1>2 DEF TypeInv, TypeOK, RunTypeOK
<1>8. CASE FailRun
  BY <1>4, <1>5, <1>6, <1>7, <1>8, FailTyped
<1>9. CASE ~FailRun
  <2>0. UNCHANGED <<runStatus, requestIds, output, errors, late, projected, turn, sized,
                    persistVars>> /\ UNCHANGED ingestVars /\ known' = known
    BY <1>1, <1>2, <1>9
  <2>1. CASE outcome.kind = "RAISED"
    <3> DEFINE w == [work EXCEPT ![current] = "FAILED"]
    <3>1. w \in [WorkIds -> ItemStates]
          /\ \A k \in WorkIds : w[k] # "ABSENT" => k \in DOMAIN turn.items
      BY <1>i, ItemMoves DEF ItemStates
    <3>2. DenyItem /\ UNCHANGED collected
      BY <1>1, <1>9, <2>1
    <3>3. Proceed(w) /\ frozen' = NoFrozen /\ before' = NoRevision
          /\ feedback' \subseteq Stages
      BY <1>7, <3>2 DEF DenyItem, Stages
    <3> HIDE DEF w
    <3>4. DOMAIN collected' = WorkIds
          /\ \A k \in WorkIds : Declared(collected'[k].result.refs) \subseteq Refs
      BY <3>2 DEF TypeInv, TypeOK, TurnTypeOK
    <3> QED
      BY <1>4, <1>5, <1>6, <1>7, <2>0, <3>1, <3>3, <3>4, GoesOn
  <2>2. CASE outcome.kind # "RAISED"
    <3> DEFINE w == [work EXCEPT ![current] = "RETURNED"]
    <3>1. w \in [WorkIds -> ItemStates]
          /\ \A k \in WorkIds : w[k] # "ABSENT" => k \in DOMAIN turn.items
      BY <1>i, ItemMoves DEF ItemStates
    <3>2. /\ collected' = [collected EXCEPT ![current] =
               [result |-> outcome, clean |-> ~Violates(Reserved, Actual(outcome))]]
          /\ Proceed(w) /\ frozen' = NoFrozen /\ before' = NoRevision /\ UNCHANGED feedback
      BY <1>1, <1>9, <2>2
    <3> HIDE DEF w
    <3>3. DOMAIN collected' = WorkIds
          /\ \A k \in WorkIds : Declared(collected'[k].result.refs) \subseteq Refs
      BY <1>i, <1>3, <3>2 DEF TypeInv, TypeOK, TurnTypeOK
    <3> QED
      BY <1>4, <1>5, <1>6, <1>7, <2>0, <3>1, <3>2, <3>3, GoesOn
  <2> QED
    BY <2>1, <2>2
<1> QED
  BY <1>8, <1>9

-----------------------------------------------------------------------------
(* Ingestion.                                                                *)
LEMMA IngestingItem ==
  ASSUME TypeInv, pc \in Ingesting
  PROVE  current \in WorkIds /\ work[current] = "RETURNED"
  BY DEF TypeInv, Placed

LEMMA EndIngestTyped ==
  ASSUME TypeInv, pc \in Ingesting, NEW st \in ItemStates, NEW stages, stages \subseteq Stages,
         EndIngest(st, stages), StoreTypeOK', known' \subseteq Refs,
         UNCHANGED <<runStatus, used, requestIds, output, errors, projected, turn, sized,
                     dispatchVars, persistVars, history>>
  PROVE  TypeInv'
<1> DEFINE w == [work EXCEPT ![current] = st]
<1>i. current \in WorkIds /\ work[current] = "RETURNED"
  BY IngestingItem
<1>1. w \in [WorkIds -> ItemStates] /\ \A k \in WorkIds : w[k] # "ABSENT" => k \in DOMAIN turn.items
  BY <1>i, ItemMoves
<1>2. Proceed(w) /\ revision' = NoRevision /\ returned' = NoRevision
  BY DEF EndIngest
<1> HIDE DEF w
<1>3. used' \in [DOMAIN Quota -> Nat] /\ feedback' \subseteq Stages
      /\ overdrawn' \subseteq DOMAIN Quota /\ UNCHANGED late
  BY DEF EndIngest, OutcomeToReport, TypeInv, TypeOK, RunTypeOK, history, Stages
<1>4. DOMAIN collected' = WorkIds
      /\ \A k \in WorkIds : Declared(collected'[k].result.refs) \subseteq Refs
  BY <1>i, NothingTyped DEF EndIngest, TypeInv, TypeOK, TurnTypeOK
<1> QED
  BY <1>1, <1>2, <1>3, <1>4, GoesOn

LEMMA TypeIngest ==
  ASSUME TypeInv, Ingest
  PROVE  TypeInv'
<1>0. /\ pc \in Ingesting
      /\ "FAILED" \in ItemStates /\ "COMPLETED" \in ItemStates
      /\ {"VERIFY_RESULT"} \subseteq Stages /\ {"RESULT_INGESTION"} \subseteq Stages
  BY DEF Ingest, VerifyResult, ResultRejected, VerifyRevision, Apply, ApplyRejected, Settle,
     Ingesting, ItemStates, Stages
<1>i. current \in WorkIds /\ work[current] = "RETURNED"
  BY <1>0, IngestingItem
<1>s. StoreTypeOK /\ storeRevision \in Nat /\ known \subseteq Refs
      /\ (UNCHANGED shared => StoreTypeOK')
  BY DEF TypeInv, TypeOK, RunTypeOK, StoreTypeOK, shared, storeVars
<1>1. CASE VerifyResult
  <2>1. StoreTypeOK' /\ RunTypeOK' /\ TurnTypeOK' /\ ReportTypeOK'
    BY <1>1, <1>s DEF VerifyResult, TypeInv, TypeOK, RunTypeOK, TurnTypeOK, ReportTypeOK,
       runVars, batchVars, dispatchVars, persistVars, history, Locations, Revisions
  <2>2. Placed'
    BY <1>1, <1>i DEF VerifyResult, TypeInv, Placed, Acting, Bound, Ingesting, Idle, batchVars
  <2> QED
    BY <2>1, <2>2 DEF TypeInv, TypeOK
<1>2. CASE ResultRejected
  BY <1>0, <1>2, <1>s, EndIngestTyped DEF ResultRejected
<1>3. CASE VerifyRevision
  <2>1. CASE pc' = "APPLY" /\ UNCHANGED <<runVars, batchVars, ingestVars>>
    <3>1. UNCHANGED <<shared, projected, turn, dispatchVars, persistVars, history>>
      BY <1>3 DEF VerifyRevision
    <3>2. StoreTypeOK' /\ RunTypeOK' /\ TurnTypeOK' /\ ReportTypeOK'
      BY <1>s, <2>1, <3>1 DEF TypeInv, TypeOK, RunTypeOK, TurnTypeOK, ReportTypeOK, runVars,
         batchVars, dispatchVars, ingestVars, persistVars, history, Locations
    <3>3. Placed'
      BY <1>i, <2>1, <3>1 DEF TypeInv, Placed, Acting, Bound, Ingesting, Idle, batchVars
    <3> QED
      BY <3>2, <3>3 DEF TypeInv, TypeOK
  <2>2. CASE EndIngest("FAILED", {"VERIFY_RESULT"})
             /\ UNCHANGED <<runStatus, used, known, requestIds, output, errors, sized>>
    BY <1>0, <1>3, <1>s, <2>2, EndIngestTyped DEF VerifyRevision
  <2> QED
    BY <1>3, <2>1, <2>2 DEF VerifyRevision
<1>4. CASE Apply
  <2>1. revision \in Revisions /\ pc = "APPLY" /\ pc' = "SETTLE"
        /\ UNCHANGED <<referenceRevision, runVars, projected, turn, batchVars, dispatchVars,
                       revision, persistVars, history>>
    BY <1>4 DEF Apply, TypeInv, TypeOK, TurnTypeOK
  <2>2. StoreTypeOK'
    BY <1>4, <1>s, <2>1 DEF Apply, ApplyBatch, StoreTypeOK, storeVars
  <2>3. returned' \in {revision, revision + 1}
    BY <1>4 DEF Apply
  <2>4. returned' \in Revisions
    BY <2>1, <2>3 DEF Revisions, NoRevision
  <2>5. RunTypeOK' /\ TurnTypeOK' /\ ReportTypeOK'
    BY <2>1, <2>4 DEF TypeInv, TypeOK, RunTypeOK, TurnTypeOK, ReportTypeOK, runVars,
       batchVars, dispatchVars, persistVars, history, Locations
  <2>6. Placed'
    BY <1>i, <2>1 DEF TypeInv, Placed, Acting, Bound, Ingesting, Idle, batchVars
  <2> QED
    BY <2>2, <2>5, <2>6 DEF TypeInv, TypeOK
<1>5. CASE ApplyRejected
  BY <1>0, <1>5, <1>s, EndIngestTyped DEF ApplyRejected
<1>6. CASE Settle
  <2>1. UNCHANGED <<shared, history>>
    BY <1>6 DEF Settle
  <2>2. CASE known' = Citable(known, Executed.refs) /\ EndIngest("COMPLETED", {})
             /\ UNCHANGED <<runStatus, used, requestIds, output, errors, projected, turn,
                            sized, dispatchVars, persistVars>>
    <3>1. Declared(Executed.refs) \subseteq Refs
      BY <1>i DEF Executed, TypeInv, TypeOK, TurnTypeOK
    <3>2. known' \subseteq Refs
      BY <1>s, <2>2, <3>1 DEF Citable
    <3> QED
      BY <1>0, <1>s, <2>1, <2>2, <3>2, EndIngestTyped
  <2>3. CASE FailRun /\ UNCHANGED used
    <3>1. used' \in [DOMAIN Quota -> Nat] /\ overdrawn' \subseteq DOMAIN Quota /\ late' \subseteq Nat
      BY <2>1, <2>3 DEF TypeInv, TypeOK, RunTypeOK, history
    <3> QED
      BY <1>s, <2>1, <2>3, <3>1, FailTyped
  <2> QED
    BY <1>6, <2>2, <2>3 DEF Settle
<1> QED
  BY <1>1, <1>2, <1>3, <1>4, <1>5, <1>6 DEF Ingest

-----------------------------------------------------------------------------
(* The finish and the conclusion.                                            *)
LEMMA TypeFinish ==
  ASSUME TypeInv, Finish
  PROVE  TypeInv'
<1>0. /\ used \in [DOMAIN Quota -> Nat] /\ overdrawn \subseteq DOMAIN Quota /\ late \subseteq Nat
      /\ "MODEL_TURN" \in Stages
      /\ UNCHANGED <<shared, used, history>>
  BY DEF Finish, FinishAccepted, FinishDenied, FinishRaises, TypeInv, TypeOK, RunTypeOK, Stages
<1>s. StoreTypeOK'
  BY <1>0 DEF TypeInv, TypeOK, StoreTypeOK, shared, storeVars
<1>1. CASE FinishAccepted
  <2>1. RunTypeOK' /\ ReportTypeOK'
    BY <1>1 DEF FinishAccepted, TypeInv, TypeOK, RunTypeOK, ReportTypeOK, persistVars, history,
       Locations, Statuses, Terminal
  <2> QED
    BY <1>1, <1>s, <2>1, EndTurnTyped DEF FinishAccepted, TypeInv, TypeOK
<1>2. CASE FinishDenied
  BY <1>0, <1>2, DenyTyped DEF FinishDenied
<1>3. CASE FinishRaises
  BY <1>0, <1>s, <1>3, FailTyped DEF FinishRaises, history
<1> QED
  BY <1>1, <1>2, <1>3 DEF Finish

LEMMA TypeConclude ==
  ASSUME TypeInv, Conclude
  PROVE  TypeInv'
<1>0. /\ storeRevision \in Nat /\ storeStatus \in Statuses /\ referenceRevision \in Nat
      /\ runStatus \in Statuses
  BY DEF TypeInv, TypeOK, StoreTypeOK, RunTypeOK
<1>1. /\ pc \in {"PERSIST", "PRIOR", "TRANSITION", "OBSERVE", "CONFIRM", "REPORT"}
      /\ pc' \in {"PRIOR", "TRANSITION", "OBSERVE", "CONFIRM", "REPORT", "DONE"}
      /\ UNCHANGED <<referenceRevision, used, known, requestIds, feedback, projected, turn,
                     batchVars, dispatchVars, history>>
  BY DEF Conclude, Persist, PriorStatus, Transition, TransitionMisbehaves, TransitionRaises,
     Observe, Confirm, Report, runVars, shared, ingestVars
<1>2. StoreTypeOK'
  <2>1. UNCHANGED storeVars \/ TransitionStatus(runStatus, revision) \/ FaultyTransition(runStatus)
    BY DEF Conclude, Persist, PriorStatus, Transition, TransitionMisbehaves, TransitionRaises,
       Observe, Confirm, Report, shared
  <2> QED
    BY <1>0, <1>1, <2>1 DEF StoreTypeOK, storeVars, TransitionStatus, FaultyTransition
<1>3. runStatus' \in Statuses /\ output' \in BOOLEAN /\ errors' \subseteq ErrorKinds
  <2>1. UNCHANGED <<runStatus, output, errors>> \/ PersistenceFailed
    BY DEF Conclude, Persist, PriorStatus, Transition, TransitionMisbehaves, TransitionRaises,
       Observe, Confirm, Report, runVars
  <2> QED
    BY <2>1 DEF PersistenceFailed, TypeInv, TypeOK, RunTypeOK, Statuses, Terminal, ErrorKinds
<1>4. RunTypeOK'
  BY <1>1, <1>3 DEF TypeInv, TypeOK, RunTypeOK, Locations, history
<1>5. revision' \in Revisions /\ returned' \in Revisions
  <2>1. UNCHANGED ingestVars \/ (revision' = storeRevision /\ UNCHANGED returned)
        \/ (returned' = storeRevision' /\ UNCHANGED revision)
        \/ (returned' \in {storeRevision, storeRevision + 1} /\ UNCHANGED revision)
    BY DEF Conclude, Persist, PriorStatus, Transition, TransitionMisbehaves, TransitionRaises,
       Observe, Confirm, Report, ingestVars
  <2>2. storeRevision \in Nat /\ storeRevision' \in Nat
    BY <1>0, <1>2 DEF StoreTypeOK
  <2>3. revision \in Revisions /\ returned \in Revisions
    BY DEF TypeInv, TypeOK, TurnTypeOK
  <2> QED
    BY <2>1, <2>2, <2>3 DEF Revisions, ingestVars
<1>6. TurnTypeOK'
  BY <1>1, <1>5 DEF TypeInv, TypeOK, TurnTypeOK, batchVars, dispatchVars
<1>7. ReportTypeOK'
  <2>1. CASE PriorStatus
    BY <1>0, <2>1 DEF PriorStatus, TypeInv, TypeOK, ReportTypeOK
  <2>2. CASE Observe
    BY <1>0, <2>2 DEF Observe, TypeInv, TypeOK, ReportTypeOK, Revisions
  <2>3. CASE Report
    BY <1>0, <2>3 DEF Report, TypeInv, TypeOK, RunTypeOK, ReportTypeOK, Revisions
  <2>4. CASE UNCHANGED persistVars
    BY <2>4 DEF TypeInv, TypeOK, ReportTypeOK, persistVars
  <2> QED
    BY <2>1, <2>2, <2>3, <2>4 DEF Conclude, Persist, Transition, TransitionMisbehaves,
       TransitionRaises, Confirm
<1>8. Placed'
  BY <1>1, PlacedElsewhere DEF Acting, Ingesting, Idle, batchVars
<1> QED
  BY <1>2, <1>4, <1>6, <1>7, <1>8 DEF TypeInv, TypeOK

(* What an unreachable store leaves behind.                                  *)
LEMMA TypeOutage ==
  ASSUME TypeInv, Outage
  PROVE  TypeInv'
<1>0. /\ StoreTypeOK /\ used \in [DOMAIN Quota -> Nat] /\ overdrawn \subseteq DOMAIN Quota
      /\ late \subseteq Nat /\ UNCHANGED <<shared, used, history>>
  BY DEF TypeInv, TypeOK, RunTypeOK, Outage, RunRaises, AccessFailsRun, AccessDeniesItem,
     AccessRejectsResult, AccessHidesTransition, runVars
<1>s. StoreTypeOK'
  BY <1>0 DEF StoreTypeOK, shared, storeVars
<1>1. CASE RunRaises \/ AccessHidesTransition
  <2>1. /\ pc' \in {"RAISED", "REPORT"}
        /\ UNCHANGED <<known, requestIds, feedback, projected, turn, batchVars, dispatchVars,
                       ingestVars, persistVars>>
    BY <1>1 DEF RunRaises, AccessHidesTransition, runVars
  <2>2. runStatus' \in Statuses /\ output' \in BOOLEAN /\ errors' \subseteq ErrorKinds
    BY <1>1 DEF RunRaises, AccessHidesTransition, PersistenceFailed, TypeInv, TypeOK, RunTypeOK,
       Statuses, Terminal, ErrorKinds, runVars
  <2>3. RunTypeOK' /\ TurnTypeOK' /\ ReportTypeOK'
    BY <1>0, <2>1, <2>2 DEF TypeInv, TypeOK, RunTypeOK, TurnTypeOK, ReportTypeOK, Locations,
       batchVars, dispatchVars, ingestVars, persistVars, history
  <2>4. Placed'
    BY <2>1, PlacedElsewhere DEF Acting, Ingesting, Idle, batchVars
  <2> QED
    BY <1>s, <2>3, <2>4 DEF TypeInv, TypeOK
<1>2. CASE AccessFailsRun
  <2>1. FailRun /\ used' \in [DOMAIN Quota -> Nat] /\ overdrawn' \subseteq DOMAIN Quota
        /\ late' \subseteq Nat
    BY <1>0, <1>2 DEF AccessFailsRun, history
  <2> QED
    BY <1>s, <2>1, FailTyped
<1>3. CASE AccessDeniesItem
  <2>1. current \in WorkIds /\ work[current] # "ABSENT"
    BY <1>3, ActingItem DEF AccessDeniesItem, Acting
  <2> QED
    BY <1>3, <2>1, DenyItemTyped DEF AccessDeniesItem
<1>4. CASE AccessRejectsResult
  <2>1. pc \in Ingesting /\ "FAILED" \in ItemStates /\ {"VERIFY_RESULT"} \subseteq Stages
        /\ known \subseteq Refs
    BY <1>4 DEF AccessRejectsResult, Ingesting, ItemStates, Stages, TypeInv, TypeOK, RunTypeOK
  <2> QED
    BY <1>4, <1>s, <2>1, EndIngestTyped DEF AccessRejectsResult
<1> QED
  BY <1>1, <1>2, <1>3, <1>4 DEF Outage

LEMMA TypeStep == TypeInv /\ [Next]_vars => TypeInv'
<1> SUFFICES ASSUME TypeInv, [Next]_vars PROVE TypeInv'
  OBVIOUS
<1>1. CASE Run
  BY <1>1, TypeLoop, TypeModelTurn, TypePreflightTool, TypePreflightBatch, TypeWave, TypeGate,
     TypeExecutor, TypeIngest, TypeFinish, TypeConclude, TypeOutage DEF Run, Preflight
<1>2. CASE Others
  BY <1>2, TypeEnvironment DEF Others
<1>3. CASE Returned \/ UNCHANGED vars
  <2>1. UNCHANGED <<shared, local>>
    BY <1>3 DEF Returned, vars
  <2>2. StoreTypeOK' /\ RunTypeOK' /\ TurnTypeOK' /\ ReportTypeOK' /\ Placed'
    BY <2>1 DEF TypeInv, TypeOK, StoreTypeOK, RunTypeOK, TurnTypeOK, ReportTypeOK, Placed,
       Request, shared, storeVars, local, runVars, batchVars, dispatchVars, ingestVars,
       persistVars, history
  <2> QED
    BY <2>2 DEF TypeInv, TypeOK
<1> QED
  BY <1>1, <1>2, <1>3 DEF Next

(* Every variable keeps its type, whatever the tools, the turns, the policy, *)
(* the quotas and the faults are; in particular a charge never turns a       *)
(* counter negative and only registered tools are ever executed.             *)
THEOREM TypeInvThm == Spec => []TypeInv
  BY TypeInit, TypeStep, PTL DEF Spec

(* Type correctness of the whole runtime state (run and all it calls).       *)
THEOREM TypeOKThm == Spec => []TypeOK
<1>1. TypeInv => TypeOK
  BY DEF TypeInv
<1> QED
  BY <1>1, TypeInvThm, PTL

-----------------------------------------------------------------------------
(* References.  A verified result waits for its ingestion while nothing else *)
(* becomes known, so what verification checked still holds when its          *)
(* references are made citable.                                              *)
Verified == {"REVERIFY", "APPLY", "SETTLE"}

RefsInv ==
  /\ KnownRefsSound
  /\ pc \in Verified =>
       CheckRefs(Executed.refs, Executed.embedded, known, ReservedRefs(known), FALSE)

(* One of the context references with an id is the last, so each id of the   *)
(* context has an entry in the dictionary.                                   *)
LEMMA ContextCovers ==
  ASSUME NEW r \in Declared(ContextRefs)
  PROVE  \E s \in Context : s.id = r.id
<1>1. DOMAIN ContextRefs = 1..Len(ContextRefs) /\ Len(ContextRefs) \in Nat
  BY VerificationAssumption DEF VerificationAssumption
<1> DEFINE Same == {i \in DOMAIN ContextRefs : ContextRefs[i].id = r.id}
           Behind == {n \in Nat : \E i \in Same : n = Len(ContextRefs) - i}
<1>2. Behind # {}
  <2>1. PICK i \in DOMAIN ContextRefs : r = ContextRefs[i]
    BY DEF Declared
  <2>2. Len(ContextRefs) - i \in Behind
    BY <1>1, <2>1
  <2> QED
    BY <2>2
<1>3. PICK n \in Behind : \A m \in Behind : n <= m
  <2>1. Behind \subseteq Nat
    OBVIOUS
  <2> HIDE DEF Behind
  <2> QED
    BY <1>2, <2>1, LeastExists
<1>4. PICK i \in Same : n = Len(ContextRefs) - i
  BY <1>3
<1>5. ASSUME NEW k \in Same PROVE k <= i
  <2>1. Len(ContextRefs) - k \in Behind
    BY <1>1
  <2> QED
    BY <1>1, <1>3, <1>4, <2>1
<1> QED
  BY <1>4, <1>5 DEF Context, LastOfEachId

(* A visible entry of the context is one that was known from the start.      *)
LEMMA ContextVisible ==
  ASSUME NEW r \in Context, r.vis = "AGENT"
  PROVE  r \in InitiallyKnown
  BY DEF Context, InitiallyKnown, LastOfEachId

LEMMA RefsInit == Init => RefsInv
<1> SUFFICES ASSUME Init PROVE RefsInv
  OBVIOUS
<1>1. known = InitiallyKnown /\ pc \notin Verified
  BY DEF Init, Verified
<1>2. \A r \in InitiallyKnown : r.vis = "AGENT"
  BY DEF InitiallyKnown, LastOfEachId
<1>3. ASSUME NEW r \in InitiallyKnown, NEW s \in InitiallyKnown, s.id = r.id PROVE s = r
  <2>1. DOMAIN ContextRefs \subseteq Nat
    BY VerificationAssumption DEF VerificationAssumption
  <2> QED
    BY <1>3, <2>1 DEF InitiallyKnown, LastOfEachId
<1>4. KnownRefsSound
  BY <1>1, <1>2, <1>3 DEF KnownRefsSound
<1> QED
  BY <1>1, <1>4 DEF RefsInv

(* Making the references of a checked result citable keeps ids unambiguous.  *)
LEMMA CitableSound ==
  ASSUME KnownRefsSound, NEW refs, NEW embedded,
         CheckRefs(refs, embedded, known, ReservedRefs(known), FALSE),
         known' = Citable(known, refs)
  PROVE  KnownRefsSound'
<1> DEFINE new == {r \in Declared(refs) : r.id \notin Ids(known)}
<1>1. known' = known \cup new
  BY DEF Citable
<1>2. \A r \in known : /\ r.vis = "AGENT"
                       /\ \A s \in known : s.id = r.id => s = r
                       /\ r \in InitiallyKnown \/ r.id \notin Ids(Declared(ContextRefs))
  BY DEF KnownRefsSound
<1>3. \A r \in new, s \in known : s.id # r.id
  BY DEF Ids
<1>4. \A r \in new : r.vis = "AGENT"
  BY DEF CheckRefs, Declared
<1>5. \A r, s \in new : s.id = r.id => s = r
  BY DEF CheckRefs, Declared
<1>6. ASSUME NEW r \in new, r.id \in Ids(Declared(ContextRefs)) PROVE r \in InitiallyKnown
  <2>1. PICK s \in Context : s.id = r.id
    BY <1>6, ContextCovers DEF Ids
  <2>2. s \in ReservedRefs(known)
    BY <2>1 DEF ReservedRefs
  <2>3. s = r
    BY <2>1, <2>2 DEF CheckRefs, Declared
  <2> QED
    BY <1>4, <2>1, <2>3, ContextVisible
<1>7. ASSUME NEW r \in known, NEW s \in new, s.id = r.id PROVE s = r
  BY <1>3, <1>7
<1> HIDE DEF new
<1> QED
  BY <1>1, <1>2, <1>3, <1>4, <1>5, <1>6, <1>7 DEF KnownRefsSound

LEMMA RefsQuiet ==
  ASSUME RefsInv, UNCHANGED known, pc' \notin Verified
  PROVE  RefsInv'
  BY DEF RefsInv, KnownRefsSound

(* Only ingestion touches what is known or is being verified.                *)
LEMMA RefsElsewhere ==
  ASSUME RefsInv, Run, ~Ingest
  PROVE  RefsInv'
<1>1. CASE Start \/ LoopHead \/ Project \/ Projected
  BY <1>1, RefsQuiet DEF Start, LoopHead, Project, Projected, DenyTurn, Verified, runVars
<1>2. CASE ModelTurn
  <2>1. CASE TurnAccepted
    BY <2>1, RefsQuiet, CoordinatorAssumption DEF CoordinatorAssumption, TurnAccepted, Route,
       Verified
  <2>2. CASE TurnFails \/ TurnDenied \/ UpdateRejected
    BY <2>2, RefsQuiet DEF TurnFails, TurnDenied, UpdateRejected, FailRun, DenyTurn, Verified
  <2> QED
    BY <1>2, <2>1, <2>2 DEF ModelTurn
<1>3. CASE Preflight
  BY <1>3, RefsQuiet DEF Preflight, PreflightTool, PreflightBatch, Wave, BatchSettled, DenyTurn,
     Proceed, Verified, runVars
<1>4. CASE Gate
  BY <1>4, RefsQuiet DEF Gate, Authorize, Bind, BindDenied, Recheck, Dispatch, DispatchDenied,
     DenyItem, Proceed, Verified, runVars
<1>5. CASE ExecutorReturns
  BY <1>5, RefsQuiet DEF ExecutorReturns, FailRun, DenyItem, Proceed, Verified
<1>6. CASE Finish
  BY <1>6, RefsQuiet DEF Finish, FinishAccepted, FinishDenied, FinishRaises, FailRun, DenyTurn,
     Verified
<1>7. CASE Conclude
  BY <1>7, RefsQuiet DEF Conclude, Persist, PriorStatus, Transition, TransitionMisbehaves,
     TransitionRaises, Observe, Confirm, Report, Verified, runVars
<1>8. CASE Outage
  BY <1>8, RefsQuiet DEF Outage, RunRaises, AccessFailsRun, AccessDeniesItem,
     AccessRejectsResult, AccessHidesTransition, FailRun, DenyItem, EndIngest, Proceed,
     Verified, runVars
<1> QED
  BY <1>1, <1>2, <1>3, <1>4, <1>5, <1>6, <1>7, <1>8 DEF Run

LEMMA RefsIngest ==
  ASSUME RefsInv, Ingest
  PROVE  RefsInv'
<1>1. CASE VerifyResult
  BY <1>1 DEF VerifyResult, Verify, RefsInv, KnownRefsSound, Executed, runVars, batchVars
<1>2. CASE ResultRejected \/ ApplyRejected
  BY <1>2, RefsQuiet DEF ResultRejected, ApplyRejected, EndIngest, Proceed, Verified
<1>3. CASE VerifyRevision
  <2>1. CASE pc' = "APPLY" /\ UNCHANGED <<runVars, batchVars, ingestVars>>
    BY <1>3, <2>1 DEF VerifyRevision, RefsInv, KnownRefsSound, Executed, Verified, runVars,
       batchVars
  <2>2. CASE EndIngest("FAILED", {"VERIFY_RESULT"}) /\ UNCHANGED known
    BY <2>2, RefsQuiet DEF EndIngest, Proceed, Verified
  <2> QED
    BY <1>3, <2>1, <2>2 DEF VerifyRevision
<1>4. CASE Apply
  BY <1>4 DEF Apply, RefsInv, KnownRefsSound, Executed, Verified, runVars, batchVars
<1>5. CASE Settle
  <2>1. CASE known' = Citable(known, Executed.refs) /\ EndIngest("COMPLETED", {})
    <3>1. pc' \notin Verified
      BY <2>1 DEF EndIngest, Proceed, Verified
    <3>2. CheckRefs(Executed.refs, Executed.embedded, known, ReservedRefs(known), FALSE)
          /\ KnownRefsSound
      BY <1>5 DEF Settle, RefsInv, Verified
    <3>3. KnownRefsSound'
      BY <2>1, <3>2, CitableSound
    <3> QED
      BY <3>1, <3>3 DEF RefsInv
  <2>2. CASE FailRun
    BY <2>2, RefsQuiet DEF FailRun, Verified
  <2> QED
    BY <1>5, <2>1, <2>2 DEF Settle
<1> QED
  BY <1>1, <1>2, <1>3, <1>4, <1>5 DEF Ingest

LEMMA RefsStep == RefsInv /\ [Next]_vars => RefsInv'
<1> SUFFICES ASSUME RefsInv, [Next]_vars PROVE RefsInv'
  OBVIOUS
<1>1. CASE Run
  BY <1>1, RefsElsewhere, RefsIngest
<1>2. CASE Others \/ Returned \/ UNCHANGED vars
  BY <1>2 DEF Others, Returned, vars, local, RefsInv, KnownRefsSound, Executed, runVars,
     batchVars
<1> QED
  BY <1>1, <1>2 DEF Next

(* Everything the Agent may cite is Agent-visible, no two citable references *)
(* share an id, and what came with a result has the id of no context         *)
(* reference, hidden ones and ones with equal ids included, whatever the     *)
(* executors return (check_refs, _ingest).                                   *)
THEOREM KnownRefsSoundThm == Spec => []KnownRefsSound
<1>1. RefsInv => KnownRefsSound
  BY DEF RefsInv
<1> QED
  BY <1>1, RefsInit, RefsStep, PTL DEF Spec

-----------------------------------------------------------------------------
(* Quotas.  Every charge is checked before it is made, some steps earlier:   *)
(* the loop head covers the model call and the step of its state update, and *)
(* authorize covers the call, the step and the reservation of one dispatch.  *)
Covered == {"BIND", "RECHECK", "DISPATCH"}
Guarding == {"PROJECT", "PROJECTED", "GENERATE", "EXECUTING"} \cup Covered

BudgetInv ==
  /\ BudgetRespected
  /\ pc \in {"PROJECT", "PROJECTED"} =>
       used["model_calls"] < Quota["model_calls"] /\ used["steps"] < Quota["steps"]
  /\ pc = "GENERATE" => used["steps"] < Quota["steps"]
  /\ pc \in Covered => CheckBudget(1, Reserved, used)
  /\ pc = "EXECUTING" =>
       \A d \in DOMAIN Quota \ (overdrawn \cup Standard) :
         used[d] + Amount(Reserved, d) <= Quota[d]

LEMMA QuotaTyped ==
  ASSUME TypeInv
  PROVE  /\ used \in [DOMAIN Quota -> Nat] /\ Quota \in [DOMAIN Quota -> Nat]
         /\ Standard \subseteq DOMAIN Quota
         /\ {"model_calls", "tool_calls", "steps"} \subseteq Standard
  BY GatesAssumption DEF GatesAssumption, TypeInv, TypeOK, RunTypeOK, Standard

LEMMA BudgetInit == Init => BudgetInv
<1> SUFFICES ASSUME Init PROVE BudgetInv
  OBVIOUS
<1>1. TypeInv
  BY TypeInit
<1>2. overdrawn = {} /\ pc \notin Guarding /\ \A d \in DOMAIN Quota : used[d] = 0
  BY DEF Init, Guarding, Covered
<1>3. BudgetRespected
  BY <1>1, <1>2, QuotaTyped DEF BudgetRespected
<1> QED
  BY <1>2, <1>3 DEF BudgetInv, Guarding

LEMMA BudgetQuiet ==
  ASSUME BudgetInv, UNCHANGED <<used, overdrawn>>, pc' \notin Guarding
  PROVE  BudgetInv'
  BY DEF BudgetInv, BudgetRespected, Guarding

(* One more of a counter that is below its quota.                            *)
LEMMA ChargeFits ==
  ASSUME TypeInv, BudgetRespected, UNCHANGED overdrawn, NEW dims, dims \subseteq Standard,
         Charge(dims), \A d \in dims : used[d] < Quota[d]
  PROVE  /\ BudgetRespected'
         /\ used' \in [DOMAIN Quota -> Nat]
         /\ \A d \in DOMAIN Quota : d \notin dims => used'[d] = used[d]
<1>1. used \in [DOMAIN Quota -> Nat] /\ Quota \in [DOMAIN Quota -> Nat]
  BY QuotaTyped
<1>2. used' = [d \in DOMAIN Quota |-> IF d \in dims THEN used[d] + 1 ELSE used[d]]
  BY <1>1 DEF Charge
<1>3. used' \in [DOMAIN Quota -> Nat]
  BY <1>1, <1>2
<1>4. BudgetRespected'
  BY <1>1, <1>2 DEF BudgetRespected
<1> QED
  BY <1>2, <1>3, <1>4

LEMMA BudgetLoop ==
  ASSUME TypeInv, BudgetInv, Start \/ LoopHead \/ Project \/ Projected
  PROVE  BudgetInv'
<1>0. /\ used \in [DOMAIN Quota -> Nat] /\ Quota \in [DOMAIN Quota -> Nat]
      /\ {"model_calls", "steps"} \subseteq DOMAIN Quota
      /\ {"model_calls"} \subseteq Standard
  BY QuotaTyped
<1>1. CASE Start
  BY <1>1, BudgetQuiet DEF Start, Guarding, Covered, history
<1>2. CASE LoopHead
  <2>1. CASE pc' = "PERSIST"
    BY <1>2, <2>1, BudgetQuiet DEF LoopHead, Guarding, Covered, history
  <2>2. CASE Remaining(used, "model_calls") > 0 /\ Remaining(used, "steps") > 0 /\ pc' = "PROJECT"
    <3>1. used["model_calls"] < Quota["model_calls"] /\ used["steps"] < Quota["steps"]
      BY <1>0, <2>2 DEF Remaining
    <3> QED
      BY <1>2, <2>2, <3>1 DEF LoopHead, BudgetInv, BudgetRespected, Covered, history
  <2> QED
    BY <1>2, <2>1, <2>2 DEF LoopHead
<1>3. CASE Project
  BY <1>3 DEF Project, BudgetInv, BudgetRespected, Covered, runVars, history
<1>4. CASE Projected
  <2>1. CASE DenyTurn("MODEL_TURN") /\ UNCHANGED <<used, history>>
    BY <2>1, BudgetQuiet DEF DenyTurn, Guarding, Covered, history
  <2>2. CASE pc' = "GENERATE" /\ Charge({"model_calls"}) /\ UNCHANGED overdrawn
    <3>1. used["model_calls"] < Quota["model_calls"] /\ used["steps"] < Quota["steps"]
          /\ BudgetRespected
      BY <1>4 DEF Projected, BudgetInv
    <3>2. BudgetRespected' /\ used'["steps"] = used["steps"]
      BY <1>0, <2>2, <3>1, ChargeFits
    <3> QED
      BY <2>2, <3>1, <3>2 DEF BudgetInv, Covered
  <2> QED
    BY <1>4, <2>1, <2>2 DEF Projected
<1> QED
  BY <1>1, <1>2, <1>3, <1>4

LEMMA BudgetModelTurn ==
  ASSUME TypeInv, BudgetInv, ModelTurn
  PROVE  BudgetInv'
<1>0. {"steps"} \subseteq Standard /\ BudgetRespected /\ (pc = "GENERATE" => used["steps"] < Quota["steps"])
  BY QuotaTyped DEF BudgetInv
<1>1. UNCHANGED overdrawn /\ pc' \notin Guarding
  <2>1. ASSUME NEW t \in Turns, pc' = Route[t.action] PROVE pc' \notin Guarding
    BY <2>1, CoordinatorAssumption DEF CoordinatorAssumption, Route, Guarding, Covered
  <2> QED
    BY <2>1 DEF ModelTurn, TurnFails, TurnDenied, UpdateRejected, TurnAccepted, FailRun, DenyTurn,
       Guarding, Covered, history
<1>2. UNCHANGED used \/ (pc = "GENERATE" /\ Charge({"steps"}))
  BY DEF ModelTurn, TurnFails, TurnDenied, UpdateRejected, TurnAccepted
<1>3. CASE UNCHANGED used
  BY <1>1, <1>3, BudgetQuiet
<1>4. CASE pc = "GENERATE" /\ Charge({"steps"})
  <2>1. BudgetRespected'
    BY <1>0, <1>1, <1>4, ChargeFits
  <2> QED
    BY <1>1, <2>1 DEF BudgetInv, Guarding
<1> QED
  BY <1>2, <1>3, <1>4

LEMMA BudgetGate ==
  ASSUME TypeInv, BudgetInv, Gate
  PROVE  BudgetInv'
<1>d. CASE DenyItem /\ UNCHANGED <<used, overdrawn>>
  BY <1>d, BudgetQuiet DEF DenyItem, Proceed, Guarding, Covered
<1>1. CASE Authorize
  <2>1. CASE CheckBudget(1, Reserved, used) /\ pc' = "BIND" /\ UNCHANGED <<runVars, batchVars>>
    <3>1. UNCHANGED <<used, overdrawn, sized, current>>
      BY <1>1, <2>1 DEF Authorize, runVars, batchVars, history
    <3> QED
      BY <2>1, <3>1 DEF BudgetInv, BudgetRespected, CheckBudget, Remaining, Reserved, Covered
  <2> QED
    BY <1>1, <1>d, <2>1 DEF Authorize, Reserved, history
<1>2. CASE Bind
  BY <1>2 DEF Bind, BudgetInv, BudgetRespected, CheckBudget, Remaining, Reserved, Covered,
     runVars, batchVars, history
<1>3. CASE Recheck
  <2>1. CASE pc' = "DISPATCH" /\ UNCHANGED <<runVars, batchVars>>
    BY <1>3, <2>1 DEF Recheck, BudgetInv, BudgetRespected, CheckBudget, Remaining, Reserved,
       Covered, runVars, batchVars, history
  <2> QED
    BY <1>3, <1>d, <2>1 DEF Recheck, history
<1>4. CASE Dispatch
  <2>1. CheckBudget(1, Reserved, used) /\ BudgetRespected
    BY <1>4 DEF Dispatch, BudgetInv, Covered
  <2>2. pc' = "EXECUTING" /\ UNCHANGED <<overdrawn, sized, current>>
        /\ Charge({"tool_calls", "steps"})
    BY <1>4 DEF Dispatch, batchVars, history
  <2>3. /\ used \in [DOMAIN Quota -> Nat] /\ Quota \in [DOMAIN Quota -> Nat]
        /\ {"tool_calls", "steps"} \subseteq Standard /\ Standard \subseteq DOMAIN Quota
    BY QuotaTyped
  <2>4. \A d \in {"tool_calls", "steps"} : used[d] < Quota[d]
    BY <2>1, <2>3 DEF CheckBudget, Remaining
  <2>5. BudgetRespected' /\ \A d \in DOMAIN Quota \ Standard : used'[d] = used[d]
    BY <2>1, <2>2, <2>3, <2>4, ChargeFits
  <2>6. ASSUME NEW d \in DOMAIN Quota \ (overdrawn \cup Standard)
        PROVE  used[d] + Amount(Reserved, d) <= Quota[d]
    <3>1. CASE d \in DOMAIN Reserved
      <4>1. IsDraw(Reserved)
        BY <1>4, ActingItem DEF Dispatch, Acting, Reserved
      <4> QED
        BY <2>1, <2>3, <3>1, <4>1 DEF CheckBudget, Remaining, Amount, IsDraw
    <3>2. CASE d \notin DOMAIN Reserved
      BY <2>1, <2>3, <3>2 DEF BudgetRespected, Amount
    <3> QED
      BY <3>1, <3>2
  <2> QED
    BY <2>2, <2>5, <2>6 DEF BudgetInv, Reserved, Covered
<1>5. CASE BindDenied \/ DispatchDenied
  BY <1>5, <1>d DEF BindDenied, DispatchDenied, history
<1> QED
  BY <1>1, <1>2, <1>3, <1>4, <1>5 DEF Gate

(* A charge beyond the reservation is recorded as an overdraft.              *)
LEMMA BudgetExecutor ==
  ASSUME TypeInv, BudgetInv, ExecutorReturns
  PROVE  BudgetInv'
<1>1. PICK outcome \in Outcomes[Request.tool] : Execute(outcome)
  BY DEF ExecutorReturns
<1>2. pc' \notin Guarding
  BY DEF ExecutorReturns, FailRun, DenyItem, Proceed, Guarding, Covered
<1>3. IsDraw(Reserved) /\ Request.tool \in DOMAIN Specs
  BY ActingItem DEF ExecutorReturns, Acting, Bound, Reserved, TypeInv, Placed
<1>4. IsDraw(Actual(outcome))
  BY <1>3, CoordinatorAssumption DEF CoordinatorAssumption, Actual
<1> DEFINE charged(d) == Charged(Reserved, Actual(outcome), d)
<1>5. \A d : /\ charged(d) \in Nat /\ Amount(Reserved, d) \in Nat
             /\ d \in Standard => charged(d) = 0
  BY <1>3, <1>4, ChargedBounds
<1>6. /\ used \in [DOMAIN Quota -> Nat] /\ Quota \in [DOMAIN Quota -> Nat]
      /\ Standard \subseteq DOMAIN Quota
  BY QuotaTyped
<1>7. /\ used' = [d \in DOMAIN Quota |-> used[d] + charged(d)]
      /\ overdrawn' = overdrawn \cup {d \in DOMAIN Quota : charged(d) > Amount(Reserved, d)}
  BY <1>1, <1>6 DEF Execute, Reconcile
<1>8. /\ overdrawn \cap Standard = {}
      /\ \A d \in DOMAIN Quota \ overdrawn : used[d] <= Quota[d]
      /\ \A d \in DOMAIN Quota \ (overdrawn \cup Standard) :
           used[d] + Amount(Reserved, d) <= Quota[d]
  BY DEF ExecutorReturns, BudgetInv, BudgetRespected
<1> HIDE DEF charged
<1>9. overdrawn' \cap Standard = {}
  BY <1>5, <1>7, <1>8
<1>10. ASSUME NEW d \in DOMAIN Quota \ overdrawn' PROVE used'[d] <= Quota[d]
  <2>1. d \notin overdrawn /\ ~(charged(d) > Amount(Reserved, d)) /\ used'[d] = used[d] + charged(d)
    BY <1>7
  <2> QED
    BY <1>5, <1>6, <1>8, <2>1
<1> QED
  BY <1>2, <1>9, <1>10 DEF BudgetInv, BudgetRespected, Guarding

(* Nothing else charges anything or relies on an earlier check.              *)
LEMMA BudgetElsewhere ==
  ASSUME BudgetInv, Preflight \/ Ingest \/ Finish \/ Conclude \/ Outage
  PROVE  BudgetInv'
<1>1. UNCHANGED <<used, overdrawn>>
  BY DEF Preflight, PreflightTool, PreflightBatch, Wave, BatchSettled, Ingest, VerifyResult,
     ResultRejected, VerifyRevision, Apply, ApplyRejected, Settle, Finish, FinishAccepted,
     FinishDenied, FinishRaises, Conclude, Persist, PriorStatus, Transition,
     TransitionMisbehaves, TransitionRaises, Observe, Confirm, Report, Outage, RunRaises,
     AccessFailsRun, AccessDeniesItem, AccessRejectsResult, AccessHidesTransition, runVars,
     history
<1>2. CASE Preflight
  BY <1>1, <1>2, BudgetQuiet DEF Preflight, PreflightTool, PreflightBatch, Wave, BatchSettled,
     DenyTurn, Proceed, Guarding, Covered
<1>3. CASE Ingest
  BY <1>1, <1>3, BudgetQuiet DEF Ingest, VerifyResult, ResultRejected, VerifyRevision, Apply,
     ApplyRejected, Settle, EndIngest, FailRun, Proceed, Guarding, Covered
<1>4. CASE Finish
  BY <1>1, <1>4, BudgetQuiet DEF Finish, FinishAccepted, FinishDenied, FinishRaises, FailRun,
     DenyTurn, Guarding, Covered
<1>5. CASE Conclude
  BY <1>1, <1>5, BudgetQuiet DEF Conclude, Persist, PriorStatus, Transition,
     TransitionMisbehaves, TransitionRaises, Observe, Confirm, Report, Guarding, Covered
<1>6. CASE Outage
  BY <1>1, <1>6, BudgetQuiet DEF Outage, RunRaises, AccessFailsRun, AccessDeniesItem,
     AccessRejectsResult, AccessHidesTransition, FailRun, DenyItem, EndIngest, Proceed,
     Guarding, Covered
<1> QED
  BY <1>2, <1>3, <1>4, <1>5, <1>6

LEMMA BudgetStep == TypeInv /\ BudgetInv /\ [Next]_vars => BudgetInv'
<1> SUFFICES ASSUME TypeInv, BudgetInv, [Next]_vars PROVE BudgetInv'
  OBVIOUS
<1>1. CASE Run
  BY <1>1, BudgetLoop, BudgetModelTurn, BudgetGate, BudgetExecutor, BudgetElsewhere DEF Run
<1>2. CASE Others \/ Returned \/ UNCHANGED vars
  BY <1>2 DEF Others, Returned, vars, local, BudgetInv, BudgetRespected, CheckBudget, Remaining,
     Reserved, runVars, batchVars, history
<1> QED
  BY <1>1, <1>2 DEF Next

(* No quota is exceeded unless an executor reports, or hides, more than was  *)
(* reserved, and the standard counters never are, for any quotas, tools,     *)
(* batches and outcomes (_charge, check_budget, reconcile).                  *)
THEOREM BudgetRespectedThm == Spec => []BudgetRespected
<1>1. BudgetInv => BudgetRespected
  BY DEF BudgetInv
<1> QED
  BY <1>1, BudgetInit, BudgetStep, TypeInvThm, PTL DEF Spec

-----------------------------------------------------------------------------
(* What the result claims.  Until the run concludes its status is RUNNING    *)
(* and there is no output; once the transition has been judged, either the   *)
(* store holds the reported status, which nothing replaces any more, or the  *)
(* run says that persistence failed.                                         *)
Concluding == {"PERSIST", "PRIOR", "TRANSITION", "OBSERVE", "CONFIRM", "REPORT", "DONE"}

Honest(st, errs) ==
  \/ st \in Terminal /\ storeStatus = st
  \/ st = "FAILED" /\ "STATUS_PERSISTENCE_FAILED" \in errs

ClaimInv ==
  /\ pc \notin Concluding \cup {"RAISED"} => runStatus = "RUNNING"
  /\ output => runStatus = "DONE"
  /\ pc \in Concluding => runStatus \in Terminal
  /\ pc = "REPORT" => Honest(runStatus, errors)
  /\ pc = "DONE" => /\ Honest(result.status, result.errors)
                    /\ result.output => result.status = "DONE"

LEMMA ClaimInit == Init => ClaimInv
  BY DEF Init, ClaimInv, Concluding, NoReport

LEMMA ClaimEnvironment ==
  ASSUME ClaimInv, Environment, UNCHANGED local
  PROVE  ClaimInv'
  BY DEF ClaimInv, Concluding, Honest, Environment, ExternalWrite, ExternalTransition,
         ReferenceMoves, TransitionStatus, MayTransition, local, runVars, persistVars,
         storeVars, Terminal

LEMMA ClaimDeny ==
  ASSUME ClaimInv, pc \notin Concluding \cup {"RAISED"}, NEW stage, DenyTurn(stage)
  PROVE  ClaimInv'
  BY DEF ClaimInv, Concluding, DenyTurn

LEMMA ClaimFail ==
  ASSUME ClaimInv, pc \notin Concluding \cup {"RAISED"}, FailRun
  PROVE  ClaimInv'
  BY DEF ClaimInv, Concluding, FailRun, Terminal

(* The steps before the conclusion keep the status, the output and the       *)
(* report as they are, or conclude.                                          *)
LEMMA ClaimLoop ==
  ASSUME ClaimInv, Start \/ LoopHead \/ Project \/ Projected \/ ModelTurn
  PROVE  ClaimInv'
<1>1. CASE Start
  BY <1>1 DEF ClaimInv, Start, Stopped, Concluding, Terminal, persistVars
<1>2. CASE LoopHead
  BY <1>2 DEF ClaimInv, LoopHead, Stopped, Concluding, Terminal, persistVars
<1>3. CASE Project
  BY <1>3 DEF ClaimInv, Project, Concluding, runVars, persistVars
<1>4. CASE Projected
  <2>1. pc \notin Concluding \cup {"RAISED"}
    BY <1>4 DEF Projected, Concluding
  <2>2. CASE DenyTurn("MODEL_TURN")
    BY <2>1, <2>2, ClaimDeny
  <2>3. CASE pc' = "GENERATE" /\ UNCHANGED <<runStatus, output, persistVars>>
    BY <2>1, <2>3 DEF ClaimInv, Concluding
  <2> QED
    BY <1>4, <2>2, <2>3 DEF Projected
<1>5. CASE ModelTurn
  <2>1. pc \notin Concluding \cup {"RAISED"}
    BY <1>5 DEF ModelTurn, TurnFails, TurnDenied, UpdateRejected, TurnAccepted, Concluding
  <2>2. CASE TurnFails
    BY <2>1, <2>2, ClaimFail DEF TurnFails
  <2>3. CASE TurnDenied
    BY <2>1, <2>3, ClaimDeny DEF TurnDenied
  <2>4. CASE UpdateRejected
    BY <2>1, <2>4, ClaimDeny DEF UpdateRejected
  <2>5. CASE TurnAccepted
    <3>1. PICK t \in Turns :
            pc' = Route[t.action] /\ UNCHANGED <<runStatus, output, persistVars>>
      BY <2>5 DEF TurnAccepted
    <3>2. pc' \in {"HEAD", "TOOL", "BATCH", "FINISH"}
      BY <3>1, CoordinatorAssumption DEF CoordinatorAssumption, Route
    <3> QED
      BY <2>1, <3>1, <3>2 DEF ClaimInv, Concluding
  <2> QED
    BY <1>5, <2>2, <2>3, <2>4, <2>5 DEF ModelTurn
<1> QED
  BY <1>1, <1>2, <1>3, <1>4, <1>5

LEMMA ClaimProceed ==
  ASSUME ClaimInv, pc \notin Concluding \cup {"RAISED"}, NEW w, Proceed(w),
         UNCHANGED <<runStatus, output, result>>
  PROVE  ClaimInv'
  BY DEF ClaimInv, Proceed, Concluding

LEMMA ClaimTools ==
  ASSUME ClaimInv, Preflight \/ Gate \/ ExecutorReturns
  PROVE  ClaimInv'
<1>0. pc \notin Concluding \cup {"RAISED"}
  BY DEF Preflight, PreflightTool, PreflightBatch, Wave, BatchSettled, Gate, Authorize, Bind,
         BindDenied, Recheck, Dispatch, DispatchDenied, ExecutorReturns, Concluding
<1>1. CASE PreflightTool
  <2>1. CASE DenyTurn("EXECUTION")
    BY <1>0, <2>1, ClaimDeny
  <2>2. CASE pc' = "AUTHORIZE" /\ UNCHANGED <<runVars, persistVars>>
    BY <1>0, <2>2 DEF ClaimInv, Concluding, runVars, persistVars
  <2> QED
    BY <1>1, <2>1, <2>2 DEF PreflightTool
<1>2. CASE PreflightBatch
  <2>1. CASE DenyTurn("WORK_BATCH")
    BY <1>0, <2>1, ClaimDeny
  <2>2. CASE pc' = "WAVE" /\ UNCHANGED <<runVars, persistVars>>
    BY <1>0, <2>2 DEF ClaimInv, Concluding, runVars, persistVars
  <2> QED
    BY <1>2, <2>1, <2>2 DEF PreflightBatch
<1>3. CASE Wave
  BY <1>0, <1>3, ClaimProceed DEF Wave, runVars, persistVars
<1>4. CASE BatchSettled
  BY <1>0, <1>4 DEF BatchSettled, ClaimInv, Concluding, persistVars
<1>5. CASE Authorize
  BY <1>0, <1>5, ClaimProceed DEF Authorize, DenyItem, ClaimInv, Concluding, runVars, persistVars
<1>6. CASE Bind \/ Dispatch
  <2>1. pc' \in {"RECHECK", "EXECUTING"} /\ UNCHANGED <<runStatus, output>>
    BY <1>6 DEF Bind, Dispatch, runVars
  <2> QED
    BY <1>0, <2>1 DEF ClaimInv, Concluding
<1>7. CASE BindDenied \/ DispatchDenied
  BY <1>0, <1>7, ClaimProceed DEF BindDenied, DispatchDenied, DenyItem, persistVars
<1>8. CASE Recheck
  BY <1>0, <1>8, ClaimProceed DEF Recheck, DenyItem, ClaimInv, Concluding, runVars, persistVars
<1>9. CASE ExecutorReturns
  <2>1. CASE FailRun
    BY <1>0, <2>1, ClaimFail
  <2>2. CASE \E w : Proceed(w) /\ UNCHANGED <<runStatus, output, result>>
    BY <1>0, <2>2, ClaimProceed
  <2> QED
    BY <1>9, <2>1, <2>2 DEF ExecutorReturns, DenyItem, persistVars
<1> QED
  BY <1>1, <1>2, <1>3, <1>4, <1>5, <1>6, <1>7, <1>8, <1>9 DEF Preflight, Gate

LEMMA ClaimIngest ==
  ASSUME ClaimInv, Ingest
  PROVE  ClaimInv'
<1>0. pc \notin Concluding \cup {"RAISED"}
  BY DEF Ingest, VerifyResult, ResultRejected, VerifyRevision, Apply, ApplyRejected, Settle,
         Concluding
<1>1. CASE VerifyResult \/ Apply
  BY <1>0, <1>1 DEF VerifyResult, Apply, ClaimInv, Concluding, runVars, persistVars
<1>2. CASE ResultRejected \/ ApplyRejected
  BY <1>0, <1>2, ClaimProceed DEF ResultRejected, ApplyRejected, EndIngest, persistVars
<1>3. CASE VerifyRevision
  BY <1>0, <1>3, ClaimProceed
  DEF VerifyRevision, EndIngest, ClaimInv, Concluding, runVars, persistVars
<1>4. CASE Settle
  BY <1>0, <1>4, ClaimProceed, ClaimFail DEF Settle, EndIngest, persistVars
<1> QED
  BY <1>1, <1>2, <1>3, <1>4 DEF Ingest

LEMMA ClaimFinish ==
  ASSUME ClaimInv, Finish
  PROVE  ClaimInv'
<1>0. pc \notin Concluding \cup {"RAISED"}
  BY DEF Finish, FinishAccepted, FinishDenied, FinishRaises, Concluding
<1>1. CASE FinishAccepted
  BY <1>0, <1>1 DEF FinishAccepted, ClaimInv, Concluding, Terminal
<1>2. CASE FinishDenied
  BY <1>0, <1>2, ClaimDeny DEF FinishDenied
<1>3. CASE FinishRaises
  BY <1>0, <1>3, ClaimFail DEF FinishRaises
<1> QED
  BY <1>1, <1>2, <1>3 DEF Finish

(* The five accesses of the persistence path, whatever the store does.       *)
LEMMA ClaimConclude ==
  ASSUME ClaimInv, Conclude
  PROVE  ClaimInv'
<1>1. CASE Persist \/ PriorStatus \/ Transition \/ TransitionMisbehaves \/ Observe
  BY <1>1 DEF Persist, PriorStatus, Transition, TransitionMisbehaves, Observe, ClaimInv,
              Concluding, runVars, persistVars
<1>2. CASE TransitionRaises
  BY <1>2 DEF TransitionRaises, PersistenceFailed, ClaimInv, Concluding, Honest, Terminal
<1>3. CASE Confirm
  BY <1>3 DEF Confirm, Confirmed, PersistenceFailed, ClaimInv, Concluding, Honest, Terminal,
              shared, storeVars
<1>4. CASE Report
  BY <1>4 DEF Report, ClaimInv, Concluding, Honest, runVars, shared, storeVars
<1> QED
  BY <1>1, <1>2, <1>3, <1>4 DEF Conclude

LEMMA ClaimOutage ==
  ASSUME ClaimInv, Outage
  PROVE  ClaimInv'
<1>1. CASE RunRaises
  BY <1>1 DEF RunRaises, ClaimInv, Concluding, runVars
<1>2. CASE AccessFailsRun
  BY <1>2, ClaimFail DEF AccessFailsRun, Concluding
<1>3. CASE AccessDeniesItem
  BY <1>3, ClaimProceed DEF AccessDeniesItem, DenyItem, Concluding, persistVars
<1>4. CASE AccessRejectsResult
  BY <1>4, ClaimProceed DEF AccessRejectsResult, EndIngest, Concluding, persistVars
<1>5. CASE AccessHidesTransition
  BY <1>5 DEF AccessHidesTransition, PersistenceFailed, ClaimInv, Concluding, Honest, Terminal
<1> QED
  BY <1>1, <1>2, <1>3, <1>4, <1>5 DEF Outage

LEMMA ClaimStep == ClaimInv /\ [Next]_vars => ClaimInv'
<1> SUFFICES ASSUME ClaimInv, [Next]_vars PROVE ClaimInv'
  OBVIOUS
<1>1. CASE Run
  BY <1>1, ClaimLoop, ClaimTools, ClaimIngest, ClaimFinish, ClaimConclude, ClaimOutage DEF Run
<1>2. CASE Others
  BY <1>2, ClaimEnvironment DEF Others
<1>3. CASE Returned \/ UNCHANGED vars
  BY <1>3 DEF Returned, vars, local, shared, runVars, persistVars, storeVars, ClaimInv,
              Concluding, Honest
<1> QED
  BY <1>1, <1>2, <1>3 DEF Next

(* A RuntimeResult never claims a status or an output that the store does    *)
(* not hold without saying so, even over a store that breaks its protocol.   *)
THEOREM ResultMatchesStoreThm == Spec => []ResultMatchesStore
<1>1. ClaimInv => ResultMatchesStore
  BY DEF ClaimInv, ResultMatchesStore, Honest
<1> QED
  BY <1>1, ClaimInit, ClaimStep, PTL DEF Spec
=============================================================================
