----------------------------- MODULE RunContract -----------------------------
(***************************************************************************)
(* What a run promises to its store, its tools and its caller, whatever    *)
(* the model, the executor and the hooks do.  It works by optimistic       *)
(* transactions: it looks at the revision, has it confirmed unchanged      *)
(* after all it has judged, and then makes at most one effect: a write at  *)
(* that very revision, or the call of a request never called before.  Once *)
(* it has come to a verdict it makes no effect but one transition to it,   *)
(* and it returns what is stored, or says that it could not store it.      *)
(***************************************************************************)
EXTENDS TaskStateStore, FiniteSets

CONSTANTS Requests,     \* request ids
          MaxAnswers,   \* model calls a run may make
          MaxCalls,     \* requests a run may have executed
          Reachable     \* a transition that is asked for reaches the store

VARIABLES phase,    \* what the run is about
          basis,    \* the revision that the transaction under way began at
          spent,    \* the ids of the requests that were executed
          answers,  \* the model calls made
          verdict,  \* the status the run has come to
          doubt     \* the run says that its verdict may not be stored

contractVars == <<storeVars, referenceRevision, phase, basis, spent, answers, verdict, doubt>>
world        == <<storeVars, referenceRevision>>

None   == -1
Phases == {"WORKING", "GRANTED", "EXECUTING", "ENDING", "ENDED", "RETURNED", "RAISED"}

Init ==
  /\ StoreInit
  /\ phase = "WORKING" /\ basis = None
  /\ spent = {} /\ answers = 0
  /\ verdict = "RUNNING" /\ doubt = FALSE

-----------------------------------------------------------------------------
(* A transaction begins.  The one that ends the run does so the same way.    *)
Look ==
  /\ phase \in {"WORKING", "ENDING"} /\ basis = None
  /\ basis' = storeRevision
  /\ UNCHANGED <<world, phase, spent, answers, verdict, doubt>>

(* It is confirmed, for an effect or for the call of the model.              *)
Grant ==
  /\ phase = "WORKING" /\ basis = storeRevision
  /\ phase' = "GRANTED"
  /\ UNCHANGED <<world, basis, spent, verdict, doubt>>
  /\ \/ UNCHANGED answers
     \/ answers < MaxAnswers /\ answers' = answers + 1

(* It is given up without an effect.                                         *)
GiveUp ==
  /\ phase \in {"WORKING", "GRANTED"}
  /\ phase' = "WORKING" /\ basis' = None
  /\ UNCHANGED <<world, spent, answers, verdict, doubt>>

(* It writes.                                                                *)
Write ==
  /\ phase = "GRANTED"
  /\ ApplyBatch(basis)
  /\ phase' = "WORKING" /\ basis' = None
  /\ UNCHANGED <<referenceRevision, spent, answers, verdict, doubt>>

(* It has a request executed, which was never executed before.               *)
Execute(id) ==
  /\ phase = "GRANTED"
  /\ id \notin spent /\ Cardinality(spent) < MaxCalls
  /\ spent' = spent \cup {id}
  /\ phase' = "EXECUTING" /\ basis' = None
  /\ UNCHANGED <<world, answers, verdict, doubt>>

-----------------------------------------------------------------------------
(* A verdict.  Cancelling is up to others.                                   *)
Decided(v) ==
  /\ v \in Terminal /\ (v = "CANCELLED" => storeStatus = v)
  /\ phase' = "ENDING" /\ verdict' = v /\ basis' = None

Decide ==
  /\ phase \in {"WORKING", "GRANTED"}
  /\ \E v \in Terminal : Decided(v)
  /\ UNCHANGED <<world, spent, answers, doubt>>

(* Only while it executes a request does the run touch the reference world.  *)
Executed ==
  /\ phase = "EXECUTING"
  /\ referenceRevision' \in {referenceRevision, referenceRevision + 1}
  /\ \/ phase' = "WORKING" /\ UNCHANGED <<basis, verdict>>
     \/ Decided("FAILED")
  /\ UNCHANGED <<storeVars, spent, answers, doubt>>

(* The verdict is stored, at the revision that was looked at,                *)
End ==
  /\ phase = "ENDING"
  /\ TransitionStatus(verdict, basis)
  /\ phase' = "ENDED" /\ basis' = None
  /\ UNCHANGED <<referenceRevision, spent, answers, verdict, doubt>>

(* or it is not, because others were faster or the store is out of reach,    *)
Refused ==
  /\ phase = "ENDING"
  /\ Reachable => ~MayTransition(verdict, basis)
  /\ phase' = "ENDED" /\ basis' = None
  /\ verdict' = "FAILED" /\ doubt' = TRUE
  /\ UNCHANGED <<world, spent, answers>>

(* or the run cannot tell.                                                   *)
Doubt ==
  /\ phase = "ENDED"
  /\ verdict' = "FAILED" /\ doubt' = TRUE
  /\ UNCHANGED <<world, phase, basis, spent, answers>>

Return ==
  /\ phase = "ENDED"
  /\ doubt \/ storeStatus = verdict
  /\ phase' = "RETURNED"
  /\ UNCHANGED <<world, basis, spent, answers, verdict, doubt>>

(* The run ends without a result, where no judgement is under way.           *)
Raise ==
  /\ phase \in {"WORKING", "ENDING", "ENDED"}
  /\ phase' = "RAISED" /\ basis' = None
  /\ UNCHANGED <<world, spent, answers, verdict, doubt>>

Others == Environment /\ UNCHANGED <<phase, basis, spent, answers, verdict, doubt>>

Next == \/ Look \/ Grant \/ GiveUp \/ Write \/ (\E id \in Requests : Execute(id))
        \/ Decide \/ Executed \/ End \/ Refused \/ Doubt \/ Return \/ Raise \/ Others

Spec == Init /\ [][Next]_contractVars
=============================================================================
