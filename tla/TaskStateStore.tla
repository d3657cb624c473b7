--------------------------- MODULE TaskStateStore ---------------------------
(***************************************************************************)
(* The consumer-owned task state behind the TaskStateStore protocol, and   *)
(* the reference (non-sandbox) world behind ReferenceStateGuard.  The      *)
(* runtime sees only revisions and a status, so content is left out: what  *)
(* matters of a write is that it advances the revision.  Other writers     *)
(* share both: a higher-authority caller may cancel the task, another      *)
(* process may write the state or move the reference world.                *)
(***************************************************************************)
EXTENDS Integers

CONSTANTS ExternalStatuses,   \* terminal statuses other actors may persist
          MaxRevision,        \* external writes stop at this store revision
          MaxReference        \* bound on reference-world revisions

VARIABLES storeRevision, storeStatus, referenceRevision

storeVars == <<storeRevision, storeStatus>>

Terminal == {"DONE", "FAILED", "EXHAUSTED", "CANCELLED"}
Statuses == Terminal \cup {"RUNNING"}   \* RUNNING also stands for WAITING, READY

ASSUME StoreAssumption ==
  /\ ExternalStatuses \subseteq Terminal
  /\ MaxRevision \in Nat
  /\ MaxReference \in Nat

StoreTypeOK ==
  /\ storeRevision \in Nat
  /\ storeStatus \in Statuses
  /\ referenceRevision \in Nat

StoreInit ==
  /\ storeRevision = 0
  /\ storeStatus \in {"RUNNING"} \cup ExternalStatuses
  /\ referenceRevision = 0

-----------------------------------------------------------------------------
(* apply_batch: optimistic, all or nothing.  A stale or illegal batch raises *)
(* and changes nothing, which callers express as UNCHANGED storeVars.        *)
ApplyBatch(expected) ==
  /\ storeRevision = expected
  /\ storeRevision' = storeRevision + 1
  /\ UNCHANGED storeStatus

(* transition_status is refused for a stale revision and when it would      *)
(* replace a different terminal status.                                      *)
MayTransition(requested, expected) ==
  /\ storeRevision = expected
  /\ requested \in Terminal
  /\ storeStatus \in Terminal => storeStatus = requested

(* A changed status advances the revision; repeating it is a no-op.          *)
TransitionStatus(requested, expected) ==
  /\ MayTransition(requested, expected)
  /\ storeStatus' = requested
  /\ storeRevision' = IF storeStatus = requested THEN storeRevision
                                                 ELSE storeRevision + 1

(* A store that breaks the protocol: it may forget, lose or invent either    *)
(* half of the transition.                                                   *)
FaultyTransition(requested) ==
  /\ storeStatus' \in {storeStatus, requested}
  /\ storeRevision' \in {storeRevision, storeRevision + 1}

-----------------------------------------------------------------------------
(* Other actors on the same store and on the reference world.                *)
ExternalWrite ==
  /\ storeRevision < MaxRevision
  /\ storeRevision' = storeRevision + 1
  /\ UNCHANGED <<storeStatus, referenceRevision>>

ExternalTransition ==
  \E s \in ExternalStatuses :
    /\ storeStatus \notin Terminal
    /\ TransitionStatus(s, storeRevision)
    /\ UNCHANGED referenceRevision

ReferenceMoves ==
  /\ referenceRevision < MaxReference
  /\ referenceRevision' = referenceRevision + 1
  /\ UNCHANGED storeVars

Environment == ExternalWrite \/ ExternalTransition \/ ReferenceMoves
=============================================================================
