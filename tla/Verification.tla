----------------------------- MODULE Verification -----------------------------
(***************************************************************************)
(* The deterministic result checks V0-V5 and the structural finish check   *)
(* of ResultVerificationPipeline.  Operators only: V6, the revision check, *)
(* is a step of the Coordinator because it reads the shared store again.   *)
(*                                                                         *)
(* A reference is [id, vis, body]; two envelopes are the same reference    *)
(* exactly when they are equal.  known is the run's set of citable         *)
(* references (the code's dictionary, whose keys are the ids).             *)
(***************************************************************************)
EXTENDS Integers, Sequences

CONSTANTS Refs,          \* every reference envelope anybody may present
          ContextRefs    \* task.context_refs, a tuple

ASSUME VerificationAssumption == ContextRefs \in Seq(Refs)

Ids(refs) == {r.id : r \in refs}
Declared(refs) == {refs[i] : i \in DOMAIN refs}

(* A dictionary of the context references at these positions, by id: of two  *)
(* with one id, which nothing forbids, it keeps the last.                    *)
LastOfEachId(positions) ==
  {ContextRefs[i] : i \in {j \in positions :
     \A k \in positions : ContextRefs[k].id = ContextRefs[j].id => k <= j}}

Context        == LastOfEachId(DOMAIN ContextRefs)
InitiallyKnown == LastOfEachId({i \in DOMAIN ContextRefs : ContextRefs[i].vis = "AGENT"})

(* Mutated: hidden context references are forgotten.                         *)
ReservedKnownOnly(known) == known

(* {**context_refs, **known_refs}: the ids a result may not redefine.        *)
ReservedRefs(known) == known \cup {r \in Context : r.id \notin Ids(known)}

(* check_refs: declared references are Agent-visible, distinct by id, and    *)
(* agree with the reserved ones (and are known, for a finish); embedded      *)
(* envelopes are declared or known, exactly.                                 *)
CheckRefs(refs, embedded, known, reserved, requireKnown) ==
  /\ \A i \in DOMAIN refs :
       /\ refs[i].vis = "AGENT"
       /\ \A j \in DOMAIN refs : refs[j].id = refs[i].id => j = i
       /\ \A r \in reserved : r.id = refs[i].id => r = refs[i]
       /\ requireKnown => refs[i] \in known
  /\ \A e \in embedded : e.vis = "AGENT" /\ e \in Declared(refs) \cup known

-----------------------------------------------------------------------------
(* A returned result, as far as verification tells results apart.  kind: the *)
(* executor raised, answered something untyped, answered for another         *)
(* request, or answered this one.  defect: the first mechanical stage that   *)
(* the result fails whatever the run state is (V0 status, V1 provenance, V2  *)
(* output schema, V5 delta structure), or NONE.  refs, embedded: declared    *)
(* and embedded references, a malformed one being a hidden one.  actual:     *)
(* actual_budget_draw, a malformed entry being one in a standard dimension   *)
(* (both are violations, neither is charged).  deltas: ingestion derives at  *)
(* least one delta.  reasons: the deltas' reason references.                 *)
Kinds == {"RAISED", "UNTYPED", "MISBOUND", "BOUND"}
Defects == {"NONE", "V0_IDENTITY", "V1_PROVENANCE", "V2_OUTPUT_SCHEMA",
            "V5_INGESTION_STRUCTURE"}
NoResult == [kind |-> "RAISED", defect |-> "NONE", refs |-> <<>>, embedded |-> {},
             actual |-> [d \in {} |-> 0], deltas |-> FALSE, reasons |-> {}]

(* V5: a reason is Agent-visible and exactly a reference of this result or a *)
(* known one.                                                                *)
ReasonsHold(result, known) ==
  \A r \in result.reasons : r.vis = "AGENT" /\ r \in Declared(result.refs) \cup known

(* verify, up to the consumer hook: V0, V1, V2, V3, V4 (clean accounting),   *)
(* V5.  Each stage rejects by itself, so their order only names the reason.  *)
Verify(result, clean, known) ==
  /\ result.kind = "BOUND"
  /\ result.defect = "NONE"
  /\ CheckRefs(result.refs, result.embedded, known, ReservedRefs(known), FALSE)
  /\ clean
  /\ ReasonsHold(result, known)

(* verify_finish: the output matches the task's schema and cites only known  *)
(* references.                                                               *)
VerifyFinish(proposal, known) ==
  /\ proposal.valid
  /\ CheckRefs(proposal.refs, proposal.embedded, known, known, TRUE)

(* setdefault of every verified reference.                                   *)
Citable(known, refs) == known \cup {r \in Declared(refs) : r.id \notin Ids(known)}
=============================================================================
