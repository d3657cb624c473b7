------------------------------ MODULE WorkGraph ------------------------------
(***************************************************************************)
(* The two loops that walk the dependencies of a WorkBatch: the preflight  *)
(* of _validate_batch, which sorts the items into passes until none is     *)
(* left or it gets stuck, and the waves of _batch, which run the items of  *)
(* an admitted batch and have no way out but to settle every item.  The    *)
(* quota checks between the two, and what happens inside a wave, belong to *)
(* Coordinator; here an item that runs just completes or fails.            *)
(***************************************************************************)
EXTENDS Dependencies, Naturals, FiniteSets

CONSTANT WorkIds    \* the ids a batch may name

(* A batch is a tuple of items: whatever its length, it is finite.           *)
ASSUME WorkIdsAssumption == IsFiniteSet(WorkIds)

VARIABLES items,     \* the batch
          pc,        \* CHECK, PASS (preflight), RUN (waves), DENIED or SETTLED
          pending,   \* pending of the loop under way
          visited,   \* visited of the preflight
          outcome,   \* outcomes of _batch
          passes,    \* history: the number of passes of the preflight
          layer      \* history: the pass that found each visited item ready

history == <<passes, layer>>
vars    == <<items, pc, pending, visited, outcome, history>>

Outcomes == {"COMPLETED", "FAILED", "SKIPPED_DEPENDENCY"}

Nothing == [k \in {} |-> 0]
Deps(k) == items[k].deps

Init ==
  /\ \E ids \in SUBSET WorkIds : items \in [ids -> [deps : SUBSET WorkIds]]
  /\ pc = "CHECK"
  /\ pending = {} /\ visited = {}
  /\ outcome = Nothing
  /\ passes = 0 /\ layer = Nothing

(* An unknown dependency is refused before the loop starts.                  *)
CheckKnown ==
  /\ pc = "CHECK"
  /\ IF DependenciesKnown(items)
     THEN pc' = "PASS" /\ pending' = DOMAIN items
     ELSE pc' = "DENIED" /\ UNCHANGED pending
  /\ UNCHANGED <<items, visited, outcome, history>>

(* Mutated: one visited dependency is enough.                                *)
PassReadyOnAny == {k \in pending : Deps(k) = {} \/ Deps(k) \cap visited # {}}

(* Mutated: ready is looked for among all items and not only the pending.    *)
PassReadyAgain == {k \in DOMAIN items : Deps(k) \subseteq visited}

PassReady == {k \in pending : Deps(k) \subseteq visited}

(* One turn of the preflight loop.                                           *)
Pass ==
  /\ pc = "PASS" /\ pending # {} /\ PassReady # {}
  /\ pending' = pending \ PassReady
  /\ visited' = visited \cup PassReady
  /\ passes' = passes + 1
  /\ layer' = [k \in visited \cup PassReady |->
                IF k \in visited THEN layer[k] ELSE passes + 1]
  /\ UNCHANGED <<items, pc, outcome>>

Stuck ==
  /\ pc = "PASS" /\ pending # {} /\ PassReady = {}
  /\ pc' = "DENIED"
  /\ UNCHANGED <<items, pending, visited, outcome, history>>

Admitted ==
  /\ pc = "PASS" /\ pending = {}
  /\ pc' = "RUN" /\ pending' = DOMAIN items
  /\ UNCHANGED <<items, visited, outcome, history>>

-----------------------------------------------------------------------------
(* Mutated: the wave waits for its dependencies to succeed.                  *)
WaveReadyOnSuccess ==
  {k \in pending : \A d \in Deps(k) : d \in DOMAIN outcome /\ outcome[d] = "COMPLETED"}

WaveReady == {k \in pending : Deps(k) \subseteq DOMAIN outcome}

(* Mutated: a dependency that was itself skipped is no obstacle.             *)
BlockedByFailure(k) == \E d \in Deps(k) : outcome[d] = "FAILED"

Blocked(k) == \E d \in Deps(k) : outcome[d] # "COMPLETED"

(* One turn of the wave loop.  With nothing ready it changes nothing, and    *)
(* goes round again.                                                         *)
Wave ==
  /\ pc = "RUN" /\ pending # {}
  /\ \E failed \in SUBSET WaveReady :
       outcome' = [k \in DOMAIN outcome \cup WaveReady |->
                     IF k \in DOMAIN outcome THEN outcome[k]
                     ELSE IF Blocked(k) THEN "SKIPPED_DEPENDENCY"
                     ELSE IF k \in failed THEN "FAILED" ELSE "COMPLETED"]
  /\ pending' = pending \ WaveReady
  /\ UNCHANGED <<items, pc, visited, history>>

AllSettled ==
  /\ pc = "RUN" /\ pending = {}
  /\ pc' = "SETTLED"
  /\ UNCHANGED <<items, pending, visited, outcome, history>>

Over == pc \in {"DENIED", "SETTLED"} /\ UNCHANGED vars

Walk == CheckKnown \/ Pass \/ Stuck \/ Admitted \/ Wave \/ AllSettled

Next == Walk \/ Over

Spec == Init /\ [][Next]_vars

(* The loops are local computation: nothing can keep them from going on.     *)
FairSpec == Spec /\ WF_vars(Walk)

-----------------------------------------------------------------------------
(* Every variable has its type.                                              *)
GraphTypeOK ==
  /\ pc \in {"CHECK", "PASS", "RUN", "DENIED", "SETTLED"}
  /\ pending \subseteq DOMAIN items /\ visited \subseteq DOMAIN items
  /\ DOMAIN outcome \subseteq DOMAIN items
  /\ \A k \in DOMAIN outcome : outcome[k] \in Outcomes
  /\ passes \in Nat
  /\ DOMAIN layer = visited /\ \A k \in visited : layer[k] \in 1..passes

(* The preflight admits exactly the batches that can be carried out: known   *)
(* dependencies and no cycle among any of the items (_validate_batch).       *)
Verdict ==
  /\ pc \in {"RUN", "SETTLED"} => DependenciesKnown(items) /\ Acyclic(items)
  /\ pc = "DENIED" => ~(DependenciesKnown(items) /\ Acyclic(items))

(* The waves of _batch follow the passes of the preflight: what has settled  *)
(* is always the first passes, whole, whatever failed or was skipped.        *)
WavesFollowPasses ==
  pc = "RUN" =>
    \A j \in pending, k \in DOMAIN items : layer[j] <= layer[k] => k \in pending

(* An admitted batch never leaves the wave loop without a ready item.        *)
NeverIdle == pc = "RUN" /\ pending # {} => WaveReady # {}

(* The items that a failure reaches through dependencies, however long.      *)
Downstream(F) ==
  {k \in DOMAIN items : \A S \in SUBSET DOMAIN items :
     (\A j \in DOMAIN items : Deps(j) \cap (F \cup S) # {} => j \in S) => k \in S}

(* Skipped is exactly what a failure reaches; everything else ran (_batch).  *)
SkippedExactly ==
  pc = "SETTLED" =>
    LET Of(o) == {k \in DOMAIN items : outcome[k] = o}
    IN Of("SKIPPED_DEPENDENCY") = Downstream(Of("FAILED"))

(* An upper bound on the turns the two loops still take.                     *)
Ahead ==
  CASE pc = "CHECK" -> 2 * Cardinality(DOMAIN items) + 3
    [] pc = "PASS"  -> Cardinality(pending) + Cardinality(DOMAIN items) + 2
    [] pc = "RUN"   -> Cardinality(pending) + 1
    [] OTHER        -> 0

(* Every turn of a loop brings its end nearer, whatever the graph and what   *)
(* fails (_validate_batch, _batch).  A wave in which nothing is ready would  *)
(* be a stutter, of which an action property says nothing: NeverIdle and     *)
(* Settles do.                                                               *)
WalkAdvances == [][Walk => Ahead' < Ahead]_vars

(* Every batch is refused or settled: neither loop can go round for ever.    *)
Settles == <>(pc \in {"DENIED", "SETTLED"})
=============================================================================
