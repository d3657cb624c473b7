--------------------------- MODULE WorkGraphProofs ---------------------------
(***************************************************************************)
(* For batches of any size: the preflight admits exactly the batches that  *)
(* can be carried out, the waves follow its passes, and no wave is empty.  *)
(***************************************************************************)
EXTENDS WorkGraph, FiniteSetTheorems, TLAPS

(* Every set that contains a visited item has an item that waits for none of *)
(* the set: the reason why emptying pending shows that there is no cycle.    *)
Explained ==
  \A S \in SUBSET DOMAIN items :
    S \cap visited # {} => \E k \in S : Deps(k) \cap S = {}

(* A visited item was reached through a dependency of the pass before.       *)
Layered ==
  \A k \in visited :
    /\ \A d \in Deps(k) : d \in visited /\ layer[d] < layer[k]
    /\ layer[k] > 1 => \E d \in Deps(k) : layer[d] = layer[k] - 1

(* What is pending was not ready in the last pass.                           *)
Waiting ==
  pc = "PASS" /\ passes > 0 =>
    \A k \in pending : \E d \in Deps(k) : d \notin visited \/ layer[d] = passes

GraphInv ==
  /\ GraphTypeOK
  /\ pc = "CHECK" => visited = {} /\ outcome = Nothing /\ passes = 0
  /\ pc = "PASS" => /\ DependenciesKnown(items)
                    /\ visited = DOMAIN items \ pending
                    /\ outcome = Nothing
  /\ pc \in {"RUN", "SETTLED"} => /\ DependenciesKnown(items) /\ Acyclic(items)
                                  /\ visited = DOMAIN items
  /\ pc = "RUN" => DOMAIN outcome = DOMAIN items \ pending
  /\ Explained /\ Layered /\ Waiting
  /\ Verdict /\ WavesFollowPasses

LEMMA GraphInit == Init => GraphInv
  BY DEF Init, GraphInv, GraphTypeOK, Explained, Layered, Waiting, Verdict,
         WavesFollowPasses, Nothing

(* A pass keeps every visited set explained: an item found ready waits only  *)
(* for items visited before, so a set without those contains none of them.   *)
LEMMA PassExplains ==
  ASSUME GraphInv, Pass
  PROVE  Explained'
<1>1. items' = items /\ visited' = visited \cup PassReady
  BY DEF Pass
<1>2. SUFFICES ASSUME NEW S \in SUBSET DOMAIN items,
                      S \cap (visited \cup PassReady) # {}
               PROVE  \E k \in S : Deps(k) \cap S = {}
  BY <1>1 DEF Explained, Deps
<1>3. CASE S \cap visited # {}
  BY <1>3 DEF GraphInv, Explained
<1>4. CASE S \cap visited = {}
  <2>1. PICK k \in S : k \in PassReady
    BY <1>2, <1>4
  <2>2. Deps(k) \cap S = {}
    BY <2>1, <1>4 DEF PassReady
  <2> QED BY <2>2
<1> QED BY <1>3, <1>4

(* The new layer lies on the one before it.                                  *)
LEMMA PassLayers ==
  ASSUME GraphInv, Pass
  PROVE  Layered'
<1>1. /\ items' = items /\ visited' = visited \cup PassReady
      /\ layer' = [k \in visited \cup PassReady |->
                    IF k \in visited THEN layer[k] ELSE passes + 1]
  BY DEF Pass
<1>2. /\ passes \in Nat /\ \A k \in visited : layer[k] \in 1..passes
      /\ \A k \in PassReady : Deps(k) \subseteq visited /\ k \notin visited
      /\ passes > 0 => \A k \in PassReady : \E d \in Deps(k) : layer[d] = passes
  BY DEF Pass, GraphInv, GraphTypeOK, PassReady, Waiting
<1>3. SUFFICES ASSUME NEW k \in visited \cup PassReady
               PROVE  /\ \A d \in Deps(k) : /\ d \in visited \cup PassReady
                                           /\ layer'[d] < layer'[k]
                      /\ layer'[k] > 1 => \E d \in Deps(k) : layer'[d] = layer'[k] - 1
  BY <1>1 DEF Layered, Deps
<1>4. CASE k \in visited
  <2>1. /\ \A d \in Deps(k) : d \in visited /\ layer[d] < layer[k]
        /\ layer[k] > 1 => \E d \in Deps(k) : layer[d] = layer[k] - 1
    BY <1>4 DEF GraphInv, Layered
  <2>2. \A d \in visited : layer'[d] = layer[d]
    BY <1>1
  <2> QED BY <1>4, <2>1, <2>2
<1>5. CASE k \in PassReady
  <2>1. layer'[k] = passes + 1
    BY <1>1, <1>2, <1>5
  <2>2. \A d \in Deps(k) : d \in visited /\ layer'[d] = layer[d]
    BY <1>1, <1>2, <1>5
  <2> QED BY <1>2, <1>5, <2>1, <2>2
<1> QED BY <1>4, <1>5

LEMMA PassStep ==
  ASSUME GraphInv, Pass
  PROVE  GraphInv'
<1>1. GraphTypeOK'
  BY DEF Pass, GraphInv, GraphTypeOK, PassReady
<1>2. Waiting'
  BY DEF Pass, GraphInv, GraphTypeOK, PassReady, Waiting, Deps
<1>3. Verdict' /\ WavesFollowPasses'
  BY DEF Pass, Verdict, WavesFollowPasses
<1> QED
  BY <1>1, <1>2, <1>3, PassExplains, PassLayers
     DEF GraphInv, GraphTypeOK, Pass, PassReady, DependenciesKnown

(* What is pending when the loop is stuck waits only for itself.             *)
LEMMA StuckIsCyclic ==
  ASSUME GraphInv, Stuck
  PROVE  ~Acyclic(items)
<1>1. pending \in SUBSET DOMAIN items /\ pending # {}
  BY DEF Stuck, GraphInv, GraphTypeOK
<1>2. \A k \in pending : Deps(k) \cap pending # {}
  BY <1>1 DEF Stuck, PassReady, GraphInv, DependenciesKnown, Deps
<1> QED BY <1>1, <1>2 DEF Acyclic, Deps

(* An emptied pending has explained every set.                               *)
LEMMA AdmittedIsAcyclic ==
  ASSUME GraphInv, Admitted
  PROVE  DependenciesKnown(items) /\ Acyclic(items) /\ visited = DOMAIN items
<1>1. visited = DOMAIN items /\ DependenciesKnown(items)
  BY DEF Admitted, GraphInv, GraphTypeOK
<1> QED BY <1>1 DEF Acyclic, GraphInv, Explained, Deps

(* A wave takes the earliest layer left, whole and nothing else: an item of a *)
(* later layer has a dependency one layer down, which is still pending.      *)
LEMMA WaveFollows ==
  ASSUME GraphInv, Wave
  PROVE  WavesFollowPasses'
<1>1. /\ items' = items /\ layer' = layer /\ visited = DOMAIN items /\ pc = "RUN"
      /\ pending' = pending \ WaveReady /\ pending \subseteq DOMAIN items
      /\ DOMAIN outcome = DOMAIN items \ pending
      /\ \A k \in pending : Deps(k) \subseteq DOMAIN items
      /\ WaveReady = {k \in pending : Deps(k) \cap pending = {}}
  <2>1. /\ items' = items /\ layer' = layer /\ visited = DOMAIN items /\ pc = "RUN"
        /\ pending' = pending \ WaveReady /\ pending \subseteq DOMAIN items
        /\ DOMAIN outcome = DOMAIN items \ pending
        /\ DependenciesKnown(items)
    BY DEF Wave, GraphInv, GraphTypeOK, history
  <2>2. \A k \in pending : Deps(k) \subseteq DOMAIN items
    BY <2>1 DEF DependenciesKnown, Deps
  <2> QED BY <2>1, <2>2 DEF WaveReady
<1>2. SUFFICES ASSUME NEW j \in pending \ WaveReady, NEW k \in DOMAIN items,
                      layer[j] <= layer[k]
               PROVE  k \in pending \ WaveReady
  BY <1>1 DEF WavesFollowPasses
<1>3. k \in pending
  BY <1>1, <1>2 DEF GraphInv, WavesFollowPasses
<1>4. PICK d \in Deps(j) : d \in pending
  BY <1>1
<1>5. /\ layer[d] \in Nat \ {0} /\ layer[j] \in Nat /\ layer[k] \in Nat
      /\ layer[d] < layer[j]
  BY <1>1, <1>4 DEF GraphInv, GraphTypeOK, Layered
<1>6. PICK e \in Deps(k) : layer[e] = layer[k] - 1
  BY <1>1, <1>2, <1>5 DEF GraphInv, Layered
<1>7. e \in pending
  <2>1. e \in DOMAIN items /\ layer[d] <= layer[e]
    BY <1>1, <1>2, <1>5, <1>6 DEF GraphInv, Layered
  <2> QED BY <1>1, <1>4, <2>1 DEF GraphInv, WavesFollowPasses
<1> QED BY <1>1, <1>3, <1>6, <1>7

LEMMA GraphStep ==
  ASSUME GraphInv, [Next]_vars
  PROVE  GraphInv'
<1>1. CASE CheckKnown
  BY <1>1 DEF CheckKnown, GraphInv, GraphTypeOK, Explained, Layered, Waiting, Verdict,
              WavesFollowPasses, Deps, DependenciesKnown, Nothing, history
<1>2. CASE Pass
  BY <1>2, PassStep
<1>3. CASE Stuck
  BY <1>3, StuckIsCyclic
     DEF Stuck, GraphInv, GraphTypeOK, Explained, Layered, Waiting, Verdict,
         WavesFollowPasses, Deps, history
<1>4. CASE Admitted
  BY <1>4, AdmittedIsAcyclic
     DEF Admitted, GraphInv, GraphTypeOK, Explained, Layered, Waiting, Verdict,
         WavesFollowPasses, Deps, Nothing, history
<1>5. CASE Wave
  <2>1. GraphTypeOK'
    BY <1>5 DEF Wave, GraphInv, GraphTypeOK, WaveReady, Outcomes, history
  <2>2. pc' = "RUN" => DOMAIN outcome' = DOMAIN items' \ pending'
    BY <1>5 DEF Wave, GraphInv, GraphTypeOK, WaveReady
  <2> QED
    BY <1>5, <2>1, <2>2, WaveFollows
       DEF Wave, GraphInv, Explained, Layered, Waiting, Verdict, Deps, history
<1>6. CASE AllSettled
  BY <1>6 DEF AllSettled, GraphInv, GraphTypeOK, Explained, Layered, Waiting, Verdict,
              WavesFollowPasses, Deps, history
<1>7. CASE UNCHANGED vars
  BY <1>7 DEF vars, history, GraphInv, GraphTypeOK, Explained, Layered, Waiting, Verdict,
              WavesFollowPasses, Deps
<1> QED
  BY <1>1, <1>2, <1>3, <1>4, <1>5, <1>6, <1>7 DEF Next, Walk, Over

(* For a batch of any size: admitted means known dependencies and no cycle,  *)
(* refused means one or the other is missing (_validate_batch 325-333).      *)
THEOREM VerdictThm == Spec => []Verdict
<1>1. GraphInv => Verdict
  BY DEF GraphInv
<1> QED BY <1>1, GraphInit, GraphStep, PTL DEF Spec

(* For a batch of any size, the waves of _batch are the passes of the        *)
(* preflight, in their order.                                                *)
THEOREM WavesFollowPassesThm == Spec => []WavesFollowPasses
<1>1. GraphInv => WavesFollowPasses
  BY DEF GraphInv
<1> QED BY <1>1, GraphInit, GraphStep, PTL DEF Spec

(* The wave loop of _batch never goes round without a ready item: whatever   *)
(* waits is acyclic, so something in it waits for nothing that is pending.   *)
THEOREM NeverIdleThm == Spec => []NeverIdle
<1>1. GraphInv => NeverIdle
  <2>1. SUFFICES ASSUME GraphInv, pc = "RUN", pending # {}
                 PROVE  WaveReady # {}
    BY DEF NeverIdle
  <2>2. PICK k \in pending : Deps(k) \cap pending = {}
    BY <2>1 DEF GraphInv, GraphTypeOK, Acyclic, Deps
  <2>3. Deps(k) \subseteq DOMAIN outcome
    BY <2>1, <2>2 DEF GraphInv, GraphTypeOK, DependenciesKnown, Deps
  <2> QED BY <2>2, <2>3 DEF WaveReady
<1> QED BY <1>1, GraphInit, GraphStep, PTL DEF Spec

-----------------------------------------------------------------------------
(* Skipping.  Downstream is a least fixed point over paths of any length;    *)
(* the waves look one dependency back.  That every skipped item lies in each *)
(* set closed under failure is kept by every wave, and once all is settled   *)
(* the skipped items are themselves such a set.                              *)
Of(o) == {k \in DOMAIN outcome : outcome[k] = o}

Closed(S) == \A j \in DOMAIN items : Deps(j) \cap (Of("FAILED") \cup S) # {} => j \in S

SkipInv ==
  /\ pc = "SETTLED" => DOMAIN outcome = DOMAIN items
  /\ \A k \in DOMAIN outcome :
       /\ Deps(k) \subseteq DOMAIN outcome
       /\ outcome[k] = "SKIPPED_DEPENDENCY" <=> Blocked(k)
  /\ \A S \in SUBSET DOMAIN items : Closed(S) => Of("SKIPPED_DEPENDENCY") \subseteq S

LEMMA SkipWave ==
  ASSUME GraphInv, SkipInv, Wave
  PROVE  SkipInv'
<1>1. PICK failed \in SUBSET WaveReady :
        outcome' = [k \in DOMAIN outcome \cup WaveReady |->
                     IF k \in DOMAIN outcome THEN outcome[k]
                     ELSE IF Blocked(k) THEN "SKIPPED_DEPENDENCY"
                     ELSE IF k \in failed THEN "FAILED" ELSE "COMPLETED"]
  BY DEF Wave
<1>2. /\ items' = items /\ pc' = "RUN"
      /\ DOMAIN outcome \subseteq DOMAIN items
      /\ WaveReady \subseteq DOMAIN items \ DOMAIN outcome
      /\ \A k \in WaveReady : Deps(k) \subseteq DOMAIN outcome
      /\ DOMAIN outcome' = DOMAIN outcome \cup WaveReady
      /\ \A k \in DOMAIN outcome : outcome'[k] = outcome[k] /\ outcome[k] \in Outcomes
  BY <1>1 DEF Wave, GraphInv, GraphTypeOK, WaveReady
<1>3. ASSUME NEW k \in DOMAIN outcome'
      PROVE  /\ Deps(k) \subseteq DOMAIN outcome
             /\ outcome'[k] = "SKIPPED_DEPENDENCY" <=> Blocked(k)
             /\ Blocked(k)' <=> Blocked(k)
  <2>1. Deps(k) \subseteq DOMAIN outcome /\ Deps(k)' = Deps(k)
    BY <1>2 DEF SkipInv, Deps
  <2>2. Blocked(k)' <=> Blocked(k)
    BY <1>2, <2>1 DEF Blocked
  <2>3. CASE k \in DOMAIN outcome
    BY <1>2, <2>1, <2>2, <2>3 DEF SkipInv
  <2>4. CASE k \in WaveReady \ DOMAIN outcome
    BY <1>1, <2>1, <2>2, <2>4
  <2> QED
    BY <1>2, <2>3, <2>4
<1>4. ASSUME NEW S \in SUBSET DOMAIN items, Closed(S)'
      PROVE  Of("SKIPPED_DEPENDENCY")' \subseteq S
  <2>1. \A j \in DOMAIN items : Deps(j) \cap (Of("FAILED")' \cup S) # {} => j \in S
    BY <1>2, <1>4 DEF Closed, Deps
  <2>2. Of("FAILED") \subseteq Of("FAILED")'
    BY <1>2 DEF Of
  <2>3. Of("SKIPPED_DEPENDENCY") \subseteq S
    BY <2>1, <2>2 DEF SkipInv, Closed
  <2>4. ASSUME NEW k \in DOMAIN outcome', outcome'[k] = "SKIPPED_DEPENDENCY" PROVE k \in S
    <3>1. PICK d \in Deps(k) : outcome[d] # "COMPLETED"
      BY <1>3, <2>4 DEF Blocked
    <3>2. d \in DOMAIN outcome /\ k \in DOMAIN items
      BY <1>2, <1>3, <3>1 DEF GraphInv, GraphTypeOK
    <3>3. d \in Of("FAILED")' \cup S
      BY <1>2, <2>2, <2>3, <3>1, <3>2 DEF Of, Outcomes
    <3> QED
      BY <2>1, <3>1, <3>2, <3>3
  <2> QED
    BY <2>4 DEF Of
<1>5. ASSUME NEW k \in DOMAIN outcome'
      PROVE  /\ Deps(k)' \subseteq DOMAIN outcome'
             /\ outcome'[k] = "SKIPPED_DEPENDENCY" <=> Blocked(k)'
  BY <1>2, <1>3 DEF Deps
<1>6. pc' # "SETTLED"
  BY <1>2
<1> QED
  BY <1>2, <1>4, <1>5, <1>6 DEF SkipInv

LEMMA SkipStep == GraphInv /\ SkipInv /\ [Next]_vars => SkipInv'
<1> SUFFICES ASSUME GraphInv, SkipInv, [Next]_vars PROVE SkipInv'
  OBVIOUS
<1>1. CASE Wave
  BY <1>1, SkipWave
<1>2. CASE ~Wave
  <2>1. UNCHANGED <<items, outcome>>
    BY <1>2 DEF Next, Walk, CheckKnown, Pass, Stuck, Admitted, AllSettled, Over, vars
  <2>2. pc' = "SETTLED" => DOMAIN outcome = DOMAIN items
    BY <1>2 DEF Next, Walk, CheckKnown, Pass, Stuck, Admitted, AllSettled, Over, vars, SkipInv,
       GraphInv
  <2> QED
    BY <2>1, <2>2 DEF SkipInv, Closed, Of, Deps, Blocked
<1> QED
  BY <1>1, <1>2

(* For a batch of any size and whatever fails: an item is skipped if and     *)
(* only if a chain of dependencies leads from it to a failure (_batch).      *)
THEOREM SkippedExactlyThm == Spec => []SkippedExactly
<1>1. Init => SkipInv
  BY DEF Init, SkipInv, Of, Nothing
<1>2. ASSUME GraphInv, SkipInv, pc = "SETTLED"
      PROVE  Of("SKIPPED_DEPENDENCY") = Downstream(Of("FAILED"))
  <2>1. DOMAIN outcome = DOMAIN items
    BY <1>2 DEF SkipInv
  <2>2. Of("SKIPPED_DEPENDENCY") \subseteq Downstream(Of("FAILED"))
    BY <1>2, <2>1 DEF SkipInv, Closed, Downstream, Of
  <2>3. Closed(Of("SKIPPED_DEPENDENCY"))
    BY <1>2, <2>1 DEF SkipInv, Closed, Of, Blocked
  <2>4. Downstream(Of("FAILED")) \subseteq Of("SKIPPED_DEPENDENCY")
    BY <2>1, <2>3 DEF Downstream, Closed, Of
  <2> QED
    BY <2>2, <2>4
<1>3. GraphInv /\ SkipInv => SkippedExactly
  BY <1>2 DEF SkippedExactly, Of, SkipInv
<1> QED
  BY <1>1, <1>3, SkipStep, GraphInit, GraphStep, PTL DEF Spec
-----------------------------------------------------------------------------
(* Taking some of a finite set away leaves fewer.                            *)
LEMMA FewerLeft ==
  ASSUME NEW S, IsFiniteSet(S), NEW R \in SUBSET S, R # {}
  PROVE  Cardinality(S \ R) < Cardinality(S)
<1>1. S \ R \in SUBSET S /\ S \ R # S
  OBVIOUS
<1> QED
  BY <1>1, FS_Subset, FS_CardinalityType

(* The items of a batch are finitely many.                                   *)
FiniteBatch == DOMAIN items \in SUBSET WorkIds

(* What the batch has and what is pending can be counted.                    *)
LEMMA BatchSizes ==
  ASSUME GraphInv, FiniteBatch
  PROVE  /\ IsFiniteSet(pending) /\ Cardinality(pending) \in Nat
         /\ Cardinality(DOMAIN items) \in Nat
<1>1. IsFiniteSet(DOMAIN items)
  BY WorkIdsAssumption, FS_Subset DEF FiniteBatch
<1>2. IsFiniteSet(pending)
  BY <1>1, FS_Subset DEF GraphInv, GraphTypeOK
<1> QED
  BY <1>1, <1>2, FS_CardinalityType

LEMMA FiniteAlways == Spec => [](GraphInv /\ FiniteBatch)
<1>1. Init => FiniteBatch
  BY DEF Init, FiniteBatch
<1>2. FiniteBatch /\ [Next]_vars => FiniteBatch'
  BY DEF FiniteBatch, Next, Walk, CheckKnown, Pass, Stuck, Admitted, Wave, AllSettled, Over,
         vars
<1> QED
  BY <1>1, <1>2, GraphInit, GraphStep, PTL DEF Spec

(* Each action of the walk shortens what is ahead.                           *)
LEMMA TurnAdvances == GraphInv /\ FiniteBatch /\ NeverIdle /\ Walk => Ahead' < Ahead
<1> SUFFICES ASSUME GraphInv, FiniteBatch, NeverIdle, Walk PROVE Ahead' < Ahead
  OBVIOUS
<1> DEFINE n == Cardinality(DOMAIN items)
           p == Cardinality(pending)
<1>1. n \in Nat /\ p \in Nat /\ IsFiniteSet(pending)
  BY BatchSizes
<1>2. items' = items
  BY DEF Walk, CheckKnown, Pass, Stuck, Admitted, Wave, AllSettled
<1>3. CASE CheckKnown
  <2>1. Ahead = 2 * n + 3 /\ Ahead' \in {n + n + 2, 0}
    BY <1>2, <1>3 DEF CheckKnown, Ahead
  <2> QED
    BY <1>1, <2>1
<1>4. CASE Pass
  <2>1. pc' = "PASS" /\ pc = "PASS" /\ pending' = pending \ PassReady
        /\ PassReady \in SUBSET pending /\ PassReady # {}
    BY <1>4 DEF Pass, PassReady
  <2>2. Cardinality(pending') < p /\ Cardinality(pending') \in Nat
    BY <1>1, <2>1, FewerLeft, FS_CardinalityType, FS_Subset
  <2>3. Ahead = p + n + 2 /\ Ahead' = Cardinality(pending') + n + 2
    BY <1>2, <2>1 DEF Ahead
  <2> QED
    BY <1>1, <2>2, <2>3
<1>5. CASE Stuck
  <2>1. Ahead = p + n + 2 /\ Ahead' = 0
    BY <1>5 DEF Stuck, Ahead
  <2> QED
    BY <1>1, <2>1
<1>6. CASE Admitted
  <2>1. Ahead = p + n + 2 /\ Ahead' = n + 1
    BY <1>2, <1>6 DEF Admitted, Ahead
  <2> QED
    BY <1>1, <2>1
<1>7. CASE Wave
  <2>1. pc' = "RUN" /\ pc = "RUN" /\ pending' = pending \ WaveReady
        /\ WaveReady \in SUBSET pending /\ WaveReady # {}
    BY <1>7 DEF Wave, WaveReady, NeverIdle
  <2>2. Cardinality(pending') < p /\ Cardinality(pending') \in Nat
    BY <1>1, <2>1, FewerLeft, FS_CardinalityType, FS_Subset
  <2>3. Ahead = p + 1 /\ Ahead' = Cardinality(pending') + 1
    BY <2>1 DEF Ahead
  <2> QED
    BY <1>1, <2>2, <2>3
<1>8. CASE AllSettled
  <2>1. Ahead = p + 1 /\ Ahead' = 0
    BY <1>8 DEF AllSettled, Ahead
  <2> QED
    BY <1>1, <2>1
<1> QED
  BY <1>3, <1>4, <1>5, <1>6, <1>7, <1>8 DEF Walk

(* A batch of any size takes at most as many turns of the loops as Ahead     *)
(* says at first: neither loop turns without getting on (_validate_batch,    *)
(* _batch).                                                                  *)
THEOREM WalkAdvancesThm == Spec => WalkAdvances
<1> QED
  BY FiniteAlways, NeverIdleThm, TurnAdvances, PTL DEF Spec, WalkAdvances

(* The bound is a number, so that no batch keeps the loops turning for ever. *)
THEOREM AheadIsNatural == Spec => [](Ahead \in Nat)
<1>1. GraphInv /\ FiniteBatch => Ahead \in Nat
  BY BatchSizes DEF Ahead
<1> QED
  BY <1>1, FiniteAlways, PTL
=============================================================================
