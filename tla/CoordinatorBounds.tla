-------------------------- MODULE CoordinatorBounds --------------------------
(***************************************************************************)
(* What bounds a run, proved for every value of the constants of           *)
(* Coordinator: what the items of a batch may still draw together, and the *)
(* measure that every step of the run lowers.                              *)
(***************************************************************************)
EXTENDS CoordinatorDispatch

-----------------------------------------------------------------------------
(* Sums.  The fold picks the items in an order of its own; that the order    *)
(* does not matter follows from what it computes, the number of units that   *)
(* the items draw together.                                                  *)
Units(draws, S, d) == {u \in S \X Nat : u[2] < Amount(draws[u[1]], d)}

(* Every item of the set draws a natural number.                             *)
Sized(draws, S, d) == \A k \in S : Amount(draws[k], d) \in Nat

(* Taking an item out takes its units out.                                   *)
LEMMA UnitsWithout ==
  ASSUME NEW draws, NEW S, NEW d, NEW x \in S, Sized(draws, S, d),
         IsFiniteSet(Units(draws, S \ {x}, d))
  PROVE  /\ IsFiniteSet(Units(draws, S, d))
         /\ Cardinality(Units(draws, S, d)) =
              Amount(draws[x], d) + Cardinality(Units(draws, S \ {x}, d))
<1> DEFINE n    == Amount(draws[x], d)
           own  == {x} \X (0 .. (n - 1))
           rest == Units(draws, S \ {x}, d)
<1>0. n \in Nat
  BY DEF Sized
<1>1. IsFiniteSet(0 .. (n - 1)) /\ Cardinality(0 .. (n - 1)) = n
  BY <1>0, FS_Interval, SMT
<1>2. IsFiniteSet(own) /\ Cardinality(own) = n
  <2>1. IsFiniteSet({x}) /\ Cardinality({x}) = 1
    BY FS_Singleton
  <2> HIDE DEF n
  <2>2. IsFiniteSet(own) /\ Cardinality(own) = 1 * n
    BY <1>1, <2>1, FS_Product
  <2> QED
    BY <1>0, <2>2
<1>3. Units(draws, S, d) = own \cup rest
  BY <1>0 DEF Units
<1>4. own \cap rest = {}
  BY DEF Units
<1>5. Cardinality(own \cap rest) = 0
  BY <1>4, FS_EmptySet
<1>6. Cardinality(rest) \in Nat
  BY FS_CardinalityType
<1> HIDE DEF own, rest, n
<1>7. IsFiniteSet(own \cup rest)
      /\ Cardinality(own \cup rest) = Cardinality(own) + Cardinality(rest) - 0
  BY <1>2, <1>5, FS_Union DEF rest
<1> QED
  BY <1>0, <1>2, <1>3, <1>6, <1>7 DEF n, rest

(* A nonempty set of finite sets has a smallest one.                         *)
LEMMA SmallestSet ==
  ASSUME NEW S, IsFiniteSet(S), NEW P, P \subseteq SUBSET S, P # {}
  PROVE  \E s \in P : \A t \in P : ~(t \subseteq s /\ t # s)
<1>1. FiniteSubsetsOf(S) = SUBSET S
  BY FS_FiniteSubsetsOfFinite
<1>2. IsWellFoundedOn(StrictSubsetOrdering(S), FiniteSubsetsOf(S))
  BY FS_StrictSubsetOrderingWellFounded
<1>3. PICK s \in P : \A t \in P : ~(<<t, s>> \in StrictSubsetOrdering(S))
  BY <1>1, <1>2, WFMin
<1>4. ASSUME NEW t \in P PROVE ~(t \subseteq s /\ t # s)
  BY <1>3 DEF StrictSubsetOrdering
<1> QED
  BY <1>4

LEMMA UnitsFinite ==
  ASSUME NEW draws, NEW S, IsFiniteSet(S), NEW d, Sized(draws, S, d)
  PROVE  \A s \in SUBSET S : IsFiniteSet(Units(draws, s, d))
<1> DEFINE P == {s \in SUBSET S : ~IsFiniteSet(Units(draws, s, d))}
<1>1. SUFFICES ASSUME P # {} PROVE FALSE
  OBVIOUS
<1>2. PICK s \in P : \A t \in P : ~(t \subseteq s /\ t # s)
  <2>1. P \subseteq SUBSET S
    OBVIOUS
  <2> HIDE DEF P
  <2> QED
    BY <1>1, <2>1, SmallestSet
<1>3. CASE s = {}
  BY <1>3, FS_EmptySet DEF Units
<1>4. CASE s # {}
  <2>1. PICK x \in s : TRUE
    BY <1>4
  <2>2. IsFiniteSet(Units(draws, s \ {x}, d))
    BY <1>2, <2>1
  <2>3. Sized(draws, s, d)
    BY DEF Sized
  <2> QED
    BY <2>1, <2>2, <2>3, UnitsWithout
<1> QED
  BY <1>3, <1>4

(* The sum that the fold computes is the number of units.                    *)
LEMMA TotalCounts ==
  ASSUME NEW draws, NEW S, IsFiniteSet(S), NEW d, Sized(draws, S, d)
  PROVE  /\ IsFiniteSet(Units(draws, S, d))
         /\ Total(draws, S, d) = Cardinality(Units(draws, S, d))
<1> DEFINE some(s) == CHOOSE x \in s : TRUE
           next(i, s) == IF s = {} THEN 0 ELSE Amount(draws[some(s)], d) + i[s \ {some(s)}]
           count == [s \in SUBSET S |-> Cardinality(Units(draws, s, d))]
<1>1. PICK it : /\ it = CHOOSE i : i = [s \in SUBSET S |-> next(i, s)]
                /\ Total(draws, S, d) = it[S]
  BY DEF Total, MapThenSumSet, MapThenFoldSet
<1>2. \A s \in SUBSET S : IsFiniteSet(Units(draws, s, d))
  BY UnitsFinite
<1>3. ASSUME NEW s \in SUBSET S, s # {}
      PROVE  count[s] = Amount(draws[some(s)], d) + count[s \ {some(s)}]
  <2>1. some(s) \in s
    BY <1>3
  <2>2. Sized(draws, s, d) /\ IsFiniteSet(Units(draws, s \ {some(s)}, d))
    BY <1>2 DEF Sized
  <2> HIDE DEF some
  <2>3. Cardinality(Units(draws, s, d)) =
          Amount(draws[some(s)], d) + Cardinality(Units(draws, s \ {some(s)}, d))
    BY <2>1, <2>2, UnitsWithout
  <2> QED
    BY <2>3
<1>4. count[{}] = 0
  BY FS_EmptySet DEF Units
<1>5. count = [s \in SUBSET S |-> next(count, s)]
  <2> HIDE DEF some
  <2>1. \A s \in SUBSET S : count[s] = next(count, s)
    <3> HIDE DEF count
    <3> QED
      BY <1>3, <1>4
  <2> QED
    BY <2>1
<1>6. it = [s \in SUBSET S |-> next(it, s)]
  <2> HIDE DEF count, next
  <2> QED
    BY <1>1, <1>5
<1> DEFINE P == {s \in SUBSET S : it[s] # count[s]}
<1>7. P = {}
  <2>1. SUFFICES ASSUME P # {} PROVE FALSE
    OBVIOUS
  <2> HIDE DEF count, some
  <2>2. PICK s \in P : \A t \in P : ~(t \subseteq s /\ t # s)
    <3>1. P \subseteq SUBSET S
      OBVIOUS
    <3> HIDE DEF P
    <3> QED
      BY <2>1, <3>1, SmallestSet
  <2>3. it[s] = next(it, s)
    BY <1>6
  <2>4. CASE s = {}
    BY <1>4, <2>2, <2>3, <2>4
  <2>5. CASE s # {}
    <3>1. some(s) \in s
      BY <2>5 DEF some
    <3>2. it[s \ {some(s)}] = count[s \ {some(s)}]
      BY <2>2, <3>1
    <3> QED
      BY <1>3, <2>2, <2>3, <2>5, <3>2
  <2> QED
    BY <2>4, <2>5
<1> QED
  BY <1>1, <1>2, <1>7

(* What the proofs use of a sum: it is a natural, an item can be taken out,  *)
(* fewer items draw no more, and nothing comes to nothing.                   *)
LEMMA TotalTyped ==
  ASSUME NEW draws, NEW S, IsFiniteSet(S), NEW d, Sized(draws, S, d)
  PROVE  Total(draws, S, d) \in Nat
  BY TotalCounts, FS_CardinalityType

LEMMA TotalWithout ==
  ASSUME NEW draws, NEW S, IsFiniteSet(S), NEW d, Sized(draws, S, d), NEW x \in S
  PROVE  Total(draws, S, d) = Amount(draws[x], d) + Total(draws, S \ {x}, d)
<1>1. IsFiniteSet(S \ {x}) /\ Sized(draws, S \ {x}, d)
  BY FS_RemoveElement DEF Sized
<1> QED
  BY <1>1, TotalCounts, UnitsWithout

LEMMA TotalMonotonic ==
  ASSUME NEW draws, NEW S, IsFiniteSet(S), NEW d, Sized(draws, S, d), NEW T \in SUBSET S
  PROVE  Total(draws, T, d) <= Total(draws, S, d)
<1>1. IsFiniteSet(T) /\ Sized(draws, T, d)
  BY FS_Subset DEF Sized
<1>2. Units(draws, T, d) \in SUBSET Units(draws, S, d)
  BY DEF Units
<1> QED
  BY <1>1, <1>2, TotalCounts, FS_Subset

LEMMA TotalSame ==
  ASSUME NEW draws, NEW other, NEW S, IsFiniteSet(S), NEW d, Sized(draws, S, d),
         \A k \in S : other[k] = draws[k]
  PROVE  Total(other, S, d) = Total(draws, S, d)
<1>1. Sized(other, S, d) /\ Units(other, S, d) = Units(draws, S, d)
  BY DEF Sized, Units
<1> QED
  BY <1>1, TotalCounts

LEMMA TotalNothing ==
  ASSUME NEW draws, NEW S, IsFiniteSet(S), NEW d, \A k \in S : Amount(draws[k], d) = 0
  PROVE  Total(draws, S, d) = 0
<1>1. Sized(draws, S, d) /\ Units(draws, S, d) = {}
  BY DEF Sized, Units
<1> QED
  BY <1>1, TotalCounts, FS_EmptySet

-----------------------------------------------------------------------------
(* The promise.  Only a batch that begins or goes on reserves anything.      *)
Draws == [k \in WorkIds |-> sized[k].draw]

BatchFits ==
  /\ used["tool_calls"] + Cardinality(Waiting) <= Quota["tool_calls"]
  /\ used["steps"] + Cardinality(Waiting) <= Quota["steps"]
  /\ \A d \in DOMAIN Quota \ (overdrawn \cup Standard) :
       used[d] + Total(Draws, Undispatched, d) <= Quota[d]

Batched ==
  /\ pc \notin Begun => NoItems
  /\ turn.action = "WORK_BATCH" /\ pc \in Begun => BatchFits

LEMMA DrawsSized ==
  ASSUME TypeInv
  PROVE  /\ \A S \in SUBSET WorkIds : \A d : IsFiniteSet(S) /\ Sized(Draws, S, d)
         /\ Undispatched \in SUBSET WorkIds /\ Waiting \in SUBSET Undispatched
         /\ IsFiniteSet(Undispatched) /\ IsFiniteSet(Waiting)
<1>1. ASSUME NEW S \in SUBSET WorkIds, NEW d PROVE IsFiniteSet(S) /\ Sized(Draws, S, d)
  <2>1. IsFiniteSet(S)
    BY CoordinatorAssumption, FS_Subset DEF CoordinatorAssumption
  <2>2. \A k \in S : Amount(Draws[k], d) \in Nat
    BY DEF TypeInv, TypeOK, TurnTypeOK, Draws, Amount, IsDraw
  <2> QED
    BY <2>1, <2>2 DEF Sized
<1>2. Undispatched \in SUBSET WorkIds /\ Waiting \in SUBSET Undispatched
  BY DEF Undispatched, Waiting
<1> QED
  BY <1>1, <1>2

(* What nothing waits for fits already.                                      *)
LEMMA NothingWaits ==
  ASSUME TypeInv, BudgetInv, Undispatched = {}
  PROVE  BatchFits
<1>1. Waiting = {}
  BY DEF Waiting
<1>2. Cardinality({}) = 0 /\ \A d : Total(Draws, {}, d) = 0
  BY FS_EmptySet, TotalNothing
<1>3. /\ overdrawn \cap Standard = {}
      /\ \A d \in DOMAIN Quota \ overdrawn : used[d] <= Quota[d]
  BY DEF BudgetInv, BudgetRespected
<1>4. /\ used["tool_calls"] + 0 <= Quota["tool_calls"] /\ used["steps"] + 0 <= Quota["steps"]
  BY <1>3, QuotaTyped
<1>5. ASSUME NEW d \in DOMAIN Quota \ (overdrawn \cup Standard) PROVE used[d] + 0 <= Quota[d]
  BY <1>3, QuotaTyped
<1> QED
  BY <1>1, <1>2, <1>4, <1>5 DEF BatchFits

(* As long as nothing is charged, fewer items need less.                     *)
LEMMA FewerFit ==
  ASSUME TypeInv, TypeInv', BatchFits, Undispatched' \subseteq Undispatched,
         pc # "EXECUTING", pc' # "EXECUTING", UNCHANGED <<used, overdrawn, sized>>
  PROVE  BatchFits'
<1>1. /\ Waiting = Undispatched /\ Waiting' = Undispatched'
      /\ Draws' = Draws
  BY DEF Waiting, Draws
<1>2. /\ Cardinality(Undispatched') <= Cardinality(Undispatched)
      /\ Cardinality(Undispatched') \in Nat /\ Cardinality(Undispatched) \in Nat
  BY DrawsSized, FS_Subset, FS_CardinalityType
<1>3. ASSUME NEW d
      PROVE  /\ Total(Draws, Undispatched', d) <= Total(Draws, Undispatched, d)
             /\ Total(Draws, Undispatched', d) \in Nat /\ Total(Draws, Undispatched, d) \in Nat
  <2>1. IsFiniteSet(Undispatched) /\ Sized(Draws, Undispatched, d)
        /\ IsFiniteSet(Undispatched') /\ Sized(Draws, Undispatched', d)
        /\ Undispatched' \in SUBSET Undispatched
    <3>1. Undispatched' \in SUBSET WorkIds
      BY DrawsSized
    <3> QED
      BY <3>1, DrawsSized
  <2> QED
    BY <2>1, TotalMonotonic, TotalTyped
<1>4. ASSUME NEW d \in DOMAIN Quota \ (overdrawn \cup Standard)
      PROVE  used[d] + Total(Draws, Undispatched', d) <= Quota[d]
  <2>1. used[d] + Total(Draws, Undispatched, d) <= Quota[d] /\ used[d] \in Nat /\ Quota[d] \in Nat
    BY QuotaTyped DEF BatchFits
  <2> QED
    BY <1>3, <2>1
<1>5. /\ used["tool_calls"] + Cardinality(Undispatched') <= Quota["tool_calls"]
      /\ used["steps"] + Cardinality(Undispatched') <= Quota["steps"]
  BY <1>1, <1>2, QuotaTyped DEF BatchFits
<1> QED
  BY <1>1, <1>4, <1>5 DEF BatchFits

(* A dispatch takes its call and its step from what was reserved for it,     *)
LEMMA DispatchFits ==
  ASSUME TypeInv, TypeInv', BatchFits, Dispatch
  PROVE  BatchFits'
<1>1. /\ pc = "DISPATCH" /\ pc' = "EXECUTING"
      /\ UNCHANGED <<overdrawn, sized, work, current>> /\ Charge({"tool_calls", "steps"})
  BY DEF Dispatch, batchVars
<1>2. current \in Undispatched
  BY <1>1, CurrentItem DEF Acting, Undispatched
<1>3. /\ Waiting = Undispatched /\ Waiting' = Undispatched \ {current}
      /\ Undispatched' = Undispatched /\ Draws' = Draws
  BY <1>1 DEF Waiting, Undispatched, Draws
<1>4. /\ Cardinality(Undispatched \ {current}) = Cardinality(Undispatched) - 1
      /\ Cardinality(Undispatched) \in Nat
  BY <1>2, DrawsSized, FS_RemoveElement, FS_CardinalityType
<1>5. /\ used'["tool_calls"] = used["tool_calls"] + 1 /\ used'["steps"] = used["steps"] + 1
      /\ \A d \in DOMAIN Quota \ Standard : used'[d] = used[d]
  BY <1>1, QuotaTyped DEF Charge
<1>6. /\ used'["tool_calls"] + Cardinality(Waiting') <= Quota["tool_calls"]
      /\ used'["steps"] + Cardinality(Waiting') <= Quota["steps"]
  BY <1>3, <1>4, <1>5, QuotaTyped DEF BatchFits
<1> QED
  BY <1>1, <1>3, <1>5, <1>6 DEF BatchFits

(* and the result of a call is charged no more than was reserved for the     *)
(* call, except where the dimension is from now on overdrawn.                *)
LEMMA ReturnFits ==
  ASSUME TypeInv, TypeInv', BatchFits, ExecutorReturns, Moves({"RETURNED", "FAILED"})
  PROVE  BatchFits'
<1>1. PICK outcome \in Outcomes[Request.tool] : Execute(outcome)
  BY DEF ExecutorReturns
<1>2. pc = "EXECUTING" /\ pc' # "EXECUTING"
  BY DEF ExecutorReturns, Moves, Proceed
<1>3. IsDraw(Reserved) /\ Request.tool \in DOMAIN Specs /\ current \in WorkIds
      /\ work[current] = "READY"
  BY <1>2, ActingItem, CurrentItem DEF Acting, Bound, Reserved, TypeInv, Placed
<1>4. IsDraw(Actual(outcome))
  BY <1>3, CoordinatorAssumption DEF CoordinatorAssumption, Actual
<1>5. PICK st \in {"RETURNED", "FAILED"} :
        \A k \in WorkIds : work'[k] = IF k = current THEN st ELSE work[k]
  BY <1>3, MovesOne DEF ItemStates
<1>6. /\ Waiting = Undispatched \ {current} /\ Waiting' = Undispatched \ {current}
      /\ Undispatched' = Undispatched \ {current} /\ current \in Undispatched
  BY <1>2, <1>3, <1>5 DEF Waiting, Undispatched
<1>7. UNCHANGED sized
  BY <1>2 DEF ExecutorReturns, Moves, Proceed, FailRun
<1>8. Draws' = Draws /\ Draws[current] = Reserved
  BY <1>3, <1>7 DEF Draws, Reserved
<1> DEFINE charged(d) == Charged(Reserved, Actual(outcome), d)
<1>9. \A d : /\ charged(d) \in Nat /\ Amount(Reserved, d) \in Nat
             /\ d \in Standard => charged(d) = 0
  BY <1>3, <1>4, ChargedBounds
<1>10. /\ used' = [d \in DOMAIN Quota |-> used[d] + charged(d)]
       /\ overdrawn' = overdrawn \cup {d \in DOMAIN Quota : charged(d) > Amount(Reserved, d)}
  BY <1>1, QuotaTyped DEF Execute, Reconcile
<1> HIDE DEF charged
<1>11. used'["tool_calls"] = used["tool_calls"] /\ used'["steps"] = used["steps"]
  BY <1>9, <1>10, QuotaTyped
<1>12. ASSUME NEW d \in DOMAIN Quota \ (overdrawn' \cup Standard)
       PROVE  used'[d] + Total(Draws, Undispatched \ {current}, d) <= Quota[d]
  <2>1. Total(Draws, Undispatched, d) =
          Amount(Reserved, d) + Total(Draws, Undispatched \ {current}, d)
    BY <1>6, <1>8, DrawsSized, TotalWithout
  <2>2. Total(Draws, Undispatched \ {current}, d) \in Nat
    <3>1. Undispatched \ {current} \in SUBSET WorkIds
      BY DrawsSized
    <3> QED
      BY <3>1, DrawsSized, TotalTyped
  <2>3. d \in DOMAIN Quota \ (overdrawn \cup Standard) /\ ~(charged(d) > Amount(Reserved, d))
        /\ used'[d] = used[d] + charged(d)
    BY <1>10
  <2>4. used[d] + Total(Draws, Undispatched, d) <= Quota[d]
    BY <2>3 DEF BatchFits
  <2>5. used[d] \in Nat /\ Quota[d] \in Nat /\ charged(d) \in Nat /\ Amount(Reserved, d) \in Nat
    BY <1>9, QuotaTyped
  <2> QED
    BY <2>1, <2>2, <2>3, <2>4, <2>5
<1> QED
  BY <1>6, <1>8, <1>11, <1>12 DEF BatchFits

(* The preflight of a batch: its reservations fit together, and a dimension  *)
(* that none of them names is within its quota anyway.                       *)
LEMMA PreflightFits ==
  ASSUME TypeInv, TypeInv', BudgetInv, PreflightBatch, pc' = "WAVE"
  PROVE  BatchFits'
<1>1. PICK s \in Preflights :
        /\ ValidBatch(turn, s)
        /\ work' = [k \in WorkIds |-> IF k \in DOMAIN s THEN "PENDING" ELSE "ABSENT"]
        /\ sized' = [k \in WorkIds |-> IF k \in DOMAIN s THEN s[k] ELSE NoSizing]
        /\ UNCHANGED <<used, overdrawn>>
  BY DEF PreflightBatch, DenyTurn, runVars, history
<1> DEFINE ids == DOMAIN turn.items
           own == [k \in ids |-> s[k].draw]
<1>2. DOMAIN s = ids /\ \A k \in ids : IsDraw(s[k].draw)
  BY PreflightsTyped, SupportedTyped
<1>3. ids \subseteq WorkIds /\ IsFiniteSet(ids)
  <2>1. ids \subseteq WorkIds
    BY CoordinatorAssumption DEF TypeInv, TypeOK, TurnTypeOK, NoTurn, CoordinatorAssumption
  <2> QED
    BY <2>1, CoordinatorAssumption, FS_Subset DEF CoordinatorAssumption
<1>4. Undispatched' = ids /\ Waiting' = ids
  BY <1>1, <1>2, <1>3 DEF Undispatched, Waiting
<1>5. \A d : Total(Draws', ids, d) = Total(own, ids, d) /\ Sized(own, ids, d)
  <2>1. \A d : Sized(own, ids, d)
    BY <1>2 DEF Sized, Amount, IsDraw
  <2>2. \A k \in ids : Draws'[k] = own[k]
    BY <1>1, <1>2, <1>3 DEF Draws
  <2> HIDE DEF ids, own
  <2> QED
    BY <1>3, <2>1, <2>2, TotalSame
<1>6. ReservationsFit(ids, s)
  BY <1>1 DEF ValidBatch
<1>7. /\ Cardinality(ids) <= Remaining(used, "tool_calls")
      /\ Cardinality(ids) <= Remaining(used, "steps")
      /\ \A d \in UNION {DOMAIN s[k].draw : k \in ids} : Total(own, ids, d) <= Remaining(used, d)
  BY <1>6 DEF ReservationsFit, CheckBudget
<1>8. Cardinality(ids) \in Nat
  BY <1>3, FS_CardinalityType
<1>9. ASSUME NEW d \in DOMAIN Quota \ (overdrawn \cup Standard)
      PROVE  used[d] + Total(own, ids, d) <= Quota[d]
  <2>1. used[d] \in Nat /\ Quota[d] \in Nat /\ used[d] <= Quota[d]
    BY QuotaTyped DEF BudgetInv, BudgetRespected
  <2>2. CASE d \in UNION {DOMAIN s[k].draw : k \in ids}
    <3>1. Total(own, ids, d) \in Nat
      BY <1>3, <1>5, TotalTyped
    <3> QED
      BY <1>7, <2>1, <2>2, <3>1 DEF Remaining
  <2>3. CASE d \notin UNION {DOMAIN s[k].draw : k \in ids}
    <3>1. \A k \in ids : Amount(own[k], d) = 0
      BY <2>3 DEF Amount
    <3>2. Total(own, ids, d) = 0
      BY <1>3, <3>1, TotalNothing
    <3> QED
      BY <2>1, <3>2
  <2> QED
    BY <2>2, <2>3
<1>10. /\ used["tool_calls"] + Cardinality(ids) <= Quota["tool_calls"]
       /\ used["steps"] + Cardinality(ids) <= Quota["steps"]
  BY <1>7, <1>8, QuotaTyped DEF Remaining
<1> QED
  BY <1>1, <1>4, <1>5, <1>9, <1>10 DEF BatchFits

LEMMA BatchedElsewhere ==
  ASSUME pc' \notin Begun, NoItems'
  PROVE  Batched'
  BY DEF Batched, Begun

(* The steps of the items at hand.                                           *)
LEMMA BatchedItems ==
  ASSUME TypeInv, TypeInv', Batched, Gate \/ ExecutorReturns \/ Ingest \/ Outage
  PROVE  Batched'
<1>1. CASE NoItems' /\ pc' \notin Begun
  BY <1>1, BatchedElsewhere
<1>2. CASE ItemsStill /\ pc \notin Begun /\ pc' \notin Begun
  BY <1>2 DEF Batched, ItemsStill, NoItems
<1>3. CASE Dispatch
  <2>1. pc \in Begun /\ pc' \in Begun /\ UNCHANGED turn
    BY <1>3 DEF Dispatch, Begun, Acting
  <2> QED
    BY <1>3, <2>1, DispatchFits DEF Batched
<1>4. CASE ExecutorReturns /\ pc \in Acting /\ Moves({"RETURNED", "FAILED"})
  <2>1. pc \in Begun /\ pc' \in Begun /\ UNCHANGED turn
    BY <1>4 DEF Moves, Proceed, Begun, Acting, Ingesting
  <2> QED
    BY <1>4, <2>1, ReturnFits DEF Batched
<1>5. ASSUME pc \in Begun, pc' \in Begun, pc # "EXECUTING", pc' # "EXECUTING", ~Dispatch,
             UNCHANGED turn, Undispatched' \subseteq Undispatched
      PROVE  Batched'
  <2>1. UNCHANGED <<used, overdrawn, sized>>
    BY <1>5 DEF Gate, Authorize, Bind, BindDenied, Recheck, DispatchDenied, ExecutorReturns, Ingest,
       VerifyResult, ResultRejected, VerifyRevision, Apply, ApplyRejected, Settle, Outage,
       RunRaises, AccessFailsRun, AccessDeniesItem, AccessRejectsResult, AccessHidesTransition,
       FailRun, DenyItem, EndIngest, Begun, Acting, Ingesting, runVars, batchVars, history
  <2> QED
    BY <1>5, <2>1, FewerFit DEF Batched
<1>6. CASE /\ ItemsStill /\ ~Dispatch
           /\ \/ pc \in Acting \ {"EXECUTING"} /\ pc' \in Acting \ {"EXECUTING"}
              \/ pc \in Ingesting /\ pc' \in Ingesting
  BY <1>5, <1>6 DEF ItemsStill, Undispatched, Begun, Acting, Ingesting
<1>7. CASE /\ ~ExecutorReturns /\ ~Dispatch
           /\ \/ pc \in Acting /\ Moves({"RETURNED", "FAILED"})
              \/ pc \in Ingesting /\ Moves({"COMPLETED", "FAILED"})
  <2>1. PICK st \in {"RETURNED", "COMPLETED", "FAILED"} :
          Proceed([work EXCEPT ![current] = st]) /\ UNCHANGED turn
    BY <1>7 DEF Moves
  <2>2. pc # "EXECUTING"
    BY <1>7 DEF Gate, Authorize, Bind, BindDenied, Recheck, Dispatch, DispatchDenied, Ingest,
       VerifyResult, ResultRejected, VerifyRevision, Apply, ApplyRejected, Settle, Outage,
       RunRaises, AccessFailsRun, AccessDeniesItem, AccessRejectsResult, AccessHidesTransition
  <2>3. pc' \in {"AUTHORIZE", "VERIFY", "WAVE"} /\ work' = [work EXCEPT ![current] = st]
    BY <2>1 DEF Proceed
  <2>4. Undispatched' \subseteq Undispatched
    BY <2>3 DEF Undispatched, TypeInv, TypeOK, TurnTypeOK
  <2> QED
    BY <1>5, <1>7, <2>1, <2>2, <2>3, <2>4 DEF Begun, Acting, Ingesting
<1>8. CASE ~Dispatch
  <2>1. ExecutorReturns => pc = "EXECUTING"
    BY DEF ExecutorReturns
  <2> QED
    BY <1>1, <1>2, <1>4, <1>6, <1>7, <1>8, <2>1, ItemSteps DEF Acting, Ingesting
<1> QED
  BY <1>3, <1>8

LEMMA BatchedPreflight ==
  ASSUME TypeInv, TypeInv', BudgetInv, Chosen, Batched, Preflight
  PROVE  Batched'
<1>1. CASE PreflightTool
  <2>1. CASE DenyTurn("EXECUTION")
    BY <2>1, EndTurnEmpties, BatchedElsewhere DEF DenyTurn, Begun, Acting, Ingesting
  <2>2. CASE pc' = "AUTHORIZE" /\ UNCHANGED turn
    <3>1. turn.action = "TOOL_REQUEST"
      BY <1>1 DEF PreflightTool, Chosen
    <3> QED
      BY <2>2, <3>1 DEF Batched, Begun, Acting
  <2> QED
    BY <1>1, <2>1, <2>2 DEF PreflightTool
<1>2. CASE PreflightBatch
  <2>1. CASE DenyTurn("WORK_BATCH")
    BY <2>1, EndTurnEmpties, BatchedElsewhere DEF DenyTurn, Begun, Acting, Ingesting
  <2>2. CASE pc' = "WAVE"
    BY <1>2, <2>2, PreflightFits DEF Batched, Begun
  <2> QED
    BY <1>2, <2>1, <2>2 DEF PreflightBatch
<1>3. CASE Wave
  <2>1. /\ pc \in Begun /\ pc # "EXECUTING" /\ pc' \in Begun /\ pc' # "EXECUTING"
        /\ UNCHANGED <<turn, used, overdrawn, sized>>
    BY <1>3 DEF Wave, Proceed, Begun, Acting, Ingesting, runVars, history
  <2>2. \A k \in WorkIds : work'[k] # work[k] => work[k] = "PENDING"
    BY <1>3 DEF Wave, Proceed, Skipped, Planned, In
  <2>3. Undispatched' \subseteq Undispatched
    BY <2>2 DEF Undispatched
  <2> QED
    BY <2>1, <2>3, FewerFit DEF Batched
<1>4. CASE BatchSettled
  BY <1>4, EndTurnEmpties, BatchedElsewhere DEF BatchSettled, Begun, Acting, Ingesting
<1> QED
  BY <1>1, <1>2, <1>3, <1>4 DEF Preflight

LEMMA BatchedStep ==
  TypeInv /\ TypeInv' /\ BudgetInv /\ Chosen /\ Batched /\ [Next]_vars => Batched'
<1> SUFFICES ASSUME TypeInv, TypeInv', BudgetInv, Chosen, Batched, [Next]_vars PROVE Batched'
  OBVIOUS
<1>1. CASE Start \/ LoopHead \/ Project \/ Projected \/ ModelTurn \/ Finish \/ Conclude
  <2>1. CASE NoItems' /\ pc' \notin Begun
    BY <2>1, BatchedElsewhere
  <2>2. CASE ItemsStill /\ pc \notin Begun /\ pc' \notin Begun
    BY <2>2 DEF Batched, ItemsStill, NoItems
  <2> QED
    BY <1>1, <2>1, <2>2, Elsewhere
<1>2. CASE Preflight
  BY <1>2, BatchedPreflight
<1>3. CASE Gate \/ ExecutorReturns \/ Ingest \/ Outage
  BY <1>3, BatchedItems
<1>4. CASE Others \/ Returned \/ UNCHANGED vars
  BY <1>4 DEF Others, Returned, vars, local, runVars, batchVars, history, Batched, NoItems,
     BatchFits, Waiting, Undispatched, Draws
<1> QED
  BY <1>1, <1>2, <1>3, <1>4 DEF Next, Run

LEMMA BatchedInit == Init => Batched /\ Chosen
  BY DEF Init, Batched, Chosen, NoItems, Begun, Acting, Ingesting

(* The cumulative preflight of a batch stays good to its last item, for any  *)
(* quotas, reservations, dependencies and results: what is still to be       *)
(* dispatched fits beside what was charged (_validate_batch, reconcile).     *)
THEOREM BatchReservationHoldsThm == Spec => []BatchReservationHolds
<1>1. TypeInv /\ BudgetInv /\ Batched => BatchReservationHolds
  <2> SUFFICES ASSUME TypeInv, BudgetInv, Batched, turn.action = "WORK_BATCH"
               PROVE  BatchFits
    BY DEF BatchReservationHolds, BatchFits, Waiting, Draws
  <2>1. CASE pc \notin Begun
    <3>1. Undispatched = {}
      BY <2>1 DEF Batched, NoItems, Undispatched
    <3> QED
      BY <3>1, NothingWaits
  <2> QED
    BY <2>1 DEF Batched
<1> QED
  BY <1>1, BatchedInit, BatchedStep, ChosenStep, BudgetInit, BudgetStep, TypeInvThm, PTL DEF Spec

-----------------------------------------------------------------------------
(* A batch is only begun while no dimension is beyond its quota, overdrawn   *)
(* or not: the sums of its requests are naturals, and one is compared with   *)
(* what is left of every dimension that can be overdrawn (_validate_batch).  *)
THEOREM OverdraftBlocksBatchesThm == Spec => OverdraftBlocksBatches
<1>1. ASSUME TypeInv, BudgetInv, [Next]_vars, pc = "BATCH", pc' = "WAVE"
      PROVE  \A d \in DOMAIN Quota : used[d] <= Quota[d]
  <2>1. PreflightBatch
    BY <1>1 DEF Next, Run, Start, LoopHead, Project, Projected, ModelTurn, TurnFails, TurnDenied,
       UpdateRejected, TurnAccepted, Preflight, PreflightTool, Wave, BatchSettled, Gate,
       Authorize, Bind, BindDenied, Recheck, Dispatch, DispatchDenied, ExecutorReturns, Ingest,
       VerifyResult, ResultRejected, VerifyRevision, Apply, ApplyRejected, Settle, Finish,
       FinishAccepted, FinishDenied, FinishRaises, Conclude, Persist, PriorStatus, Transition,
       TransitionMisbehaves, TransitionRaises, Observe, Confirm, Report, Outage, RunRaises,
       AccessFailsRun, AccessDeniesItem, AccessRejectsResult, AccessHidesTransition, Others,
       Returned, vars, local
  <2>2. AsksFit(turn)
    BY <1>1, <2>1 DEF PreflightBatch, DenyTurn, ValidBatch
  <2> DEFINE ids  == DOMAIN turn.items
             asks == [k \in ids |-> turn.items[k].ask]
  <2>3. ids \subseteq WorkIds /\ IsFiniteSet(ids) /\ \A d : Sized(asks, ids, d)
    <3>1. ids \subseteq WorkIds /\ \A k \in ids : IsDraw(turn.items[k].ask)
      BY <1>1, CoordinatorAssumption
      DEF TypeInv, TypeOK, TurnTypeOK, NoTurn, CoordinatorAssumption, IsItem
    <3>2. IsFiniteSet(ids)
      BY <3>1, CoordinatorAssumption, FS_Subset DEF CoordinatorAssumption
    <3> QED
      BY <3>1, <3>2 DEF Sized, Amount, IsDraw
  <2>4. ASSUME NEW d \in DOMAIN Quota PROVE used[d] <= Quota[d]
    <3>1. used[d] \in Nat /\ Quota[d] \in Nat
      BY <1>1, QuotaTyped
    <3>2. CASE d \in DOMAIN Quota \ Standard
      <4>1. Total(asks, ids, d) <= Remaining(used, d)
        BY <2>2, <3>2 DEF AsksFit, SummedDimensions
      <4>2. Total(asks, ids, d) \in Nat
        BY <2>3, TotalTyped
      <4> QED
        BY <3>1, <4>1, <4>2 DEF Remaining
    <3>3. CASE d \in Standard
      BY <1>1, <3>3 DEF BudgetInv, BudgetRespected
    <3> QED
      BY <3>2, <3>3
  <2> QED
    BY <2>4
<1> QED
  BY <1>1, BudgetInit, BudgetStep, TypeInvThm, PTL DEF Spec, OverdraftBlocksBatches

-----------------------------------------------------------------------------
(* The measure of progress.  A model call is charged by the turn loop only.  *)
CallsLeft == Remaining(used, "model_calls")

(* Only Projected and Dispatch make a turn late; only Projected counts one.  *)
LEMMA CallsStill ==
  ASSUME TypeInv, Run, ~Projected
  PROVE  used'["model_calls"] = used["model_calls"] /\ (~Dispatch => UNCHANGED late)
<1>0. used \in [DOMAIN Quota -> Nat] /\ "model_calls" \in DOMAIN Quota
  BY QuotaTyped
<1>1. CASE Start \/ LoopHead \/ Project \/ Preflight \/ Finish \/ Conclude \/ Outage
  BY <1>1 DEF Start, LoopHead, Project, Preflight, PreflightTool, PreflightBatch, Wave,
     BatchSettled, Finish, FinishAccepted, FinishDenied, FinishRaises, Conclude, Persist,
     PriorStatus, Transition, TransitionMisbehaves, TransitionRaises, Observe, Confirm, Report,
     Outage, RunRaises, AccessFailsRun, AccessDeniesItem, AccessRejectsResult,
     AccessHidesTransition, runVars, history
<1>2. CASE ModelTurn
  BY <1>0, <1>2 DEF ModelTurn, TurnFails, TurnDenied, UpdateRejected, TurnAccepted, Charge, history
<1>3. CASE Gate
  BY <1>0, <1>3 DEF Gate, Authorize, Bind, BindDenied, Recheck, Dispatch, DispatchDenied, Charge,
     runVars, history
<1>4. CASE ExecutorReturns
  <2>1. PICK outcome : used' = [d \in DOMAIN used |-> used[d] + Charged(Reserved, Actual(outcome), d)]
    BY <1>4 DEF ExecutorReturns, Execute, Reconcile
  <2>2. Charged(Reserved, Actual(outcome), "model_calls") = 0
    BY DEF Charged, Standard
  <2> QED
    BY <1>0, <1>4, <2>1, <2>2 DEF ExecutorReturns
<1>5. CASE Ingest
  BY <1>5 DEF Ingest, VerifyResult, ResultRejected, VerifyRevision, Apply, ApplyRejected, Settle,
     runVars, history
<1> QED
  BY <1>1, <1>2, <1>3, <1>4, <1>5 DEF Run

(* A terminal status stays terminal, even in a faulty store.                 *)
LEMMA TerminalStays ==
  ASSUME ClaimInv, Run, storeStatus \in Terminal
  PROVE  storeStatus' \in Terminal
<1>1. CASE Conclude
  <2>1. pc \in Concluding => runStatus \in Terminal
    BY DEF ClaimInv
  <2> QED
    BY <1>1, <2>1 DEF Conclude, Persist, PriorStatus, Transition, TransitionMisbehaves,
       TransitionRaises, Observe, Confirm, Report, TransitionStatus, FaultyTransition, Concluding,
       shared, storeVars
<1>2. CASE ~Conclude
  BY <1>2 DEF Run, Start, LoopHead, Project, Projected, ModelTurn, TurnFails, TurnDenied,
     UpdateRejected, TurnAccepted, Preflight, PreflightTool, PreflightBatch, Wave, BatchSettled,
     Gate, Authorize, Bind, BindDenied, Recheck, Dispatch, DispatchDenied, ExecutorReturns,
     Ingest, VerifyResult, ResultRejected, VerifyRevision, Apply, ApplyRejected, Settle, Finish,
     FinishAccepted, FinishDenied, FinishRaises, Outage, RunRaises, AccessFailsRun,
     AccessDeniesItem, AccessRejectsResult, AccessHidesTransition, ApplyBatch, shared, storeVars
<1> QED
  BY <1>1, <1>2

-----------------------------------------------------------------------------
(* The measure.                                                              *)
LEMMA WayTyped ==
  ASSUME TypeInv
  PROVE  TurnLeft \in 0 .. 12 /\ ItemLeft \in 0 .. 5
  BY DEF TypeInv, TypeOK, RunTypeOK, Locations, TurnLeft, ItemLeft, TurnWay, ItemWay

LEMMA AmongFinite ==
  ASSUME NEW states
  PROVE  IsFiniteSet(Among(states)) /\ Cardinality(Among(states)) \in Nat
<1>1. Among(states) \subseteq WorkIds /\ IsFiniteSet(WorkIds)
  BY CoordinatorAssumption DEF CoordinatorAssumption, Among
<1> QED
  BY <1>1, FS_Subset, FS_CardinalityType

LeftInts == /\ CallsLeft \in Int /\ Disturbances \in Nat /\ TurnLeft \in Nat
            /\ Unsettled \in Nat /\ ItemLeft \in Nat

LEMMA LeftTyped == TypeInv => LeftInts
<1> SUFFICES ASSUME TypeInv PROVE LeftInts
  OBVIOUS
<1>1. CallsLeft \in Int
  BY QuotaTyped DEF CallsLeft, Remaining
<1>2. Disturbances \in Nat
  BY StoreAssumption DEF Disturbances, StoreAssumption, TypeInv, TypeOK, StoreTypeOK
<1>3. Unsettled \in Nat
  <2>1. \A states : Cardinality(Among(states)) \in Nat
    BY AmongFinite
  <2> QED
    BY <2>1 DEF Unsettled
<1> QED
  BY <1>1, <1>2, <1>3, WayTyped DEF LeftInts

LEMMA LeftTypedNext == TypeInv' => LeftInts'
  BY LeftTyped, PTL

(* Which comparisons of the components order the whole.                      *)
LEMMA Lessens ==
  ASSUME TypeInv, TypeInv',
         \/ CallsLeft' < CallsLeft
         \/ /\ CallsLeft' = CallsLeft /\ Disturbances' < Disturbances
         \/ /\ CallsLeft' = CallsLeft /\ Disturbances' <= Disturbances
            /\ TurnLeft' < TurnLeft
         \/ /\ CallsLeft' = CallsLeft /\ Disturbances' <= Disturbances
            /\ TurnLeft' = TurnLeft
            /\ \/ Unsettled' < Unsettled
               \/ Unsettled' = Unsettled /\ ItemLeft' < ItemLeft
  PROVE  Below(Left', Left)
<1>1. /\ CallsLeft \in Int /\ Disturbances \in Nat /\ TurnLeft \in Nat
      /\ Unsettled \in Nat /\ ItemLeft \in Nat
  BY LeftTyped DEF LeftInts
<1>2. /\ CallsLeft' \in Int /\ Disturbances' \in Nat /\ TurnLeft' \in Nat
      /\ Unsettled' \in Nat /\ ItemLeft' \in Nat
  BY LeftTypedNext DEF LeftInts
<1>3. /\ Left = <<CallsLeft, Disturbances, TurnLeft, Unsettled, ItemLeft>>
      /\ Left' = <<CallsLeft', Disturbances', TurnLeft', Unsettled', ItemLeft'>>
      /\ DOMAIN Left = 1 .. 5
  BY DEF Left, CallsLeft
<1>4. ASSUME NEW i \in 1 .. 5, Left'[i] < Left[i], \A j \in 1 .. (i - 1) : Left'[j] = Left[j]
      PROVE  Below(Left', Left)
  BY <1>3, <1>4 DEF Below
<1>5. CASE CallsLeft' < CallsLeft
  BY <1>3, <1>4, <1>5
<1>6. CASE CallsLeft' = CallsLeft /\ Disturbances' < Disturbances
  BY <1>3, <1>4, <1>6
<1>7. CASE CallsLeft' = CallsLeft /\ Disturbances' = Disturbances /\ TurnLeft' < TurnLeft
  BY <1>3, <1>4, <1>7
<1>8. CASE /\ CallsLeft' = CallsLeft /\ Disturbances' = Disturbances /\ TurnLeft' = TurnLeft
           /\ Unsettled' < Unsettled
  BY <1>3, <1>4, <1>8
<1>9. CASE /\ CallsLeft' = CallsLeft /\ Disturbances' = Disturbances /\ TurnLeft' = TurnLeft
           /\ Unsettled' = Unsettled /\ ItemLeft' < ItemLeft
  BY <1>3, <1>4, <1>9
<1> QED
  BY <1>1, <1>2, <1>5, <1>6, <1>7, <1>8, <1>9

(* Only the disturbances can be used up by another actor.                    *)
LEMMA OthersLessen ==
  ASSUME TypeInv, TypeInv', Others
  PROVE  ~Below(Left, Left')
<1>1. /\ CallsLeft \in Int /\ Disturbances \in Nat /\ TurnLeft \in Nat
      /\ Unsettled \in Nat /\ ItemLeft \in Nat
  BY LeftTyped DEF LeftInts
<1>2. Disturbances' \in Nat
  BY LeftTypedNext DEF LeftInts
<1>3. /\ CallsLeft' = CallsLeft /\ TurnLeft' = TurnLeft /\ Unsettled' = Unsettled
      /\ ItemLeft' = ItemLeft
  BY DEF Others, local, runVars, batchVars, CallsLeft, TurnLeft, ItemLeft, Unsettled, Among
<1>4. Disturbances' <= Disturbances
  <2>1. UNCHANGED <<pc, projected>> /\ storeRevision \in Nat /\ MaxRevision \in Nat
    BY StoreAssumption DEF Others, local, TypeInv, TypeOK, StoreTypeOK, StoreAssumption
  <2>2. CASE ExternalWrite
    BY <2>1, <2>2 DEF ExternalWrite, Disturbances, Stopped
  <2>3. CASE ExternalTransition
    <3>1. storeStatus \notin Terminal /\ storeStatus' \in Terminal
          /\ storeRevision' = storeRevision + 1
      BY <2>3, StoreAssumption DEF ExternalTransition, TransitionStatus, MayTransition, StoreAssumption
    <3> QED
      BY <2>1, <3>1 DEF Disturbances, Stopped
  <2>4. CASE ReferenceMoves
    BY <2>1, <2>4 DEF ReferenceMoves, Disturbances, Stopped, storeVars
  <2> QED
    BY <2>2, <2>3, <2>4 DEF Others, Environment
<1>5. /\ Left = <<CallsLeft, Disturbances, TurnLeft, Unsettled, ItemLeft>>
      /\ Left' = <<CallsLeft, Disturbances', TurnLeft, Unsettled, ItemLeft>>
      /\ DOMAIN Left' = 1 .. 5
  BY <1>3 DEF Left, CallsLeft
<1> QED
  BY <1>1, <1>2, <1>4, <1>5 DEF Below

(* What the run itself may do to the disturbances.                           *)
LEMMA RunDisturbs ==
  ASSUME TypeInv, ClaimInv, Run, "PROJECTION" \notin Faults
  PROVE  /\ Disturbances' <= Disturbances
         /\ Projected /\ projected # storeRevision => Disturbances' < Disturbances
<1>0. storeRevision \in Nat /\ MaxRevision \in Nat
  BY StoreAssumption DEF StoreAssumption, TypeInv, TypeOK, StoreTypeOK
<1>1. storeRevision' \in {storeRevision, storeRevision + 1}
  <2>1. CASE Conclude
    BY <2>1 DEF Conclude, Persist, PriorStatus, Transition, TransitionMisbehaves,
       TransitionRaises, Observe, Confirm, Report, TransitionStatus, FaultyTransition, shared,
       storeVars
  <2>2. CASE ~Conclude
    BY <2>2 DEF Run, Start, LoopHead, Project, Projected, ModelTurn, TurnFails, TurnDenied,
       UpdateRejected, TurnAccepted, Preflight, PreflightTool, PreflightBatch, Wave, BatchSettled,
       Gate, Authorize, Bind, BindDenied, Recheck, Dispatch, DispatchDenied, ExecutorReturns,
       Ingest, VerifyResult, ResultRejected, VerifyRevision, Apply, ApplyRejected, Settle, Finish,
       FinishAccepted, FinishDenied, FinishRaises, Outage, RunRaises, AccessFailsRun,
       AccessDeniesItem, AccessRejectsResult, AccessHidesTransition, ApplyBatch, shared, storeVars
  <2> QED
    BY <2>1, <2>2
<1>2. Stopped => Stopped'
  BY TerminalStays DEF Stopped
<1>3. pc' = "PROJECTED" => projected' = storeRevision'
  <2>1. TurnAccepted => pc' # "PROJECTED"
    BY CoordinatorAssumption DEF TurnAccepted, CoordinatorAssumption, Route
  <2>2. Project => projected' = storeRevision'
    BY DEF Project, shared, storeVars
  <2>3. ~Project /\ ~TurnAccepted => pc' # "PROJECTED"
    BY DEF Run, Start, LoopHead, Projected, ModelTurn, TurnFails, TurnDenied, UpdateRejected,
       Preflight, PreflightTool, PreflightBatch, Wave, BatchSettled, Gate, Authorize, Bind,
       BindDenied, Recheck, Dispatch, DispatchDenied, ExecutorReturns, Ingest, VerifyResult,
       ResultRejected, VerifyRevision, Apply, ApplyRejected, Settle, Finish, FinishAccepted,
       FinishDenied, FinishRaises, Conclude, Persist, PriorStatus, Transition,
       TransitionMisbehaves, TransitionRaises, Observe, Confirm, Report, Outage, RunRaises,
       AccessFailsRun, AccessDeniesItem, AccessRejectsResult, AccessHidesTransition, FailRun,
       DenyTurn, DenyItem, EndIngest, Proceed
  <2> QED
    BY <2>1, <2>2, <2>3
<1>4. Disturbances' <= Disturbances
  <2> DEFINE writes(r) == IF r < MaxRevision THEN MaxRevision - r ELSE 0
             end       == IF Stopped THEN 0 ELSE 1
             moved     == IF pc = "PROJECTED" /\ projected # storeRevision THEN 1 ELSE 0
  <2>1. /\ writes(storeRevision) \in Nat /\ writes(storeRevision') \in Nat
        /\ writes(storeRevision') <= writes(storeRevision)
    <3>1. ASSUME NEW r \in Nat PROVE writes(r) \in Nat /\ writes(r + 1) <= writes(r)
      BY <1>0
    <3> HIDE DEF writes
    <3> QED
      BY <1>0, <1>1, <3>1
  <2>2. end \in Nat /\ end' \in Nat /\ end' <= end
    BY <1>2
  <2>3. moved \in Nat /\ moved' = 0
    BY <1>3
  <2>4. /\ Disturbances = writes(storeRevision) + end + moved
        /\ Disturbances' = writes(storeRevision') + end' + moved'
    BY DEF Disturbances
  <2> HIDE DEF writes, end, moved
  <2> QED
    BY <2>1, <2>2, <2>3, <2>4
<1>5. ASSUME Projected, projected # storeRevision PROVE Disturbances' < Disturbances
  <2>1. pc = "PROJECTED" /\ pc' # "PROJECTED" /\ UNCHANGED <<storeRevision, storeStatus>>
    BY <1>5 DEF Projected, DenyTurn, shared, storeVars
  <2> QED
    BY <1>0, <1>5, <2>1 DEF Disturbances, Stopped
<1> QED
  BY <1>4, <1>5

(* The items move forwards only.                                             *)
LEMMA UnsettledFalls ==
  ASSUME NEW x \in WorkIds,
         \A k \in WorkIds :
           /\ work'[k] = "PENDING" => work[k] = "PENDING"
           /\ work'[k] \in {"PENDING", "READY"} => work[k] \in {"PENDING", "READY"}
           /\ work'[k] \in {"PENDING", "READY", "RETURNED"} =>
                work[k] \in {"PENDING", "READY", "RETURNED"},
         \/ work[x] = "PENDING" /\ work'[x] # "PENDING"
         \/ work[x] = "READY" /\ work'[x] \notin {"PENDING", "READY"}
         \/ work[x] = "RETURNED" /\ work'[x] \notin {"PENDING", "READY", "RETURNED"}
  PROVE  Unsettled' < Unsettled
<1> DEFINE one   == {"PENDING"}
           two   == {"PENDING", "READY"}
           three == {"PENDING", "READY", "RETURNED"}
<1>1. ASSUME NEW states, Among(states)' \subseteq Among(states)
      PROVE  /\ Cardinality(Among(states)) \in Nat /\ Cardinality(Among(states)') \in Nat
             /\ Cardinality(Among(states)') <= Cardinality(Among(states))
             /\ Among(states)' # Among(states) =>
                  Cardinality(Among(states)') < Cardinality(Among(states))
  <2>1. IsFiniteSet(Among(states)) /\ Cardinality(Among(states)) \in Nat
    BY AmongFinite
  <2>2. /\ IsFiniteSet(Among(states)')
        /\ Cardinality(Among(states)') <= Cardinality(Among(states))
        /\ Cardinality(Among(states)) = Cardinality(Among(states)') =>
             Among(states) = Among(states)'
    BY <1>1, <2>1, FS_Subset
  <2>3. Cardinality(Among(states)') \in Nat
    BY <2>2, FS_CardinalityType
  <2> QED
    BY <2>1, <2>2, <2>3
<1>2. /\ Among(one)' \subseteq Among(one) /\ Among(two)' \subseteq Among(two)
      /\ Among(three)' \subseteq Among(three)
  BY DEF Among
<1>3. \/ Among(one)' # Among(one) \/ Among(two)' # Among(two) \/ Among(three)' # Among(three)
  BY DEF Among
<1> HIDE DEF one, two, three
<1>4. /\ Unsettled = Cardinality(Among(one)) + Cardinality(Among(two)) + Cardinality(Among(three))
      /\ Unsettled' =
           Cardinality(Among(one)') + Cardinality(Among(two)') + Cardinality(Among(three)')
  BY DEF Unsettled, one, two, three
<1> QED
  BY <1>1, <1>2, <1>3, <1>4

-----------------------------------------------------------------------------
(* The items of a begun turn depend on each other only, and not in a circle. *)
Sortable == pc \in Begun => DependenciesKnown(turn.items) /\ Acyclic(turn.items)

LEMMA SortableStep == TypeInv /\ Chosen /\ Sortable /\ [Next]_vars => Sortable'
<1> SUFFICES ASSUME TypeInv, Chosen, Sortable, [Next]_vars, pc' \in Begun PROVE Sortable'
  BY DEF Sortable
<1>1. ~(Start \/ LoopHead \/ Project \/ Projected \/ ModelTurn \/ Finish \/ Conclude)
  BY Elsewhere
<1>2. CASE pc \in Begun /\ UNCHANGED turn
  BY <1>2 DEF Sortable
<1>3. CASE PreflightTool
  <2>1. UNCHANGED turn
    BY <1>3 DEF PreflightTool, DenyTurn, Begun, Acting, Ingesting
  <2>2. PICK k \in DOMAIN turn.items : TRUE
    BY <1>3 DEF PreflightTool
  <2>3. turn \in Turns /\ turn.action = "TOOL_REQUEST"
    BY <1>3, <2>2, ItemTyped DEF PreflightTool, Chosen
  <2>4. \A j \in DOMAIN turn.items : turn.items[j].deps = {}
    BY <2>3, CoordinatorAssumption DEF CoordinatorAssumption
  <2> QED
    BY <2>1, <2>4 DEF Sortable, DependenciesKnown, Acyclic
<1>4. CASE PreflightBatch
  BY <1>4 DEF PreflightBatch, DenyTurn, ValidBatch, Sortable, Begun, Acting, Ingesting
<1>5. CASE Wave \/ BatchSettled
  BY <1>2, <1>5 DEF Wave, BatchSettled, Begun, Acting, Ingesting
<1>6. CASE Gate \/ ExecutorReturns \/ Ingest \/ Outage
  BY <1>2, <1>6, ItemSteps DEF ItemsStill, Moves, Dispatch, Begun, Acting, Ingesting
<1>7. CASE Others \/ Returned \/ UNCHANGED vars
  BY <1>2, <1>7 DEF Others, Returned, vars, local
<1> QED
  BY <1>1, <1>3, <1>4, <1>5, <1>6, <1>7 DEF Next, Run, Preflight

(* so a wave is never empty.                                                 *)
LEMMA WaveFound ==
  ASSUME TypeInv, Ordered, Sortable, pc = "WAVE", In(work, "PENDING") # {}
  PROVE  Planned # {}
<1> DEFINE S == In(work, "PENDING")
<1>1. S \in SUBSET DOMAIN turn.items
  BY DEF In, TypeInv, Placed
<1>2. DependenciesKnown(turn.items) /\ Acyclic(turn.items)
  BY DEF Sortable, Begun
<1>3. PICK k \in S : turn.items[k].deps \cap S = {}
  BY <1>1, <1>2 DEF Acyclic
<1>4. ASSUME NEW d \in turn.items[k].deps PROVE work[d] \in Settled
  <2>1. d \in DOMAIN turn.items
    BY <1>1, <1>2, <1>3 DEF DependenciesKnown
  <2>2. d \in WorkIds /\ work[d] \in ItemStates
    BY <2>1, ItemTyped DEF TypeInv, TypeOK, TurnTypeOK
  <2>3. work[d] \notin {"ABSENT", "READY", "RETURNED"}
    BY <2>1, <2>2 DEF Ordered, Begun, In
  <2>4. work[d] # "PENDING"
    BY <1>3, <2>2 DEF In
  <2> QED
    BY <2>2, <2>3, <2>4 DEF ItemStates, Settled
<1>5. k \in Planned
  BY <1>3, <1>4 DEF Planned, Deps
<1> QED
  BY <1>5

-----------------------------------------------------------------------------
(* A step of the run that makes no model call goes on to the end of the turn *)
(* and of the run,                                                           *)
TurnOn == TurnLeft' < TurnLeft

(* or takes the items of the turn further.                                   *)
ItemOn == /\ TurnLeft' = TurnLeft
          /\ \/ Unsettled' < Unsettled
             \/ Unsettled' = Unsettled /\ ItemLeft' < ItemLeft

LEMMA StillOn ==
  ASSUME UNCHANGED work, pc \in DOMAIN ItemWay, pc' \in DOMAIN ItemWay,
         ItemWay[pc'] < ItemWay[pc]
  PROVE  ItemOn
<1>1. Unsettled' = Unsettled
  BY DEF Unsettled, Among
<1> QED
  BY <1>1 DEF ItemOn, TurnLeft, ItemLeft

LEMMA MovesOn ==
  ASSUME TypeInv,
         \/ pc \in Acting /\ Moves({"RETURNED", "FAILED"})
         \/ pc \in Ingesting /\ Moves({"COMPLETED", "FAILED"})
  PROVE  ItemOn
<1>1. PICK st \in {"RETURNED", "COMPLETED", "FAILED"} :
        /\ Proceed([work EXCEPT ![current] = st])
        /\ pc \in Ingesting => st # "RETURNED"
  BY DEF Moves, Acting, Ingesting
<1>2. work \in [WorkIds -> ItemStates] /\ current \in WorkIds
      /\ (pc \in Acting => work[current] = "READY")
      /\ (pc \in Ingesting => work[current] = "RETURNED")
  BY CurrentItem DEF TypeInv, TypeOK, TurnTypeOK
<1>3. /\ work' = [work EXCEPT ![current] = st]
      /\ pc' \in {"AUTHORIZE", "VERIFY", "WAVE"}
  BY <1>1 DEF Proceed
<1>4. Unsettled' < Unsettled
  <2>1. \A k \in WorkIds : work'[k] = IF k = current THEN st ELSE work[k]
    BY <1>2, <1>3
  <2> QED
    BY <1>1, <1>2, <2>1, UnsettledFalls
<1>5. TurnLeft' = 10 /\ TurnLeft = 10
  BY <1>3 DEF TurnLeft, ItemWay, Acting, Ingesting
<1> QED
  BY <1>4, <1>5 DEF ItemOn

LEMMA WaveOn ==
  ASSUME TypeInv, Ordered, Sortable, Wave
  PROVE  ItemOn
<1>1. /\ pc = "WAVE" /\ In(work, "PENDING") # {}
      /\ pc' \in {"AUTHORIZE", "VERIFY", "WAVE"}
      /\ work' = [k \in WorkIds |-> IF k \in Skipped THEN "SKIPPED_DEPENDENCY"
                                    ELSE IF k \in Planned THEN "READY" ELSE work[k]]
  BY DEF Wave, Proceed
<1>2. PICK x \in Planned : TRUE
  BY <1>1, WaveFound
<1>3. Planned \subseteq In(work, "PENDING") /\ Skipped \subseteq Planned
  BY DEF Planned, Skipped
<1>4. Unsettled' < Unsettled
  <2>1. x \in WorkIds /\ work[x] = "PENDING" /\ work'[x] # "PENDING"
    BY <1>1, <1>2, <1>3 DEF In
  <2>2. \A k \in WorkIds :
          \/ work'[k] = work[k]
          \/ work[k] = "PENDING" /\ work'[k] \in {"READY", "SKIPPED_DEPENDENCY"}
    BY <1>1, <1>3 DEF In
  <2> QED
    BY <2>1, <2>2, UnsettledFalls
<1>5. TurnLeft' = 10 /\ TurnLeft = 10
  BY <1>1 DEF TurnLeft, ItemWay
<1> QED
  BY <1>4, <1>5 DEF ItemOn

LEMMA LoopOn ==
  ASSUME "PROJECTION" \notin Faults,
         Start \/ LoopHead \/ Project \/ ModelTurn \/ Finish \/ Conclude
  PROVE  TurnOn
<1>1. CASE Start \/ LoopHead \/ Project
  <2>1. <<pc, pc'>> \in {<<"TASK", "PERSIST">>, <<"TASK", "HEAD">>, <<"HEAD", "PERSIST">>,
                         <<"HEAD", "PROJECT">>, <<"PROJECT", "PROJECTED">>}
    BY <1>1 DEF Start, LoopHead, Project
  <2> QED
    BY <2>1 DEF TurnOn, TurnLeft, TurnWay, ItemWay
<1>2. CASE TurnAccepted
  <2>1. pc = "GENERATE" /\ pc' \in {"HEAD", "TOOL", "BATCH", "FINISH"}
    BY <1>2, CoordinatorAssumption DEF TurnAccepted, CoordinatorAssumption, Route
  <2> QED
    BY <2>1 DEF TurnOn, TurnLeft, TurnWay, ItemWay
<1>3. CASE TurnFails \/ TurnDenied \/ UpdateRejected
  <2>1. pc = "GENERATE" /\ pc' \in {"HEAD", "PERSIST"}
    BY <1>3 DEF TurnFails, TurnDenied, UpdateRejected, DenyTurn, FailRun
  <2> QED
    BY <2>1 DEF TurnOn, TurnLeft, TurnWay, ItemWay
<1>4. CASE Finish
  <2>1. pc = "FINISH" /\ pc' \in {"HEAD", "PERSIST"}
    BY <1>4 DEF Finish, FinishAccepted, FinishDenied, FinishRaises, DenyTurn, FailRun
  <2> QED
    BY <2>1 DEF TurnOn, TurnLeft, TurnWay, ItemWay
<1>5. CASE Conclude
  BY <1>5 DEF Conclude, Persist, PriorStatus, Transition, TransitionMisbehaves,
     TransitionRaises, Observe, Confirm, Report, TurnOn, TurnLeft, TurnWay, ItemWay
<1> QED
  BY <1>1, <1>2, <1>3, <1>4, <1>5 DEF ModelTurn

LEMMA PreflightOn ==
  ASSUME TypeInv, Ordered, Sortable, Preflight
  PROVE  TurnOn \/ ItemOn
<1>1. CASE PreflightTool \/ PreflightBatch
  <2>1. pc \in {"TOOL", "BATCH"} /\ pc' \in {"HEAD", "AUTHORIZE", "WAVE"}
    BY <1>1 DEF PreflightTool, PreflightBatch, DenyTurn
  <2> QED
    BY <2>1 DEF TurnOn, TurnLeft, TurnWay, ItemWay
<1>2. CASE BatchSettled
  BY <1>2 DEF BatchSettled, TurnOn, TurnLeft, TurnWay, ItemWay
<1> QED
  BY <1>1, <1>2, WaveOn DEF Preflight

LEMMA ItemsOn ==
  ASSUME TypeInv, Gate \/ ExecutorReturns \/ Ingest \/ Outage
  PROVE  TurnOn \/ ItemOn
<1>1. CASE pc' = "PERSIST" /\ pc \in {"PROJECTED", "GENERATE", "FINISH"} \cup DOMAIN ItemWay
  BY <1>1 DEF TurnOn, TurnLeft, TurnWay, ItemWay
<1>2. CASE pc' \in {"RAISED", "REPORT"} /\ pc # "DONE" /\ pc # "RAISED" /\ pc # pc'
  BY <1>2 DEF TurnOn, TurnLeft, TurnWay, ItemWay, TypeInv, TypeOK, RunTypeOK, Locations
<1>3. CASE UNCHANGED work /\ <<pc, pc'>> \in {<<"AUTHORIZE", "BIND">>, <<"BIND", "RECHECK">>,
             <<"RECHECK", "DISPATCH">>, <<"DISPATCH", "EXECUTING">>, <<"VERIFY", "REVERIFY">>,
             <<"REVERIFY", "APPLY">>, <<"APPLY", "SETTLE">>}
  BY <1>3, StillOn DEF ItemWay
<1>4. CASE pc \in Acting /\ Moves({"RETURNED", "FAILED"})
  BY <1>4, MovesOn
<1>5. CASE pc \in Ingesting /\ Moves({"COMPLETED", "FAILED"})
  BY <1>5, MovesOn
<1>6. CASE Gate
  BY <1>3, <1>4, <1>6 DEF Gate, Authorize, Bind, BindDenied, Recheck, Dispatch, DispatchDenied,
     DenyItem, Moves, Acting, batchVars
<1>7. CASE ExecutorReturns
  BY <1>1, <1>4, <1>7 DEF ExecutorReturns, FailRun, DenyItem, Moves, Acting, ItemWay
<1>8. CASE Ingest
  BY <1>1, <1>3, <1>5, <1>8 DEF Ingest, VerifyResult, ResultRejected, VerifyRevision, Apply,
     ApplyRejected, Settle, EndIngest, FailRun, Moves, Ingesting, ItemWay, batchVars
<1>9. CASE Outage
  BY <1>1, <1>2, <1>4, <1>5, <1>9 DEF Outage, RunRaises, AccessFailsRun, AccessDeniesItem,
     AccessRejectsResult, AccessHidesTransition, FailRun, DenyItem, EndIngest, Moves, Acting,
     Ingesting, ItemWay
<1> QED
  BY <1>6, <1>7, <1>8, <1>9

LEMMA RunGoesOn ==
  ASSUME TypeInv, ClaimInv, Ordered, Sortable, Run, "PROJECTION" \notin Faults
  PROVE  \/ CallsLeft' < CallsLeft
         \/ CallsLeft' = CallsLeft /\ Disturbances' < Disturbances
         \/ CallsLeft' = CallsLeft /\ Disturbances' <= Disturbances /\ (TurnOn \/ ItemOn)
<1>0. used["model_calls"] \in Nat /\ Quota["model_calls"] \in Nat
      /\ used \in [DOMAIN Quota -> Nat] /\ "model_calls" \in DOMAIN Quota
  BY QuotaTyped
<1>1. CASE Projected
  <2>1. CASE projected # storeRevision
    <3>1. UNCHANGED used
      BY <1>1, <2>1 DEF Projected
    <3> QED
      BY <1>1, <2>1, <3>1, RunDisturbs DEF CallsLeft, Remaining
  <2>2. CASE projected = storeRevision
    <3>1. used'["model_calls"] = used["model_calls"] + 1
      BY <1>0, <1>1, <2>2 DEF Projected, Charge
    <3> QED
      BY <1>0, <3>1 DEF CallsLeft, Remaining
  <2> QED
    BY <2>1, <2>2
<1>2. CASE ~Projected
  <2>1. CallsLeft' = CallsLeft
    BY <1>2, CallsStill DEF CallsLeft, Remaining
  <2>2. TurnOn \/ ItemOn
    BY <1>2, LoopOn, PreflightOn, ItemsOn DEF Run
  <2> QED
    BY <2>1, <2>2, RunDisturbs
<1> QED
  BY <1>1, <1>2

(* What the components range over once no counter is beyond its quota.       *)
Measures == {m \in [1 .. 5 -> Int] : \A i \in 1 .. 5 : m[i] >= 0}
Measured == Left \in Measures

LEMMA LeftMeasured ==
  ASSUME TypeInv, BudgetInv
  PROVE  Measured
<1>1. CallsLeft \in Nat
  <2>1. used["model_calls"] <= Quota["model_calls"]
    BY QuotaTyped DEF BudgetInv, BudgetRespected
  <2> QED
    BY <2>1, QuotaTyped DEF CallsLeft, Remaining
<1>2. LeftInts
  BY LeftTyped
<1>3. Left = <<CallsLeft, Disturbances, TurnLeft, Unsettled, ItemLeft>>
  BY DEF Left, CallsLeft
<1>4. \A i \in 1 .. 5 : Left[i] \in Nat
  BY <1>1, <1>2, <1>3 DEF LeftInts
<1>5. Left \in [1 .. 5 -> Int]
  <2>1. Left = [i \in 1 .. 5 |-> Left[i]]
    BY <1>3
  <2> QED
    BY <1>4, <2>1
<1> QED
  BY <1>4, <1>5 DEF Measures, Measured

LEMMA BelowAsymmetric ==
  ASSUME NEW a \in [1 .. 5 -> Int], NEW b \in [1 .. 5 -> Int], Below(a, b)
  PROVE  ~Below(b, a)
<1>1. PICK i \in 1 .. 5 : a[i] < b[i] /\ \A j \in 1 .. (i - 1) : a[j] = b[j]
  BY DEF Below
<1>2. ASSUME NEW h \in 1 .. 5, b[h] < a[h], \A j \in 1 .. (h - 1) : b[j] = a[j] PROVE FALSE
  <2>1. a[i] \in Int /\ b[i] \in Int /\ a[h] \in Int /\ b[h] \in Int
    OBVIOUS
  <2>2. CASE i < h
    BY <1>1, <1>2, <2>1, <2>2
  <2>3. CASE h < i
    BY <1>1, <1>2, <2>1, <2>3
  <2>4. CASE h = i
    BY <1>1, <1>2, <2>1, <2>4
  <2> QED
    BY <2>2, <2>3, <2>4
<1> QED
  BY <1>2 DEF Below

(* Among any measures, some have the least value at a place,                 *)
LEMMA LeastAt ==
  ASSUME NEW T \in SUBSET Measures, T # {}, NEW i \in 1 .. 5
  PROVE  \E U \in SUBSET T : /\ U # {}
                             /\ \A u \in U : \A t \in T : ~(t[i] < u[i])
                             /\ \A u \in U : \A t \in T : t[i] = u[i] => t \in U
<1> DEFINE values == {t[i] : t \in T}
<1>1. values \subseteq Nat /\ values # {}
  BY DEF Measures
<1>2. Least(values) \in values /\ \A v \in values : Least(values) <= v
  <2> HIDE DEF values
  <2> QED
    BY <1>1, LeastExists
<1> DEFINE U == {t \in T : t[i] = Least(values)}
<1>3. U # {}
  BY <1>2
<1>4. \A t \in T : Least(values) <= t[i] /\ t[i] \in Nat /\ Least(values) \in Nat
  <2>1. \A t \in T : t[i] \in values
    OBVIOUS
  <2> HIDE DEF values
  <2> QED
    BY <1>1, <1>2, <2>1
<1> HIDE DEF values
<1>5. \A u \in U : \A t \in T : ~(t[i] < u[i])
  BY <1>4
<1> QED
  BY <1>3, <1>5

(* so there is one that no other is below: no run can lower them for ever.   *)
LEMMA MeasuresWellFounded ==
  ASSUME NEW T \in SUBSET Measures, T # {}
  PROVE  \E m \in T : \A t \in T : ~Below(t, m)
<1> DEFINE Lowest(S, U, i) == /\ \A u \in U : \A t \in S : ~(t[i] < u[i])
                              /\ \A u \in U : \A t \in S : t[i] = u[i] => t \in U
<1>0. ASSUME NEW S \in SUBSET Measures, S # {}, NEW i \in 1 .. 5
      PROVE  \E U \in SUBSET S : U # {} /\ U \in SUBSET Measures /\ Lowest(S, U, i)
  <2>1. PICK U \in SUBSET S : U # {} /\ Lowest(S, U, i)
    BY <1>0, LeastAt
  <2> QED
    BY <2>1
<1>10. 1 \in 1 .. 5 /\ 2 \in 1 .. 5 /\ 3 \in 1 .. 5 /\ 4 \in 1 .. 5 /\ 5 \in 1 .. 5
  OBVIOUS
<1>1. PICK A \in SUBSET T : A # {} /\ A \in SUBSET Measures /\ Lowest(T, A, 1)
  <2> HIDE DEF Lowest
  <2> QED
    BY <1>0, <1>10, Zenon
<1>2. PICK B \in SUBSET A : B # {} /\ B \in SUBSET Measures /\ Lowest(A, B, 2)
  <2> HIDE DEF Lowest
  <2> QED
    BY <1>0, <1>1, <1>10, Zenon
<1>3. PICK C \in SUBSET B : C # {} /\ C \in SUBSET Measures /\ Lowest(B, C, 3)
  <2> HIDE DEF Lowest
  <2> QED
    BY <1>0, <1>2, <1>10, Zenon
<1>4. PICK D \in SUBSET C : D # {} /\ D \in SUBSET Measures /\ Lowest(C, D, 4)
  <2> HIDE DEF Lowest
  <2> QED
    BY <1>0, <1>3, <1>10, Zenon
<1>5. PICK E \in SUBSET D : E # {} /\ Lowest(D, E, 5)
  <2> HIDE DEF Lowest
  <2> QED
    BY <1>0, <1>4, <1>10, Zenon
<1>6. PICK m \in E : TRUE
  BY <1>5
<1>7. m \in A /\ m \in B /\ m \in C /\ m \in D /\ m \in T
  BY <1>1, <1>2, <1>3, <1>4, <1>5, <1>6
<1>8. ASSUME NEW t \in T, NEW i \in 1 .. 5, t[i] < m[i], \A j \in 1 .. (i - 1) : t[j] = m[j]
      PROVE  FALSE
  <2>1. i > 1 => t \in A
    BY <1>1, <1>7, <1>8
  <2>2. i > 2 => t \in B
    BY <1>2, <1>7, <1>8, <2>1
  <2>3. i > 3 => t \in C
    BY <1>3, <1>7, <1>8, <2>2
  <2>4. i > 4 => t \in D
    BY <1>4, <1>7, <1>8, <2>3
  <2>5. CASE i = 1
    BY <1>1, <1>7, <1>8, <2>5
  <2>6. CASE i = 2
    BY <1>2, <1>7, <1>8, <2>1, <2>6
  <2>7. CASE i = 3
    BY <1>3, <1>7, <1>8, <2>2, <2>7
  <2>8. CASE i = 4
    BY <1>4, <1>7, <1>8, <2>3, <2>8
  <2>9. CASE i = 5
    BY <1>5, <1>6, <1>8, <2>4, <2>9
  <2> QED
    BY <2>5, <2>6, <2>7, <2>8, <2>9
<1>9. \A t \in T : ~Below(t, m)
  <2>1. m \in [1 .. 5 -> Int]
    BY <1>7 DEF Measures
  <2> QED
    BY <1>8, <2>1 DEF Below
<1> QED
  BY <1>7, <1>9

ProgressInv == TypeInv /\ BudgetInv /\ ClaimInv /\ Chosen /\ Ordered /\ Sortable

LEMMA ProgressInit == Init => ProgressInv
  BY TypeInit, BudgetInit, ClaimInit, OrderedInit
  DEF ProgressInv, Init, Sortable, Begun, Acting, Ingesting

LEMMA ProgressStep == ProgressInv /\ [Next]_vars => ProgressInv'
  BY TypeStep, BudgetStep, ClaimStep, ChosenStep, OrderedStep, SortableStep DEF ProgressInv

(* Neither the turn loop nor the wave loop nor a denial can go round without *)
(* using something up, for any batches, quotas, hooks and faults except a    *)
(* faulty projection: every step of the run lowers the measure, no step of   *)
(* another actor raises it (run, _project, _batch, _execute, _ingest),       *)
THEOREM RunAdvancesThm == Spec => RunAdvances
<1> DEFINE Advance == "PROJECTION" \notin Faults =>
                        IF UNCHANGED local THEN ~Below(Left, Left') ELSE Below(Left', Left)
<1>0. ProgressInv => Measured
  BY LeftMeasured DEF ProgressInv
<1>1. ProgressInv' => Measured'
  BY <1>0, PTL
<1>2. ProgressInv /\ ProgressInv' /\ [Next]_vars => [Advance]_vars
  <2> SUFFICES ASSUME ProgressInv, ProgressInv', Next, vars' # vars, "PROJECTION" \notin Faults
               PROVE  IF UNCHANGED local THEN ~Below(Left, Left') ELSE Below(Left', Left)
    OBVIOUS
  <2>1. CASE Run
    <3>1. Below(Left', Left)
      BY <2>1, RunGoesOn, Lessens DEF ProgressInv, TurnOn, ItemOn
    <3> QED
      BY <1>0, <1>1, <3>1, BelowAsymmetric DEF Measured, Measures
  <2>2. CASE Others
    <3>1. UNCHANGED local
      BY <2>2 DEF Others
    <3> QED
      BY <2>2, <3>1, OthersLessen DEF ProgressInv
  <2> QED
    BY <2>1, <2>2 DEF Next, Returned
<1> QED
  BY <1>2, ProgressInit, ProgressStep, PTL DEF Spec, RunAdvances

(* and the measure stays where there is no way down for ever                 *)
(* (MeasuresWellFounded), because no call is made beyond its quota.          *)
THEOREM MeasuredThm == Spec => []Measured
<1>1. TypeInv /\ BudgetInv => Measured
  BY LeftMeasured
<1> QED
  BY <1>1, BudgetInit, BudgetStep, TypeInvThm, PTL DEF Spec
=============================================================================
