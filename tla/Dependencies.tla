----------------------------- MODULE Dependencies -----------------------------
(***************************************************************************)
(* What the dependencies of a WorkBatch mean.  items is a function from    *)
(* work ids to work items; items[k].deps is the set of ids that the item   *)
(* depends on.                                                             *)
(***************************************************************************)

(* Mutated: only an item that waits for itself is found.                     *)
AcyclicItems(items) == \A k \in DOMAIN items : k \notin items[k].deps

(* Among any items, some item waits for none of them: what the dependency    *)
(* loop of _validate_batch admits (WorkGraph shows that it does).            *)
Acyclic(items) ==
  \A S \in SUBSET DOMAIN items :
    S # {} => \E k \in S : items[k].deps \cap S = {}

(* No item depends on an id that is not in the batch.                        *)
DependenciesKnown(items) == \A k \in DOMAIN items : items[k].deps \subseteq DOMAIN items
=============================================================================
