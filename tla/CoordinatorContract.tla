------------------------- MODULE CoordinatorContract -------------------------
(***************************************************************************)
(* How the steps of Coordinator implement the contract of a run.           *)
(***************************************************************************)
EXTENDS Coordinator

RequestIds == UNION {{t.items[k].request.id : k \in DOMAIN t.items} : t \in Turns}

Phase ==
  CASE pc \in {"GENERATE", "DISPATCH", "APPLY"}  -> "GRANTED"
    [] pc = "EXECUTING"                          -> "EXECUTING"
    [] pc \in {"PERSIST", "PRIOR", "TRANSITION"} -> "ENDING"
    [] pc \in {"OBSERVE", "CONFIRM", "REPORT"}   -> "ENDED"
    [] pc = "DONE"                               -> "RETURNED"
    [] pc = "RAISED"                             -> "RAISED"
    [] OTHER                                     -> "WORKING"

(* A transaction is a model turn from its projection on, a request from its  *)
(* authorization on, or a result or a status from the first revision read.   *)
Basis ==
  CASE pc \in {"PROJECTED", "GENERATE"}                      -> projected
    [] pc \in {"BIND", "RECHECK", "DISPATCH"}                -> frozen.state
    [] pc \in {"REVERIFY", "APPLY", "PRIOR", "TRANSITION"}   -> revision
    [] OTHER                                                 -> NoRevision

Contract == INSTANCE RunContract WITH
  Requests   <- RequestIds,
  MaxAnswers <- Quota["model_calls"],
  MaxCalls   <- Quota["tool_calls"],
  Reachable  <- "ACCESS" \notin Faults,
  phase      <- Phase,
  basis      <- Basis,
  spent      <- requestIds,
  answers    <- used["model_calls"],
  verdict    <- runStatus,
  doubt      <- "STATUS_PERSISTENCE_FAILED" \in errors

(* Over a store that keeps its protocol every run is a run of the contract:  *)
(* no effect without a revision confirmed after it was judged, no request    *)
(* executed twice or beyond the quota, no effect after the verdict, and no   *)
(* status returned that is not stored, unless the result says so (run,       *)
(* _update, _execute, _ingest, _persist_terminal_status).                    *)
ImplementsContract == Contract!Spec
=============================================================================
