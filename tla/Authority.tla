------------------------------ MODULE Authority ------------------------------
(***************************************************************************)
(* The vocabulary of execution authority that GatePolicy and GatePipeline  *)
(* share.                                                                  *)
(***************************************************************************)

(* The counters every budget has.                                            *)
Standard == {"model_calls", "tool_calls", "subagents", "steps"}

Classes == {"READ", "COMPUTE", "SIMULATE", "PROPOSE", "MUTATE", "ADMIN"}

(* __post_init__, whatever the parent: ADMIN is never granted, MUTATE always *)
(* needs approval, and simulation dimensions are extra.                      *)
ValidPolicy(p) ==
  /\ p.classes \subseteq Classes \ {"ADMIN"}
  /\ "MUTATE" \in p.approval
  /\ p.approval \subseteq Classes
  /\ p.simulation \cap Standard = {}
=============================================================================
