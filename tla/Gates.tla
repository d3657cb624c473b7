-------------------------------- MODULE Gates --------------------------------
(***************************************************************************)
(* The deterministic pre-execution gates: what GatePipeline admits, what   *)
(* it reserves, and how a result's actual use is reconciled.  The pipeline *)
(* is stateless, so it is a module of operators over the trusted           *)
(* configuration (constants) and the run state (parameters).  Each stage   *)
(* is a predicate that is TRUE exactly when the stage does not deny.       *)
(*                                                                         *)
(* A draw is a function from the dimensions it names to naturals (the code *)
(* has floats; only order, sum and zero matter).                           *)
(***************************************************************************)
EXTENDS Authority, Integers, FiniteSets

CONSTANTS Extra,         \* dimension names beyond the standard counters
          Quota,         \* task.budget, standard counters and extra_dimensions
          Specs,         \* registered ToolSpecs by tool name
          AllowedTools,  \* task.allowed_tools
          Policy,        \* the effective GatePolicy; tools: what its chain allows
          Undelegated,   \* a child task under a policy that has no parent
          Hooks,         \* the trusted hooks the application supplied
          Answers        \* what the reservation resolver may answer

Dimensions == Standard \cup Extra
IsDraw(f) == DOMAIN f \subseteq Dimensions /\ f \in [DOMAIN f -> Nat]
NoDraw == [d \in {} |-> 0]

ExecutionHooks == {"gate", "executor", "verifier", "ingestor"}
HookNames == ExecutionHooks \cup {"approval", "reference_guard", "resolver"}

(* A ToolSpec.  schemas: both schemas are in the supported subset.  exact,   *)
(* dynamic: the numeric and the string entries of declared_budget_draw.      *)
(* caps: max_budget_draw.  isolated: isolation_guarantee names an isolation. *)
IsToolSpec(s) ==
  /\ s.cls \in Classes /\ s.schemas \in BOOLEAN /\ s.isolated \in BOOLEAN
  /\ IsDraw(s.exact) /\ IsDraw(s.caps)
  /\ s.dynamic \subseteq Dimensions \ DOMAIN s.exact

ASSUME GatesAssumption ==
  /\ IsFiniteSet(Extra) /\ Extra \cap Standard = {}
  /\ Standard \subseteq DOMAIN Quota /\ DOMAIN Quota \subseteq Dimensions
  /\ Quota \in [DOMAIN Quota -> Nat]
  /\ \A t \in DOMAIN Specs : IsToolSpec(Specs[t])
  /\ ValidPolicy(Policy)
  /\ Hooks \subseteq HookNames
  /\ \A a \in Answers : IsDraw(a)
  /\ NoDraw \in Answers

-----------------------------------------------------------------------------
(* A mutation of G0: a citation needs to be visible, but not known.         *)
G0OfVisible(request, known) ==
  /\ request.tool \in DOMAIN Specs
  /\ Specs[request.tool].schemas
  /\ request.valid
  /\ \A ref \in request.refs : ref.vis = "AGENT"

(* G0: the request parses, and every reference it cites is a known           *)
(* Agent-visible reference of this run, envelope for envelope.               *)
G0(request, known) ==
  /\ request.tool \in DOMAIN Specs
  /\ Specs[request.tool].schemas
  /\ request.valid
  /\ \A ref \in request.refs : ref.vis = "AGENT" /\ ref \in known

(* G1: the intersection of the task's permissions and the policy's grants.   *)
G1(request) ==
  LET spec == Specs[request.tool] IN
  /\ request.tool \in AllowedTools /\ request.tool \in Policy.tools
  /\ ~Undelegated
  /\ spec.cls \in Policy.classes
  /\ spec.tags \subseteq Policy.tags

-----------------------------------------------------------------------------
(* G2 sizing.  A string or absent declaration reserves the maximum and is    *)
(* unreservable without one; a tool may not name a standard counter.         *)
Declares(spec) == DOMAIN spec.exact \cup spec.dynamic \cup DOMAIN spec.caps

Sizeable(spec) ==
  /\ Declares(spec) \cap Standard = {}
  /\ spec.dynamic \subseteq DOMAIN spec.caps
  /\ \A d \in DOMAIN spec.exact \cap DOMAIN spec.caps : spec.exact[d] <= spec.caps[d]

Reservation(spec) ==
  [d \in Declares(spec) |-> IF d \in DOMAIN spec.exact THEN spec.exact[d] ELSE spec.caps[d]]

(* The resolver may refine dynamic dimensions only, never above the maximum. *)
(* A resolver that raises or answers no mapping is, like every answer that   *)
(* is not resolvable, a denial.                                              *)
Resolvable(spec, answer) ==
  /\ DOMAIN answer \subseteq spec.dynamic
  /\ \A d \in DOMAIN answer : answer[d] <= spec.caps[d]

(* The resolver is consulted only when it exists and has something to size.  *)
Consults(spec) == "resolver" \in Hooks /\ spec.dynamic # {}

(* bound is the set of dimensions whose origin is REQUEST_BOUND.             *)
Resolve(spec, answer) ==
  [draw  |-> [d \in Declares(spec) |-> IF d \in DOMAIN answer THEN answer[d]
                                                             ELSE Reservation(spec)[d]],
   bound |-> DOMAIN answer]

NoSizing == [draw |-> NoDraw, bound |-> {}]

(* Every sizing the tool may get now; none means sizing denies.  A resolver  *)
(* is a consumer hook, so two consultations may well differ.                 *)
SizingsOf(spec) ==
  LET answers == IF Consults(spec) THEN {a \in Answers : Resolvable(spec, a)} ELSE {NoDraw}
  IN  IF Sizeable(spec) THEN {Resolve(spec, answer) : answer \in answers} ELSE {}

ResolverMayRefuse(spec) == Consults(spec) /\ \E a \in Answers : ~Resolvable(spec, a)

(* static_check: G0, then G1, then the sizing of G2.                         *)
StaticCheck(request, known) ==
  IF G0(request, known) /\ G1(request) THEN SizingsOf(Specs[request.tool]) ELSE {}

-----------------------------------------------------------------------------
(* G2 quota: calls tool calls and steps, and every dimension of the draw,    *)
(* fit what is left.  An unconfigured dimension has minus infinity left.     *)
Remaining(used, d) == Quota[d] - used[d]

(* Mutated: the steps of the calls are forgotten.                            *)
CheckBudgetNoSteps(calls, draw, used) ==
  /\ calls <= Remaining(used, "tool_calls")
  /\ \A d \in DOMAIN draw : d \in DOMAIN Quota /\ draw[d] <= Remaining(used, d)

CheckBudget(calls, draw, used) ==
  /\ calls <= Remaining(used, "tool_calls")
  /\ calls <= Remaining(used, "steps")
  /\ \A d \in DOMAIN draw : d \in DOMAIN Quota /\ draw[d] <= Remaining(used, d)

(* G3, on a reservation that passed the quota check.                         *)
CheckSideEffect(spec, draw) ==
  /\ spec.cls # "ADMIN"
  /\ Declares(spec) \cap Policy.simulation # {} => spec.cls = "SIMULATE"
  /\ spec.cls = "SIMULATE" =>
       /\ spec.isolated
       /\ \E d \in DOMAIN draw \cap Policy.simulation : draw[d] > 0
  /\ spec.cls \in {"SIMULATE", "PROPOSE", "MUTATE"} => "reference_guard" \in Hooks

(* Mutated: only the consumer can require an approval, not the policy.       *)
NeedsApprovalIfAsked(spec, asked) == asked

NeedsApproval(spec, asked) == asked \/ spec.cls \in Policy.approval

-----------------------------------------------------------------------------
(* reconcile: hidden, unreported or excess use is a violation, and a         *)
(* violating result pays at least its reservation in every dimension.        *)
Violates(reserved, actual) ==
  \/ \E d \in DOMAIN actual : \/ d \in Standard
                              \/ d \notin DOMAIN reserved /\ actual[d] > 0
  \/ \E d \in DOMAIN reserved : \/ d \notin DOMAIN actual
                                \/ actual[d] > reserved[d]

Amount(draw, d) == IF d \in DOMAIN draw THEN draw[d] ELSE 0

Charged(reserved, actual, d) ==
  IF d \in Standard THEN 0
  ELSE IF Violates(reserved, actual) /\ Amount(reserved, d) > Amount(actual, d)
       THEN Amount(reserved, d)
       ELSE Amount(actual, d)

(* Mutated: what was reserved and not used is given back, though a           *)
(* reservation is never charged in advance.                                  *)
ReconcileRefund(used, reserved, actual) ==
  [d \in DOMAIN used |-> used[d] + Charged(reserved, actual, d) - Amount(reserved, d)]

(* The usage after the charge; dimensions without a quota are not counted.   *)
Reconcile(used, reserved, actual) ==
  [d \in DOMAIN used |-> used[d] + Charged(reserved, actual, d)]
=============================================================================
