---------------------------- MODULE MCCoordinator ----------------------------
(***************************************************************************)
(* Small instances of Coordinator.  The configurations choose among these  *)
(* definitions; every bound is here or in a configuration.                 *)
EXTENDS CoordinatorContract

(* A citable and a hidden context reference, two more context references     *)
(* with the id of the first, two references results may bring, and an        *)
(* envelope that impersonates the hidden one.                                *)
Ref(i, v, b) == [id |-> i, vis |-> v, body |-> b]
ctx    == Ref(1, "AGENT", "ctx")
hidden == Ref(2, "INTERNAL", "hidden")
old    == Ref(1, "AGENT", "old")
shadow == Ref(1, "INTERNAL", "shadow")
fresh  == Ref(3, "AGENT", "fresh")
forged == Ref(2, "AGENT", "forged")
rival  == Ref(3, "AGENT", "rival")

MCRefs        == {ctx, hidden, old, shadow, fresh, forged, rival}
MCContextRefs == <<old, ctx, hidden, shadow>>

Of(d, n) == [x \in {d} |-> n]
Tool(c, exact, dynamic, caps) ==
  [cls |-> c, tags |-> {}, schemas |-> TRUE, exact |-> exact, dynamic |-> dynamic,
   caps |-> caps, isolated |-> TRUE]

Read  == Tool("READ", NoDraw, {}, NoDraw)
Sim   == Tool("SIMULATE", NoDraw, {"rollouts"}, Of("rollouts", 2))
Write == Tool("MUTATE", NoDraw, {}, NoDraw)

ReadAndSim   == [read |-> Read, sim |-> Sim]
ReadAndWrite == [read |-> Read, write |-> Write]
AllTools     == [read |-> Read, sim |-> Sim, write |-> Write]
OnlyWrite    == [write |-> Write]

MCPolicy ==
  [classes |-> {"READ", "COMPUTE", "SIMULATE", "MUTATE"}, tags |-> {},
   simulation |-> {"rollouts"}, approval |-> {"MUTATE"}, tools |-> {"read", "sim", "write"}]

Budget(models, tools, steps, rollouts) ==
  [model_calls |-> models, tool_calls |-> tools, subagents |-> 0, steps |-> steps,
   rollouts |-> rollouts]

Budget1 == Budget(1, 1, 2, 1)
Budget2 == Budget(2, 2, 3, 2)
Budget3 == Budget(2, 3, 4, 2)

(* Resolver answers: none of its business, one rollout, and an excess.       *)
SoundAnswers == {NoDraw, Of("rollouts", 1)}
AllAnswers   == SoundAnswers \cup {Of("rollouts", 3)}

-----------------------------------------------------------------------------
Ask(i, t, rs)      == [id |-> i, tool |-> t, valid |-> TRUE, refs |-> rs]
Item(req, deps)    == [request |-> req, deps |-> deps, ask |-> NoDraw, plain |-> TRUE]
Call(req)          == [NoTurn EXCEPT !.action = "TOOL_REQUEST",
                                     !.items = [k \in {1} |-> Item(req, {})]]
Batch(items)       == [NoTurn EXCEPT !.action = "WORK_BATCH", !.items = items]
Finishing(rs)      == [NoTurn EXCEPT !.action = "FINISH_PROPOSAL", !.refs = rs]

Pair == [k \in 1..2 |-> Item(Ask(k, "read", {}), {})]

ToolTurns == {NoTurn,
              Call(Ask(1, "read", {ctx})), Call(Ask(2, "sim", {fresh})),
              Call(Ask(3, "read", {hidden})), Batch(Pair), Finishing(<<fresh>>)}

WriteTurns == {Call(Ask(1, "write", {})), Call(Ask(2, "read", {ctx})), Finishing(<<ctx>>)}

Chain   == [k \in 1..3 |-> Item(Ask(k, "read", {}), 1..3 \cap {k - 1})]
Join    == [k \in 1..3 |-> Item(Ask(k, "read", {}), IF k = 3 THEN {1, 2} ELSE {})]
Mixed   == [k \in 1..3 |-> Item(Ask(k, IF k = 2 THEN "read" ELSE "sim", {}),
                                IF k = 1 THEN {2} ELSE {})]
Circle  == [k \in 1..2 |-> Item(Ask(k, "read", {}), {3 - k})]
Line    == [k \in 1..2 |-> Item(Ask(k, "read", {}), {2} \ {k})]
Twins   == [k \in 1..2 |-> Item(Ask(1, "read", {}), {})]

Solo    == [k \in {2} |-> Item(Ask(4, "sim", {}), {})]
Stray   == [k \in 1..2 |-> Item(Ask(k, "read", {}), {3})]
Greedy  == [k \in 1..2 |-> [Item(Ask(k, "read", {}), {}) EXCEPT !.ask = Of("tool_calls", 2)]]

(* Batches of three waves, of two and of one, with draws and without, and    *)
(* ones that the preflight has to refuse: a cycle, one request id twice, a   *)
(* dependency on no item, asks that only together exceed the quota, and an   *)
(* unsettled batch.                                                          *)
BatchTurns  == {Batch(b) : b \in {Chain, Join, Mixed, Solo, Pair, Circle, Twins, Stray, Greedy}}
                 \cup {[Batch(Chain) EXCEPT !.settled = FALSE]}

(* All ways out of a turn: nothing to do, a request, a line, a cycle and a   *)
(* finish.                                                                   *)
FinishTurns == {Call(Ask(1, "write", {})), Finishing(<<ctx>>)}
EndTurns    == FinishTurns \cup {NoTurn, Batch(Line), Batch(Circle)}

(* Every kind of turn, and request ids that two of them share.               *)
ContractTurns == BatchTurns \cup WriteTurns \cup {NoTurn}

-----------------------------------------------------------------------------
Outcome(k, ds, rs, actual, deltas) ==
  [kind |-> k, defect |-> ds, refs |-> rs, embedded |-> {}, actual |-> actual,
   deltas |-> deltas, reasons |-> {}]

Good(rs, actual)  == Outcome("BOUND", "NONE", rs, actual, TRUE)
Silent(rs)        == Outcome("BOUND", "NONE", rs, NoDraw, FALSE)
Leaky             == [Silent(<<>>) EXCEPT !.embedded = {hidden}]
Unreasoned        == [Good(<<>>, NoDraw) EXCEPT !.reasons = {rival}]
Broken            == [Good(<<>>, NoDraw) EXCEPT !.defect = "V2_OUTPUT_SCHEMA"]
Raised            == Outcome("RAISED", "NONE", <<>>, NoDraw, FALSE)
Misbound          == Outcome("MISBOUND", "NONE", <<>>, NoDraw, TRUE)

ReadOutcomes  == {Good(<<fresh>>, NoDraw), Silent(<<rival>>), Good(<<forged>>, NoDraw),
                  Silent(<<old>>), Raised, Misbound, Leaky, Unreasoned, Broken}
SimOutcomes   == {Good(<<>>, Of("rollouts", n)) : n \in {1, 2, 3}} \cup {Good(<<>>, NoDraw)}
WriteOutcomes == {Good(<<>>, NoDraw), Raised}

MCOutcomes   == [read |-> ReadOutcomes, sim |-> SimOutcomes, write |-> WriteOutcomes]
PlainOutcomes == [read |-> {Good(<<>>, NoDraw), Raised},
                  sim |-> {Good(<<>>, Of("rollouts", n)) : n \in {0, 1, 3}},
                  write |-> WriteOutcomes]
=============================================================================
