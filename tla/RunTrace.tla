------------------------------- MODULE RunTrace -------------------------------
(***************************************************************************)
(* A Coordinator on its run directory: in which order a run writes events  *)
(* and has effects, what it does when a write raises, and what is left     *)
(* when the process dies at any point and another Coordinator is started   *)
(* on the same directory.  What decides among the ways a run can go is in  *)
(* Coordinator; here every way is open.  Events written one after the      *)
(* other, with no effect between them and the same way out when a write    *)
(* raises, are one event here (a GATE per stage, the marks of a batch).    *)
(***************************************************************************)
EXTENDS TraceRecorder

CONSTANTS MaxTurns,      \* model calls of a run
          MaxItems,      \* requests of a turn
          MaxRuns        \* Coordinators started on the directory

ASSUME RunAssumption == MaxTurns \in Nat /\ MaxItems \in Nat /\ Projections = 1..MaxTurns

VARIABLES pc,       \* the next event or effect of the run
          run,      \* the Coordinator at work, counted from 1
          turns,    \* model calls of the run
          tools,    \* executions of the run
          batches,  \* batches that the run applied to the store
          left,     \* requests of the turn that were not reached yet
          taken,    \* results of the wave that await ingestion
          effects   \* history: what was done outside the trace, by which run

counts == <<turns, tools, batches>>
vars   == <<traceVars, pc, run, counts, left, taken, effects>>

(* The event each location writes, where the run goes from there, and where  *)
(* it goes when the write raises.  In _execute a GATE event that cannot be   *)
(* written is a gate that cannot decide; a rejection, the failure event and  *)
(* everything after the loop are written outside every try block.            *)
Write(kind, then, raised) == [kind |-> kind, then |-> then, raised |-> raised]

Writes ==
  [TASK      |-> Write("TASK", {"LOOP", "PERSIST", "RAISED"}, "RAISED"),
   ASK       |-> Write("MODEL_TURN", {"GENERATE"}, "FAIL"),
   OUTPUT    |-> Write("MODEL_OUTPUT", {"UPDATE", "REFUSED", "ACT", "DECLINED", "FAIL"},
                      "FAIL"),
   DECLINED  |-> Write("MODEL_REJECTION", {"LOOP"}, "FAIL"),
   REFUSED   |-> Write("STATE_UPDATE_DENIED", {"LOOP"}, "FAIL"),
   UPDATED   |-> Write("STATE_UPDATE", {"ACT"}, "FAIL"),
   IDLE      |-> Write("ACTION", {"LOOP"}, "FAIL"),
   NOBATCH   |-> Write("WORK_BATCH", {"LOOP"}, "FAIL"),
   REJECT    |-> Write("MODEL_REJECTION", {"LOOP"}, "RAISED"),
   GATE      |-> Write("GATE", {"DISPATCH", "DENY"}, "DENY"),
   DENY      |-> Write("EXECUTION", {"NEXT"}, "FAIL"),
   DISPATCH  |-> Write("EXECUTE", {"EXECUTE"}, "FAIL"),
   RECONCILE |-> Write("RECONCILIATION", {"RETURN", "DENY", "FAIL"}, "FAIL"),
   RETURN    |-> Write("TOOL_RESULT", {"TAKE"}, "FAIL"),
   VERIFY    |-> Write("VERIFY_RESULT", {"INGEST", "SETTLE"}, "FAIL"),
   REPROVE   |-> Write("RESULT_REJECTED", {"SETTLE"}, "FAIL"),
   INGESTED  |-> Write("RESULT_INGESTION", {"SETTLE"}, "FAIL"),
   SKIP      |-> Write("WORK_ITEM", {"NEXT"}, "FAIL"),
   FINISH    |-> Write("VERIFY_FINISH", {"PERSIST", "REJECT", "FAIL"}, "FAIL"),
   FAIL      |-> Write("TASK_FAILURE", {"PERSIST"}, "RAISED"),
   STATUS    |-> Write("STATUS_TRANSITION", {"REPORT", "RAISED"}, "RAISED"),
   REPORT    |-> Write("TASK", {"RETURNED", "RAISED"}, "RAISED")]

(* Mutated: a trace that cannot be written is no reason to stop.             *)
RaisedIgnored(at) == CHOOSE l \in Writes[at].then : TRUE

Raised(at) == Writes[at].raised

Over == {"RETURNED", "RAISED", "DIED", "REFUSED_DIRECTORY"}

Init ==
  /\ TraceInit
  /\ pc = "START" /\ run = 1
  /\ turns = 0 /\ tools = 0 /\ batches = 0
  /\ left = 0 /\ taken = 0 /\ effects = {}

-----------------------------------------------------------------------------
(* Mutated: a file that does not decode is taken for an empty one.           *)
UnusedIfUndecoded == ~Decodes \/ Empty

(* read_events raises on what does not decode, and run() on what does.       *)
Unused == Empty

(* run(): only an unused directory.                                          *)
Start ==
  /\ pc = "START"
  /\ pc' = IF Unused THEN "TASK" ELSE "REFUSED_DIRECTORY"
  /\ UNCHANGED <<traceVars, run, counts, left, taken, effects>>

(* What an event is about: the projection of the model call it announces,    *)
(* the execution it announces, or the batch it accepts.                      *)
About(kind) ==
  CASE kind = "MODEL_TURN" -> turns + 1
    [] kind = "EXECUTE" -> tools + 1
    [] OTHER -> batches

Event(boundary) ==
  [kind |-> Writes[pc].kind, about |-> About(Writes[pc].kind), boundary |-> boundary]

Did(kind, about) == effects' = effects \cup {[run |-> run, kind |-> kind, about |-> about]}

(* _event.                                                                   *)
Record ==
  /\ pc \in DOMAIN Writes
  /\ \E boundary \in Boundaries :
       \/ AppendEvent(Event(boundary)) /\ pc' \in Writes[pc].then
       \/ AppendRaises(Event(boundary)) /\ pc' = Raised(pc)
  /\ UNCHANGED <<run, counts, left, taken, effects>>

(* The loop head ends the run or goes for another turn; a projection that    *)
(* the consumer got wrong is denied, one that raises fails the run, and so   *)
(* does its artifact.                                                        *)
Loop ==
  /\ pc = "LOOP"
  /\ \/ pc' \in {"PERSIST", "RAISED", "REJECT", "FAIL"}
     \/ turns < MaxTurns /\ pc' = "PROJECT"
  /\ UNCHANGED <<traceVars, run, counts, left, taken, effects>>

Project ==
  /\ pc = "PROJECT"
  /\ \/ PersistProjection(turns + 1) /\ pc' = "ASK"
     \/ PersistRaises(turns + 1) /\ pc' = "FAIL"
  /\ UNCHANGED <<run, counts, left, taken, effects>>

(* provider.generate, which may also raise or answer no turn.                *)
Generate ==
  /\ pc = "GENERATE"
  /\ Did("MODEL_TURN", turns + 1)
  /\ turns' = turns + 1
  /\ pc' \in {"OUTPUT", "FAIL", "REJECT"}
  /\ UNCHANGED <<traceVars, run, tools, batches, left, taken>>

(* apply_batch of a model update (_update) or of a result (_ingest): applied *)
(* and then traced, or refused by the store.                                 *)
Apply(kind, accepted, refused) ==
  /\ \/ /\ Did(kind, batches + 1)
        /\ batches' = batches + 1 /\ pc' \in accepted
     \/ pc' = refused /\ UNCHANGED <<batches, effects>>
  /\ UNCHANGED <<traceVars, run, turns, tools, left, taken>>

Update == pc = "UPDATE" /\ Apply("STATE_UPDATE", {"UPDATED"}, "REFUSED")

(* A store that then shows another revision is a violated invariant.         *)
Ingest == pc = "INGEST" /\ Apply("RESULT_INGESTION", {"INGESTED", "FAIL"}, "REPROVE")

(* A verified result without deltas is accepted without a write.             *)
IngestNothing ==
  /\ pc = "INGEST"
  /\ pc' = "INGESTED"
  /\ UNCHANGED <<traceVars, run, counts, left, taken, effects>>

-----------------------------------------------------------------------------
(* The action of an accepted turn: none, a finish, one request or a batch.   *)
Act ==
  /\ pc = "ACT"
  /\ \/ pc' \in {"IDLE", "NOBATCH", "FINISH", "REJECT", "FAIL"} /\ UNCHANGED left
     \/ pc' = "NEXT" /\ left' \in 1..MaxItems
  /\ UNCHANGED <<traceVars, run, counts, taken, effects>>

(* The next request of the wave; or, when those that are left wait for what  *)
(* was taken, the results; or the next turn.                                 *)
NextItem ==
  /\ pc = "NEXT"
  /\ \/ left > 0 /\ left' = left - 1 /\ pc' \in {"GATE", "DENY", "SKIP"}
     \/ taken > 0 /\ pc' = "VERIFY" /\ UNCHANGED left
     \/ left = 0 /\ taken = 0 /\ pc' = "LOOP" /\ UNCHANGED left
  /\ UNCHANGED <<traceVars, run, counts, taken, effects>>

Execute ==
  /\ pc = "EXECUTE"
  /\ Did("EXECUTE", tools + 1)
  /\ tools' = tools + 1 /\ pc' = "RECONCILE"
  /\ UNCHANGED <<traceVars, run, turns, batches, left, taken>>

Take ==
  /\ pc = "TAKE"
  /\ taken' = taken + 1 /\ pc' = "NEXT"
  /\ UNCHANGED <<traceVars, run, counts, left, effects>>

(* All results of a wave are ingested before the next wave.                  *)
Settle ==
  /\ pc = "SETTLE"
  /\ taken' = taken - 1 /\ pc' = IF taken > 1 THEN "VERIFY" ELSE "NEXT"
  /\ UNCHANGED <<traceVars, run, counts, left, effects>>

(* _persist_terminal_status: the transition is made or not, then traced.     *)
Persist ==
  /\ pc = "PERSIST"
  /\ \/ Did("STATUS_TRANSITION", 0) /\ pc' = "STATUS"
     \/ pc' \in {"STATUS", "RAISED"} /\ UNCHANGED effects
  /\ UNCHANGED <<traceVars, run, counts, left, taken>>

-----------------------------------------------------------------------------
(* The process dies, between two steps or in a write.                        *)
Die ==
  /\ pc \notin Over
  /\ pc' = "DIED"
  /\ \/ UNCHANGED traceVars
     \/ pc \in DOMAIN Writes /\ \E boundary \in Boundaries : AppendRaises(Event(boundary))
     \/ pc = "PROJECT" /\ PersistRaises(turns + 1)
  /\ UNCHANGED <<run, counts, left, taken, effects>>

(* Another Coordinator is made on the same directory.                        *)
Restart ==
  /\ pc \in Over /\ run < MaxRuns
  /\ pc' = "START" /\ run' = run + 1
  /\ turns' = 0 /\ tools' = 0 /\ batches' = 0
  /\ left' = 0 /\ taken' = 0
  /\ UNCHANGED <<traceVars, effects>>

Next ==
  \/ Start \/ Record \/ Loop \/ Project \/ Generate \/ Update \/ Act
  \/ NextItem \/ Execute \/ Take \/ Ingest \/ IngestNothing \/ Settle
  \/ Persist \/ Die \/ Restart

Spec == Init /\ [][Next]_vars

-----------------------------------------------------------------------------
Locations == DOMAIN Writes \cup Over
               \cup {"START", "LOOP", "PROJECT", "GENERATE", "UPDATE", "ACT", "NEXT",
                     "EXECUTE", "TAKE", "INGEST", "SETTLE", "PERSIST"}

Kinds == {Writes[l].kind : l \in DOMAIN Writes}

Effects == [run : Nat, kind : Audited \cup {"STATUS_TRANSITION"}, about : Nat]

(* The types of the run and its directory.                                   *)
TraceTypeOK ==
  /\ lines \subseteq [kind : Audited, about : Nat, boundary : BOOLEAN]
  /\ tail \in Tails /\ garbled \in BOOLEAN
  /\ artifacts \in [Projections -> Artifacts]
  /\ pc \in Locations
  /\ run \in Nat /\ turns \in 0..MaxTurns /\ tools \in Nat /\ batches \in Nat
  /\ left \in Nat /\ taken \in Nat
  /\ effects \subseteq Effects

(* No model is called and no tool is executed unless the event that says so  *)
(* is already on disk on a line of its own, with the whole projection it     *)
(* refers to (run, _execute): whatever dies or fails later, an audit finds   *)
(* every call announced, even past what a failed GATE event left.            *)
WriteAhead ==
  \A e \in effects : e.kind \in {"MODEL_TURN", "EXECUTE"} =>
    /\ Recorded(e.kind, e.about)
    /\ e.kind = "MODEL_TURN" => artifacts[e.about] = "WHOLE"

(* A batch is applied before its event is written, so a crash or a failing   *)
(* write can leave one that the trace does not account for: at most one, the *)
(* last that the run applied (_update, _ingest).                             *)
OnlyTheLastUntraced ==
  \A e, f \in {x \in effects : x.kind \in {"STATE_UPDATE", "RESULT_INGESTION"}} :
    f.about > e.about => Recorded(e.kind, e.about)

(* Whatever a run left in the directory, however it ended, no other          *)
(* Coordinator that is started on it has any effect (run).                   *)
OneRunPerDirectory == \A e, f \in effects : e.run = f.run

(* What was appended without an error can be read back (trace.py: durable    *)
(* events; runtime-v0.md: sufficient for audit and replay).                  *)
EventsReadBack == Failures = {} => Decodes
=============================================================================
