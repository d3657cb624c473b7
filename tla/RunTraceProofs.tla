---------------------------- MODULE RunTraceProofs ----------------------------
(***************************************************************************)
(* What an audit may rely on, proved for every number of turns, requests   *)
(* and Coordinators, every way a write fails and a crash at every point.   *)
(***************************************************************************)
EXTENDS RunTrace, TLAPS

Batch == {"STATE_UPDATE", "RESULT_INGESTION"}

(* The run is under way: it passed the check of the directory, and lives.    *)
Acting == pc \notin {"START"} \cup Over

Fresh == tail \in {"EMPTY", "LINE"}

Judging == {"VERIFY", "INGEST", "INGESTED", "REPROVE", "SETTLE"}

(* A model call is only prepared while there is a turn left, and a result    *)
(* only judged when one was taken.                                           *)
TypeInv ==
  /\ TraceTypeOK
  /\ pc \in {"PROJECT", "ASK", "GENERATE"} => turns < MaxTurns
  /\ pc \in Judging => taken > 0

(* What is true of the file wherever the run is: an event never follows what *)
(* another one left, but where the run is about to deny or to fail.          *)
FileInv ==
  /\ Acting /\ pc \notin {"DENY", "FAIL"} => Fresh
  /\ Acting /\ pc # "TASK" => tail # "EMPTY"
  /\ tail = "EMPTY" => effects = {}

RunInv ==
  /\ Acting => \A e \in effects : e.run = run
  /\ OneRunPerDirectory

CallInv ==
  /\ pc = "GENERATE" => Recorded("MODEL_TURN", turns + 1) /\ artifacts[turns + 1] = "WHOLE"
  /\ pc = "EXECUTE" => Recorded("EXECUTE", tools + 1)
  /\ \A e \in effects : e.kind = "MODEL_TURN" => e.about \in Projections
  /\ WriteAhead

(* Where the last batch may still await its event, or never get it.          *)
Awaits(kind) ==
  \/ pc \in {"FAIL", "PERSIST", "STATUS", "REPORT"}
  \/ pc = "UPDATED" /\ kind = "STATE_UPDATE"
  \/ pc = "INGESTED" /\ kind = "RESULT_INGESTION"

Accounted ==
  \A e \in effects : e.kind \in Batch =>
    /\ e.about <= batches
    /\ Recorded(e.kind, e.about) \/ (e.about = batches /\ Awaits(e.kind))

BatchInv == (Acting => Accounted) /\ OnlyTheLastUntraced

AuditInv == TypeInv /\ FileInv /\ RunInv /\ CallInv /\ BatchInv

(* What the proofs use of the table of events.                               *)
LEMMA WritesTable ==
  ASSUME NEW l \in DOMAIN Writes
  PROVE  /\ l \in Locations /\ l \notin {"START", "GENERATE", "EXECUTE", "PERSIST"} \cup Over
         /\ Writes[l].kind \in Kinds
         /\ Writes[l].then \subseteq Locations \ {"START", "TASK", "UPDATED", "INGESTED"}
         /\ Writes[l].raised \in {"FAIL", "RAISED", "DENY"}
         /\ l = "TASK" => Writes[l].raised = "RAISED"
         /\ "GENERATE" \in Writes[l].then => Writes[l].kind = "MODEL_TURN"
         /\ Writes[l].then \cap {"PROJECT", "ASK", "VERIFY", "REPROVE"} = {}
         /\ Writes[l].then \cap {"INGEST", "SETTLE"} # {} => l \in Judging
         /\ "GENERATE" \in Writes[l].then => l = "ASK"
         /\ "EXECUTE" \in Writes[l].then => Writes[l].kind = "EXECUTE"
         /\ "GENERATE" \in Writes[l].then \/ "EXECUTE" \in Writes[l].then =>
              l \notin {"DENY", "FAIL"}
         /\ l = "UPDATED" => Writes[l].kind = "STATE_UPDATE" /\ Writes[l].raised = "FAIL"
         /\ l = "INGESTED" => Writes[l].kind = "RESULT_INGESTION" /\ Writes[l].raised = "FAIL"
         /\ l \in {"UPDATED", "INGESTED"} => "FAIL" \notin Writes[l].then
         /\ l \in {"FAIL", "STATUS", "REPORT"} =>
              /\ Writes[l].then \subseteq {"PERSIST", "REPORT"} \cup Over
              /\ Writes[l].raised = "RAISED"
  BY SMTT(60) DEF Writes, Write, Kinds, Locations, Over, Judging

(* What an append leaves, whole or not.                                      *)
LEMMA LeaveEffect ==
  ASSUME TraceTypeOK, NEW boundary \in BOOLEAN, NEW part \in Parts,
         pc \in DOMAIN Writes, Leave(Event(boundary), part)
  PROVE  /\ lines' \subseteq [kind : Audited, about : Nat, boundary : BOOLEAN]
         /\ tail' \in Tails /\ garbled' \in BOOLEAN
         /\ lines \subseteq lines'
         /\ tail' = "EMPTY" => tail = "EMPTY"
         /\ part = "LINE" =>
              /\ tail' = "LINE"
              /\ Fresh /\ Writes[pc].kind \in Audited => Event(boundary) \in lines'
<1>1. Event(boundary).about \in Nat
  BY DEF Event, About, TraceTypeOK
<1>2. Event(boundary).kind \in Audited =>
        Event(boundary) \in [kind : Audited, about : Nat, boundary : BOOLEAN]
  BY <1>1 DEF Event
<1>3. Event(boundary).kind = Writes[pc].kind /\ Event(boundary).boundary = boundary
  BY DEF Event
<1> HIDE DEF Event
<1>4. CASE part = "NONE"
  BY <1>4 DEF Leave, file, TraceTypeOK
<1>5. CASE part = "LINE"
  BY <1>2, <1>3, <1>5 DEF Leave, TraceTypeOK, Fresh, Tails
<1>6. CASE part \in {"CUT", "UNENDED"}
  BY <1>3, <1>6 DEF Leave, TraceTypeOK, Tails
<1> QED
  BY <1>4, <1>5, <1>6 DEF Parts

(* A directory that keeps what it has.                                       *)
DirectoryKept ==
  /\ lines' \subseteq [kind : Audited, about : Nat, boundary : BOOLEAN]
  /\ tail' \in Tails /\ garbled' \in BOOLEAN
  /\ artifacts' \in [Projections -> Artifacts]
  /\ lines \subseteq lines'
  /\ tail' = "EMPTY" => tail = "EMPTY"
  /\ \A p \in Projections : artifacts[p] = "WHOLE" => artifacts'[p] = "WHOLE"

(* What a step leaves in the directory: lines stay, artifacts that are whole *)
(* stay whole, and a file that has something keeps it.                       *)
LEMMA DirectoryStep ==
  ASSUME TypeInv, Next
  PROVE  DirectoryKept
<1>1. CASE UNCHANGED traceVars
  BY <1>1 DEF TypeInv, TraceTypeOK, traceVars, file, DirectoryKept
<1>2. ASSUME NEW boundary \in Boundaries, pc \in DOMAIN Writes,
             AppendEvent(Event(boundary)) \/ AppendRaises(Event(boundary))
      PROVE  DirectoryKept
  <2>1. PICK part \in Parts : Leave(Event(boundary), part)
    BY <1>2, TraceAssumption DEF AppendEvent, AppendRaises, Parts
  <2>2. artifacts' = artifacts
    BY <1>2 DEF AppendEvent, AppendRaises
  <2>3. boundary \in BOOLEAN
    BY TraceAssumption
  <2> QED
    BY <1>2, <2>1, <2>2, <2>3, LeaveEffect DEF TypeInv, TraceTypeOK, DirectoryKept
<1>3. ASSUME NEW p \in Projections, PersistProjection(p) \/ PersistRaises(p)
      PROVE  DirectoryKept
  BY <1>3 DEF PersistProjection, PersistRaises, TypeInv, TraceTypeOK, file, Artifacts,
              DirectoryKept
<1>4. pc = "PROJECT" => turns + 1 \in Projections
  BY RunAssumption DEF TypeInv, TraceTypeOK
<1>5. CASE Record
  BY <1>2, <1>5 DEF Record
<1>6. CASE Project
  BY <1>3, <1>4, <1>6 DEF Project
<1>7. CASE Die
  BY <1>1, <1>2, <1>3, <1>4, <1>7 DEF Die
<1> QED
  BY <1>1, <1>5, <1>6, <1>7
  DEF Next, Start, Loop, Generate, Update, Apply, Ingest, IngestNothing, Act, NextItem,
      Execute, Take, Settle, Persist, Restart

(* What stays true of every record a line keeps.                             *)
LEMMA RecordedStays ==
  ASSUME lines \subseteq lines', NEW kind, NEW about, Recorded(kind, about)
  PROVE  Recorded(kind, about)'
  BY DEF Recorded
-----------------------------------------------------------------------------
(* Record, as the proofs see it: the event is there, or the write raised.    *)
LEMMA RecordStep ==
  ASSUME TypeInv, FileInv, Record
  PROVE  /\ pc \in DOMAIN Writes
         /\ UNCHANGED <<run, counts, left, taken, effects, artifacts>>
         /\ \/ /\ pc' \in Writes[pc].then /\ tail' = "LINE"
               /\ pc = "ASK" => artifacts[turns + 1] = "WHOLE"
               /\ Writes[pc].kind \in Audited /\ pc \notin {"DENY", "FAIL"} =>
                    \E e \in lines' : /\ e.kind = Writes[pc].kind
                                      /\ e.about = About(Writes[pc].kind)
            \/ pc' = Writes[pc].raised
<1>1. PICK boundary \in Boundaries :
        \/ AppendEvent(Event(boundary)) /\ pc' \in Writes[pc].then
        \/ AppendRaises(Event(boundary)) /\ pc' = Raised(pc)
  BY DEF Record
<1>2. pc \in DOMAIN Writes /\ UNCHANGED <<run, counts, left, taken, effects>>
  BY DEF Record
<1>3. artifacts' = artifacts
  BY <1>1 DEF AppendEvent, AppendRaises
<1>4. CASE AppendEvent(Event(boundary)) /\ pc' \in Writes[pc].then
  <2>1. Leave(Event(boundary), "LINE") /\ Resolves(Event(boundary))
    BY <1>4 DEF AppendEvent
  <2>2. /\ tail' = "LINE"
        /\ Fresh /\ Writes[pc].kind \in Audited => Event(boundary) \in lines'
    BY <1>2, <2>1, LeaveEffect, TraceAssumption DEF TypeInv, Parts
  <2>3. pc = "ASK" => artifacts[turns + 1] = "WHOLE"
    BY <2>1 DEF Resolves, Event, About, Writes, Write
  <2>4. pc \notin {"DENY", "FAIL"} => Fresh
    BY <1>2, WritesTable DEF FileInv, Acting
  <2>5. Writes[pc].kind \in Audited /\ pc \notin {"DENY", "FAIL"} =>
          \E e \in lines' : e.kind = Writes[pc].kind /\ e.about = About(Writes[pc].kind)
    BY <2>2, <2>4 DEF Event
  <2> QED
    BY <1>2, <1>3, <1>4, <2>2, <2>3, <2>5
<1> QED
  BY <1>1, <1>2, <1>3, <1>4 DEF Raised

(* The types are kept.                                                       *)
LEMMA TypeStep ==
  ASSUME TypeInv, FileInv, Next
  PROVE  TypeInv'
<1>1. DirectoryKept
  BY DirectoryStep
<1>2. SUFFICES /\ pc' \in Locations /\ run' \in Nat /\ turns' \in 0..MaxTurns
               /\ tools' \in Nat /\ batches' \in Nat /\ left' \in Nat /\ taken' \in Nat
               /\ effects' \subseteq Effects
               /\ pc' \in {"PROJECT", "ASK", "GENERATE"} => turns' < MaxTurns
               /\ pc' \in Judging => taken' > 0
  BY <1>1 DEF TypeInv, TraceTypeOK, DirectoryKept
<1> USE RunAssumption DEF TypeInv, TraceTypeOK, Judging
<1>3. CASE Record
  <2>1. Locations # {} /\ {"FAIL", "RAISED", "DENY"} \subseteq Locations
    BY DEF Locations, Over, Writes
  <2>2. pc' \in Locations
    BY <1>3, <2>1, RecordStep, WritesTable
  <2>3. pc' \in {"PROJECT", "ASK", "GENERATE"} => turns < MaxTurns
    BY <1>3, RecordStep, WritesTable
  <2>4. pc' \in Judging => pc \in Judging
    BY <1>3, RecordStep, WritesTable DEF Judging
  <2> QED
    BY <1>3, <2>2, <2>3, <2>4, RecordStep DEF counts
<1>4. CASE Generate
  BY <1>4 DEF Generate, Did, Effects, Audited, Locations, Writes
<1>5. CASE Update \/ Ingest
  BY <1>5 DEF Update, Ingest, Apply, Did, Effects, Audited, Locations, Writes, Over
<1>6. CASE Execute
  BY <1>6 DEF Execute, Did, Effects, Audited, Locations, Writes
<1>7. CASE Persist
  BY <1>7 DEF Persist, Did, Effects, Locations, Writes, Over, counts
<1>8. CASE Settle
  BY <1>8 DEF Settle, Locations, Writes, counts
<1>9. CASE Start \/ Loop \/ Project \/ IngestNothing \/ Act \/ NextItem \/ Take \/ Die
  BY <1>9 DEF Start, Loop, Project, IngestNothing, Act, NextItem, Take, Die, counts,
              Locations, Writes, Over
<1>10. CASE Restart
  BY <1>10 DEF Restart, Locations, Over
<1> QED
  BY <1>3, <1>4, <1>5, <1>6, <1>7, <1>8, <1>9, <1>10 DEF Next

-----------------------------------------------------------------------------
(* A step that writes nothing and keeps the run under way.                   *)
Quiet == Loop \/ Generate \/ Update \/ Ingest \/ IngestNothing \/ Act \/ NextItem
           \/ Execute \/ Take \/ Settle \/ Persist

LEMMA QuietStep ==
  ASSUME Quiet
  PROVE  /\ UNCHANGED <<traceVars, run>>
         /\ Acting /\ pc \notin DOMAIN Writes /\ pc # "TASK"
         /\ pc' \notin {"START", "TASK", "EXECUTE", "GENERATE"}
         /\ \/ UNCHANGED effects
            \/ \E kind, about : Did(kind, about)
  BY DEF Quiet, Loop, Generate, Update, Ingest, IngestNothing, Act, NextItem, Execute,
         Take, Settle, Persist, Apply, counts, Acting, Over, Writes

LEMMA FileStep ==
  ASSUME TypeInv, FileInv, Next
  PROVE  FileInv'
<1>1. DirectoryKept
  BY DirectoryStep
<1>2. CASE Quiet
  <2>1. Acting /\ pc \notin {"TASK", "DENY", "FAIL"}
    BY <1>2, QuietStep DEF Writes
  <2>2. tail' = tail
    BY <1>2, QuietStep DEF traceVars, file
  <2> QED
    BY <2>1, <2>2 DEF FileInv, Fresh
<1>3. CASE Record
  <2>1. CASE pc' \in Writes[pc].then /\ tail' = "LINE"
    BY <2>1 DEF FileInv, Fresh
  <2>2. CASE pc' = Writes[pc].raised
    BY <1>1, <1>3, <2>2, RecordStep, WritesTable
    DEF FileInv, Acting, Over, DirectoryKept
  <2> QED
    BY <1>3, <2>1, <2>2, RecordStep
<1>4. CASE Start
  BY <1>4 DEF Start, FileInv, Acting, Fresh, Unused, Empty, Over, traceVars, file
<1>5. CASE Project
  BY <1>5 DEF Project, PersistProjection, PersistRaises, FileInv, Acting, Fresh, Over, file
<1>6. CASE Die \/ Restart
  BY <1>1, <1>6 DEF Die, Restart, FileInv, Acting, Over, DirectoryKept
<1> QED
  BY <1>2, <1>3, <1>4, <1>5, <1>6 DEF Next, Quiet

LEMMA RunStep ==
  ASSUME TypeInv, FileInv, RunInv, Next
  PROVE  RunInv'
<1>1. CASE UNCHANGED <<run, effects>> /\ Acting
  BY <1>1 DEF RunInv, OneRunPerDirectory
<1>2. CASE Quiet
  <2>1. PICK kind, about : UNCHANGED effects \/ Did(kind, about)
    BY <1>2, QuietStep
  <2>2. Acting /\ UNCHANGED run
    BY <1>2, QuietStep
  <2>3. \A e \in effects' : e.run = run
    BY <2>1, <2>2 DEF Did, RunInv
  <2> QED
    BY <2>2, <2>3 DEF RunInv, OneRunPerDirectory
<1>3. CASE Record
  BY <1>1, <1>3, RecordStep, WritesTable DEF Acting
<1>4. CASE Start
  BY <1>4 DEF Start, RunInv, FileInv, OneRunPerDirectory, Acting, Unused, Empty, Over
<1>5. CASE Project \/ Die
  BY <1>1, <1>5 DEF Project, Die, RunInv, OneRunPerDirectory, Acting, Over
<1>6. CASE Restart
  BY <1>6 DEF Restart, RunInv, OneRunPerDirectory, Acting
<1> QED
  BY <1>2, <1>3, <1>4, <1>5, <1>6 DEF Next, Quiet

(* A step that does nothing new keeps what was announced.                    *)
LEMMA WriteAheadStays ==
  ASSUME CallInv, DirectoryKept
  PROVE  \A e \in effects : e.kind \in {"MODEL_TURN", "EXECUTE"} =>
           /\ Recorded(e.kind, e.about)'
           /\ e.kind = "MODEL_TURN" =>
                e.about \in Projections /\ artifacts'[e.about] = "WHOLE"
  BY RecordedStays DEF CallInv, WriteAhead, DirectoryKept, Recorded

LEMMA CallStep ==
  ASSUME TypeInv, FileInv, CallInv, Next
  PROVE  CallInv'
<1>1. DirectoryKept
  BY DirectoryStep
<1>2. \A e \in effects : e.kind \in {"MODEL_TURN", "EXECUTE"} =>
        /\ \E l \in lines' : l.kind = e.kind /\ l.about = e.about
        /\ e.kind = "MODEL_TURN" => e.about \in Projections /\ artifacts'[e.about] = "WHOLE"
  BY <1>1, WriteAheadStays DEF Recorded
<1>3. ASSUME UNCHANGED effects, pc' \notin {"GENERATE", "EXECUTE"}
      PROVE  CallInv'
  BY <1>2, <1>3 DEF CallInv, WriteAhead, Recorded
<1>4. ASSUME NEW kind \in Audited \cup {"STATUS_TRANSITION"}, NEW about,
             Did(kind, about), pc' \notin {"GENERATE", "EXECUTE"},
             kind \in {"MODEL_TURN", "EXECUTE"} =>
               \E l \in lines' : l.kind = kind /\ l.about = about,
             kind = "MODEL_TURN" => about \in Projections /\ artifacts'[about] = "WHOLE"
      PROVE  CallInv'
  BY <1>2, <1>4 DEF CallInv, WriteAhead, Recorded, Did
<1>5. CASE Generate
  <2>1. turns + 1 \in Projections
    BY <1>5, RunAssumption DEF Generate, TypeInv, TraceTypeOK
  <2>2. Recorded("MODEL_TURN", turns + 1) /\ artifacts[turns + 1] = "WHOLE"
    BY <1>5 DEF Generate, CallInv
  <2> QED
    BY <1>1, <1>4, <1>5, <2>1, <2>2 DEF Generate, Audited, Recorded, DirectoryKept
<1>6. CASE Execute
  <2>1. Recorded("EXECUTE", tools + 1)
    BY <1>6 DEF Execute, CallInv
  <2> QED
    BY <1>1, <1>4, <1>6, <2>1 DEF Execute, Audited, Recorded, DirectoryKept
<1>7. CASE Update \/ Ingest \/ Persist
  BY <1>3, <1>4, <1>7 DEF Update, Ingest, Apply, Persist, Audited
<1>8. CASE Record
  <2>1. CASE pc' \notin {"GENERATE", "EXECUTE"}
    BY <1>3, <1>8, <2>1, RecordStep
  <2>2. CASE pc' \in {"GENERATE", "EXECUTE"}
    <3>1. /\ pc' \in Writes[pc].then /\ UNCHANGED <<counts, effects, artifacts>>
          /\ pc = "ASK" => artifacts[turns + 1] = "WHOLE"
          /\ Writes[pc].kind \in Audited /\ pc \notin {"DENY", "FAIL"} =>
               \E e \in lines' : e.kind = Writes[pc].kind /\ e.about = About(Writes[pc].kind)
      BY <1>8, <2>2, RecordStep, WritesTable
    <3>2. WriteAhead' /\ \A e \in effects' : e.kind = "MODEL_TURN" => e.about \in Projections
      BY <1>2, <3>1 DEF WriteAhead, Recorded
    <3>3. pc' = "GENERATE" => Recorded("MODEL_TURN", turns + 1)' /\ artifacts'[turns' + 1] = "WHOLE"
      BY <1>8, <3>1, RecordStep, WritesTable DEF Recorded, Audited, About, counts
    <3>4. pc' = "EXECUTE" => Recorded("EXECUTE", tools + 1)'
      BY <1>8, <3>1, RecordStep, WritesTable DEF Recorded, Audited, About, counts
    <3> QED
      BY <3>2, <3>3, <3>4 DEF CallInv
  <2> QED
    BY <2>1, <2>2
<1>9. CASE Start \/ Loop \/ Project \/ IngestNothing \/ Act \/ NextItem \/ Take \/ Settle
             \/ Die \/ Restart
  BY <1>3, <1>9
  DEF Start, Loop, Project, IngestNothing, Act, NextItem, Take, Settle, Die, Restart
<1> QED
  BY <1>5, <1>6, <1>7, <1>8, <1>9 DEF Next

-----------------------------------------------------------------------------
(* Of batches that are all accounted for but the last, only the last is not. *)
LEMMA AccountedOrdered == TypeInv /\ Accounted => OnlyTheLastUntraced
<1> SUFFICES ASSUME TypeInv, Accounted, NEW e \in effects, NEW f \in effects, e.kind \in Batch, f.kind \in Batch,
                    f.about > e.about
             PROVE  Recorded(e.kind, e.about)
  BY DEF OnlyTheLastUntraced, Batch
<1>1. e.about \in Nat /\ f.about \in Nat /\ batches \in Nat
  BY DEF TypeInv, TraceTypeOK, Effects
<1> QED
  BY <1>1 DEF Accounted

LEMMA BatchStep ==
  ASSUME TypeInv, FileInv, BatchInv, Next, TypeInv'
  PROVE  BatchInv'
<1>1. DirectoryKept
  BY DirectoryStep
<1>2. \A kind, about : Recorded(kind, about) => \E l \in lines' : l.kind = kind /\ l.about = about
  <2> TAKE kind, about
  <2> QED
    BY <1>1 DEF Recorded, DirectoryKept
<1>3. ASSUME Accounted'  PROVE BatchInv'
  <2>1. OnlyTheLastUntraced'
    BY <1>3, AccountedOrdered, PTL
  <2> QED
    BY <1>3, <2>1 DEF BatchInv
<1>4. ASSUME UNCHANGED effects, ~Acting'  PROVE BatchInv'
  BY <1>2, <1>4 DEF BatchInv, OnlyTheLastUntraced, Recorded
<1>5. ASSUME Acting, UNCHANGED batches,
             \A e \in effects' : e.kind \in Batch => e \in effects,
             \A kind \in Batch : Awaits(kind) => Awaits(kind)'
      PROVE  BatchInv'
  <2>1. Accounted'
    BY <1>2, <1>5 DEF BatchInv, Accounted, Recorded
  <2> QED
    BY <1>3, <2>1
<1>6. ASSUME NEW kind \in Batch,
             (Update /\ kind = "STATE_UPDATE") \/ (Ingest /\ kind = "RESULT_INGESTION")
      PROVE  BatchInv'
  <2>1. Acting /\ ~ Awaits("STATE_UPDATE") /\ ~ Awaits("RESULT_INGESTION")
    BY <1>6 DEF Update, Ingest, Acting, Awaits, Over
  <2>2. \A e \in effects : e.kind \in Batch => e.about <= batches /\ Recorded(e.kind, e.about)
    BY <2>1 DEF BatchInv, Accounted, Batch
  <2>3. CASE UNCHANGED <<batches, effects>>
    BY <1>5, <2>1, <2>3 DEF Batch
  <2>4. CASE Did(kind, batches + 1) /\ batches' = batches + 1
    <3>1. Awaits(kind)'
      BY <1>6, <2>4 DEF Update, Ingest, Apply, Awaits
    <3>2. \A e \in effects : e.kind \in Batch => e.about <= batches'
      BY <2>2, <2>4 DEF TypeInv, TraceTypeOK, Effects
    <3>3. Accounted'
      BY <1>2, <2>2, <2>4, <3>1, <3>2 DEF Accounted, Did, Recorded, TypeInv, TraceTypeOK
    <3> QED
      BY <1>3, <3>3
  <2> QED
    BY <1>6, <2>3, <2>4 DEF Update, Ingest, Apply
<1>7. CASE Update \/ Ingest
  BY <1>6, <1>7 DEF Batch
<1>8. CASE Generate \/ Execute \/ Persist
  <2>1. Acting /\ UNCHANGED batches
    BY <1>8 DEF Generate, Execute, Persist, Acting, Over, counts
  <2>2. \A e \in effects' : e.kind \in Batch => e \in effects
    BY <1>8 DEF Generate, Execute, Persist, Did, Batch
  <2>3. CASE pc' = "RAISED"
    <3>1. UNCHANGED effects
      BY <1>8, <2>3 DEF Generate, Execute, Persist
    <3> QED
      BY <1>4, <2>3, <3>1 DEF Acting, Over
  <2>4. CASE pc' # "RAISED"
    <3>1. \A kind \in Batch : Awaits(kind) => Awaits(kind)'
      BY <1>8, <2>4 DEF Generate, Execute, Persist, Awaits
    <3> QED
      BY <1>5, <2>1, <2>2, <3>1
  <2> QED
    BY <2>3, <2>4
<1>9. CASE Record
  <2>1. Acting /\ UNCHANGED <<counts, effects>>
    BY <1>9, RecordStep, WritesTable DEF Acting
  <2>2. CASE pc \in {"UPDATED", "INGESTED"} /\ pc' \in Writes[pc].then
    <3>1. \E l \in lines' : l.kind = Writes[pc].kind /\ l.about = batches
      BY <1>9, <2>2, RecordStep, WritesTable DEF Audited, About
    <3>2. \A e \in effects : e.kind \in Batch /\ Awaits(e.kind) => e.kind = Writes[pc].kind
      BY <1>9, <2>2, WritesTable, RecordStep DEF Awaits
    <3>3. Accounted'
      BY <1>2, <2>1, <3>1, <3>2 DEF BatchInv, Accounted, Recorded, counts
    <3> QED
      BY <1>3, <3>3
  <2>3. CASE pc \in {"UPDATED", "INGESTED"} /\ pc' = "FAIL"
    BY <1>5, <2>1, <2>3 DEF Awaits, counts
  <2>4. CASE pc \in {"FAIL", "STATUS", "REPORT"}
    <3>1. pc' \in {"PERSIST", "REPORT"} \cup Over
      BY <1>9, <2>4, RecordStep, WritesTable DEF Over
    <3>2. CASE pc' \in {"PERSIST", "REPORT"}
      BY <1>5, <2>1, <3>2 DEF Awaits, counts
    <3>3. CASE pc' \in Over
      BY <1>4, <2>1, <3>3 DEF Acting
    <3> QED
      BY <3>1, <3>2, <3>3
  <2>5. CASE pc \notin {"UPDATED", "INGESTED", "FAIL", "STATUS", "REPORT", "PERSIST"}
    BY <1>5, <2>1, <2>5 DEF Awaits, counts
  <2> QED
    BY <1>9, <2>2, <2>3, <2>4, <2>5, RecordStep, WritesTable
<1>10. CASE Start
  <2>1. CASE pc' = "TASK"
    BY <1>3, <1>10, <2>1 DEF Start, FileInv, Unused, Empty, Accounted
  <2>2. CASE pc' = "REFUSED_DIRECTORY"
    BY <1>4, <1>10, <2>2 DEF Start, Acting, Over
  <2> QED
    BY <1>10, <2>1, <2>2 DEF Start
<1>11. CASE Loop \/ Project \/ IngestNothing \/ Act \/ NextItem \/ Take \/ Settle
  BY <1>5, <1>11
  DEF Loop, Project, IngestNothing, Act, NextItem, Take, Settle, Acting, Over, Awaits, counts
<1>12. CASE Die \/ Restart
  BY <1>4, <1>12 DEF Die, Restart, Acting, Over
<1> QED
  BY <1>7, <1>8, <1>9, <1>10, <1>11, <1>12 DEF Next

-----------------------------------------------------------------------------
(* The invariant of a run directory.                                         *)
THEOREM AuditInvThm == Spec => []AuditInv
<1>1. Init => AuditInv
  <2> SUFFICES ASSUME Init PROVE AuditInv
    OBVIOUS
  <2>1. TypeInv
    <3>1. /\ lines \subseteq [kind : Audited, about : Nat, boundary : BOOLEAN]
          /\ effects \subseteq Effects
          /\ tail \in Tails /\ garbled \in BOOLEAN
          /\ artifacts \in [Projections -> Artifacts]
      BY DEF Init, TraceInit, Tails
    <3>2. pc \in Locations /\ pc \notin {"PROJECT", "ASK", "GENERATE"} \cup Judging
      BY DEF Init, Locations, Judging
    <3>3. turns \in 0..MaxTurns /\ run \in Nat
      BY RunAssumption DEF Init
    <3> QED
      BY <3>1, <3>2, <3>3 DEF Init, TypeInv, TraceTypeOK
  <2>2. FileInv /\ RunInv /\ CallInv /\ BatchInv
    BY DEF Init, TraceInit, FileInv, RunInv, CallInv, BatchInv, Acting, OneRunPerDirectory,
           WriteAhead, OnlyTheLastUntraced
  <2> QED
    BY <2>1, <2>2 DEF AuditInv
<1>2. AuditInv /\ [Next]_vars => AuditInv'
  <2> SUFFICES ASSUME AuditInv, [Next]_vars PROVE AuditInv'
    OBVIOUS
  <2>1. CASE Next
    BY <2>1, TypeStep, FileStep, RunStep, CallStep, BatchStep DEF AuditInv
  <2>2. CASE UNCHANGED vars
    BY <2>2
    DEF vars, traceVars, file, counts, AuditInv, TypeInv, TraceTypeOK, FileInv, RunInv,
        CallInv, BatchInv, Acting, Fresh, Recorded, WriteAhead, OneRunPerDirectory,
        OnlyTheLastUntraced, Accounted, Awaits
  <2> QED
    BY <2>1, <2>2
<1> QED
  BY <1>1, <1>2, PTL DEF Spec

(* No model is called and no tool executed that the trace did not announce   *)
(* on a line of its own before (run, _execute, append).                      *)
THEOREM WriteAheadThm == Spec => []WriteAhead
<1>1. AuditInv => WriteAhead
  BY DEF AuditInv, CallInv
<1> QED
  BY <1>1, AuditInvThm, PTL

(* Of the batches applied to the store the trace misses at most the last     *)
(* (_update, _ingest).                                                       *)
THEOREM OnlyTheLastUntracedThm == Spec => []OnlyTheLastUntraced
<1>1. AuditInv => OnlyTheLastUntraced
  BY DEF AuditInv, BatchInv
<1> QED
  BY <1>1, AuditInvThm, PTL

(* A directory serves one run, whatever the run left in it (run).            *)
THEOREM OneRunPerDirectoryThm == Spec => []OneRunPerDirectory
<1>1. AuditInv => OneRunPerDirectory
  BY DEF AuditInv, RunInv
<1> QED
  BY <1>1, AuditInvThm, PTL
-----------------------------------------------------------------------------
(* As long as no write fails, every line is ended before the next begins.    *)
WholeLines == Failures = {} => Fresh /\ ~garbled

(* A step that leaves the event file alone, or appends a whole event.        *)
LEMMA WholeLinesStep ==
  ASSUME TypeInv, Boundaries \subseteq {FALSE}, WholeLines, [Next]_vars
  PROVE  WholeLines'
<1> SUFFICES ASSUME Failures = {} PROVE Fresh' /\ ~garbled'
  BY DEF WholeLines
<1>1. CASE UNCHANGED file
  BY <1>1 DEF WholeLines, Fresh, file
<1>2. ASSUME NEW boundary \in Boundaries, pc \in DOMAIN Writes,
             AppendEvent(Event(boundary)) \/ AppendRaises(Event(boundary))
      PROVE  Fresh' /\ ~garbled'
  <2>1. Event(boundary).boundary = FALSE
    BY DEF Event
  <2>2. CASE AppendEvent(Event(boundary))
    <3>1. Leave(Event(boundary), "LINE")
      BY <2>2 DEF AppendEvent
    <3> HIDE DEF Event
    <3>2. tail' = "LINE" /\ garbled' = (garbled \/ ~Fresh \/ Event(boundary).boundary)
      BY <3>1 DEF Leave, Fresh
    <3> QED
      BY <2>1, <3>2 DEF WholeLines, Fresh
  <2>3. CASE AppendRaises(Event(boundary))
    <3>1. Leave(Event(boundary), "NONE")
      BY <2>3 DEF AppendRaises
    <3>2. UNCHANGED file
      BY <3>1 DEF Leave
    <3> QED
      BY <1>1, <3>2
  <2> QED
    BY <1>2, <2>2, <2>3
<1>3. CASE Record
  BY <1>2, <1>3 DEF Record
<1>4. CASE Project
  BY <1>1, <1>4 DEF Project, PersistProjection, PersistRaises
<1>5. CASE Die
  BY <1>1, <1>2, <1>5 DEF Die, PersistRaises, traceVars
<1> QED
  BY <1>1, <1>3, <1>4, <1>5
  DEF Next, Start, Loop, Generate, Update, Apply, Ingest, IngestNothing, Act, NextItem,
      Execute, Take, Settle, Persist, Restart, vars, traceVars

(* trace.py, "durable JSONL events": where no event text holds a character   *)
(* at which only str.splitlines ends a line, what was written without an     *)
(* error can be read back, wherever the process dies (append, read_events).  *)
(* So these characters are the only cause of what line_boundaries shows.     *)
THEOREM ReadBackThm ==
  ASSUME Boundaries \subseteq {FALSE}
  PROVE  Spec => []EventsReadBack
<1>1. Init => WholeLines
  BY DEF Init, TraceInit, WholeLines, Fresh
<1>2. TypeInv /\ WholeLines /\ [Next]_vars => WholeLines'
  BY WholeLinesStep
<1>3. WholeLines => EventsReadBack
  BY DEF WholeLines, Fresh, EventsReadBack, Decodes
<1>4. Spec => []TypeInv
  BY AuditInvThm, PTL DEF AuditInv
<1> QED
  BY <1>1, <1>2, <1>3, <1>4, PTL DEF Spec
=============================================================================
