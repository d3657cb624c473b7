----------------------------- MODULE TraceRecorder -----------------------------
(***************************************************************************)
(* The run directory: the event file and the projection artifacts.  What   *)
(* has been written stays: an append and an artifact are flushed and       *)
(* fsynced before the call returns, and the model takes that as durable,   *)
(* the directory entry of a new file included.  A write that fails, or in  *)
(* which the process dies, leaves any part of itself.                      *)
(*                                                                         *)
(* Of the event file the model keeps the events that are on a line of      *)
(* their own, of the kinds that properties ask for; what the end of the    *)
(* file looks like; and whether some line before it does not decode.  An   *)
(* event has a kind, says what it is about (the projection of a            *)
(* MODEL_TURN), and its text may hold a character that str.splitlines      *)
(* takes for a line end and canonical_json writes as it is, such as U+2028 *)
(* (ensure_ascii is off).                                                  *)
(***************************************************************************)
EXTENDS Naturals

CONSTANTS Projections,   \* the projections that may be persisted
          Failures,      \* what a write that fails may leave
          Boundaries     \* whether event texts hold a line boundary: BOOLEAN or less

VARIABLES lines,      \* the events on a line of their own
          tail,       \* the end of the file: after a line feed, or within a line
          garbled,    \* whether a line of the file does not decode
          artifacts   \* the projection artifacts

file      == <<lines, tail, garbled>>
traceVars == <<file, artifacts>>

Parts     == {"NONE", "CUT", "UNENDED", "LINE"}
Tails     == {"EMPTY", "LINE", "UNENDED", "CUT"}
Artifacts == {"ABSENT", "PARTIAL", "WHOLE"}
Audited   == {"MODEL_TURN", "EXECUTE", "STATE_UPDATE", "RESULT_INGESTION"}

ASSUME TraceAssumption == Failures \subseteq Parts /\ Boundaries \subseteq BOOLEAN

(* The caller owns the directory: artifacts may be there, whole or not.      *)
TraceInit ==
  /\ lines = {} /\ tail = "EMPTY" /\ garbled = FALSE
  /\ artifacts \in [Projections -> Artifacts]

-----------------------------------------------------------------------------
(* persist_projection: the artifact of a projection is created, or found to  *)
(* be there with the same bytes.                                             *)
PersistProjection(p) ==
  /\ artifacts[p] # "PARTIAL"
  /\ artifacts' = [artifacts EXCEPT ![p] = "WHOLE"]
  /\ UNCHANGED file

(* A failing write leaves what it left; an artifact with other bytes raises, *)
(* and is never overwritten.                                                 *)
PersistRaises(p) ==
  /\ \/ /\ artifacts[p] = "ABSENT" /\ Failures # {}
        /\ \E left \in Artifacts : artifacts' = [artifacts EXCEPT ![p] = left]
     \/ artifacts[p] = "PARTIAL" /\ UNCHANGED artifacts
  /\ UNCHANGED file

(* append: a MODEL_TURN must refer to an artifact that reads back.           *)
Resolves(event) == event.kind = "MODEL_TURN" => artifacts[event.about] = "WHOLE"

(* An event, or the part of it that was written: "UNENDED" lacks only the    *)
(* line feed.  What an earlier write left without one is on the same line,   *)
(* which then is no event.                                                   *)
Leave(event, part) ==
  LET fresh == tail \in {"EMPTY", "LINE"}
  IN  CASE part = "NONE" -> UNCHANGED file
        [] part = "LINE" ->
             /\ lines' = IF fresh /\ event.kind \in Audited THEN lines \cup {event} ELSE lines
             /\ tail' = "LINE"
             /\ garbled' = (garbled \/ ~fresh \/ event.boundary)
        [] OTHER ->
             /\ tail' = IF fresh /\ ~event.boundary THEN part ELSE "CUT"
             /\ UNCHANGED <<lines, garbled>>

AppendEvent(event) ==
  /\ Resolves(event)
  /\ Leave(event, "LINE")
  /\ UNCHANGED artifacts

(* A write that fails before, within, or (in fsync) after its line.          *)
AppendRaises(event) ==
  /\ \E part \in IF Resolves(event) THEN Failures ELSE {"NONE"} : Leave(event, part)
  /\ UNCHANGED artifacts

-----------------------------------------------------------------------------
(* read_events decodes the file line by line; an empty file has no event,    *)
(* and the last one may lack its line feed.                                  *)
Decodes == ~garbled /\ tail # "CUT"

Empty == tail = "EMPTY"

(* The events of a kind on what it is about, each on a line of its own.      *)
Recorded(kind, about) == \E e \in lines : e.kind = kind /\ e.about = about
=============================================================================
