--------------------------- MODULE EngineRegistry ---------------------------
(***************************************************************************)
(* What EngineService promises: the registry of engines as if every entry  *)
(* of the stream were handled in one step on the row it finds.  The row    *)
(* only moves to newer versions, and a record that announces a change      *)
(* appears together with it.                                               *)
(*                                                                         *)
(* The docstring of `upsert' promises more: "Insert new Engine and store   *)
(* event", "Update existing aggregate and store event" (services/engine.py *)
(* lines 71 and 72).  The registry is what the code does, and that departs *)
(* from the docstring three times:                                         *)
(*  - Create announces nothing: the constructor records no event, and the  *)
(*    engine is `ready' whatever the entry says of it.                     *)
(*  - Overwrite announces nothing: a task that found no engine inserts it  *)
(*    as new, and if another task inserted it meanwhile its upsert turns   *)
(*    into an update.                                                      *)
(*  - Change announces nothing if access key and status stay the same; the *)
(*    row takes the newer version.                                         *)
(* Create contradicts line 71 in every single step, so no run is needed to *)
(* show it; what it takes for an Overwrite, ChangeAnnounced of             *)
(* EngineService shows against line 72.                                    *)
(***************************************************************************)
EXTENDS EngineTables

VARIABLES stream, engines, outbox

vars == <<stream, engines, outbox>>

EngineOf(id) == stream[id].engine

Init ==
    /\ stream \in [StreamIds -> Entry]
    /\ engines = [e \in EngineIds |-> NoRow]
    /\ outbox = {}

\* The row and the records of one aggregate are written together.
Write(id, eng) ==
    /\ engines' = [engines EXCEPT ![eng.id] = Store(eng)]
    /\ outbox' = WithRecords(outbox, id, eng)
    /\ UNCHANGED stream

Newcomer(id) ==
    NewEngine(EngineOf(id), stream[id].data.uuid, FromStreamId(id))

\* The first entry of an engine: a row, and, unlike the docstring has it, no
\* record.
Create(id) ==
    /\ stream[id].event = "hset"
    /\ engines[EngineOf(id)] = NoRow
    /\ Write(id, Newcomer(id))

\* A newcomer over a row the task did not see: an update without a record.
Overwrite(id) ==
    /\ stream[id].event = "hset"
    /\ engines[EngineOf(id)] # NoRow
    /\ RowOlder(engines[EngineOf(id)].version, FromStreamId(id))
    /\ Write(id, Newcomer(id))

\* update, restore or mark_dead of the row; the record says what it changed,
\* and there is none if nothing that shows did.
Change(id) ==
    LET e == EngineOf(id)
        row == engines[e]
        version == FromStreamId(id)
    IN  /\ row # NoRow
        /\ RowOlder(row.version, version)
        /\ \/ /\ stream[id].event = "hset"
              /\ Write(id, Upserted(e, row, stream[id].data, version))
           \/ /\ stream[id].event = "expired"
              /\ Write(id, MarkDead(Load(e, row), version))

\* Dead engines may be removed at any time; their versions go with them.
Remove(S) ==
    /\ \A e \in S : engines[e] # NoRow /\ engines[e].status = "dead"
    /\ engines' = [e \in EngineIds |-> IF e \in S THEN NoRow ELSE engines[e]]
    /\ UNCHANGED <<stream, outbox>>

Next ==
    \/ \E id \in StreamIds : Create(id) \/ Overwrite(id) \/ Change(id)
    \/ \E S \in SUBSET EngineIds : Remove(S)

Spec == Init /\ [][Next]_vars
=============================================================================
