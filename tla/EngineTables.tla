---------------------------- MODULE EngineTables ----------------------------
(***************************************************************************)
(* What the stream and the tables `engine' and `outbox' hold, and what one *)
(* entry of the stream does to the row it finds: shared by EngineRegistry  *)
(* (an entry is handled in one step) and EngineService (by a transaction). *)
(***************************************************************************)
EXTENDS EngineAggregate

CONSTANTS
    StreamIds,   \* ids of the entries of the stream
    Payloads,    \* payloads an hset entry can carry
    NoRow        \* there is no row for the engine (Python None)

Payload == [uuid : MaybeUuid, running : BOOLEAN]

HsetEntry == [event : {"hset"}, engine : EngineIds, data : Payloads]

ExpiredEntry == [event : {"expired"}, engine : EngineIds]

\* Redis tells of more than the handler knows: del, expire, rename_to, ...
OtherEntry == [event : {"other"}, engine : EngineIds]

Entry == HsetEntry \cup ExpiredEntry \cup OtherEntry

Row == [uuid : MaybeUuid, status : EngineStatus, version : Version]

OutboxRecord == [id : StreamIds \X (EngineIds \X StreamId \X EventNames),
                 caused_by : StreamIds, event : DomainEvent]

ASSUME StreamAssumption  == StreamIds \subseteq StreamId
ASSUME PayloadAssumption == Payloads \subseteq Payload
ASSUME NoRowAssumption   == NoRow \notin Row

-----------------------------------------------------------------------------
\* The aggregate a repository reads from a row, and the row it writes.
Load(e, row) == [id |-> e, uuid |-> row.uuid, status |-> row.status,
                 version |-> row.version, events |-> {}]

Store(eng) == [uuid |-> eng.uuid, status |-> eng.status, version |-> eng.version]

\* What upsert does with the row that get_for_update returned.
Upserted(e, row, data, version) ==
    IF row = NoRow THEN NewEngine(e, data.uuid, version)
    ELSE IF row.status = "dead"
         THEN Restore(Load(e, row), data.running, data.uuid, version)
         ELSE Update(Load(e, row), data.running, data.uuid, version)

\* Mutants of Yields: a row yields to its own version, or only to one of a
\* later millisecond.
YieldsToSame(row, version) == row # NoRow => ~RowOlder(version, row.version)

YieldsToLaterTs(row, version) == row # NoRow => row.version.ts < version.ts

\* The WHERE of save(): it replaces a row only by one of a newer version.
Yields(row, version) == row # NoRow => RowOlder(row.version, version)

\* outbox.store: a record whose key is already there is left alone.
WithRecords(outbox, id, eng) ==
    LET Record(ev) == [id |-> OutboxKey(id, ev), caused_by |-> id, event |-> ev]
    IN  outbox \cup {Record(ev) : ev \in {x \in eng.events :
                                       \A r \in outbox : r.id # OutboxKey(id, x)}}
=============================================================================
