-------------------------- MODULE EngineAggregate --------------------------
(***************************************************************************)
(* The domain model of app/domains/engine.py: an Engine aggregate in       *)
(* memory, the three methods that change it, and the domain events these   *)
(* methods record.  Nothing here is persistent; EngineService loads an     *)
(* aggregate, calls one of the methods and saves the result.               *)
(*                                                                         *)
(* `created' and `addr' are left out: they are written once, when the row  *)
(* is inserted, and no method reads or changes them.                       *)
(***************************************************************************)
EXTENDS Versions

CONSTANTS
    EngineIds,   \* engine aggregates, the keys xrayEngines:<id>
    Uuids,       \* access keys an engine can run with
    NoUuid       \* Python None: the engine has no access key

MaybeUuid == Uuids \cup {NoUuid}

EngineStatus == {"active", "ready", "dead"}

EventNames == {"EngineDead", "EngineUpdated", "EngineRestored"}

\* A domain event.  EngineDead has no payload; the other two carry the new
\* access key and status, for EngineDead these fields are NoUuid and "dead".
DomainEvent == [name : EventNames, engine : EngineIds, version : StreamId,
                uuid : MaybeUuid, status : EngineStatus]

Aggregate == [id : EngineIds, uuid : MaybeUuid, status : EngineStatus,
              version : Version, events : SUBSET DomainEvent]

-----------------------------------------------------------------------------
\* DomainEvent.id and the outbox key: uuid5 of a text that joins the parts.
\* The hash is taken to be free of collisions, so the key is its parts.
EventId(ev) == <<ev.engine, ev.version, ev.name>>

OutboxKey(causedBy, ev) == <<causedBy, EventId(ev)>>

-----------------------------------------------------------------------------
\* Mutant of RunningStatus: a status the enumeration does not have.
RunningStatusUnknown(running) == IF running THEN "running" ELSE "ready"

RunningStatus(running) == IF running THEN "active" ELSE "ready"

\* The constructor call of EngineService.upsert: always READY, whatever the
\* command says about `running', and no event is recorded.
NewEngine(id, uuid, version) ==
    [id |-> id, uuid |-> uuid, status |-> "ready",
     version |-> version, events |-> {}]

\* Mutant of Update: the hash is taken over the access key only.
UpdateHashingUuid(eng, running, uuid, version) ==
    LET status == RunningStatus(running)
        event  == [name |-> "EngineUpdated", engine |-> eng.id,
                   version |-> ToStreamId(version),
                   uuid |-> uuid, status |-> status]
    IN  IF ~IsNewer(eng.version, version) THEN eng
        ELSE [id |-> eng.id, uuid |-> uuid, status |-> status,
              version |-> version,
              events |-> IF eng.uuid = uuid THEN eng.events
                                            ELSE eng.events \cup {event}]

\* Mutant of Update: the event carries the access key the engine had before.
UpdateAnnouncingOld(eng, running, uuid, version) ==
    LET status == RunningStatus(running)
        event  == [name |-> "EngineUpdated", engine |-> eng.id,
                   version |-> ToStreamId(version),
                   uuid |-> eng.uuid, status |-> status]
        unchanged == eng.status = status /\ eng.uuid = uuid
    IN  IF ~IsNewer(eng.version, version) THEN eng
        ELSE [id |-> eng.id, uuid |-> uuid, status |-> status,
              version |-> version,
              events |-> IF unchanged THEN eng.events
                                      ELSE eng.events \cup {event}]

\* update() records an event only if the hash over the identity, access key
\* and status changed; the version is not part of the hash.
Update(eng, running, uuid, version) ==
    LET status == RunningStatus(running)
        event  == [name |-> "EngineUpdated", engine |-> eng.id,
                   version |-> ToStreamId(version),
                   uuid |-> uuid, status |-> status]
        unchanged == eng.status = status /\ eng.uuid = uuid
    IN  IF ~IsNewer(eng.version, version) THEN eng
        ELSE [id |-> eng.id, uuid |-> uuid, status |-> status,
              version |-> version,
              events |-> IF unchanged THEN eng.events
                                      ELSE eng.events \cup {event}]

MarkDead(eng, version) ==
    LET event == [name |-> "EngineDead", engine |-> eng.id,
                  version |-> ToStreamId(version),
                  uuid |-> NoUuid, status |-> "dead"]
    IN  IF ~IsNewer(eng.version, version) THEN eng
        ELSE [id |-> eng.id, uuid |-> eng.uuid, status |-> "dead",
              version |-> version, events |-> eng.events \cup {event}]

\* Mutant of Restore: the engine comes back with its old access key.
RestoreKeepingUuid(eng, running, uuid, version) ==
    LET status == RunningStatus(running)
        event  == [name |-> "EngineRestored", engine |-> eng.id,
                   version |-> ToStreamId(version),
                   uuid |-> uuid, status |-> status]
    IN  IF ~IsNewer(eng.version, version) THEN eng
        ELSE [id |-> eng.id, uuid |-> eng.uuid, status |-> status,
              version |-> version, events |-> eng.events \cup {event}]

Restore(eng, running, uuid, version) ==
    LET status == RunningStatus(running)
        event  == [name |-> "EngineRestored", engine |-> eng.id,
                   version |-> ToStreamId(version),
                   uuid |-> uuid, status |-> status]
    IN  IF ~IsNewer(eng.version, version) THEN eng
        ELSE [id |-> eng.id, uuid |-> uuid, status |-> status,
              version |-> version, events |-> eng.events \cup {event}]
=============================================================================
