------------------------ MODULE EngineServiceProofs ------------------------
(***************************************************************************)
(* Proofs about EngineService, for any number of workers, engines, entries *)
(* and payloads.  The sections are: the order of versions; what the        *)
(* operators of the aggregate return; type correctness; the inductive      *)
(* invariant IInv of the transactions and the safety properties that       *)
(* follow from it; with RInv, the implementation of EngineRegistry; and    *)
(* with AInv, what the outbox tells of the engines.                        *)
(***************************************************************************)
EXTENDS EngineService, TLAPS

-----------------------------------------------------------------------------
(***************************************************************************)
(* Versions: the two comparisons are one strict total order, for every     *)
(* pair of timestamps and sequence numbers.                                *)
(***************************************************************************)

\* The Python guard (Version.is_newer) and the SQL guard (the WHERE of save)
\* decide alike: save never refuses an aggregate that the domain model moved
\* forward on the same row, and never accepts one that it left alone.
THEOREM GuardsAgree ==
    ASSUME NEW v \in Version, NEW w \in Version
    PROVE  IsNewer(v, w) <=> RowOlder(v, w)
  BY DEF IsNewer, RowOlder, Version

\* The order is irreflexive, transitive and total: of two different versions
\* exactly one is older, so redelivery and reordering have one outcome.
THEOREM VersionOrder ==
    ASSUME NEW u \in Version, NEW v \in Version, NEW w \in Version
    PROVE  /\ ~RowOlder(v, v)
           /\ RowOlder(u, v) /\ RowOlder(v, w) => RowOlder(u, w)
           /\ u # v => RowOlder(u, v) \/ RowOlder(v, u)
           /\ ~(RowOlder(u, v) /\ RowOlder(v, u))
  BY DEF RowOlder, Version

\* The forms in which the proofs use the order.
LEMMA NotOlderTransitive ==
    ASSUME NEW u \in Version, NEW v \in Version, NEW w \in Version,
           ~RowOlder(v, u), ~RowOlder(w, v)
    PROVE  ~RowOlder(w, u)
  BY DEF RowOlder, Version

\* Turning a stream id into a version and back loses nothing.
LEMMA StreamIdRoundTrip ==
    ASSUME NEW sid \in StreamId
    PROVE  /\ FromStreamId(sid) \in Version
           /\ ToStreamId(FromStreamId(sid)) = sid
  BY DEF FromStreamId, ToStreamId, Version, StreamId

LEMMA VersionRoundTrip ==
    ASSUME NEW v \in Version
    PROVE  /\ ToStreamId(v) \in StreamId
           /\ FromStreamId(ToStreamId(v)) = v
  BY DEF FromStreamId, ToStreamId, Version, StreamId

-----------------------------------------------------------------------------
(***************************************************************************)
(* The aggregate.                                                          *)
(***************************************************************************)

\* Reading a row and storing it again changes nothing.
LEMMA LoadType ==
    ASSUME NEW e \in EngineIds, NEW row \in Row
    PROVE  /\ Load(e, row) \in Aggregate
           /\ Store(Load(e, row)) = row
           /\ Load(e, row).events = {}
  BY DEF Load, Store, Row, Aggregate

\* What save() writes is a row of the table.
LEMMA StoreType ==
    ASSUME NEW eng \in Aggregate
    PROVE  Store(eng) \in Row
  BY DEF Store, Row, Aggregate

\* A living engine is active or ready, never dead.
LEMMA RunningStatusType ==
    ASSUME NEW running \in BOOLEAN
    PROVE  RunningStatus(running) \in {"active", "ready"}
  BY DEF RunningStatus

\* mark_dead: either the row is already at this version or a later one and
\* nothing happens, or the aggregate dies at the version and records it.
LEMMA MarkDeadOutcome ==
    ASSUME NEW e \in EngineIds, NEW row \in Row, NEW version \in Version
    PROVE  LET eng == MarkDead(Load(e, row), version)
           IN  /\ eng \in Aggregate
               /\ eng.id = e
               /\ \/ Store(eng) = row /\ eng.events = {} /\ ~RowOlder(row.version, version)
                  \/ /\ eng.version = version
                     /\ eng.status = "dead"
                     /\ \A ev \in eng.events :
                           ev.engine = e /\ Describes(ev, row, Store(eng))
  <1> DEFINE event == [name |-> "EngineDead", engine |-> e,
                       version |-> ToStreamId(version),
                       uuid |-> NoUuid, status |-> "dead"]
             dead == [id |-> e, uuid |-> row.uuid, status |-> "dead",
                      version |-> version, events |-> {event}]
  <1>1. Load(e, row) \in Aggregate /\ Store(Load(e, row)) = row
    BY LoadType
  <1>2. row.version \in Version /\ Store(dead) \in Row /\ row # NoRow
    BY NoRowAssumption DEF Row, Store, EngineStatus
  <1>3. event \in DomainEvent
    BY VersionRoundTrip DEF DomainEvent, EventNames, EngineStatus, MaybeUuid
  <1>4. dead \in Aggregate
    BY <1>3 DEF Aggregate, Row, EngineStatus
  <1>5. Describes(event, row, Store(dead))
    BY <1>2, NoRowAssumption DEF Describes, Store
  <1>6. CASE IsNewer(row.version, version)
    <2>1. MarkDead(Load(e, row), version) = dead
      BY <1>6 DEF MarkDead, Load
    <2> QED
      BY <1>4, <1>5, <2>1 DEF dead
  <1>7. CASE ~IsNewer(row.version, version)
    <2>1. MarkDead(Load(e, row), version) = Load(e, row)
      BY <1>7 DEF MarkDead, Load
    <2>2. ~RowOlder(row.version, version)
      BY <1>2, <1>7, GuardsAgree
    <2> QED
      BY <1>1, <2>1, <2>2 DEF Load
  <1> QED
    BY <1>6, <1>7

\* What restore or update makes of a stored row: nothing, if the row is as new
\* as the version; otherwise the payload, and events that are true of the row.
Outcome(eng, e, row, data, version) ==
    /\ eng \in Aggregate
    /\ eng.id = e
    /\ \/ Store(eng) = row /\ eng.events = {} /\ ~RowOlder(row.version, version)
       \/ /\ eng.version = version
          /\ eng.uuid = data.uuid
          /\ eng.status = RunningStatus(data.running)
          /\ \A ev \in eng.events : ev.engine = e /\ Describes(ev, row, Store(eng))

\* restore, on a dead row.
LEMMA RestoreOutcome ==
    ASSUME NEW e \in EngineIds, NEW row \in Row, NEW version \in Version,
           NEW data \in Payload, row.status = "dead"
    PROVE  Outcome(Restore(Load(e, row), data.running, data.uuid, version),
                   e, row, data, version)
  <1> DEFINE status == RunningStatus(data.running)
             event == [name |-> "EngineRestored", engine |-> e,
                       version |-> ToStreamId(version),
                       uuid |-> data.uuid, status |-> status]
             back == [id |-> e, uuid |-> data.uuid, status |-> status,
                      version |-> version, events |-> {event}]
  <1>1. Load(e, row) \in Aggregate /\ Store(Load(e, row)) = row
    BY LoadType
  <1>2. status \in EngineStatus /\ data.uuid \in MaybeUuid
    BY RunningStatusType DEF EngineStatus, Payload
  <1>3. row.version \in Version /\ Store(back) \in Row /\ row # NoRow
    BY <1>2, NoRowAssumption DEF Row, Store
  <1>4. event \in DomainEvent
    BY <1>2, VersionRoundTrip DEF DomainEvent, EventNames
  <1>5. back \in Aggregate
    BY <1>2, <1>4 DEF Aggregate
  <1>6. Describes(event, row, Store(back))
    BY <1>3, NoRowAssumption DEF Describes, Store
  <1>7. CASE IsNewer(row.version, version)
    <2>1. Restore(Load(e, row), data.running, data.uuid, version) = back
      BY <1>7 DEF Restore, Load
    <2> QED
      BY <1>5, <1>6, <2>1 DEF back, Outcome
  <1>8. CASE ~IsNewer(row.version, version)
    <2>1. Restore(Load(e, row), data.running, data.uuid, version) = Load(e, row)
      BY <1>8 DEF Restore, Load
    <2>2. ~RowOlder(row.version, version)
      BY <1>3, <1>8, GuardsAgree
    <2> QED
      BY <1>1, <2>1, <2>2 DEF Load, Outcome
  <1> QED
    BY <1>7, <1>8

\* update, on a live row: an event only if the visible state changes.
LEMMA UpdateOutcome ==
    ASSUME NEW e \in EngineIds, NEW row \in Row, NEW version \in Version,
           NEW data \in Payload, row.status # "dead"
    PROVE  Outcome(Update(Load(e, row), data.running, data.uuid, version),
                   e, row, data, version)
  <1> DEFINE status == RunningStatus(data.running)
             same == row.status = status /\ row.uuid = data.uuid
             event == [name |-> "EngineUpdated", engine |-> e,
                       version |-> ToStreamId(version),
                       uuid |-> data.uuid, status |-> status]
             moved == [id |-> e, uuid |-> data.uuid, status |-> status,
                       version |-> version,
                       events |-> IF same THEN {} ELSE {event}]
  <1>1. Load(e, row) \in Aggregate /\ Store(Load(e, row)) = row
    BY LoadType
  <1>2. status \in EngineStatus /\ data.uuid \in MaybeUuid
    BY RunningStatusType DEF EngineStatus, Payload
  <1>3. row.version \in Version /\ Store(moved) \in Row /\ row # NoRow
    BY <1>2, NoRowAssumption DEF Row, Store
  <1>4. event \in DomainEvent
    BY <1>2, VersionRoundTrip DEF DomainEvent, EventNames
  <1>5. moved \in Aggregate
    BY <1>2, <1>4 DEF Aggregate
  <1>6. ~same => Describes(event, row, Store(moved))
    BY <1>3, NoRowAssumption DEF Describes, Store
  <1>7. CASE IsNewer(row.version, version)
    <2>1. Update(Load(e, row), data.running, data.uuid, version) = moved
      BY <1>7 DEF Update, Load
    <2> QED
      BY <1>5, <1>6, <2>1 DEF moved, Outcome
  <1>8. CASE ~IsNewer(row.version, version)
    <2>1. Update(Load(e, row), data.running, data.uuid, version) = Load(e, row)
      BY <1>8 DEF Update, Load
    <2>2. ~RowOlder(row.version, version)
      BY <1>3, <1>8, GuardsAgree
    <2> QED
      BY <1>1, <2>1, <2>2 DEF Load, Outcome
  <1> QED
    BY <1>7, <1>8

\* upsert: nothing on a row that is already at this version or a later one;
\* otherwise the aggregate shows the payload, and what it records is true of
\* the row that was read.
LEMMA UpsertedOutcome ==
    ASSUME NEW e \in EngineIds, NEW row \in Row \cup {NoRow},
           NEW data \in Payload, NEW version \in Version
    PROVE  LET eng == Upserted(e, row, data, version)
           IN  /\ eng \in Aggregate
               /\ eng.id = e
               /\ row = NoRow => eng.events = {}
               /\ \/ /\ row # NoRow
                     /\ Store(eng) = row /\ eng.events = {}
                     /\ ~RowOlder(row.version, version)
                  \/ /\ eng.version = version
                     /\ eng.uuid = data.uuid
                     /\ eng.status \in {"ready", RunningStatus(data.running)}
                     /\ \A ev \in eng.events :
                           ev.engine = e /\ Describes(ev, row, Store(eng))
  <1>1. CASE row = NoRow
    BY <1>1 DEF Upserted, NewEngine, Aggregate, EngineStatus, Payload
  <1>2. CASE row # NoRow
    <2>1. row \in Row
      BY <1>2
    <2>2. ASSUME row.status = "dead"
          PROVE  Outcome(Upserted(e, row, data, version), e, row, data, version)
      <3>1. Upserted(e, row, data, version)
               = Restore(Load(e, row), data.running, data.uuid, version)
        BY <1>2, <2>2 DEF Upserted
      <3> QED
        BY <2>1, <2>2, <3>1, RestoreOutcome
    <2>3. ASSUME row.status # "dead"
          PROVE  Outcome(Upserted(e, row, data, version), e, row, data, version)
      <3>1. Upserted(e, row, data, version)
               = Update(Load(e, row), data.running, data.uuid, version)
        BY <1>2, <2>3 DEF Upserted
      <3> QED
        BY <2>1, <2>3, <3>1, UpdateOutcome
    <2>4. Outcome(Upserted(e, row, data, version), e, row, data, version)
      BY <2>2, <2>3
    <2> QED
      BY <1>2, <2>4 DEF Outcome
  <1> QED
    BY <1>1, <1>2

-----------------------------------------------------------------------------
(***************************************************************************)
(* Type correctness.                                                       *)
(***************************************************************************)

\* What the handlers read from a stream entry.
LEMMA EntryType ==
    ASSUME TypeOK, NEW id \in StreamIds
    PROVE  /\ EngineOf(id) \in EngineIds
           /\ FromStreamId(id) \in Version
           /\ ToStreamId(FromStreamId(id)) = id
           /\ stream[id].event \in {"hset", "expired", "other"}
           /\ stream[id].event = "hset" => stream[id].data \in Payload
  BY StreamAssumption, PayloadAssumption, StreamIdRoundTrip
     DEF TypeOK, Entry, HsetEntry, ExpiredEntry, OtherEntry, EngineOf

\* store() adds well-formed records, and only for events of the aggregate.
LEMMA WithRecordsType ==
    ASSUME NEW box \in SUBSET OutboxRecord, NEW id \in StreamIds,
           NEW eng \in Aggregate
    PROVE  /\ WithRecords(box, id, eng) \in SUBSET OutboxRecord
           /\ \A r \in WithRecords(box, id, eng) \ box :
                 r.caused_by = id /\ r.event \in eng.events
  <1> DEFINE Record(ev) == [id |-> OutboxKey(id, ev), caused_by |-> id, event |-> ev]
  <1>1. ASSUME NEW ev \in eng.events
        PROVE  Record(ev) \in OutboxRecord
    <2>1. ev \in DomainEvent
      BY DEF Aggregate
    <2> QED
      BY <2>1 DEF OutboxRecord, OutboxKey, EventId, DomainEvent
  <1> QED
    BY <1>1 DEF WithRecords

\* get_for_update leaves a well-formed transaction.
LEMMA OpenType ==
    ASSUME TypeOK, NEW w \in Workers, NEW id \in StreamIds,
           NEW locked \in BOOLEAN, NEW eng \in Aggregate, Open(w, id, locked, eng)
    PROVE  tx' \in [Workers -> Tx \cup {Idle}]
  BY DEF Open, TypeOK, Tx

\* The empty tables are well-formed.
LEMMA InitType == Init => TypeOK
  BY DEF Init, TypeOK

\* Every statement, commit and rollback keeps them so.
LEMMA TypeStep == TypeOK /\ [Next]_vars => TypeOK'
  <1> SUFFICES ASSUME TypeOK, [Next]_vars
               PROVE  TypeOK'
    OBVIOUS
  <1>1. ASSUME NEW w \in Workers, NEW id \in StreamIds, FetchUpsert(w, id)
        PROVE  TypeOK'
    <2> DEFINE e == EngineOf(id)
               eng == Upserted(e, engines[e], stream[id].data, FromStreamId(id))
    <2>1. e \in EngineIds /\ FromStreamId(id) \in Version /\ stream[id].data \in Payload
      BY <1>1, EntryType DEF FetchUpsert
    <2>2. engines[e] \in Row \cup {NoRow}
      BY <2>1 DEF TypeOK
    <2> HIDE DEF e
    <2>3. eng \in Aggregate
      BY <2>1, <2>2, UpsertedOutcome
    <2>4. Open(w, id, Exists(e), eng) /\ Exists(e) \in BOOLEAN
      BY <1>1 DEF FetchUpsert, Exists, e
    <2> HIDE DEF eng
    <2>5. tx' \in [Workers -> Tx \cup {Idle}]
      BY <2>3, <2>4, OpenType
    <2> QED
      BY <1>1, <2>5 DEF FetchUpsert, TypeOK
  <1>2. ASSUME NEW w \in Workers, NEW id \in StreamIds, FetchMarkDead(w, id)
        PROVE  TypeOK'
    <2> DEFINE e == EngineOf(id)
               eng == MarkDead(Load(e, engines[e]), FromStreamId(id))
    <2>1. e \in EngineIds /\ FromStreamId(id) \in Version
      BY EntryType
    <2>2. engines[e] \in Row
      BY <1>2, <2>1 DEF FetchMarkDead, TypeOK, Exists
    <2> HIDE DEF e
    <2>3. eng \in Aggregate
      BY <2>1, <2>2, MarkDeadOutcome
    <2>4. Open(w, id, TRUE, eng)
      BY <1>2 DEF FetchMarkDead, e
    <2> HIDE DEF eng
    <2>5. tx' \in [Workers -> Tx \cup {Idle}]
      BY <2>3, <2>4, OpenType
    <2> QED
      BY <1>2, <2>5 DEF FetchMarkDead, TypeOK
  <1>3. ASSUME NEW w \in Workers, NEW id \in StreamIds, MarkDeadMissing(w, id)
        PROVE  TypeOK'
    BY <1>3 DEF MarkDeadMissing, TypeOK
  <1>4. ASSUME NEW w \in Workers, Save(w)
        PROVE  TypeOK'
    <2>1. tx[w] \in Tx
      BY <1>4 DEF Save, TypeOK
    <2>2. Yields(engines[tx[w].engine.id], tx[w].engine.version) \in BOOLEAN
      BY DEF Yields
    <2>3. tx'[w] \in Tx
      BY <1>4, <2>1, <2>2 DEF Save, TypeOK, Tx
    <2> QED
      BY <1>4, <2>3 DEF Save, TypeOK
  <1>5. ASSUME NEW w \in Workers, Commit(w)
        PROVE  TypeOK'
    <2> DEFINE t == tx[w]
    <2>1. t \in Tx
      BY <1>5 DEF Commit, TypeOK
    <2>2. t.id \in StreamIds /\ t.engine \in Aggregate /\ Store(t.engine) \in Row
      BY <2>1, StoreType DEF Tx
    <2>3. engines' \in [EngineIds -> Row \cup {NoRow}]
      BY <1>5, <2>2 DEF Commit, TypeOK
    <2>4. outbox' \subseteq OutboxRecord
      BY <1>5, <2>2, WithRecordsType DEF Commit, TypeOK
    <2> QED
      BY <1>5, <2>2, <2>3, <2>4 DEF Commit, TypeOK
  <1>6. ASSUME NEW w \in Workers, Abort(w)
        PROVE  TypeOK'
    BY <1>6 DEF Abort, TypeOK
  <1>7. CASE RemoveDead
    BY <1>7 DEF RemoveDead, TypeOK
  <1>8. CASE UNCHANGED vars
    BY <1>8 DEF vars, TypeOK
  <1> QED
    BY <1>1, <1>2, <1>3, <1>4, <1>5, <1>6, <1>7, <1>8 DEF Next, Ignore

\* Every variable keeps its type, so the tables never hold a malformed row or
\* record and a transaction never leaves its stages.
THEOREM TypeCorrect == Spec => []TypeOK
  BY InitType, TypeStep, PTL DEF Spec

-----------------------------------------------------------------------------
(***************************************************************************)
(* The inductive invariant.  A transaction is disturbed only by a step     *)
(* that changes the row it is about or gives another one that row's lock;  *)
(* the lemmas say when neither happens.                                    *)
(***************************************************************************)

\* The parts of an open transaction.
LEMMA TxType ==
    ASSUME TypeOK, NEW w \in Workers, tx[w] # Idle
    PROVE  /\ tx[w] \in Tx
           /\ tx[w].id \in StreamIds
           /\ tx[w].engine \in Aggregate
           /\ tx[w].engine.id \in EngineIds
           /\ tx[w].engine.version \in Version
           /\ Store(tx[w].engine) \in Row
           /\ engines[tx[w].engine.id] \in Row \cup {NoRow}
  BY StoreType DEF TypeOK, Tx, Aggregate

\* A transaction whose row is left alone stays consistent when another worker
\* opens, advances or ends a transaction, unless that takes the same row.
LEMMA ConsistentStable ==
    ASSUME TypeOK, NEW w \in Workers, NEW o \in Workers \ {w},
           tx[o] # Idle, Consistent(o),
           stream' = stream, NEW t, tx' = [tx EXCEPT ![w] = t],
           t = Idle \/ (t.locked /\ tx[o].locked => t.engine.id # tx[o].engine.id),
           tx[o].locked => engines'[tx[o].engine.id] = engines[tx[o].engine.id]
    PROVE  tx'[o] = tx[o] /\ Consistent(o)'
  <1>1. tx'[o] = tx[o]
    BY DEF TypeOK
  <1>2. tx'[w] = t /\ \A x \in Workers \ {w} : tx'[x] = tx[x]
    BY DEF TypeOK
  <1> DEFINE e == tx[o].engine.id
  <1>3. tx[o].locked => ~HeldByOther(o, e)'
    <2> SUFFICES ASSUME tx[o].locked, NEW x \in Workers \ {o},
                        tx'[x] # Idle, tx'[x].locked, tx'[x].engine.id = e
                 PROVE  FALSE
      BY <1>1 DEF HeldByOther
    <2>1. CASE x = w
      BY <1>2, <2>1
    <2>2. CASE x # w
      BY <1>2, <2>2 DEF Consistent, HeldByOther
    <2> QED
      BY <2>1, <2>2
  <1>4. Reflects(e, Store(tx[o].engine))'
    BY <1>1 DEF Consistent, Reflects, EngineOf
  <1> QED
    BY <1>1, <1>3, <1>4 DEF Consistent, EngineOf

\* The transaction a fetch opens is consistent, whichever method it called.
LEMMA FetchConsistent ==
    ASSUME IInv, NEW w \in Workers, NEW id \in StreamIds,
           tx[w] = Idle, NEW locked \in BOOLEAN, NEW eng \in Aggregate,
           Open(w, id, locked, eng),
           stream' = stream, engines' = engines,
           eng.id = EngineOf(id),
           Reflects(eng.id, Store(eng)),
           ~RowOlder(eng.version, FromStreamId(id)),
           locked => ~HeldByOther(w, eng.id),
           \A ev \in eng.events :
              locked /\ ev.engine = eng.id /\ Describes(ev, engines[eng.id], Store(eng))
    PROVE  TransactionsConsistent'
  <1> DEFINE t == [id |-> id, stage |-> "fetched", locked |-> locked,
                   engine |-> eng, changed |-> FALSE]
  <1>1. tx' = [tx EXCEPT ![w] = t]
    BY DEF Open
  <1> SUFFICES ASSUME NEW o \in Workers, tx'[o] # Idle
               PROVE  Consistent(o)'
    BY DEF TransactionsConsistent
  <1>2. CASE o = w
    <2>1. tx'[w] = t /\ \A x \in Workers \ {w} : tx'[x] = tx[x]
      BY <1>1 DEF IInv, TypeOK
    <2>2. locked => ~HeldByOther(w, eng.id)'
      BY <2>1 DEF HeldByOther
    <2>3. Reflects(eng.id, Store(eng))'
      BY DEF Reflects, EngineOf
    <2> QED
      BY <1>2, <2>1, <2>2, <2>3 DEF Consistent, EngineOf
  <1>3. CASE o # w
    <2>1. tx[o] # Idle /\ tx'[o] = tx[o]
      BY <1>1, <1>3 DEF IInv, TypeOK
    <2>2. Consistent(o)
      BY <2>1 DEF IInv, TransactionsConsistent
    <2>3. t.locked /\ tx[o].locked => t.engine.id # tx[o].engine.id
      BY <1>3, <2>1 DEF HeldByOther
    <2> QED
      BY <1>1, <1>3, <2>1, <2>2, <2>3, ConsistentStable DEF IInv
  <1> QED
    BY <1>2, <1>3

\* upsert decides from a row that is locked, or from none and records nothing.
LEMMA FetchUpsertKeeps ==
    ASSUME IInv, NEW w \in Workers, NEW id \in StreamIds, FetchUpsert(w, id)
    PROVE  TransactionsConsistent'
  <1> DEFINE e == EngineOf(id)
             row == engines[e]
             version == FromStreamId(id)
             eng == Upserted(e, row, stream[id].data, version)
  <1>1. /\ e \in EngineIds /\ version \in Version /\ ToStreamId(version) = id
        /\ stream[id].event = "hset" /\ stream[id].data \in Payload
    BY EntryType DEF IInv, FetchUpsert
  <1>2. row \in Row \cup {NoRow} /\ (row # NoRow => Reflects(e, row))
    BY <1>1 DEF IInv, TypeOK, RowReflectsEntry, Exists
  <1>3. /\ tx[w] = Idle
        /\ Open(w, id, Exists(e), eng)
        /\ stream' = stream /\ engines' = engines
        /\ Exists(e) => ~HeldByOther(w, e)
        /\ Exists(e) <=> row # NoRow
    BY DEF FetchUpsert, Exists
  <1> HIDE DEF e, row, version
  <1>4. /\ eng \in Aggregate
        /\ eng.id = e
        /\ row = NoRow => eng.events = {}
        /\ \/ /\ row # NoRow
              /\ Store(eng) = row /\ eng.events = {}
              /\ ~RowOlder(row.version, version)
           \/ /\ eng.version = version
              /\ eng.uuid = stream[id].data.uuid
              /\ eng.status \in {"ready", RunningStatus(stream[id].data.running)}
              /\ \A ev \in eng.events :
                    ev.engine = e /\ Describes(ev, row, Store(eng))
    BY <1>1, <1>2, UpsertedOutcome
  <1> HIDE DEF eng
  <1>5. Store(eng).version = eng.version /\ Store(eng).uuid = eng.uuid
           /\ Store(eng).status = eng.status
    BY DEF Store
  <1>6. Reflects(e, Store(eng))
    BY <1>1, <1>2, <1>4, <1>5 DEF Reflects, EngineOf, e
  <1>7. ~RowOlder(eng.version, version)
    BY <1>1, <1>4, <1>5, VersionOrder
  <1>8. \A ev \in eng.events :
           Exists(e) /\ ev.engine = e /\ Describes(ev, engines[e], Store(eng))
    BY <1>3, <1>4 DEF row
  <1>9. eng.id = EngineOf(id) /\ Exists(e) \in BOOLEAN /\ version = FromStreamId(id)
    BY <1>4 DEF e, Exists, version
  <1> QED
    BY <1>3, <1>4, <1>6, <1>7, <1>8, <1>9, FetchConsistent

\* mark_dead decides from a row that is locked.
LEMMA FetchMarkDeadKeeps ==
    ASSUME IInv, NEW w \in Workers, NEW id \in StreamIds, FetchMarkDead(w, id)
    PROVE  TransactionsConsistent'
  <1> DEFINE e == EngineOf(id)
             row == engines[e]
             version == FromStreamId(id)
             eng == MarkDead(Load(e, row), version)
  <1>1. /\ e \in EngineIds /\ version \in Version /\ ToStreamId(version) = id
        /\ stream[id].event = "expired"
    BY EntryType DEF IInv, FetchMarkDead
  <1>2. row \in Row /\ Reflects(e, row)
    BY <1>1 DEF IInv, TypeOK, RowReflectsEntry, Exists, FetchMarkDead
  <1>3. /\ tx[w] = Idle
        /\ Open(w, id, TRUE, eng)
        /\ stream' = stream /\ engines' = engines
        /\ ~HeldByOther(w, e)
    BY DEF FetchMarkDead
  <1> HIDE DEF e, row, version
  <1>4. /\ eng \in Aggregate
        /\ eng.id = e
        /\ \/ Store(eng) = row /\ eng.events = {} /\ ~RowOlder(row.version, version)
           \/ /\ eng.version = version
              /\ eng.status = "dead"
              /\ \A ev \in eng.events :
                    ev.engine = e /\ Describes(ev, row, Store(eng))
    BY <1>1, <1>2, MarkDeadOutcome
  <1> HIDE DEF eng
  <1>5. Store(eng).version = eng.version /\ Store(eng).status = eng.status
    BY DEF Store
  <1>6. Reflects(e, Store(eng))
    BY <1>1, <1>2, <1>4, <1>5 DEF Reflects, EngineOf, e
  <1>7. ~RowOlder(eng.version, version)
    BY <1>1, <1>4, <1>5, VersionOrder
  <1>8. \A ev \in eng.events :
           ev.engine = e /\ Describes(ev, engines[e], Store(eng))
    BY <1>4 DEF row
  <1>9. eng.id = EngineOf(id) /\ version = FromStreamId(id)
    BY <1>4 DEF e, version
  <1> QED
    BY <1>3, <1>4, <1>6, <1>7, <1>8, <1>9, FetchConsistent

\* save() takes the row, so its answer stays right.
LEMMA SaveKeeps ==
    ASSUME IInv, NEW w \in Workers, Save(w)
    PROVE  TransactionsConsistent'
  <1> DEFINE e == tx[w].engine.id
             changed == Yields(engines[e], tx[w].engine.version)
             t == [tx[w] EXCEPT !.stage = "saved", !.locked = TRUE,
                                !.changed = changed]
  <1>1. /\ tx' = [tx EXCEPT ![w] = t]
        /\ tx[w] # Idle /\ ~HeldByOther(w, e)
        /\ stream' = stream /\ engines' = engines
    BY DEF Save, IInv, TypeOK
  <1>2. /\ tx[w] \in Tx
        /\ t.id = tx[w].id /\ t.stage = "saved" /\ t.locked
        /\ t.engine = tx[w].engine /\ t.changed = changed
    BY <1>1, TxType DEF IInv, Tx
  <1>3. Consistent(w)
    BY <1>1 DEF IInv, TransactionsConsistent
  <1> HIDE DEF t
  <1> SUFFICES ASSUME NEW o \in Workers, tx'[o] # Idle
               PROVE  Consistent(o)'
    BY DEF TransactionsConsistent
  <1>4. CASE o = w
    <2>1. tx'[w] = t /\ \A x \in Workers \ {w} : tx'[x] = tx[x]
      BY <1>1 DEF IInv, TypeOK
    <2>2. ~HeldByOther(w, e)'
      BY <1>1, <1>2, <2>1 DEF HeldByOther
    <2>3. Reflects(e, Store(tx[w].engine))'
      BY <1>1, <1>2, <1>3, <2>1 DEF Reflects, EngineOf, Consistent
    <2> QED
      BY <1>1, <1>2, <1>3, <1>4, <2>1, <2>2, <2>3 DEF Consistent, EngineOf, changed
  <1>5. CASE o # w
    <2>1. tx[o] # Idle /\ tx'[o] = tx[o]
      BY <1>1, <1>5 DEF IInv, TypeOK
    <2>2. Consistent(o)
      BY <2>1 DEF IInv, TransactionsConsistent
    <2>3. t.locked /\ tx[o].locked => t.engine.id # tx[o].engine.id
      BY <1>1, <1>2, <1>5, <2>1 DEF HeldByOther
    <2> QED
      BY <1>1, <1>5, <2>1, <2>2, <2>3, ConsistentStable DEF IInv
  <1> QED
    BY <1>4, <1>5

\* Ending a transaction disturbs no other: it only touched a row it held.
LEMMA EndKeeps ==
    ASSUME IInv, NEW w \in Workers, tx[w] # Idle, stream' = stream,
           tx' = [tx EXCEPT ![w] = Idle],
           \A e \in EngineIds :
              engines'[e] # engines[e] => tx[w].locked /\ e = tx[w].engine.id
    PROVE  TransactionsConsistent'
  <1> SUFFICES ASSUME NEW o \in Workers, tx'[o] # Idle
               PROVE  Consistent(o)'
    BY DEF TransactionsConsistent
  <1>1. o # w /\ tx'[o] = tx[o] /\ tx[o] # Idle
    BY DEF IInv, TypeOK
  <1>2. Consistent(o) /\ Consistent(w)
    BY <1>1 DEF IInv, TransactionsConsistent
  <1>3. tx[o].engine.id \in EngineIds
    BY <1>1, TxType DEF IInv
  <1>4. tx[o].locked => engines'[tx[o].engine.id] = engines[tx[o].engine.id]
    BY <1>1, <1>2, <1>3 DEF Consistent, HeldByOther
  <1> QED
    BY <1>1, <1>2, <1>4, ConsistentStable DEF IInv

\* remove_dead waits for held rows, so it pulls none from under a transaction.
LEMMA RemoveDeadKeeps ==
    ASSUME IInv, RemoveDead
    PROVE  TransactionsConsistent'
  <1> SUFFICES ASSUME NEW o \in Workers, tx'[o] # Idle
               PROVE  Consistent(o)'
    BY DEF TransactionsConsistent
  <1>1. PICK S \in SUBSET DeadRows :
           /\ \A e \in S : ~Held(e)
           /\ engines' = [e \in EngineIds |-> IF e \in S THEN NoRow ELSE engines[e]]
           /\ UNCHANGED <<stream, outbox, tx, dropped>>
    BY DEF RemoveDead
  <1>2. tx[o] # Idle /\ Consistent(o)
    BY <1>1 DEF IInv, TransactionsConsistent
  <1> DEFINE e == tx[o].engine.id
  <1>3. e \in EngineIds
    BY <1>2, TxType DEF IInv
  <1>4. tx[o].locked => engines'[e] = engines[e]
    BY <1>1, <1>2, <1>3 DEF Held
  <1>5. Reflects(e, Store(tx[o].engine))'
    BY <1>1, <1>2 DEF Consistent, Reflects, EngineOf
  <1>6. HeldByOther(o, e)' <=> HeldByOther(o, e)
    BY <1>1 DEF HeldByOther
  <1> QED
    BY <1>1, <1>2, <1>4, <1>5, <1>6 DEF Consistent, EngineOf

\* A commit leaves the row at the version of its entry or a later one, and
\* never takes it back.
LEMMA CommitAdvances ==
    ASSUME IInv, NEW w \in Workers, Commit(w)
    PROVE  LET e == EngineOf(tx[w].id)
           IN  /\ engines'[e] \in Row
               /\ ~RowOlder(engines'[e].version, FromStreamId(tx[w].id))
               /\ Exists(e) /\ engines'[e] # engines[e] =>
                     RowOlder(engines[e].version, engines'[e].version)
               /\ Exists(e) => ~RowOlder(engines'[e].version, engines[e].version)
               /\ \A x \in EngineIds : x # e => engines'[x] = engines[x]
               /\ engines'[e] # engines[e] => engines'[e] = Store(tx[w].engine)
  <1> DEFINE t == tx[w]
             e == t.engine.id
             new == Store(t.engine)
  <1>1. t # Idle /\ t.stage = "saved" /\ Consistent(w)
    BY DEF Commit, IInv, TransactionsConsistent
  <1>2. /\ t.id \in StreamIds /\ e \in EngineIds /\ t.engine.version \in Version
        /\ new \in Row /\ new.version = t.engine.version
        /\ engines[e] \in Row \cup {NoRow}
    BY <1>1, TxType DEF IInv, Store
  <1>3. e = EngineOf(t.id) /\ FromStreamId(t.id) \in Version
    BY <1>1, <1>2, EntryType DEF Consistent, IInv
  <1>4. ~RowOlder(t.engine.version, FromStreamId(t.id))
    BY <1>1 DEF Consistent
  <1>5. t.changed <=> Yields(engines[e], t.engine.version)
    BY <1>1 DEF Consistent
  <1>6. \A x \in EngineIds : x # e => engines'[x] = engines[x]
    BY DEF Commit, IInv, TypeOK
  <1>7. CASE t.changed
    <2>1. engines'[e] = new
      BY <1>2, <1>7 DEF Commit, IInv, TypeOK
    <2>2. Exists(e) => RowOlder(engines[e].version, new.version)
      BY <1>2, <1>5, <1>7 DEF Yields, Exists
    <2>3. Exists(e) => engines[e].version \in Version
      BY <1>2 DEF Exists, Row
    <2>4. Exists(e) => ~RowOlder(new.version, engines[e].version)
      BY <1>2, <2>2, <2>3, VersionOrder
    <2> QED
      BY <1>2, <1>3, <1>4, <1>6, <2>1, <2>2, <2>4
  <1>8. CASE ~t.changed
    <2>1. engines' = engines
      BY <1>8 DEF Commit
    <2>2. engines[e] \in Row /\ ~RowOlder(engines[e].version, t.engine.version)
      BY <1>2, <1>5, <1>8 DEF Yields
    <2>3. engines[e].version \in Version
      BY <2>2 DEF Row
    <2>4. ~RowOlder(engines[e].version, FromStreamId(t.id))
      BY <1>2, <1>3, <1>4, <2>2, <2>3, NotOlderTransitive
    <2>5. ~RowOlder(engines[e].version, engines[e].version)
      BY <2>3, VersionOrder
    <2> QED
      BY <1>3, <2>1, <2>2, <2>4, <2>5
  <1> QED
    BY <1>7, <1>8

\* The commit itself.
LEMMA CommitKeeps ==
    ASSUME IInv, NEW w \in Workers, Commit(w)
    PROVE  RowReflectsEntry' /\ AppliedNotLost' /\ TransactionsConsistent'
  <1> DEFINE t == tx[w]
             e == EngineOf(t.id)
  <1>1. /\ t # Idle /\ t.stage = "saved" /\ Consistent(w)
        /\ stream' = stream /\ tx' = [tx EXCEPT ![w] = Idle]
        /\ applied' = applied \cup {t.id}
    BY DEF Commit, IInv, TransactionsConsistent
  <1>2. e = t.engine.id /\ e \in EngineIds /\ t.id \in StreamIds
    BY <1>1, TxType DEF Consistent, IInv
  <1>3. Reflects(e, Store(t.engine)) /\ t.locked
    BY <1>1, <1>2 DEF Consistent
  <1>4. /\ engines'[e] \in Row
        /\ ~RowOlder(engines'[e].version, FromStreamId(t.id))
        /\ Exists(e) => ~RowOlder(engines'[e].version, engines[e].version)
        /\ \A x \in EngineIds : x # e => engines'[x] = engines[x]
        /\ engines'[e] # engines[e] => engines'[e] = Store(t.engine)
    BY CommitAdvances
  <1>5. RowReflectsEntry'
    <2> SUFFICES ASSUME NEW x \in EngineIds, engines'[x] # NoRow
                 PROVE  Reflects(x, engines'[x])
      BY <1>1 DEF RowReflectsEntry, Exists, Reflects, EngineOf
    <2>1. CASE engines'[x] = engines[x]
      BY <2>1 DEF IInv, RowReflectsEntry, Exists
    <2>2. CASE engines'[x] # engines[x]
      BY <1>3, <1>4, <2>2
    <2> QED
      BY <2>1, <2>2
  <1>6. AppliedNotLost'
    <2> SUFFICES ASSUME NEW id \in applied'
                 PROVE  /\ engines'[EngineOf(id)] # NoRow
                        /\ ~RowOlder(engines'[EngineOf(id)].version, FromStreamId(id))
      BY <1>1 DEF AppliedNotLost, Exists, EngineOf
    <2>1. CASE id = t.id
      BY <1>4, <2>1, NoRowAssumption
    <2>2. CASE id # t.id
      <3> DEFINE x == EngineOf(id)
      <3>1. id \in applied /\ id \in StreamIds
        BY <1>1, <2>2 DEF IInv, TypeOK
      <3>2. x \in EngineIds /\ FromStreamId(id) \in Version
        BY <3>1, EntryType DEF IInv
      <3>3. Exists(x) /\ ~RowOlder(engines[x].version, FromStreamId(id))
        BY <3>1 DEF IInv, AppliedNotLost
      <3>4. CASE x # e
        BY <1>4, <3>2, <3>3, <3>4 DEF Exists
      <3>5. CASE x = e
        <4>1. engines[x].version \in Version /\ engines'[x].version \in Version
          BY <1>4, <3>2, <3>3, <3>5 DEF IInv, TypeOK, Exists, Row
        <4> QED
          BY <1>4, <3>2, <3>3, <3>5, <4>1, NotOlderTransitive, NoRowAssumption
      <3> QED
        BY <3>4, <3>5
    <2> QED
      BY <2>1, <2>2
  <1>7. TransactionsConsistent'
    <2>1. \A x \in EngineIds :
             engines'[x] # engines[x] => t.locked /\ x = t.engine.id
      BY <1>2, <1>3, <1>4
    <2> QED
      BY <1>1, <2>1, EndKeeps
  <1> QED
    BY <1>5, <1>6, <1>7

\* Steps that leave the tables alone keep what is said about them.
LEMMA TablesKept ==
    ASSUME IInv, stream' = stream, engines' = engines, applied' = applied
    PROVE  RowReflectsEntry' /\ AppliedNotLost'
  BY DEF IInv, RowReflectsEntry, AppliedNotLost, Reflects, Exists, EngineOf

\* remove_dead forgets rows together with the entries applied to them.
LEMMA RemoveDeadKeepsTables ==
    ASSUME IInv, RemoveDead
    PROVE  RowReflectsEntry' /\ AppliedNotLost'
  <1>1. PICK S \in SUBSET DeadRows :
           /\ engines' = [e \in EngineIds |-> IF e \in S THEN NoRow ELSE engines[e]]
           /\ applied' = {id \in applied : EngineOf(id) \notin S}
           /\ stream' = stream
    BY DEF RemoveDead
  <1>2. RowReflectsEntry'
    BY <1>1 DEF IInv, RowReflectsEntry, Reflects, Exists, EngineOf
  <1>3. AppliedNotLost'
    <2> SUFFICES ASSUME NEW id \in applied'
                 PROVE  /\ engines'[EngineOf(id)] # NoRow
                        /\ ~RowOlder(engines'[EngineOf(id)].version, FromStreamId(id))
      BY <1>1 DEF AppliedNotLost, Exists, EngineOf
    <2>1. id \in applied /\ EngineOf(id) \notin S /\ EngineOf(id) \in EngineIds
      BY <1>1, EntryType DEF IInv, TypeOK
    <2> QED
      BY <1>1, <2>1 DEF IInv, AppliedNotLost, Exists
  <1> QED
    BY <1>2, <1>3

\* Every step keeps the invariant: one case per action.
LEMMA Inductive == IInv /\ [Next]_vars => IInv'
  <1> SUFFICES ASSUME IInv, [Next]_vars
               PROVE  IInv'
    OBVIOUS
  <1>0. TypeOK'
    BY TypeStep DEF IInv
  <1>1. ASSUME NEW w \in Workers, NEW id \in StreamIds, FetchUpsert(w, id)
        PROVE  IInv'
    <2>1. stream' = stream /\ engines' = engines /\ applied' = applied
      BY <1>1 DEF FetchUpsert
    <2> QED
      BY <1>0, <1>1, <2>1, FetchUpsertKeeps, TablesKept DEF IInv
  <1>2. ASSUME NEW w \in Workers, NEW id \in StreamIds, FetchMarkDead(w, id)
        PROVE  IInv'
    <2>1. stream' = stream /\ engines' = engines /\ applied' = applied
      BY <1>2 DEF FetchMarkDead
    <2> QED
      BY <1>0, <1>2, <2>1, FetchMarkDeadKeeps, TablesKept DEF IInv
  <1>3. ASSUME NEW w \in Workers, NEW id \in StreamIds, MarkDeadMissing(w, id)
        PROVE  IInv'
    <2>1. stream' = stream /\ engines' = engines /\ applied' = applied /\ tx' = tx
      BY <1>3 DEF MarkDeadMissing
    <2>2. TransactionsConsistent'
      BY <2>1 DEF IInv, TransactionsConsistent, Consistent, Reflects, HeldByOther, EngineOf
    <2> QED
      BY <1>0, <2>1, <2>2, TablesKept DEF IInv
  <1>4. ASSUME NEW w \in Workers, Save(w)
        PROVE  IInv'
    <2>1. stream' = stream /\ engines' = engines /\ applied' = applied
      BY <1>4 DEF Save
    <2> QED
      BY <1>0, <1>4, <2>1, SaveKeeps, TablesKept DEF IInv
  <1>5. ASSUME NEW w \in Workers, Commit(w)
        PROVE  IInv'
    BY <1>0, <1>5, CommitKeeps DEF IInv
  <1>6. ASSUME NEW w \in Workers, Abort(w)
        PROVE  IInv'
    <2>1. /\ tx[w] # Idle /\ tx' = [tx EXCEPT ![w] = Idle]
          /\ stream' = stream /\ engines' = engines /\ applied' = applied
      BY <1>6 DEF Abort
    <2> QED
      BY <1>0, <2>1, EndKeeps, TablesKept DEF IInv
  <1>7. CASE RemoveDead
    BY <1>0, <1>7, RemoveDeadKeeps, RemoveDeadKeepsTables DEF IInv
  <1>8. CASE UNCHANGED vars
    <2>1. stream' = stream /\ engines' = engines /\ applied' = applied /\ tx' = tx
      BY <1>8 DEF vars
    <2>2. TransactionsConsistent'
      BY <2>1 DEF IInv, TransactionsConsistent, Consistent, Reflects, HeldByOther, EngineOf
    <2> QED
      BY <1>0, <2>1, <2>2, TablesKept DEF IInv
  <1> QED
    BY <1>1, <1>2, <1>3, <1>4, <1>5, <1>6, <1>7, <1>8 DEF Next, Ignore

\* It holds of the empty tables.
LEMMA InitIInv == Init => IInv
  <1> SUFFICES ASSUME Init PROVE IInv
    OBVIOUS
  <1>1. TypeOK
    BY InitType
  <1>2. RowReflectsEntry /\ AppliedNotLost /\ TransactionsConsistent
    BY DEF Init, RowReflectsEntry, Exists, AppliedNotLost, TransactionsConsistent
  <1> QED
    BY <1>1, <1>2 DEF IInv

\* The inductive invariant holds: types, rows that reflect their entries,
\* entries that stay applied, and transactions whose decisions are current.
THEOREM Invariance == Spec => []IInv
  BY InitIInv, Inductive, PTL DEF Spec

-----------------------------------------------------------------------------
(***************************************************************************)
(* The safety properties.                                                  *)
(***************************************************************************)

\* No committed entry is undone: however many workers handle the entries, in
\* whatever order and how often, the row of an engine stays at the newest
\* version committed for it until the engine is removed.
THEOREM NothingLost == Spec => []AppliedNotLost
  BY Invariance, PTL DEF IInv

\* A row always shows the entry that its version names.
THEOREM RowsReflectEntries == Spec => []RowReflectsEntry
  BY Invariance, PTL DEF IInv

\* A version names an entry, and an entry is about one engine.
LEMMA OwnVersions == IInv => VersionsUnique
  <1> SUFFICES ASSUME IInv, NEW e \in EngineIds, NEW f \in EngineIds, e # f, Exists(e)
               PROVE  /\ Exists(f) => engines[e].version # engines[f].version
                      /\ \A w \in Workers :
                            tx[w] # Idle /\ tx[w].engine.id = f =>
                                tx[w].engine.version # engines[e].version
    BY DEF VersionsUnique
  <1>1. EngineOf(ToStreamId(engines[e].version)) = e
    BY DEF IInv, RowReflectsEntry, Reflects
  <1>2. Exists(f) => EngineOf(ToStreamId(engines[f].version)) = f
    BY DEF IInv, RowReflectsEntry, Reflects
  <1>3. ASSUME NEW w \in Workers, tx[w] # Idle, tx[w].engine.id = f
        PROVE  EngineOf(ToStreamId(tx[w].engine.version)) = f
    BY <1>3 DEF IInv, TransactionsConsistent, Consistent, Reflects, Store
  <1> QED
    BY <1>1, <1>2, <1>3

\* No two engines ever carry the same version, so the unique constraint of the
\* table, which save() does not handle, is never hit.
THEOREM ConstraintHolds == Spec => []VersionsUnique
  BY Invariance, OwnVersions, PTL

\* A committed row is only ever replaced by one of a newer version.
THEOREM Advancing == Spec => RowsAdvance
  <1>1. IInv /\ [Next]_vars =>
          [\A e \in EngineIds :
             Exists(e) /\ engines'[e] \notin {NoRow, engines[e]} =>
                 RowOlder(engines[e].version, engines'[e].version)]_vars
    <2> SUFFICES ASSUME IInv, Next, NEW e \in EngineIds,
                        Exists(e), engines'[e] \notin {NoRow, engines[e]}
                 PROVE  RowOlder(engines[e].version, engines'[e].version)
      BY DEF vars
    <2>1. ASSUME NEW w \in Workers, Commit(w)
          PROVE  RowOlder(engines[e].version, engines'[e].version)
      BY <2>1, CommitAdvances
    <2>2. CASE RemoveDead
      BY <2>2 DEF RemoveDead, IInv, TypeOK
    <2>3. CASE engines' = engines
      BY <2>3
    <2> QED
      BY <2>1, <2>2, <2>3
         DEF Next, FetchUpsert, FetchMarkDead, MarkDeadMissing, Ignore, Save, Abort, vars
  <1> QED
    BY <1>1, Invariance, PTL DEF Spec, RowsAdvance

\* A record enters the outbox only together with the change it describes.
THEOREM EventsTruthful == Spec => EventsDescribeChanges
  <1>1. IInv /\ [Next]_vars =>
          [\A r \in outbox' \ outbox :
             LET e == r.event.engine IN Describes(r.event, engines[e], engines'[e])]_vars
    <2> SUFFICES ASSUME IInv, Next, NEW r \in outbox' \ outbox
                 PROVE  Describes(r.event, engines[r.event.engine],
                                  engines'[r.event.engine])
      BY DEF vars
    <2>1. PICK w \in Workers : Commit(w)
      BY DEF Next, FetchUpsert, FetchMarkDead, MarkDeadMissing, Ignore, Save, Abort,
             RemoveDead, vars
    <2> DEFINE t == tx[w]
               e == t.engine.id
    <2>2. /\ t # Idle /\ t.stage = "saved" /\ t.changed /\ Consistent(w)
          /\ engines' = [engines EXCEPT ![e] = Store(t.engine)]
          /\ outbox' = WithRecords(outbox, t.id, t.engine)
      BY <2>1 DEF Commit, IInv, TransactionsConsistent
    <2>3. t.id \in StreamIds /\ t.engine \in Aggregate /\ e \in EngineIds
      BY <2>2, TxType DEF IInv
    <2>4. r.event \in t.engine.events
      BY <2>2, <2>3, WithRecordsType DEF IInv, TypeOK
    <2>5. r.event.engine = e /\ Describes(r.event, engines[e], Store(t.engine))
      BY <2>2, <2>4 DEF Consistent
    <2>6. engines'[e] = Store(t.engine)
      BY <2>2, <2>3 DEF IInv, TypeOK
    <2> QED
      BY <2>5, <2>6
  <1> QED
    BY <1>1, Invariance, PTL DEF Spec, EventsDescribeChanges

-----------------------------------------------------------------------------
(***************************************************************************)
(* Refinement: EngineService implements EngineRegistry.  The three         *)
(* statements of every transaction, interleaved with those of other        *)
(* workers in any way, have the effect of handling the entry in one step   *)
(* on the row the commit replaces.  The refinement mapping is the identity *)
(* on the stream and the two tables; open transactions are invisible.      *)
(* This needs that decisions stay current.                                 *)
(***************************************************************************)

\* A transaction that is left alone, and whose row is left alone if it holds
\* it, still carries what it would decide now.
LEMMA CurrentStable ==
    ASSUME NEW o \in Workers, DecidesAsNow(o), stream' = stream, tx'[o] = tx[o],
           tx[o].locked => engines'[tx[o].engine.id] = engines[tx[o].engine.id]
    PROVE  DecidesAsNow(o)'
  BY DEF DecidesAsNow

\* A fetch opens a transaction with what it decided from the row it read.
LEMMA FetchCurrent ==
    ASSUME RInv, NEW w \in Workers, NEW id \in StreamIds,
           FetchUpsert(w, id) \/ FetchMarkDead(w, id)
    PROVE  DecisionsCurrent'
  <1> DEFINE e == EngineOf(id)
             row == engines[e]
             version == FromStreamId(id)
  <1>1. /\ e \in EngineIds /\ version \in Version
        /\ stream[id].event = "hset" => stream[id].data \in Payload
        /\ row \in Row \cup {NoRow}
    BY EntryType DEF RInv, IInv, TypeOK
  <1>2. stream' = stream /\ engines' = engines
    BY DEF FetchUpsert, FetchMarkDead
  <1>3. ASSUME NEW locked, NEW eng, Open(w, id, locked, eng)
        PROVE  /\ tx'[w].id = id /\ tx'[w].locked = locked /\ tx'[w].engine = eng
               /\ \A o \in Workers \ {w} : tx'[o] = tx[o]
    BY <1>3 DEF Open, RInv, IInv, TypeOK
  <1> SUFFICES ASSUME NEW o \in Workers, tx'[o] # Idle
               PROVE  DecidesAsNow(o)'
    BY DEF DecisionsCurrent
  <1>4. \A x \in Workers \ {w} : tx'[x] = tx[x]
    BY <1>3 DEF FetchUpsert, FetchMarkDead
  <1>5. CASE o # w
    BY <1>2, <1>4, <1>5, CurrentStable DEF RInv, DecisionsCurrent
  <1>6. CASE o = w /\ FetchUpsert(w, id)
    <2> DEFINE eng == Upserted(e, row, stream[id].data, version)
    <2>1. stream[id].event = "hset" /\ Open(w, id, Exists(e), eng)
      BY <1>6 DEF FetchUpsert
    <2>2. eng.id = e
      BY <1>1, <2>1, UpsertedOutcome
    <2>3. row = NoRow => eng = NewEngine(e, stream[id].data.uuid, version)
      BY DEF Upserted
    <2>4. row # NoRow <=> Exists(e)
      BY DEF Exists
    <2> HIDE DEF eng
    <2>5. tx'[w].id = id /\ tx'[w].locked = Exists(e) /\ tx'[w].engine = eng
      BY <1>3, <2>1
    <2> HIDE DEF e, row, version
    <2>6. DecidesAsNow(w)' <=>
             \/ /\ stream[id].event = "hset"
                /\ \/ eng = NewEngine(e, stream[id].data.uuid, version)
                   \/ Exists(e) /\ row # NoRow /\ eng = Upserted(e, row, stream[id].data, version)
             \/ /\ stream[id].event = "expired"
                /\ Exists(e) /\ row # NoRow
                /\ eng = MarkDead(Load(e, row), version)
      BY <1>2, <2>2, <2>5 DEF DecidesAsNow, row, version
    <2> QED
      BY <1>6, <2>1, <2>3, <2>4, <2>6 DEF eng
  <1>7. CASE o = w /\ FetchMarkDead(w, id)
    <2> DEFINE eng == MarkDead(Load(e, row), version)
    <2>1. stream[id].event = "expired" /\ row # NoRow /\ Open(w, id, TRUE, eng)
      BY <1>7 DEF FetchMarkDead, Exists
    <2>2. eng.id = e
      BY <1>1, <2>1, MarkDeadOutcome
    <2> HIDE DEF eng
    <2>3. tx'[w].id = id /\ tx'[w].locked = TRUE /\ tx'[w].engine = eng
      BY <1>3, <2>1
    <2> HIDE DEF e, version
    <2> QED
      BY <1>2, <1>7, <2>1, <2>2, <2>3 DEF DecidesAsNow, eng, version
  <1> QED
    BY <1>5, <1>6, <1>7

\* Ending a transaction leaves the rows that others hold alone.
LEMMA EndCurrent ==
    ASSUME RInv, NEW w \in Workers, tx[w] # Idle, stream' = stream,
           tx' = [tx EXCEPT ![w] = Idle],
           \A e \in EngineIds :
              engines'[e] # engines[e] => tx[w].locked /\ e = tx[w].engine.id
    PROVE  DecisionsCurrent'
  <1> SUFFICES ASSUME NEW o \in Workers, tx'[o] # Idle
               PROVE  DecidesAsNow(o)'
    BY DEF DecisionsCurrent
  <1>1. o # w /\ tx'[o] = tx[o] /\ tx[o] # Idle
    BY DEF RInv, IInv, TypeOK
  <1>2. Consistent(o) /\ DecidesAsNow(o) /\ tx[o].engine.id \in EngineIds
    BY <1>1, TxType DEF RInv, IInv, TransactionsConsistent, DecisionsCurrent
  <1>3. tx[o].locked => engines'[tx[o].engine.id] = engines[tx[o].engine.id]
    BY <1>1, <1>2 DEF Consistent, HeldByOther
  <1> QED
    BY <1>1, <1>2, <1>3, CurrentStable

\* The part of the refinement's invariant that IInv does not have.
LEMMA CurrentStep == RInv /\ [Next]_vars => DecisionsCurrent'
  <1> SUFFICES ASSUME RInv, [Next]_vars
               PROVE  DecisionsCurrent'
    OBVIOUS
  <1>1. ASSUME NEW w \in Workers, NEW id \in StreamIds,
               FetchUpsert(w, id) \/ FetchMarkDead(w, id)
        PROVE  DecisionsCurrent'
    BY <1>1, FetchCurrent
  <1>2. CASE stream' = stream /\ engines' = engines /\ tx' = tx
    BY <1>2 DEF RInv, DecisionsCurrent, DecidesAsNow
  <1>3. ASSUME NEW w \in Workers, Save(w)
        PROVE  DecisionsCurrent'
    <2>1. stream' = stream /\ engines' = engines
      BY <1>3 DEF Save
    <2>2. /\ tx[w] # Idle /\ tx[w] \in Tx
          /\ \A o \in Workers \ {w} : tx'[o] = tx[o]
          /\ tx'[w].id = tx[w].id /\ tx'[w].engine = tx[w].engine /\ tx'[w].locked
      BY <1>3, TxType DEF Save, RInv, IInv, TypeOK, Tx
    <2>3. ASSUME NEW o \in Workers, tx'[o] # Idle
          PROVE  DecidesAsNow(o)'
      <3>1. tx[o] # Idle /\ DecidesAsNow(o)
        BY <2>2, <2>3 DEF RInv, DecisionsCurrent
      <3> QED
        BY <2>1, <2>2, <3>1 DEF DecidesAsNow
    <2> QED
      BY <2>3 DEF DecisionsCurrent
  <1>4. ASSUME NEW w \in Workers, Commit(w)
        PROVE  DecisionsCurrent'
    <2>1. /\ tx[w] # Idle /\ Consistent(w) /\ tx[w].stage = "saved"
          /\ stream' = stream /\ tx' = [tx EXCEPT ![w] = Idle]
      BY <1>4 DEF Commit, RInv, IInv, TransactionsConsistent
    <2>2. \A e \in EngineIds :
             engines'[e] # engines[e] => tx[w].locked /\ e = tx[w].engine.id
      BY <1>4, <2>1, CommitAdvances DEF Consistent, RInv
    <2> QED
      BY <2>1, <2>2, EndCurrent
  <1>5. ASSUME NEW w \in Workers, Abort(w)
        PROVE  DecisionsCurrent'
    BY <1>5, EndCurrent DEF Abort
  <1>6. CASE RemoveDead
    <2>1. PICK S \in SUBSET DeadRows :
             /\ \A e \in S : ~Held(e)
             /\ engines' = [e \in EngineIds |-> IF e \in S THEN NoRow ELSE engines[e]]
             /\ stream' = stream /\ tx' = tx
      BY <1>6 DEF RemoveDead
    <2>2. ASSUME NEW o \in Workers, tx[o] # Idle
          PROVE  DecidesAsNow(o)'
      <3>1. tx[o].engine.id \in EngineIds
        BY <2>2, TxType DEF RInv, IInv
      <3>2. tx[o].locked => engines'[tx[o].engine.id] = engines[tx[o].engine.id]
        BY <2>1, <2>2, <3>1 DEF Held
      <3> QED
        BY <2>1, <2>2, <3>2, CurrentStable DEF RInv, DecisionsCurrent
    <2> QED
      BY <2>1, <2>2 DEF DecisionsCurrent
  <1> QED
    BY <1>1, <1>2, <1>3, <1>4, <1>5, <1>6 DEF Next, MarkDeadMissing, Ignore, vars

\* Whatever a transaction decided from the row it locked is what it would
\* decide at any later moment until it ends, its events are true of the step
\* from the committed row to its own, and no two transactions hold one row.
THEOREM DecisionsHold == Spec => []DecisionsStand
  <1>1. Init => RInv
    BY InitIInv DEF Init, RInv, DecisionsCurrent
  <1>2. RInv /\ [Next]_vars => RInv'
    BY Inductive, CurrentStep DEF RInv
  <1>3. RInv => DecisionsStand
    BY DEF RInv, IInv, DecisionsStand
  <1> QED
    BY <1>1, <1>2, <1>3, PTL DEF Spec

-----------------------------------------------------------------------------
(***************************************************************************)
(* The steps of the registry.                                              *)
(***************************************************************************)

\* The registry's copies of the operators on versions mean the same.
LEMMA SameOrder ==
    ASSUME NEW v, NEW w
    PROVE  /\ Registry!RowOlder(v, w) <=> RowOlder(v, w)
           /\ Registry!IsNewer(v, w) <=> IsNewer(v, w)
           /\ Registry!FromStreamId(v) = FromStreamId(v)
           /\ Registry!ToStreamId(v) = ToStreamId(v)
  BY DEF RowOlder, Registry!RowOlder, IsNewer, Registry!IsNewer,
         FromStreamId, Registry!FromStreamId, ToStreamId, Registry!ToStreamId

\* ... and so do those of EngineAggregate,
LEMMA SameAggregates ==
    ASSUME NEW eng, NEW running, NEW uuid, NEW version, NEW e, NEW row
    PROVE  /\ Registry!NewEngine(e, uuid, version) = NewEngine(e, uuid, version)
           /\ Registry!MarkDead(eng, version) = MarkDead(eng, version)
           /\ Registry!Restore(eng, running, uuid, version)
                = Restore(eng, running, uuid, version)
           /\ Registry!Update(eng, running, uuid, version)
                = Update(eng, running, uuid, version)
           /\ Registry!Load(e, row) = Load(e, row)
           /\ Registry!Store(eng) = Store(eng)
  <1>1. Registry!RunningStatus(running) = RunningStatus(running)
    BY DEF RunningStatus, Registry!RunningStatus
  <1>2. /\ Registry!IsNewer(eng.version, version) <=> IsNewer(eng.version, version)
        /\ Registry!ToStreamId(version) = ToStreamId(version)
    BY SameOrder
  <1> QED
    BY <1>1, <1>2 DEF NewEngine, Registry!NewEngine, MarkDead, Registry!MarkDead,
       Restore, Registry!Restore, Update, Registry!Update,
       Load, Registry!Load, Store, Registry!Store

\* ... the decision of upsert,
LEMMA SameUpserted ==
    ASSUME NEW e, NEW row, NEW data, NEW version
    PROVE  Registry!Upserted(e, row, data, version) = Upserted(e, row, data, version)
  BY SameAggregates DEF Upserted, Registry!Upserted

\* ... and what store() adds.
LEMMA SameRecords ==
    ASSUME NEW box, NEW id, NEW eng
    PROVE  Registry!WithRecords(box, id, eng) = WithRecords(box, id, eng)
  BY DEF WithRecords, Registry!WithRecords, OutboxKey, Registry!OutboxKey,
         EventId, Registry!EventId

\* The empty tables are those of an empty registry.
LEMMA InitRefines == Init => Registry!Init
  BY DEF Init, Registry!Init, Entry, Registry!Entry, HsetEntry, Registry!HsetEntry,
         ExpiredEntry, Registry!ExpiredEntry, OtherEntry, Registry!OtherEntry

\* A commit that changes the row is one of the registry's three steps: the
\* insertion of a new engine, the change that upsert or mark_dead makes of the
\* row it replaces, or the unannounced overwriting by a task that found none.
LEMMA CommitRefines ==
    ASSUME RInv, NEW w \in Workers, Commit(w), tx[w].changed
    PROVE  Registry!Next
  <1> DEFINE t == tx[w]
             id == t.id
             e == EngineOf(id)
             row == engines[e]
             version == FromStreamId(id)
  <1>1. t # Idle /\ t.stage = "saved" /\ Consistent(w) /\ DecidesAsNow(w)
    BY DEF Commit, RInv, IInv, TransactionsConsistent, DecisionsCurrent
  <1>2. /\ id \in StreamIds /\ t.engine \in Aggregate /\ e \in EngineIds
        /\ t.engine.id = e /\ version \in Version
        /\ t.engine.version \in Version
        /\ row \in Row \cup {NoRow}
    BY <1>1, TxType, EntryType DEF Consistent, RInv, IInv
  <1>3. /\ engines' = [engines EXCEPT ![t.engine.id] = Store(t.engine)]
        /\ outbox' = WithRecords(outbox, id, t.engine)
        /\ UNCHANGED stream
    BY DEF Commit
  <1>4. Registry!Write(id, t.engine)
    BY <1>3, SameAggregates, SameRecords DEF Registry!Write
  <1>5. row # NoRow => RowOlder(row.version, t.engine.version)
    BY <1>1, <1>2 DEF Consistent, Yields
  <1>6. /\ Registry!EngineOf(id) = e /\ Registry!FromStreamId(id) = version
        /\ \A v : Registry!RowOlder(v, version) <=> RowOlder(v, version)
    BY SameOrder DEF EngineOf, Registry!EngineOf
  <1>7. CASE /\ stream[id].event = "hset"
             /\ t.engine = NewEngine(e, stream[id].data.uuid, version)
    <2>1. t.engine = Registry!Newcomer(id)
      BY <1>6, <1>7, SameAggregates DEF Registry!Newcomer
    <2>2. t.engine.version = version
      BY <1>7 DEF NewEngine
    <2>3. CASE row = NoRow
      BY <1>2, <1>4, <1>6, <1>7, <2>1, <2>3 DEF Registry!Create, Registry!Next
    <2>4. CASE row # NoRow
      <3>1. Registry!Overwrite(id)
        BY <1>4, <1>5, <1>6, <1>7, <2>1, <2>2, <2>4 DEF Registry!Overwrite
      <3> QED
        BY <1>2, <3>1 DEF Registry!Next
    <2> QED
      BY <2>3, <2>4
  <1>8. CASE /\ stream[id].event = "hset"
             /\ row # NoRow
             /\ t.engine = Upserted(e, row, stream[id].data, version)
    <2>1. stream[id].data \in Payload /\ row.version \in Version
      BY <1>2, <1>8, EntryType DEF RInv, IInv, Row
    <2>2. t.engine.version = version
      <3>1. t.engine.version = version \/ Store(t.engine) = row
        BY <1>2, <1>8, <2>1, UpsertedOutcome
      <3> QED
        BY <1>2, <1>5, <1>8, <3>1, VersionOrder DEF Store
    <2>3. Registry!Write(id, Registry!Upserted(e, row, stream[id].data, version))
      BY <1>4, <1>8, SameUpserted
    <2>4. Registry!Change(id)
      BY <1>5, <1>6, <1>8, <2>2, <2>3 DEF Registry!Change
    <2> QED
      BY <1>2, <2>4 DEF Registry!Next
  <1>9. CASE /\ stream[id].event = "expired"
             /\ row # NoRow
             /\ t.engine = MarkDead(Load(e, row), version)
    <2>1. row \in Row
      BY <1>2, <1>9
    <2>2. t.engine.version = version
      <3>1. t.engine.version = version \/ Store(t.engine) = row
        BY <1>2, <1>9, <2>1, MarkDeadOutcome
      <3> QED
        BY <1>2, <1>5, <1>9, <3>1, VersionOrder DEF Store
    <2>3. Registry!MarkDead(Registry!Load(e, row), version) = t.engine
      BY <1>9, SameAggregates
    <2>4. Registry!Write(id, Registry!MarkDead(Registry!Load(e, row), version))
      BY <1>4, <2>3
    <2>5. Registry!Change(id)
      BY <1>5, <1>6, <1>9, <2>2, <2>4 DEF Registry!Change
    <2> QED
      BY <1>2, <2>5 DEF Registry!Next
  <1> QED
    BY <1>1, <1>2, <1>7, <1>8, <1>9 DEF DecidesAsNow

\* Every step maps to a step of the registry or to a stutter.
LEMMA StepRefines == RInv /\ [Next]_vars => [Registry!Next]_(Registry!vars)
  <1> SUFFICES ASSUME RInv, [Next]_vars
               PROVE  Registry!Next \/ UNCHANGED <<stream, engines, outbox>>
    BY DEF Registry!vars
  <1>1. ASSUME NEW w \in Workers, Commit(w)
        PROVE  Registry!Next \/ UNCHANGED <<stream, engines, outbox>>
    <2>1. CASE tx[w].changed
      BY <1>1, <2>1, CommitRefines
    <2>2. CASE ~tx[w].changed
      BY <1>1, <2>2 DEF Commit
    <2> QED
      BY <2>1, <2>2
  <1>2. CASE RemoveDead
    <2>1. PICK S \in SUBSET DeadRows :
             /\ engines' = [e \in EngineIds |-> IF e \in S THEN NoRow ELSE engines[e]]
             /\ UNCHANGED <<stream, outbox>>
      BY <1>2 DEF RemoveDead
    <2>2. S \in SUBSET EngineIds /\ \A e \in S : engines[e] # NoRow /\ engines[e].status = "dead"
      BY DEF DeadRows, Exists
    <2>3. Registry!Remove(S)
      BY <2>1, <2>2 DEF Registry!Remove
    <2> QED
      BY <2>2, <2>3 DEF Registry!Next
  <1> QED
    BY <1>1, <1>2
       DEF Next, FetchUpsert, FetchMarkDead, MarkDeadMissing, Ignore, Save, Abort, vars

\* EngineService implements the registry that handles every entry in one step,
\* for any number of workers, engines and entries.
THEOREM Refinement == Spec => ImplementsRegistry
  <1>1. Init => RInv
    BY InitIInv DEF Init, RInv, DecisionsCurrent
  <1>2. RInv /\ [Next]_vars => RInv'
    BY Inductive, CurrentStep DEF RInv
  <1> QED
    BY <1>1, <1>2, InitRefines, StepRefines, PTL DEF Spec, ImplementsRegistry, Registry!Spec

-----------------------------------------------------------------------------
(***************************************************************************)
(* What the outbox says of the engines: records tell of the entries that   *)
(* caused them, and no dead or running engine is unannounced.  The second  *)
(* needs the first: when store() finds its key taken, the record that is   *)
(* there must say what the new one would have said.  First, what one       *)
(* aggregate method announces.                                             *)
(***************************************************************************)

\* The events of a decision tell of its entry; and a decision that leaves the
\* engine dead or running records one, or changed nothing that is visible.
LEMMA Announces ==
    ASSUME TypeOK, NEW id \in StreamIds, NEW row \in Row \cup {NoRow}, NEW eng,
           LET e == EngineOf(id)
               version == FromStreamId(id)
           IN  \/ /\ stream[id].event = "hset"
                  /\ \/ eng = NewEngine(e, stream[id].data.uuid, version)
                     \/ row # NoRow /\ eng = Upserted(e, row, stream[id].data, version)
               \/ /\ stream[id].event = "expired"
                  /\ row # NoRow
                  /\ eng = MarkDead(Load(e, row), version)
    PROVE  /\ \A ev \in eng.events : EventTrue(id, ev)
           /\ \/ eng.status = "ready"
              \/ row # NoRow /\ Store(eng) = row
              \/ /\ eng.version = FromStreamId(id)
                 /\ \E ev \in eng.events :
                       /\ ev.status = eng.status
                       /\ ev.status # "dead" => ev.uuid = eng.uuid
              \/ /\ row # NoRow /\ eng.version = FromStreamId(id)
                 /\ eng.status = "active" /\ row.status = "active" /\ row.uuid = eng.uuid
  <1> DEFINE e == EngineOf(id)
             version == FromStreamId(id)
             data == stream[id].data
  <1>1. /\ e \in EngineIds /\ version \in Version /\ ToStreamId(version) = id
        /\ stream[id].event = "hset" => data \in Payload
    BY EntryType
  <1>2. CASE /\ stream[id].event = "hset"
             /\ eng = NewEngine(e, data.uuid, version)
    BY <1>2 DEF NewEngine
  <1>3. CASE /\ stream[id].event = "hset" /\ row # NoRow
             /\ eng = Upserted(e, row, data, version)
    <2>1. row \in Row /\ Store(Load(e, row)) = row /\ Load(e, row).events = {}
      BY <1>1, <1>3, LoadType
    <2> DEFINE status == RunningStatus(data.running)
    <2>2. status \in {"active", "ready"}
      BY <1>1, <1>3, RunningStatusType DEF Payload
    <2>3. CASE ~IsNewer(row.version, version)
      <3>1. eng = Load(e, row)
        BY <1>3, <2>3 DEF Upserted, Restore, Update, Load
      <3> QED
        BY <1>3, <2>1, <3>1
    <2>4. CASE IsNewer(row.version, version) /\ row.status = "dead"
      <3> DEFINE event == [name |-> "EngineRestored", engine |-> e,
                           version |-> ToStreamId(version),
                           uuid |-> data.uuid, status |-> status]
      <3>1. eng = [id |-> e, uuid |-> data.uuid, status |-> status,
                   version |-> version, events |-> {event}]
        BY <1>3, <2>4 DEF Upserted, Restore, Load
      <3>2. EventTrue(id, event)
        BY <1>1, <1>3 DEF EventTrue
      <3> QED
        BY <3>1, <3>2
    <2>5. CASE IsNewer(row.version, version) /\ row.status # "dead"
      <3> DEFINE event == [name |-> "EngineUpdated", engine |-> e,
                           version |-> ToStreamId(version),
                           uuid |-> data.uuid, status |-> status]
                 same == row.status = status /\ row.uuid = data.uuid
      <3>1. eng = [id |-> e, uuid |-> data.uuid, status |-> status, version |-> version,
                   events |-> IF same THEN {} ELSE {event}]
        BY <1>3, <2>5 DEF Upserted, Update, Load
      <3>2. EventTrue(id, event)
        BY <1>1, <1>3 DEF EventTrue
      <3> QED
        BY <1>3, <2>2, <3>1, <3>2
    <2> QED
      BY <2>3, <2>4, <2>5
  <1>4. CASE /\ stream[id].event = "expired" /\ row # NoRow
             /\ eng = MarkDead(Load(e, row), version)
    <2>1. row \in Row /\ Store(Load(e, row)) = row /\ Load(e, row).events = {}
      BY <1>1, <1>4, LoadType
    <2>2. CASE ~IsNewer(row.version, version)
      <3>1. eng = Load(e, row)
        BY <1>4, <2>2 DEF MarkDead, Load
      <3> QED
        BY <1>4, <2>1, <3>1
    <2>3. CASE IsNewer(row.version, version)
      <3> DEFINE event == [name |-> "EngineDead", engine |-> e,
                           version |-> ToStreamId(version),
                           uuid |-> NoUuid, status |-> "dead"]
      <3>1. eng = [id |-> e, uuid |-> row.uuid, status |-> "dead",
                   version |-> version, events |-> {event}]
        BY <1>4, <2>3 DEF MarkDead, Load
      <3>2. EventTrue(id, event)
        BY <1>1, <1>4 DEF EventTrue
      <3> QED
        BY <3>1, <3>2
    <2> QED
      BY <2>2, <2>3
  <1> QED
    BY <1>2, <1>3, <1>4

-----------------------------------------------------------------------------
(***************************************************************************)
(* The outbox.                                                             *)
(***************************************************************************)

\* store() leaves a record for every event: a new one, or one with its key.
LEMMA RecordPresent ==
    ASSUME NEW box, NEW id, NEW eng, NEW ev \in eng.events
    PROVE  \E r \in WithRecords(box, id, eng) : r.id = OutboxKey(id, ev)
  <1>1. CASE \E r \in box : r.id = OutboxKey(id, ev)
    BY <1>1 DEF WithRecords
  <1>2. CASE \A r \in box : r.id # OutboxKey(id, ev)
    <2> DEFINE r == [id |-> OutboxKey(id, ev), caused_by |-> id, event |-> ev]
    <2>1. r \in WithRecords(box, id, eng) /\ r.id = OutboxKey(id, ev)
      BY <1>2 DEF WithRecords
    <2> QED
      BY <2>1
  <1> QED
    BY <1>1, <1>2

\* It forgets none, and adds only records of the aggregate's events.
LEMMA RecordsAdded ==
    ASSUME NEW box, NEW id, NEW eng
    PROVE  /\ box \subseteq WithRecords(box, id, eng)
           /\ \A r \in WithRecords(box, id, eng) \ box :
                 \E ev \in eng.events :
                    r = [id |-> OutboxKey(id, ev), caused_by |-> id, event |-> ev]
  BY DEF WithRecords

\* The parts of a commit that changes the row.
LEMMA CommitParts ==
    ASSUME AInv, NEW w \in Workers, Commit(w), tx[w].changed
    PROVE  LET t == tx[w]
               e == EngineOf(t.id)
           IN  /\ t.id \in StreamIds /\ e \in EngineIds /\ t.engine.id = e
               /\ engines' = [engines EXCEPT ![e] = Store(t.engine)]
               /\ outbox' = WithRecords(outbox, t.id, t.engine)
               /\ stream' = stream
               /\ engines[e] \in Row \cup {NoRow}
               /\ engines[e] # NoRow => RowOlder(engines[e].version, t.engine.version)
               /\ DecidesAsNow(w)
  <1>1. tx[w] # Idle /\ tx[w].stage = "saved" /\ Consistent(w) /\ DecidesAsNow(w)
    BY DEF Commit, AInv, RInv, IInv, TransactionsConsistent, DecisionsCurrent
  <1> QED
    BY <1>1, TxType DEF Commit, Consistent, Yields, AInv, RInv, IInv

\* A commit adds only records that tell of its entry.
LEMMA CommitRecordsTrue ==
    ASSUME AInv, NEW w \in Workers, Commit(w), tx[w].changed
    PROVE  RecordsTrue'
  <1> DEFINE t == tx[w]
             id == t.id
             row == engines[EngineOf(id)]
  <1>1. /\ id \in StreamIds /\ t.engine.id = EngineOf(id) /\ row \in Row \cup {NoRow}
        /\ outbox' = WithRecords(outbox, id, t.engine)
        /\ stream' = stream /\ DecidesAsNow(w)
    BY CommitParts
  <1>2. \A ev \in t.engine.events : EventTrue(id, ev)
    BY <1>1, Announces DEF DecidesAsNow, AInv, RInv, IInv
  <1> SUFFICES ASSUME NEW r \in outbox'
               PROVE  r.id = OutboxKey(r.caused_by, r.event) /\ EventTrue(r.caused_by, r.event)
    BY <1>1 DEF RecordsTrue, EventTrue, EngineOf
  <1>3. CASE r \in outbox
    BY <1>3 DEF AInv, RecordsTrue
  <1>4. CASE r \notin outbox
    <2>1. PICK ev \in t.engine.events :
             r = [id |-> OutboxKey(id, ev), caused_by |-> id, event |-> ev]
      BY <1>1, <1>4, RecordsAdded
    <2> QED
      BY <1>2, <2>1
  <1> QED
    BY <1>3, <1>4

\* The record for a key tells what any event with that key tells.
LEMMA KeyDecides ==
    ASSUME RecordsTrue', stream' = stream, NEW r \in outbox', NEW id, NEW ev,
           r.id = OutboxKey(id, ev), EventTrue(id, ev)
    PROVE  /\ r.event.engine = EngineOf(id)
           /\ r.event.version = id
           /\ r.event.status = ev.status
           /\ ev.status # "dead" => r.event.uuid = ev.uuid
  <1>1. r.id = OutboxKey(r.caused_by, r.event) /\ EventTrue(r.caused_by, r.event)
    BY DEF RecordsTrue, EventTrue, EngineOf
  <1>2. r.caused_by = id /\ r.event.name = ev.name
    BY <1>1 DEF OutboxKey, EventId
  <1> QED
    BY <1>1, <1>2 DEF EventTrue

-----------------------------------------------------------------------------
(***************************************************************************)
(* Announced states.                                                       *)
(***************************************************************************)

\* A record r of the box announces the state that row shows of engine e.
Announced(r, e, row) ==
    /\ r.event.engine = e
    /\ r.event.status = row.status
    /\ ~RowOlder(row.version, FromStreamId(r.event.version))
    /\ row.status = "dead" => r.event.version = ToStreamId(row.version)
    /\ row.status = "active" => r.event.uuid = row.uuid

\* A row that a commit changes is announced: by a record of this commit, by
\* one that an earlier handling of the entry left, or, if nothing visible
\* changed, by the record that announced the row before.
LEMMA CommitAnnounced ==
    ASSUME AInv, NEW w \in Workers, Commit(w), tx[w].changed,
           tx[w].engine.status # "ready"
    PROVE  \E r \in outbox' :
              Announced(r, EngineOf(tx[w].id), Store(tx[w].engine))
  <1> DEFINE t == tx[w]
             id == t.id
             e == EngineOf(id)
             row == engines[e]
             new == Store(t.engine)
             version == FromStreamId(id)
  <1>1. /\ id \in StreamIds /\ e \in EngineIds /\ t.engine.id = e
        /\ row \in Row \cup {NoRow}
        /\ row # NoRow => RowOlder(row.version, t.engine.version)
        /\ outbox' = WithRecords(outbox, id, t.engine)
        /\ stream' = stream /\ DecidesAsNow(w)
    BY CommitParts
  <1>2. version \in Version /\ ToStreamId(version) = id
    BY <1>1, EntryType DEF AInv, RInv, IInv
  <1>3. /\ new.status = t.engine.status /\ new.uuid = t.engine.uuid
        /\ new.version = t.engine.version
    BY DEF Store
  <1>4. ~RowOlder(version, version)
    BY <1>2, VersionOrder
  <1>5. /\ \A ev \in t.engine.events : EventTrue(id, ev)
        /\ \/ row # NoRow /\ new = row
           \/ /\ t.engine.version = version
              /\ \E ev \in t.engine.events :
                    /\ ev.status = t.engine.status
                    /\ ev.status # "dead" => ev.uuid = t.engine.uuid
           \/ /\ row # NoRow /\ t.engine.version = version
              /\ t.engine.status = "active" /\ row.status = "active"
              /\ row.uuid = t.engine.uuid
    BY <1>1, Announces DEF DecidesAsNow, AInv, RInv, IInv
  <1>6. RecordsTrue'
    BY CommitRecordsTrue
  <1>7. CASE row # NoRow /\ new = row
    <2>1. row.version \in Version
      BY <1>1, <1>7 DEF Row
    <2> QED
      BY <1>1, <1>3, <1>7, <2>1, VersionOrder
  <1>8. CASE /\ t.engine.version = version
             /\ \E ev \in t.engine.events :
                   /\ ev.status = t.engine.status
                   /\ ev.status # "dead" => ev.uuid = t.engine.uuid
    <2>1. PICK ev \in t.engine.events :
             /\ ev.status = t.engine.status
             /\ ev.status # "dead" => ev.uuid = t.engine.uuid
      BY <1>8
    <2>2. PICK r \in outbox' : r.id = OutboxKey(id, ev)
      BY <1>1, RecordPresent
    <2>3. /\ r.event.engine = e /\ r.event.version = id
          /\ r.event.status = ev.status
          /\ ev.status # "dead" => r.event.uuid = ev.uuid
      BY <1>1, <1>5, <1>6, <2>2, KeyDecides
    <2> QED
      BY <1>2, <1>3, <1>4, <1>8, <2>1, <2>3 DEF Announced
  <1>9. CASE /\ row # NoRow /\ t.engine.version = version
             /\ t.engine.status = "active" /\ row.status = "active"
             /\ row.uuid = t.engine.uuid
    <2>1. PICK r \in outbox : Announced(r, e, row)
      BY <1>1, <1>9 DEF AInv, StateAnnounced, Announced, Exists
    <2>2. r \in outbox'
      BY <1>1, RecordsAdded
    <2>3. r.event.version \in StreamId
      BY DEF AInv, RInv, IInv, TypeOK, OutboxRecord, DomainEvent
    <2>4. row.version \in Version /\ FromStreamId(r.event.version) \in Version
      BY <1>1, <1>9, <2>3, StreamIdRoundTrip DEF Row
    <2>5. ~RowOlder(version, FromStreamId(r.event.version))
      BY <1>1, <1>2, <1>9, <2>1, <2>4, VersionOrder, NotOlderTransitive DEF Announced
    <2> QED
      BY <1>3, <1>9, <2>1, <2>2, <2>5 DEF Announced
  <1> QED
    BY <1>5, <1>7, <1>8, <1>9

\* Both parts of the invariant, over every step.
LEMMA AnnouncedStep == AInv /\ [Next]_vars => RecordsTrue' /\ StateAnnounced'
  <1> SUFFICES ASSUME AInv, [Next]_vars
               PROVE  RecordsTrue' /\ StateAnnounced'
    OBVIOUS
  <1>1. ASSUME NEW w \in Workers, Commit(w), tx[w].changed
        PROVE  RecordsTrue' /\ StateAnnounced'
    <2> DEFINE e == EngineOf(tx[w].id)
    <2>1. /\ e \in EngineIds
          /\ engines' = [engines EXCEPT ![e] = Store(tx[w].engine)]
          /\ outbox' = WithRecords(outbox, tx[w].id, tx[w].engine)
      BY <1>1, CommitParts
    <2>2. /\ \A x \in EngineIds \ {e} : engines'[x] = engines[x]
          /\ engines'[e] = Store(tx[w].engine)
          /\ outbox \subseteq outbox'
      BY <2>1, RecordsAdded DEF AInv, RInv, IInv, TypeOK
    <2> HIDE DEF e
    <2>3. ASSUME NEW x \in EngineIds, engines'[x] # NoRow, engines'[x].status # "ready"
          PROVE  \E r \in outbox' : Announced(r, x, engines'[x])
      <3>1. CASE x = e
        <4>1. tx[w].engine.status # "ready"
          BY <2>2, <2>3, <3>1 DEF Store
        <4> QED
          BY <1>1, <2>2, <3>1, <4>1, CommitAnnounced DEF e
      <3>2. CASE x # e
        <4>1. \E r \in outbox : Announced(r, x, engines[x])
          BY <2>2, <2>3, <3>2 DEF AInv, StateAnnounced, Announced, Exists
        <4> QED
          BY <2>2, <3>2, <4>1
      <3> QED
        BY <3>1, <3>2
    <2>4. StateAnnounced'
      BY <2>3 DEF StateAnnounced, Announced, Exists
    <2> QED
      BY <1>1, <2>4, CommitRecordsTrue
  <1>2. CASE /\ stream' = stream /\ outbox' = outbox
             /\ \A e \in EngineIds : engines'[e] \in {NoRow, engines[e]}
    BY <1>2 DEF AInv, RecordsTrue, EventTrue, StateAnnounced, Exists, EngineOf
  <1>3. CASE RemoveDead
    BY <1>2, <1>3 DEF RemoveDead
  <1> QED
    BY <1>1, <1>2, <1>3
       DEF Next, FetchUpsert, FetchMarkDead, MarkDeadMissing, Ignore, Save, Commit, Abort, vars

\* The invariant of the announcements.
LEMMA InitAInv == Init => AInv
  <1> SUFFICES ASSUME Init PROVE AInv
    OBVIOUS
  <1>1. IInv
    BY InitIInv
  <1> QED
    BY <1>1 DEF Init, AInv, RInv, DecisionsCurrent, RecordsTrue, StateAnnounced, Exists

LEMMA AnnouncedInvariance == Spec => []AInv
  <1>1. AInv /\ [Next]_vars => AInv'
    BY Inductive, CurrentStep, AnnouncedStep DEF AInv, RInv
  <1> QED
    BY InitAInv, <1>1, PTL DEF Spec

\* Every record of the outbox tells of the entry that caused it.
THEOREM RecordsTell == Spec => []RecordsTrue
  BY AnnouncedInvariance, PTL DEF AInv

\* No engine is dead or running without a record that says so, although a new
\* engine and an update that shows nothing new record nothing, and store()
\* never replaces a record.
THEOREM NothingUnannounced == Spec => []StateAnnounced
  BY AnnouncedInvariance, PTL DEF AInv
=============================================================================
