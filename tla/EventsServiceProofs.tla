-------------------------- MODULE EventsServiceProofs --------------------------
(***************************************************************************)
(* The events process as a whole, for any number of replicas, entries,     *)
(* engines and faults: what is settled in the stream is shown in the       *)
(* table, and deaths are announced.  What KeyeventStreamProofs shows of    *)
(* the stream and EngineServiceProofs of the tables holds of the two       *)
(* together, and a third invariant, Joined, says what the one knows of the *)
(* other: there is no transaction across Redis and PostgreSQL, so nothing  *)
(* but the order of the calls connects them.                               *)
(***************************************************************************)
EXTENDS EventsService, TLAPS

\* The proofs about the parts.
KP == INSTANCE KeyeventStreamProofs WITH Foreign <- {}, Malformed <- {}

SP == INSTANCE EngineServiceProofs

-----------------------------------------------------------------------------
(***************************************************************************)
(* Both proof modules extend their part's module: what they call by a name *)
(* is what K and S call by it.                                             *)
(***************************************************************************)
LEMMA SameStreamStates ==
    /\ K!ConstantsAssumption <=> KP!ConstantsAssumption
    /\ K!vars = KP!vars
    /\ K!redis = KP!redis
    /\ K!Pending = KP!Pending
    /\ K!Settled = KP!Settled
    /\ K!Started = KP!Started
    /\ K!Fault <=> KP!Fault
    /\ \A X : K!Min(X) = KP!Min(X) /\ K!Max(X) = KP!Max(X)
    /\ \A X : K!Cardinality(X) = KP!Cardinality(X)
    /\ \A c, X : K!Deliver(c, X) <=> KP!Deliver(c, X)
    /\ \A X : K!Ack(X) <=> KP!Ack(X)
    /\ \A c, phase : K!In(c, phase) <=> KP!In(c, phase)
  BY DEF K!ConstantsAssumption, KP!ConstantsAssumption, K!Entries, KP!Entries,
         K!vars, KP!vars, K!redis, KP!redis, K!Pending, KP!Pending,
         K!Settled, KP!Settled, K!Started, KP!Started, K!Fault, KP!Fault,
         K!Min, KP!Min, K!Max, KP!Max, K!Cardinality, KP!Cardinality,
         K!Deliver, KP!Deliver, K!Ack, KP!Ack, K!In, KP!In

LEMMA SameReclaimer ==
    /\ \A c : K!Next1(c) = KP!Next1(c)
    /\ \A c : K!Current(c) = KP!Current(c)
    /\ \A c : K!Claimed(c) = KP!Claimed(c)
    /\ \A c : K!NextCursor(c) = KP!NextCursor(c)
    /\ \A n, X : K!First(n, X) = KP!First(n, X)
    /\ \A c, xacks : K!Advance(c, xacks) <=> KP!Advance(c, xacks)
    /\ \A c : K!Retried(c) <=> KP!Retried(c)
  <1>1. \A n, X : K!First(n, X) = KP!First(n, X)
    BY SameStreamStates DEF K!First, KP!First
  <1>2. \A c : K!Next1(c) = KP!Next1(c) /\ K!Current(c) = KP!Current(c)
    BY SameStreamStates DEF K!Next1, KP!Next1, K!Current, KP!Current
  <1>3. \A c : K!Claimable(c) = KP!Claimable(c)
    BY DEF K!Claimable, KP!Claimable
  <1>4. \A c : K!Claimed(c) = KP!Claimed(c)
    BY <1>1, <1>3 DEF K!Claimed, KP!Claimed
  <1>5. \A c : K!NextCursor(c) = KP!NextCursor(c)
    BY <1>4, SameStreamStates DEF K!NextCursor, KP!NextCursor
  <1>6. ASSUME NEW c, NEW xacks
        PROVE  K!Advance(c, xacks) <=> KP!Advance(c, xacks)
    <2>1. K!Current(c) = KP!Current(c)
      BY <1>2
    <2> QED
      BY <2>1 DEF K!Advance, KP!Advance
  <1>7. \A c : K!Retried(c) <=> KP!Retried(c)
    BY <1>2, SameStreamStates DEF K!Retried, KP!Retried
  <1> QED
    BY <1>1, <1>2, <1>4, <1>5, <1>6, <1>7

LEMMA SameStream == (K!Init <=> KP!Init) /\ (K!Next <=> KP!Next)
  <1>1. K!Init <=> KP!Init
    BY SameStreamStates DEF K!Init, KP!Init, K!Entries, KP!Entries
  <1>2. K!Append <=> KP!Append
    BY DEF K!Append, KP!Append
  <1>3. \A i : K!GetIdle(i) <=> KP!GetIdle(i)
    BY SameStreamStates DEF K!GetIdle, KP!GetIdle
  <1>4. \A c : K!Read(c) <=> KP!Read(c)
    BY SameStreamStates, SameReclaimer DEF K!Read, KP!Read
  <1>5. \A c : K!ReadLost(c) <=> KP!ReadLost(c)
    BY SameStreamStates, SameReclaimer DEF K!ReadLost, KP!ReadLost
  <1>6. ASSUME NEW c
        PROVE  K!SubscriberHandles(c) <=> KP!SubscriberHandles(c)
    <2>1. /\ K!Next1(c) = KP!Next1(c) /\ K!Current(c) = KP!Current(c)
          /\ K!Retried(c) <=> KP!Retried(c)
          /\ K!Fault <=> KP!Fault
          /\ \A phase : K!In(c, phase) <=> KP!In(c, phase)
      BY SameStreamStates, SameReclaimer
    <2> QED
      BY <2>1, SameStreamStates, SameReclaimer
      DEF K!SubscriberHandles, KP!SubscriberHandles, K!redis, KP!redis
  <1>7. ASSUME NEW c
        PROVE  K!SubscriberFails(c) <=> KP!SubscriberFails(c)
    <2>1. /\ K!Next1(c) = KP!Next1(c) /\ K!Current(c) = KP!Current(c)
          /\ K!Retried(c) <=> KP!Retried(c)
          /\ K!Fault <=> KP!Fault
          /\ \A phase : K!In(c, phase) <=> KP!In(c, phase)
      BY SameStreamStates, SameReclaimer
    <2> QED
      BY <2>1, SameStreamStates, SameReclaimer
      DEF K!SubscriberFails, KP!SubscriberFails, K!redis, KP!redis
  <1>8. ASSUME NEW c
        PROVE  K!SubscriberAcks(c) <=> KP!SubscriberAcks(c)
    <2>1. /\ K!Next1(c) = KP!Next1(c) /\ K!Current(c) = KP!Current(c)
          /\ K!Retried(c) <=> KP!Retried(c)
          /\ K!Fault <=> KP!Fault
          /\ \A phase : K!In(c, phase) <=> KP!In(c, phase)
      BY SameStreamStates, SameReclaimer
    <2> QED
      BY <2>1, SameStreamStates, SameReclaimer
      DEF K!SubscriberAcks, KP!SubscriberAcks, K!redis, KP!redis
  <1>9. ASSUME NEW c
        PROVE  K!SubscriberAckFails(c) <=> KP!SubscriberAckFails(c)
    <2>1. /\ K!Next1(c) = KP!Next1(c) /\ K!Current(c) = KP!Current(c)
          /\ K!Retried(c) <=> KP!Retried(c)
          /\ K!Fault <=> KP!Fault
          /\ \A phase : K!In(c, phase) <=> KP!In(c, phase)
      BY SameStreamStates, SameReclaimer
    <2> QED
      BY <2>1, SameStreamStates, SameReclaimer
      DEF K!SubscriberAckFails, KP!SubscriberAckFails, K!redis, KP!redis
  <1>10. \A c : K!ClaimLost(c) <=> KP!ClaimLost(c)
    BY SameStreamStates, SameReclaimer DEF K!ClaimLost, KP!ClaimLost
  <1>11. ASSUME NEW c
        PROVE  K!DeadLetter(c) <=> KP!DeadLetter(c)
    <2>1. /\ K!Next1(c) = KP!Next1(c) /\ K!Current(c) = KP!Current(c)
          /\ K!Retried(c) <=> KP!Retried(c)
          /\ K!Fault <=> KP!Fault
          /\ \A phase : K!In(c, phase) <=> KP!In(c, phase)
      BY SameStreamStates, SameReclaimer
    <2> QED
      BY <2>1, SameStreamStates, SameReclaimer
      DEF K!DeadLetter, KP!DeadLetter, K!redis, KP!redis
  <1>12. ASSUME NEW c
        PROVE  K!ReclaimerHandles(c) <=> KP!ReclaimerHandles(c)
    <2>1. /\ K!Next1(c) = KP!Next1(c) /\ K!Current(c) = KP!Current(c)
          /\ K!Retried(c) <=> KP!Retried(c)
          /\ K!Fault <=> KP!Fault
          /\ \A phase : K!In(c, phase) <=> KP!In(c, phase)
      BY SameStreamStates, SameReclaimer
    <2> QED
      BY <2>1, SameStreamStates, SameReclaimer
      DEF K!ReclaimerHandles, KP!ReclaimerHandles, K!redis, KP!redis
  <1>13. ASSUME NEW c
        PROVE  K!ReclaimerFails(c) <=> KP!ReclaimerFails(c)
    <2>1. /\ K!Next1(c) = KP!Next1(c) /\ K!Current(c) = KP!Current(c)
          /\ K!Retried(c) <=> KP!Retried(c)
          /\ K!Fault <=> KP!Fault
          /\ \A phase : K!In(c, phase) <=> KP!In(c, phase)
      BY SameStreamStates, SameReclaimer
    <2> QED
      BY <2>1, SameStreamStates, SameReclaimer
      DEF K!ReclaimerFails, KP!ReclaimerFails, K!redis, KP!redis
  <1>14. ASSUME NEW c
        PROVE  K!ReclaimerChokes(c) <=> KP!ReclaimerChokes(c)
    <2>1. /\ K!Next1(c) = KP!Next1(c) /\ K!Current(c) = KP!Current(c)
          /\ K!Retried(c) <=> KP!Retried(c)
          /\ K!Fault <=> KP!Fault
          /\ \A phase : K!In(c, phase) <=> KP!In(c, phase)
      BY SameStreamStates, SameReclaimer
    <2> QED
      BY <2>1, SameStreamStates, SameReclaimer
      DEF K!ReclaimerChokes, KP!ReclaimerChokes, K!redis, KP!redis
  <1>15. \A c : K!ReclaimerAcks(c) <=> KP!ReclaimerAcks(c)
    BY SameStreamStates, SameReclaimer DEF K!ReclaimerAcks, KP!ReclaimerAcks
  <1>16. ASSUME NEW c
        PROVE  K!GiveUp(c) <=> KP!GiveUp(c)
    <2>1. /\ K!Next1(c) = KP!Next1(c) /\ K!Current(c) = KP!Current(c)
          /\ K!Retried(c) <=> KP!Retried(c)
          /\ K!Fault <=> KP!Fault
          /\ \A phase : K!In(c, phase) <=> KP!In(c, phase)
      BY SameStreamStates, SameReclaimer
    <2> QED
      BY <2>1, SameStreamStates, SameReclaimer
      DEF K!GiveUp, KP!GiveUp, K!redis, KP!redis
  <1>17. \A c : K!Restart(c) <=> KP!Restart(c)
    BY SameStreamStates, SameReclaimer DEF K!Restart, KP!Restart
  <1>18. \A c : K!Claim(c) <=> KP!Claim(c)
    BY SameStreamStates, SameReclaimer DEF K!Claim, KP!Claim
  <1>19. ASSUME NEW c
        PROVE  K!Count(c) <=> KP!Count(c)
    <2>1. /\ K!Next1(c) = KP!Next1(c) /\ K!Current(c) = KP!Current(c)
          /\ K!Retried(c) <=> KP!Retried(c)
          /\ K!Fault <=> KP!Fault
          /\ \A phase : K!In(c, phase) <=> KP!In(c, phase)
      BY SameStreamStates, SameReclaimer
    <2> QED
      BY <2>1, SameStreamStates, SameReclaimer
      DEF K!Count, KP!Count, K!redis, KP!redis
  <1> QED
    BY <1>1, <1>2, <1>3, <1>4, <1>5, <1>6, <1>7, <1>8, <1>9, <1>10, <1>11, <1>12,
       <1>13, <1>14, <1>15, <1>16, <1>17, <1>18, <1>19
    DEF K!Next, KP!Next, K!Entries, KP!Entries, K!Subscriber, KP!Subscriber,
        K!ReclaimerTask, KP!ReclaimerTask


LEMMA SameOrder ==
    /\ \A v, w : S!RowOlder(v, w) <=> SP!RowOlder(v, w)
    /\ \A v, w : S!IsNewer(v, w) <=> SP!IsNewer(v, w)
    /\ \A sid : S!FromStreamId(sid) = SP!FromStreamId(sid)
    /\ \A v : S!ToStreamId(v) = SP!ToStreamId(v)
    /\ \A v, w : RowOlder(v, w) <=> SP!RowOlder(v, w)
    /\ \A sid : FromStreamId(sid) = SP!FromStreamId(sid)
    /\ \A v : ToStreamId(v) = SP!ToStreamId(v)
  BY DEF S!RowOlder, SP!RowOlder, S!IsNewer, SP!IsNewer, S!FromStreamId,
         SP!FromStreamId, S!ToStreamId, SP!ToStreamId, RowOlder, FromStreamId, ToStreamId

LEMMA SameAggregates ==
    /\ \A running : S!RunningStatus(running) = SP!RunningStatus(running)
    /\ \A e, uuid, version : S!NewEngine(e, uuid, version) = SP!NewEngine(e, uuid, version)
    /\ \A eng, version : S!MarkDead(eng, version) = SP!MarkDead(eng, version)
    /\ \A e, row : S!Load(e, row) = SP!Load(e, row)
    /\ \A eng : S!Store(eng) = SP!Store(eng)
    /\ \A row, version : S!Yields(row, version) <=> SP!Yields(row, version)
    /\ \A e, row, data, version :
          S!Upserted(e, row, data, version) = SP!Upserted(e, row, data, version)
    /\ \A box, id, eng : S!WithRecords(box, id, eng) = SP!WithRecords(box, id, eng)
  <1>1. \A running : S!RunningStatus(running) = SP!RunningStatus(running)
    BY DEF S!RunningStatus, SP!RunningStatus
  <1>2. \A e, uuid, version : S!NewEngine(e, uuid, version) = SP!NewEngine(e, uuid, version)
    BY DEF S!NewEngine, SP!NewEngine
  <1>3. /\ \A eng, version : S!MarkDead(eng, version) = SP!MarkDead(eng, version)
        /\ \A eng, running, uuid, version :
              /\ S!Restore(eng, running, uuid, version) = SP!Restore(eng, running, uuid, version)
              /\ S!Update(eng, running, uuid, version) = SP!Update(eng, running, uuid, version)
    BY <1>1, SameOrder DEF S!MarkDead, SP!MarkDead, S!Restore, SP!Restore, S!Update, SP!Update
  <1>4. /\ \A e, row : S!Load(e, row) = SP!Load(e, row)
        /\ \A eng : S!Store(eng) = SP!Store(eng)
        /\ \A row, version : S!Yields(row, version) <=> SP!Yields(row, version)
    BY SameOrder DEF S!Load, SP!Load, S!Store, SP!Store, S!Yields, SP!Yields
  <1>5. \A e, row, data, version :
           S!Upserted(e, row, data, version) = SP!Upserted(e, row, data, version)
    BY <1>2, <1>3, <1>4 DEF S!Upserted, SP!Upserted
  <1>6. \A box, id, eng : S!WithRecords(box, id, eng) = SP!WithRecords(box, id, eng)
    BY DEF S!WithRecords, SP!WithRecords, S!OutboxKey, SP!OutboxKey, S!EventId, SP!EventId
  <1> QED
    BY <1>1, <1>2, <1>3, <1>4, <1>5, <1>6

LEMMA SameTables == (S!Init <=> SP!Init) /\ (S!Next <=> SP!Next) /\ S!vars = SP!vars
  <1>1. /\ S!vars = SP!vars
        /\ \A id : S!EngineOf(id) = SP!EngineOf(id)
        /\ \A e : S!Exists(e) <=> SP!Exists(e)
        /\ \A w, e : S!HeldByOther(w, e) <=> SP!HeldByOther(w, e)
        /\ \A e : S!Held(e) <=> SP!Held(e)
        /\ \A w, id, locked, eng : S!Open(w, id, locked, eng) <=> SP!Open(w, id, locked, eng)
    BY DEF S!vars, SP!vars, S!EngineOf, SP!EngineOf, S!Exists, SP!Exists, S!HeldByOther,
           SP!HeldByOther, S!Held, SP!Held, S!Open, SP!Open
  <1>2. S!Init <=> SP!Init
    BY DEF S!Init, SP!Init, S!Entry, SP!Entry, S!HsetEntry, SP!HsetEntry, S!ExpiredEntry,
           SP!ExpiredEntry, S!OtherEntry, SP!OtherEntry
  <1>3. ASSUME NEW w, NEW id
        PROVE  S!FetchUpsert(w, id) <=> SP!FetchUpsert(w, id)
    <2> DEFINE eng(e)  == S!Upserted(e, engines[e], stream[id].data, S!FromStreamId(id))
               engP(e) == SP!Upserted(e, engines[e], stream[id].data, SP!FromStreamId(id))
    <2>1. \A e : eng(e) = engP(e)
      BY SameOrder, SameAggregates
    <2> HIDE DEF eng, engP
    <2>2. S!FetchUpsert(w, id) <=>
             /\ tx[w] = Idle /\ stream[id].event = "hset"
             /\ S!Exists(S!EngineOf(id)) => ~S!HeldByOther(w, S!EngineOf(id))
             /\ S!Open(w, id, S!Exists(S!EngineOf(id)), eng(S!EngineOf(id)))
             /\ UNCHANGED <<stream, engines, outbox, applied, dropped>>
      BY DEF S!FetchUpsert, eng
    <2>3. SP!FetchUpsert(w, id) <=>
             /\ tx[w] = Idle /\ stream[id].event = "hset"
             /\ SP!Exists(SP!EngineOf(id)) => ~SP!HeldByOther(w, SP!EngineOf(id))
             /\ SP!Open(w, id, SP!Exists(SP!EngineOf(id)), engP(SP!EngineOf(id)))
             /\ UNCHANGED <<stream, engines, outbox, applied, dropped>>
      BY DEF SP!FetchUpsert, engP
    <2>4. SP!EngineOf(id) = S!EngineOf(id) /\ eng(S!EngineOf(id)) = engP(S!EngineOf(id))
      BY <1>1, <2>1
    <2>5. S!Exists(S!EngineOf(id)) = SP!Exists(S!EngineOf(id))
      BY DEF S!Exists, SP!Exists
    <2>6. /\ S!HeldByOther(w, S!EngineOf(id)) <=> SP!HeldByOther(w, S!EngineOf(id))
          /\ \A locked, x : S!Open(w, id, locked, x) <=> SP!Open(w, id, locked, x)
      BY <1>1
    <2> QED
      BY <2>2, <2>3, <2>4, <2>5, <2>6
  <1>4. \A w, id : S!FetchMarkDead(w, id) <=> SP!FetchMarkDead(w, id)
    BY <1>1, SameOrder, SameAggregates DEF S!FetchMarkDead, SP!FetchMarkDead
  <1>5. \A w, id : S!MarkDeadMissing(w, id) <=> SP!MarkDeadMissing(w, id)
    BY <1>1 DEF S!MarkDeadMissing, SP!MarkDeadMissing
  <1>6. \A w : S!Save(w) <=> SP!Save(w)
    BY <1>1, SameAggregates DEF S!Save, SP!Save
  <1>7. \A w : S!Commit(w) <=> SP!Commit(w)
    BY <1>1, SameAggregates DEF S!Commit, SP!Commit
  <1>8. \A w : S!Abort(w) <=> SP!Abort(w)
    BY DEF S!Abort, SP!Abort
  <1>9. S!RemoveDead <=> SP!RemoveDead
    BY <1>1 DEF S!RemoveDead, SP!RemoveDead, S!DeadRows, SP!DeadRows
  <1>10. \A w, id : S!Ignore(w, id) <=> SP!Ignore(w, id)
    BY DEF S!Ignore, SP!Ignore, S!vars, SP!vars
  <1> QED
    BY <1>1, <1>2, <1>3, <1>4, <1>5, <1>6, <1>7, <1>8, <1>9, <1>10 DEF S!Next, SP!Next

-----------------------------------------------------------------------------
(***************************************************************************)
(* What stream and tables know of each other.                              *)
(***************************************************************************)

\* A transaction is about the entry its task has come to, and stays so until it
\* ends: neither is the entry acknowledged nor the next one begun before.
HandlesItsEntry(w) ==
    tx[w] # Idle => \E i \in 1 .. NumEntries : Has(w, i) /\ tx[w].id = IdOf[i]

\* What a handler returned from was committed, unless the engine was removed,
\* there was nothing to mark dead or nothing to do.
HandledCommitted(i) ==
    \/ IdOf[i] \in applied \cup dropped
    \/ stream[IdOf[i]].event = "other"
    \/ stream[IdOf[i]].engine \in removed

\* Versions come from entries that were appended.
OfStream(version) == \E i \in 1 .. appended : ToStreamId(version) = IdOf[i]

Joined ==
    /\ KP!OnlyDelivered
    /\ \A w \in Workers : HandlesItsEntry(w)
    /\ \A i \in handled : HandledCommitted(i)
    /\ \A e \in EngineIds : engines[e] # NoRow => OfStream(engines[e].version)
    /\ \A w \in Workers : tx[w] # Idle => OfStream(tx[w].engine.version)

IInv == KP!IInv /\ SP!AInv /\ Joined

-----------------------------------------------------------------------------
(***************************************************************************)
(* Every step is a step of each part, or one that the part does not see.   *)
(***************************************************************************)

\* The assumptions of the parts, whose theorems are used below.
LEMMA Constants ==
    /\ KP!ConstantsAssumption
    /\ SP!StreamAssumption /\ SP!PayloadAssumption /\ SP!NoRowAssumption
    /\ SP!IdleAssumption
  <1>1. KP!ConstantsAssumption
    BY PartsAssumption, SameStreamStates
  <1>2. SP!StreamAssumption /\ SP!PayloadAssumption
    BY StreamAssumption, PayloadAssumption
    DEF StreamAssumption, SP!StreamAssumption, PayloadAssumption, SP!PayloadAssumption,
        StreamId, SP!StreamId, Payload, SP!Payload, MaybeUuid, SP!MaybeUuid
  <1>3. Row = SP!Row
    BY DEF Row, SP!Row, MaybeUuid, SP!MaybeUuid, EngineStatus, SP!EngineStatus,
           Version, SP!Version
  <1>4. SP!NoRowAssumption
    BY <1>3, NoRowAssumption DEF SP!NoRowAssumption, NoRowAssumption
  <1>5. S!Tx = SP!Tx
    BY DEF S!Tx, SP!Tx, S!Aggregate, SP!Aggregate, S!MaybeUuid, SP!MaybeUuid,
           S!EngineStatus, SP!EngineStatus, S!Version, SP!Version, S!DomainEvent,
           SP!DomainEvent, S!EventNames, SP!EventNames, S!StreamId, SP!StreamId
  <1>6. SP!IdleAssumption
    BY <1>5, PartsAssumption DEF S!IdleAssumption, SP!IdleAssumption
  <1> QED
    BY <1>1, <1>2, <1>4, <1>6

LEMMA Ids == \A i \in 1 .. NumEntries : IdOf[i] \in StreamIds
  BY IdAssumption

\* A worker's step on its entry is a step of the consumer's task.
LEMMA HandlesInStream ==
    ASSUME NEW w \in Workers, Handles(w) \/ Fails(w)
    PROVE  KP!Next
  <1>1. w[1] \in Consumers
    BY DEF Workers
  <1>2. K!Subscriber(w[1]) \/ K!ReclaimerTask(w[1])
    BY DEF Handles, Fails, K!Subscriber, K!ReclaimerTask
  <1> QED
    BY <1>1, <1>2, SameStream DEF K!Next

LEMMA StreamSteps ==
    ASSUME [Next]_vars
    PROVE  [KP!Next]_(KP!vars)
  <1>1. ASSUME UNCHANGED streamVars
        PROVE  UNCHANGED KP!vars
    BY <1>1 DEF streamVars, KP!vars, KP!redis
  <1>2. CASE Append
    BY <1>2, SameStream DEF Append, K!Next
  <1>3. ASSUME NEW i \in 1 .. NumEntries, GetIdle(i)
        PROVE  KP!Next
    BY <1>3, SameStream DEF GetIdle, K!Next, K!Entries
  <1>4. ASSUME NEW w \in Workers, NEW i \in 1 .. NumEntries, Begin(w, i)
        PROVE  UNCHANGED streamVars
    BY <1>4 DEF Begin
  <1>5. ASSUME NEW w \in Workers, NEW i \in 1 .. NumEntries,
               Return(w, i) \/ Ignore(w, i) \/ Fail(w, i)
        PROVE  KP!Next
    BY <1>5, HandlesInStream DEF Return, Ignore, Fail
  <1>6. ASSUME NEW w \in Workers, Stream(w)
        PROVE  KP!Next
    <2>1. w[1] \in Consumers
      BY DEF Workers
    <2>2. K!Subscriber(w[1]) \/ K!ReclaimerTask(w[1])
      BY <1>6 DEF Stream, K!Subscriber, K!ReclaimerTask
    <2> QED
      BY <2>1, <2>2, SameStream DEF K!Next
  <1>7. ASSUME NEW c \in Consumers, CallFails(c) \/ Restart(c)
        PROVE  KP!Next
    BY <1>7, SameStream DEF CallFails, Restart, K!Next
  <1>8. CASE RemoveDead
    BY <1>1, <1>8 DEF RemoveDead
  <1>9. CASE UNCHANGED vars
    BY <1>1, <1>9 DEF vars
  <1>10. ASSUME NEW w \in Workers, Save(w)
         PROVE  UNCHANGED streamVars
    BY <1>10 DEF Save
  <1> QED
    BY <1>1, <1>2, <1>3, <1>4, <1>5, <1>6, <1>7, <1>8, <1>9, <1>10 DEF Next, Task

LEMMA TableSteps ==
    ASSUME [Next]_vars
    PROVE  [SP!Next]_(SP!vars)
  <1>1. ASSUME UNCHANGED tableVars
        PROVE  UNCHANGED SP!vars
    BY <1>1 DEF tableVars, SP!vars
  <1>2. CASE Append
    BY <1>1, <1>2 DEF Append
  <1>3. ASSUME NEW i \in 1 .. NumEntries, GetIdle(i)
        PROVE  UNCHANGED tableVars
    BY <1>3 DEF GetIdle
  <1>4. ASSUME NEW w \in Workers, NEW i \in 1 .. NumEntries,
               Begin(w, i) \/ Return(w, i) \/ Ignore(w, i) \/ Fail(w, i)
        PROVE  SP!Next \/ UNCHANGED tableVars
    <2>1. IdOf[i] \in StreamIds
      BY Ids
    <2>2. \/ S!FetchUpsert(w, IdOf[i]) \/ S!FetchMarkDead(w, IdOf[i])
          \/ S!MarkDeadMissing(w, IdOf[i]) \/ S!Ignore(w, IdOf[i])
          \/ S!Commit(w) \/ S!Abort(w) \/ UNCHANGED tableVars
      BY <1>4 DEF Begin, Return, Ignore, Fail
    <2> QED
      BY <2>1, <2>2, SameTables DEF S!Next
  <1>5. ASSUME NEW w \in Workers, Save(w)
        PROVE  SP!Next
    BY <1>5, SameTables DEF Save, S!Next
  <1>6. ASSUME NEW w \in Workers, Stream(w)
        PROVE  UNCHANGED tableVars
    BY <1>6 DEF Stream
  <1>7. ASSUME NEW c \in Consumers, CallFails(c) \/ Restart(c)
        PROVE  UNCHANGED tableVars
    BY <1>7 DEF CallFails, Restart
  <1>8. CASE RemoveDead
    BY <1>8, SameTables DEF RemoveDead, S!Next
  <1>9. CASE UNCHANGED vars
    BY <1>1, <1>9 DEF vars
  <1> QED
    BY <1>1, <1>2, <1>3, <1>4, <1>5, <1>6, <1>7, <1>8, <1>9 DEF Next, Task

\* So what was proved of the parts holds of the whole, step by step.
LEMMA PartsKept ==
    ASSUME KP!IInv, KP!OnlyDelivered, SP!AInv, [Next]_vars
    PROVE  KP!IInv' /\ KP!OnlyDelivered' /\ SP!AInv'
  <1>1. KP!IInv'
    BY StreamSteps, Constants, KP!StepInv
  <1>2. KP!OnlyDelivered'
    BY StreamSteps, Constants, KP!OnlyDeliveredKept DEF KP!IInv
  <1>3. SP!IInv'
    BY TableSteps, Constants, SP!Inductive DEF SP!AInv, SP!RInv
  <1>4. SP!DecisionsCurrent'
    BY TableSteps, Constants, SP!CurrentStep DEF SP!AInv
  <1>5. SP!RecordsTrue' /\ SP!StateAnnounced'
    BY TableSteps, Constants, SP!AnnouncedStep
  <1> QED
    BY <1>1, <1>2, <1>3, <1>4, <1>5 DEF SP!AInv, SP!RInv

-----------------------------------------------------------------------------
(***************************************************************************)
(* What the invariants say of the state, in the terms of the steps.        *)
(***************************************************************************)
LEMMA Typed ==
    ASSUME IInv
    PROVE  /\ inbox \in [Consumers -> SUBSET KP!Entries]
           /\ toAck \in [Consumers -> 0 .. NumEntries]
           /\ reclaimer \in [Consumers -> KP!Reclaimer]
           /\ appended \in 0 .. NumEntries /\ delivered \in 0 .. appended
           /\ NumEntries \in Nat
           /\ tx \in [Workers -> SP!Tx \cup {Idle}] /\ Idle \notin SP!Tx
           /\ engines \in [EngineIds -> SP!Row \cup {NoRow}]
           /\ stream \in [StreamIds -> SP!Entry]
  BY Constants DEF IInv, KP!IInv, KP!TypeOK, SP!AInv, SP!RInv, SP!IInv, SP!TypeOK,
                   KP!ConstantsAssumption, SP!IdleAssumption

\* What a task has come to, it has in hand.
LEMMA HasInHand ==
    ASSUME IInv, NEW w \in Workers, NEW i, Has(w, i)
    PROVE  i \in inbox[w[1]] \cup reclaimer[w[1]].batch
  <1>1. w[1] \in Consumers /\ KP!TypeOK
    BY DEF Workers, IInv, KP!IInv
  <1>2. CASE w[2] = "subscriber"
    <2>1. inbox[w[1]] # {} /\ i = K!Next1(w[1])
      BY <1>2 DEF Has
    <2> QED
      BY <1>1, <2>1, Constants, SameReclaimer, KP!NextIsRead
  <1>3. CASE w[2] = "reclaimer"
    <2>1. K!Retried(w[1]) /\ i = K!Current(w[1])
      BY <1>3 DEF Has
    <2>2. reclaimer[w[1]].phase = "handle"
      BY <2>1 DEF K!Retried, K!In
    <2>3. reclaimer[w[1]].batch # {}
      BY <1>1, <2>2 DEF IInv, KP!IInv, KP!Justified, KP!ReclaimJustified
    <2> QED
      BY <1>1, <2>1, <2>3, Constants, SameReclaimer, KP!CurrentIsClaimed
  <1> QED
    BY <1>2, <1>3 DEF Workers, Tasks

\* A task has come to at most one entry, which was appended.
LEMMA CurrentEntry ==
    ASSUME IInv, NEW w \in Workers, NEW i, Has(w, i)
    PROVE  /\ i \in 1 .. appended
           /\ \A j : Has(w, j) => j = i
  <1>1. w[1] \in Consumers
    BY DEF Workers
  <1>2. 1 .. delivered \subseteq 1 .. appended
    BY Typed
  <1>3. inbox[w[1]] \cup reclaimer[w[1]].batch \subseteq 1 .. delivered
    BY <1>1 DEF IInv, Joined, KP!OnlyDelivered
  <1>4. \A j : Has(w, j) => j = i
    BY DEF Has, Workers, Tasks
  <1> QED
    BY <1>2, <1>3, <1>4, HasInHand

\* The local variables of a task.
SideKept(v) ==
    /\ v[2] = "subscriber" => inbox'[v[1]] = inbox[v[1]] /\ toAck'[v[1]] = toAck[v[1]]
    /\ v[2] = "reclaimer" => reclaimer'[v[1]] = reclaimer[v[1]]

\* A task that is left alone keeps its entry, and its transaction is about it.
LEMMA EntryKept ==
    ASSUME NEW v \in Workers, HandlesItsEntry(v), SideKept(v),
           tx'[v] # Idle => tx[v] # Idle /\ tx'[v].id = tx[v].id
    PROVE  HandlesItsEntry(v)'
  <1>1. \A i : Has(v, i) => Has(v, i)'
    BY DEF Has, SideKept, K!Next1, K!Retried, K!In, K!Current, Workers, Tasks
  <1> QED
    BY <1>1 DEF HandlesItsEntry

\* Tasks move themselves only,
LEMMA OtherSides ==
    ASSUME IInv, NEW w \in Workers, NEW v \in Workers, v # w,
           Handles(w) \/ Fails(w) \/ Stream(w)
    PROVE  SideKept(v)
  <1>1. /\ w = <<w[1], w[2]>> /\ w[1] \in Consumers /\ w[2] \in Tasks
        /\ v = <<v[1], v[2]>> /\ v[1] \in Consumers /\ v[2] \in Tasks
    BY DEF Workers
  <1>2. v[1] # w[1] \/ v[2] # w[2]
    BY <1>1
  <1>3. CASE w[2] = "subscriber"
    <2>1. /\ reclaimer' = reclaimer
          /\ \A c \in Consumers : c # w[1] => inbox'[c] = inbox[c] /\ toAck'[c] = toAck[c]
      BY <1>3, Typed DEF Handles, Fails, Stream, K!SubscriberHandles, K!SubscriberFails,
                  K!Read, K!SubscriberAcks
    <2> QED
      BY <1>1, <1>2, <1>3, <2>1 DEF SideKept
  <1>4. CASE w[2] = "reclaimer"
    <2>1. /\ UNCHANGED <<inbox, toAck>>
          /\ \A c \in Consumers : c # w[1] => reclaimer'[c] = reclaimer[c]
      BY <1>4, Typed DEF Handles, Fails, Stream, K!ReclaimerHandles, K!ReclaimerFails,
                  K!Advance, K!Claim, K!Count, K!DeadLetter, K!ReclaimerAcks
    <2> QED
      BY <1>1, <1>2, <1>4, <2>1 DEF SideKept
  <1> QED
    BY <1>1, <1>3, <1>4 DEF Tasks

\* ... and none reads, acknowledges or claims with a transaction open.
LEMMA BusyStays ==
    ASSUME IInv, NEW w \in Workers, tx[w] # Idle
    PROVE  ~Stream(w) /\ ~(w[2] = "subscriber" /\ K!SubscriberAckFails(w[1]))
           /\ ~(w[2] = "reclaimer" /\ K!GiveUp(w[1]))
  <1>1. PICK i \in 1 .. NumEntries : Has(w, i)
    BY DEF IInv, Joined, HandlesItsEntry
  <1>2. CASE w[2] = "subscriber"
    BY <1>1, <1>2 DEF Has, Stream, K!Read, K!SubscriberAcks, K!SubscriberAckFails
  <1>3. CASE w[2] = "reclaimer"
    BY <1>1, <1>3 DEF Has, K!Retried, Stream, K!Claim, K!Count, K!DeadLetter,
                      K!ReclaimerAcks, K!GiveUp, K!In
  <1> QED
    BY <1>2, <1>3 DEF Workers, Tasks

-----------------------------------------------------------------------------
(***************************************************************************)
(* Transactions and their entries.                                         *)
(***************************************************************************)

\* What the statements of a transaction do to the transactions.
LEMMA TxSteps ==
    ASSUME IInv, NEW w \in Workers
    PROVE  /\ \A i \in 1 .. NumEntries : Begin(w, i) =>
                 /\ Has(w, i) /\ UNCHANGED <<inbox, toAck, reclaimer>>
                 /\ tx'[w].id = IdOf[i]
                 /\ \A v \in Workers : v # w => tx'[v] = tx[v]
           /\ Save(w) =>
                 /\ UNCHANGED <<inbox, toAck, reclaimer>>
                 /\ tx[w] # Idle /\ tx'[w].id = tx[w].id /\ tx'[w].engine = tx[w].engine
                 /\ \A v \in Workers : v # w => tx'[v] = tx[v]
           /\ \A i \in 1 .. NumEntries : Return(w, i) \/ Ignore(w, i) \/ Fail(w, i) =>
                 /\ tx'[w] = Idle
                 /\ \A v \in Workers : v # w => tx'[v] = tx[v]
  <1>1. tx \in [Workers -> SP!Tx \cup {Idle}] /\ Idle \notin SP!Tx
    BY Typed
  <1>2. ASSUME NEW i \in 1 .. NumEntries, Begin(w, i)
        PROVE  /\ Has(w, i) /\ UNCHANGED <<inbox, toAck, reclaimer>>
               /\ tx'[w].id = IdOf[i]
               /\ \A v \in Workers : v # w => tx'[v] = tx[v]
    BY <1>1, <1>2 DEF Begin, S!FetchUpsert, S!FetchMarkDead, S!Open, streamVars
  <1>3. ASSUME Save(w)
        PROVE  /\ UNCHANGED <<inbox, toAck, reclaimer>>
               /\ tx[w] # Idle /\ tx'[w].id = tx[w].id /\ tx'[w].engine = tx[w].engine
               /\ \A v \in Workers : v # w => tx'[v] = tx[v]
    BY <1>1, <1>3 DEF Save, S!Save, streamVars, SP!Tx
  <1>4. ASSUME NEW i \in 1 .. NumEntries, Return(w, i) \/ Ignore(w, i) \/ Fail(w, i)
        PROVE  tx'[w] = Idle /\ \A v \in Workers : v # w => tx'[v] = tx[v]
    BY <1>1, <1>4 DEF Return, Ignore, Fail, S!Commit, S!Abort, S!MarkDeadMissing, S!Ignore,
                      S!vars, tableVars
  <1> QED
    BY <1>2, <1>3, <1>4

LEMMA EntriesKept ==
    ASSUME IInv, [Next]_vars, NEW v \in Workers
    PROVE  HandlesItsEntry(v)'
  <1>1. HandlesItsEntry(v)
    BY DEF IInv, Joined
  <1>2. ASSUME UNCHANGED <<inbox, toAck, reclaimer, tx>>
        PROVE  HandlesItsEntry(v)'
    BY <1>1, <1>2, EntryKept DEF SideKept
  <1>3. ASSUME NEW w \in Workers, NEW i \in 1 .. NumEntries, Begin(w, i)
        PROVE  HandlesItsEntry(v)'
    <2>1. CASE v = w
      <3>1. Has(v, i)'
        BY <1>3, <2>1, TxSteps DEF Has, K!Next1, K!Retried, K!In, K!Current
      <3> QED
        BY <1>3, <2>1, <3>1, TxSteps DEF HandlesItsEntry
    <2>2. CASE v # w
      BY <1>1, <1>3, <2>2, TxSteps, EntryKept DEF SideKept
    <2> QED
      BY <2>1, <2>2
  <1>4. ASSUME NEW w \in Workers, Save(w)
        PROVE  HandlesItsEntry(v)'
    BY <1>1, <1>4, TxSteps, EntryKept DEF SideKept
  <1>5. ASSUME NEW w \in Workers, NEW i \in 1 .. NumEntries,
               Return(w, i) \/ Ignore(w, i) \/ Fail(w, i)
        PROVE  HandlesItsEntry(v)'
    <2>1. CASE v = w
      BY <1>5, <2>1, TxSteps DEF HandlesItsEntry
    <2>2. CASE v # w
      <3>1. SideKept(v)
        BY <1>5, <2>2, OtherSides DEF Return, Ignore, Fail
      <3> QED
        BY <1>1, <1>5, <2>2, <3>1, TxSteps, EntryKept
    <2> QED
      BY <2>1, <2>2
  <1>6. ASSUME tx' = tx, tx[v] # Idle => SideKept(v)
        PROVE  HandlesItsEntry(v)'
    <2>1. CASE tx[v] = Idle
      BY <1>6, <2>1 DEF HandlesItsEntry
    <2>2. CASE tx[v] # Idle
      BY <1>1, <1>6, <2>2, EntryKept
    <2> QED
      BY <2>1, <2>2
  <1>7. ASSUME NEW w \in Workers, Stream(w)
        PROVE  HandlesItsEntry(v)'
    <2>1. tx[v] # Idle => SideKept(v)
      BY <1>7, BusyStays, OtherSides
    <2> QED
      BY <1>6, <1>7, <2>1 DEF Stream, tableVars
  <1>8. ASSUME NEW c \in Consumers, CallFails(c)
        PROVE  HandlesItsEntry(v)'
    <2>1. ASSUME tx[v] # Idle
          PROVE  SideKept(v)
      <3>1. CASE K!ReadLost(c) \/ K!ClaimLost(c)
        BY <3>1 DEF K!ReadLost, K!ClaimLost, SideKept
      <3>2. CASE K!SubscriberAckFails(c)
        <4>1. v[2] = "subscriber" => v[1] # c
          BY <2>1, <3>2, BusyStays
        <4> QED
          BY <3>2, <4>1, Typed DEF K!SubscriberAckFails, SideKept, Workers
      <3>3. CASE K!GiveUp(c)
        <4>1. v[2] = "reclaimer" => v[1] # c
          BY <2>1, <3>3, BusyStays
        <4> QED
          BY <3>3, <4>1, Typed DEF K!GiveUp, K!redis, SideKept, Workers
      <3> QED
        BY <1>8, <3>1, <3>2, <3>3 DEF CallFails
    <2> QED
      BY <1>6, <1>8, <2>1 DEF CallFails, tableVars
  <1>9. ASSUME NEW c \in Consumers, Restart(c)
        PROVE  HandlesItsEntry(v)'
    <2>1. tx[v] # Idle => v[1] # c
      <3>1. v = <<v[1], v[2]>> /\ v[2] \in Tasks
        BY DEF Workers
      <3> QED
        BY <1>9, <3>1 DEF Restart
    <2>2. tx[v] # Idle => SideKept(v)
      BY <1>9, <2>1, Typed DEF Restart, K!Restart, SideKept, Workers
    <2> QED
      BY <1>6, <1>9, <2>2 DEF Restart, tableVars
  <1>10. CASE Append \/ (\E i \in 1 .. NumEntries : GetIdle(i)) \/ RemoveDead \/ UNCHANGED vars
    BY <1>2, <1>10 DEF Append, K!Append, GetIdle, K!GetIdle, RemoveDead, S!RemoveDead,
                       vars, streamVars, tableVars
  <1> QED
    BY <1>3, <1>4, <1>5, <1>7, <1>8, <1>9, <1>10 DEF Next, Task

-----------------------------------------------------------------------------
(***************************************************************************)
(* What was handled stays committed.                                       *)
(***************************************************************************)

\* The histories of the tables only grow, but for the engines that are removed.
LEMMA HistoriesGrow ==
    ASSUME [Next]_vars
    PROVE  /\ stream' = stream
           /\ removed \subseteq removed' /\ dropped \subseteq dropped'
           /\ \A id \in applied : id \notin applied' =>
                 /\ engines[stream[id].engine] # NoRow
                 /\ engines'[stream[id].engine] = NoRow
                 /\ stream[id].engine \in EngineIds
                 /\ RemoveDead
  <1>1. CASE UNCHANGED <<tableVars, removed>>
    BY <1>1 DEF tableVars
  <1>2. ASSUME NEW w \in Workers, NEW i \in 1 .. NumEntries,
               Begin(w, i) \/ Return(w, i) \/ Ignore(w, i) \/ Fail(w, i)
        PROVE  /\ UNCHANGED <<stream, removed>>
               /\ applied \subseteq applied' /\ dropped \subseteq dropped'
    BY <1>2 DEF Begin, Return, Ignore, Fail, S!FetchUpsert, S!FetchMarkDead, S!MarkDeadMissing,
                S!Commit, S!Abort, S!Ignore, S!vars, tableVars
  <1>3. ASSUME NEW w \in Workers, Save(w)
        PROVE  UNCHANGED <<stream, applied, dropped, removed>>
    BY <1>3 DEF Save, S!Save
  <1>4. CASE RemoveDead
    <2>1. PICK X \in SUBSET S!DeadRows :
             /\ engines' = [e \in EngineIds |-> IF e \in X THEN NoRow ELSE engines[e]]
             /\ applied' = {id \in applied : stream[id].engine \notin X}
             /\ UNCHANGED <<stream, dropped>>
      BY <1>4 DEF RemoveDead, S!RemoveDead, S!EngineOf
    <2>2. \A e \in X : e \in EngineIds /\ engines[e] # NoRow /\ engines'[e] = NoRow
      BY <2>1 DEF S!DeadRows, S!Exists
    <2> QED
      BY <1>4, <2>1, <2>2 DEF RemoveDead
  <1> QED
    BY <1>1, <1>2, <1>3, <1>4 DEF Next, Task, Append, GetIdle, Stream, CallFails, Restart,
                                  vars, tableVars

LEMMA CommittedStays ==
    ASSUME IInv, [Next]_vars, NEW i, HandledCommitted(i)
    PROVE  HandledCommitted(i)'
  <1> DEFINE id == IdOf[i]
             e == stream[id].engine
  <1>1. stream' = stream /\ removed \subseteq removed' /\ dropped \subseteq dropped'
    BY HistoriesGrow
  <1>2. CASE id \in applied /\ id \notin applied'
    <2>1. e \in EngineIds /\ engines[e] # NoRow /\ engines'[e] = NoRow /\ RemoveDead
      BY <1>2, HistoriesGrow
    <2>2. e \in removed'
      BY <2>1 DEF RemoveDead
    <2> QED
      BY <1>1, <2>2 DEF HandledCommitted
  <1>3. CASE ~(id \in applied /\ id \notin applied')
    BY <1>1, <1>3 DEF HandledCommitted
  <1> QED
    BY <1>2, <1>3

\* A handler returns from its own entry, with that committed or dropped.
LEMMA ReturnCommits ==
    ASSUME IInv, NEW w \in Workers, NEW i \in 1 .. NumEntries, Return(w, i)
    PROVE  handled' \subseteq handled \cup {i} /\ IdOf[i] \in applied' \cup dropped'
  <1>1. Has(w, i)
    BY DEF Return
  <1>2. handled' \subseteq handled \cup {i}
    BY <1>1 DEF Return, Handles, K!SubscriberHandles, K!ReclaimerHandles, Has
  <1>3. CASE S!Commit(w)
    <2>1. tx[w] # Idle /\ tx[w].id \in applied'
      BY <1>3 DEF S!Commit
    <2>2. PICK j \in 1 .. NumEntries : Has(w, j) /\ tx[w].id = IdOf[j]
      BY <2>1 DEF IInv, Joined, HandlesItsEntry
    <2>3. j = i
      BY <1>1, <2>2, CurrentEntry
    <2> QED
      BY <1>2, <2>1, <2>2, <2>3
  <1>4. CASE S!MarkDeadMissing(w, IdOf[i])
    BY <1>2, <1>4 DEF S!MarkDeadMissing
  <1> QED
    BY <1>3, <1>4 DEF Return

\* ... or with nothing to do for it.
LEMMA IgnoreHandles ==
    ASSUME IInv, NEW w \in Workers, NEW i \in 1 .. NumEntries, Ignore(w, i)
    PROVE  /\ handled' \subseteq handled \cup {i}
           /\ stream'[IdOf[i]].event = "other"
  <1>1. Has(w, i)
    BY DEF Ignore
  <1>2. handled' \subseteq handled \cup {i}
    BY <1>1 DEF Ignore, Handles, K!SubscriberHandles, K!ReclaimerHandles, Has
  <1> QED
    BY <1>2 DEF Ignore, S!Ignore, S!vars

LEMMA HandledKept ==
    ASSUME IInv, [Next]_vars, NEW i \in handled'
    PROVE  HandledCommitted(i)'
  <1>1. CASE i \in handled
    BY <1>1, CommittedStays DEF IInv, Joined
  <1>2. CASE i \notin handled
    <2>1. \E w \in Workers, j \in 1 .. NumEntries : Return(w, j) \/ Ignore(w, j)
      <3>1. ASSUME NEW w \in Workers, NEW j \in 1 .. NumEntries, Begin(w, j) \/ Fail(w, j)
            PROVE  handled' = handled
        BY <3>1 DEF Begin, Fail, Fails, streamVars, K!SubscriberFails, K!ReclaimerFails
      <3>2. ASSUME NEW w \in Workers, Save(w) \/ Stream(w)
            PROVE  handled' = handled
        BY <3>2 DEF Save, streamVars, Stream, K!Read, K!SubscriberAcks, K!Claim, K!Count,
                    K!DeadLetter, K!ReclaimerAcks
      <3>3. ASSUME NEW c \in Consumers, CallFails(c) \/ Restart(c)
            PROVE  handled' = handled
        BY <3>3 DEF CallFails, Restart, K!ReadLost, K!SubscriberAckFails, K!ClaimLost,
                    K!GiveUp, K!Restart
      <3>4. ASSUME Append \/ \E j \in 1 .. NumEntries : GetIdle(j)
            PROVE  handled' = handled
        BY <3>4 DEF Append, K!Append, GetIdle, K!GetIdle
      <3>5. ASSUME RemoveDead \/ UNCHANGED vars
            PROVE  handled' = handled
        BY <3>5 DEF RemoveDead, vars, streamVars
      <3> QED
        BY <1>2, <3>1, <3>2, <3>3, <3>4, <3>5 DEF Next, Task
    <2>2. PICK w \in Workers, j \in 1 .. NumEntries : Return(w, j) \/ Ignore(w, j)
      BY <2>1
    <2>3. i = j /\ (IdOf[j] \in applied' \cup dropped' \/ stream'[IdOf[j]].event = "other")
      BY <1>2, <2>2, ReturnCommits, IgnoreHandles
    <2> QED
      BY <2>3 DEF HandledCommitted
  <1> QED
    BY <1>1, <1>2

-----------------------------------------------------------------------------
(***************************************************************************)
(* Versions come from the stream.                                          *)
(***************************************************************************)

\* The stream only grows.
LEMMA StreamGrows ==
    ASSUME IInv, [Next]_vars, NEW version, OfStream(version)
    PROVE  \E i \in 1 .. appended' : ToStreamId(version) = IdOf[i]
  <1>1. appended' = appended \/ appended' = appended + 1
    <2>1. KP!Next \/ appended' = appended
      BY StreamSteps DEF KP!vars, KP!redis
    <2> QED
      BY <2>1 DEF KP!Next, KP!Append, KP!GetIdle, KP!Subscriber, KP!ReclaimerTask, KP!Read,
             KP!ReadLost, KP!SubscriberHandles, KP!SubscriberFails, KP!SubscriberAcks,
             KP!SubscriberAckFails, KP!Claim, KP!ClaimLost, KP!Count, KP!DeadLetter,
             KP!ReclaimerHandles, KP!ReclaimerFails, KP!ReclaimerChokes, KP!ReclaimerAcks,
             KP!GiveUp, KP!Restart, KP!Ack, KP!redis
  <1> QED
    BY <1>1, Typed DEF OfStream

\* What a task makes of a row has the row's version or the entry's.
LEMMA DecidedVersion ==
    ASSUME NEW e, NEW row, NEW data, NEW version
    PROVE  /\ row # NoRow => S!Upserted(e, row, data, version).version \in {row.version, version}
           /\ row = NoRow => S!Upserted(e, row, data, version).version = version
           /\ S!MarkDead(S!Load(e, row), version).version \in {row.version, version}
  <1>1. S!Load(e, row).version = row.version
    BY DEF S!Load
  <1>2. ASSUME NEW eng
        PROVE  /\ S!MarkDead(eng, version).version \in {eng.version, version}
               /\ S!Update(eng, data.running, data.uuid, version).version
                     \in {eng.version, version}
               /\ S!Restore(eng, data.running, data.uuid, version).version
                     \in {eng.version, version}
    BY DEF S!MarkDead, S!Update, S!Restore
  <1>3. S!NewEngine(e, data.uuid, version).version = version
    BY DEF S!NewEngine
  <1> QED
    BY <1>1, <1>2, <1>3 DEF S!Upserted

\* A handler begins with the version of an entry that was appended.
LEMMA BeginOfStream ==
    ASSUME IInv, NEW w \in Workers, NEW i \in 1 .. NumEntries, Begin(w, i)
    PROVE  OfStream(tx'[w].engine.version)
  <1> DEFINE e == stream[IdOf[i]].engine
             version == S!FromStreamId(IdOf[i])
  <1>1. i \in 1 .. appended /\ IdOf[i] \in StreamIds
    BY Ids, CurrentEntry DEF Begin
  <1>2. ToStreamId(version) = IdOf[i] /\ OfStream(version)
    BY <1>1, StreamAssumption DEF S!FromStreamId, ToStreamId, StreamId, OfStream
  <1>3. e \in EngineIds
    BY <1>1, Typed DEF SP!Entry, SP!HsetEntry, SP!ExpiredEntry, SP!OtherEntry
  <1>4. engines[e] # NoRow => OfStream(engines[e].version)
    BY <1>3 DEF IInv, Joined
  <1> HIDE DEF version
  <1>5. ASSUME NEW locked, NEW eng, S!Open(w, IdOf[i], locked, eng),
               eng.version = version \/ (engines[e] # NoRow /\ eng.version = engines[e].version)
        PROVE  OfStream(tx'[w].engine.version)
    <2>1. tx'[w].engine = eng
      BY <1>5, Typed DEF S!Open
    <2> QED
      BY <1>2, <1>4, <1>5, <2>1
  <1>6. CASE S!FetchUpsert(w, IdOf[i])
    <2> DEFINE eng == S!Upserted(e, engines[e], stream[IdOf[i]].data, version)
    <2>1. S!Open(w, IdOf[i], S!Exists(e), eng)
      BY <1>6 DEF S!FetchUpsert, S!EngineOf, version
    <2>2. eng.version = version \/ (engines[e] # NoRow /\ eng.version = engines[e].version)
      BY DecidedVersion
    <2> QED
      BY <1>5, <2>1, <2>2
  <1>7. CASE S!FetchMarkDead(w, IdOf[i])
    <2> DEFINE eng == S!MarkDead(S!Load(e, engines[e]), version)
    <2>1. S!Open(w, IdOf[i], TRUE, eng) /\ engines[e] # NoRow
      BY <1>7 DEF S!FetchMarkDead, S!EngineOf, S!Exists, version
    <2>2. eng.version = version \/ eng.version = engines[e].version
      BY DecidedVersion
    <2> QED
      BY <1>5, <2>1, <2>2
  <1> QED
    BY <1>6, <1>7 DEF Begin

LEMMA TxOfStream ==
    ASSUME IInv, [Next]_vars, NEW v \in Workers, tx'[v] # Idle
    PROVE  OfStream(tx'[v].engine.version)
  <1>1. tx[v] # Idle => OfStream(tx[v].engine.version)
    BY DEF IInv, Joined
  <1>2. CASE tx[v] # Idle /\ tx'[v].engine = tx[v].engine
    BY <1>1, <1>2
  <1>3. CASE \E w \in Workers, i \in 1 .. NumEntries : Begin(w, i)
    <2>1. PICK w \in Workers, i \in 1 .. NumEntries : Begin(w, i)
      BY <1>3
    <2> QED
      BY <1>1, <2>1, TxSteps, BeginOfStream
  <1>4. CASE \E w \in Workers : Save(w)
    BY <1>1, <1>4, TxSteps
  <1>5. CASE \E w \in Workers, i \in 1 .. NumEntries :
               Return(w, i) \/ Ignore(w, i) \/ Fail(w, i)
    <2>1. PICK w \in Workers, i \in 1 .. NumEntries :
                  Return(w, i) \/ Ignore(w, i) \/ Fail(w, i)
      BY <1>5
    <2> QED
      BY <1>1, <2>1, TxSteps
  <1>6. CASE tx' = tx
    BY <1>1, <1>6
  <1> QED
    BY <1>3, <1>4, <1>5, <1>6
    DEF Next, Task, Append, GetIdle, Stream, CallFails, Restart, RemoveDead, S!RemoveDead,
        vars, tableVars

LEMMA RowsOfStream ==
    ASSUME IInv, [Next]_vars, NEW e \in EngineIds, engines'[e] # NoRow
    PROVE  OfStream(engines'[e].version)
  <1>1. CASE engines'[e] = engines[e]
    BY <1>1 DEF IInv, Joined
  <1>2. ASSUME NEW w \in Workers, S!Commit(w)
        PROVE  OfStream(engines'[e].version)
    <2>1. tx[w] # Idle /\ OfStream(tx[w].engine.version)
      BY <1>2 DEF S!Commit, IInv, Joined
    <2>2. engines'[e] = engines[e] \/ engines'[e] = S!Store(tx[w].engine)
      BY <1>2, Typed DEF S!Commit
    <2> QED
      BY <1>1, <2>1, <2>2 DEF S!Store
  <1>3. CASE RemoveDead
    BY <1>1, <1>3 DEF RemoveDead, S!RemoveDead
  <1>4. CASE engines' = engines
    BY <1>1, <1>4
  <1>5. ASSUME NEW w \in Workers, NEW i \in 1 .. NumEntries,
               Begin(w, i) \/ Return(w, i) \/ Ignore(w, i) \/ Fail(w, i)
        PROVE  engines' = engines \/ S!Commit(w)
    BY <1>5 DEF Begin, Return, Ignore, Fail, S!FetchUpsert, S!FetchMarkDead, S!MarkDeadMissing,
                S!Abort, S!Ignore, S!vars, tableVars
  <1> QED
    BY <1>2, <1>3, <1>4, <1>5
    DEF Next, Task, Append, GetIdle, Save, S!Save, Stream, CallFails, Restart, vars, tableVars

-----------------------------------------------------------------------------
(***************************************************************************)
(* The invariant of the whole.                                             *)
(***************************************************************************)
LEMMA InitIInv == Init => IInv
  <1> SUFFICES ASSUME Init
               PROVE  IInv
    OBVIOUS
  <1>1. KP!IInv
    BY Constants, SameStream, KP!InitInv DEF Init
  <1>2. SP!AInv
    BY Constants, SameTables, SP!InitAInv DEF Init
  <1>3. KP!OnlyDelivered
    BY DEF Init, K!Init, K!Started, KP!OnlyDelivered
  <1>4. \A w \in Workers : tx[w] = Idle
    BY DEF Init, S!Init
  <1>5. handled = {} /\ \A e \in EngineIds : engines[e] = NoRow
    BY DEF Init, K!Init, S!Init
  <1> QED
    BY <1>1, <1>2, <1>3, <1>4, <1>5 DEF IInv, Joined, HandlesItsEntry

LEMMA Inductive == IInv /\ [Next]_vars => IInv'
  <1> SUFFICES ASSUME IInv, [Next]_vars
               PROVE  IInv'
    OBVIOUS
  <1>1. KP!IInv' /\ KP!OnlyDelivered' /\ SP!AInv'
    BY PartsKept DEF IInv, Joined
  <1>2. \A w \in Workers : HandlesItsEntry(w)'
    BY EntriesKept
  <1>3. \A i \in handled' : HandledCommitted(i)'
    BY HandledKept
  <1>4. \A e \in EngineIds : engines'[e] # NoRow =>
           \E i \in 1 .. appended' : ToStreamId(engines'[e].version) = IdOf[i]
    BY RowsOfStream, StreamGrows
  <1>5. \A w \in Workers : tx'[w] # Idle =>
           \E i \in 1 .. appended' : ToStreamId(tx'[w].engine.version) = IdOf[i]
    BY TxOfStream, StreamGrows
  <1> QED
    BY <1>1, <1>2, <1>3, <1>4, <1>5 DEF IInv, Joined, OfStream

\* The invariant that joins Redis and PostgreSQL: the parts keep theirs, every
\* transaction is about the entry its task has come to, what a handler returned
\* from is committed, and versions come from entries that were appended.
THEOREM Invariance == Spec => []IInv
  BY InitIInv, Inductive, PTL DEF Spec

\* The process implements its parts: whatever one transaction, one failure or
\* one restart does to Redis and PostgreSQL is a step KeyeventStream allows for
\* and one EngineService allows for, or invisible to it.
THEOREM BothPartsImplemented == Spec => K!Spec /\ S!Spec
  <1>1. Init => K!Init /\ S!Init
    BY DEF Init
  <1>2. [Next]_vars => [K!Next]_(K!vars) /\ [S!Next]_(S!vars)
    <2> SUFFICES ASSUME [Next]_vars
                 PROVE  [K!Next]_(K!vars) /\ [S!Next]_(S!vars)
      OBVIOUS
    <2>1. [KP!Next]_(KP!vars) /\ [SP!Next]_(SP!vars)
      BY StreamSteps, TableSteps
    <2>2. (UNCHANGED KP!vars => UNCHANGED K!vars) /\ (UNCHANGED SP!vars => UNCHANGED S!vars)
      BY DEF KP!vars, KP!redis, K!vars, K!redis, SP!vars, S!vars
    <2> QED
      BY <2>1, <2>2, SameStream, SameTables
  <1> QED
    BY <1>1, <1>2, PTL DEF Spec, K!Spec, S!Spec

\* Seen from the tables, all the reading, claiming, failing and restarting comes
\* to a registry that handles every entry in one step.
THEOREM RegistryImplemented == Spec => SP!ImplementsRegistry
  <1>1. Init => SP!Registry!Init
    BY Constants, SameTables, SP!InitRefines DEF Init
  <1>2. IInv /\ [Next]_vars => [SP!Registry!Next]_(SP!Registry!vars)
    BY TableSteps, Constants, SP!StepRefines DEF IInv, SP!AInv
  <1> QED
    BY <1>1, <1>2, Invariance, PTL DEF Spec, SP!ImplementsRegistry, SP!Registry!Spec

-----------------------------------------------------------------------------
(***************************************************************************)
(* What the process promises.                                              *)
(***************************************************************************)
LEMMA SettledCommitted ==
    ASSUME IInv, NEW i \in K!Settled, ~Excused(i)
    PROVE  /\ i \in 1 .. appended /\ IdOf[i] \in applied
           /\ stream[IdOf[i]].engine \in EngineIds
           /\ engines[stream[IdOf[i]].engine] # NoRow
           /\ ~RowOlder(engines[stream[IdOf[i]].engine].version, FromStreamId(IdOf[i]))
  <1>1. i \in KP!Settled
    BY SameStreamStates
  <1>2. i \in handled
    BY <1>1 DEF IInv, KP!IInv, KP!NothingLost, Excused
  <1>3. IdOf[i] \in applied
    BY <1>2 DEF IInv, Joined, HandledCommitted, Excused
  <1>4. i \in 1 .. appended
    BY <1>1, Typed DEF KP!Settled
  <1>5. SP!AppliedNotLost
    BY DEF IInv, SP!AInv, SP!RInv, SP!IInv
  <1>6. /\ engines[stream[IdOf[i]].engine] # NoRow
        /\ ~RowOlder(engines[stream[IdOf[i]].engine].version, FromStreamId(IdOf[i]))
    BY <1>3, <1>5, SameOrder DEF SP!AppliedNotLost, SP!Exists, SP!EngineOf
  <1>7. stream[IdOf[i]].engine \in EngineIds
    BY <1>4, Ids, Typed DEF SP!Entry, SP!HsetEntry, SP!ExpiredEntry, SP!OtherEntry
  <1> QED
    BY <1>3, <1>4, <1>6, <1>7

\* What left the group's list is in the table, at its version or a later one,
\* whatever failed between the commit and the acknowledgement: the task
\* acknowledges only what its handler returned from, and the handler returns
\* only when the transaction is committed.
THEOREM SettledAreShown == Spec => []SettledShown
  <1>1. IInv => SettledShown
    BY SettledCommitted DEF SettledShown
  <1> QED
    BY <1>1, Invariance, PTL

\* The row of an engine whose last entry is settled is at that entry.
LEMMA LastEntryShown ==
    ASSUME IInv, NEW i \in K!Settled, ~Excused(i),
           \A j \in i + 1 .. appended : stream[IdOf[j]].engine # stream[IdOf[i]].engine
    PROVE  ToStreamId(engines[stream[IdOf[i]].engine].version) = IdOf[i]
  <1> DEFINE e == stream[IdOf[i]].engine
             version == engines[e].version
  <1>1. /\ i \in 1 .. appended /\ e \in EngineIds /\ engines[e] # NoRow
        /\ ~RowOlder(version, FromStreamId(IdOf[i]))
    BY SettledCommitted
  <1>2. PICK k \in 1 .. appended : ToStreamId(version) = IdOf[k]
    BY <1>1 DEF IInv, Joined, OfStream
  <1>3. stream[IdOf[k]].engine = e
    <2>1. SP!RowReflectsEntry
      BY DEF IInv, SP!AInv, SP!RInv, SP!IInv
    <2> QED
      BY <1>1, <1>2, <2>1, SameOrder
      DEF SP!RowReflectsEntry, SP!Reflects, SP!Exists, SP!EngineOf
  <1>4. ~(i < k)
    BY <1>1, <1>2, <1>3, Typed
  <1>5. ~(k < i)
    <2>1. i \in 1 .. NumEntries /\ k \in 1 .. NumEntries
      BY <1>1, <1>2, Typed
    <2>2. version.ts = IdOf[k][1] /\ version.seq = IdOf[k][2]
      BY <1>2 DEF ToStreamId
    <2> QED
      BY <1>1, <2>1, <2>2, IdAssumption DEF RowOlder, FromStreamId
  <1> QED
    BY <1>1, <1>2, <1>4, <1>5, Typed

\* A record of an expiry is the only record of its entry.
LEMMA OneRecordOfExpiry ==
    ASSUME IInv, NEW id \in StreamIds, stream[id].event = "expired",
           NEW r \in outbox, r.event.version = id
    PROVE  /\ r.event.name = "EngineDead"
           /\ \A q \in outbox : q.event.version = id => q = r
  <1>1. SP!RecordsTrue /\ outbox \subseteq SP!OutboxRecord
    BY DEF IInv, SP!AInv, SP!RInv, SP!IInv, SP!TypeOK
  <1>2. ASSUME NEW q \in outbox, q.event.version = id
        PROVE  /\ q.caused_by = id /\ q.id = SP!OutboxKey(id, q.event)
               /\ q.event = [name |-> "EngineDead", engine |-> stream[id].engine,
                             version |-> id, uuid |-> NoUuid, status |-> "dead"]
               /\ q = [id |-> q.id, caused_by |-> q.caused_by, event |-> q.event]
    <2>1. q \in SP!OutboxRecord /\ q.event \in SP!DomainEvent
      BY <1>1 DEF SP!OutboxRecord
    <2>2. SP!EventTrue(q.caused_by, q.event) /\ q.id = SP!OutboxKey(q.caused_by, q.event)
      BY <1>1 DEF SP!RecordsTrue
    <2>3. q.caused_by = id
      BY <1>2, <2>2 DEF SP!EventTrue
    <2>4. /\ q.event.name = "EngineDead" /\ q.event.engine = stream[id].engine
          /\ q.event.uuid = NoUuid /\ q.event.status = "dead"
      BY <2>2, <2>3 DEF SP!EventTrue, SP!EngineOf
    <2> QED
      BY <1>2, <2>1, <2>2, <2>3, <2>4 DEF SP!OutboxRecord, SP!DomainEvent
  <1>3. /\ r.caused_by = id /\ r.id = SP!OutboxKey(id, r.event)
        /\ r.event = [name |-> "EngineDead", engine |-> stream[id].engine,
                      version |-> id, uuid |-> NoUuid, status |-> "dead"]
        /\ r = [id |-> r.id, caused_by |-> r.caused_by, event |-> r.event]
    BY <1>2
  <1> QED
    BY <1>2, <1>3

\* The expiry of an engine that nothing followed is announced by the time it is
\* settled, and announced once: a handler that is repeated, or comes late, runs
\* into the record of the first.
THEOREM ExpiriesAnnounced == Spec => []ExpiryAnnounced
  <1>1. IInv => ExpiryAnnounced
    <2> SUFFICES ASSUME IInv, NEW i \in K!Settled, ~Excused(i),
                        stream[IdOf[i]].event = "expired",
                        \A j \in i + 1 .. appended :
                           stream[IdOf[j]].engine # stream[IdOf[i]].engine
                 PROVE  \E r \in outbox :
                           /\ r.event.name = "EngineDead"
                           /\ r.event.version = IdOf[i]
                           /\ \A q \in outbox : q.event.version = IdOf[i] => q = r
      BY DEF ExpiryAnnounced
    <2> DEFINE e == stream[IdOf[i]].engine
    <2>1. /\ e \in EngineIds /\ engines[e] # NoRow /\ IdOf[i] \in StreamIds
          /\ ToStreamId(engines[e].version) = IdOf[i]
      BY SettledCommitted, LastEntryShown, Ids, Typed
    <2>2. SP!RowReflectsEntry /\ SP!StateAnnounced
      BY DEF IInv, SP!AInv, SP!RInv, SP!IInv
    <2>3. engines[e].status = "dead"
      BY <2>1, <2>2, SameOrder DEF SP!RowReflectsEntry, SP!Reflects, SP!Exists
    <2>4. PICK r \in outbox : r.event.version = IdOf[i]
      BY <2>1, <2>2, <2>3, SameOrder DEF SP!StateAnnounced, SP!Exists
    <2> QED
      BY <2>1, <2>4, OneRecordOfExpiry
  <1> QED
    BY <1>1, Invariance, PTL

\* However the stream repeats and reorders entries, no two engines carry one
\* version, so the unique constraint, which upsert does not handle, is not hit.
THEOREM ConstraintHolds == Spec => []VersionsUnique
  <1>1. IInv => VersionsUnique
    <2>1. ASSUME IInv
          PROVE  SP!VersionsUnique
      BY <2>1, Constants, SP!OwnVersions DEF IInv, SP!AInv, SP!RInv
    <2> QED
      BY <2>1 DEF VersionsUnique, S!VersionsUnique, S!Exists, SP!VersionsUnique, SP!Exists
  <1> QED
    BY <1>1, Invariance, PTL

-----------------------------------------------------------------------------
(***************************************************************************)
(* What the process does not do any more once it is done with an entry.    *)
(***************************************************************************)
LEMMA SameHands ==
    /\ \A i : K!Done(i) <=> KP!Done(i)
    /\ \A i : K!Done(i)' <=> KP!Done(i)'
  BY SameStreamStates DEF K!Done, KP!Done, K!InHands, KP!InHands, K!Settled, KP!Settled,
                          K!Pending, KP!Pending

\* Only a task that has an entry about the engine in hand writes its row.
LEMMA RowsWrittenInHand ==
    ASSUME IInv, [Next]_vars, NEW e \in EngineIds, engines'[e] \notin {engines[e], NoRow}
    PROVE  \E i \in 1 .. appended : stream[IdOf[i]].engine = e /\ ~K!Done(i)
  <1>1. \/ engines' = engines
        \/ RemoveDead
        \/ \E w \in Workers : /\ S!Commit(w)
                              /\ \E i \in 1 .. NumEntries : Has(w, i)
    <2>1. ASSUME NEW w \in Workers, NEW i \in 1 .. NumEntries,
                 Return(w, i) \/ Ignore(w, i) \/ Fail(w, i)
          PROVE  engines' = engines \/ (S!Commit(w) /\ Has(w, i))
      BY <2>1 DEF Return, Ignore, Fail, tableVars, S!MarkDeadMissing, S!Abort,
                  S!Ignore, S!vars
    <2>2. ASSUME NEW w \in Workers, NEW i \in 1 .. NumEntries, Begin(w, i)
          PROVE  engines' = engines
      BY <2>2 DEF Begin, S!FetchUpsert, S!FetchMarkDead
    <2>3. ASSUME NEW w \in Workers, Save(w) \/ Stream(w)
          PROVE  engines' = engines
      BY <2>3 DEF Save, S!Save, Stream, tableVars
    <2>4. ASSUME NEW c \in Consumers, CallFails(c) \/ Restart(c)
          PROVE  engines' = engines
      BY <2>4 DEF CallFails, Restart, tableVars
    <2>5. CASE \/ Append \/ (\E i \in 1 .. NumEntries : GetIdle(i)) \/ UNCHANGED vars
      BY <2>5 DEF Append, GetIdle, vars, tableVars
    <2> QED
      BY <2>1, <2>2, <2>3, <2>4, <2>5 DEF Next, Task
  <1>2. ~RemoveDead
    BY Typed DEF RemoveDead, S!RemoveDead
  <1>3. PICK w \in Workers : S!Commit(w) /\ \E i \in 1 .. NumEntries : Has(w, i)
    BY <1>1, <1>2
  <1>4. tx[w] # Idle /\ tx[w].engine.id = e
    BY <1>3, Typed DEF S!Commit
  <1>5. PICK i \in 1 .. NumEntries : Has(w, i) /\ tx[w].id = IdOf[i]
    BY <1>4 DEF IInv, Joined, HandlesItsEntry
  <1>6. stream[IdOf[i]].engine = e
    BY <1>4, <1>5
    DEF IInv, SP!AInv, SP!RInv, SP!IInv, SP!TransactionsConsistent, SP!Consistent,
        SP!EngineOf
  <1>7. i \in 1 .. appended
    BY <1>5, CurrentEntry
  <1>8. ~K!Done(i)
    BY <1>5, HasInHand DEF K!Done, K!InHands, Workers
  <1> QED
    BY <1>6, <1>7, <1>8

\* What is done with stays so, and a removed engine comes back only through an
\* entry that the group still lists or a task still has in hand.
THEOREM NoneComesBack == Spec => NoComeback
  <1> DEFINE A == \A e \in EngineIds : Quiet(e) =>
                     /\ engines'[e] \in {engines[e], NoRow}
                     /\ \A i \in 1 .. appended :
                           stream[IdOf[i]].engine = e => K!Done(i)'
  <1>1. IInv /\ [Next]_vars => [A]_vars
    <2> SUFFICES ASSUME IInv, [Next]_vars, NEW e \in EngineIds, Quiet(e)
                 PROVE  /\ engines'[e] \in {engines[e], NoRow}
                        /\ \A i \in 1 .. appended :
                              stream[IdOf[i]].engine = e => K!Done(i)'
      OBVIOUS
    <2>1. engines'[e] \in {engines[e], NoRow}
      BY RowsWrittenInHand DEF Quiet
    <2>2. \A i : KP!Done(i) => KP!Done(i)'
      BY StreamSteps, Constants, KP!DoneKept DEF IInv, KP!IInv
    <2> QED
      BY <2>1, <2>2, SameHands DEF Quiet
  <1> QED
    BY <1>1, Invariance, PTL DEF Spec, NoComeback
=============================================================================
