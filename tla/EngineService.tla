--------------------------- MODULE EngineService ---------------------------
(***************************************************************************)
(* EngineService (app/services/engine.py) over PostgreSQL: how the entries *)
(* of the keyevent stream become rows of the `engine' table and records of *)
(* the `outbox' table.                                                     *)
(*                                                                         *)
(* A worker is one task that handles one stream entry: the subscriber or   *)
(* the reclaimer of one of the replicas of the events process.  Handling   *)
(* an entry is one READ COMMITTED transaction of three statements          *)
(*     SELECT ... FOR UPDATE;  INSERT ... ON CONFLICT DO UPDATE;           *)
(*     INSERT INTO outbox ... ON CONFLICT DO NOTHING                       *)
(* and a commit.  A transaction sees only committed rows, so its writes    *)
(* reach `engines' and `outbox' at the commit.  The stream promises only   *)
(* what KeyeventStream shows: an entry can be handled any number of times, *)
(* by several workers at once and in any order.                            *)
(***************************************************************************)
EXTENDS EngineTables

CONSTANTS
    Workers,     \* concurrent handlers of stream entries
    Idle         \* the worker has no transaction open

\* A transaction on the row of tx.engine: `locked' says that it holds that
\* row (or the index entry of the row it inserts), `changed' is the result of
\* save() once the stage is "saved".
Tx == [id : StreamIds, stage : {"fetched", "saved"}, locked : BOOLEAN,
       engine : Aggregate, changed : BOOLEAN]

ASSUME IdleAssumption == Idle \notin Tx

VARIABLES
    stream,    \* the entry behind every id; written by Redis, never changed
    engines,   \* table `engine': the committed row of every engine, or NoRow
    outbox,    \* table `outbox': the committed records
    tx,        \* the open transaction of every worker, or Idle
    applied,   \* history: entries committed since the engine was last removed
    dropped    \* history: expired entries that found no row to mark dead

vars == <<stream, engines, outbox, tx, applied, dropped>>

-----------------------------------------------------------------------------
EngineOf(id) == stream[id].engine

Exists(e) == engines[e] # NoRow

\* Mutant of HeldByOther: a SELECT that found no row blocks other inserts too.
HeldOrMissedByOther(w, e) ==
    \E o \in Workers \ {w} : tx[o] # Idle /\ tx[o].engine.id = e

\* The row of engine e is held by a transaction other than w's.
HeldByOther(w, e) ==
    \E o \in Workers \ {w} :
        tx[o] # Idle /\ tx[o].locked /\ tx[o].engine.id = e

Held(e) == \E w \in Workers : tx[w] # Idle /\ tx[w].locked /\ tx[w].engine.id = e

Open(w, id, locked, eng) ==
    tx' = [tx EXCEPT ![w] = [id |-> id, stage |-> "fetched", locked |-> locked,
                             engine |-> eng, changed |-> FALSE]]

-----------------------------------------------------------------------------
Init ==
    /\ stream \in [StreamIds -> Entry]
    /\ engines = [e \in EngineIds |-> NoRow]
    /\ outbox = {}
    /\ tx = [w \in Workers |-> Idle]
    /\ applied = {}
    /\ dropped = {}

\* Mutant of FetchUpsert: a SELECT without FOR UPDATE.
FetchUpsertUnlocked(w, id) ==
    /\ tx[w] = Idle
    /\ stream[id].event = "hset"
    /\ LET e == EngineOf(id)
       IN  Open(w, id, FALSE,
                Upserted(e, engines[e], stream[id].data, FromStreamId(id)))
    /\ UNCHANGED <<stream, engines, outbox, applied, dropped>>

\* upsert up to its save.  SELECT ... FOR UPDATE waits for the holder of an
\* existing row and then reads what it committed; where there is no row it
\* locks nothing.
FetchUpsert(w, id) ==
    /\ tx[w] = Idle
    /\ stream[id].event = "hset"
    /\ Exists(EngineOf(id)) => ~HeldByOther(w, EngineOf(id))
    /\ LET e == EngineOf(id)
       IN  Open(w, id, Exists(e),
                Upserted(e, engines[e], stream[id].data, FromStreamId(id)))
    /\ UNCHANGED <<stream, engines, outbox, applied, dropped>>

\* Mutant of FetchMarkDead: a SELECT without FOR UPDATE.
FetchMarkDeadUnlocked(w, id) ==
    /\ tx[w] = Idle
    /\ stream[id].event = "expired"
    /\ Exists(EngineOf(id))
    /\ LET e == EngineOf(id)
       IN  Open(w, id, FALSE, MarkDead(Load(e, engines[e]), FromStreamId(id)))
    /\ UNCHANGED <<stream, engines, outbox, applied, dropped>>

\* mark_dead up to its save.
FetchMarkDead(w, id) ==
    /\ tx[w] = Idle
    /\ stream[id].event = "expired"
    /\ Exists(EngineOf(id))
    /\ ~HeldByOther(w, EngineOf(id))
    /\ LET e == EngineOf(id)
       IN  Open(w, id, TRUE, MarkDead(Load(e, engines[e]), FromStreamId(id)))
    /\ UNCHANGED <<stream, engines, outbox, applied, dropped>>

\* mark_dead raises EngineNotExistError; the handler logs it and returns, so
\* the entry is acknowledged like one that was applied.
MarkDeadMissing(w, id) ==
    /\ tx[w] = Idle
    /\ stream[id].event = "expired"
    /\ ~Exists(EngineOf(id))
    /\ dropped' = dropped \cup {id}
    /\ UNCHANGED <<stream, engines, outbox, tx, applied>>

\* `case _' of handle_keyevents: an event of another kind is only logged.
Ignore(w, id) ==
    /\ tx[w] = Idle
    /\ stream[id].event = "other"
    /\ UNCHANGED vars

\* save(): the upsert waits for whoever holds the row or is inserting it, and
\* holds the row itself from then on, also when its WHERE is false.
Save(w) ==
    /\ tx[w] # Idle
    /\ tx[w].stage = "fetched"
    /\ ~HeldByOther(w, tx[w].engine.id)
    /\ tx' = [tx EXCEPT ![w].stage = "saved", ![w].locked = TRUE,
                        ![w].changed = Yields(engines[tx[w].engine.id],
                                              tx[w].engine.version)]
    /\ UNCHANGED <<stream, engines, outbox, applied, dropped>>

\* outbox.store (only if save() changed the row) and the commit.
Commit(w) ==
    /\ tx[w] # Idle
    /\ tx[w].stage = "saved"
    /\ LET t == tx[w]
       IN  /\ engines' = IF t.changed
                         THEN [engines EXCEPT ![t.engine.id] = Store(t.engine)]
                         ELSE engines
           /\ outbox' = IF t.changed THEN WithRecords(outbox, t.id, t.engine)
                                     ELSE outbox
           /\ applied' = applied \cup {t.id}
    /\ tx' = [tx EXCEPT ![w] = Idle]
    /\ UNCHANGED <<stream, dropped>>

\* Any failure before the commit is durable: a database error, a cancelled
\* handler, the end of the process.  The entry stays pending in the stream.
Abort(w) ==
    /\ tx[w] # Idle
    /\ tx' = [tx EXCEPT ![w] = Idle]
    /\ UNCHANGED <<stream, engines, outbox, applied, dropped>>

DeadRows == {e \in EngineIds : Exists(e) /\ engines[e].status = "dead"}

\* Mutant of RemoveDead: it deletes rows of living engines as well.
RemoveAny ==
    \E S \in SUBSET {e \in EngineIds : Exists(e)} :
        /\ S # {}
        /\ \A e \in S : ~Held(e)
        /\ engines' = [e \in EngineIds |-> IF e \in S THEN NoRow ELSE engines[e]]
        /\ applied' = {id \in applied : EngineOf(id) \notin S}
        /\ UNCHANGED <<stream, outbox, tx, dropped>>

\* remove_dead_engines: one DELETE in a transaction of its own.  It waits for
\* rows that are held, and misses rows that turned dead after its snapshot.
RemoveDead ==
    \E S \in SUBSET DeadRows :
        /\ S # {}
        /\ \A e \in S : ~Held(e)
        /\ engines' = [e \in EngineIds |-> IF e \in S THEN NoRow ELSE engines[e]]
        /\ applied' = {id \in applied : EngineOf(id) \notin S}
        /\ UNCHANGED <<stream, outbox, tx, dropped>>

Next ==
    \/ \E w \in Workers, id \in StreamIds :
            \/ FetchUpsert(w, id)
            \/ FetchMarkDead(w, id)
            \/ MarkDeadMissing(w, id)
            \/ Ignore(w, id)
    \/ \E w \in Workers : Save(w) \/ Commit(w) \/ Abort(w)
    \/ RemoveDead

Spec == Init /\ [][Next]_vars

\* A worker that is not killed gets on with its transaction.  PostgreSQL
\* queues the waiters of a row, so Save is not overtaken for ever (SF).
Fairness == \A w \in Workers : SF_vars(Save(w)) /\ WF_vars(Commit(w))

FairSpec == Spec /\ Fairness

-----------------------------------------------------------------------------
TypeOK ==
    /\ stream \in [StreamIds -> Entry]
    /\ engines \in [EngineIds -> Row \cup {NoRow}]
    /\ outbox \subseteq OutboxRecord
    /\ tx \in [Workers -> Tx \cup {Idle}]
    /\ applied \subseteq StreamIds
    /\ dropped \subseteq StreamIds

(***************************************************************************)
(* Safety.                                                                 *)
(***************************************************************************)

\* A row shows the entry its version names, whatever order the entries were
\* handled in: that entry is about this engine, an expired one left it dead,
\* and an hset one left its access key (upsert, mark_dead and save together).
Reflects(e, row) ==
    LET id == ToStreamId(row.version)
    IN  /\ id \in StreamIds
        /\ EngineOf(id) = e
        /\ stream[id].event # "other"
        /\ stream[id].event = "expired" => row.status = "dead"
        /\ stream[id].event = "hset" =>
               /\ row.uuid = stream[id].data.uuid
               /\ row.status \in {"ready", RunningStatus(stream[id].data.running)}

RowReflectsEntry ==
    \A e \in EngineIds : Exists(e) => Reflects(e, engines[e])

\* Once an entry is committed, the row is at that entry's version or a later
\* one until the engine is removed: no late, repeated or concurrent handling
\* takes the engine back (the WHERE of save and the guard of the aggregate).
AppliedNotLost ==
    \A id \in applied :
        /\ Exists(EngineOf(id))
        /\ ~RowOlder(engines[EngineOf(id)].version, FromStreamId(id))

\* Nobody sees a dead or running engine that was not announced: the outbox
\* holds a record with that status (and access key), of the row's own version
\* if it is dead and of no later version if it is active.
StateAnnounced ==
    \A e \in EngineIds :
        Exists(e) /\ engines[e].status # "ready" =>
            \E r \in outbox :
                /\ r.event.engine = e
                /\ r.event.status = engines[e].status
                /\ ~RowOlder(engines[e].version, FromStreamId(r.event.version))
                /\ engines[e].status = "dead" =>
                       r.event.version = ToStreamId(engines[e].version)
                /\ engines[e].status = "active" => r.event.uuid = engines[e].uuid

\* A record tells of the entry that caused it, whatever the row looked like
\* when the entry was handled: a dead engine of an expired entry, the access
\* key and status of an hset one.  Its key is made of the entry and the event,
\* so a second handling can only run into the record of the first.
EventTrue(id, ev) ==
    /\ ev.version = id
    /\ ev.engine = EngineOf(id)
    /\ ev.name = "EngineDead" =>
           stream[id].event = "expired" /\ ev.status = "dead" /\ ev.uuid = NoUuid
    /\ ev.name # "EngineDead" =>
           /\ stream[id].event = "hset"
           /\ ev.uuid = stream[id].data.uuid
           /\ ev.status = RunningStatus(stream[id].data.running)

RecordsTrue ==
    \A r \in outbox : /\ r.id = OutboxKey(r.caused_by, r.event)
                      /\ EventTrue(r.caused_by, r.event)

\* A committed row is only replaced by one of a strictly newer version.
RowsAdvance ==
    [][\A e \in EngineIds :
          Exists(e) /\ engines'[e] \notin {NoRow, engines[e]} =>
              RowOlder(engines[e].version, engines'[e].version)]_vars

\* The event in a new record is true of the change of the row it commits with.
Describes(ev, old, new) ==
    /\ old # NoRow
    /\ new # NoRow
    /\ ev.version = ToStreamId(new.version)
    /\ ev.status = new.status
    /\ ev.name = "EngineRestored" => old.status = "dead" /\ ev.uuid = new.uuid
    /\ ev.name = "EngineUpdated" =>
           /\ ev.uuid = new.uuid
           /\ old.status # "dead"
           /\ <<old.uuid, old.status>> # <<new.uuid, new.status>>

\* A record enters the outbox only together with the change it describes:
\* EngineRestored when a dead row comes back, EngineUpdated when the visible
\* state of a live row changes, EngineDead when the row is marked dead.  The
\* row lock of get_for_update is what keeps the decision true until the commit.
EventsDescribeChanges ==
    [][\A r \in outbox' \ outbox :
          LET e == r.event.engine IN Describes(r.event, engines[e], engines'[e])]_vars

\* The unique constraint on (version_timestamp, version_seq) is never hit: two
\* engines never carry the same version, nor would a transaction give one a
\* version another has.  The upsert names only the key `id' as its conflict,
\* so a hit would be an error that every retry of the entry runs into again.
VersionsUnique ==
    \A e, f \in EngineIds : e # f /\ Exists(e) =>
        /\ Exists(f) => engines[e].version # engines[f].version
        /\ \A w \in Workers :
              tx[w] # Idle /\ tx[w].engine.id = f =>
                  tx[w].engine.version # engines[e].version

\* What a transaction decided from the row it read still holds when it ends:
\* no two hold the same row, its events describe the step from the committed
\* row to its own, and the answer of save() is still the right one.
Consistent(w) ==
    LET t == tx[w]
        e == t.engine.id
    IN  /\ e = EngineOf(t.id)
        /\ Reflects(e, Store(t.engine))
        /\ ~RowOlder(t.engine.version, FromStreamId(t.id))
        /\ t.locked => ~HeldByOther(w, e)
        /\ \A ev \in t.engine.events :
              /\ t.locked
              /\ ev.engine = e
              /\ Describes(ev, engines[e], Store(t.engine))
        /\ t.stage = "saved" =>
              /\ t.locked
              /\ t.changed <=> Yields(engines[e], t.engine.version)

TransactionsConsistent == \A w \in Workers : tx[w] # Idle => Consistent(w)

\* The aggregate a transaction carries is still what upsert or mark_dead would
\* make of the committed row, or the new engine of one that found no row.
DecidesAsNow(w) ==
    LET t == tx[w]
        e == t.engine.id
        row == engines[e]
        version == FromStreamId(t.id)
        current == t.locked /\ row # NoRow
    IN  \/ /\ stream[t.id].event = "hset"
           /\ \/ t.engine = NewEngine(e, stream[t.id].data.uuid, version)
              \/ current /\ t.engine = Upserted(e, row, stream[t.id].data, version)
        \/ /\ stream[t.id].event = "expired"
           /\ current
           /\ t.engine = MarkDead(Load(e, row), version)

DecisionsCurrent == \A w \in Workers : tx[w] # Idle => DecidesAsNow(w)

\* What a transaction decided from what it read stands until it ends, whatever
\* the others commit meanwhile: its events, the answer of its upsert, its row.
DecisionsStand == TransactionsConsistent /\ DecisionsCurrent

\* The inductive invariants behind the theorems of EngineServiceProofs: of the
\* transactions, of the refinement, and of what the outbox tells.
IInv == TypeOK /\ RowReflectsEntry /\ AppliedNotLost /\ TransactionsConsistent

RInv == IInv /\ DecisionsCurrent

AInv == RInv /\ RecordsTrue /\ StateAnnounced

(***************************************************************************)
(* Liveness.                                                               *)
(***************************************************************************)

\* Every transaction ends: the workers never wait for each other for ever on
\* rows they hold or insert (FairSpec).
TransactionsEnd == \A w \in Workers : tx[w] # Idle ~> tx[w] = Idle

(***************************************************************************)
(* Refinement: the transactions implement the registry that handles every  *)
(* entry in one step.                                                      *)
(***************************************************************************)
Registry == INSTANCE EngineRegistry
                WITH stream <- stream, engines <- engines, outbox <- outbox

\* Every commit acts on the row it replaces as if its three statements ran at
\* once, whatever ran between them; only Overwrite acts on a row that its SELECT
\* did not see.  What is announced is less than the docstrings of the code say:
\* see EngineRegistry, and ChangeAnnounced below.
ImplementsRegistry == Registry!Spec

(***************************************************************************)
(* What the comments of the code say, and the code does not do: the        *)
(* README's section on findings.                                           *)
(***************************************************************************)

\* services/engine.py:72: "Present & version newer -> Update existing
\* aggregate and store event", for an update that changes what is visible.
ChangeAnnounced ==
    [][\A e \in EngineIds :
          /\ Exists(e)
          /\ engines'[e] # NoRow
          /\ <<engines[e].uuid, engines[e].status>>
                 # <<engines'[e].uuid, engines'[e].status>>
          => \E r \in outbox' : /\ r.event.engine = e
                                /\ r.event.version = ToStreamId(engines'[e].version)]_vars

\* services/engine.py:42: the version is an "optimistic concurrency token
\* guaranteeing proper ordering", so an expiry that was handled is not
\* overruled by an older entry.
DeathNotLost ==
    \A id \in dropped :
        Exists(EngineOf(id)) =>
            ~RowOlder(engines[EngineOf(id)].version, FromStreamId(id))
=============================================================================
