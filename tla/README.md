# TLA+ models of netku-proxy

netku-proxy keeps a registry of proxy engines.  Engines show themselves in
Redis; the service follows the key events, keeps one row per engine in
PostgreSQL, and tells subscribed Telegram users when an engine dies, comes back
or changes.  This directory holds a TLA+ model of that pipeline, the TLC runs
that check it, and proofs checked by TLAPS.  Paths below are relative to `app/`
of the repository.

    engine --> Redis key --> keyevent stream --> events process (x2)      EventsService
     ^                                             | KeyeventStream, EngineService
     | gRPC                                        v
     |                              tables engines and outbox
     |                                             |
     |                       outbox process (x2)   v                      Notifications
     |                         Fanout:   outbox record -> delivery tasks
     |                         Delivery: delivery task -> Telegram message
     |
    api process (x2), admin pages: restart an engine                      EngineRestart
      remove dead engines, subscriptions, reset or delete records         SubscriptionUpsert

    every access to PostgreSQL is a unit of work                          UnitOfWork
    the schema they all rely on                                           Migrations

## 1. The system

| Component | State it keeps | Operations | Talks to | What is hard |
|---|---|---|---|---|
| Engine aggregate (`domains/engine.py`, `domains/event.py`) | an Engine in memory: access key, status, version, recorded events | constructor, `update`, `mark_dead`, `restore` | called by the engine service | order of versions, events that must fit the change |
| Engine service (`services/engine.py`, `infra/database/repositories/engine.py`) | tables `engines`, `outbox` | `upsert`, `mark_dead`, `remove_dead_engines`, `restart` | transactions on PostgreSQL; gRPC for `restart` | concurrent, repeated and reordered entries for one row; a lock that does not exist where there is no row; an unanswered commit |
| Unit of work (`infra/database/uows/base.py`) | an open session and transaction | begin, commit, roll back, also when the task is cancelled | PostgreSQL | commit whose answer is lost, cancellation |
| Keyevent consumers (`controllers/events/engine.py`, `infra/redis/streams.py`, `infra/utils/retry.py`) | consumer group in Redis (pending list, delivery counts), cursor and batch of the reclaimer | read, handle, acknowledge; claim, count, retry, dead-letter | Redis, engine service | at-least-once delivery, two replicas with two tasks each, crashes, counts that are out of date |
| Outbox fan-out (`services/outbox.py`, `services/fanout.py`, `repositories/outbox.py`) | flags and attempts of outbox records, table `delivery_tasks` | claim a batch, plan, write tasks, mark | billing, in another session | subscriptions that change meanwhile, errors that abort the transaction |
| Delivery (`services/delivery.py`, `repositories/tasks.py`, `infra/aiogram/event.py`) | flags and attempts of tasks | claim a batch, look up, send, record | billing, Telegram | messages that are out before the commit |
| Relay (`controllers/outbox/relay.py`) | two loops per process | run the two services for ever | the two above | an exception ends a loop for good |
| Billing (`services/billing.py`, `repositories/subscription.py`) | table `engine_subscriptions` | look-ups, `upsert_subscriptions` | admin pages | requests for the same pair that overlap |
| Restart (`infra/grpc/engine.py`, `channel.py`, `controllers/admin/views.py`) | calls under way | `restart` with retries | an engine, by gRPC | a check that is out of date, calls that are repeated or late |
| Schema and migrations (`infra/database/models.py`, `migrations/`) | the schema and its revision | upgrade, downgrade | PostgreSQL | nine revisions up and down, over tables that hold rows |
| Admin pages (`controllers/admin`) | - | restart, removal of dead engines, subscriptions, edits by hand | all of the tables | edits the code did not count on |
| Rendering, configuration, logging, deployment | - | - | - | not modelled, see section 7 |

What makes the components correct:

- *Engine service*: no handling of an entry takes a row back; a row shows the
  entry its version names; every dead or running engine was announced; every
  record describes the change it was committed with; transactions do not wait
  for each other for ever.
- *Keyevent consumers*: no entry disappears without having been handled or
  kept in the dead-letter stream; none goes there too early; every entry is
  settled in the end.
- *Both together*: what is settled in Redis is committed in PostgreSQL,
  although no transaction spans the two.
- *Fan-out*: a record is worked on by one relay; it is marked when, and only
  when, its tasks are there.
- *Delivery*: what is marked published was sent, and is not sent again; a
  message is repeated only for a reason; no claimed task is passed over.
- *Both together*: messages go to people who are subscribed, and everybody who
  should be told is told in the end.
- *Subscriptions*: requests that do not overlap leave what was asked for;
  requests that overlap do not undo what they agree on.
- *Restart*: no engine is called that was not alive during the request, and
  none is called with a connection of the database held.
- *Unit of work*: all or nothing, no falsehood to the caller, and an end.
- *Migrations*: the head is what the models say, by whatever way it is reached;
  nothing stored is dropped; it is known what holds an upgrade up.

## 2. Modules

| Module | Models |
|---|---|
| `Versions` | `Version` and its two orders: `IsNewer` (Python) and `RowOlder` (SQL) |
| `EngineAggregate` | the methods of `Engine` and the events they record |
| `EngineTables` | entries, rows, records; what one entry does to one row (`Upserted`, `Yields`, `WithRecords`) |
| `EngineRegistry` | abstract specification: every entry is handled in one step |
| `EngineService` | the transactions of the engine service, statement by statement |
| `KeyeventStream` | the consumer group, the subscriber and the reclaimer of each replica |
| `EventsService` | the events process: composes `KeyeventStream` and `EngineService` |
| `Fanout` | the first loop of the outbox process |
| `Delivery` | the second loop |
| `Notifications` | the outbox process: composes `Fanout` and `Delivery` |
| `SubscriptionUpsert` | `upsert_subscriptions` for one user and engine |
| `Transaction` | abstract specification: what a unit of work promises |
| `UnitOfWork` | `begin`, the body and the shielded `_finish`, step by step |
| `EngineRestart` | restart over gRPC; composes `UnitOfWork` with the row, the calls and the network |
| `Migrations` | the revisions of the schema and the schema of the models |
| `MC_EngineService`, `MC_EventsService`, `MC_Fanout`, `MC_Notifications` | values of the constants for TLC |
| `EngineServiceProofs`, `KeyeventStreamProofs`, `EventsServiceProofs`, `FanoutProofs`, `DeliveryProofs`, `NotificationsProofs`, `EngineRestartProofs` (with `UnitOfWork`), `SubscriptionUpsertProofs` | theorems and proofs about the module of that name |

**EngineService.**  `tx[w]` is the transaction of worker `w`, a task that
handles an entry.  `FetchUpsert` and `FetchMarkDead` are `get_for_update` and
the decision taken on its result, `Save` is the upsert, `Commit` is
`outbox.store` and the commit, `Abort` is every way a transaction can fail.
Under READ COMMITTED a writer sees only committed rows, so writes reach
`engines` and `outbox` at the commit; row locks are the field `locked`.  A
SELECT FOR UPDATE that finds no row locks nothing; the upsert waits for the
holder of a row and for whoever is inserting it.  When the SELECT finds a row
that is locked the model lets it wait and read the row that was committed, as
PostgreSQL does.  `MarkDeadMissing` is `EngineNotExistError`, which
`handle_engine_dead` swallows; `Ignore` is a key event of another type, which is
logged and acknowledged.  `RemoveDead` deletes a nonempty set of dead
rows, because a DELETE misses rows that turn dead after its snapshot.  The
entries come from the constant `stream`; which of them is handled when, by
whom and how often is left open, which is what `KeyeventStream` shows of the
real delivery.  A commit that is durable but not answered is `Commit` followed
by another handling of the same entry.  `applied` and `dropped` are history
variables.

**EngineRegistry.**  What the code does to one row with one entry.  The docstring
of `upsert` promises an event for every engine that is inserted or updated
(`services/engine.py:71-72`), and three steps of the registry store none:
`Create`, because the constructor of the aggregate records no event (section 6);
`Overwrite`, when two tasks that both found no engine insert it and the
upsert of the second replaces the first row by a *new* engine (finding 1); and
`Change`, if neither access key nor status changes.  The refinement shows that
the transactions do no worse than that, not that the docstring holds.

**KeyeventStream.**  `owner`, `idle` and `deliveries` are the pending list of
the consumer group.  The subscriber reads, handles and acknowledges entry by
entry; a handler that failed calls `nack()`, which Redis never hears of.
`Claim`, `Count`, `DeadLetter`, `ReclaimerHandles`, `ReclaimerFails`,
`ReclaimerChokes` and `ReclaimerAcks` are the statements of `_loop`.  `Count`
follows XPENDING: it lists at most as many entries as the batch has, among all
those the consumer owns in the range, and an entry that is not listed counts
as delivered once.  Faults are a restart of the replica (under a new consumer
name), a lost reply, a failed acknowledgement, and a call that failed three
times, which ends the task.

**EventsService.**  Every step is a step of `KeyeventStream`, of
`EngineService`, or of both.  A worker is the subscriber or the reclaimer of a
replica; it begins a transaction for the entry that its task has come to
(`Begin`), and the way the transaction ends is the way the handler ends: a
commit lets the task acknowledge the entry (`Return`; `Ignore` for an entry of
another type), a failure or an unanswered commit makes it call `nack()` (`Fail`).  What `KeyeventStream`
leaves to chance, whether a handler succeeds, is here what the tables decide.
A process that ends with a transaction open is `Fail` followed by `Restart`.
`removed` is a history variable; an engine is `Quiet` when every entry about
it is off the list and in no task's hands.

**Fanout, Delivery.**  `relay[w]` is the loop of replica `w` with its open
transaction.  Rows that are claimed are locked (`SKIP LOCKED`).  Billing reads
in a session of its own, so `Plan` and `WriteTasks` (`Resolve` and the claim)
are separate steps between which subscriptions come and go.  A task needs its
subscription (foreign key): writing one for a subscription that is gone aborts
the transaction, in which the `except` branch of `process_outbox_batch` then
fails too (`WriteAborts`).  Telegram gets any part of a batch and answers any
part of what it got.

An admin may delete a record or clear its flag `fanned_out` (at most once per
record: `Reset` and the variable `edited`); fanning it out again then meets the
tasks that are there.  A record and a subscription are stored at most once.

**Notifications.**  One state of the tables for both loops of every replica.
The commit of a fan-out adds rows for the other loop to claim, the deletion of
subscriptions or of a record waits for both and takes the tasks along, a
restart begins both loops anew.  A dead engine that is removed takes all of its
subscriptions with it in one statement, so `Unsubscribe` deletes a set.

**SubscriptionUpsert.**  SELECT, DELETE, INSERT and commit are one step each.
The DELETE takes its rows in one step; PostgreSQL takes them one by one and
breaks a cycle of two such statements, or of one and the removal of the engine,
by failing one, which is `Fail`.  The history variable `met` holds which requests read while which others were open.

**UnitOfWork, Transaction.**  `task[u]` is the caller, `finisher[u]` the task
of `_finish`, which goes on when the caller is cancelled.  `server[u]` is what
PostgreSQL made of the transaction: the COMMIT and its answer are two steps, so
that an answer can be lost.  A connection may also break with the COMMIT under
way (`sent`); the server then decides without its client (`DecidesLate`), perhaps
after the unit has ended, and the rows stay locked until it does.  A statement without a transaction (the
AUTOCOMMIT engine) takes effect by itself.  `Cancel` is a cancelled task, at any
point of the body or of the wait for `_finish`; `Dies` is the end of the process
or of its loop.  `Transaction` has two variables, what became of the statements
and what the caller was told; `Atomic` maps the units to it.

**EngineRestart.**  Requests, handlers of key events and removals are units that
meet at the row of one engine.  A request reads it (`Read`), is let through or
not (`Checked`), leaves `async with`, and only then calls (`Call`); a call can
be lost, be late, or lose its answer, and is repeated (`NextAttempt`).  The
engine restarts when a request arrives, and somebody else may restart it too.
The model lets a removal wait for every handler that has a transaction open;
the DELETE of the code passes by a row that its snapshot shows alive, which it
leaves alone just as if it had run before that handler.

**Migrations.**  A schema is a set of objects with names, a revision two
sequences of operations.  `Legal` says when PostgreSQL refuses one: a name that
is taken or missing, a reference to a table that is not there, a table that
others refer to, a NOT NULL column added to rows, a column with NULL made NOT
NULL.  `Migrate` is a run of alembic in the transaction of `env.py`.  Of the
rows, a state knows which tables hold some and which columns hold NULL.

Operators called "Mutant of ..." are not part of any specification.  Each is a
definition with a plausible bug (a lost lock, a dropped limit, a swapped
comparison) under which TLC finds a property violated; PROJECT.json says which.

## 3. Runs

| Run | Bounds | Shows |
|---|---|---|
| `engine_service` | 1 engine, 3 workers, 3 entries, 2 payloads; 125 649 states | all safety properties of the service, its refinement of `EngineRegistry`, and that transactions end |
| `events_service` | 1 replica (2 tasks), 2 engines, 2 entries, `MAX_RETRY` 2, 1 fault; 105 503 states | what is settled is shown and announced; what is done with brings no removed engine back; every entry is settled |
| `keyevent_stream` | 2 replicas, 2 entries (one that cannot be parsed), batch 1, `MAX_RETRY` 2, 1 fault; 165 363 states | nothing is lost or dead-lettered early, every entry is settled |
| `notifications` | 2 relays, 1 record, 2 subscriptions, 2 attempts, 1 fault per loop; 269 958 states | fan-out and delivery are complete, exclusive and repeat nothing, to subscribers only, and everybody is told; the composition is allowed by both parts |
| `subscription_upsert` | 3 requests, 2 events; 1 481 425 states | what overlapping requests can and cannot do |
| `engine_restart` | 1 request, 1 handler, 1 removal, 2 attempts; 164 898 states | calls are justified, units of work are atomic and end |
| `migrations` | none: all nine revisions, every filling of the tables; 301 states | schema, upgrades, stored rows |
| `engine_service_change`, `engine_service_death`, `keyevent_stream_limit`, `fanout_attempts`, `subscription_upsert_twice` | smaller | the findings of section 6 |

*Why the bounds are enough.*  The entries `<<1,0>>`, `<<1,1>>`, `<<2,0>>` make
both halves of the version order matter.  Three entries allow create, death and
return of one engine, or two updates, in any order; three workers are the
smallest number with two waiters for one row; and the theorems of section 5
cover every number of workers, engines, entries, replicas, records and requests
as far as safety goes, so the bounds matter for liveness and for `migrations`,
which has none.  `events_service` has the
smallest case of each kind: an engine that appears and dies, two engines
whose entries share a millisecond, and an engine with an entry of another type; two tasks are enough for an entry to be
handled twice at once, and the fault can hit any step.  Two replicas is what
the production manifests ask for.  With `MAX_RETRY` 2, as in the code, an entry
can be retried and then dead-lettered.  No run that passes has entries with a
foreign key (the cases for them are in the module; with them the state space is
beyond the time of a run); the run of finding 3 has batches of two, the
smallest for which the count of XPENDING can be short.  In `notifications` one
subscription stays and one comes and goes; with one record both loops meet at
its tasks, and two attempts allow a failure after a failure.  One request
against one handler and one removal is the smallest case in which every unit of
`engine_restart` can wait for every other.

All states of the bounded models are reachable ones: nothing is excluded by a
constraint.  `CHECK_DEADLOCK FALSE` is set where the bounded system really
stops: when its entries, records, tasks or requests are used up.

## 4. Fairness

- *EngineService* (`TransactionsEnd`): WF of `Commit`; SF of `Save`, because
  PostgreSQL queues the waiters of a row and a worker is not overtaken for
  ever.  Nothing is assumed about the start of transactions, `Abort` or
  `RemoveDead`.
- *KeyeventStream* (`AllSettled`), *EventsService* (`EveryEntryShown`): WF of
  each task that runs, and of time passing for each pending entry.  Two
  conditions are in the properties because the code does not guarantee them:
  some reclaimer survives (none is ever restarted after an error), and from
  some time on reclaimers are in time, that is, they ask for the delivery
  counts within `IDLE_MS` (60 s) of the claim.  Without the second, two
  reclaimers can take an entry from each other for ever: neither finds it among
  its own, so each takes it for delivered once.
- *Notifications* (`EveryoneTold`): WF of each loop (it sleeps 200 ms and goes
  on) and of back-offs passing, under the condition that a loop of each kind
  survives, since nothing restarts a loop that an exception ended.
- *EngineRestart* (`EveryUnitEnds`): WF of a unit's statements and of its
  `_finish`, and of a request with its calls.  This includes the server's end of
  a transaction whose client is gone: PostgreSQL executes the COMMIT it gets and
  ends the transaction of a connection that is closed.  A call has no deadline
  (`infra/grpc/engine.py:73`), so that it ends relies on the engine or the
  transport.
- Faults, failures, cancellation and what admins do have no fairness.

## 5. Proofs

All theorems hold for every value of the constants: any number of workers,
replicas, engines, entries, records, subscriptions, requests, retries and
faults, any batch size and any `MAX_RETRY`.  What they assume:

- `EngineTables`, `EngineService`: stream ids are pairs of naturals
  (`StreamAssumption`), payloads are payloads (`PayloadAssumption`), the markers
  for "no row" and "no transaction" are neither (`NoRowAssumption`,
  `IdleAssumption`).
- `KeyeventStream`: the bounds are naturals, a batch is not empty, and the name
  of a replica that is gone is not used again (`ConstantsAssumption`).
- `EventsService`: what its parts assume (`PartsAssumption`), and that Redis
  hands out ids that grow along the stream (`IdAssumption`).
- `Fanout`, `Delivery`, `Notifications`: the bounds are naturals, `Wanted`,
  `SubscriptionOf` and `Early` speak of subscriptions, and the set of relays,
  whose elements a property counts, is finite (`LoopsAssumption` and what the
  parts assume themselves).
- `EngineRestart`: a request is not a handler is not a removal
  (`TasksAssumption`), and a call is attempted at least once.
- `SubscriptionUpsert`: the row that was there in the beginning was made by
  none of the requests (`SeedAssumption`).

The promises are hardly ever inductive.  What a commit or an acknowledgement
does was decided some steps earlier, by a task that went by what it had read,
and others moved since.  Each inductive invariant `IInv` adds what the local
variables of a task mean for the shared state until then.  All of them were
checked by TLC on the bounds of section 3 before they were proved.

- `EngineServiceProofs`.  `GuardsAgree`, the guard in Python and the WHERE in SQL
  are the same order, with their arguments turned round; `VersionOrder`, it is a
  strict total order.  `IInv` is `TypeOK`, `RowReflectsEntry`, `AppliedNotLost`
  and `TransactionsConsistent`: a transaction that has an event holds the row;
  the events describe the step from the *committed* row to its own; the answer
  of `save()` still holds; no two hold one row.  The steps that matter are
  another worker's `Commit` and `RemoveDead`, which the row lock keeps away from
  rows a decision was made on.  From `IInv` follow `NothingLost`,
  `RowsReflectEntries`, `ConstraintHolds` and the action
  properties `Advancing` and `EventsTruthful`.  `Refinement`: the transactions
  implement `EngineRegistry!Spec`; the mapping is the identity on `stream`,
  `engines` and `outbox`, all steps but `Commit` and `RemoveDead` stutter, and it
  needs `DecisionsCurrent`: the aggregate carried to the commit is what the
  operation would make of the committed row now, or a new engine.  `DecisionsHold`
  says so of the transactions together with `TransactionsConsistent`.
  `RecordsTell` and `NothingUnannounced`: a second handling runs into the record
  of the first, and only because records are true does that record announce the
  state.
- `KeyeventStreamProofs`.  `Justified` says why an entry may be acknowledged (it
  was handled, dead-lettered or foreign) and buried (it *was* delivered more
  than `MAX_RETRY` times; a delivery count never falls, which is why a stale one
  does no harm).  With it `EveryEntryAccounted` and `NoneBuriedEarly` are
  inductive.  `SettledForGood`: no late read, claim or restart puts an entry
  back on the list.  A slow task can still have in hand what another one settled;
  once none has, none gets it again (`DoneForGood`), because a read hands out
  what was never delivered and a claim what is on the list.  `ForeignSetAside`:
  an entry with a foreign key leaves the list by a subscriber's acknowledgement
  or for the dead-letter stream, never because a reclaimer handled it.
- `EventsServiceProofs`.  `BothPartsImplemented`: every step is a step of
  `KeyeventStream` and one of `EngineService`, or invisible to them, so their
  invariants hold of the whole.  `Joined` says what the one knows of the other:
  an open transaction is about the very entry its task has come to; what a
  handler returned from is committed, or its engine was removed, or there was
  nothing to mark dead, or it is of another type; every version in the tables is the id of an entry that
  was appended.  Then `SettledAreShown` combines `NothingLost` of the stream,
  `Joined` and `AppliedNotLost` of the tables.  `ExpiriesAnnounced` adds that the
  row of an engine whose last entry is settled is *at* that entry, so it is dead
  and announced, and that records with one version are one record.
  `NoneComesBack` needs `DoneForGood` and that who commits has its entry in hand.
  `RegistryImplemented` puts the refinements in a row: the whole process, with
  entries repeated, delayed and cut off anywhere, implements `EngineRegistry`.
- `FanoutProofs`, `DeliveryProofs`.  The loops on their own, among everything
  their specifications let others do.  `PlansJustified`: a plan covers everybody
  who was subscribed all along, although it was made in another session, and a
  plan that is written holds its subscriptions.  `ClaimsJustified`: tasks in
  hand exist, are not published, have attempts left and keep their chats.
- `NotificationsProofs`.  `BothLoopsImplemented` (the refinement
  `ImplementsLoops`) carries the theorems of the loops over to the process:
  `NobodyForgotten`, `NoTaskAstray`, `PublishedReachedTelegram`,
  `NothingSkipped`, `PublishedForGood`.  Two properties take both loops.
  `EveryMessageExplained` needs `NeverAgain`: for a task that was deleted after a
  message no new task can ever be made, else its count would start anew.
  `OnlySubscribersHear` needs the fan-out's `TasksOfFannedOut` in the delivery's
  step.
- `EngineRestartProofs`.  `UnitJustified` says what the caller's task, `_finish`
  and the server know of each other.  `EveryUnitAtomic`: each unit of work
  implements `Transaction` (`effect` and `answer` are the refinement mapping),
  whatever is cancelled, lost or killed; every step of a unit is `Truthful`, that
  is, decides its effect at most once and tells its caller no falsehood.
  `NoIdleCall`: a call, however late, belongs to a request whose check
  succeeded and whose session is closed for good.
- `SubscriptionUpsertProofs`.  `ActsOnWish`, `RejectsSeed` and `BringsUnanimous`
  say what is left of a request's reading in the table as the others have made
  it; as long as a request is alone (`Alone`), its reading is the table
  (`ReadIsCurrent`); and a row it will insert beside one of the same event was
  made by somebody it overlapped with (`AddsToOverlapped`).  From them
  `AgreedIsKept`, `RejectedNeverBack`, `LastWishGranted` and `TwinsComeFromRaces`.

The proofs changed the models in four places.  The mapping of `effect` in
`UnitOfWork` was a CASE with overlapping guards, which TLC takes in their order
but TLA+ does not; it is an IF now.  `EventTrue` did not say that a record of a
death carries no access key, without which records with one key need not be
equal.  `EngineRestart` never said that tasks of different kinds are different
(`TasksAssumption`).  `SubscriptionUpsert` remembered only whether any two
requests had ever overlapped, so `WishGranted` promised nothing after the first
race; with `met` in its place it speaks of every request that was alone.

Model-checked only:

- all liveness properties (`TransactionsEnd`, `AllSettled`, `EveryEntryShown`,
  `EveryoneTold`, `EveryUnitEnds`): liveness under fairness is out of the
  prover's reach;
- `Migrations`: the module has no constants, so TLC visits every state there
  is and a proof would show nothing more;
- the findings of section 6, which are counterexamples.

## 6. Findings

1. `engine_service_change` (`services/engine.py:79`): two tasks that create the
   same engine at once lose the event of the second change
   (`services/engine.py:72` promises it).
2. `engine_service_death` (`controllers/events/engine.py:138`): an expiry that
   overtakes the engine's first hset is dropped, and the engine is created
   alive (`services/engine.py:42`, "guaranteeing proper ordering").
3. `keyevent_stream_limit` (`controllers/events/engine.py:213`): the delivery
   counts are cut off at the size of the batch, and an entry beyond that is
   taken for delivered once and retried past `MAX_RETRY`.
4. `fanout_attempts` (`services/outbox.py:60`): a foreign key error aborts the
   transaction, so the attempt is not counted (`models.py:86`) and the loop
   ends.
5. `subscription_upsert_twice` (`services/billing.py:41`): overlapping requests
   insert a subscription twice.  Only requests that overlapped do
   (`TwinsOverlapped`); a later one that wants the event leaves both rows.

One more disagreement with a docstring needs no run, because every creation of
an engine shows it.  `services/engine.py:71` says that a new engine is inserted
and an event stored; the constructor at line 83 records none, so the insertion
of an engine is announced to nobody, and the engine is `ready` whatever the
entry says: one that is running when it first appears stays `ready`, and
unannounced, until its next hset.  The specification follows the code: `Create`
in `EngineRegistry` stores no record, its header names it as a departure from
the docstring, and `StateAnnounced` speaks of dead and active rows only.

More is visible in the models without a run of its own, because no document of
the repository says otherwise:

- `remove_dead` forgets the version of an engine with its row, so an entry
  older than the death that is delivered again creates the engine once more;
  `AppliedNotLost` is stated up to the removal.  It can happen only while such
  an entry is listed or in some task's hands (`NoComeback`).
- Removing a dead engine deletes its subscriptions and with them the news of
  its death that were not sent yet; `EveryoneTold` has to except deletions.
- A user with subscriptions cannot be deleted on the admin pages: the ORM sets
  `user_id` to NULL, which the table refuses (`models.py:152-154`, without
  `passive_deletes`), so ON DELETE CASCADE of the users is not reached.
- `alembic downgrade` to nothing leaves the type `enginestatus` behind, and the
  next upgrade fails on it; three revisions fail on tables that hold rows
  (`HeldUp` in `Migrations`).  They fail as a whole, and only that keeps
  `3ee8129175d8` from dropping notifications nobody has sent.
- A restarted engine that answers with another uuid is an error for the admin
  although the engine was restarted, and a request that was given up may still
  restart the engine later.

## 7. What is not modelled

- Edits by hand in the admin pages of anything but the flag of a record:
  bodies, counters, single tasks, users.  They can break every promise.
- Deletion of a user, who can have no subscription then (see above).  The steps
  that delete subscriptions, `RemoveOwner` in `SubscriptionUpsert` and
  `Unsubscribe` in `Notifications`, are the removal of their engine and the
  admin's form.
- The positions of tasks and results in a delivered batch: they are sets.
- The cache of gRPC channels: creating one awaits nothing, so no two tasks meet
  there.  Another engine at the address of a dead one.
- Cancellation of a request: no part of the api process cancels one; the other
  units of work are cancelled.
- Serialisation of events (`to_dict`, `from_dict`), the text of messages,
  logging, tracing, configuration, wiring, forms and login: no state the
  properties are about.
- An event type other than the three (`NotImplementedError` in
  `process_outbox_batch`): nothing in the code produces one.
- Types of columns, and the offline mode of alembic, which only prints SQL.
- uuid5 is taken to be free of collisions; times are reduced to "due or not"
  and "idle or not".

## 8. Plan

Done: every part of the program that keeps state, alone and composed
(`EventsService`, `Notifications`, `EngineRestart`), with the abstract
specifications `EngineRegistry` and `Transaction`; and proofs of every safety
property and every refinement the runs check, but for `Migrations`.

The theorems that were left to say more than the runs do are proved, too:
`ForeignSetAside`, `DoneForGood`, `NoneComesBack`, `RegistryImplemented` and
`TwinsComeFromRaces`.  What could follow is outside of the code as it is: a run
of `SubscriptionUpsert` with a unique constraint and ON CONFLICT, and one of
`Fanout` with a savepoint per task, to check repairs of findings 5 and 4.
