------------------------------- MODULE Fanout -------------------------------
(***************************************************************************)
(* The first loop of the outbox process (process_outbox_batch, repeated by *)
(* the relay in controllers/outbox/relay.py): it claims outbox records,    *)
(* asks billing which subscriptions want them, writes one delivery task    *)
(* per subscription and marks the records fanned out, in one transaction.  *)
(*                                                                         *)
(* Billing reads in a session of its own, so what it reads may be out of   *)
(* date when the tasks are written.  A task refers to its subscription by  *)
(* a foreign key: writing it waits for and fails after a deletion of the   *)
(* subscription, and from then on holds the subscription to the commit.    *)
(* An exception that leaves process_outbox_batch ends the relay's loop.    *)
(* Notifications composes this loop with Delivery, the second one.         *)
(***************************************************************************)
EXTENDS Integers, FiniteSets

CONSTANTS
    Relays,         \* replicas of the outbox process
    Records,        \* outbox records
    Subscriptions,  \* rows of engine_subscriptions, each created at most once
    Early,          \* the subscriptions that exist from the beginning
    Wanted,         \* [Records -> subscriptions to its event and engine]
    Batch,          \* the LIMIT of claim_batch
    MaxAttempts,    \* max_publish_attempts
    MaxFaults       \* bound: crashes and database errors

\* What is assumed of the constants by whoever instantiates this module.
ConstantsAssumption ==
    /\ Early \subseteq Subscriptions
    /\ Wanted \in [Records -> SUBSET Subscriptions]
    /\ Batch \in Nat /\ MaxAttempts \in Nat /\ MaxFaults \in Nat

VARIABLES
    outbox,         \* [stored records -> OutboxRow]
    edited,         \* history: records the admin has reset or deleted
    subscriptions,  \* the subscriptions that exist
    ended,          \* history: the subscriptions that were deleted
    tasks,          \* table delivery_tasks: <<record, subscription>>
    relay,          \* [Relays -> state of the loop and its transaction]
    faults

vars == <<outbox, edited, subscriptions, ended, tasks, relay, faults>>

OutboxRow == [fanned_out : BOOLEAN, attempts : 0 .. MaxAttempts, due : BOOLEAN]

Stored == DOMAIN outbox

Task == Records \X Subscriptions

\* "dead": the loop has ended and its process goes on without it.
Relay == [stage : {"idle", "claimed", "planned", "written", "failed", "dead"},
          records : SUBSET Records, plan : SUBSET Task]

NoTx(stage) == [stage |-> stage, records |-> {}, plan |-> {}]

-----------------------------------------------------------------------------
Init ==
    /\ outbox = [r \in {} |-> NoTx("idle")]
    /\ edited = {}
    /\ subscriptions = Early
    /\ ended = {}
    /\ tasks = {}
    /\ relay = [w \in Relays |-> NoTx("idle")]
    /\ faults = 0

Fault == faults < MaxFaults /\ faults' = faults + 1

\* EngineService commits a record (due at once); it stores one only once.
StoreRecord(r) ==
    /\ r \notin Stored \cup edited
    /\ outbox' = [x \in Stored \cup {r} |->
          IF x = r THEN [fanned_out |-> FALSE, attempts |-> 0, due |-> TRUE]
                   ELSE outbox[x]]
    /\ UNCHANGED <<edited, subscriptions, ended, tasks, relay, faults>>

\* next_attempt_at has passed.
FallDue(r) ==
    /\ r \in Stored
    /\ ~outbox[r].due
    /\ outbox' = [outbox EXCEPT ![r].due = TRUE]
    /\ UNCHANGED <<edited, subscriptions, ended, tasks, relay, faults>>

Held(r) == \E w \in Relays : r \in relay[w].records

\* Outbox page: the admin clears fanned_out (at most once per record), and the
\* record is fanned out anew.
Reset(r) ==
    /\ r \in Stored \ edited
    /\ outbox[r].fanned_out
    /\ ~Held(r)
    /\ outbox' = [outbox EXCEPT ![r].fanned_out = FALSE]
    /\ edited' = edited \cup {r}
    /\ UNCHANGED <<subscriptions, ended, tasks, relay, faults>>

\* Outbox page: the admin deletes a record, and its tasks go with it.
DeleteRecord(r) ==
    /\ r \in Stored
    /\ ~Held(r)
    /\ outbox' = [x \in Stored \ {r} |-> outbox[x]]
    /\ edited' = edited \cup {r}
    /\ tasks' = {t \in tasks : t[1] # r}
    /\ UNCHANGED <<subscriptions, ended, relay, faults>>

\* The admin adds a subscription.
Subscribe(s) ==
    /\ s \notin subscriptions \cup ended
    /\ subscriptions' = subscriptions \cup {s}
    /\ UNCHANGED <<outbox, edited, ended, tasks, relay, faults>>

\* Mutant of Referred: a task that is written does not hold its subscription.
ReferredNever(s) == s \notin Subscriptions

Referred(s) ==
    \E w \in Relays : relay[w].stage = "written" /\ \E t \in relay[w].plan : t[2] = s

\* One statement deletes subscriptions: the admin's form, or the removal of a
\* dead engine, which takes all of its subscriptions along.  It waits for the
\* transactions that refer to them and deletes their tasks with them.
Unsubscribe(S) ==
    /\ S # {} /\ S \subseteq subscriptions
    /\ \A s \in S : ~Referred(s)
    /\ subscriptions' = subscriptions \ S
    /\ ended' = ended \cup S
    /\ tasks' = {t \in tasks : t[2] \notin S}
    /\ UNCHANGED <<outbox, edited, relay, faults>>

-----------------------------------------------------------------------------
\* Mutant of Claimable: no row locks.
ClaimableThoughLocked(r) ==
    /\ r \in Stored
    /\ ~outbox[r].fanned_out
    /\ outbox[r].attempts < MaxAttempts
    /\ outbox[r].due

\* FOR UPDATE SKIP LOCKED, in no order.
Claimable(r) ==
    /\ r \in Stored
    /\ ~outbox[r].fanned_out
    /\ outbox[r].attempts < MaxAttempts
    /\ outbox[r].due
    /\ ~Held(r)

Claim(w) ==
    /\ relay[w].stage = "idle"
    /\ \E S \in SUBSET {r \in Records : Claimable(r)} :
          /\ S # {} /\ Cardinality(S) <= Batch
          /\ relay' = [relay EXCEPT ![w] =
                [stage |-> "claimed", records |-> S, plan |-> {}]]
    /\ UNCHANGED <<outbox, edited, subscriptions, ended, tasks, faults>>

\* get_subscriptions_for_events sees the committed subscriptions.
Planned(S) == {t \in S \X subscriptions : t[2] \in Wanted[t[1]]}

Plan(w) ==
    /\ relay[w].stage = "claimed"
    /\ relay' = [relay EXCEPT ![w].stage = "planned",
                              ![w].plan = Planned(relay[w].records)]
    /\ UNCHANGED <<outbox, edited, subscriptions, ended, tasks, faults>>

\* Billing raises; the transaction is intact and _mark_failed works.
PlanFails(w) ==
    /\ relay[w].stage = "claimed"
    /\ relay' = [relay EXCEPT ![w].stage = "failed"]
    /\ UNCHANGED <<outbox, edited, subscriptions, ended, tasks, faults>>

Broken(w) == \E t \in relay[w].plan : t[2] \notin subscriptions

\* Mutant of WriteTasks: a task that is already there is overwritten.
WriteTasksAnew(w) ==
    /\ relay[w].stage = "planned"
    /\ ~Broken(w)
    /\ relay' = [relay EXCEPT ![w].stage = "written"]
    /\ UNCHANGED <<outbox, edited, subscriptions, ended, tasks, faults>>

\* tasks.store, which leaves tasks alone that are already there (ON CONFLICT
\* DO NOTHING), and mark_fanned_out.
WriteTasks(w) ==
    /\ relay[w].stage = "planned"
    /\ ~Broken(w)
    /\ relay' = [relay EXCEPT ![w].stage = "written", ![w].plan = @ \ tasks]
    /\ UNCHANGED <<outbox, edited, subscriptions, ended, tasks, faults>>

\* Mutant of WriteAborts: the error is swallowed (say, behind a savepoint) and
\* the records are marked fanned out.
WriteAbortsSwallowed(w) ==
    /\ relay[w].stage = "planned"
    /\ Broken(w)
    /\ relay' = [relay EXCEPT ![w].stage = "written", ![w].plan = {}]
    /\ UNCHANGED <<outbox, edited, subscriptions, ended, tasks, faults>>

\* A subscription of the plan is gone: the foreign key aborts the transaction,
\* so _mark_failed raises too, everything is rolled back and the loop ends.
WriteAborts(w) ==
    /\ relay[w].stage = "planned"
    /\ Broken(w)
    /\ relay' = [relay EXCEPT ![w] = NoTx("dead")]
    /\ UNCHANGED <<outbox, edited, subscriptions, ended, tasks, faults>>

\* What the commit makes of the claimed rows and of the tasks; `unanswered':
\* it is durable but the relay gets an error, which ends the loop.
After(w, next, rows) ==
    /\ outbox' = [r \in Stored |->
          IF r \in relay[w].records THEN rows[r] ELSE outbox[r]]
    /\ \/ relay' = [relay EXCEPT ![w] = NoTx("idle")] /\ UNCHANGED faults
       \/ relay' = [relay EXCEPT ![w] = NoTx("dead")] /\ Fault
    /\ tasks' = next
    /\ UNCHANGED <<edited, subscriptions, ended>>

FannedOut(row) == [row EXCEPT !.fanned_out = TRUE, !.attempts = @ + 1]

\* Mutant of Failed: the attempt is not counted.
FailedUncounted(row) == [row EXCEPT !.due = FALSE]

Failed(row) == [row EXCEPT !.attempts = @ + 1, !.due = FALSE]

CommitFannedOut(w) ==
    /\ relay[w].stage = "written"
    /\ After(w, tasks \cup relay[w].plan, [r \in relay[w].records |-> FannedOut(outbox[r])])

CommitFailed(w) ==
    /\ relay[w].stage = "failed"
    /\ After(w, tasks, [r \in relay[w].records |-> Failed(outbox[r])])

\* Any other database error ends the loop; a restart of the process begins a
\* new one.  Either way an open transaction is rolled back.
Die(w) ==
    /\ Fault
    /\ relay[w].stage # "dead"
    /\ relay' = [relay EXCEPT ![w] = NoTx("dead")]
    /\ UNCHANGED <<outbox, edited, subscriptions, ended, tasks>>

Restart(w) ==
    /\ Fault
    /\ relay' = [relay EXCEPT ![w] = NoTx("idle")]
    /\ UNCHANGED <<outbox, edited, subscriptions, ended, tasks>>

-----------------------------------------------------------------------------
\* The steps that leave the tasks alone, and all steps of the loop.
Preparing(w) ==
    \/ Claim(w) \/ Plan(w) \/ PlanFails(w) \/ WriteTasks(w) \/ WriteAborts(w)
    \/ CommitFailed(w)

Loop(w) == Preparing(w) \/ CommitFannedOut(w)

Next ==
    \/ \E r \in Records : StoreRecord(r) \/ FallDue(r) \/ Reset(r) \/ DeleteRecord(r)
    \/ \E s \in Subscriptions : Subscribe(s)
    \/ \E S \in SUBSET Subscriptions : Unsubscribe(S)
    \/ \E w \in Relays : Loop(w) \/ Die(w) \/ Restart(w)

Spec == Init /\ [][Next]_vars

-----------------------------------------------------------------------------
TypeOK ==
    /\ Stored \subseteq Records
    /\ \A r \in Stored : outbox[r] \in OutboxRow
    /\ edited \subseteq Records
    /\ subscriptions \subseteq Subscriptions
    /\ ended \subseteq Subscriptions \ subscriptions
    /\ tasks \subseteq Task
    /\ relay \in [Relays -> Relay]
    /\ faults \in 0 .. MaxFaults

\* No record is worked on by two relays at once, and none that is fanned out.
ClaimsExclusive ==
    \A v, w \in Relays :
        /\ v # w => relay[v].records \cap relay[w].records = {}
        /\ \A r \in relay[w].records : r \in Stored /\ ~outbox[r].fanned_out

\* A record is only marked fanned out when everybody who was subscribed all
\* along has a task for it, whatever fails and whoever unsubscribes meanwhile.
FannedOutComplete ==
    \A r \in Stored : outbox[r].fanned_out =>
        \A s \in Wanted[r] \cap Early \cap subscriptions : <<r, s>> \in tasks

\* Tasks appear together with the flag of their record (which only the admin
\* takes back), and only for subscriptions that exist and want it: no
\* transaction that fails leaves any behind, no deletion forgets any.
TasksOfFannedOut ==
    \A t \in tasks : /\ t[1] \in Stored
                     /\ outbox[t[1]].fanned_out \/ t[1] \in edited
                     /\ t[2] \in subscriptions \cap Wanted[t[1]]

\* infra/database/models.py:86: attempts is the "number of fan-out attempts
\* performed so far", so a fan-out that ends with an error other than a crash
\* of the database or the process is counted.
AttemptsCounted ==
    [][\A w \in Relays :
          relay[w].stage = "planned" /\ faults' = faults =>
              \/ relay'[w].stage # "dead"
              \/ \A r \in relay[w].records :
                    outbox'[r].attempts = outbox[r].attempts + 1]_vars
=============================================================================
