------------------------------ MODULE Delivery ------------------------------
(***************************************************************************)
(* The second loop of the outbox process (process_engine_delivery_tasks):  *)
(* it claims delivery tasks, looks up the event and the chat of each,      *)
(* sends all messages to Telegram at once, and records the results, all in *)
(* one transaction.  The messages are out before the commit.               *)
(*                                                                         *)
(* Chats are looked up in a session of its own, after the tasks are        *)
(* locked.  Deleting a subscription deletes its tasks (ON DELETE CASCADE), *)
(* so it waits for the transactions that have claimed them.                *)
(* Notifications composes this loop with Fanout, which writes the tasks.   *)
(***************************************************************************)
EXTENDS Integers, FiniteSets

CONSTANTS
    Relays,        \* replicas of the outbox process
    Tasks,         \* rows of delivery_tasks, each created at most once
    Subscriptions, \* rows of engine_subscriptions
    Early,         \* the subscriptions that exist from the beginning
    SubscriptionOf,\* [Tasks -> Subscriptions]
    Batch,         \* the LIMIT of claim_batch
    MaxAttempts,   \* max_publish_attempts
    MaxFaults      \* bound: crashes and database errors

\* What is assumed of the constants by whoever instantiates this module.
ConstantsAssumption ==
    /\ IsFiniteSet(Relays)
    /\ SubscriptionOf \in [Tasks -> Subscriptions]
    /\ Early \subseteq Subscriptions
    /\ Batch \in Nat /\ MaxAttempts \in Nat /\ MaxFaults \in Nat

VARIABLES
    tasks,          \* [existing tasks -> TaskRow]
    subscriptions,  \* the subscriptions that exist
    relay,          \* [Relays -> state of the loop and its transaction]
    sent,           \* history: [Tasks -> messages Telegram delivered for it]
    faults

vars == <<tasks, subscriptions, relay, sent, faults>>

TaskRow == [published : BOOLEAN, attempts : 0 .. MaxAttempts, due : BOOLEAN]

Existing == DOMAIN tasks

\* `sendable': the claimed tasks that are not skipped; `confirmed': those for
\* which send_message returned.
Relay == [stage : {"idle", "claimed", "resolved", "sent", "dead"},
          tasks : SUBSET Tasks, sendable : SUBSET Tasks, confirmed : SUBSET Tasks]

NoTx(stage) == [stage |-> stage, tasks |-> {}, sendable |-> {}, confirmed |-> {}]

-----------------------------------------------------------------------------
Init ==
    /\ tasks = [t \in {} |-> 0]
    /\ subscriptions = Early
    /\ relay = [w \in Relays |-> NoTx("idle")]
    /\ sent = [t \in Tasks |-> 0]
    /\ faults = 0

Fault == faults < MaxFaults /\ faults' = faults + 1

\* The fan-out commits the tasks S and leaves those alone that are there.
AddTasks(S) ==
    /\ S # {} /\ S \cap Existing = {}
    /\ \A t \in S : SubscriptionOf[t] \in subscriptions
    /\ tasks' = [t \in Existing \cup S |->
          IF t \in S THEN [published |-> FALSE, attempts |-> 0, due |-> TRUE]
                     ELSE tasks[t]]
    /\ UNCHANGED <<subscriptions, relay, sent, faults>>

Subscribe(s) ==
    /\ s \notin subscriptions
    /\ subscriptions' = subscriptions \cup {s}
    /\ UNCHANGED <<tasks, relay, sent, faults>>

FallDue(t) ==
    /\ t \in Existing
    /\ ~tasks[t].due
    /\ tasks' = [tasks EXCEPT ![t].due = TRUE]
    /\ UNCHANGED <<subscriptions, relay, sent, faults>>

Locked(t) == \E w \in Relays : t \in relay[w].tasks

Without(T) == [t \in Existing \ T |-> tasks[t]]

\* The admin deletes an outbox record with its tasks T.
Discard(T) ==
    /\ T \subseteq Existing
    /\ \A t \in T : ~Locked(t)
    /\ tasks' = Without(T)
    /\ UNCHANGED <<subscriptions, relay, sent, faults>>

TasksOf(S) == {t \in Existing : SubscriptionOf[t] \in S}

\* Mutant of Unsubscribe: the deletion does not wait for claimed tasks.
UnsubscribeUnlocked(S) ==
    /\ S # {} /\ S \subseteq subscriptions
    /\ subscriptions' = subscriptions \ S
    /\ tasks' = Without(TasksOf(S))
    /\ UNCHANGED <<relay, sent, faults>>

Unsubscribe(S) ==
    /\ S # {} /\ S \subseteq subscriptions
    /\ \A t \in TasksOf(S) : ~Locked(t)
    /\ subscriptions' = subscriptions \ S
    /\ tasks' = Without(TasksOf(S))
    /\ UNCHANGED <<relay, sent, faults>>

-----------------------------------------------------------------------------
\* Mutant of Claimable: no row locks.
ClaimableThoughLocked(t) ==
    /\ t \in Existing
    /\ ~tasks[t].published
    /\ tasks[t].attempts < MaxAttempts
    /\ tasks[t].due

\* FOR UPDATE SKIP LOCKED, in no order.
Claimable(t) ==
    /\ t \in Existing
    /\ ~tasks[t].published
    /\ tasks[t].attempts < MaxAttempts
    /\ tasks[t].due
    /\ ~Locked(t)

Claim(w) ==
    /\ relay[w].stage = "idle"
    /\ \E S \in SUBSET {t \in Tasks : Claimable(t)} :
          /\ S # {} /\ Cardinality(S) <= Batch
          /\ relay' = [relay EXCEPT ![w].stage = "claimed", ![w].tasks = S]
    /\ UNCHANGED <<tasks, subscriptions, sent, faults>>

\* get_telegram_ids_for_subscriptions joins the subscription and its user.
HasChat(t) == SubscriptionOf[t] \in subscriptions

\* A task without its event or its chat is skipped: it is neither sent nor
\* updated.
Resolve(w) ==
    /\ relay[w].stage = "claimed"
    /\ relay' = [relay EXCEPT
          ![w].stage = "resolved",
          ![w].sendable = {t \in relay[w].tasks : HasChat(t)}]
    /\ UNCHANGED <<tasks, subscriptions, sent, faults>>

\* publish_batch: Telegram gets some of the messages, and answers some of
\* those it got; any other outcome of send_message is an exception.
Publish(w) ==
    /\ relay[w].stage = "resolved"
    /\ \E arrived \in SUBSET relay[w].sendable :
          /\ sent' = [t \in Tasks |-> IF t \in arrived THEN sent[t] + 1 ELSE sent[t]]
          /\ \E confirmed \in SUBSET arrived :
                relay' = [relay EXCEPT ![w].stage = "sent", ![w].confirmed = confirmed]
    /\ UNCHANGED <<tasks, subscriptions, faults>>

\* Mutants of Recorded: every task of the batch counts as a success; a failed
\* attempt is not counted.
RecordedAsPublished(w, t) ==
    [tasks[t] EXCEPT !.published = TRUE, !.attempts = @ + 1]

RecordedUncounted(w, t) ==
    IF t \in relay[w].confirmed
    THEN [tasks[t] EXCEPT !.published = TRUE, !.attempts = @ + 1]
    ELSE [tasks[t] EXCEPT !.due = FALSE]

\* mark_published, or mark_failed with a back-off of attempts^2 seconds: none
\* after the first attempt.
Recorded(w, t) ==
    LET row == tasks[t]
    IN  IF t \in relay[w].confirmed
        THEN [row EXCEPT !.published = TRUE, !.attempts = @ + 1]
        ELSE [row EXCEPT !.attempts = @ + 1, !.due = (row.attempts = 0)]

\* The results and the commit; if the relay gets no answer its loop ends.
Commit(w) ==
    /\ relay[w].stage = "sent"
    /\ tasks' = [t \in Existing |->
          IF t \in relay[w].sendable THEN Recorded(w, t) ELSE tasks[t]]
    /\ \/ relay' = [relay EXCEPT ![w] = NoTx("idle")] /\ UNCHANGED faults
       \/ relay' = [relay EXCEPT ![w] = NoTx("dead")] /\ Fault
    /\ UNCHANGED <<subscriptions, sent>>

\* A database error ends the loop, a restart of the process begins a new one;
\* either way the transaction is rolled back, and messages that are out are out.
Die(w) ==
    /\ Fault
    /\ relay[w].stage # "dead"
    /\ relay' = [relay EXCEPT ![w] = NoTx("dead")]
    /\ UNCHANGED <<tasks, subscriptions, sent>>

Restart(w) ==
    /\ Fault
    /\ relay' = [relay EXCEPT ![w] = NoTx("idle")]
    /\ UNCHANGED <<tasks, subscriptions, sent>>

-----------------------------------------------------------------------------
Loop(w) == Claim(w) \/ Resolve(w) \/ Publish(w) \/ Commit(w)

Next ==
    \/ \E S \in SUBSET Tasks : AddTasks(S) \/ Discard(S)
    \/ \E t \in Tasks : FallDue(t)
    \/ \E s \in Subscriptions : Subscribe(s)
    \/ \E S \in SUBSET Subscriptions : Unsubscribe(S)
    \/ \E w \in Relays : Loop(w) \/ Die(w) \/ Restart(w)

Spec == Init /\ [][Next]_vars

-----------------------------------------------------------------------------
TypeOK ==
    /\ Existing \subseteq Tasks
    /\ \A t \in Existing : tasks[t] \in TaskRow
    /\ subscriptions \subseteq Subscriptions
    /\ relay \in [Relays -> Relay]
    /\ sent \in [Tasks -> Nat]
    /\ faults \in 0 .. MaxFaults

\* A task is marked published only if its message reached Telegram.
PublishedWasSent == \A t \in Existing : tasks[t].published => sent[t] > 0

\* Once a task is marked published, that mark stays and its message is never
\* sent again, by any relay, from any claim that was already open.
NotSentAgain ==
    [][\A t \in Existing : tasks[t].published =>
          /\ sent'[t] = sent[t]
          /\ t \in Existing' => tasks'[t].published]_vars

\* A message is repeated only after an attempt that was recorded as failed or
\* lost to a fault: there are never more messages than attempts and faults.
RepeatsExplained ==
    \A t \in Existing :
        sent[t] <= tasks[t].attempts + faults
                     + Cardinality({w \in Relays : relay[w].stage = "sent"
                                                   /\ t \in relay[w].sendable})

\* The branch for tasks with missing data never runs: a claimed task keeps its
\* subscription until the transaction ends, and is sent.
NoTaskSkipped ==
    \A w \in Relays :
        /\ relay[w].tasks \subseteq Existing
        /\ relay[w].stage \in {"resolved", "sent"} => relay[w].sendable = relay[w].tasks
=============================================================================
