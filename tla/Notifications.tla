---------------------------- MODULE Notifications ----------------------------
(***************************************************************************)
(* The outbox process as a whole: the loops of Fanout and Delivery, one of *)
(* each in every replica, over the same tables.  Every step is a step of   *)
(* one of them, and of both where they share a table or the process:       *)
(*                                                                         *)
(*   - the commit of a fan-out adds rows for the other loop to claim;      *)
(*   - a deletion of subscriptions (by hand, or with a dead engine) waits  *)
(*     for transactions of both loops and takes the tasks along;           *)
(*   - so does the deletion of an outbox record in the admin's pages;      *)
(*   - an error ends one loop, a restart of the process begins both anew.  *)
(***************************************************************************)
EXTENDS Integers, FiniteSets

CONSTANTS Relays, Records, Subscriptions, Early, Wanted, Batch, MaxAttempts, MaxFaults

VARIABLES
    outbox, edited, subscriptions, ended,   \* as in Fanout
    tasks,      \* table delivery_tasks: [<<record, subscription>> -> row]
    planner,    \* [Relays -> the fan-out loop]
    sender,     \* [Relays -> the delivery loop]
    sent,       \* history: messages delivered, as in Delivery
    plannerFaults, senderFaults   \* faults that hit either loop

fanoutOnly   == <<outbox, edited, ended, planner, plannerFaults>>
deliveryOnly == <<sender, sent, senderFaults>>
vars         == <<subscriptions, tasks, fanoutOnly, deliveryOnly>>

Tasks == Records \X Subscriptions

\* Delivery reads a task's subscription from its row.
SubscriptionOf == [t \in Tasks |-> t[2]]

F == INSTANCE Fanout
         WITH tasks <- DOMAIN tasks, relay <- planner, faults <- plannerFaults

D == INSTANCE Delivery WITH relay <- sender, faults <- senderFaults

ASSUME LoopsAssumption == F!ConstantsAssumption /\ D!ConstantsAssumption

-----------------------------------------------------------------------------
Init ==
    /\ tasks = [t \in {} |-> 0]
    /\ F!Init
    /\ D!Init

Subscribe(s) == D!Subscribe(s) /\ F!Subscribe(s)

Unsubscribe(S) == D!Unsubscribe(S) /\ F!Unsubscribe(S)

DeleteRecord(r) ==
    /\ D!Discard({t \in DOMAIN tasks : t[1] = r})
    /\ F!DeleteRecord(r)

\* The rows of the tasks a fan-out wrote become visible with its commit.
CommitFannedOut(w) ==
    /\ tasks' = [t \in DOMAIN tasks \cup planner[w].plan |->
          IF t \in planner[w].plan THEN [published |-> FALSE, attempts |-> 0, due |-> TRUE]
                                   ELSE tasks[t]]
    /\ F!CommitFannedOut(w)
    /\ UNCHANGED deliveryOnly

Restart(w) == D!Restart(w) /\ F!Restart(w)

FanoutLoop(w) ==
    \/ UNCHANGED <<tasks, deliveryOnly>> /\ F!Preparing(w)
    \/ CommitFannedOut(w)

DeliveryLoop(w) == UNCHANGED fanoutOnly /\ D!Loop(w)

Wait(t, r) ==
    \/ UNCHANGED fanoutOnly /\ D!FallDue(t)
    \/ UNCHANGED <<tasks, deliveryOnly>> /\ F!FallDue(r)

Next ==
    \/ \E r \in Records : /\ UNCHANGED <<tasks, deliveryOnly>>
                          /\ (F!StoreRecord(r) \/ F!Reset(r))
    \/ \E r \in Records : DeleteRecord(r)
    \/ \E s \in Subscriptions : Subscribe(s)
    \/ \E S \in SUBSET Subscriptions : Unsubscribe(S)
    \/ \E r \in Records, t \in Tasks : Wait(t, r)
    \/ \E w \in Relays :
          \/ FanoutLoop(w)
          \/ DeliveryLoop(w)
          \/ UNCHANGED <<tasks, deliveryOnly>> /\ F!Die(w)
          \/ UNCHANGED fanoutOnly /\ D!Die(w)
          \/ Restart(w)

Spec == Init /\ [][Next]_vars

\* A loop that lives sleeps 200 ms and goes on; back-offs end.
Fairness ==
    /\ \A r \in Records, t \in Tasks : WF_vars(Wait(t, r))
    /\ \A w \in Relays : WF_vars(FanoutLoop(w)) /\ WF_vars(DeliveryLoop(w))

FairSpec == Spec /\ Fairness

-----------------------------------------------------------------------------
\* Beside the types: no record is worked on by two relays at once, and none that
\* is fanned out (see Fanout).
TypeOK == F!TypeOK /\ D!TypeOK /\ F!ClaimsExclusive

(***************************************************************************)
(* What the loops promise holds when they work together.                   *)
(***************************************************************************)

\* Who was subscribed all along has a task for every record that is marked
\* fanned out, whatever the other loop does with the tasks (see Fanout).
FannedOutComplete == F!FannedOutComplete

\* Tasks and the flag of their record appear together, and no deletion of a
\* record or of subscriptions leaves one behind (see Fanout).
TasksOfFannedOut == F!TasksOfFannedOut

\* A task is marked published only if its message reached Telegram.
PublishedWasSent == D!PublishedWasSent

\* A message is repeated only after an attempt that was recorded as failed or
\* lost to a fault, also when its record is fanned out again (see Delivery).
RepeatsExplained == D!RepeatsExplained

\* A claimed task keeps its subscription until the transaction ends.
NoTaskSkipped == D!NoTaskSkipped

\* After a task is marked published its message is never sent again, by any
\* relay, from any claim that was open, or when its record is fanned out again.
NotSentAgain == D!NotSentAgain

\* A message goes out only for a record that was fanned out, to somebody who is
\* subscribed to its event at that moment: nobody hears anything after the
\* deletion of the subscription was committed.
SentToSubscribers ==
    [][\A t \in Tasks : sent'[t] # sent[t] =>
          /\ t[1] \in DOMAIN outbox
          /\ outbox[t[1]].fanned_out \/ t[1] \in edited
          /\ t[2] \in subscriptions \cap Wanted[t[1]]]_vars

(***************************************************************************)
(* Refinement: seen from either loop, everything the other one, the admin  *)
(* and PostgreSQL do is something its own specification allows for.        *)
(***************************************************************************)

\* Fanout and Delivery are shown correct among the steps they let others take;
\* the composed system takes no others.
ImplementsLoops == F!Spec /\ D!Spec

(***************************************************************************)
(* Liveness, from the outbox to Telegram.                                  *)
(***************************************************************************)
Told(r, s) == sent[<<r, s>>] > 0

\* All attempts to fan out the record, or to deliver the message, have failed.
GivenUp(r, s) ==
    \/ ~outbox[r].fanned_out /\ outbox[r].attempts = MaxAttempts
    \/ <<r, s>> \in DOMAIN tasks /\ tasks[<<r, s>>].attempts = MaxAttempts

\* Whoever was subscribed when the record was stored is told of it, unless all
\* attempts fail or the subscription or the record is deleted first; the
\* removal of a dead engine does that to the news of its death.  Stated for
\* when a loop of each kind survives, since nothing restarts one.
EveryoneTold ==
    /\ \E w \in Relays : <>[](planner[w].stage # "dead")
    /\ \E w \in Relays : <>[](sender[w].stage # "dead")
    =>
        \A r \in Records : \A s \in Wanted[r] \cap Early :
            r \in DOMAIN outbox ~> \/ Told(r, s)
                                   \/ s \notin subscriptions
                                   \/ r \notin DOMAIN outbox
                                   \/ r \in DOMAIN outbox /\ GivenUp(r, s)
=============================================================================
