---------------------------- MODULE DeliveryProofs ----------------------------
(***************************************************************************)
(* The delivery of messages, for any number of relays, tasks,              *)
(* subscriptions and faults and any batch size: a task is marked published *)
(* only for a message that went out, and then never sent again, and no     *)
(* claimed task loses its chat.                                            *)
(***************************************************************************)
EXTENDS Delivery, FiniteSetTheorems, TLAPS

(***************************************************************************)
(* The promises compare the tasks' rows with messages, which go out before *)
(* the commit: ClaimJustified says what an open transaction knows about    *)
(* both, and that its tasks are its own.                                   *)
(***************************************************************************)
ClaimJustified(w) ==
    /\ relay[w].stage \in {"idle", "dead"} => relay[w].tasks = {}
    /\ relay[w].stage # "sent" => relay[w].confirmed = {}
    /\ relay[w].stage \in {"resolved", "sent"} => relay[w].sendable = relay[w].tasks
    /\ \A t \in relay[w].tasks : /\ t \in Existing
                                 /\ ~tasks[t].published
                                 /\ tasks[t].attempts < MaxAttempts
    /\ \A t \in relay[w].confirmed : sent[t] > 0

ClaimsJustified == \A w \in Relays : ClaimJustified(w)

ClaimsDisjoint ==
    \A v, w \in Relays : v # w => relay[v].tasks \cap relay[w].tasks = {}

\* The foreign key: no task survives its subscription.
Subscribed == \A t \in Existing : SubscriptionOf[t] \in subscriptions

IInv ==
    /\ TypeOK /\ Subscribed
    /\ ClaimsJustified /\ ClaimsDisjoint
    /\ PublishedWasSent

-----------------------------------------------------------------------------
LEMMA NoTxTyped ==
    ASSUME NEW st \in {"idle", "dead"}
    PROVE  /\ NoTx(st) \in Relay /\ NoTx(st).stage = st
           /\ NoTx(st).tasks = {} /\ NoTx(st).confirmed = {} /\ NoTx(st).sendable = {}
  BY DEF NoTx, Relay

LEMMA FaultCounted ==
    ASSUME ConstantsAssumption, TypeOK, Fault \/ UNCHANGED faults
    PROVE  faults' \in 0 .. MaxFaults /\ faults' >= faults
  BY DEF ConstantsAssumption, TypeOK, Fault

\* Deleting rows leaves the others as they are.
LEMMA WithoutKeeps ==
    ASSUME NEW T, tasks' = Without(T)
    PROVE  Existing' = Existing \ T /\ \A t \in Existing' : tasks'[t] = tasks[t]
  BY DEF Without, Existing

\* A step in which one relay goes on and no table changes keeps the invariant,
\* if what the relay has in hand afterwards is justified and nobody else's.
LEMMA RelayStep ==
    ASSUME IInv, NEW w \in Relays, NEW tx \in Relay,
           relay' = [relay EXCEPT ![w] = tx],
           UNCHANGED <<tasks, subscriptions>>,
           sent' \in [Tasks -> Nat], \A t \in Tasks : sent'[t] >= sent[t],
           faults' \in 0 .. MaxFaults,
           \A t \in tx.tasks : \A v \in Relays : v # w => t \notin relay[v].tasks,
           ClaimJustified(w)'
    PROVE  IInv'
  <1>1. /\ relay'[w] = tx
        /\ \A v \in Relays : v # w => relay'[v] = relay[v]
        /\ relay' \in [Relays -> Relay]
    BY DEF IInv, TypeOK
  <1>2. TypeOK'
    BY <1>1 DEF IInv, TypeOK, Existing
  <1>3. Subscribed'
    BY DEF IInv, Subscribed, Existing
  <1>4. ClaimsDisjoint'
    BY <1>1 DEF IInv, ClaimsDisjoint
  <1>5. \A t \in Tasks : sent[t] > 0 => sent'[t] > 0
    BY DEF IInv, TypeOK
  <1>6. PublishedWasSent'
    BY <1>5 DEF IInv, TypeOK, PublishedWasSent, Existing
  <1>7. ASSUME NEW v \in Relays, v # w
        PROVE  ClaimJustified(v)'
    <2>1. ClaimJustified(v) /\ relay'[v] = relay[v] /\ relay[v] \in Relay
      BY <1>1, <1>7 DEF IInv, ClaimsJustified, TypeOK
    <2>2. \A t \in relay[v].confirmed : sent'[t] > 0
      BY <1>5, <2>1 DEF ClaimJustified, Relay
    <2> QED
      BY <2>1, <2>2 DEF ClaimJustified, Existing
  <1>8. ClaimsJustified'
    BY <1>7 DEF ClaimsJustified
  <1> QED
    BY <1>2, <1>3, <1>4, <1>6, <1>8 DEF IInv

\* A change of the tables that respects the claims keeps what they know.
LEMMA TableStep ==
    ASSUME IInv, UNCHANGED <<relay, sent, faults>>,
           Existing' \subseteq Tasks, \A t \in Existing' : tasks'[t] \in TaskRow,
           subscriptions' \subseteq Subscriptions,
           \A w \in Relays : \A t \in relay[w].tasks :
               /\ t \in Existing'
               /\ tasks'[t].published = tasks[t].published
               /\ tasks'[t].attempts = tasks[t].attempts,
           Subscribed', PublishedWasSent'
    PROVE  IInv'
  <1>1. TypeOK'
    BY DEF IInv, TypeOK
  <1>2. ClaimsDisjoint'
    BY DEF IInv, ClaimsDisjoint
  <1>3. ASSUME NEW w \in Relays
        PROVE  ClaimJustified(w)'
    <2>1. ClaimJustified(w)
      BY DEF IInv, ClaimsJustified
    <2> QED
      BY <2>1 DEF ClaimJustified
  <1> QED
    BY <1>1, <1>2, <1>3 DEF IInv, ClaimsJustified

-----------------------------------------------------------------------------
(***************************************************************************)
(* What the rest of the system does, within the locks of the claims.       *)
(***************************************************************************)

\* Claimed tasks exist.
LEMMA ClaimedExist ==
    ASSUME IInv, NEW w \in Relays, NEW t \in relay[w].tasks
    PROVE  t \in Existing
  BY DEF IInv, ClaimsJustified, ClaimJustified

LEMMA AddTasksStep ==
    ASSUME ConstantsAssumption, IInv, NEW S \in SUBSET Tasks, AddTasks(S)
    PROVE  IInv'
  <1> DEFINE row == [published |-> FALSE, attempts |-> 0, due |-> TRUE]
  <1>1. row \in TaskRow /\ ~row.published
    BY DEF ConstantsAssumption, TaskRow
  <1>2. /\ Existing' = Existing \cup S /\ S \cap Existing = {}
        /\ \A t \in S : tasks'[t] = row
        /\ \A t \in Existing : tasks'[t] = tasks[t]
    BY DEF AddTasks, Existing
  <1> HIDE DEF row
  <1>3. UNCHANGED <<subscriptions, relay, sent, faults>>
    BY DEF AddTasks
  <1>4. Subscribed'
    BY <1>2, <1>3 DEF IInv, Subscribed, AddTasks
  <1>5. PublishedWasSent'
    BY <1>1, <1>2, <1>3 DEF IInv, PublishedWasSent
  <1>6. /\ Existing' \subseteq Tasks /\ \A t \in Existing' : tasks'[t] \in TaskRow
        /\ subscriptions' \subseteq Subscriptions
    BY <1>1, <1>2, <1>3 DEF IInv, TypeOK
  <1> QED
    BY <1>2, <1>3, <1>4, <1>5, <1>6, ClaimedExist, TableStep

LEMMA SubscribeStep ==
    ASSUME IInv, NEW s \in Subscriptions, Subscribe(s)
    PROVE  IInv'
  <1>1. /\ subscriptions' = subscriptions \cup {s}
        /\ UNCHANGED <<tasks, relay, sent, faults>> /\ Existing' = Existing
    BY DEF Subscribe, Existing
  <1>2. Subscribed' /\ PublishedWasSent'
    BY <1>1 DEF IInv, Subscribed, PublishedWasSent
  <1>3. /\ Existing' \subseteq Tasks /\ \A t \in Existing' : tasks'[t] \in TaskRow
        /\ subscriptions' \subseteq Subscriptions
    BY <1>1 DEF IInv, TypeOK
  <1> QED
    BY <1>1, <1>2, <1>3, ClaimedExist, TableStep

LEMMA FallDueStep ==
    ASSUME IInv, NEW t \in Tasks, FallDue(t)
    PROVE  IInv'
  <1>1. t \in Existing /\ tasks[t] \in TaskRow
    BY DEF FallDue, IInv, TypeOK
  <1>2. /\ Existing' = Existing
        /\ \A x \in Existing : x # t => tasks'[x] = tasks[x]
        /\ tasks'[t] = [tasks[t] EXCEPT !.due = TRUE]
        /\ UNCHANGED <<subscriptions, relay, sent, faults>>
    BY <1>1 DEF FallDue, Existing
  <1>3. /\ tasks'[t] \in TaskRow
        /\ tasks'[t].published = tasks[t].published
        /\ tasks'[t].attempts = tasks[t].attempts
    BY <1>1, <1>2 DEF TaskRow
  <1>4. Subscribed' /\ PublishedWasSent'
    BY <1>2, <1>3 DEF IInv, Subscribed, PublishedWasSent
  <1>5. /\ Existing' \subseteq Tasks /\ \A x \in Existing' : tasks'[x] \in TaskRow
        /\ subscriptions' \subseteq Subscriptions
    BY <1>2, <1>3 DEF IInv, TypeOK
  <1> QED
    BY <1>2, <1>3, <1>4, <1>5, ClaimedExist, TableStep

LEMMA DiscardStep ==
    ASSUME IInv, NEW T \in SUBSET Tasks, Discard(T)
    PROVE  IInv'
  <1>1. /\ Existing' = Existing \ T /\ \A t \in Existing' : tasks'[t] = tasks[t]
        /\ UNCHANGED <<subscriptions, relay, sent, faults>>
    BY WithoutKeeps DEF Discard
  <1>2. \A w \in Relays : \A t \in relay[w].tasks : t \in Existing'
    BY <1>1, ClaimedExist DEF Discard, Locked
  <1>3. Subscribed' /\ PublishedWasSent'
    BY <1>1 DEF IInv, Subscribed, PublishedWasSent
  <1>4. /\ Existing' \subseteq Tasks /\ \A t \in Existing' : tasks'[t] \in TaskRow
        /\ subscriptions' \subseteq Subscriptions
    BY <1>1 DEF IInv, TypeOK
  <1> QED
    BY <1>1, <1>2, <1>3, <1>4, TableStep

\* The deletion waits for the claimed tasks and takes all others along.
LEMMA UnsubscribeStep ==
    ASSUME IInv, NEW S \in SUBSET Subscriptions, Unsubscribe(S)
    PROVE  IInv'
  <1>1. /\ Existing' = Existing \ TasksOf(S)
        /\ \A t \in Existing' : tasks'[t] = tasks[t]
        /\ subscriptions' = subscriptions \ S
        /\ UNCHANGED <<relay, sent, faults>>
    BY WithoutKeeps DEF Unsubscribe
  <1>2. \A w \in Relays : \A t \in relay[w].tasks : t \in Existing'
    BY <1>1, ClaimedExist DEF Unsubscribe, Locked
  <1>3. Subscribed'
    BY <1>1 DEF IInv, Subscribed, TasksOf
  <1>4. PublishedWasSent'
    BY <1>1 DEF IInv, PublishedWasSent
  <1>5. /\ Existing' \subseteq Tasks /\ \A t \in Existing' : tasks'[t] \in TaskRow
        /\ subscriptions' \subseteq Subscriptions
    BY <1>1 DEF IInv, TypeOK
  <1> QED
    BY <1>1, <1>2, <1>3, <1>4, <1>5, TableStep

-----------------------------------------------------------------------------
(***************************************************************************)
(* The steps of the loop.                                                  *)
(***************************************************************************)
LEMMA ClaimStep ==
    ASSUME IInv, NEW w \in Relays, Claim(w)
    PROVE  IInv'
  <1>1. PICK S \in SUBSET {t \in Tasks : Claimable(t)} :
            relay' = [relay EXCEPT ![w].stage = "claimed", ![w].tasks = S]
    BY DEF Claim
  <1> DEFINE tx == [relay[w] EXCEPT !.stage = "claimed", !.tasks = S]
  <1>2. relay[w] \in Relay /\ relay[w].stage = "idle" /\ ClaimJustified(w)
    BY DEF IInv, TypeOK, Claim, ClaimsJustified
  <1>3. tx \in Relay
    BY <1>2 DEF Relay
  <1>4. tx.stage = "claimed" /\ tx.tasks = S /\ tx.confirmed = {}
    BY <1>2 DEF Relay, ClaimJustified
  <1>5. relay' = [relay EXCEPT ![w] = tx] /\ relay'[w] = tx
    BY <1>1 DEF IInv, TypeOK
  <1> HIDE DEF tx
  <1>6. \A t \in S : /\ t \in Existing /\ ~tasks[t].published
                    /\ tasks[t].attempts < MaxAttempts
                    /\ \A v \in Relays : t \notin relay[v].tasks
    BY DEF Claimable, Locked
  <1>7. UNCHANGED <<tasks, subscriptions, sent, faults>>
    BY DEF Claim
  <1>8. ClaimJustified(w)'
    BY <1>4, <1>5, <1>6, <1>7 DEF ClaimJustified, Existing
  <1>9. /\ sent' \in [Tasks -> Nat] /\ \A t \in Tasks : sent'[t] >= sent[t]
        /\ faults' \in 0 .. MaxFaults
    BY <1>7 DEF IInv, TypeOK
  <1> QED
    BY <1>3, <1>4, <1>5, <1>6, <1>7, <1>8, <1>9, RelayStep

\* Every claimed task still has its chat.
LEMMA AllHaveChats ==
    ASSUME IInv, NEW w \in Relays
    PROVE  {t \in relay[w].tasks : HasChat(t)} = relay[w].tasks
  BY ClaimedExist DEF IInv, Subscribed, HasChat

LEMMA ResolveStep ==
    ASSUME IInv, NEW w \in Relays, Resolve(w)
    PROVE  IInv'
  <1> DEFINE tx == [relay[w] EXCEPT !.stage = "resolved", !.sendable = relay[w].tasks]
  <1>1. relay[w] \in Relay /\ relay[w].stage = "claimed" /\ ClaimJustified(w)
    BY DEF IInv, TypeOK, Resolve, ClaimsJustified
  <1>2. tx \in Relay
    BY <1>1 DEF Relay
  <1>3. /\ tx.stage = "resolved" /\ tx.tasks = relay[w].tasks
        /\ tx.sendable = relay[w].tasks /\ tx.confirmed = {}
    BY <1>1 DEF Relay, ClaimJustified
  <1>4. relay' = [relay EXCEPT ![w] = tx] /\ relay'[w] = tx
    BY AllHaveChats DEF IInv, TypeOK, Resolve
  <1> HIDE DEF tx
  <1>5. UNCHANGED <<tasks, subscriptions, sent, faults>>
    BY DEF Resolve
  <1>6. ClaimJustified(w)'
    BY <1>1, <1>3, <1>4, <1>5 DEF ClaimJustified, Existing
  <1>7. /\ sent' \in [Tasks -> Nat] /\ \A t \in Tasks : sent'[t] >= sent[t]
        /\ faults' \in 0 .. MaxFaults
    BY <1>5 DEF IInv, TypeOK
  <1>8. \A t \in tx.tasks : \A v \in Relays : v # w => t \notin relay[v].tasks
    BY <1>3 DEF IInv, ClaimsDisjoint
  <1> QED
    BY <1>2, <1>4, <1>5, <1>6, <1>7, <1>8, RelayStep

\* What Telegram gets are tasks the relay has claimed, and it confirms none
\* that it did not get.
LEMMA PublishSends ==
    ASSUME IInv, NEW w \in Relays, Publish(w)
    PROVE  \E arrived \in SUBSET relay[w].tasks : \E confirmed \in SUBSET arrived :
               /\ sent' = [t \in Tasks |-> IF t \in arrived THEN sent[t] + 1 ELSE sent[t]]
               /\ relay' = [relay EXCEPT ![w].stage = "sent", ![w].confirmed = confirmed]
  <1>1. relay[w].sendable = relay[w].tasks
    BY DEF IInv, ClaimsJustified, ClaimJustified, Publish
  <1> QED
    BY <1>1 DEF Publish

LEMMA PublishStep ==
    ASSUME IInv, NEW w \in Relays, Publish(w)
    PROVE  IInv'
  <1>1. PICK arrived \in SUBSET relay[w].tasks : \E confirmed \in SUBSET arrived :
            /\ sent' = [t \in Tasks |-> IF t \in arrived THEN sent[t] + 1 ELSE sent[t]]
            /\ relay' = [relay EXCEPT ![w].stage = "sent", ![w].confirmed = confirmed]
    BY PublishSends
  <1>2. PICK confirmed \in SUBSET arrived :
            relay' = [relay EXCEPT ![w].stage = "sent", ![w].confirmed = confirmed]
    BY <1>1
  <1> DEFINE tx == [relay[w] EXCEPT !.stage = "sent", !.confirmed = confirmed]
  <1>3. relay[w] \in Relay /\ relay[w].stage = "resolved" /\ ClaimJustified(w)
    BY DEF IInv, TypeOK, Publish, ClaimsJustified
  <1>4. confirmed \subseteq Tasks
    BY <1>3 DEF Relay
  <1>5. tx \in Relay
    BY <1>3, <1>4 DEF Relay
  <1>6. /\ tx.stage = "sent" /\ tx.tasks = relay[w].tasks
        /\ tx.sendable = relay[w].tasks /\ tx.confirmed = confirmed
    BY <1>3 DEF Relay, ClaimJustified
  <1>7. relay' = [relay EXCEPT ![w] = tx] /\ relay'[w] = tx
    BY <1>2 DEF IInv, TypeOK
  <1> HIDE DEF tx
  <1>8. UNCHANGED <<tasks, subscriptions, faults>>
    BY DEF Publish
  <1>9. sent \in [Tasks -> Nat]
    BY DEF IInv, TypeOK
  <1>10. /\ sent' \in [Tasks -> Nat] /\ \A t \in Tasks : sent'[t] >= sent[t]
         /\ \A t \in confirmed : sent'[t] > 0
    BY <1>1, <1>4, <1>9
  <1>11. ClaimJustified(w)'
    BY <1>3, <1>6, <1>7, <1>8, <1>10 DEF ClaimJustified, Existing
  <1>12. \A t \in tx.tasks : \A v \in Relays : v # w => t \notin relay[v].tasks
    BY <1>6 DEF IInv, ClaimsDisjoint
  <1>13. faults' \in 0 .. MaxFaults
    BY <1>8 DEF IInv, TypeOK
  <1> QED
    BY <1>5, <1>7, <1>8, <1>10, <1>11, <1>12, <1>13, RelayStep

\* Both outcomes count an attempt, and a task that was claimed has one left.
LEMMA RecordedTyped ==
    ASSUME ConstantsAssumption, NEW w, NEW t, tasks[t] \in TaskRow,
           tasks[t].attempts < MaxAttempts
    PROVE  /\ Recorded(w, t) \in TaskRow
           /\ Recorded(w, t).attempts = tasks[t].attempts + 1
           /\ Recorded(w, t).published = (t \in relay[w].confirmed \/ tasks[t].published)
  <1>1. tasks[t].attempts + 1 \in 0 .. MaxAttempts
    BY DEF ConstantsAssumption, TaskRow
  <1>2. CASE t \in relay[w].confirmed
    BY <1>1, <1>2 DEF TaskRow, Recorded
  <1>3. CASE t \notin relay[w].confirmed
    BY <1>1, <1>3 DEF TaskRow, Recorded
  <1> QED
    BY <1>2, <1>3

\* What a commit does to the rows: those of the claim get their result.
LEMMA CommitRecords ==
    ASSUME ConstantsAssumption, IInv, NEW w \in Relays, Commit(w)
    PROVE  /\ Existing' = Existing
           /\ \A t \in Existing :
                 IF t \in relay[w].tasks
                 THEN /\ tasks'[t] \in TaskRow
                      /\ tasks'[t].attempts = tasks[t].attempts + 1
                      /\ tasks'[t].published = (t \in relay[w].confirmed)
                 ELSE tasks'[t] = tasks[t]
  <1>1. ClaimJustified(w) /\ relay[w].stage = "sent"
    BY DEF IInv, ClaimsJustified, Commit
  <1>2. \A t \in relay[w].tasks : /\ t \in Existing /\ tasks[t] \in TaskRow
                                 /\ tasks[t].attempts < MaxAttempts
                                 /\ ~tasks[t].published
    BY <1>1 DEF ClaimJustified, IInv, TypeOK
  <1>3. /\ Existing' = Existing
        /\ \A t \in Existing :
              tasks'[t] = IF t \in relay[w].tasks THEN Recorded(w, t) ELSE tasks[t]
    BY <1>1 DEF Commit, ClaimJustified, Existing
  <1> QED
    BY <1>2, <1>3, RecordedTyped

LEMMA CommitStep ==
    ASSUME ConstantsAssumption, IInv, NEW w \in Relays, Commit(w)
    PROVE  IInv'
  <1>1. PICK st \in {"idle", "dead"} : relay' = [relay EXCEPT ![w] = NoTx(st)]
    BY DEF Commit
  <1>2. /\ relay'[w] = NoTx(st)
        /\ \A v \in Relays : v # w => relay'[v] = relay[v]
        /\ relay' \in [Relays -> Relay]
    BY <1>1, NoTxTyped DEF IInv, TypeOK
  <1>3. UNCHANGED <<subscriptions, sent>> /\ faults' \in 0 .. MaxFaults
    BY FaultCounted DEF Commit, IInv
  <1>4. TypeOK'
    <2>1. \A t \in Existing : tasks'[t] \in TaskRow
      BY CommitRecords DEF IInv, TypeOK
    <2> QED
      BY <1>2, <1>3, <2>1, CommitRecords DEF IInv, TypeOK
  <1>5. Subscribed'
    BY <1>3, CommitRecords DEF IInv, Subscribed
  <1>6. ClaimsDisjoint'
    BY <1>2, NoTxTyped DEF IInv, ClaimsDisjoint
  <1>7. PublishedWasSent'
    BY <1>3, CommitRecords DEF IInv, PublishedWasSent, ClaimsJustified, ClaimJustified
  <1>8. ClaimJustified(w)'
    BY <1>2, NoTxTyped DEF ClaimJustified
  <1>9. ASSUME NEW v \in Relays, v # w
        PROVE  ClaimJustified(v)'
    <2>1. ClaimJustified(v) /\ relay'[v] = relay[v]
      BY <1>2, <1>9 DEF IInv, ClaimsJustified
    <2>2. \A t \in relay[v].tasks : t \notin relay[w].tasks
      BY <1>9 DEF IInv, ClaimsDisjoint
    <2>3. \A t \in relay[v].tasks : t \in Existing' /\ tasks'[t] = tasks[t]
      BY <2>2, ClaimedExist, CommitRecords
    <2> QED
      BY <1>3, <2>1, <2>3 DEF ClaimJustified
  <1> QED
    BY <1>4, <1>5, <1>6, <1>7, <1>8, <1>9 DEF IInv, ClaimsJustified

\* An open transaction that is rolled back leaves the messages that are out.
LEMMA RollbackStep ==
    ASSUME ConstantsAssumption, IInv, NEW w \in Relays, Die(w) \/ Restart(w)
    PROVE  IInv'
  <1>1. PICK st \in {"idle", "dead"} : relay' = [relay EXCEPT ![w] = NoTx(st)]
    BY DEF Die, Restart
  <1>2. UNCHANGED <<tasks, subscriptions, sent>> /\ faults' \in 0 .. MaxFaults
    BY FaultCounted DEF Die, Restart, IInv
  <1>3. relay'[w] = NoTx(st)
    BY <1>1 DEF IInv, TypeOK
  <1>4. ClaimJustified(w)'
    BY <1>3, NoTxTyped DEF ClaimJustified
  <1>5. sent' \in [Tasks -> Nat] /\ \A t \in Tasks : sent'[t] >= sent[t]
    BY <1>2 DEF IInv, TypeOK
  <1> QED
    BY <1>1, <1>2, <1>4, <1>5, NoTxTyped, RelayStep

-----------------------------------------------------------------------------
LEMMA Initially ==
    ASSUME ConstantsAssumption, Init
    PROVE  IInv
  <1>1. Existing = {} /\ \A w \in Relays : relay[w] = NoTx("idle")
    BY DEF Init, Existing
  <1>2. TypeOK
    BY <1>1, NoTxTyped DEF Init, TypeOK, ConstantsAssumption
  <1>3. ClaimsJustified /\ ClaimsDisjoint
    BY <1>1, NoTxTyped DEF ClaimsJustified, ClaimJustified, ClaimsDisjoint
  <1> QED
    BY <1>1, <1>2, <1>3 DEF IInv, Subscribed, PublishedWasSent

LEMMA Inductive ==
    ASSUME ConstantsAssumption
    PROVE  IInv /\ [Next]_vars => IInv'
  <1> SUFFICES ASSUME IInv, [Next]_vars
               PROVE  IInv'
    OBVIOUS
  <1>1. CASE \E S \in SUBSET Tasks : AddTasks(S) \/ Discard(S)
    BY <1>1, AddTasksStep, DiscardStep
  <1>2. CASE \E t \in Tasks : FallDue(t)
    BY <1>2, FallDueStep
  <1>3. CASE \E s \in Subscriptions : Subscribe(s)
    BY <1>3, SubscribeStep
  <1>4. CASE \E S \in SUBSET Subscriptions : Unsubscribe(S)
    BY <1>4, UnsubscribeStep
  <1>5. CASE \E w \in Relays : Loop(w) \/ Die(w) \/ Restart(w)
    BY <1>5, ClaimStep, ResolveStep, PublishStep, CommitStep, RollbackStep DEF Loop
  <1>6. CASE UNCHANGED vars
    BY <1>6 DEF vars, IInv, TypeOK, Subscribed, ClaimsJustified, ClaimJustified,
                ClaimsDisjoint, PublishedWasSent, Existing
  <1> QED
    BY <1>1, <1>2, <1>3, <1>4, <1>5, <1>6 DEF Next

\* What the rows of the tasks, the open transactions and Telegram's messages
\* have to do with each other at every moment of every run of the loop.
THEOREM Invariance ==
    ASSUME ConstantsAssumption
    PROVE  Spec => []IInv
  <1>1. Init => IInv
    BY Initially
  <1>2. IInv /\ [Next]_vars => IInv'
    BY Inductive
  <1> QED
    BY <1>1, <1>2, PTL DEF Spec

\* mark_published is only reached by tasks whose message went out.
THEOREM PublishedReachedTelegram ==
    ASSUME ConstantsAssumption
    PROVE  Spec => []PublishedWasSent
  <1>1. IInv => PublishedWasSent
    BY DEF IInv
  <1> QED
    BY <1>1, Invariance, PTL

\* The branch of process_engine_delivery_tasks for tasks with missing data is
\* dead code as long as claimed tasks are locked.
THEOREM NothingSkipped ==
    ASSUME ConstantsAssumption
    PROVE  Spec => []NoTaskSkipped
  <1>1. IInv => NoTaskSkipped
    BY ClaimedExist DEF IInv, ClaimsJustified, ClaimJustified, NoTaskSkipped
  <1> QED
    BY <1>1, Invariance, PTL

-----------------------------------------------------------------------------
(***************************************************************************)
(* Messages that are sent again.                                           *)
(***************************************************************************)

\* Messages only go out for tasks some relay has claimed, so for tasks that
\* exist and are not marked published.
LEMMA OnlyClaimedAreSent ==
    ASSUME IInv, [Next]_vars, NEW t \in Tasks, sent'[t] # sent[t]
    PROVE  t \in Existing /\ ~tasks[t].published
  <1>1. PICK w \in Relays : Publish(w)
    BY DEF Next, vars, AddTasks, Discard, FallDue, Subscribe, Unsubscribe, Loop, Claim,
           Resolve, Commit, Die, Restart
  <1>2. PICK arrived \in SUBSET relay[w].tasks :
            sent' = [x \in Tasks |-> IF x \in arrived THEN sent[x] + 1 ELSE sent[x]]
    BY <1>1, PublishSends
  <1>3. t \in relay[w].tasks
    BY <1>2
  <1> QED
    BY <1>3 DEF IInv, ClaimsJustified, ClaimJustified

\* No step takes the mark back.
LEMMA MarkStays ==
    ASSUME ConstantsAssumption, IInv, [Next]_vars, NEW t \in Existing, tasks[t].published,
           t \in Existing'
    PROVE  tasks'[t].published
  <1>1. CASE \E S \in SUBSET Tasks : AddTasks(S)
    BY <1>1 DEF AddTasks
  <1>2. CASE \/ \E S \in SUBSET Tasks : Discard(S)
             \/ \E S \in SUBSET Subscriptions : Unsubscribe(S)
    <2>1. PICK T : tasks' = Without(T)
      BY <1>2 DEF Discard, Unsubscribe
    <2> QED
      BY <2>1, WithoutKeeps
  <1>3. CASE \E x \in Tasks : FallDue(x)
    <2>1. tasks[t] \in TaskRow
      BY DEF IInv, TypeOK
    <2> QED
      BY <1>3, <2>1 DEF FallDue, Existing, TaskRow
  <1>4. CASE \E w \in Relays : Commit(w)
    <2>1. PICK w \in Relays : Commit(w)
      BY <1>4
    <2>2. t \notin relay[w].tasks
      BY DEF IInv, ClaimsJustified, ClaimJustified
    <2> QED
      BY <2>1, <2>2, CommitRecords
  <1>5. CASE UNCHANGED tasks
    BY <1>5
  <1> QED
    BY <1>1, <1>2, <1>3, <1>4, <1>5 DEF Next, vars, Subscribe, Loop, Claim, Resolve,
           Publish, Die, Restart

\* Once mark_published is committed, no relay sends the message again, not even
\* from a claim that was open before.
THEOREM PublishedForGood ==
    ASSUME ConstantsAssumption
    PROVE  Spec => NotSentAgain
  <1> DEFINE Kept == \A t \in Existing : tasks[t].published =>
                        /\ sent'[t] = sent[t]
                        /\ t \in Existing' => tasks'[t].published
  <1>1. IInv /\ [Next]_vars => [Kept]_vars
    <2> SUFFICES ASSUME IInv, [Next]_vars, NEW t \in Existing, tasks[t].published
                 PROVE  /\ sent'[t] = sent[t]
                        /\ t \in Existing' => tasks'[t].published
      OBVIOUS
    <2>1. t \in Tasks
      BY DEF IInv, TypeOK
    <2> QED
      BY <2>1, OnlyClaimedAreSent, MarkStays
  <1>2. NotSentAgain <=> [][Kept]_vars
    BY DEF NotSentAgain
  <1> HIDE DEF Kept
  <1> QED
    BY <1>1, <1>2, Invariance, PTL DEF Spec

\* The relays whose results for a task are not committed yet.
Unanswered(t) == {w \in Relays : relay[w].stage = "sent" /\ t \in relay[w].sendable}

\* RepeatsExplained for one task: every message is an attempt, a fault or has
\* its result still open.
Explained(t) == sent[t] <= tasks[t].attempts + faults + Cardinality(Unanswered(t))

LEMMA OpenResults ==
    ASSUME ConstantsAssumption, NEW S \in SUBSET Relays, NEW w \in Relays
    PROVE  /\ Cardinality(S) \in Nat
           /\ Cardinality(S \cup {w}) = IF w \in S THEN Cardinality(S) ELSE Cardinality(S) + 1
           /\ Cardinality(S \ {w}) = IF w \in S THEN Cardinality(S) - 1 ELSE Cardinality(S)
  <1>1. IsFiniteSet(S)
    BY FS_Subset DEF ConstantsAssumption
  <1> QED
    BY <1>1, FS_CardinalityType, FS_AddElement, FS_RemoveElement

\* A rollback turns an open result into a fault, a commit into an attempt.
LEMMA ClosedResults ==
    ASSUME IInv, NEW w \in Relays, NEW t, NEW st \in {"idle", "dead"},
           relay' = [relay EXCEPT ![w] = NoTx(st)]
    PROVE  Unanswered(t)' = Unanswered(t) \ {w}
  <1>1. relay'[w] = NoTx(st) /\ \A v \in Relays : v # w => relay'[v] = relay[v]
    BY DEF IInv, TypeOK
  <1> QED
    BY <1>1, NoTxTyped DEF Unanswered

\* As long as a task exists every step accounts for the messages it sends and
\* for the results it closes.
LEMMA ExplainedStays ==
    ASSUME ConstantsAssumption, IInv, [Next]_vars, NEW t \in Existing, t \in Existing',
           Explained(t)
    PROVE  Explained(t)'
  <1>1. /\ t \in Tasks /\ sent[t] \in Nat /\ tasks[t].attempts \in Nat /\ faults \in Nat
        /\ sent \in [Tasks -> Nat] /\ tasks[t] \in TaskRow
    BY DEF IInv, TypeOK, TaskRow
  <1>2. Unanswered(t) \in SUBSET Relays
    BY DEF Unanswered
  <1>3. CASE UNCHANGED <<relay, sent, faults>> /\ tasks'[t].attempts = tasks[t].attempts
    <2>1. Unanswered(t)' = Unanswered(t)
      BY <1>3 DEF Unanswered
    <2> QED
      BY <1>3, <2>1 DEF Explained
  <1>4. ASSUME NEW w \in Relays, Claim(w) \/ Resolve(w)
        PROVE  Explained(t)'
    <2>1. relay[w].stage # "sent" /\ relay'[w].stage # "sent"
          /\ \A v \in Relays : v # w => relay'[v] = relay[v]
      BY <1>4 DEF Claim, Resolve, IInv, TypeOK, Relay
    <2>2. Unanswered(t)' = Unanswered(t)
      BY <2>1 DEF Unanswered
    <2>3. UNCHANGED <<tasks, sent, faults>>
      BY <1>4 DEF Claim, Resolve
    <2> QED
      BY <2>2, <2>3 DEF Explained
  <1>5. ASSUME NEW w \in Relays, Publish(w)
        PROVE  Explained(t)'
    <2>1. PICK arrived \in SUBSET relay[w].tasks : \E confirmed \in SUBSET arrived :
              /\ sent' = [x \in Tasks |-> IF x \in arrived THEN sent[x] + 1 ELSE sent[x]]
              /\ relay' = [relay EXCEPT ![w].stage = "sent", ![w].confirmed = confirmed]
      BY <1>5, PublishSends
    <2>2. relay[w].stage = "resolved" /\ relay[w].sendable = relay[w].tasks
      BY <1>5 DEF Publish, IInv, ClaimsJustified, ClaimJustified
    <2>3. /\ relay'[w].stage = "sent" /\ relay'[w].sendable = relay[w].sendable
          /\ \A v \in Relays : v # w => relay'[v] = relay[v]
      BY <2>1 DEF IInv, TypeOK, Relay
    <2>4. w \notin Unanswered(t)
      BY <2>2 DEF Unanswered
    <2>5. UNCHANGED <<tasks, faults>>
      BY <1>5 DEF Publish
    <2>6. CASE t \in relay[w].tasks
      <3>1. Unanswered(t)' = Unanswered(t) \cup {w}
        BY <2>2, <2>3, <2>6 DEF Unanswered
      <3>2. Cardinality(Unanswered(t)') = Cardinality(Unanswered(t)) + 1
            /\ Cardinality(Unanswered(t)) \in Nat
        BY <1>2, <2>4, <3>1, OpenResults
      <3>3. sent'[t] <= sent[t] + 1
        BY <1>1, <2>1
      <3>4. sent'[t] \in Nat
        BY <1>1, <2>1
      <3> QED
        BY <1>1, <2>5, <3>2, <3>3, <3>4 DEF Explained
    <2>7. CASE t \notin relay[w].tasks
      <3>1. Unanswered(t)' = Unanswered(t)
        BY <2>2, <2>3, <2>7 DEF Unanswered
      <3>2. sent'[t] = sent[t]
        BY <1>1, <2>1, <2>7
      <3> QED
        BY <2>5, <3>1, <3>2 DEF Explained
    <2> QED
      BY <2>6, <2>7
  <1>6. ASSUME NEW w \in Relays, Commit(w)
        PROVE  Explained(t)'
    <2>1. PICK st \in {"idle", "dead"} : relay' = [relay EXCEPT ![w] = NoTx(st)]
      BY <1>6 DEF Commit
    <2>2. Unanswered(t)' = Unanswered(t) \ {w}
      BY <2>1, ClosedResults
    <2>3. /\ Cardinality(Unanswered(t)) \in Nat
          /\ Cardinality(Unanswered(t) \ {w}) = IF w \in Unanswered(t)
                                                THEN Cardinality(Unanswered(t)) - 1
                                                ELSE Cardinality(Unanswered(t))
      BY <1>2, OpenResults
    <2>4. UNCHANGED sent /\ faults' \in 0 .. MaxFaults /\ faults' >= faults
      BY <1>6, FaultCounted DEF Commit, IInv
    <2>5. w \in Unanswered(t) <=> t \in relay[w].tasks
      BY <1>6 DEF Unanswered, Commit, IInv, ClaimsJustified, ClaimJustified
    <2>6. tasks'[t].attempts = IF w \in Unanswered(t) THEN tasks[t].attempts + 1
                                                      ELSE tasks[t].attempts
      BY <1>6, <2>5, CommitRecords
    <2> QED
      BY <1>1, <2>2, <2>3, <2>4, <2>6 DEF Explained
  <1>7. ASSUME NEW w \in Relays, Die(w) \/ Restart(w)
        PROVE  Explained(t)'
    <2>1. PICK st \in {"idle", "dead"} : relay' = [relay EXCEPT ![w] = NoTx(st)]
      BY <1>7 DEF Die, Restart
    <2>2. Unanswered(t)' = Unanswered(t) \ {w}
      BY <2>1, ClosedResults
    <2>3. /\ Cardinality(Unanswered(t)) \in Nat
          /\ Cardinality(Unanswered(t) \ {w}) = IF w \in Unanswered(t)
                                                THEN Cardinality(Unanswered(t)) - 1
                                                ELSE Cardinality(Unanswered(t))
      BY <1>2, OpenResults
    <2>4. UNCHANGED <<tasks, sent>> /\ faults' = faults + 1
      BY <1>7 DEF Die, Restart, Fault
    <2> QED
      BY <1>1, <2>2, <2>3, <2>4 DEF Explained
  <1>8. ASSUME UNCHANGED <<relay, sent, faults>>
        PROVE  tasks'[t].attempts = tasks[t].attempts
                \/ \E w \in Relays : Loop(w) \/ Die(w) \/ Restart(w)
    <2>1. CASE \E S \in SUBSET Tasks : AddTasks(S)
      BY <2>1 DEF AddTasks
    <2>2. CASE \/ \E S \in SUBSET Tasks : Discard(S)
               \/ \E S \in SUBSET Subscriptions : Unsubscribe(S)
      <3>1. PICK T : tasks' = Without(T)
        BY <2>2 DEF Discard, Unsubscribe
      <3> QED
        BY <3>1, WithoutKeeps
    <2>3. CASE \E x \in Tasks : FallDue(x)
      BY <1>1, <2>3 DEF FallDue, Existing, TaskRow
    <2>4. CASE UNCHANGED tasks
      BY <2>4
    <2> QED
      BY <2>1, <2>2, <2>3, <2>4 DEF Next, vars, Subscribe
  <1> QED
    BY <1>3, <1>4, <1>5, <1>6, <1>7, <1>8 DEF Next, vars, AddTasks, Discard, FallDue,
       Subscribe, Unsubscribe, Loop
=============================================================================
