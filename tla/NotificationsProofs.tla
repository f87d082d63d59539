-------------------------- MODULE NotificationsProofs --------------------------
(***************************************************************************)
(* The outbox process as a whole implements both of its loops, for any     *)
(* number of replicas, records, subscriptions and faults: what is proved   *)
(* of Fanout and of Delivery among the steps they let others take holds    *)
(* when they run together.                                                 *)
(***************************************************************************)
EXTENDS Notifications, FiniteSetTheorems, TLAPS

\* The proofs about the loops, over the tables they share.
FP == INSTANCE FanoutProofs
          WITH tasks <- DOMAIN tasks, relay <- planner, faults <- plannerFaults

DP == INSTANCE DeliveryProofs WITH relay <- sender, faults <- senderFaults

-----------------------------------------------------------------------------
(***************************************************************************)
(* Both proof modules extend their loop's module: what they call by a name *)
(* is what F and D call by it.                                             *)
(***************************************************************************)

LEMMA SameFanoutStates ==
    /\ F!ConstantsAssumption <=> FP!ConstantsAssumption
    /\ F!vars = FP!vars
    /\ F!Stored = FP!Stored
    /\ F!Fault <=> FP!Fault
    /\ \A r : F!Held(r) <=> FP!Held(r)
    /\ \A s : F!Referred(s) <=> FP!Referred(s)
    /\ \A w : F!Broken(w) <=> FP!Broken(w)
    /\ \A S : F!Planned(S) = FP!Planned(S)
    /\ \A S : F!Cardinality(S) = FP!Cardinality(S)
    /\ \A st : F!NoTx(st) = FP!NoTx(st)
    /\ \A row : F!FannedOut(row) = FP!FannedOut(row)
    /\ \A row : F!Failed(row) = FP!Failed(row)
  BY DEF F!ConstantsAssumption, FP!ConstantsAssumption, F!vars, FP!vars, F!Stored,
         FP!Stored, F!Fault, FP!Fault, F!Held, FP!Held, F!Referred, FP!Referred,
         F!Broken, FP!Broken, F!Planned, FP!Planned, F!Cardinality, FP!Cardinality,
         F!NoTx, FP!NoTx, F!FannedOut, FP!FannedOut, F!Failed, FP!Failed

LEMMA SameFanout == (F!Init <=> FP!Init) /\ (F!Next <=> FP!Next)
  <1>1. F!Init <=> FP!Init
    BY SameFanoutStates DEF F!Init, FP!Init
  <1>2. \A r : F!StoreRecord(r) <=> FP!StoreRecord(r)
    BY SameFanoutStates DEF F!StoreRecord, FP!StoreRecord
  <1>3. \A r : F!FallDue(r) <=> FP!FallDue(r)
    BY SameFanoutStates DEF F!FallDue, FP!FallDue
  <1>4. \A r : F!Reset(r) <=> FP!Reset(r)
    BY SameFanoutStates DEF F!Reset, FP!Reset
  <1>5. \A r : F!DeleteRecord(r) <=> FP!DeleteRecord(r)
    BY SameFanoutStates DEF F!DeleteRecord, FP!DeleteRecord
  <1>6. \A s : F!Subscribe(s) <=> FP!Subscribe(s)
    BY SameFanoutStates DEF F!Subscribe, FP!Subscribe
  <1>7. \A S : F!Unsubscribe(S) <=> FP!Unsubscribe(S)
    BY SameFanoutStates DEF F!Unsubscribe, FP!Unsubscribe
  <1>8. \A r : F!Claimable(r) <=> FP!Claimable(r)
    BY SameFanoutStates DEF F!Claimable, FP!Claimable
  <1>9. \A w : F!Claim(w) <=> FP!Claim(w)
    BY <1>8, SameFanoutStates DEF F!Claim, FP!Claim
  <1>10. \A w : F!Plan(w) <=> FP!Plan(w)
    BY SameFanoutStates DEF F!Plan, FP!Plan
  <1>11. \A w : F!PlanFails(w) <=> FP!PlanFails(w)
    BY SameFanoutStates DEF F!PlanFails, FP!PlanFails
  <1>12. \A w : F!WriteTasks(w) <=> FP!WriteTasks(w)
    BY SameFanoutStates DEF F!WriteTasks, FP!WriteTasks
  <1>13. \A w : F!WriteAborts(w) <=> FP!WriteAborts(w)
    BY SameFanoutStates DEF F!WriteAborts, FP!WriteAborts
  <1>14. \A w : F!CommitFannedOut(w) <=> FP!CommitFannedOut(w)
    BY SameFanoutStates DEF F!CommitFannedOut, FP!CommitFannedOut, F!After, FP!After
  <1>15. \A w : F!CommitFailed(w) <=> FP!CommitFailed(w)
    BY SameFanoutStates DEF F!CommitFailed, FP!CommitFailed, F!After, FP!After
  <1>16. \A w : F!Die(w) <=> FP!Die(w)
    BY SameFanoutStates DEF F!Die, FP!Die
  <1>17. \A w : F!Restart(w) <=> FP!Restart(w)
    BY SameFanoutStates DEF F!Restart, FP!Restart
  <1> QED
    BY <1>1, <1>2, <1>3, <1>4, <1>5, <1>6, <1>7, <1>9, <1>10, <1>11, <1>12, <1>13,
       <1>14, <1>15, <1>16, <1>17
    DEF F!Next, FP!Next, F!Loop, FP!Loop, F!Preparing, FP!Preparing

LEMMA SameDeliveryStates ==
    /\ D!ConstantsAssumption <=> DP!ConstantsAssumption
    /\ D!vars = DP!vars
    /\ D!Existing = DP!Existing
    /\ D!Fault <=> DP!Fault
    /\ \A t : D!Locked(t) <=> DP!Locked(t)
    /\ \A T : D!Without(T) = DP!Without(T)
    /\ \A S : D!TasksOf(S) = DP!TasksOf(S)
    /\ \A S : D!Cardinality(S) = DP!Cardinality(S)
    /\ \A st : D!NoTx(st) = DP!NoTx(st)
    /\ \A t : D!HasChat(t) <=> DP!HasChat(t)
    /\ \A w, t : D!Recorded(w, t) = DP!Recorded(w, t)
  BY DEF D!ConstantsAssumption, DP!ConstantsAssumption, D!IsFiniteSet,
         DP!IsFiniteSet, D!vars, DP!vars, D!Existing, DP!Existing,
         D!Fault, DP!Fault, D!Locked, DP!Locked, D!Without, DP!Without,
         D!TasksOf, DP!TasksOf, D!Cardinality, DP!Cardinality, D!NoTx, DP!NoTx,
         D!HasChat, DP!HasChat, D!Recorded, DP!Recorded

LEMMA SameDelivery == (D!Init <=> DP!Init) /\ (D!Next <=> DP!Next)
  <1>1. D!Init <=> DP!Init
    BY SameDeliveryStates DEF D!Init, DP!Init
  <1>2. \A S : D!AddTasks(S) <=> DP!AddTasks(S)
    BY SameDeliveryStates DEF D!AddTasks, DP!AddTasks
  <1>3. \A T : D!Discard(T) <=> DP!Discard(T)
    BY SameDeliveryStates DEF D!Discard, DP!Discard
  <1>4. \A t : D!FallDue(t) <=> DP!FallDue(t)
    BY SameDeliveryStates DEF D!FallDue, DP!FallDue
  <1>5. \A s : D!Subscribe(s) <=> DP!Subscribe(s)
    BY SameDeliveryStates DEF D!Subscribe, DP!Subscribe
  <1>6. \A S : D!Unsubscribe(S) <=> DP!Unsubscribe(S)
    BY SameDeliveryStates DEF D!Unsubscribe, DP!Unsubscribe
  <1>7. \A t : D!Claimable(t) <=> DP!Claimable(t)
    BY SameDeliveryStates DEF D!Claimable, DP!Claimable
  <1>8. \A w : D!Claim(w) <=> DP!Claim(w)
    BY <1>7, SameDeliveryStates DEF D!Claim, DP!Claim
  <1>9. \A w : D!Resolve(w) <=> DP!Resolve(w)
    BY SameDeliveryStates DEF D!Resolve, DP!Resolve
  <1>10. \A w : D!Publish(w) <=> DP!Publish(w)
    BY SameDeliveryStates DEF D!Publish, DP!Publish
  <1>11. \A w : D!Commit(w) <=> DP!Commit(w)
    BY SameDeliveryStates DEF D!Commit, DP!Commit
  <1>12. \A w : D!Die(w) <=> DP!Die(w)
    BY SameDeliveryStates DEF D!Die, DP!Die
  <1>13. \A w : D!Restart(w) <=> DP!Restart(w)
    BY SameDeliveryStates DEF D!Restart, DP!Restart
  <1> QED
    BY <1>1, <1>2, <1>3, <1>4, <1>5, <1>6, <1>8, <1>9, <1>10, <1>11, <1>12, <1>13
    DEF D!Next, DP!Next, D!Loop, DP!Loop

-----------------------------------------------------------------------------
(***************************************************************************)
(* The loops' invariants say nothing of messages that were sent for a task *)
(* before it was deleted.  MessagesExplained does: whoever has had one for *)
(* a task that is gone can never have a new task for the same record.      *)
(***************************************************************************)
Rows == tasks = [t \in DOMAIN tasks |-> tasks[t]]

NeverAgain(t) == t[2] \in ended \/ (t[1] \in edited /\ t[1] \notin DOMAIN outbox)

MessagesExplained ==
    /\ \A t \in DOMAIN tasks : DP!Explained(t)
    /\ \A t \in Tasks : t \notin DOMAIN tasks /\ sent[t] > 0 => NeverAgain(t)

LoopsInv == FP!IInv /\ DP!IInv /\ Rows

IInv == LoopsInv /\ MessagesExplained

-----------------------------------------------------------------------------
LEMMA Constants == FP!ConstantsAssumption /\ DP!ConstantsAssumption
  BY LoopsAssumption, SameFanoutStates, SameDeliveryStates

\* What the types of both loops say of the tables they share.
LEMMA Tables ==
    ASSUME LoopsInv
    PROVE  /\ DOMAIN tasks \subseteq Tasks
           /\ \A w \in Relays : planner[w].plan \subseteq Tasks
  BY DEF LoopsInv, FP!IInv, DP!IInv, DP!TypeOK, DP!Existing, FP!TypeOK, FP!Relay, FP!Task, Tasks

\* A plan that is written is new to the table, and its subscriptions exist.
LEMMA WrittenIsNew ==
    ASSUME LoopsInv, NEW w \in Relays, planner[w].stage = "written"
    PROVE  /\ planner[w].plan \cap DOMAIN tasks = {}
           /\ \A t \in planner[w].plan :
                 /\ SubscriptionOf[t] = t[2] /\ t[2] \in subscriptions
                 /\ t[1] \in planner[w].records /\ t[1] \in DOMAIN outbox
  <1>1. FP!PlanJustified(w)
    BY DEF LoopsInv, FP!IInv, FP!PlansJustified
  <1>2. \A t \in planner[w].plan : t[1] \in planner[w].records /\ t[2] \in subscriptions
                                /\ t \notin DOMAIN tasks
    BY <1>1 DEF FP!PlanJustified
  <1>3. \A r \in planner[w].records : r \in DOMAIN outbox
    BY DEF LoopsInv, FP!IInv, FP!ClaimsExclusive, FP!Stored
  <1>4. \A t \in planner[w].plan : SubscriptionOf[t] = t[2]
    BY Tables DEF SubscriptionOf
  <1> QED
    BY <1>2, <1>3, <1>4

(***************************************************************************)
(* The commit of a fan-out is the one step whose effect on the table the   *)
(* loops see differently: new tasks for one, new rows for the other, or    *)
(* nothing at all when all of its tasks were there already.                *)
(***************************************************************************)
LEMMA CommitAddsRows ==
    ASSUME LoopsInv, NEW w \in Relays, CommitFannedOut(w)
    PROVE  D!AddTasks(planner[w].plan) \/ UNCHANGED D!vars
  <1>1. planner[w].stage = "written" /\ UNCHANGED subscriptions
    BY DEF CommitFannedOut, F!CommitFannedOut, F!After
  <1>2. CASE planner[w].plan = {}
    <2>1. tasks' = tasks
      BY <1>2 DEF CommitFannedOut, LoopsInv, Rows
    <2> QED
      BY <1>1, <2>1 DEF CommitFannedOut, deliveryOnly, D!vars
  <1>3. CASE planner[w].plan # {}
    BY <1>1, <1>3, WrittenIsNew DEF CommitFannedOut, deliveryOnly, D!AddTasks, D!Existing
  <1> QED
    BY <1>2, <1>3

\* A task's row is deleted with its record.
LEMMA TasksOfRecord ==
    ASSUME LoopsInv, NEW r \in Records, DeleteRecord(r)
    PROVE  \E T \in SUBSET Tasks : D!Discard(T)
  BY Tables DEF DeleteRecord

\* Every step of the composed system is one of the delivery loop's steps, or
\* changes nothing that loop sees.
LEMMA DeliverySteps ==
    ASSUME LoopsInv, [Next]_vars
    PROVE  [D!Next]_(D!vars)
  <1>1. ASSUME NEW r \in Records, UNCHANGED <<tasks, deliveryOnly>>,
               F!StoreRecord(r) \/ F!Reset(r) \/ F!FallDue(r)
        PROVE  UNCHANGED D!vars
    BY <1>1 DEF F!StoreRecord, F!Reset, F!FallDue, deliveryOnly, D!vars
  <1>2. ASSUME NEW r \in Records, DeleteRecord(r)
        PROVE  D!Next
    BY <1>2, TasksOfRecord DEF D!Next
  <1>3. ASSUME NEW s \in Subscriptions, Subscribe(s)
        PROVE  D!Next
    BY <1>3 DEF Subscribe, D!Next
  <1>4. ASSUME NEW S \in SUBSET Subscriptions, Unsubscribe(S)
        PROVE  D!Next
    BY <1>4 DEF Unsubscribe, D!Next
  <1>5. ASSUME NEW r \in Records, NEW t \in Tasks, Wait(t, r)
        PROVE  D!Next \/ UNCHANGED D!vars
    BY <1>1, <1>5 DEF Wait, D!Next
  <1>6. ASSUME NEW w \in Relays, UNCHANGED <<tasks, deliveryOnly>>,
               F!Preparing(w) \/ F!Die(w)
        PROVE  UNCHANGED D!vars
    <2>1. UNCHANGED subscriptions
      BY <1>6 DEF F!Preparing, F!Die, F!Claim, F!Plan, F!PlanFails, F!WriteTasks,
                  F!WriteAborts, F!CommitFailed, F!After
    <2> QED
      BY <1>6, <2>1 DEF deliveryOnly, D!vars
  <1>7. ASSUME NEW w \in Relays, CommitFannedOut(w)
        PROVE  D!Next \/ UNCHANGED D!vars
    BY <1>7, CommitAddsRows, Tables DEF D!Next
  <1>8. ASSUME NEW w \in Relays, DeliveryLoop(w) \/ D!Die(w) \/ Restart(w)
        PROVE  D!Next
    BY <1>8 DEF DeliveryLoop, Restart, D!Next
  <1>9. CASE UNCHANGED vars
    BY <1>9 DEF vars, deliveryOnly, D!vars
  <1> QED
    BY <1>1, <1>2, <1>3, <1>4, <1>5, <1>6, <1>7, <1>8, <1>9 DEF Next, FanoutLoop

\* And so for the fan-out: the other loop updates rows and adds or deletes none.
LEMMA FanoutSteps ==
    ASSUME LoopsInv, [Next]_vars
    PROVE  [F!Next]_(F!vars)
  <1>1. ASSUME UNCHANGED fanoutOnly, UNCHANGED subscriptions, (DOMAIN tasks)' = DOMAIN tasks
        PROVE  UNCHANGED F!vars
    BY <1>1 DEF fanoutOnly, F!vars
  <1>2. ASSUME NEW r \in Records, F!StoreRecord(r) \/ F!Reset(r) \/ DeleteRecord(r)
        PROVE  F!Next
    BY <1>2 DEF DeleteRecord, F!Next
  <1>3. ASSUME NEW s \in Subscriptions, Subscribe(s)
        PROVE  F!Next
    BY <1>3 DEF Subscribe, F!Next
  <1>4. ASSUME NEW S \in SUBSET Subscriptions, Unsubscribe(S)
        PROVE  F!Next
    BY <1>4 DEF Unsubscribe, F!Next
  <1>5. ASSUME NEW r \in Records, NEW t \in Tasks, Wait(t, r)
        PROVE  F!Next \/ UNCHANGED F!vars
    <2>1. CASE F!FallDue(r)
      BY <2>1 DEF F!Next
    <2>2. CASE UNCHANGED fanoutOnly /\ D!FallDue(t)
      BY <1>1, <2>2 DEF D!FallDue
    <2> QED
      BY <1>5, <2>1, <2>2 DEF Wait
  <1>6. ASSUME NEW w \in Relays, FanoutLoop(w) \/ F!Die(w) \/ Restart(w)
        PROVE  F!Next
    BY <1>6 DEF FanoutLoop, CommitFannedOut, Restart, F!Loop, F!Next
  <1>7. ASSUME NEW w \in Relays, UNCHANGED fanoutOnly, D!Loop(w) \/ D!Die(w)
        PROVE  UNCHANGED F!vars
    <2>1. UNCHANGED subscriptions
      BY <1>7 DEF D!Loop, D!Die, D!Claim, D!Resolve, D!Publish, D!Commit
    <2>2. (DOMAIN tasks)' = DOMAIN tasks
      BY <1>7 DEF D!Loop, D!Die, D!Claim, D!Resolve, D!Publish, D!Commit, D!Existing
    <2> QED
      BY <1>1, <1>7, <2>1, <2>2
  <1>8. CASE UNCHANGED vars
    BY <1>8 DEF vars, fanoutOnly, F!vars
  <1> QED
    BY <1>2, <1>3, <1>4, <1>5, <1>6, <1>7, <1>8 DEF Next, DeliveryLoop

LEMMA SameSteps ==
    /\ [F!Next]_(F!vars) <=> [FP!Next]_(FP!vars)
    /\ [D!Next]_(D!vars) <=> [DP!Next]_(DP!vars)
  <1>1. (UNCHANGED F!vars <=> UNCHANGED FP!vars) /\ (UNCHANGED D!vars <=> UNCHANGED DP!vars)
    BY DEF F!vars, FP!vars, D!vars, DP!vars
  <1> QED
    BY <1>1, SameFanout, SameDelivery

LEMMA LoopSpecs == (F!Spec <=> FP!Spec) /\ (D!Spec <=> DP!Spec)
  BY SameSteps, SameFanout, SameDelivery, PTL DEF F!Spec, FP!Spec, D!Spec, DP!Spec

-----------------------------------------------------------------------------
(***************************************************************************)
(* The invariant of the composed system.                                   *)
(***************************************************************************)
LEMMA RowsStay ==
    ASSUME Rows, [D!Next]_(D!vars)
    PROVE  Rows'
  <1>1. CASE UNCHANGED tasks
    BY <1>1 DEF Rows
  <1>2. CASE \E S \in SUBSET Tasks : D!AddTasks(S)
    BY <1>2 DEF D!AddTasks, Rows
  <1>3. CASE \E T : tasks' = D!Without(T)
    BY <1>3 DEF D!Without, Rows
  <1>4. CASE \E t \in Tasks : D!FallDue(t)
    BY <1>4 DEF D!FallDue, Rows
  <1>5. CASE \E w \in Relays : D!Commit(w)
    BY <1>5 DEF D!Commit, Rows
  <1> QED
    BY <1>1, <1>2, <1>3, <1>4, <1>5 DEF D!Next, D!vars, D!Discard, D!Subscribe,
       D!Unsubscribe, D!Loop, D!Claim, D!Resolve, D!Publish, D!Die, D!Restart

LEMMA LoopsInductive ==
    ASSUME LoopsInv, [Next]_vars
    PROVE  LoopsInv'
  <1>1. [FP!Next]_(FP!vars) /\ [DP!Next]_(DP!vars)
    BY FanoutSteps, DeliverySteps, SameSteps
  <1>2. FP!IInv'
    BY <1>1, Constants, FP!Inductive DEF LoopsInv
  <1>3. DP!IInv'
    BY <1>1, Constants, DP!Inductive DEF LoopsInv
  <1>4. Rows'
    BY DeliverySteps, RowsStay DEF LoopsInv
  <1> QED
    BY <1>2, <1>3, <1>4 DEF LoopsInv

\* A deleted subscription does not come back, and a deleted record is not
\* stored again.
LEMMA NeverAgainStays ==
    ASSUME [F!Next]_(F!vars), NEW t, NeverAgain(t)
    PROVE  NeverAgain(t)'
  <1>1. ASSUME NEW r \in Records, F!StoreRecord(r)
        PROVE  NeverAgain(t)'
    BY <1>1 DEF F!StoreRecord, F!Stored, NeverAgain
  <1>2. ASSUME NEW r \in Records, F!FallDue(r) \/ F!Reset(r) \/ F!DeleteRecord(r)
        PROVE  NeverAgain(t)'
    BY <1>2 DEF F!FallDue, F!Reset, F!DeleteRecord, F!Stored, NeverAgain
  <1>3. CASE \/ \E s \in Subscriptions : F!Subscribe(s)
             \/ \E S \in SUBSET Subscriptions : F!Unsubscribe(S)
    BY <1>3 DEF F!Subscribe, F!Unsubscribe, NeverAgain
  <1>4. ASSUME NEW w \in Relays, F!Loop(w) \/ F!Die(w) \/ F!Restart(w)
        PROVE  NeverAgain(t)'
    <2>1. UNCHANGED <<ended, edited>>
      BY <1>4 DEF F!Loop, F!Preparing, F!Die, F!Restart, F!Claim, F!Plan, F!PlanFails,
                  F!WriteTasks, F!WriteAborts, F!CommitFailed, F!CommitFannedOut, F!After
    <2>2. (DOMAIN outbox)' = DOMAIN outbox
      BY <1>4 DEF F!Loop, F!Preparing, F!Die, F!Restart, F!Claim, F!Plan, F!PlanFails,
                  F!WriteTasks, F!WriteAborts, F!CommitFailed, F!CommitFannedOut, F!After,
                  F!Stored
    <2> QED
      BY <2>1, <2>2 DEF NeverAgain
  <1>5. CASE UNCHANGED F!vars
    BY <1>5 DEF F!vars, NeverAgain
  <1> QED
    BY <1>1, <1>2, <1>3, <1>4, <1>5 DEF F!Next

\* Tasks only come with the commit of a fan-out, ...
LEMMA NewTasks ==
    ASSUME LoopsInv, [Next]_vars, NEW t, t \in (DOMAIN tasks)', t \notin DOMAIN tasks
    PROVE  \E w \in Relays : CommitFannedOut(w) /\ t \in planner[w].plan
  <1>1. ASSUME NEW w \in Relays, DeliveryLoop(w) \/ D!Die(w) \/ Restart(w)
        PROVE  (DOMAIN tasks)' = DOMAIN tasks
    BY <1>1 DEF DeliveryLoop, Restart, D!Loop, D!Claim, D!Resolve, D!Publish, D!Commit,
                D!Existing, D!Die, D!Restart
  <1>2. ASSUME NEW r \in Records, NEW x \in Tasks, Wait(x, r)
        PROVE  (DOMAIN tasks)' = DOMAIN tasks
    BY <1>2 DEF Wait, D!FallDue
  <1>3. ASSUME NEW r \in Records, DeleteRecord(r)
        PROVE  (DOMAIN tasks)' \subseteq DOMAIN tasks
    BY <1>3 DEF DeleteRecord, D!Discard, D!Without, D!Existing
  <1>4. ASSUME NEW S \in SUBSET Subscriptions, Unsubscribe(S)
        PROVE  (DOMAIN tasks)' \subseteq DOMAIN tasks
    BY <1>4 DEF Unsubscribe, D!Unsubscribe, D!Without, D!Existing
  <1>5. ASSUME NEW s \in Subscriptions, Subscribe(s)
        PROVE  (DOMAIN tasks)' = DOMAIN tasks
    BY <1>5 DEF Subscribe, D!Subscribe
  <1>6. ASSUME NEW w \in Relays, CommitFannedOut(w)
        PROVE  t \in planner[w].plan
    BY <1>6 DEF CommitFannedOut
  <1>7. ~UNCHANGED tasks
    OBVIOUS
  <1> QED
    BY <1>1, <1>2, <1>3, <1>4, <1>5, <1>6, <1>7 DEF Next, vars, FanoutLoop

\* ... and only go for good: with their subscription or with their record.
LEMMA LostTasks ==
    ASSUME LoopsInv, [Next]_vars, NEW t \in DOMAIN tasks, t \notin (DOMAIN tasks)'
    PROVE  NeverAgain(t)'
  <1>1. ASSUME NEW w \in Relays, DeliveryLoop(w) \/ D!Die(w) \/ Restart(w)
        PROVE  (DOMAIN tasks)' = DOMAIN tasks
    BY <1>1 DEF DeliveryLoop, Restart, D!Loop, D!Claim, D!Resolve, D!Publish, D!Commit,
                D!Existing, D!Die, D!Restart
  <1>2. ASSUME NEW r \in Records, NEW x \in Tasks, Wait(x, r)
        PROVE  (DOMAIN tasks)' = DOMAIN tasks
    BY <1>2 DEF Wait, D!FallDue
  <1>3. ASSUME NEW r \in Records, DeleteRecord(r)
        PROVE  NeverAgain(t)'
    <2>1. (DOMAIN tasks)' = DOMAIN tasks \ {x \in DOMAIN tasks : x[1] = r}
      BY <1>3 DEF DeleteRecord, D!Discard, D!Without, D!Existing
    <2>2. r \in edited' /\ r \notin (DOMAIN outbox)'
      BY <1>3 DEF DeleteRecord, F!DeleteRecord, F!Stored
    <2> QED
      BY <2>1, <2>2 DEF NeverAgain
  <1>4. ASSUME NEW S \in SUBSET Subscriptions, Unsubscribe(S)
        PROVE  NeverAgain(t)'
    <2>1. (DOMAIN tasks)' = DOMAIN tasks \ {x \in DOMAIN tasks : SubscriptionOf[x] \in S}
      BY <1>4 DEF Unsubscribe, D!Unsubscribe, D!Without, D!TasksOf, D!Existing
    <2>2. SubscriptionOf[t] = t[2]
      BY Tables DEF SubscriptionOf
    <2>3. S \subseteq ended'
      BY <1>4 DEF Unsubscribe, F!Unsubscribe
    <2> QED
      BY <2>1, <2>2, <2>3 DEF NeverAgain
  <1>5. ASSUME NEW s \in Subscriptions, Subscribe(s)
        PROVE  (DOMAIN tasks)' = DOMAIN tasks
    BY <1>5 DEF Subscribe, D!Subscribe
  <1>6. ASSUME NEW w \in Relays, CommitFannedOut(w)
        PROVE  DOMAIN tasks \subseteq (DOMAIN tasks)'
    BY <1>6 DEF CommitFannedOut
  <1>7. ~UNCHANGED tasks
    OBVIOUS
  <1> QED
    BY <1>1, <1>2, <1>3, <1>4, <1>5, <1>6, <1>7 DEF Next, vars, FanoutLoop

\* A new task is for somebody who has had no message of that record.
LEMMA NewTasksUnsent ==
    ASSUME IInv, [Next]_vars, NEW t, t \in (DOMAIN tasks)', t \notin DOMAIN tasks
    PROVE  DP!Explained(t)'
  <1>1. PICK w \in Relays : CommitFannedOut(w) /\ t \in planner[w].plan
    BY NewTasks DEF IInv
  <1>2. t[2] \in subscriptions /\ t[1] \in DOMAIN outbox /\ t \in Tasks
    BY <1>1, WrittenIsNew, Tables DEF IInv, CommitFannedOut, F!CommitFannedOut
  <1>3. ended \cap subscriptions = {}
    BY DEF IInv, LoopsInv, FP!IInv, FP!TypeOK
  <1>4. sent[t] = 0
    <2>1. sent[t] \in Nat
      BY <1>2 DEF IInv, LoopsInv, DP!IInv, DP!TypeOK
    <2>2. ~(sent[t] > 0)
      BY <1>2, <1>3 DEF IInv, MessagesExplained, NeverAgain
    <2> QED
      BY <2>1, <2>2
  <1>5. tasks'[t].attempts = 0 /\ UNCHANGED <<sender, sent, senderFaults>>
    BY <1>1 DEF CommitFannedOut, deliveryOnly
  <1>6. senderFaults \in Nat
    BY DEF IInv, LoopsInv, DP!IInv, DP!TypeOK
  <1>7. DP!Cardinality(DP!Unanswered(t)) \in Nat
    <2>1. DP!Unanswered(t) \in SUBSET Relays
      BY DEF DP!Unanswered
    <2>2. w \in Relays
      BY <1>1
    <2> QED
      BY <2>1, <2>2, Constants, DP!OpenResults
  <1>8. DP!Unanswered(t)' = DP!Unanswered(t)
    BY <1>5 DEF DP!Unanswered
  <1> QED
    BY <1>4, <1>5, <1>6, <1>7, <1>8 DEF DP!Explained

LEMMA Inductive ==
    ASSUME IInv, [Next]_vars
    PROVE  IInv'
  <1>1. LoopsInv'
    BY LoopsInductive DEF IInv
  <1>2. [F!Next]_(F!vars) /\ [DP!Next]_(DP!vars) /\ DP!IInv
    BY FanoutSteps, DeliverySteps, SameSteps DEF IInv, LoopsInv
  <1>3. ASSUME NEW t \in DOMAIN tasks, t \in (DOMAIN tasks)'
        PROVE  DP!Explained(t)'
    <2>1. t \in DP!Existing /\ t \in DP!Existing'
      BY <1>3 DEF DP!Existing
    <2>2. DP!Explained(t)
      BY DEF IInv, MessagesExplained
    <2> QED
      BY <1>2, <2>1, <2>2, Constants, DP!ExplainedStays
  <1>4. ASSUME NEW t \in Tasks, t \notin (DOMAIN tasks)', sent'[t] > 0
        PROVE  NeverAgain(t)'
    <2>1. CASE t \in DOMAIN tasks
      BY <2>1, <1>4, LostTasks DEF IInv
    <2>2. CASE t \notin DOMAIN tasks
      <3>1. sent'[t] = sent[t]
        BY <1>2, <2>2, DP!OnlyClaimedAreSent DEF DP!Existing
      <3>2. NeverAgain(t)
        BY <1>4, <2>2, <3>1 DEF IInv, MessagesExplained
      <3> QED
        BY <1>2, <3>2, NeverAgainStays
    <2> QED
      BY <2>1, <2>2
  <1>5. MessagesExplained'
    BY <1>3, <1>4, NewTasksUnsent DEF MessagesExplained
  <1> QED
    BY <1>1, <1>5 DEF IInv

LEMMA Initially ==
    ASSUME Init
    PROVE  IInv
  <1>1. FP!IInv /\ DP!IInv
    BY Constants, SameFanout, SameDelivery, FP!Initially, DP!Initially DEF Init
  <1>2. Rows /\ DOMAIN tasks = {}
    BY DEF Init, Rows
  <1>3. \A t \in Tasks : sent[t] = 0
    BY DEF Init, D!Init
  <1> QED
    BY <1>1, <1>2, <1>3 DEF IInv, LoopsInv, MessagesExplained

-----------------------------------------------------------------------------
\* At every moment of every run the tables, the open transactions of both loops
\* and the messages that are out agree.
THEOREM Invariance == Spec => []IInv
  <1>1. Init => IInv
    BY Initially
  <1>2. IInv /\ [Next]_vars => IInv'
    BY Inductive
  <1> QED
    BY <1>1, <1>2, PTL DEF Spec

\* Refinement: whatever the relay, the other loop, the admin and PostgreSQL do
\* is, seen from either loop, a step its own specification allows for.
THEOREM BothLoopsImplemented == Spec => ImplementsLoops
  <1>1. Init => F!Init /\ D!Init
    BY DEF Init
  <1>2. IInv /\ [Next]_vars => [F!Next]_(F!vars) /\ [D!Next]_(D!vars)
    BY FanoutSteps, DeliverySteps DEF IInv
  <1> QED
    BY <1>1, <1>2, Invariance, PTL DEF Spec, F!Spec, D!Spec, ImplementsLoops

(***************************************************************************)
(* What is proved of each loop on its own holds of the whole.              *)
(***************************************************************************)

\* The tables, the transactions and the histories have their types, and no
\* record is in two transactions or claimed although it is fanned out.
THEOREM TypeCorrect == Spec => []TypeOK
  <1>1. IInv => TypeOK
    <2>1. FP!TypeOK /\ FP!ClaimsExclusive => F!TypeOK /\ F!ClaimsExclusive
      BY DEF FP!TypeOK, F!TypeOK, FP!ClaimsExclusive, F!ClaimsExclusive, FP!Stored, F!Stored,
             FP!OutboxRow, F!OutboxRow, FP!Task, F!Task, FP!Relay, F!Relay
    <2>2. DP!TypeOK => D!TypeOK
      BY DEF DP!TypeOK, D!TypeOK, DP!Existing, D!Existing, DP!TaskRow, D!TaskRow,
             DP!Relay, D!Relay
    <2> QED
      BY <2>1, <2>2 DEF IInv, LoopsInv, FP!IInv, DP!IInv, TypeOK
  <1> QED
    BY <1>1, Invariance, PTL

\* Whoever was subscribed all along has a task for every record marked fanned
\* out, whatever deliveries, deletions and restarts go on beside it.
THEOREM NobodyForgotten == Spec => []FannedOutComplete
  <1>1. FP!FannedOutComplete <=> FannedOutComplete
    BY DEF FP!FannedOutComplete, FannedOutComplete, F!FannedOutComplete, FP!Stored, F!Stored
  <1> QED
    BY <1>1, BothLoopsImplemented, LoopSpecs, Constants, FP!NobodyForgotten, PTL
    DEF ImplementsLoops

\* No task is left without its record, its record's flag or its subscription.
THEOREM NoTaskAstray == Spec => []TasksOfFannedOut
  <1>1. FP!TasksOfFannedOut <=> TasksOfFannedOut
    BY DEF FP!TasksOfFannedOut, TasksOfFannedOut, F!TasksOfFannedOut, FP!Stored, F!Stored
  <1> QED
    BY <1>1, BothLoopsImplemented, LoopSpecs, Constants, FP!NoTaskAstray, PTL
    DEF ImplementsLoops

\* A task that is marked published reached Telegram.
THEOREM PublishedReachedTelegram == Spec => []PublishedWasSent
  <1>1. DP!PublishedWasSent <=> PublishedWasSent
    BY DEF DP!PublishedWasSent, PublishedWasSent, D!PublishedWasSent, DP!Existing, D!Existing
  <1> QED
    BY <1>1, BothLoopsImplemented, LoopSpecs, Constants, DP!PublishedReachedTelegram, PTL
    DEF ImplementsLoops

\* No claimed task loses its chat before the transaction ends.
THEOREM NothingSkipped == Spec => []NoTaskSkipped
  <1>1. DP!NoTaskSkipped <=> NoTaskSkipped
    BY DEF DP!NoTaskSkipped, NoTaskSkipped, D!NoTaskSkipped, DP!Existing, D!Existing
  <1> QED
    BY <1>1, BothLoopsImplemented, LoopSpecs, Constants, DP!NothingSkipped, PTL
    DEF ImplementsLoops

\* A message that is marked published is never sent again, also when the admin
\* resets its record and it is fanned out anew.
THEOREM PublishedForGood == Spec => NotSentAgain
  <1> DEFINE Kept == \A t \in DOMAIN tasks : tasks[t].published =>
                        /\ sent'[t] = sent[t]
                        /\ t \in (DOMAIN tasks)' => tasks'[t].published
  <1>1. IInv /\ [Next]_vars => [Kept]_(D!vars)
    <2> SUFFICES ASSUME IInv, [Next]_vars, NEW t \in DOMAIN tasks, tasks[t].published
                 PROVE  /\ sent'[t] = sent[t]
                        /\ t \in (DOMAIN tasks)' => tasks'[t].published
      OBVIOUS
    <2>1. [DP!Next]_(DP!vars) /\ DP!IInv
      BY DeliverySteps, SameSteps DEF IInv, LoopsInv
    <2>2. t \in Tasks
      BY Tables DEF IInv
    <2>3. sent'[t] = sent[t]
      BY <2>1, <2>2, DP!OnlyClaimedAreSent
    <2>4. t \in (DOMAIN tasks)' => tasks'[t].published
      BY <2>1, Constants, DP!MarkStays DEF DP!Existing
    <2> QED
      BY <2>3, <2>4
  <1>2. NotSentAgain <=> [][Kept]_(D!vars)
    BY DEF NotSentAgain, D!NotSentAgain, D!Existing
  <1> HIDE DEF Kept
  <1> QED
    BY <1>1, <1>2, Invariance, PTL DEF Spec

(***************************************************************************)
(* What takes both loops to show.                                          *)
(***************************************************************************)

\* There are never more messages of a task than recorded attempts, faults and
\* results still open.  The delivery loop cannot promise that alone: it has to
\* know that no task comes back after it was deleted.
THEOREM EveryMessageExplained == Spec => []RepeatsExplained
  <1>1. IInv => RepeatsExplained
    <2>1. \A t : D!Cardinality(DP!Unanswered(t)) = DP!Cardinality(DP!Unanswered(t))
      BY SameDeliveryStates
    <2> QED
      BY <2>1 DEF IInv, MessagesExplained, RepeatsExplained, D!RepeatsExplained,
                  D!Existing, DP!Explained, DP!Unanswered
  <1> QED
    BY <1>1, Invariance, PTL

\* Whatever goes out is for a record that was fanned out, to somebody who is
\* subscribed at that moment: the sending loop relies on the claim alone, the
\* other loop and the locks see to the rest.
THEOREM OnlySubscribersHear == Spec => SentToSubscribers
  <1> DEFINE Heard == \A t \in Tasks : sent'[t] # sent[t] =>
                         /\ t[1] \in DOMAIN outbox
                         /\ outbox[t[1]].fanned_out \/ t[1] \in edited
                         /\ t[2] \in subscriptions \cap Wanted[t[1]]
  <1>1. IInv /\ [Next]_vars => [Heard]_vars
    <2> SUFFICES ASSUME IInv, [Next]_vars, NEW t \in Tasks, sent'[t] # sent[t]
                 PROVE  /\ t[1] \in DOMAIN outbox
                        /\ outbox[t[1]].fanned_out \/ t[1] \in edited
                        /\ t[2] \in subscriptions \cap Wanted[t[1]]
      OBVIOUS
    <2>1. [DP!Next]_(DP!vars) /\ DP!IInv
      BY DeliverySteps, SameSteps DEF IInv, LoopsInv
    <2>2. t \in DOMAIN tasks
      BY <2>1, DP!OnlyClaimedAreSent DEF DP!Existing
    <2>3. FP!TasksOfFannedOut
      BY DEF IInv, LoopsInv, FP!IInv
    <2> QED
      BY <2>2, <2>3 DEF FP!TasksOfFannedOut, FP!Stored
  <1>2. SentToSubscribers <=> [][Heard]_vars
    BY DEF SentToSubscribers
  <1> HIDE DEF Heard
  <1> QED
    BY <1>1, <1>2, Invariance, PTL DEF Spec
===============================================================================
