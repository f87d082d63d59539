----------------------------- MODULE FanoutProofs -----------------------------
(***************************************************************************)
(* The fan-out of outbox records, for any number of relays, records,       *)
(* subscriptions and faults and any batch size: no record is in two        *)
(* transactions, nobody is forgotten, and no task is left without the flag *)
(* of its record or without its subscription.                              *)
(***************************************************************************)
EXTENDS Fanout, TLAPS

(***************************************************************************)
(* The promises speak of what is committed.  What a commit brings was      *)
(* decided some steps earlier, in a transaction that others cannot see:    *)
(* PlanJustified says what it knows of the tables at each stage.  A plan   *)
(* may come to name subscriptions that are gone, until it is written.      *)
(***************************************************************************)
\* Who was subscribed from the beginning and still is was never away.
EarlyStays == Early \subseteq subscriptions \cup ended

\* Who was subscribed all along and wants the record.
Owed(r) == Wanted[r] \cap Early \cap subscriptions

PlanJustified(w) ==
    /\ relay[w].stage \in {"idle", "dead"} => relay[w].records = {}
    /\ relay[w].stage \notin {"planned", "written"} => relay[w].plan = {}
    /\ \A r \in relay[w].records : outbox[r].attempts < MaxAttempts
    /\ \A t \in relay[w].plan : t[1] \in relay[w].records /\ t[2] \in Wanted[t[1]]
    /\ relay[w].stage = "planned" =>
          \A r \in relay[w].records : \A s \in Owed(r) : <<r, s>> \in relay[w].plan
    /\ relay[w].stage = "written" =>
          /\ \A t \in relay[w].plan : t[2] \in subscriptions /\ t \notin tasks
          /\ \A r \in relay[w].records : \A s \in Owed(r) :
                <<r, s>> \in relay[w].plan \cup tasks

PlansJustified == \A w \in Relays : PlanJustified(w)

IInv ==
    /\ TypeOK /\ ClaimsExclusive
    /\ FannedOutComplete /\ TasksOfFannedOut
    /\ EarlyStays /\ PlansJustified

-----------------------------------------------------------------------------
\* The state of a transaction that is over is one of the relay's states.
LEMMA NoTxTyped ==
    ASSUME NEW st \in {"idle", "dead"}
    PROVE  NoTx(st) \in Relay /\ NoTx(st).records = {} /\ NoTx(st).plan = {}
                             /\ NoTx(st).stage = st
  BY DEF NoTx, Relay

\* A task is a pair of its record and its subscription.
LEMMA TaskIsPair ==
    ASSUME NEW t \in Task
    PROVE  t = <<t[1], t[2]>> /\ t[1] \in Records /\ t[2] \in Subscriptions
  BY DEF Task

\* Nobody who is subscribed from the beginning can come back.
LEMMA OwedShrinks ==
    ASSUME EarlyStays, NEW r,
           \/ UNCHANGED subscriptions
           \/ \E s \in Subscriptions : Subscribe(s)
           \/ \E S \in SUBSET Subscriptions : Unsubscribe(S)
    PROVE  Owed(r)' \subseteq Owed(r)
  BY DEF EarlyStays, Owed, Subscribe, Unsubscribe

\* A step in which one relay goes on and no table changes keeps the invariant,
\* if what the relay has in hand afterwards is justified and nobody else's.
LEMMA RelayStep ==
    ASSUME IInv, NEW w \in Relays, NEW tx \in Relay,
           relay' = [relay EXCEPT ![w] = tx],
           UNCHANGED <<outbox, edited, subscriptions, ended, tasks>>,
           faults' \in 0 .. MaxFaults,
           \A r \in tx.records :
               /\ r \in Stored /\ ~outbox[r].fanned_out
               /\ \A v \in Relays : v # w => r \notin relay[v].records,
           PlanJustified(w)'
    PROVE  IInv'
  <1>1. /\ relay'[w] = tx
        /\ \A v \in Relays : v # w => relay'[v] = relay[v]
        /\ relay' \in [Relays -> Relay]
    BY DEF IInv, TypeOK
  <1>2. TypeOK'
    BY <1>1 DEF IInv, TypeOK, Stored
  <1>3. ClaimsExclusive'
    <2>1. ASSUME NEW v \in Relays, NEW u \in Relays, v # u
          PROVE  relay'[v].records \cap relay'[u].records = {}
      BY <1>1, <2>1 DEF IInv, ClaimsExclusive
    <2>2. ASSUME NEW v \in Relays, NEW r \in relay'[v].records
          PROVE  r \in Stored' /\ ~outbox'[r].fanned_out
      BY <1>1 DEF IInv, ClaimsExclusive, Stored
    <2> QED
      BY <2>1, <2>2 DEF ClaimsExclusive
  <1>4. FannedOutComplete' /\ TasksOfFannedOut' /\ EarlyStays'
    BY DEF IInv, FannedOutComplete, TasksOfFannedOut, EarlyStays, Stored
  <1>5. PlansJustified'
    <2>1. ASSUME NEW v \in Relays, v # w
          PROVE  PlanJustified(v)'
      BY <1>1, <2>1 DEF IInv, PlansJustified, PlanJustified, Owed
    <2> QED
      BY <2>1 DEF PlansJustified
  <1> QED
    BY <1>2, <1>3, <1>4, <1>5 DEF IInv

\* In particular when a transaction is rolled back.
LEMMA RollbackStep ==
    ASSUME IInv, NEW w \in Relays, NEW st \in {"idle", "dead"},
           relay' = [relay EXCEPT ![w] = NoTx(st)],
           UNCHANGED <<outbox, edited, subscriptions, ended, tasks>>,
           faults' \in 0 .. MaxFaults
    PROVE  IInv'
  <1>1. relay'[w] = NoTx(st)
    BY DEF IInv, TypeOK
  <1>2. PlanJustified(w)'
    BY <1>1, NoTxTyped DEF PlanJustified
  <1> QED
    BY <1>2, NoTxTyped, RelayStep

LEMMA FaultCounted ==
    ASSUME ConstantsAssumption, TypeOK, Fault \/ UNCHANGED faults
    PROVE  faults' \in 0 .. MaxFaults
  BY DEF ConstantsAssumption, TypeOK, Fault

-----------------------------------------------------------------------------
(***************************************************************************)
(* The steps of the loop.                                                  *)
(***************************************************************************)
LEMMA ClaimStep ==
    ASSUME IInv, NEW w \in Relays, Claim(w)
    PROVE  IInv'
  <1>1. PICK S \in SUBSET {r \in Records : Claimable(r)} :
            relay' = [relay EXCEPT ![w] =
                         [stage |-> "claimed", records |-> S, plan |-> {}]]
    BY DEF Claim
  <1> DEFINE tx == [stage |-> "claimed", records |-> S, plan |-> {}]
  <1>2. tx \in Relay
    BY DEF Relay
  <1>3. \A r \in S : /\ r \in Stored /\ ~outbox[r].fanned_out
                    /\ outbox[r].attempts < MaxAttempts
                    /\ \A v \in Relays : r \notin relay[v].records
    BY DEF Claimable, Held
  <1>4. relay'[w] = tx
    BY <1>1 DEF IInv, TypeOK
  <1>5. PlanJustified(w)'
    BY <1>3, <1>4 DEF PlanJustified, Claim
  <1>6. faults' \in 0 .. MaxFaults
    BY DEF Claim, IInv, TypeOK
  <1>7. UNCHANGED <<outbox, edited, subscriptions, ended, tasks>>
    BY DEF Claim
  <1> QED
    BY <1>1, <1>2, <1>3, <1>5, <1>6, <1>7, RelayStep

\* A step that keeps the claimed records and replaces stage and plan.
LEMMA ReplanStep ==
    ASSUME IInv, NEW w \in Relays, NEW st, NEW plan \in SUBSET Task,
           st \in {"claimed", "planned", "written", "failed"},
           relay' = [relay EXCEPT ![w].stage = st, ![w].plan = plan],
           UNCHANGED <<outbox, edited, subscriptions, ended, tasks, faults>>,
           \A t \in plan : t[1] \in relay[w].records /\ t[2] \in Wanted[t[1]],
           st \notin {"planned", "written"} => plan = {},
           st = "planned" =>
               \A r \in relay[w].records : \A s \in Owed(r) : <<r, s>> \in plan,
           st = "written" =>
               /\ \A t \in plan : t[2] \in subscriptions /\ t \notin tasks
               /\ \A r \in relay[w].records : \A s \in Owed(r) : <<r, s>> \in plan \cup tasks
    PROVE  IInv'
  <1> DEFINE tx == [relay[w] EXCEPT !.stage = st, !.plan = plan]
  <1>1. relay[w] \in Relay
    BY DEF IInv, TypeOK
  <1>2. tx \in Relay
    BY <1>1 DEF Relay
  <1>3. tx.stage = st /\ tx.plan = plan /\ tx.records = relay[w].records
    BY <1>1 DEF Relay
  <1>4. relay' = [relay EXCEPT ![w] = tx] /\ relay'[w] = tx
    BY DEF IInv, TypeOK
  <1> HIDE DEF tx
  <1>5. \A r \in tx.records : /\ r \in Stored /\ ~outbox[r].fanned_out
                             /\ outbox[r].attempts < MaxAttempts
                             /\ \A v \in Relays : v # w => r \notin relay[v].records
    BY <1>3 DEF IInv, ClaimsExclusive, PlansJustified, PlanJustified
  <1>6. PlanJustified(w)'
    <2>1. \A r : Owed(r)' = Owed(r)
      BY DEF Owed
    <2> QED
      BY <1>3, <1>4, <1>5, <2>1 DEF PlanJustified
  <1>7. faults' \in 0 .. MaxFaults
    BY DEF IInv, TypeOK
  <1> QED
    BY <1>2, <1>4, <1>5, <1>6, <1>7, RelayStep

LEMMA PlanStep ==
    ASSUME ConstantsAssumption, IInv, NEW w \in Relays, Plan(w)
    PROVE  IInv'
  <1> DEFINE plan == Planned(relay[w].records)
  <1>1. relay[w].records \subseteq Records /\ subscriptions \subseteq Subscriptions
    BY DEF IInv, TypeOK, Relay
  <1>2. plan \in SUBSET Task
    BY <1>1 DEF Planned, Task
  <1>3. \A t \in plan : t[1] \in relay[w].records /\ t[2] \in Wanted[t[1]]
    BY DEF Planned
  <1>4. \A r \in relay[w].records : \A s \in Owed(r) : <<r, s>> \in plan
    BY DEF Planned, Owed
  <1>5. relay' = [relay EXCEPT ![w].stage = "planned", ![w].plan = plan]
    BY DEF Plan
  <1>6. UNCHANGED <<outbox, edited, subscriptions, ended, tasks, faults>>
    BY DEF Plan
  <1> HIDE DEF plan
  <1> QED
    BY <1>2, <1>3, <1>4, <1>5, <1>6, ReplanStep

LEMMA PlanFailsStep ==
    ASSUME IInv, NEW w \in Relays, PlanFails(w)
    PROVE  IInv'
  <1>1. relay[w] \in Relay /\ relay[w].plan = {}
    BY DEF IInv, TypeOK, PlansJustified, PlanJustified, PlanFails
  <1>2. relay' = [relay EXCEPT ![w].stage = "failed", ![w].plan = {}]
    BY <1>1 DEF PlanFails, Relay
  <1>3. UNCHANGED <<outbox, edited, subscriptions, ended, tasks, faults>>
    BY DEF PlanFails
  <1>4. {} \in SUBSET Task
    OBVIOUS
  <1> QED
    BY <1>2, <1>3, <1>4, ReplanStep

\* The foreign key has found every subscription of the plan, and whatever of
\* the plan is not written is in the table already.
LEMMA WriteTasksStep ==
    ASSUME IInv, NEW w \in Relays, WriteTasks(w)
    PROVE  IInv'
  <1> DEFINE plan == relay[w].plan \ tasks
  <1>1. relay[w] \in Relay /\ PlanJustified(w)
    BY DEF IInv, TypeOK, PlansJustified
  <1>2. plan \in SUBSET Task
    BY <1>1 DEF Relay
  <1>3. \A t \in plan : /\ t[1] \in relay[w].records /\ t[2] \in Wanted[t[1]]
                       /\ t[2] \in subscriptions /\ t \notin tasks
    BY <1>1 DEF PlanJustified, WriteTasks, Broken
  <1>4. \A r \in relay[w].records : \A s \in Owed(r) : <<r, s>> \in plan \cup tasks
    BY <1>1 DEF PlanJustified, WriteTasks
  <1>5. relay' = [relay EXCEPT ![w].stage = "written", ![w].plan = plan]
    BY <1>1 DEF WriteTasks, Relay
  <1>6. UNCHANGED <<outbox, edited, subscriptions, ended, tasks, faults>>
    BY DEF WriteTasks
  <1> HIDE DEF plan
  <1> QED
    BY <1>2, <1>3, <1>4, <1>5, <1>6, ReplanStep

\* Both outcomes count an attempt, and a row that was claimed has one left.
LEMMA RowsTyped ==
    ASSUME ConstantsAssumption, NEW row \in OutboxRow, row.attempts < MaxAttempts
    PROVE  /\ FannedOut(row) \in OutboxRow /\ FannedOut(row).fanned_out
           /\ Failed(row) \in OutboxRow /\ Failed(row).fanned_out = row.fanned_out
  <1>1. row.attempts + 1 \in 0 .. MaxAttempts
    BY DEF ConstantsAssumption, OutboxRow
  <1>2. FannedOut(row) \in OutboxRow /\ FannedOut(row).fanned_out
    BY <1>1 DEF OutboxRow, FannedOut
  <1>3. Failed(row) \in OutboxRow /\ Failed(row).fanned_out = row.fanned_out
    BY <1>1 DEF OutboxRow, Failed
  <1> QED
    BY <1>2, <1>3

\* What a commit leaves alone: the claims and the plans of the other relays.
LEMMA CommitKeeps ==
    ASSUME ConstantsAssumption, IInv, NEW w \in Relays,
           NEW next \in SUBSET Task, NEW rows, After(w, next, rows),
           \A r \in relay[w].records : rows[r] \in OutboxRow,
           tasks \subseteq next,
           \A t \in next : t \in tasks \/ t[1] \in relay[w].records
    PROVE  /\ Stored' = Stored
           /\ \A r \in Stored : outbox'[r] = IF r \in relay[w].records THEN rows[r]
                                                                     ELSE outbox[r]
           /\ TypeOK' /\ ClaimsExclusive' /\ EarlyStays' /\ PlansJustified'
  <1>1. PICK st \in {"idle", "dead"} : relay' = [relay EXCEPT ![w] = NoTx(st)]
    BY DEF After
  <1>2. /\ relay'[w] = NoTx(st)
        /\ \A v \in Relays : v # w => relay'[v] = relay[v]
        /\ relay' \in [Relays -> Relay]
    BY <1>1, NoTxTyped DEF IInv, TypeOK
  <1>3. /\ Stored' = Stored
        /\ \A r \in Stored : outbox'[r] = IF r \in relay[w].records THEN rows[r]
                                                                  ELSE outbox[r]
    BY DEF After, Stored
  <1>4. TypeOK'
    <2>1. \A r \in Stored : outbox'[r] \in OutboxRow
      BY <1>3 DEF IInv, TypeOK
    <2>2. faults' \in 0 .. MaxFaults
      BY FaultCounted DEF After, IInv
    <2> QED
      BY <1>2, <1>3, <2>1, <2>2 DEF IInv, TypeOK, After
  <1>5. \A v \in Relays : v # w => \A r \in relay[v].records :
            r \notin relay[w].records /\ r \in Stored /\ outbox'[r] = outbox[r]
    BY <1>3 DEF IInv, ClaimsExclusive
  <1>6. relay'[w].records = {} /\ relay'[w].plan = {} /\ relay'[w].stage = st
    BY <1>2, NoTxTyped
  <1>7. ClaimsExclusive'
    <2>1. ASSUME NEW v \in Relays, NEW u \in Relays, v # u
          PROVE  relay'[v].records \cap relay'[u].records = {}
      BY <1>2, <1>6, <2>1 DEF IInv, ClaimsExclusive
    <2>2. ASSUME NEW v \in Relays, NEW r \in relay'[v].records
          PROVE  r \in Stored' /\ ~outbox'[r].fanned_out
      BY <1>2, <1>3, <1>5, <1>6 DEF IInv, ClaimsExclusive
    <2> QED
      BY <2>1, <2>2 DEF ClaimsExclusive
  <1>8. PlansJustified'
    <2>1. PlanJustified(w)'
      BY <1>6 DEF PlanJustified
    <2>2. ASSUME NEW v \in Relays, v # w
          PROVE  PlanJustified(v)'
      <3>1. PlanJustified(v) /\ relay'[v] = relay[v]
        BY <1>2, <2>2 DEF IInv, PlansJustified
      <3>2. \A t \in relay[v].plan : t \in next => t \in tasks
        BY <1>5, <2>2, <3>1 DEF PlanJustified
      <3>3. \A r : Owed(r)' = Owed(r)
        BY DEF Owed, After
      <3>4. tasks' = next /\ UNCHANGED subscriptions
        BY DEF After
      <3> QED
        BY <1>5, <2>2, <3>1, <3>2, <3>3, <3>4 DEF PlanJustified
    <2> QED
      BY <2>1, <2>2 DEF PlansJustified
  <1>9. EarlyStays'
    BY DEF IInv, EarlyStays, After
  <1> QED
    BY <1>3, <1>4, <1>7, <1>8, <1>9

\* The flag of a record becomes visible together with the last of its tasks.
LEMMA CommitFannedOutStep ==
    ASSUME ConstantsAssumption, IInv, NEW w \in Relays, CommitFannedOut(w)
    PROVE  IInv'
  <1> DEFINE next == tasks \cup relay[w].plan
             rows == [r \in relay[w].records |-> FannedOut(outbox[r])]
  <1>1. relay[w] \in Relay /\ relay[w].stage = "written" /\ PlanJustified(w)
    BY DEF IInv, TypeOK, PlansJustified, CommitFannedOut
  <1>2. \A r \in relay[w].records : /\ r \in Stored /\ outbox[r] \in OutboxRow
                                   /\ outbox[r].attempts < MaxAttempts
    BY <1>1 DEF IInv, ClaimsExclusive, TypeOK, PlanJustified
  <1>3. \A r \in relay[w].records : rows[r] \in OutboxRow /\ rows[r].fanned_out
    BY <1>2, RowsTyped
  <1>4. next \in SUBSET Task
    BY <1>1 DEF IInv, TypeOK, Relay
  <1>5. \A t \in relay[w].plan : /\ t[1] \in relay[w].records
                                /\ t[2] \in subscriptions \cap Wanted[t[1]]
    BY <1>1 DEF PlanJustified
  <1>6. \A r \in relay[w].records : \A s \in Owed(r) : <<r, s>> \in next
    BY <1>1 DEF PlanJustified
  <1>7. After(w, next, rows)
    BY DEF CommitFannedOut
  <1> HIDE DEF next, rows
  <1>8. tasks \subseteq next /\ \A t \in next : t \in tasks \/ t \in relay[w].plan
    BY DEF next
  <1>9. /\ Stored' = Stored
        /\ \A r \in Stored : outbox'[r] = IF r \in relay[w].records THEN rows[r]
                                                                  ELSE outbox[r]
        /\ TypeOK' /\ ClaimsExclusive' /\ EarlyStays' /\ PlansJustified'
    BY <1>3, <1>4, <1>5, <1>7, <1>8, CommitKeeps
  <1>10. tasks' = next /\ UNCHANGED <<subscriptions, edited>>
    BY <1>7 DEF After
  <1>11. FannedOutComplete'
    BY <1>6, <1>8, <1>9, <1>10 DEF IInv, FannedOutComplete, Owed
  <1>12. TasksOfFannedOut'
    <2>1. ASSUME NEW t \in tasks
          PROVE  /\ t[1] \in Stored
                 /\ outbox'[t[1]].fanned_out \/ t[1] \in edited
                 /\ t[2] \in subscriptions \cap Wanted[t[1]]
      BY <1>3, <1>9 DEF IInv, TasksOfFannedOut
    <2>2. ASSUME NEW t \in relay[w].plan
          PROVE  /\ t[1] \in Stored
                 /\ outbox'[t[1]].fanned_out
                 /\ t[2] \in subscriptions \cap Wanted[t[1]]
      BY <1>2, <1>3, <1>5, <1>9
    <2> QED
      BY <1>8, <1>9, <1>10, <2>1, <2>2 DEF TasksOfFannedOut
  <1> QED
    BY <1>9, <1>11, <1>12 DEF IInv

LEMMA CommitFailedStep ==
    ASSUME ConstantsAssumption, IInv, NEW w \in Relays, CommitFailed(w)
    PROVE  IInv'
  <1> DEFINE rows == [r \in relay[w].records |-> Failed(outbox[r])]
  <1>1. \A r \in relay[w].records :
            /\ r \in Stored /\ outbox[r] \in OutboxRow
            /\ outbox[r].attempts < MaxAttempts /\ ~outbox[r].fanned_out
    BY DEF IInv, ClaimsExclusive, TypeOK, PlansJustified, PlanJustified
  <1>2. \A r \in relay[w].records : rows[r] \in OutboxRow /\ ~rows[r].fanned_out
    BY <1>1, RowsTyped
  <1>3. tasks \in SUBSET Task
    BY DEF IInv, TypeOK
  <1>4. After(w, tasks, rows)
    BY DEF CommitFailed
  <1> HIDE DEF rows
  <1>5. /\ Stored' = Stored
        /\ \A r \in Stored : outbox'[r] = IF r \in relay[w].records THEN rows[r]
                                                                  ELSE outbox[r]
        /\ TypeOK' /\ ClaimsExclusive' /\ EarlyStays' /\ PlansJustified'
    BY <1>2, <1>3, <1>4, CommitKeeps
  <1>6. \A r \in Stored : outbox'[r].fanned_out <=> outbox[r].fanned_out
    BY <1>1, <1>2, <1>5
  <1>7. UNCHANGED <<tasks, subscriptions, edited>>
    BY <1>4 DEF After
  <1>8. FannedOutComplete' /\ TasksOfFannedOut'
    BY <1>5, <1>6, <1>7 DEF IInv, FannedOutComplete, TasksOfFannedOut
  <1> QED
    BY <1>5, <1>8 DEF IInv

LEMMA LoopStep ==
    ASSUME ConstantsAssumption, IInv, NEW w \in Relays, Loop(w) \/ Die(w) \/ Restart(w)
    PROVE  IInv'
  <1>1. CASE Claim(w)
    BY <1>1, ClaimStep
  <1>2. CASE Plan(w)
    BY <1>2, PlanStep
  <1>3. CASE PlanFails(w)
    BY <1>3, PlanFailsStep
  <1>4. CASE WriteTasks(w)
    BY <1>4, WriteTasksStep
  <1>5. CASE CommitFailed(w)
    BY <1>5, CommitFailedStep
  <1>6. CASE CommitFannedOut(w)
    BY <1>6, CommitFannedOutStep
  <1>7. CASE WriteAborts(w) \/ Die(w) \/ Restart(w)
    <2>1. PICK st \in {"idle", "dead"} : relay' = [relay EXCEPT ![w] = NoTx(st)]
      BY <1>7 DEF WriteAborts, Die, Restart
    <2>2. faults' \in 0 .. MaxFaults
      BY <1>7, FaultCounted DEF WriteAborts, Die, Restart, IInv
    <2>3. UNCHANGED <<outbox, edited, subscriptions, ended, tasks>>
      BY <1>7 DEF WriteAborts, Die, Restart
    <2> QED
      BY <2>1, <2>2, <2>3, RollbackStep
  <1> QED
    BY <1>1, <1>2, <1>3, <1>4, <1>5, <1>6, <1>7 DEF Loop, Preparing

-----------------------------------------------------------------------------
(***************************************************************************)
(* What the rest of the system does.  Its locks are what the transactions  *)
(* rely on: a claimed row stays as it is, and keeps its tasks.             *)
(***************************************************************************)

\* A change of the outbox that respects the claims keeps what they know.
LEMMA OutboxStep ==
    ASSUME IInv, UNCHANGED <<subscriptions, ended, relay, faults>>,
           Stored' \subseteq Records, \A r \in Stored' : outbox'[r] \in OutboxRow,
           edited' \subseteq Records,
           tasks' \subseteq tasks,
           \A w \in Relays : \A r \in relay[w].records :
               /\ r \in Stored'
               /\ outbox'[r].attempts = outbox[r].attempts
               /\ outbox'[r].fanned_out = outbox[r].fanned_out
               /\ \A s : <<r, s>> \in tasks => <<r, s>> \in tasks',
           FannedOutComplete', TasksOfFannedOut'
    PROVE  IInv'
  <1>1. TypeOK'
    BY DEF IInv, TypeOK
  <1>2. ClaimsExclusive'
    BY DEF IInv, ClaimsExclusive
  <1>3. EarlyStays'
    BY DEF IInv, EarlyStays
  <1>4. ASSUME NEW w \in Relays
        PROVE  PlanJustified(w)'
    <2>1. PlanJustified(w) /\ \A r : Owed(r)' = Owed(r)
      BY DEF IInv, PlansJustified, Owed
    <2> QED
      BY <2>1 DEF PlanJustified
  <1> QED
    BY <1>1, <1>2, <1>3, <1>4 DEF IInv, PlansJustified

LEMMA StoreRecordStep ==
    ASSUME ConstantsAssumption, IInv, NEW r \in Records, StoreRecord(r)
    PROVE  IInv'
  <1> DEFINE row == [fanned_out |-> FALSE, attempts |-> 0, due |-> TRUE]
  <1>1. row \in OutboxRow /\ ~row.fanned_out
    BY DEF ConstantsAssumption, OutboxRow
  <1>2. /\ r \notin Stored /\ Stored' = Stored \cup {r}
        /\ outbox'[r] = row /\ \A x \in Stored : outbox'[x] = outbox[x]
    BY DEF StoreRecord, Stored
  <1> HIDE DEF row
  <1>3. UNCHANGED <<subscriptions, ended, relay, faults, edited, tasks>>
    BY DEF StoreRecord
  <1>4. FannedOutComplete' /\ TasksOfFannedOut'
    BY <1>1, <1>2, <1>3 DEF IInv, FannedOutComplete, TasksOfFannedOut
  <1>5. \A w \in Relays : \A x \in relay[w].records : x \in Stored
    BY DEF IInv, ClaimsExclusive
  <1>6. Stored' \subseteq Records /\ edited' \subseteq Records
        /\ \A x \in Stored' : outbox'[x] \in OutboxRow
    BY <1>1, <1>2, <1>3 DEF IInv, TypeOK
  <1> QED
    BY <1>2, <1>3, <1>4, <1>5, <1>6, OutboxStep

LEMMA FallDueStep ==
    ASSUME IInv, NEW r \in Records, FallDue(r)
    PROVE  IInv'
  <1>1. r \in Stored /\ outbox[r] \in OutboxRow
    BY DEF FallDue, IInv, TypeOK
  <1>2. /\ Stored' = Stored
        /\ \A x \in Stored : x # r => outbox'[x] = outbox[x]
        /\ outbox'[r] = [outbox[r] EXCEPT !.due = TRUE]
    BY <1>1 DEF FallDue, Stored
  <1>3. /\ outbox'[r] \in OutboxRow
        /\ outbox'[r].attempts = outbox[r].attempts
        /\ outbox'[r].fanned_out = outbox[r].fanned_out
    BY <1>1, <1>2 DEF OutboxRow
  <1>4. UNCHANGED <<subscriptions, ended, relay, faults, edited, tasks>>
    BY DEF FallDue
  <1>5. FannedOutComplete' /\ TasksOfFannedOut'
    BY <1>2, <1>3, <1>4 DEF IInv, FannedOutComplete, TasksOfFannedOut
  <1>6. \A w \in Relays : \A x \in relay[w].records : x \in Stored
    BY DEF IInv, ClaimsExclusive
  <1>7. Stored' \subseteq Records /\ edited' \subseteq Records
        /\ \A x \in Stored' : outbox'[x] \in OutboxRow
    BY <1>2, <1>3, <1>4 DEF IInv, TypeOK
  <1> QED
    BY <1>2, <1>3, <1>4, <1>5, <1>6, <1>7, OutboxStep

\* The tasks of a record that is reset stay; `edited' remembers why.
LEMMA ResetStep ==
    ASSUME IInv, NEW r \in Records, Reset(r)
    PROVE  IInv'
  <1>1. r \in Stored /\ outbox[r] \in OutboxRow
    BY DEF Reset, IInv, TypeOK
  <1>2. /\ Stored' = Stored
        /\ \A x \in Stored : x # r => outbox'[x] = outbox[x]
        /\ outbox'[r] = [outbox[r] EXCEPT !.fanned_out = FALSE]
    BY <1>1 DEF Reset, Stored
  <1>3. outbox'[r] \in OutboxRow /\ ~outbox'[r].fanned_out
    BY <1>1, <1>2 DEF OutboxRow
  <1>4. UNCHANGED <<subscriptions, ended, relay, faults, tasks>> /\ edited' = edited \cup {r}
    BY DEF Reset
  <1>5. FannedOutComplete' /\ TasksOfFannedOut'
    BY <1>2, <1>3, <1>4 DEF IInv, FannedOutComplete, TasksOfFannedOut
  <1>6. \A w \in Relays : \A x \in relay[w].records : x \in Stored /\ x # r
    BY DEF IInv, ClaimsExclusive, Reset, Held
  <1>7. Stored' \subseteq Records /\ edited' \subseteq Records
        /\ \A x \in Stored' : outbox'[x] \in OutboxRow
    BY <1>2, <1>3, <1>4 DEF IInv, TypeOK
  <1> QED
    BY <1>2, <1>4, <1>5, <1>6, <1>7, OutboxStep

LEMMA DeleteRecordStep ==
    ASSUME IInv, NEW r \in Records, DeleteRecord(r)
    PROVE  IInv'
  <1>1. Stored' = Stored \ {r} /\ \A x \in Stored : x # r => outbox'[x] = outbox[x]
    BY DEF DeleteRecord, Stored
  <1>2. /\ UNCHANGED <<subscriptions, ended, relay, faults>>
        /\ edited' = edited \cup {r}
        /\ tasks' = {t \in tasks : t[1] # r}
    BY DEF DeleteRecord
  <1>3. FannedOutComplete'
    <2>1. \A x, s : x # r /\ <<x, s>> \in tasks => <<x, s>> \in tasks'
      BY <1>2
    <2> QED
      BY <1>1, <1>2, <2>1 DEF IInv, FannedOutComplete
  <1>4. TasksOfFannedOut'
    BY <1>1, <1>2 DEF IInv, TasksOfFannedOut
  <1>5. \A w \in Relays : \A x \in relay[w].records : x \in Stored /\ x # r
    BY DEF IInv, ClaimsExclusive, DeleteRecord, Held
  <1>6. Stored' \subseteq Records /\ edited' \subseteq Records
        /\ \A x \in Stored' : outbox'[x] \in OutboxRow
    BY <1>1, <1>2 DEF IInv, TypeOK
  <1> QED
    BY <1>1, <1>2, <1>3, <1>4, <1>5, <1>6, OutboxStep

LEMMA SubscribeStep ==
    ASSUME IInv, NEW s \in Subscriptions, Subscribe(s)
    PROVE  IInv'
  <1>1. UNCHANGED <<outbox, edited, ended, tasks, relay, faults>>
        /\ subscriptions' = subscriptions \cup {s} /\ s \notin subscriptions \cup ended
    BY DEF Subscribe
  <1>2. \A r : Owed(r)' \subseteq Owed(r)
    BY OwedShrinks DEF IInv
  <1>3. TypeOK' /\ ClaimsExclusive' /\ EarlyStays'
    BY <1>1 DEF IInv, TypeOK, ClaimsExclusive, EarlyStays, Stored
  <1>4. FannedOutComplete'
    BY <1>1, <1>2 DEF IInv, FannedOutComplete, Owed, Stored
  <1>5. TasksOfFannedOut'
    BY <1>1 DEF IInv, TasksOfFannedOut, Stored
  <1>6. PlansJustified'
    BY <1>1, <1>2 DEF IInv, PlansJustified, PlanJustified
  <1> QED
    BY <1>3, <1>4, <1>5, <1>6 DEF IInv

\* A plan that is written holds its subscriptions, and the tasks it leaves out
\* because they are there already go only with theirs.
LEMMA UnsubscribeStep ==
    ASSUME IInv, NEW S \in SUBSET Subscriptions, Unsubscribe(S)
    PROVE  IInv'
  <1>1. /\ UNCHANGED <<outbox, edited, relay, faults>>
        /\ subscriptions' = subscriptions \ S /\ S \subseteq subscriptions
        /\ ended' = ended \cup S
        /\ tasks' = {t \in tasks : t[2] \notin S}
        /\ \A s \in S : ~Referred(s)
    BY DEF Unsubscribe
  <1>2. \A r : Owed(r)' \subseteq Owed(r) /\ Owed(r)' \cap S = {}
    BY <1>1, OwedShrinks DEF IInv, Owed
  <1>3. TypeOK' /\ ClaimsExclusive' /\ EarlyStays'
    BY <1>1 DEF IInv, TypeOK, ClaimsExclusive, EarlyStays, Stored
  <1>4. \A r, s : s \notin S /\ <<r, s>> \in tasks => <<r, s>> \in tasks'
    BY <1>1
  <1>5. FannedOutComplete'
    BY <1>1, <1>2, <1>4 DEF IInv, FannedOutComplete, Owed, Stored
  <1>6. TasksOfFannedOut'
    BY <1>1 DEF IInv, TasksOfFannedOut, Stored
  <1>7. ASSUME NEW w \in Relays
        PROVE  PlanJustified(w)'
    <2>1. PlanJustified(w)
      BY DEF IInv, PlansJustified
    <2>2. relay[w].stage = "written" => \A t \in relay[w].plan : t[2] \notin S
      BY <1>1 DEF Referred
    <2> QED
      BY <1>1, <1>2, <1>4, <2>1, <2>2 DEF PlanJustified
  <1> QED
    BY <1>3, <1>5, <1>6, <1>7 DEF IInv, PlansJustified

-----------------------------------------------------------------------------
\* The invariant is established by Init and kept by every step.
LEMMA Initially ==
    ASSUME ConstantsAssumption, Init
    PROVE  IInv
  <1>1. NoTx("idle") \in Relay
    BY NoTxTyped
  <1>2. Stored = {}
    BY DEF Init, Stored
  <1>3. \A w \in Relays : relay[w] = NoTx("idle")
    BY DEF Init
  <1>4. TypeOK
    BY <1>1, <1>2 DEF Init, TypeOK, ConstantsAssumption
  <1>5. ClaimsExclusive /\ PlansJustified
    BY <1>3, NoTxTyped DEF ClaimsExclusive, PlansJustified, PlanJustified
  <1>6. FannedOutComplete /\ TasksOfFannedOut /\ EarlyStays
    BY <1>2 DEF Init, FannedOutComplete, TasksOfFannedOut, EarlyStays
  <1> QED
    BY <1>4, <1>5, <1>6 DEF IInv

LEMMA Inductive ==
    ASSUME ConstantsAssumption
    PROVE  IInv /\ [Next]_vars => IInv'
  <1> SUFFICES ASSUME IInv, [Next]_vars
               PROVE  IInv'
    OBVIOUS
  <1>1. CASE \E r \in Records : StoreRecord(r) \/ FallDue(r) \/ Reset(r) \/ DeleteRecord(r)
    BY <1>1, StoreRecordStep, FallDueStep, ResetStep, DeleteRecordStep
  <1>2. CASE \E s \in Subscriptions : Subscribe(s)
    BY <1>2, SubscribeStep
  <1>3. CASE \E S \in SUBSET Subscriptions : Unsubscribe(S)
    BY <1>3, UnsubscribeStep
  <1>4. CASE \E w \in Relays : Loop(w) \/ Die(w) \/ Restart(w)
    BY <1>4, LoopStep
  <1>5. CASE UNCHANGED vars
    BY <1>5 DEF vars, IInv, TypeOK, ClaimsExclusive, FannedOutComplete, TasksOfFannedOut,
                EarlyStays, PlansJustified, PlanJustified, Owed, Stored
  <1> QED
    BY <1>1, <1>2, <1>3, <1>4, <1>5 DEF Next

\* What the tables hold and what every open transaction knows about them, at
\* every moment of every run of the loop in process_outbox_batch.
THEOREM Invariance ==
    ASSUME ConstantsAssumption
    PROVE  Spec => []IInv
  <1>1. Init => IInv
    BY Initially
  <1>2. IInv /\ [Next]_vars => IInv'
    BY Inductive
  <1> QED
    BY <1>1, <1>2, PTL DEF Spec

\* FOR UPDATE SKIP LOCKED and the fanned_out flag together: no record is ever
\* worked on by two relays, and none that is already fanned out.
THEOREM NoRecordTwice ==
    ASSUME ConstantsAssumption
    PROVE  Spec => [](TypeOK /\ ClaimsExclusive)
  <1>1. IInv => TypeOK /\ ClaimsExclusive
    BY DEF IInv
  <1> QED
    BY <1>1, Invariance, PTL

\* A record that is marked fanned out has a task for everybody who was
\* subscribed all along, though billing read in another session.
THEOREM NobodyForgotten ==
    ASSUME ConstantsAssumption
    PROVE  Spec => []FannedOutComplete
  <1>1. IInv => FannedOutComplete
    BY DEF IInv
  <1> QED
    BY <1>1, Invariance, PTL

\* No transaction that fails, no deletion of a record and no deletion of
\* subscriptions leaves a task behind that has no business there.
THEOREM NoTaskAstray ==
    ASSUME ConstantsAssumption
    PROVE  Spec => []TasksOfFannedOut
  <1>1. IInv => TasksOfFannedOut
    BY DEF IInv
  <1> QED
    BY <1>1, Invariance, PTL
=============================================================================
