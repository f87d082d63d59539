--------------------------- MODULE KeyeventStream ---------------------------
(***************************************************************************)
(* Delivery of the keyevent stream to the replicas of the events process   *)
(* (app/controllers/events/engine.py): Redis keeps the stream and the list *)
(* of pending entries of the consumer group; every replica runs one        *)
(* subscriber task, which reads new entries, and one reclaimer task, which *)
(* claims entries that stayed pending for IDLE_MS, retries them and moves  *)
(* them to the dead-letter stream after MAX_RETRY deliveries.              *)
(*                                                                         *)
(* What a handler does is EngineService's subject: here it succeeds or     *)
(* fails.  An entry is its position in the stream.  Both tasks go through  *)
(* their entries in the order of the stream, so a batch is a set.          *)
(***************************************************************************)
EXTENDS Integers, FiniteSets, FiniteSetsExt

CONSTANTS
    Consumers,    \* the replicas; each start of one is a new consumer name
    NumEntries,   \* bound: entries the producer appends
    Foreign,      \* entries whose key has not the engines' prefix
    Malformed,    \* entries without the fields of RedisKeyEvent
    MaxRetry,     \* MAX_RETRY
    Batch,        \* BATCH, the COUNT of XAUTOCLAIM
    MaxFaults,    \* bound: crashes, failed and unanswered calls
    Gone          \* a consumer name nobody uses any more

Entries == 1 .. NumEntries

ASSUME ConstantsAssumption ==
    /\ NumEntries \in Nat /\ MaxRetry \in Nat /\ Batch \in Nat \ {0}
    /\ MaxFaults \in Nat
    /\ Foreign \subseteq Entries /\ Malformed \subseteq Entries
    /\ Gone \notin Consumers

VARIABLES
    appended,    \* entries in the stream: 1 .. appended
    delivered,   \* last-delivered-id of the group
    owner,       \* [pending entries -> consumer]: the group's PEL
    idle,        \* pending entries that were not delivered for IDLE_MS
    deliveries,  \* [Entries -> times delivered], counted up to MaxRetry + 1
    inbox,       \* [Consumers -> entries the subscriber read and has to handle]
    toAck,       \* [Consumers -> entry the subscriber has to acknowledge, or 0]
    reclaimer,   \* [Consumers -> state of the reclaimer task]
    handled,     \* history: entries a handler dealt with
    dlq,         \* entries in the dead-letter stream (copies count as one)
    faults       \* faults so far

redis == <<appended, delivered, owner, idle, deliveries>>
vars  == <<redis, inbox, toAck, reclaimer, handled, dlq, faults>>

Pending == DOMAIN owner

\* Local variables of _loop: `over' are the entries of the batch for which
\* deliveries_map says that they were delivered more than MAX_RETRY times.
Reclaimer == [phase : {"claim", "count", "handle", "ack", "dead"},
              cursor : 0 .. NumEntries, batch : SUBSET Entries,
              over : SUBSET Entries, xacks : SUBSET Entries]

Started == [phase |-> "claim", cursor |-> 0, batch |-> {}, over |-> {}, xacks |-> {}]

-----------------------------------------------------------------------------
Init ==
    /\ appended = 0
    /\ delivered = 0
    /\ owner = [i \in {} |-> Gone]
    /\ idle = {}
    /\ deliveries = [i \in Entries |-> 0]
    /\ inbox = [c \in Consumers |-> {}]
    /\ toAck = [c \in Consumers |-> 0]
    /\ reclaimer = [c \in Consumers |-> Started]
    /\ handled = {}
    /\ dlq = {}
    /\ faults = 0

Fault == faults < MaxFaults /\ faults' = faults + 1

\* Redis hands the entries S to consumer c.
Deliver(c, S) ==
    /\ owner' = [i \in Pending \cup S |-> IF i \in S THEN c ELSE owner[i]]
    /\ idle' = idle \ S
    /\ deliveries' = [i \in Entries |->
          IF i \in S /\ deliveries[i] <= MaxRetry THEN deliveries[i] + 1
                                                  ELSE deliveries[i]]

\* XACK takes entries off the list, whoever owns them by now.
Ack(S) ==
    /\ owner' = [i \in Pending \ S |-> owner[i]]
    /\ idle' = idle \ S
    /\ UNCHANGED <<appended, delivered, deliveries>>

\* The keyspace notification of an engine appends an entry (external).
Append ==
    /\ appended < NumEntries
    /\ appended' = appended + 1
    /\ UNCHANGED <<delivered, owner, idle, deliveries, inbox, toAck, reclaimer,
                   handled, dlq, faults>>

\* An entry has been pending for IDLE_MS since its last delivery.
GetIdle(i) ==
    /\ i \in Pending \ idle
    /\ idle' = idle \cup {i}
    /\ UNCHANGED <<appended, delivered, owner, deliveries, inbox, toAck, reclaimer,
                   handled, dlq, faults>>

-----------------------------------------------------------------------------
(***************************************************************************)
(* The subscriber.                                                         *)
(***************************************************************************)

\* Mutant of Read: the range starts with the last entry that was delivered.
ReadInclusive(c) ==
    /\ inbox[c] = {}
    /\ delivered < appended
    /\ Deliver(c, delivered .. appended)
    /\ delivered' = appended
    /\ inbox' = [inbox EXCEPT ![c] = delivered .. appended]
    /\ UNCHANGED <<appended, toAck, reclaimer, handled, dlq, faults>>

\* XREADGROUP of all new entries, when the last batch is done.
Read(c) ==
    /\ inbox[c] = {}
    /\ delivered < appended
    /\ Deliver(c, (delivered + 1) .. appended)
    /\ delivered' = appended
    /\ inbox' = [inbox EXCEPT ![c] = (delivered + 1) .. appended]
    /\ UNCHANGED <<appended, toAck, reclaimer, handled, dlq, faults>>

\* The same, but the reply is lost: the entries are pending and unknown to c.
ReadLost(c) ==
    /\ Fault
    /\ inbox[c] = {}
    /\ delivered < appended
    /\ Deliver(c, (delivered + 1) .. appended)
    /\ delivered' = appended
    /\ UNCHANGED <<appended, inbox, toAck, reclaimer, handled, dlq>>

Next1(c) == Min(inbox[c])

\* The handler of the next entry returns: it was handled, or its key is
\* foreign (AckMessage).  FastStream acknowledges it next.
SubscriberHandles(c) ==
    /\ inbox[c] # {}
    /\ toAck[c] = 0
    /\ Next1(c) \notin Malformed
    /\ toAck' = [toAck EXCEPT ![c] = Next1(c)]
    /\ handled' = handled \cup ({Next1(c)} \ Foreign)
    /\ UNCHANGED <<redis, inbox, reclaimer, dlq, faults>>

\* The handler fails and calls nack(), or the entry cannot be parsed: neither
\* tells Redis anything, and the entry stays pending.
SubscriberFails(c) ==
    /\ inbox[c] # {}
    /\ toAck[c] = 0
    /\ Next1(c) \notin Foreign \/ Next1(c) \in Malformed
    /\ inbox' = [inbox EXCEPT ![c] = @ \ {Next1(c)}]
    /\ UNCHANGED <<redis, toAck, reclaimer, handled, dlq, faults>>

SubscriberAcks(c) ==
    /\ toAck[c] # 0
    /\ Ack({toAck[c]})
    /\ inbox' = [inbox EXCEPT ![c] = @ \ {toAck[c]}]
    /\ toAck' = [toAck EXCEPT ![c] = 0]
    /\ UNCHANGED <<reclaimer, handled, dlq, faults>>

\* The acknowledgement fails; FastStream logs it and goes on.
SubscriberAckFails(c) ==
    /\ Fault
    /\ toAck[c] # 0
    /\ inbox' = [inbox EXCEPT ![c] = @ \ {toAck[c]}]
    /\ toAck' = [toAck EXCEPT ![c] = 0]
    /\ UNCHANGED <<redis, reclaimer, handled, dlq>>

-----------------------------------------------------------------------------
(***************************************************************************)
(* The reclaimer.                                                          *)
(***************************************************************************)
In(c, phase) == reclaimer[c].phase = phase

\* The first n elements of a set of entries.
First(n, S) == {i \in S : Cardinality({j \in S : j <= i}) <= n}

\* What XAUTOCLAIM claims.
Claimable(c) == {i \in idle : i >= reclaimer[c].cursor}
Claimed(c)   == First(Batch, Claimable(c))

\* The cursor it returns: the pending entry after the last one it claimed, idle
\* or not, or 0 when it came to the end of the list.  (It also stops after it
\* has looked at 10 * Batch entries, which is left out.)
NextCursor(c) ==
    LET rest == {i \in Pending : \A j \in Claimed(c) : j < i}
    IN  IF Cardinality(Claimed(c)) < Batch \/ rest = {} THEN 0 ELSE Min(rest)

Claim(c) ==
    /\ In(c, "claim")
    /\ Claimed(c) # {} \/ reclaimer[c].cursor # 0
    /\ Deliver(c, Claimed(c))
    /\ reclaimer' = [reclaimer EXCEPT
          ![c].cursor = NextCursor(c),
          ![c].batch = Claimed(c),
          ![c].phase = IF Claimed(c) = {} THEN "claim" ELSE "count"]
    /\ UNCHANGED <<appended, delivered, inbox, toAck, handled, dlq, faults>>

\* The entries are claimed but the reply is lost, and the call is retried.
ClaimLost(c) ==
    /\ Fault
    /\ In(c, "claim")
    /\ Claimed(c) # {}
    /\ Deliver(c, Claimed(c))
    /\ UNCHANGED <<appended, delivered, inbox, toAck, reclaimer, handled, dlq>>

\* Mutant of Count: the limit is reached one delivery early.
CountEarly(c) ==
    /\ In(c, "count")
    /\ reclaimer' = [reclaimer EXCEPT
          ![c].over = {i \in reclaimer[c].batch : /\ i \in Pending /\ owner[i] = c
                                                  /\ deliveries[i] >= MaxRetry},
          ![c].phase = "handle"]
    /\ UNCHANGED <<redis, inbox, toAck, handled, dlq, faults>>

\* Mutant of Count: no listed entry is found in the map (its keys are strings,
\* say), so each counts as delivered once.
CountUnmatched(c) ==
    /\ In(c, "count")
    /\ reclaimer' = [reclaimer EXCEPT ![c].over = {}, ![c].phase = "handle"]
    /\ UNCHANGED <<redis, inbox, toAck, handled, dlq, faults>>

\* XPENDING lists the first Cardinality(batch) entries the consumer owns in
\* the range of the batch; an entry it does not list counts as delivered once.
Count(c) ==
    LET batch == reclaimer[c].batch
        own   == {i \in Pending : /\ owner[i] = c
                                  /\ Min(batch) <= i /\ i <= Max(batch)}
        listed == First(Cardinality(batch), own)
    IN  /\ In(c, "count")
        /\ reclaimer' = [reclaimer EXCEPT
              ![c].over = {i \in batch \cap listed : deliveries[i] > MaxRetry},
              ![c].phase = "handle"]
        /\ UNCHANGED <<redis, inbox, toAck, handled, dlq, faults>>

Current(c) == Min(reclaimer[c].batch)

\* The next entry is done; the loop over the batch ends with the XACK.
Advance(c, xacks) ==
    LET rest == reclaimer[c].batch \ {Current(c)}
    IN  reclaimer' = [reclaimer EXCEPT
          ![c].batch = rest,
          ![c].xacks = xacks,
          ![c].over  = IF rest = {} THEN {} ELSE @,
          ![c].phase = IF rest # {} THEN "handle"
                       ELSE IF xacks # {} THEN "ack" ELSE "claim"]

\* _send_to_dlq.
DeadLetter(c) ==
    /\ In(c, "handle")
    /\ Current(c) \in reclaimer[c].over
    /\ dlq' = dlq \cup {Current(c)}
    /\ Advance(c, reclaimer[c].xacks \cup {Current(c)})
    /\ UNCHANGED <<redis, inbox, toAck, handled, faults>>

Retried(c) == In(c, "handle") /\ Current(c) \notin reclaimer[c].over

ReclaimerHandles(c) ==
    /\ Retried(c)
    /\ Current(c) \notin Foreign \cup Malformed
    /\ handled' = handled \cup {Current(c)}
    /\ Advance(c, reclaimer[c].xacks \cup {Current(c)})
    /\ UNCHANGED <<redis, inbox, toAck, dlq, faults>>

\* Mutant of ReclaimerFails: the test of msg.committed is missing.
ReclaimerFailsAcked(c) ==
    /\ Retried(c)
    /\ Current(c) \notin Malformed
    /\ Advance(c, reclaimer[c].xacks \cup {Current(c)})
    /\ UNCHANGED <<redis, inbox, toAck, handled, dlq, faults>>

\* The handler fails and calls nack(), or raises AckMessage for a foreign key,
\* which here is an unhandled error: the entry stays pending either way.
ReclaimerFails(c) ==
    /\ Retried(c)
    /\ Current(c) \notin Malformed
    /\ Advance(c, reclaimer[c].xacks)
    /\ UNCHANGED <<redis, inbox, toAck, handled, dlq, faults>>

\* RedisKeyEvent(**payload) is outside of the try: _wrap logs and returns.
ReclaimerChokes(c) ==
    /\ Retried(c)
    /\ Current(c) \in Malformed
    /\ reclaimer' = [reclaimer EXCEPT ![c] = [Started EXCEPT !.phase = "dead"]]
    /\ UNCHANGED <<redis, inbox, toAck, handled, dlq, faults>>

ReclaimerAcks(c) ==
    /\ In(c, "ack")
    /\ Ack(reclaimer[c].xacks)
    /\ reclaimer' = [reclaimer EXCEPT ![c].phase = "claim", ![c].xacks = {}]
    /\ UNCHANGED <<inbox, toAck, handled, dlq, faults>>

\* A call to Redis failed three times: the task ends and nobody restarts it.
\* A call of _send_to_dlq may have appended the entry all the same.
GiveUp(c) ==
    /\ Fault
    /\ \/ reclaimer[c].phase \in {"claim", "count", "ack"} /\ UNCHANGED dlq
       \/ /\ In(c, "handle")
          /\ Current(c) \in reclaimer[c].over
          /\ dlq' \in {dlq, dlq \cup {Current(c)}}
    /\ reclaimer' = [reclaimer EXCEPT ![c] = [Started EXCEPT !.phase = "dead"]]
    /\ UNCHANGED <<redis, inbox, toAck, handled>>

\* The process ends at any point and is started again, as a new consumer.
Restart(c) ==
    /\ Fault
    /\ owner' = [i \in Pending |-> IF owner[i] = c THEN Gone ELSE owner[i]]
    /\ inbox' = [inbox EXCEPT ![c] = {}]
    /\ toAck' = [toAck EXCEPT ![c] = 0]
    /\ reclaimer' = [reclaimer EXCEPT ![c] = Started]
    /\ UNCHANGED <<appended, delivered, idle, deliveries, handled, dlq>>

-----------------------------------------------------------------------------
Subscriber(c) ==
    \/ Read(c) \/ SubscriberHandles(c) \/ SubscriberFails(c) \/ SubscriberAcks(c)

ReclaimerTask(c) ==
    \/ Claim(c) \/ Count(c) \/ DeadLetter(c)
    \/ ReclaimerHandles(c) \/ ReclaimerFails(c) \/ ReclaimerChokes(c)
    \/ ReclaimerAcks(c)

Next ==
    \/ Append
    \/ \E i \in Entries : GetIdle(i)
    \/ \E c \in Consumers :
          \/ Subscriber(c)
          \/ ReclaimerTask(c)
          \/ ReadLost(c) \/ SubscriberAckFails(c) \/ ClaimLost(c)
          \/ GiveUp(c) \/ Restart(c)

Spec == Init /\ [][Next]_vars

\* A reclaimer asks for the counts before IDLE_MS have passed since its claim
\* (two calls in a row, 60 s).
CountedInTime == \A c \in Consumers : In(c, "count") => reclaimer[c].batch \cap idle' = {}

\* Tasks that are running go on, and time passes.
Fairness ==
    /\ \A i \in Entries : WF_vars(GetIdle(i))
    /\ \A c \in Consumers : WF_vars(Subscriber(c)) /\ WF_vars(ReclaimerTask(c))

FairSpec == Spec /\ Fairness

-----------------------------------------------------------------------------
TypeOK ==
    /\ appended \in 0 .. NumEntries
    /\ delivered \in 0 .. appended
    /\ Pending \subseteq 1 .. delivered
    /\ \A i \in Pending : owner[i] \in Consumers \cup {Gone}
    /\ idle \subseteq Pending
    /\ deliveries \in [Entries -> 0 .. MaxRetry + 1]
    /\ inbox \in [Consumers -> SUBSET Entries]
    /\ toAck \in [Consumers -> 0 .. NumEntries]
    /\ reclaimer \in [Consumers -> Reclaimer]
    /\ handled \subseteq Entries
    /\ dlq \subseteq Entries
    /\ faults \in 0 .. MaxFaults

Settled == (1 .. delivered) \ Pending

\* An entry is done with when it is settled and no task has it left to handle:
\* a slow task may still have what another one settled.
InHands(i) == \E c \in Consumers : i \in inbox[c] \cup reclaimer[c].batch

Done(i) == i \in Settled /\ ~InHands(i)

\* No entry leaves the group's list for nothing: it was handled, is kept in
\* the dead-letter stream, or is not about an engine.  Crashes, lost replies
\* and acknowledgements of entries another consumer claimed are included.
NothingLost == Settled \subseteq handled \cup dlq \cup Foreign

\* An entry reaches the dead-letter stream only after more than MAX_RETRY
\* deliveries, however stale the reclaimer's count of them is.
DeadLetterAfterRetries == \A i \in dlq : deliveries[i] > MaxRetry

\* Every entry the producer appends is settled in the end if some reclaimer
\* stays alive: none is stuck with a consumer that is gone or retried for ever.
\* This needs reclaimers that are in time at last: else two of them can take an
\* entry from each other for ever, each taking it for a fresh one.
AllSettled ==
    /\ <>[][CountedInTime]_vars
    /\ \E c \in Consumers : <>[](reclaimer[c].phase # "dead")
    =>
        \A i \in Entries : i <= appended ~> i \in Settled

\* controllers/events/engine.py:222-224: an entry of the batch that was
\* delivered more than MAX_RETRY times is sent to the dead-letter stream, so
\* the count the loop goes by has to know it.
OverLimitRecognised ==
    [][\A c \in Consumers :
          In(c, "count") /\ reclaimer'[c].phase = "handle" =>
              \A i \in reclaimer[c].batch \cap Pending :
                  owner[i] = c /\ deliveries[i] > MaxRetry =>
                      i \in reclaimer'[c].over]_vars
=============================================================================
