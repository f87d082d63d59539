--------------------------- MODULE EventsService ---------------------------
(***************************************************************************)
(* The events process as a whole: KeyeventStream, which brings entries to  *)
(* the handlers of every replica, composed with EngineService, which turns *)
(* them into rows and records.  A handler of an entry is one transaction:  *)
(* its first statement runs when the task comes to the entry, and what the *)
(* task does with the entry afterwards depends on how the transaction      *)
(* ends.  Redis and PostgreSQL share no transaction, so a failure between  *)
(* the commit and the acknowledgement leaves the one without the other.    *)
(*                                                                         *)
(* A replica that ends with a transaction open is that transaction failing *)
(* (the entry stays pending either way) followed by the restart.           *)
(***************************************************************************)
EXTENDS EngineTables, FiniteSetsExt

CONSTANTS
    Consumers, NumEntries, MaxRetry, Batch, MaxFaults, Gone,  \* KeyeventStream
    Idle,        \* EngineService
    IdOf,        \* [1 .. NumEntries -> StreamIds]: ids grow along the stream
    Contents     \* bound: the contents of the stream that are looked at

Tasks == {"subscriber", "reclaimer"}

Workers == Consumers \X Tasks

ASSUME IdAssumption ==
    /\ IdOf \in [1 .. NumEntries -> StreamIds]
    /\ StreamIds = {IdOf[i] : i \in 1 .. NumEntries}
    /\ \A i, j \in 1 .. NumEntries : i < j =>
          \/ IdOf[i][1] < IdOf[j][1]
          \/ IdOf[i][1] = IdOf[j][1] /\ IdOf[i][2] < IdOf[j][2]
    /\ Contents \subseteq [StreamIds -> Entry]

VARIABLES
    appended, delivered, owner, idle, deliveries,    \* Redis
    inbox, toAck, reclaimer, handled, dlq, faults,   \* the tasks
    stream, engines, outbox, tx, applied, dropped,   \* PostgreSQL
    removed      \* history: engines that the admin removed

K == INSTANCE KeyeventStream WITH Foreign <- {}, Malformed <- {}

S == INSTANCE EngineService

ASSUME PartsAssumption == K!ConstantsAssumption /\ S!IdleAssumption

streamVars == <<appended, delivered, owner, idle, deliveries, inbox, toAck,
                reclaimer, handled, dlq, faults>>
tableVars  == <<stream, engines, outbox, tx, applied, dropped>>
vars       == <<streamVars, tableVars, removed>>

-----------------------------------------------------------------------------
Init ==
    /\ K!Init
    /\ S!Init /\ stream \in Contents
    /\ removed = {}

\* The worker has come to entry i, and has it to handle.
Has(w, i) ==
    LET c == w[1]
    IN  \/ /\ w[2] = "subscriber"
           /\ inbox[c] # {} /\ toAck[c] = 0
           /\ i = K!Next1(c)
        \/ /\ w[2] = "reclaimer"
           /\ K!Retried(c)
           /\ i = K!Current(c)

Handles(w) ==
    \/ w[2] = "subscriber" /\ K!SubscriberHandles(w[1])
    \/ w[2] = "reclaimer" /\ K!ReclaimerHandles(w[1])

Fails(w) ==
    \/ w[2] = "subscriber" /\ K!SubscriberFails(w[1])
    \/ w[2] = "reclaimer" /\ K!ReclaimerFails(w[1])

\* Mutant of Begin: the entry is acknowledged before it is handled.
BeginAcked(w, i) ==
    /\ Has(w, i)
    /\ S!FetchUpsert(w, IdOf[i]) \/ S!FetchMarkDead(w, IdOf[i])
    /\ Handles(w)
    /\ UNCHANGED removed

\* The handler begins with the first statement of upsert or mark_dead.
Begin(w, i) ==
    /\ Has(w, i)
    /\ S!FetchUpsert(w, IdOf[i]) \/ S!FetchMarkDead(w, IdOf[i])
    /\ UNCHANGED <<streamVars, removed>>

Save(w) == S!Save(w) /\ UNCHANGED <<streamVars, removed>>

\* The handler returns; the error for a missing engine is swallowed.
Return(w, i) ==
    /\ Has(w, i)
    /\ S!Commit(w) \/ S!MarkDeadMissing(w, IdOf[i])
    /\ Handles(w)
    /\ UNCHANGED removed

\* An event of another kind is acknowledged like one that was handled.
Ignore(w, i) ==
    /\ Has(w, i)
    /\ S!Ignore(w, IdOf[i])
    /\ Handles(w)
    /\ UNCHANGED removed

\* The handler fails and calls nack(): without a transaction, with one that is
\* rolled back, or with one whose commit is durable but was not answered.
Fail(w, i) ==
    /\ Has(w, i)
    /\ \/ /\ tx[w] = Idle
          /\ stream[IdOf[i]].event # "other"
          /\ UNCHANGED tableVars
       \/ S!Abort(w)
       \/ S!Commit(w)
    /\ Fails(w)
    /\ UNCHANGED removed

\* Reading and acknowledging; claiming, counting, dead-lettering, acknowledging.
Stream(w) ==
    LET c == w[1]
    IN  /\ \/ w[2] = "subscriber" /\ (K!Read(c) \/ K!SubscriberAcks(c))
           \/ /\ w[2] = "reclaimer"
              /\ K!Claim(c) \/ K!Count(c) \/ K!DeadLetter(c) \/ K!ReclaimerAcks(c)
        /\ UNCHANGED <<tableVars, removed>>

CallFails(c) ==
    /\ K!ReadLost(c) \/ K!SubscriberAckFails(c) \/ K!ClaimLost(c) \/ K!GiveUp(c)
    /\ UNCHANGED <<tableVars, removed>>

Restart(c) ==
    /\ \A task \in Tasks : tx[<<c, task>>] = Idle
    /\ K!Restart(c)
    /\ UNCHANGED <<tableVars, removed>>

RemoveDead ==
    /\ S!RemoveDead
    /\ removed' = removed \cup {e \in EngineIds : engines[e] # NoRow /\ engines'[e] = NoRow}
    /\ UNCHANGED streamVars

Append == K!Append /\ UNCHANGED <<tableVars, removed>>

GetIdle(i) == K!GetIdle(i) /\ UNCHANGED <<tableVars, removed>>

Task(w) ==
    \/ \E i \in 1 .. NumEntries :
          Begin(w, i) \/ Return(w, i) \/ Ignore(w, i) \/ Fail(w, i)
    \/ Save(w)
    \/ Stream(w)

Next ==
    \/ Append
    \/ \E i \in 1 .. NumEntries : GetIdle(i)
    \/ \E w \in Workers : Task(w)
    \/ \E c \in Consumers : CallFails(c) \/ Restart(c)
    \/ RemoveDead

Spec == Init /\ [][Next]_vars

\* Tasks that are running go on (PostgreSQL ends every wait for a row), and
\* time passes.
Fairness ==
    /\ \A i \in 1 .. NumEntries : WF_vars(GetIdle(i))
    /\ \A w \in Workers : WF_vars(Task(w))

FairSpec == Spec /\ Fairness

-----------------------------------------------------------------------------
\* Entry i was dead-lettered, or is of another kind, or is about an engine that
\* was removed, or is an expiry that found no row.
Excused(i) ==
    \/ i \in dlq
    \/ stream[IdOf[i]].event = "other"
    \/ stream[IdOf[i]].engine \in removed
    \/ IdOf[i] \in dropped

\* What is settled is shown: an entry that left the group's list is in the
\* table, which is at its version or a later one, whatever failed between the
\* commit and the acknowledgement and however many tasks had it.
SettledShown ==
    \A i \in K!Settled : ~Excused(i) =>
        LET row == engines[stream[IdOf[i]].engine]
        IN  row # NoRow /\ ~RowOlder(row.version, FromStreamId(IdOf[i]))

\* The expiry of an engine that is its last entry is announced by the time it
\* is settled: exactly one EngineDead record tells of it.
ExpiryAnnounced ==
    \A i \in K!Settled :
        /\ ~Excused(i)
        /\ stream[IdOf[i]].event = "expired"
        /\ \A j \in i + 1 .. appended : stream[IdOf[j]].engine # stream[IdOf[i]].engine
        => \E r \in outbox : /\ r.event.name = "EngineDead"
                             /\ r.event.version = IdOf[i]
                             /\ \A q \in outbox : q.event.version = IdOf[i] => q = r

\* Nothing that was said of the engine so far is left to do.
Quiet(e) == \A i \in 1 .. appended : stream[IdOf[i]].engine = e => K!Done(i)

\* The removal of a dead engine forgets its version, so an older entry that is
\* handled again brings the engine back.  That is as long as the group lists
\* the entry or a task has it in hand: what is done with is never handed out
\* again by a read, a claim or a restart, and a quiet engine is changed by
\* nothing but its removal.
NoComeback ==
    [][\A e \in EngineIds : Quiet(e) =>
          /\ engines'[e] \in {engines[e], NoRow}
          /\ \A i \in 1 .. appended : stream[IdOf[i]].engine = e => K!Done(i)']_vars

\* Every entry the producer appends is shown or excused in the end, if some
\* reclaimer stays alive and reclaimers are in time at last (see AllSettled of
\* KeyeventStream): also one whose handlers fail, wait for each other's rows, or
\* are cut off between the commit and the acknowledgement.
EveryEntryShown ==
    /\ <>[][K!CountedInTime]_vars
    /\ \E c \in Consumers : <>[](reclaimer[c].phase # "dead")
    =>
        \A i \in 1 .. NumEntries : i <= appended ~> Excused(i) \/ i \in K!Settled

\* Two engines never carry the same version, so the unique constraint of the
\* table is never hit (see EngineService).
VersionsUnique == S!VersionsUnique
=============================================================================
