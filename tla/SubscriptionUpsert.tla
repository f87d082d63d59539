-------------------------- MODULE SubscriptionUpsert --------------------------
(***************************************************************************)
(* BillingService.upsert_subscriptions (app/services/billing.py): a form   *)
(* of the admin pages sends the events that one user wants of one engine,  *)
(* and a READ COMMITTED transaction turns the rows of engine_subscriptions *)
(* for this pair into them:                                                *)
(*     SELECT the rows;  DELETE the unwanted ones;  INSERT the missing     *)
(* The SELECT takes no lock and the table has no unique constraint, so     *)
(* requests for the same pair that overlap act on what they read.          *)
(*                                                                         *)
(* A row is identified by the request that inserted it and its event.      *)
(***************************************************************************)
EXTENDS FiniteSets

CONSTANTS
    Requests,    \* requests for the pair, each sent once
    Events,      \* names of the events a user can subscribe to
    Seed         \* who inserted the rows of the beginning; not a request

ASSUME SeedAssumption == Seed \notin Requests

VARIABLES
    wanted,     \* [Requests -> events the request asks for]
    subs,       \* the committed rows
    owner,      \* the engine exists, and so does the user
    request,    \* [Requests -> state of the transaction]
    last,       \* history: the request that committed last, or Seed
    met         \* history: <<q, o>>: q read while the transaction of o was open

vars == <<wanted, subs, owner, request, last, met>>

SubscriptionRow == (Requests \cup {Seed}) \X Events

EventsOf(rows) == {row[2] : row \in rows}

\* for_delete: rows to delete, then the rows the DELETE found and holds.
Request == [stage : {"new", "read", "deleted", "inserted", "done", "failed"},
            for_delete : SUBSET SubscriptionRow, for_create : SUBSET Events]

New == [stage |-> "new", for_delete |-> {}, for_create |-> {}]

In(q, stage) == request[q].stage = stage

IsOpen(q) == request[q].stage \in {"read", "deleted", "inserted"}

\* The row was deleted by a transaction that has not ended.
Deleting(q, row) ==
    request[q].stage \in {"deleted", "inserted"} /\ row \in request[q].for_delete

-----------------------------------------------------------------------------
Init ==
    /\ wanted \in [Requests -> SUBSET Events]
    /\ subs \in SUBSET ({Seed} \X Events)
    /\ owner = TRUE
    /\ request = [q \in Requests |-> New]
    /\ last = Seed
    /\ met = {}

\* Mutants of Read: the test of the rows to delete is inverted; rows of events
\* that exist are created once more.
ReadInverted(q) ==
    /\ In(q, "new")
    /\ request' = [request EXCEPT ![q] =
          [stage |-> "read",
           for_delete |-> {row \in subs : row[2] \in wanted[q]},
           for_create |-> wanted[q] \ EventsOf(subs)]]
    /\ met' = met \cup ({q} \X {o \in Requests : IsOpen(o)})
    /\ UNCHANGED <<wanted, subs, owner, last>>

ReadCreatingAll(q) ==
    /\ In(q, "new")
    /\ request' = [request EXCEPT ![q] =
          [stage |-> "read",
           for_delete |-> {row \in subs : row[2] \notin wanted[q]},
           for_create |-> wanted[q]]]
    /\ met' = met \cup ({q} \X {o \in Requests : IsOpen(o)})
    /\ UNCHANGED <<wanted, subs, owner, last>>

Read(q) ==
    /\ In(q, "new")
    /\ request' = [request EXCEPT ![q] =
          [stage |-> "read",
           for_delete |-> {row \in subs : row[2] \notin wanted[q]},
           for_create |-> wanted[q] \ EventsOf(subs)]]
    /\ met' = met \cup ({q} \X {o \in Requests : IsOpen(o)})
    /\ UNCHANGED <<wanted, subs, owner, last>>

\* The DELETE waits for the end of other transactions that deleted a row of
\* its list, and finds the rows that are still there.
Delete(q) ==
    /\ In(q, "read")
    /\ \A o \in Requests, row \in request[q].for_delete :
          o # q => ~Deleting(o, row)
    /\ request' = [request EXCEPT ![q].stage = "deleted",
                                  ![q].for_delete = @ \cap subs]
    /\ UNCHANGED <<wanted, subs, owner, last, met>>

\* The foreign keys of a new row need its user and its engine.
Insert(q) ==
    /\ In(q, "deleted")
    /\ request[q].for_create # {} => owner
    /\ request' = [request EXCEPT ![q].stage = "inserted"]
    /\ UNCHANGED <<wanted, subs, owner, last, met>>

\* Mutant of Commit: the deletions are not part of the transaction.
CommitUndeleted(q) ==
    /\ In(q, "inserted")
    /\ subs' = subs \cup ({q} \X request[q].for_create)
    /\ request' = [request EXCEPT ![q].stage = "done"]
    /\ last' = q
    /\ UNCHANGED <<wanted, owner, met>>

Commit(q) ==
    /\ In(q, "inserted")
    /\ subs' = (subs \ request[q].for_delete) \cup ({q} \X request[q].for_create)
    /\ request' = [request EXCEPT ![q].stage = "done"]
    /\ last' = q
    /\ UNCHANGED <<wanted, owner, met>>

\* A foreign key is violated, the database fails or breaks a deadlock (of two
\* DELETEs, or of one with RemoveOwner): all is rolled back.
Fail(q) ==
    /\ IsOpen(q)
    /\ request' = [request EXCEPT ![q].stage = "failed"]
    /\ UNCHANGED <<wanted, subs, owner, last, met>>

\* The engine is removed by a DELETE, which cascades to its subscriptions; this
\* waits for transactions that deleted a row or refer to the engine.  A user that
\* has subscriptions stays: the admin's delete is the ORM's, which sets user_id to
\* NULL first and fails on it (database/models.py:152-154, 165-167).
RemoveOwner ==
    /\ owner
    /\ \A q \in Requests :
          /\ In(q, "inserted") => request[q].for_create = {}
          /\ \A row \in subs : ~Deleting(q, row)
    /\ owner' = FALSE
    /\ subs' = {}
    /\ UNCHANGED <<wanted, request, last, met>>

Next ==
    \/ \E q \in Requests : Read(q) \/ Delete(q) \/ Insert(q) \/ Commit(q) \/ Fail(q)
    \/ RemoveOwner

Spec == Init /\ [][Next]_vars

-----------------------------------------------------------------------------
TypeOK ==
    /\ wanted \in [Requests -> SUBSET Events]
    /\ subs \subseteq SubscriptionRow
    /\ owner \in BOOLEAN
    /\ request \in [Requests -> Request]
    /\ last \in Requests \cup {Seed}
    /\ met \subseteq Requests \X Requests

\* Two transactions were open at once.
Overlapped(p, q) == <<p, q>> \in met \/ <<q, p>> \in met

\* A request that overlapped with none works as the docstring says (billing.py:
\* 35-37), whatever races there were before: after it the user has the events it
\* wants and no other.
WishGranted ==
    owner /\ last # Seed /\ (\A q \in Requests : ~Overlapped(last, q)) =>
        EventsOf(subs) = wanted[last]

\* A user gets an event twice only from two requests that overlapped: none adds
\* to a row that was there when it read, in the beginning or from an older race.
TwinsOverlapped ==
    \A row, other \in subs :
        row[2] = other[2] /\ row # other => Overlapped(row[1], other[1])

\* Whatever overlaps, a user keeps (or gets) a subscription that every request
\* wants as soon as one of them is done: racing requests do not cancel out.
UnanimousKept ==
    \A e \in Events :
        /\ owner
        /\ last # Seed
        /\ \A q \in Requests : e \in wanted[q]
        => e \in EventsOf(subs)

\* Whatever overlaps, a row of the beginning survives no request that is done
\* and does not want its event: none is brought back by another request.
RejectedStaysGone ==
    \A q \in Requests : In(q, "done") =>
        \A row \in subs : row[1] = Seed => row[2] \in wanted[q]

\* services/billing.py:35: "Upsert subscriptions for a user and engine
\* combination", so a user has at most one subscription to an event.
OneRowPerEvent == \A row, other \in subs : row[2] = other[2] => row = other
=============================================================================
