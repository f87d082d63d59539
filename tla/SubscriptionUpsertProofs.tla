----------------------- MODULE SubscriptionUpsertProofs -----------------------
(***************************************************************************)
(* What racing requests for one user and engine leave in the table of      *)
(* subscriptions, for any number of requests and of events.                *)
(***************************************************************************)
EXTENDS SubscriptionUpsert, TLAPS

-----------------------------------------------------------------------------
(***************************************************************************)
(* The inductive invariant.  An open request acts on the rows it read, and *)
(* each of its parts says what is left of that reading in the table as the *)
(* other requests have made it.                                            *)
(***************************************************************************)

\* It holds rows against its wish and no others,
ActsOnWish(q) ==
    IsOpen(q) => /\ \A row \in request[q].for_delete : row[2] \notin wanted[q]
                 /\ request[q].for_create \subseteq wanted[q]

\* ... all of the beginning that are still there among them, and it left none of
\* them when it was done,
RejectsSeed(q) ==
    /\ In(q, "done") => \A row \in subs : row[1] = Seed => row[2] \in wanted[q]
    /\ IsOpen(q) => \A row \in subs :
          row[1] = Seed => row[2] \in wanted[q] \/ row \in request[q].for_delete

\* ... and creates what everybody wants, if it is not there.
Unanimous(e) == \A q \in Requests : e \in wanted[q]

BringsUnanimous(q) ==
    IsOpen(q) /\ owner => \A e \in Events :
        Unanimous(e) => e \in request[q].for_create \/ e \in EventsOf(subs)

\* What a request read that has overlapped with none so far is what the table is.
Alone(q) == \A o \in Requests : ~Overlapped(q, o)

ReadIsCurrent(q) ==
    IsOpen(q) /\ owner /\ Alone(q) =>
        /\ request[q].for_delete = {row \in subs : row[2] \notin wanted[q]}
        /\ request[q].for_create = wanted[q] \ EventsOf(subs)

\* Rows of the events it creates came from requests it overlapped with.
AddsToOverlapped(q) ==
    IsOpen(q) => \A row \in subs :
        row[2] \in request[q].for_create => Overlapped(q, row[1])

Plans(q) ==
    /\ ActsOnWish(q) /\ RejectsSeed(q) /\ BringsUnanimous(q)
    /\ ReadIsCurrent(q) /\ AddsToOverlapped(q)

OpenOverlap ==
    \A p, q \in Requests : IsOpen(p) /\ IsOpen(q) => p = q \/ Overlapped(p, q)

IInv ==
    /\ TypeOK
    /\ \A q \in Requests : Plans(q)
    /\ OpenOverlap
    /\ WishGranted
    /\ TwinsOverlapped
    /\ UnanimousKept

-----------------------------------------------------------------------------
(***************************************************************************)
(* Steps that leave the rows alone.                                        *)
(***************************************************************************)

\* What the invariant says of one request depends on it and the rows alone, and
\* on whom it overlapped with.
LEMMA OthersStay ==
    ASSUME NEW q \in Requests, request'[q] = request[q],
           UNCHANGED <<wanted, subs, owner>>, met \subseteq met', Plans(q)
    PROVE  Plans(q)' /\ (IsOpen(q)' <=> IsOpen(q))
  BY DEF Plans, IsOpen, In, ActsOnWish, RejectsSeed, BringsUnanimous, ReadIsCurrent,
         AddsToOverlapped, Alone, Overlapped, Unanimous, EventsOf

\* The rows are what they were, so what is said of them alone still holds.
LEMMA RowsStay ==
    ASSUME IInv, UNCHANGED <<wanted, subs, owner, last>>, met \subseteq met'
    PROVE  WishGranted' /\ TwinsOverlapped' /\ UnanimousKept'
  BY DEF IInv, WishGranted, TwinsOverlapped, UnanimousKept, Overlapped, EventsOf

\* A step of request r that changes its record only: what the invariant says of
\* r is left to show.
LEMMA OwnStep ==
    ASSUME IInv, NEW r \in Requests, NEW rec \in Request,
           request' = [request EXCEPT ![r] = rec],
           UNCHANGED <<wanted, subs, owner, last>>,
           met' \subseteq Requests \X Requests, met \subseteq met',
           Plans(r)',
           IsOpen(r)' => \A o \in Requests : IsOpen(o) => o = r \/ Overlapped(o, r)'
    PROVE  IInv'
  <1>1. request' \in [Requests -> Request] /\ request'[r] = rec
        /\ \A q \in Requests : q # r => request'[q] = request[q]
    BY DEF IInv, TypeOK
  <1>2. TypeOK'
    BY <1>1 DEF IInv, TypeOK
  <1>3. ASSUME NEW q \in Requests, q # r
        PROVE  Plans(q)' /\ (IsOpen(q)' <=> IsOpen(q))
    BY <1>1, <1>3, OthersStay DEF IInv
  <1>4. OpenOverlap'
    <2>1. SUFFICES ASSUME NEW p \in Requests, NEW q \in Requests,
                          IsOpen(p)', IsOpen(q)', p # q
                   PROVE  Overlapped(p, q)'
      BY DEF OpenOverlap
    <2>2. CASE p # r /\ q # r
      BY <1>3, <2>1, <2>2 DEF IInv, OpenOverlap, Overlapped
    <2>3. CASE p = r \/ q = r
      BY <1>3, <2>1, <2>3 DEF Overlapped
    <2> QED
      BY <2>2, <2>3
  <1> QED
    BY <1>2, <1>3, <1>4, RowsStay DEF IInv

\* The request reads the rows: its plan is made for them.
LEMMA ReadStep ==
    ASSUME IInv, NEW r \in Requests, Read(r)
    PROVE  IInv'
  <1> DEFINE rec == [stage |-> "read",
                     for_delete |-> {row \in subs : row[2] \notin wanted[r]},
                     for_create |-> wanted[r] \ EventsOf(subs)]
             others == {o \in Requests : IsOpen(o)}
  <1>1. rec \in Request
    BY DEF IInv, TypeOK, Request
  <1>2. request' = [request EXCEPT ![r] = rec] /\ request'[r] = rec
        /\ UNCHANGED <<wanted, subs, owner, last>>
    BY DEF Read, IInv, TypeOK
  <1>3. met' = met \cup ({r} \X others) /\ met' \subseteq Requests \X Requests
    BY DEF Read, IInv, TypeOK
  <1>4. \A o \in Requests : IsOpen(o) => Overlapped(o, r)'
    BY <1>3 DEF Overlapped
  <1>5. ActsOnWish(r)' /\ RejectsSeed(r)' /\ ReadIsCurrent(r)' /\ AddsToOverlapped(r)'
    BY <1>2
    DEF ActsOnWish, RejectsSeed, ReadIsCurrent, AddsToOverlapped, In, IsOpen, EventsOf
  <1>6. BringsUnanimous(r)'
    BY <1>2 DEF BringsUnanimous, Unanimous, EventsOf
  <1> QED
    BY <1>1, <1>2, <1>3, <1>4, <1>5, <1>6, OwnStep DEF Plans

\* The DELETE finds those of its rows that are still there.
LEMMA DeleteStep ==
    ASSUME IInv, NEW r \in Requests, Delete(r)
    PROVE  IInv'
  <1> DEFINE rec == [request[r] EXCEPT !.stage = "deleted", !.for_delete = @ \cap subs]
  <1>1. request[r] \in Request /\ request[r].stage = "read"
    BY DEF Delete, In, IInv, TypeOK
  <1>2. rec \in Request
    BY <1>1 DEF Request
  <1>3. /\ rec.stage = "deleted" /\ rec.for_create = request[r].for_create
        /\ rec.for_delete = request[r].for_delete \cap subs
    BY <1>1 DEF Request
  <1>4. request' = [request EXCEPT ![r] = rec] /\ request'[r] = rec
        /\ UNCHANGED <<wanted, subs, owner, last, met>>
    BY DEF Delete, IInv, TypeOK
  <1> HIDE DEF rec
  <1>5. IsOpen(r)
    BY <1>1 DEF IsOpen
  <1>6. Plans(r)
    BY DEF IInv
  <1>7. ActsOnWish(r)' /\ RejectsSeed(r)' /\ BringsUnanimous(r)'
    BY <1>3, <1>4, <1>5, <1>6
    DEF Plans, ActsOnWish, RejectsSeed, BringsUnanimous, In, IsOpen, EventsOf, Unanimous
  <1>8. ReadIsCurrent(r)' /\ AddsToOverlapped(r)'
    BY <1>3, <1>4, <1>5, <1>6
    DEF Plans, ReadIsCurrent, AddsToOverlapped, Alone, Overlapped, IsOpen, EventsOf
  <1> QED
    BY <1>2, <1>4, <1>5, <1>7, <1>8, OwnStep DEF IInv, OpenOverlap, Overlapped, Plans, TypeOK

\* The INSERT, which nobody sees yet.
LEMMA InsertStep ==
    ASSUME IInv, NEW r \in Requests, Insert(r)
    PROVE  IInv'
  <1> DEFINE rec == [request[r] EXCEPT !.stage = "inserted"]
  <1>1. request[r] \in Request /\ request[r].stage = "deleted"
    BY DEF Insert, In, IInv, TypeOK
  <1>2. rec \in Request
    BY <1>1 DEF Request
  <1>3. /\ rec.stage = "inserted" /\ rec.for_create = request[r].for_create
        /\ rec.for_delete = request[r].for_delete
    BY <1>1 DEF Request
  <1>4. request' = [request EXCEPT ![r] = rec] /\ request'[r] = rec
        /\ UNCHANGED <<wanted, subs, owner, last, met>>
    BY DEF Insert, IInv, TypeOK
  <1> HIDE DEF rec
  <1>5. IsOpen(r)
    BY <1>1 DEF IsOpen
  <1>6. Plans(r)
    BY DEF IInv
  <1>7. ActsOnWish(r)' /\ RejectsSeed(r)' /\ BringsUnanimous(r)'
    BY <1>3, <1>4, <1>5, <1>6
    DEF Plans, ActsOnWish, RejectsSeed, BringsUnanimous, In, IsOpen, EventsOf, Unanimous
  <1>8. ReadIsCurrent(r)' /\ AddsToOverlapped(r)'
    BY <1>3, <1>4, <1>5, <1>6
    DEF Plans, ReadIsCurrent, AddsToOverlapped, Alone, Overlapped, IsOpen, EventsOf
  <1> QED
    BY <1>2, <1>4, <1>5, <1>7, <1>8, OwnStep DEF IInv, OpenOverlap, Overlapped, Plans, TypeOK

\* A rollback.
LEMMA FailStep ==
    ASSUME IInv, NEW r \in Requests, Fail(r)
    PROVE  IInv'
  <1> DEFINE rec == [request[r] EXCEPT !.stage = "failed"]
  <1>1. request[r] \in Request
    BY DEF IInv, TypeOK
  <1>2. rec \in Request /\ rec.stage = "failed"
    BY <1>1 DEF Request
  <1>3. request' = [request EXCEPT ![r] = rec] /\ request'[r] = rec
        /\ UNCHANGED <<wanted, subs, owner, last, met>>
    BY DEF Fail, IInv, TypeOK
  <1> HIDE DEF rec
  <1>4. ~IsOpen(r)' /\ ~(In(r, "done"))'
    BY <1>2, <1>3 DEF IsOpen, In
  <1>5. Plans(r)'
    BY <1>4 DEF Plans, ActsOnWish, RejectsSeed, BringsUnanimous, ReadIsCurrent,
                AddsToOverlapped
  <1> QED
    BY <1>2, <1>3, <1>4, <1>5, OwnStep DEF IInv, TypeOK

-----------------------------------------------------------------------------
(***************************************************************************)
(* Steps that change the rows.                                             *)
(***************************************************************************)

\* A commit: what everybody wants is there, as nothing of it was deleted; no row
\* of the beginning comes back; and if the transaction was alone, its wish is
\* granted.
LEMMA CommitStep ==
    ASSUME IInv, NEW r \in Requests, Commit(r)
    PROVE  IInv'
  <1> DEFINE rec  == [request[r] EXCEPT !.stage = "done"]
             old  == request[r].for_delete
             new  == request[r].for_create
  <1>1. request[r] \in Request /\ request[r].stage = "inserted"
    BY DEF Commit, In, IInv, TypeOK
  <1>2. rec \in Request /\ rec.stage = "done"
    BY <1>1 DEF Request
  <1>3. request' \in [Requests -> Request] /\ request'[r].stage = "done"
        /\ \A q \in Requests : q # r => request'[q] = request[q]
    BY <1>2 DEF Commit, IInv, TypeOK
  <1>4. subs' = (subs \ old) \cup ({r} \X new) /\ last' = r
        /\ UNCHANGED <<wanted, owner, met>>
    BY DEF Commit
  <1>5. new \subseteq Events /\ {r} \X new \subseteq SubscriptionRow
    BY <1>1 DEF Request, SubscriptionRow
  <1>6. \A row \in subs' : \/ row \in subs \ old
                           \/ row[1] = r /\ row[2] \in new /\ row = <<r, row[2]>>
    <2>1. \A row \in {r} \X new : row[1] = r /\ row[2] \in new /\ row = <<r, row[2]>>
      OBVIOUS
    <2> QED
      BY <1>4, <2>1
  <1>7. TypeOK'
    BY <1>3, <1>4, <1>5 DEF IInv, TypeOK
  <1>8. EventsOf(subs') = EventsOf(subs \ old) \cup new
    <2>1. ASSUME NEW e \in new
          PROVE  <<r, e>> \in subs' /\ <<r, e>>[2] = e
      BY <1>4
    <2>2. subs \ old \subseteq subs'
      BY <1>4
    <2>3. \A e \in new : e \in EventsOf(subs')
      BY <2>1 DEF EventsOf
    <2> QED
      BY <1>6, <2>2, <2>3 DEF EventsOf
  <1>9. IsOpen(r) /\ ~IsOpen(r)' /\ (\A q \in Requests : q # r => (IsOpen(q)' <=> IsOpen(q)))
    BY <1>1, <1>3 DEF IsOpen
  <1>10. ASSUME NEW e \in Events, Unanimous(e), e \in new \/ e \in EventsOf(subs)
         PROVE  e \in EventsOf(subs')
    <2>1. \A row \in old : row[2] # e
      BY <1>9, <1>10 DEF IInv, Plans, ActsOnWish, Unanimous
    <2> QED
      BY <1>8, <1>10, <2>1 DEF EventsOf
  <1>11. \A q \in Requests : ActsOnWish(q)'
    BY <1>3, <1>4, <1>9 DEF IInv, Plans, ActsOnWish, IsOpen
  <1>12. ASSUME NEW q \in Requests
         PROVE  RejectsSeed(q)'
    <2>1. \A row \in subs' : row[1] = Seed => row \in subs \ old
      BY <1>6, SeedAssumption
    <2>2. CASE q = r
      BY <1>3, <1>4, <1>9, <2>1, <2>2 DEF IInv, Plans, RejectsSeed
    <2>3. CASE q # r
      BY <1>3, <1>4, <1>9, <2>1, <2>3 DEF IInv, Plans, RejectsSeed, In
    <2> QED
      BY <2>2, <2>3
  <1>13. ASSUME NEW q \in Requests
         PROVE  BringsUnanimous(q)'
    <2>1. CASE q = r
      BY <1>9, <2>1 DEF BringsUnanimous
    <2>2. CASE q # r
      <3>1. SUFFICES ASSUME IsOpen(q)', owner', NEW e \in Events, Unanimous(e)'
                     PROVE  e \in request'[q].for_create \/ e \in EventsOf(subs')
        BY DEF BringsUnanimous, EventsOf
      <3>2. IsOpen(q) /\ owner /\ Unanimous(e)
        BY <1>4, <1>9, <2>2, <3>1 DEF Unanimous
      <3>3. e \in request[q].for_create \/ e \in EventsOf(subs)
        BY <3>2 DEF IInv, Plans, BringsUnanimous
      <3> QED
        BY <1>3, <1>10, <2>2, <3>2, <3>3
    <2> QED
      BY <2>1, <2>2
  <1>14. ASSUME NEW q \in Requests
         PROVE  ReadIsCurrent(q)' /\ AddsToOverlapped(q)'
    <2>1. CASE q = r
      BY <1>9, <2>1 DEF ReadIsCurrent, AddsToOverlapped
    <2>2. CASE q # r
      <3>1. IsOpen(q)' => IsOpen(q) /\ Overlapped(q, r)
        BY <1>9, <2>2 DEF IInv, OpenOverlap
      <3>2. ReadIsCurrent(q)'
        BY <1>4, <3>1 DEF ReadIsCurrent, Alone, Overlapped
      <3>3. AddsToOverlapped(q)'
        BY <1>3, <1>4, <1>6, <2>2, <3>1 DEF IInv, Plans, AddsToOverlapped, Overlapped
      <3> QED
        BY <3>2, <3>3
    <2> QED
      BY <2>1, <2>2
  <1>15. WishGranted'
    <2>1. SUFFICES ASSUME owner, Alone(r)
                   PROVE  EventsOf(subs') = wanted[r]
      BY <1>4 DEF WishGranted, Alone, Overlapped, EventsOf
    <2>2. /\ old = {row \in subs : row[2] \notin wanted[r]}
          /\ new = wanted[r] \ EventsOf(subs)
      BY <1>9, <2>1 DEF IInv, Plans, ReadIsCurrent
    <2>3. EventsOf(subs \ old) = wanted[r] \cap EventsOf(subs)
      BY <2>2 DEF EventsOf
    <2> QED
      BY <1>8, <2>2, <2>3
  <1>16. TwinsOverlapped'
    <2>1. SUFFICES ASSUME NEW row \in subs', NEW other \in subs',
                          row[2] = other[2], row # other
                   PROVE  Overlapped(row[1], other[1])
      BY <1>4 DEF TwinsOverlapped, Overlapped
    <2>2. \A a \in subs : a[2] \in new => Overlapped(r, a[1])
      BY <1>9 DEF IInv, Plans, AddsToOverlapped
    <2>3. CASE row \in subs /\ other \in subs
      BY <2>1, <2>3 DEF IInv, TwinsOverlapped
    <2>4. CASE row \notin subs \/ other \notin subs
      BY <1>6, <2>1, <2>2, <2>4 DEF Overlapped
    <2> QED
      BY <2>3, <2>4
  <1>17. UnanimousKept'
    <2>1. SUFFICES ASSUME NEW e \in Events, owner', Unanimous(e)'
                   PROVE  e \in EventsOf(subs')
      BY DEF UnanimousKept, Unanimous, EventsOf
    <2>2. owner /\ Unanimous(e)
      BY <1>4, <2>1 DEF Unanimous
    <2>3. e \in new \/ e \in EventsOf(subs)
      BY <1>9, <2>2 DEF IInv, Plans, BringsUnanimous
    <2> QED
      BY <1>10, <2>2, <2>3
  <1>18. OpenOverlap'
    BY <1>4, <1>9 DEF IInv, OpenOverlap, Overlapped
  <1> QED
    BY <1>7, <1>11, <1>12, <1>13, <1>14, <1>15, <1>16, <1>17, <1>18 DEF IInv, Plans

\* The end of the user or the engine: nothing is left to keep.
LEMMA RemoveOwnerStep ==
    ASSUME IInv, RemoveOwner
    PROVE  IInv'
  <1>1. owner' = FALSE /\ subs' = {} /\ UNCHANGED <<wanted, request, last, met>>
    BY DEF RemoveOwner
  <1>2. TypeOK'
    BY <1>1 DEF IInv, TypeOK
  <1>3. \A q \in Requests : Plans(q)'
    BY <1>1 DEF IInv, Plans, ActsOnWish, RejectsSeed, BringsUnanimous, ReadIsCurrent,
                AddsToOverlapped, IsOpen, In
  <1>4. OpenOverlap' /\ WishGranted' /\ TwinsOverlapped' /\ UnanimousKept'
    BY <1>1 DEF IInv, OpenOverlap, IsOpen, Overlapped, WishGranted, TwinsOverlapped,
                UnanimousKept
  <1> QED
    BY <1>2, <1>3, <1>4 DEF IInv

-----------------------------------------------------------------------------
LEMMA Initially == Init => IInv
  <1> SUFFICES ASSUME Init
               PROVE  IInv
    OBVIOUS
  <1>1. \A q \in Requests : ~IsOpen(q) /\ ~In(q, "done")
    BY DEF Init, New, IsOpen, In
  <1>2. TypeOK
    BY DEF Init, TypeOK, New, Request, SubscriptionRow
  <1>3. TwinsOverlapped
    BY DEF Init, TwinsOverlapped
  <1> QED
    BY <1>1, <1>2, <1>3
    DEF IInv, Init, Plans, ActsOnWish, RejectsSeed, BringsUnanimous, ReadIsCurrent,
        AddsToOverlapped, OpenOverlap, WishGranted, UnanimousKept

LEMMA Inductive == IInv /\ [Next]_vars => IInv'
  <1> SUFFICES ASSUME IInv, [Next]_vars
               PROVE  IInv'
    OBVIOUS
  <1>1. CASE UNCHANGED vars
    BY <1>1
    DEF vars, IInv, TypeOK, Plans, ActsOnWish, RejectsSeed, BringsUnanimous, ReadIsCurrent,
        AddsToOverlapped, Alone, Overlapped, OpenOverlap, WishGranted, TwinsOverlapped,
        UnanimousKept, IsOpen, In, EventsOf, Unanimous
  <1>2. CASE Next
    BY <1>2, ReadStep, DeleteStep, InsertStep, CommitStep, FailStep, RemoveOwnerStep
    DEF Next
  <1> QED
    BY <1>1, <1>2

\* Every request, however many overlap, is at a step the invariant describes
\* (services/billing.py:32-62).
THEOREM Invariance == Spec => []IInv
  <1> QED
    BY Initially, Inductive, PTL DEF Spec

\* Requests and rows keep their types.
THEOREM TypeCorrect == Spec => []TypeOK
  <1>1. IInv => TypeOK
    BY DEF IInv
  <1> QED
    BY <1>1, Invariance, PTL

\* A request that overlapped with none leaves its user the events it wants and no
\* other, in whatever state older races left the rows (billing.py:35-37).
THEOREM LastWishGranted == Spec => []WishGranted
  <1>1. IInv => WishGranted
    BY DEF IInv
  <1> QED
    BY <1>1, Invariance, PTL

\* Any two rows that one user has of one event come from requests that overlapped,
\* so races alone bring the duplicates of finding 5, and no later request adds one.
THEOREM TwinsComeFromRaces == Spec => []TwinsOverlapped
  <1>1. IInv => TwinsOverlapped
    BY DEF IInv
  <1> QED
    BY <1>1, Invariance, PTL

\* A subscription that all requests agree on survives every race of any number
\* of them: no request deletes it, and each creates it if it saw none.
THEOREM AgreedIsKept == Spec => []UnanimousKept
  <1>1. IInv => UnanimousKept
    BY DEF IInv
  <1> QED
    BY <1>1, Invariance, PTL

\* No row of the beginning outlives a request that is done and did not want it,
\* even if the request's DELETE no longer found it.
THEOREM RejectedNeverBack == Spec => []RejectedStaysGone
  <1>1. IInv => RejectedStaysGone
    BY DEF IInv, Plans, RejectsSeed, RejectedStaysGone
  <1> QED
    BY <1>1, Invariance, PTL
===============================================================================
