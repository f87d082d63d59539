------------------------ MODULE KeyeventStreamProofs ------------------------
(***************************************************************************)
(* No entry of the keyevent stream is lost and none is given up early, for *)
(* any number of replicas, entries, retries and faults and any batch size. *)
(***************************************************************************)
EXTENDS KeyeventStream, WellFoundedInduction, TLAPS

(***************************************************************************)
(* Neither promise is inductive: what an acknowledgement takes off the     *)
(* list, and what goes to the dead-letter stream, was decided some steps   *)
(* earlier, and until then only local variables of the tasks know why.     *)
(* AckJustified and ReclaimJustified say what they know.                   *)
(***************************************************************************)
AckJustified(c) == toAck[c] # 0 => toAck[c] \in handled \cup Foreign

ReclaimJustified(c) ==
    /\ reclaimer[c].phase \in {"count", "handle"} => reclaimer[c].batch # {}
    /\ \A i \in reclaimer[c].over : deliveries[i] > MaxRetry
    /\ reclaimer[c].xacks \subseteq handled \cup dlq

Justified == \A c \in Consumers : AckJustified(c) /\ ReclaimJustified(c)

IInv == TypeOK /\ Justified /\ NothingLost /\ DeadLetterAfterRetries

-----------------------------------------------------------------------------
(***************************************************************************)
(* Min, which picks the next entry of a batch.                             *)
(***************************************************************************)

\* The order of the naturals is well-founded, in a form without operators.
LEMMA NatOrder ==
    \E R : /\ IsWellFoundedOn(R, Nat)
           /\ \A m, n \in Nat : m < n => <<m, n>> \in R
  <1>1. \A m, n \in Nat : m < n => <<m, n>> \in OpToRel(<, Nat)
    BY DEF OpToRel
  <1> QED
    BY <1>1, NatLessThanWellFounded

\* A set of naturals that is not empty has a least element.
LEMMA MinLeast ==
    ASSUME NEW S \in SUBSET Nat, S # {}
    PROVE  Min(S) \in S /\ \A i \in S : Min(S) <= i
  <1>1. PICK R : /\ IsWellFoundedOn(R, Nat)
                 /\ \A m, n \in Nat : m < n => <<m, n>> \in R
    BY NatOrder
  <1>2. IsWellFoundedOn(R, Nat)
    BY <1>1
  <1>3. PICK m \in S : \A i \in S : <<i, m>> \notin R
    BY <1>2, WFMin
  <1>4. ASSUME NEW i \in S
        PROVE  m <= i
    <2>1. i \in Nat /\ m \in Nat
      OBVIOUS
    <2>2. ~(i < m)
      BY <1>1, <1>3, <2>1
    <2> QED
      BY <2>1, <2>2
  <1> QED
    BY <1>4 DEF Min

LEMMA EntriesNat == Entries \subseteq Nat /\ 0 \notin Entries
  BY ConstantsAssumption DEF Entries

\* The next entry of a subscriber is one it read.
LEMMA NextIsRead ==
    ASSUME TypeOK, NEW c \in Consumers, inbox[c] # {}
    PROVE  Next1(c) \in inbox[c] /\ Next1(c) \in Entries
  <1>1. inbox[c] \in SUBSET Entries
    BY DEF TypeOK
  <1>2. inbox[c] \in SUBSET Nat
    BY <1>1, EntriesNat
  <1> QED
    BY <1>1, <1>2, MinLeast DEF Next1

\* The current entry of a reclaimer is one of its batch.
LEMMA CurrentIsClaimed ==
    ASSUME TypeOK, NEW c \in Consumers, reclaimer[c].batch # {}
    PROVE  Current(c) \in reclaimer[c].batch /\ Current(c) \in Entries
  <1>1. reclaimer[c].batch \in SUBSET Entries
    BY DEF TypeOK, Reclaimer
  <1>2. reclaimer[c].batch \in SUBSET Nat
    BY <1>1, EntriesNat
  <1> QED
    BY <1>1, <1>2, MinLeast DEF Current

\* XAUTOCLAIM claims pending entries and returns a position in the stream.
LEMMA ClaimedPending ==
    ASSUME TypeOK, NEW c \in Consumers
    PROVE  /\ Claimed(c) \subseteq Pending
           /\ Pending \subseteq 1 .. delivered
           /\ Claimed(c) \subseteq Entries
           /\ NextCursor(c) \in 0 .. NumEntries
  <1>1. Claimable(c) \subseteq Pending /\ Claimed(c) \subseteq Claimable(c)
    BY DEF TypeOK, Claimable, Claimed, First
  <1>2. Pending \subseteq 1 .. delivered /\ Pending \subseteq Entries
    BY ConstantsAssumption DEF TypeOK, Entries
  <1> DEFINE rest == {i \in Pending : \A j \in Claimed(c) : j < i}
  <1>3. ASSUME rest # {}
        PROVE  Min(rest) \in 0 .. NumEntries
    <2>1. rest \in SUBSET Entries
      BY <1>2
    <2>2. rest \in SUBSET Nat
      BY <2>1, EntriesNat
    <2>3. Min(rest) \in Entries
      BY <1>3, <2>1, <2>2, MinLeast
    <2> QED
      BY <2>3, ConstantsAssumption DEF Entries
  <1>4. 0 \in 0 .. NumEntries
    BY ConstantsAssumption
  <1>5. NextCursor(c) \in 0 .. NumEntries
    BY <1>3, <1>4 DEF NextCursor
  <1> QED
    BY <1>1, <1>2, <1>5

-----------------------------------------------------------------------------
(***************************************************************************)
(* What the calls of Redis do to the list of pending entries.              *)
(***************************************************************************)

\* Delivering entries that are pending or new settles none, and forgets no
\* delivery.
LEMMA DeliverKeeps ==
    ASSUME TypeOK, NEW c \in Consumers, NEW S \in SUBSET Entries, Deliver(c, S)
    PROVE  /\ Pending' = Pending \cup S
           /\ \A i \in Pending' : owner'[i] \in Consumers \cup {Gone}
           /\ idle' \subseteq Pending'
           /\ deliveries' \in [Entries -> 0 .. MaxRetry + 1]
           /\ \A i \in Entries : deliveries[i] > MaxRetry => deliveries'[i] > MaxRetry
  <1>1. ASSUME NEW i \in Entries
        PROVE  /\ deliveries[i] \in 0 .. MaxRetry + 1
               /\ deliveries[i] <= MaxRetry => deliveries[i] + 1 \in 0 .. MaxRetry + 1
    BY ConstantsAssumption DEF TypeOK
  <1>2. Pending' = Pending \cup S /\ \A i \in Pending' : owner'[i] \in Consumers \cup {Gone}
    BY DEF Deliver, Pending, TypeOK
  <1>3. deliveries' \in [Entries -> 0 .. MaxRetry + 1]
    BY <1>1 DEF Deliver
  <1>4. \A i \in Entries : deliveries[i] > MaxRetry => deliveries'[i] > MaxRetry
    BY <1>1, ConstantsAssumption DEF Deliver
  <1>5. idle' \subseteq Pending'
    BY <1>2 DEF Deliver, TypeOK
  <1> QED
    BY <1>2, <1>3, <1>4, <1>5

\* An acknowledgement settles the entries it names and no other.
LEMMA AckSettles ==
    ASSUME TypeOK, NEW S, Ack(S)
    PROVE  /\ Pending' = Pending \ S
           /\ \A i \in Pending' : owner'[i] \in Consumers \cup {Gone}
           /\ idle' \subseteq Pending'
           /\ Settled' \subseteq Settled \cup S
  BY DEF Ack, TypeOK, Pending, Settled

-----------------------------------------------------------------------------
(***************************************************************************)
(* The promises, kept from step to step.                                   *)
(***************************************************************************)

\* What an action has to respect: history and counts only grow, what it settles
\* or sends to the dead-letter stream is justified, and so is what a task that
\* it moves intends.
LEMMA PromisesKept ==
    ASSUME IInv,
           handled \subseteq handled', dlq \subseteq dlq',
           \A i \in Entries : deliveries[i] > MaxRetry => deliveries'[i] > MaxRetry,
           Settled' \subseteq Settled \cup handled' \cup dlq' \cup Foreign,
           \A i \in dlq' \ dlq : deliveries'[i] > MaxRetry,
           \A c \in Consumers : toAck'[c] = toAck[c] \/ AckJustified(c)',
           \A c \in Consumers : reclaimer'[c] = reclaimer[c] \/ ReclaimJustified(c)'
    PROVE  Justified' /\ NothingLost' /\ DeadLetterAfterRetries'
  <1>1. NothingLost'
    BY DEF IInv, NothingLost
  <1>2. DeadLetterAfterRetries'
    BY DEF IInv, TypeOK, DeadLetterAfterRetries
  <1>3. ASSUME NEW c \in Consumers
        PROVE  AckJustified(c)'
    BY DEF IInv, Justified, AckJustified
  <1>4. ASSUME NEW c \in Consumers
        PROVE  ReclaimJustified(c)'
    <2>1. reclaimer[c].over \subseteq Entries
      BY DEF IInv, TypeOK, Reclaimer
    <2>2. CASE reclaimer'[c] = reclaimer[c]
      BY <2>1, <2>2 DEF IInv, Justified, ReclaimJustified
    <2> QED
      BY <2>2
  <1> QED
    BY <1>1, <1>2, <1>3, <1>4 DEF Justified

\* The same for the steps that neither settle nor bury anything and leave the
\* tasks of other consumers alone.
LEMMA QuietKeeps ==
    ASSUME IInv, TypeOK', NEW c,
           handled \subseteq handled', dlq' = dlq,
           UNCHANGED <<appended, delivered, owner, deliveries>>,
           \A d \in Consumers \ {c} :
              toAck'[d] = toAck[d] /\ reclaimer'[d] = reclaimer[d],
           c \in Consumers => toAck'[c] = toAck[c] \/ AckJustified(c)',
           c \in Consumers => reclaimer'[c] = reclaimer[c] \/ ReclaimJustified(c)'
    PROVE  IInv'
  <1>1. Settled' = Settled
    BY DEF Settled, Pending
  <1> QED
    BY <1>1, PromisesKept DEF IInv

-----------------------------------------------------------------------------
(***************************************************************************)
(* Deliveries.                                                             *)
(***************************************************************************)

\* New entries are handed out: read by the subscriber, or by nobody who knows.
LEMMA ReadStep ==
    ASSUME IInv, NEW c \in Consumers, Read(c) \/ ReadLost(c)
    PROVE  IInv'
  <1> DEFINE new == (delivered + 1) .. appended
  <1>1. new \subseteq Entries /\ new \cap (1 .. delivered) = {}
    BY ConstantsAssumption DEF IInv, TypeOK, Entries
  <1>2. Deliver(c, new) /\ delivered' = appended /\ appended' = appended
    BY DEF Read, ReadLost
  <1>3. TypeOK
    BY DEF IInv
  <1>4. /\ Pending' = Pending \cup new
        /\ \A i \in Pending' : owner'[i] \in Consumers \cup {Gone}
        /\ idle' \subseteq Pending'
        /\ deliveries' \in [Entries -> 0 .. MaxRetry + 1]
        /\ \A i \in Entries : deliveries[i] > MaxRetry => deliveries'[i] > MaxRetry
    <2> HIDE DEF new
    <2> QED
      BY <1>1, <1>2, <1>3, DeliverKeeps
  <1>5. 1 .. delivered' = (1 .. delivered) \cup new
    BY <1>2, <1>3, ConstantsAssumption DEF TypeOK
  <1>6. /\ inbox' \in [Consumers -> SUBSET Entries]
        /\ faults' \in 0 .. MaxFaults
        /\ UNCHANGED <<toAck, reclaimer, handled, dlq>>
    BY <1>1, <1>3, ConstantsAssumption DEF Read, ReadLost, Fault, TypeOK
  <1>7. delivered' \in 0 .. appended' /\ appended' \in 0 .. NumEntries
    BY <1>2, <1>3, ConstantsAssumption DEF TypeOK
  <1>8. Pending' \subseteq 1 .. delivered'
    BY <1>3, <1>4, <1>5 DEF TypeOK
  <1>9. TypeOK'
    BY <1>3, <1>4, <1>6, <1>7, <1>8 DEF TypeOK
  <1>10. Settled' \subseteq Settled
    <2> HIDE DEF new
    <2> QED
      BY <1>4, <1>5 DEF Settled
  <1> QED
    BY <1>4, <1>6, <1>9, <1>10, PromisesKept DEF IInv

\* Idle entries change hands: claimed by the reclaimer, or by nobody who knows.
LEMMA ClaimStep ==
    ASSUME IInv, NEW c \in Consumers, Claim(c) \/ ClaimLost(c)
    PROVE  IInv'
  <1>1. TypeOK
    BY DEF IInv
  <1>2. /\ Claimed(c) \subseteq Pending /\ Claimed(c) \in SUBSET Entries
        /\ NextCursor(c) \in 0 .. NumEntries
    BY <1>1, ClaimedPending
  <1>3. /\ Deliver(c, Claimed(c))
        /\ UNCHANGED <<appended, delivered, inbox, toAck, handled, dlq>>
    BY DEF Claim, ClaimLost
  <1>4. /\ Pending' = Pending
        /\ \A i \in Pending' : owner'[i] \in Consumers \cup {Gone}
        /\ idle' \subseteq Pending'
        /\ deliveries' \in [Entries -> 0 .. MaxRetry + 1]
        /\ \A i \in Entries : deliveries[i] > MaxRetry => deliveries'[i] > MaxRetry
    BY <1>1, <1>2, <1>3, DeliverKeeps
  <1>5. faults' \in 0 .. MaxFaults
    BY <1>1, ConstantsAssumption DEF Claim, ClaimLost, Fault, TypeOK
  <1>6. /\ reclaimer' \in [Consumers -> Reclaimer]
        /\ \A d \in Consumers : reclaimer'[d] = reclaimer[d] \/ ReclaimJustified(d)'
    <2>1. CASE ClaimLost(c)
      BY <1>1, <2>1 DEF ClaimLost, TypeOK
    <2>2. CASE Claim(c)
      <3> DEFINE phase == IF Claimed(c) = {} THEN "claim" ELSE "count"
                 rec == [reclaimer[c] EXCEPT !.cursor = NextCursor(c),
                                             !.batch = Claimed(c), !.phase = phase]
      <3>1. reclaimer' = [reclaimer EXCEPT ![c] = rec] /\ reclaimer[c] \in Reclaimer
        BY <1>1, <2>2 DEF Claim, TypeOK
      <3>2. rec \in Reclaimer
        BY <1>2, <3>1 DEF Reclaimer
      <3>3. /\ rec.over = reclaimer[c].over /\ rec.xacks = reclaimer[c].xacks
            /\ rec.phase \in {"count", "handle"} => rec.batch # {}
        BY <3>1 DEF Reclaimer
      <3> HIDE DEF rec
      <3>4. reclaimer' \in [Consumers -> Reclaimer]
        BY <1>1, <3>1, <3>2 DEF TypeOK
      <3>5. reclaimer'[c] = rec /\ \A d \in Consumers \ {c} : reclaimer'[d] = reclaimer[d]
        BY <1>1, <3>1 DEF TypeOK
      <3>6. reclaimer[c].over \subseteq Entries
        BY <3>1 DEF Reclaimer
      <3>7. ReclaimJustified(c)'
        BY <1>3, <1>4, <3>3, <3>5, <3>6 DEF IInv, Justified, ReclaimJustified
      <3> QED
        BY <3>4, <3>5, <3>7
    <2> QED
      BY <2>1, <2>2
  <1>7. TypeOK'
    BY <1>1, <1>3, <1>4, <1>5, <1>6 DEF TypeOK
  <1>8. Settled' = Settled
    BY <1>3, <1>4 DEF Settled
  <1> QED
    BY <1>3, <1>4, <1>6, <1>7, <1>8, PromisesKept DEF IInv

-----------------------------------------------------------------------------
(***************************************************************************)
(* The subscriber's other steps.                                           *)
(***************************************************************************)

\* A handler returned: from now on the entry may be acknowledged.
LEMMA SubscriberHandlesStep ==
    ASSUME IInv, NEW c \in Consumers, SubscriberHandles(c)
    PROVE  IInv'
  <1>1. TypeOK
    BY DEF IInv
  <1>2. Next1(c) \in Entries
    BY <1>1, NextIsRead DEF SubscriberHandles
  <1>3. Next1(c) \in 0 .. NumEntries
    BY <1>2, ConstantsAssumption DEF Entries
  <1>4. TypeOK'
    BY <1>1, <1>2, <1>3 DEF SubscriberHandles, redis, TypeOK, Pending
  <1>5. toAck'[c] = Next1(c) /\ \A d \in Consumers \ {c} : toAck'[d] = toAck[d]
    BY <1>1 DEF SubscriberHandles, TypeOK
  <1>6. AckJustified(c)'
    BY <1>5 DEF SubscriberHandles, AckJustified
  <1> QED
    BY <1>4, <1>5, <1>6, QuietKeeps DEF SubscriberHandles, redis

\* The entry is passed over, or its acknowledgement failed.
LEMMA SubscriberSkipsStep ==
    ASSUME IInv, NEW c \in Consumers, SubscriberFails(c) \/ SubscriberAckFails(c)
    PROVE  IInv'
  <1>1. TypeOK
    BY DEF IInv
  <1>2. /\ UNCHANGED <<redis, reclaimer, handled, dlq>>
        /\ faults' \in 0 .. MaxFaults
        /\ inbox' \in [Consumers -> SUBSET Entries]
        /\ toAck' \in [Consumers -> 0 .. NumEntries]
        /\ \A d \in Consumers : toAck'[d] = toAck[d] \/ toAck'[d] = 0
        /\ \A d \in Consumers \ {c} : toAck'[d] = toAck[d]
    BY <1>1, ConstantsAssumption DEF SubscriberFails, SubscriberAckFails, Fault, TypeOK
  <1>3. TypeOK'
    BY <1>1, <1>2 DEF redis, TypeOK, Pending
  <1>4. toAck'[c] = toAck[c] \/ AckJustified(c)'
    BY <1>2 DEF AckJustified
  <1> QED
    BY <1>2, <1>3, <1>4, QuietKeeps DEF redis

\* What is acknowledged was handled, or is foreign, whoever owns it by now.
LEMMA SubscriberAcksStep ==
    ASSUME IInv, NEW c \in Consumers, SubscriberAcks(c)
    PROVE  IInv'
  <1>1. TypeOK
    BY DEF IInv
  <1>2. /\ Pending' = Pending \ {toAck[c]}
        /\ \A i \in Pending' : owner'[i] \in Consumers \cup {Gone}
        /\ idle' \subseteq Pending'
        /\ Settled' \subseteq Settled \cup {toAck[c]}
    BY <1>1, AckSettles DEF SubscriberAcks
  <1>3. UNCHANGED <<appended, delivered, deliveries, reclaimer, handled, dlq, faults>>
    BY DEF SubscriberAcks, Ack
  <1>4. /\ inbox' \in [Consumers -> SUBSET Entries]
        /\ toAck' \in [Consumers -> 0 .. NumEntries]
        /\ \A d \in Consumers : toAck'[d] = toAck[d] \/ toAck'[d] = 0
    BY <1>1, ConstantsAssumption DEF SubscriberAcks, TypeOK
  <1>5. TypeOK'
    BY <1>1, <1>2, <1>3, <1>4 DEF TypeOK
  <1>6. toAck[c] \in handled \cup Foreign
    BY DEF IInv, Justified, AckJustified, SubscriberAcks
  <1>7. \A d \in Consumers : toAck'[d] = toAck[d] \/ AckJustified(d)'
    BY <1>4 DEF AckJustified
  <1> QED
    BY <1>2, <1>3, <1>5, <1>6, <1>7, PromisesKept DEF IInv

-----------------------------------------------------------------------------
(***************************************************************************)
(* The reclaimer's other steps.                                            *)
(***************************************************************************)

\* Which entries are over the limit is decided by the counts of this moment,
\* and counts only grow.
LEMMA CountStep ==
    ASSUME IInv, NEW c \in Consumers, Count(c)
    PROVE  IInv'
  <1>1. TypeOK
    BY DEF IInv
  <1> DEFINE batch == reclaimer[c].batch
             own == {i \in Pending : /\ owner[i] = c
                                     /\ Min(batch) <= i /\ i <= Max(batch)}
             over == {i \in batch \cap First(Cardinality(batch), own) :
                         deliveries[i] > MaxRetry}
             rec == [reclaimer[c] EXCEPT !.over = over, !.phase = "handle"]
  <1>2. /\ In(c, "count") /\ reclaimer' = [reclaimer EXCEPT ![c] = rec]
        /\ UNCHANGED <<redis, inbox, toAck, handled, dlq, faults>>
    BY <1>1 DEF Count, TypeOK
  <1>3. reclaimer[c] \in Reclaimer /\ over \subseteq batch
    BY <1>1 DEF TypeOK
  <1>4. \A i \in over : deliveries[i] > MaxRetry
    OBVIOUS
  <1> HIDE DEF over
  <1>5. rec \in Reclaimer
    BY <1>3 DEF Reclaimer
  <1>6. /\ rec.batch = batch /\ rec.over = over /\ rec.xacks = reclaimer[c].xacks
    BY <1>3 DEF Reclaimer
  <1> HIDE DEF rec, batch
  <1>7. reclaimer' \in [Consumers -> Reclaimer]
    BY <1>1, <1>2, <1>5 DEF TypeOK
  <1>8. reclaimer'[c] = rec /\ \A d \in Consumers \ {c} : reclaimer'[d] = reclaimer[d]
    BY <1>1, <1>2 DEF TypeOK
  <1>9. TypeOK'
    BY <1>1, <1>2, <1>7 DEF redis, TypeOK, Pending
  <1>10. ReclaimJustified(c)'
    BY <1>2, <1>4, <1>6, <1>8
       DEF IInv, Justified, ReclaimJustified, In, redis, batch
  <1> QED
    BY <1>2, <1>8, <1>9, <1>10, QuietKeeps DEF redis

\* Done with one entry, the loop still has the rest of the batch to go through.
LEMMA AdvanceKeeps ==
    ASSUME TypeOK, Justified, NEW c \in Consumers, In(c, "handle"),
           NEW xacks \in SUBSET Entries, Advance(c, xacks)
    PROVE  /\ reclaimer' \in [Consumers -> Reclaimer]
           /\ \A d \in Consumers \ {c} : reclaimer'[d] = reclaimer[d]
           /\ reclaimer'[c].phase \in {"count", "handle"} => reclaimer'[c].batch # {}
           /\ reclaimer'[c].over \subseteq reclaimer[c].over
           /\ reclaimer'[c].xacks = xacks
  <1> DEFINE rest == reclaimer[c].batch \ {Current(c)}
             over == IF rest = {} THEN {} ELSE reclaimer[c].over
             phase == IF rest # {} THEN "handle"
                      ELSE IF xacks # {} THEN "ack" ELSE "claim"
             rec == [reclaimer[c] EXCEPT !.batch = rest, !.xacks = xacks,
                                         !.over = over, !.phase = phase]
  <1>1. reclaimer[c] \in Reclaimer
    BY DEF TypeOK
  <1>2. reclaimer' = [reclaimer EXCEPT ![c] = rec]
    BY DEF Advance, TypeOK
  <1>3. /\ rest \subseteq Entries /\ over \subseteq reclaimer[c].over /\ over \subseteq Entries
    BY <1>1 DEF Reclaimer
  <1>4. /\ phase \in {"claim", "count", "handle", "ack", "dead"}
        /\ phase \in {"count", "handle"} => rest # {}
    OBVIOUS
  <1> HIDE DEF rest, over, phase
  <1>5. rec \in Reclaimer
    BY <1>1, <1>3, <1>4 DEF Reclaimer
  <1>6. rec.batch = rest /\ rec.xacks = xacks /\ rec.over = over /\ rec.phase = phase
    BY <1>1 DEF Reclaimer
  <1> HIDE DEF rec
  <1>7. reclaimer'[c] = rec /\ \A d \in Consumers \ {c} : reclaimer'[d] = reclaimer[d]
    BY <1>2 DEF TypeOK
  <1>8. reclaimer' \in [Consumers -> Reclaimer]
    BY <1>2, <1>5 DEF TypeOK
  <1> QED
    BY <1>3, <1>4, <1>6, <1>7, <1>8

\* An entry is buried only if it is over the limit, and is acknowledged later.
LEMMA DeadLetterStep ==
    ASSUME IInv, NEW c \in Consumers, DeadLetter(c)
    PROVE  IInv'
  <1>1. TypeOK /\ Justified
    BY DEF IInv
  <1> DEFINE xacks == reclaimer[c].xacks \cup {Current(c)}
  <1>2. /\ In(c, "handle") /\ Current(c) \in reclaimer[c].over
        /\ dlq' = dlq \cup {Current(c)} /\ Advance(c, xacks)
        /\ UNCHANGED <<redis, inbox, toAck, handled, faults>>
    BY DEF DeadLetter
  <1>3. /\ Current(c) \in Entries /\ deliveries[Current(c)] > MaxRetry
        /\ reclaimer[c].xacks \subseteq Entries
    BY <1>1, <1>2 DEF TypeOK, Reclaimer, Justified, ReclaimJustified
  <1>4. xacks \in SUBSET Entries /\ xacks \subseteq handled' \cup dlq'
    BY <1>1, <1>2, <1>3 DEF Justified, ReclaimJustified
  <1> HIDE DEF xacks
  <1>5. /\ reclaimer' \in [Consumers -> Reclaimer]
        /\ \A d \in Consumers \ {c} : reclaimer'[d] = reclaimer[d]
        /\ reclaimer'[c].phase \in {"count", "handle"} => reclaimer'[c].batch # {}
        /\ reclaimer'[c].over \subseteq reclaimer[c].over
        /\ reclaimer'[c].xacks = xacks
    BY <1>1, <1>2, <1>4, AdvanceKeeps
  <1>6. TypeOK'
    BY <1>1, <1>2, <1>3, <1>5 DEF redis, TypeOK, Pending
  <1>7. ReclaimJustified(c)'
    BY <1>1, <1>2, <1>4, <1>5 DEF Justified, ReclaimJustified, redis
  <1>8. Settled' = Settled
    BY <1>2 DEF Settled, Pending, redis
  <1> QED
    BY <1>2, <1>3, <1>5, <1>6, <1>7, <1>8, PromisesKept DEF IInv, redis

\* A retry that succeeded is acknowledged later, one that failed is not.
LEMMA RetryStep ==
    ASSUME IInv, NEW c \in Consumers, ReclaimerHandles(c) \/ ReclaimerFails(c)
    PROVE  IInv'
  <1>1. TypeOK /\ Justified
    BY DEF IInv
  <1>2. In(c, "handle") /\ UNCHANGED <<redis, inbox, toAck, dlq, faults>>
    BY DEF ReclaimerHandles, ReclaimerFails, Retried
  <1>3. Current(c) \in Entries
    BY <1>1, <1>2, CurrentIsClaimed DEF Justified, ReclaimJustified, In
  <1>4. PICK xacks \in SUBSET Entries :
            /\ Advance(c, xacks)
            /\ xacks \subseteq handled' \cup dlq
            /\ handled \subseteq handled' /\ handled' \subseteq Entries
    <2>1. reclaimer[c].xacks \subseteq Entries /\ reclaimer[c].xacks \subseteq handled \cup dlq
      BY <1>1 DEF TypeOK, Reclaimer, Justified, ReclaimJustified
    <2>2. handled \subseteq Entries
      BY <1>1 DEF TypeOK
    <2>3. CASE ReclaimerHandles(c)
      <3> DEFINE xacks == reclaimer[c].xacks \cup {Current(c)}
      <3>1. handled' = handled \cup {Current(c)} /\ Advance(c, xacks)
        BY <2>3 DEF ReclaimerHandles
      <3>2. xacks \in SUBSET Entries /\ xacks \subseteq handled' \cup dlq
        BY <1>3, <2>1, <3>1
      <3> HIDE DEF xacks
      <3> QED
        BY <1>3, <2>2, <3>1, <3>2
    <2>4. CASE ReclaimerFails(c)
      <3> DEFINE xacks == reclaimer[c].xacks
      <3>1. handled' = handled /\ Advance(c, xacks)
        BY <2>4 DEF ReclaimerFails
      <3>2. xacks \in SUBSET Entries /\ xacks \subseteq handled' \cup dlq
        BY <2>1, <3>1
      <3> HIDE DEF xacks
      <3> QED
        BY <2>2, <3>1, <3>2
    <2> QED
      BY <2>3, <2>4
  <1>5. /\ reclaimer' \in [Consumers -> Reclaimer]
        /\ \A d \in Consumers \ {c} : reclaimer'[d] = reclaimer[d]
        /\ reclaimer'[c].phase \in {"count", "handle"} => reclaimer'[c].batch # {}
        /\ reclaimer'[c].over \subseteq reclaimer[c].over
        /\ reclaimer'[c].xacks = xacks
    BY <1>1, <1>2, <1>4, AdvanceKeeps
  <1>6. TypeOK'
    BY <1>1, <1>2, <1>4, <1>5 DEF redis, TypeOK, Pending
  <1>7. ReclaimJustified(c)'
    BY <1>1, <1>2, <1>4, <1>5 DEF Justified, ReclaimJustified, redis
  <1> QED
    BY <1>2, <1>4, <1>5, <1>6, <1>7, QuietKeeps DEF redis

\* A reclaimer that has nothing in hand has nothing to justify.
LEMMA StartedJustified ==
    ASSUME NEW c \in Consumers, NEW phase \in {"claim", "dead"}
    PROVE  /\ [Started EXCEPT !.phase = phase] \in Reclaimer
           /\ reclaimer'[c] = [Started EXCEPT !.phase = phase] => ReclaimJustified(c)'
  <1>1. [Started EXCEPT !.phase = phase]
           = [phase |-> phase, cursor |-> 0, batch |-> {}, over |-> {}, xacks |-> {}]
    BY DEF Started
  <1>2. phase \notin {"count", "handle"}
    OBVIOUS
  <1> QED
    BY <1>1, <1>2, ConstantsAssumption DEF Reclaimer, ReclaimJustified

\* The task ends, with an error of a handler that cannot be caught or of Redis;
\* the entry it was about to bury may be buried.
LEMMA ReclaimerEndsStep ==
    ASSUME IInv, NEW c \in Consumers, ReclaimerChokes(c) \/ GiveUp(c)
    PROVE  IInv'
  <1>1. TypeOK /\ Justified
    BY DEF IInv
  <1>2. /\ UNCHANGED <<redis, inbox, toAck, handled>>
        /\ reclaimer' = [reclaimer EXCEPT ![c] = [Started EXCEPT !.phase = "dead"]]
        /\ faults' \in 0 .. MaxFaults
    BY <1>1, ConstantsAssumption DEF ReclaimerChokes, GiveUp, Fault, TypeOK
  <1>3. /\ [Started EXCEPT !.phase = "dead"] \in Reclaimer
        /\ reclaimer'[c] = [Started EXCEPT !.phase = "dead"] => ReclaimJustified(c)'
    BY StartedJustified
  <1>4. /\ reclaimer' \in [Consumers -> Reclaimer] /\ ReclaimJustified(c)'
        /\ \A d \in Consumers \ {c} : reclaimer'[d] = reclaimer[d]
    BY <1>1, <1>2, <1>3 DEF TypeOK
  <1>5. /\ dlq \subseteq dlq' /\ dlq' \subseteq Entries
        /\ \A i \in dlq' \ dlq : deliveries[i] > MaxRetry
    BY <1>1 DEF ReclaimerChokes, GiveUp, TypeOK, Reclaimer, Justified, ReclaimJustified
  <1>6. TypeOK'
    BY <1>1, <1>2, <1>4, <1>5 DEF redis, TypeOK, Pending
  <1>7. Settled' = Settled
    BY <1>2 DEF Settled, Pending, redis
  <1> QED
    BY <1>2, <1>4, <1>5, <1>6, <1>7, PromisesKept DEF IInv, redis

\* The acknowledgement at the end of a batch names what was retried with success
\* or buried, and nothing else.
LEMMA ReclaimerAcksStep ==
    ASSUME IInv, NEW c \in Consumers, ReclaimerAcks(c)
    PROVE  IInv'
  <1>1. TypeOK /\ Justified
    BY DEF IInv
  <1> DEFINE rec == [reclaimer[c] EXCEPT !.phase = "claim", !.xacks = {}]
  <1>2. /\ Ack(reclaimer[c].xacks) /\ UNCHANGED <<inbox, toAck, handled, dlq, faults>>
        /\ reclaimer' = [reclaimer EXCEPT ![c] = rec]
    BY <1>1 DEF ReclaimerAcks, TypeOK
  <1>3. /\ Pending' = Pending \ reclaimer[c].xacks
        /\ \A i \in Pending' : owner'[i] \in Consumers \cup {Gone}
        /\ idle' \subseteq Pending'
        /\ Settled' \subseteq Settled \cup reclaimer[c].xacks
        /\ UNCHANGED <<appended, delivered, deliveries>>
    <2>1. UNCHANGED <<appended, delivered, deliveries>>
      BY <1>2 DEF Ack
    <2> QED
      BY <1>1, <1>2, <2>1, AckSettles
  <1>4. reclaimer[c] \in Reclaimer
    BY <1>1 DEF TypeOK
  <1>5. /\ rec \in Reclaimer
        /\ rec.phase = "claim" /\ rec.over = reclaimer[c].over /\ rec.xacks = {}
    BY <1>4 DEF Reclaimer
  <1> HIDE DEF rec
  <1>6. /\ reclaimer' \in [Consumers -> Reclaimer]
        /\ reclaimer'[c] = rec
        /\ \A d \in Consumers \ {c} : reclaimer'[d] = reclaimer[d]
    BY <1>1, <1>2, <1>5 DEF TypeOK
  <1>7. TypeOK'
    BY <1>1, <1>2, <1>3, <1>6 DEF TypeOK
  <1>8. reclaimer[c].xacks \subseteq handled \cup dlq
    BY <1>1 DEF Justified, ReclaimJustified
  <1>9. ReclaimJustified(c)'
    BY <1>1, <1>3, <1>5, <1>6 DEF Justified, ReclaimJustified
  <1> QED
    BY <1>2, <1>3, <1>6, <1>7, <1>8, <1>9, PromisesKept DEF IInv

-----------------------------------------------------------------------------
(***************************************************************************)
(* The rest, and the invariant.                                            *)
(***************************************************************************)

\* The process is started again: its entries are pending for a consumer that
\* is gone.
LEMMA RestartStep ==
    ASSUME IInv, NEW c \in Consumers, Restart(c)
    PROVE  IInv'
  <1>1. TypeOK
    BY DEF IInv
  <1>2. Started = [Started EXCEPT !.phase = "claim"]
    BY DEF Started
  <1>3. Started \in Reclaimer /\ (reclaimer'[c] = Started => ReclaimJustified(c)')
    BY <1>2, StartedJustified
  <1>4. /\ UNCHANGED <<appended, delivered, idle, deliveries, handled, dlq>>
        /\ Pending' = Pending
        /\ \A i \in Pending' : owner'[i] \in Consumers \cup {Gone}
    BY <1>1 DEF Restart, TypeOK, Pending
  <1>5. faults' \in 0 .. MaxFaults /\ inbox' \in [Consumers -> SUBSET Entries]
    BY <1>1, ConstantsAssumption DEF Restart, Fault, TypeOK
  <1>6. /\ toAck' \in [Consumers -> 0 .. NumEntries] /\ toAck'[c] = 0
        /\ \A d \in Consumers \ {c} : toAck'[d] = toAck[d]
    BY <1>1, ConstantsAssumption DEF Restart, TypeOK
  <1>7. /\ reclaimer' \in [Consumers -> Reclaimer] /\ ReclaimJustified(c)'
        /\ \A d \in Consumers \ {c} : reclaimer'[d] = reclaimer[d]
    BY <1>1, <1>3 DEF Restart, TypeOK
  <1>8. TypeOK'
    BY <1>1, <1>4, <1>5, <1>6, <1>7 DEF TypeOK
  <1>9. Settled' = Settled /\ AckJustified(c)'
    BY <1>4, <1>6 DEF Settled, AckJustified
  <1> QED
    BY <1>4, <1>6, <1>7, <1>8, <1>9, PromisesKept DEF IInv

\* The producer appends, and time passes.
LEMMA EnvironmentStep ==
    ASSUME IInv, Append \/ \E i \in Entries : GetIdle(i)
    PROVE  IInv'
  <1>1. TypeOK
    BY DEF IInv
  <1>2. TypeOK'
    <2>1. CASE Append
      BY <1>1, <2>1, ConstantsAssumption DEF Append, TypeOK, Pending
    <2>2. ASSUME NEW i \in Entries, GetIdle(i)
          PROVE  TypeOK'
      BY <1>1, <2>2 DEF GetIdle, TypeOK, Pending
    <2> QED
      BY <2>1, <2>2
  <1>3. UNCHANGED <<delivered, owner, deliveries, toAck, reclaimer, handled, dlq>>
    BY DEF Append, GetIdle
  <1>4. Settled' = Settled
    BY <1>3 DEF Settled, Pending
  <1> QED
    BY <1>2, <1>3, <1>4, PromisesKept DEF IInv

LEMMA InitInv == Init => IInv
  <1> SUFFICES ASSUME Init
               PROVE  IInv
    OBVIOUS
  <1>1. Started \in Reclaimer
    BY ConstantsAssumption DEF Started, Reclaimer
  <1>2. TypeOK
    BY <1>1, ConstantsAssumption DEF Init, TypeOK, Pending
  <1>3. Justified
    BY DEF Init, Justified, AckJustified, ReclaimJustified, Started
  <1>4. NothingLost /\ DeadLetterAfterRetries
    BY DEF Init, NothingLost, Settled, Pending, DeadLetterAfterRetries
  <1> QED
    BY <1>2, <1>3, <1>4 DEF IInv

LEMMA StepInv == IInv /\ [Next]_vars => IInv'
  <1> SUFFICES ASSUME IInv, [Next]_vars
               PROVE  IInv'
    OBVIOUS
  <1>1. CASE Append \/ \E i \in Entries : GetIdle(i)
    BY <1>1, EnvironmentStep
  <1>2. ASSUME NEW c \in Consumers, Subscriber(c) \/ ReadLost(c) \/ SubscriberAckFails(c)
        PROVE  IInv'
    BY <1>2, ReadStep, SubscriberHandlesStep, SubscriberSkipsStep, SubscriberAcksStep
       DEF Subscriber
  <1>3. ASSUME NEW c \in Consumers, ReclaimerTask(c) \/ ClaimLost(c) \/ GiveUp(c)
        PROVE  IInv'
    BY <1>3, ClaimStep, CountStep, DeadLetterStep, RetryStep, ReclaimerEndsStep,
       ReclaimerAcksStep DEF ReclaimerTask
  <1>4. ASSUME NEW c \in Consumers, Restart(c)
        PROVE  IInv'
    BY <1>4, RestartStep
  <1>5. CASE UNCHANGED vars
    <2>1. UNCHANGED <<appended, delivered, owner, idle, deliveries, inbox, toAck,
                      reclaimer, handled, dlq, faults>>
      BY <1>5 DEF vars, redis
    <2>2. TypeOK'
      BY <2>1 DEF IInv, TypeOK, Pending
    <2>3. Settled' = Settled
      BY <2>1 DEF Settled, Pending
    <2> QED
      BY <2>1, <2>2, <2>3, PromisesKept DEF IInv
  <1> QED
    BY <1>1, <1>2, <1>3, <1>4, <1>5 DEF Next

\* The state of Redis, of the tasks and of their local variables is well-formed.
THEOREM Invariance == Spec => []IInv
  BY InitInv, StepInv, PTL DEF Spec

\* Redis and the tasks agree on their types: only entries that were delivered are
\* pending, every one with an owner, and counts end at the limit that matters.
THEOREM TypeCorrect == Spec => []TypeOK
  BY Invariance, PTL DEF IInv

\* Whatever crashes, gets lost or changes hands: an entry that is off the list
\* was handled, or is kept in the dead-letter stream, or is not about an engine.
THEOREM EveryEntryAccounted == Spec => []NothingLost
  BY Invariance, PTL DEF IInv

\* However stale the counts a reclaimer goes by, it buries no entry that was not
\* delivered more than MAX_RETRY times.
THEOREM NoneBuriedEarly == Spec => []DeadLetterAfterRetries
  BY Invariance, PTL DEF IInv

\* No read, claim or restart, however late, puts an entry back on the list.
LEMMA SettledKept == TypeOK /\ [Next]_vars => Settled \subseteq Settled'
  <1> SUFFICES ASSUME TypeOK, [Next]_vars
               PROVE  Settled \subseteq Settled'
    OBVIOUS
  <1>1. ASSUME NEW c \in Consumers, Read(c) \/ ReadLost(c)
        PROVE  Settled \subseteq Settled'
    <2>1. /\ Deliver(c, (delivered + 1) .. appended)
          /\ delivered' = appended /\ delivered <= appended
          /\ appended \in Nat /\ delivered \in Nat
      BY <1>1, ConstantsAssumption DEF Read, ReadLost, TypeOK
    <2>2. Pending' = Pending \cup ((delivered + 1) .. appended)
      BY <2>1 DEF Deliver, Pending
    <2> QED
      BY <2>1, <2>2 DEF Settled
  <1>2. ASSUME NEW c \in Consumers, Claim(c) \/ ClaimLost(c)
        PROVE  Settled \subseteq Settled'
    <2>1. Deliver(c, Claimed(c)) /\ delivered' = delivered
      BY <1>2 DEF Claim, ClaimLost
    <2>2. Claimed(c) \subseteq Pending
      BY ClaimedPending
    <2>3. Pending' = Pending
      BY <2>1, <2>2 DEF Deliver, Pending
    <2> QED
      BY <2>1, <2>3 DEF Settled
  <1>3. ASSUME NEW c \in Consumers, SubscriberAcks(c) \/ ReclaimerAcks(c)
        PROVE  Settled \subseteq Settled'
    BY <1>3 DEF SubscriberAcks, ReclaimerAcks, Ack, Settled, Pending
  <1>4. ASSUME delivered' = delivered, Pending' = Pending
        PROVE  Settled \subseteq Settled'
    BY <1>4 DEF Settled
  <1>5. ASSUME NEW c \in Consumers, Restart(c)
        PROVE  delivered' = delivered /\ Pending' = Pending
    BY <1>5 DEF Restart, Pending
  <1>6. ASSUME NEW c \in Consumers,
               \/ SubscriberHandles(c) \/ SubscriberFails(c) \/ SubscriberAckFails(c)
               \/ Count(c) \/ DeadLetter(c) \/ ReclaimerHandles(c) \/ ReclaimerFails(c)
               \/ ReclaimerChokes(c) \/ GiveUp(c)
        PROVE  delivered' = delivered /\ Pending' = Pending
    BY <1>6 DEF SubscriberHandles, SubscriberFails, SubscriberAckFails, Count, DeadLetter,
       ReclaimerHandles, ReclaimerFails, ReclaimerChokes, GiveUp, redis, Pending
  <1>7. CASE Append \/ (\E i \in Entries : GetIdle(i)) \/ UNCHANGED vars
    BY <1>4, <1>7 DEF Append, GetIdle, vars, redis, Pending
  <1> QED
    BY <1>1, <1>2, <1>3, <1>4, <1>5, <1>6, <1>7 DEF Next, Subscriber, ReclaimerTask

\* What is settled stays settled.
THEOREM SettledForGood == Spec => [][Settled \subseteq Settled']_vars
  BY TypeCorrect, SettledKept, PTL DEF Spec

\* What a step hands to a task was new or on the list.
HandsOutRest ==
    /\ 1 .. delivered \subseteq 1 .. delivered'
    /\ \A c \in Consumers :
          /\ inbox'[c] \subseteq inbox[c] \cup ((1 .. delivered') \ (1 .. delivered))
          /\ reclaimer'[c].batch \subseteq reclaimer[c].batch \cup Pending

LEMMA NewInHands ==
    ASSUME TypeOK, [Next]_vars
    PROVE  HandsOutRest
  <1>1. ASSUME NEW c \in Consumers, Read(c) \/ ReadLost(c)
        PROVE  HandsOutRest
    <2> DEFINE new == (delivered + 1) .. appended
    <2>1. /\ delivered' = appended /\ delivered <= appended
          /\ appended \in Nat /\ delivered \in Nat
      BY <1>1, ConstantsAssumption DEF Read, ReadLost, TypeOK
    <2>2. /\ 1 .. delivered \subseteq 1 .. delivered'
          /\ new \subseteq (1 .. delivered') \ (1 .. delivered)
      BY <2>1
    <2> HIDE DEF new
    <2>3. reclaimer' = reclaimer /\ inbox' \in {inbox, [inbox EXCEPT ![c] = new]}
      BY <1>1 DEF Read, ReadLost, new
    <2>4. \A d \in Consumers : inbox'[d] \in {inbox[d], new}
      BY <2>3 DEF TypeOK
    <2> QED
      BY <2>2, <2>3, <2>4 DEF HandsOutRest
  <1>2. ASSUME NEW c \in Consumers, Claim(c)
        PROVE  HandsOutRest
    <2>1. Claimed(c) \subseteq Pending
      BY ClaimedPending
    <2>2. \A d \in Consumers : reclaimer'[d].batch \in {reclaimer[d].batch, Claimed(c)}
      BY <1>2 DEF Claim, TypeOK, Reclaimer
    <2>3. UNCHANGED <<delivered, inbox>>
      BY <1>2 DEF Claim
    <2> QED
      BY <2>1, <2>2, <2>3 DEF HandsOutRest
  <1>3. ASSUME delivered' = delivered,
               \A c \in Consumers : /\ inbox'[c] \subseteq inbox[c]
                                    /\ reclaimer'[c].batch \subseteq reclaimer[c].batch
        PROVE  HandsOutRest
    BY <1>3 DEF HandsOutRest
  <1>4. ASSUME NEW c \in Consumers,
               \/ SubscriberHandles(c) \/ SubscriberFails(c)
               \/ SubscriberAcks(c) \/ SubscriberAckFails(c)
        PROVE  HandsOutRest
    <2>1. delivered' = delivered /\ reclaimer' = reclaimer
      BY <1>4 DEF SubscriberHandles, SubscriberFails, SubscriberAcks, SubscriberAckFails,
                  Ack, redis
    <2>2. \A d \in Consumers : inbox'[d] \subseteq inbox[d]
      BY <1>4 DEF SubscriberHandles, SubscriberFails, SubscriberAcks, SubscriberAckFails,
                  TypeOK
    <2> QED
      BY <1>3, <2>1, <2>2
  <1>5. ASSUME NEW c \in Consumers,
               \/ ClaimLost(c) \/ Count(c) \/ ReclaimerAcks(c)
               \/ ReclaimerChokes(c) \/ GiveUp(c) \/ Restart(c)
        PROVE  HandsOutRest
    <2>1. delivered' = delivered /\ \A d \in Consumers : inbox'[d] \subseteq inbox[d]
      BY <1>5 DEF ClaimLost, Count, ReclaimerAcks, ReclaimerChokes, GiveUp, Restart, Ack,
                  redis, TypeOK
    <2>2. \A d \in Consumers : reclaimer'[d].batch \subseteq reclaimer[d].batch
      BY <1>5 DEF ClaimLost, Count, ReclaimerAcks, ReclaimerChokes, GiveUp, Restart,
                  Started, TypeOK, Reclaimer
    <2> QED
      BY <1>3, <2>1, <2>2
  <1>6. ASSUME NEW c \in Consumers,
               DeadLetter(c) \/ ReclaimerHandles(c) \/ ReclaimerFails(c)
        PROVE  HandsOutRest
    <2>1. UNCHANGED <<delivered, inbox>>
      BY <1>6 DEF DeadLetter, ReclaimerHandles, ReclaimerFails, redis
    <2>2. PICK xacks : Advance(c, xacks)
      BY <1>6 DEF DeadLetter, ReclaimerHandles, ReclaimerFails
    <2>3. \A d \in Consumers : reclaimer'[d].batch \subseteq reclaimer[d].batch
      BY <2>2 DEF Advance, TypeOK, Reclaimer
    <2> QED
      BY <1>3, <2>1, <2>3
  <1>7. CASE Append \/ (\E i \in Entries : GetIdle(i)) \/ UNCHANGED vars
    BY <1>3, <1>7 DEF Append, GetIdle, vars, redis
  <1> QED
    BY <1>1, <1>2, <1>4, <1>5, <1>6, <1>7 DEF Next, Subscriber, ReclaimerTask

\* The tasks have only entries to handle that the group delivered, whoever they
\* were delivered to.
OnlyDelivered ==
    \A c \in Consumers : /\ inbox[c] \subseteq 1 .. delivered
                         /\ reclaimer[c].batch \subseteq 1 .. delivered

LEMMA OnlyDeliveredKept == TypeOK /\ OnlyDelivered /\ [Next]_vars => OnlyDelivered'
  BY NewInHands DEF HandsOutRest, OnlyDelivered, TypeOK

LEMMA DoneKept ==
    ASSUME TypeOK, [Next]_vars, NEW i, Done(i)
    PROVE  Done(i)'
  <1>1. i \in Settled'
    BY SettledKept DEF Done
  <1>2. i \in 1 .. delivered /\ i \notin Pending
    BY DEF Done, Settled
  <1>3. ~InHands(i)'
    BY <1>2, NewInHands DEF HandsOutRest, Done, InHands
  <1> QED
    BY <1>1, <1>3 DEF Done

\* An entry that is settled and in no task's hands is never handed out again, by
\* a read, a claim, or a restart.
THEOREM DoneForGood == Spec => [][\A i \in Entries : Done(i) => Done(i)']_vars
  <1>1. TypeOK /\ [Next]_vars => [\A i \in Entries : Done(i) => Done(i)']_vars
    BY DoneKept
  <1> QED
    BY <1>1, TypeCorrect, PTL DEF Spec

-----------------------------------------------------------------------------
(***************************************************************************)
(* Entries with a foreign key.  The subscriber acknowledges one at once    *)
(* (AckMessage); to the reclaimer, which calls the same handler, AckMessage *)
(* is an unhandled error, so an entry whose subscriber was cut off is tried *)
(* over and over until it is dead-lettered as if it were a failure.        *)
(***************************************************************************)

\* Nothing foreign counts as handled.
ForeignUnhandled == handled \cap Foreign = {}

LEMMA ForeignUnhandledKept == ForeignUnhandled /\ [Next]_vars => ForeignUnhandled'
  BY DEF ForeignUnhandled, Next, Subscriber, ReclaimerTask, Append, GetIdle, Read, ReadLost,
         SubscriberHandles, SubscriberFails, SubscriberAcks, SubscriberAckFails, Claim,
         ClaimLost, Count, DeadLetter, ReclaimerHandles, ReclaimerFails, ReclaimerChokes,
         ReclaimerAcks, GiveUp, Restart, vars

\* What a foreign entry may be taken off the list for.
ForeignExcused(i) == i \in dlq \/ \E c \in Consumers : toAck[c] = i

LEMMA ForeignStep ==
    ASSUME IInv, ForeignUnhandled, [Next]_vars,
           NEW i \in Foreign, i \in Pending, i \notin Pending'
    PROVE  ForeignExcused(i)
  <1>1. TypeOK
    BY DEF IInv
  <1>2. ASSUME NEW c \in Consumers, SubscriberAcks(c)
        PROVE  ForeignExcused(i)
    BY <1>1, <1>2, AckSettles DEF SubscriberAcks, ForeignExcused
  <1>3. ASSUME NEW c \in Consumers, ReclaimerAcks(c)
        PROVE  ForeignExcused(i)
    <2>1. i \in reclaimer[c].xacks
      BY <1>1, <1>3, AckSettles DEF ReclaimerAcks
    <2>2. reclaimer[c].xacks \subseteq handled \cup dlq
      BY DEF IInv, Justified, ReclaimJustified
    <2> QED
      BY <2>1, <2>2 DEF ForeignUnhandled, ForeignExcused
  <1>4. ASSUME Pending \subseteq Pending'
        PROVE  FALSE
    BY <1>4
  <1>5. ASSUME NEW c \in Consumers,
               \/ Read(c) \/ ReadLost(c) \/ Claim(c) \/ ClaimLost(c) \/ Restart(c)
        PROVE  Pending \subseteq Pending'
    BY <1>5 DEF Read, ReadLost, Claim, ClaimLost, Restart, Deliver, Pending
  <1>6. CASE UNCHANGED owner
    BY <1>4, <1>6 DEF Pending
  <1> QED
    BY <1>2, <1>3, <1>4, <1>5, <1>6
       DEF Next, Subscriber, ReclaimerTask, Append, GetIdle, SubscriberHandles,
           SubscriberFails, SubscriberAckFails, Count, DeadLetter, ReclaimerHandles,
           ReclaimerFails, ReclaimerChokes, GiveUp, redis, vars

\* A foreign entry leaves the list only because a subscriber acknowledges it or
\* because it is in the dead-letter stream: no reclaimer settles it otherwise.
THEOREM ForeignSetAside ==
    Spec => [][\A i \in Foreign : i \in Pending /\ i \notin Pending' => ForeignExcused(i)]_vars
  <1>1. Init => ForeignUnhandled
    BY DEF Init, ForeignUnhandled
  <1>2. IInv /\ ForeignUnhandled /\ [Next]_vars =>
          [\A i \in Foreign : i \in Pending /\ i \notin Pending' => ForeignExcused(i)]_vars
    BY ForeignStep
  <1> QED
    BY <1>1, <1>2, ForeignUnhandledKept, Invariance, PTL DEF Spec
=============================================================================
