-------------------------- MODULE EngineRestartProofs --------------------------
(***************************************************************************)
(* Units of work are atomic, and no engine is called without reason, for   *)
(* any number of requests, handlers and removals and any number of retries.*)
(***************************************************************************)
EXTENDS EngineRestart, TLAPS

(***************************************************************************)
(* A unit of work.  The task of the caller and the one of _finish share    *)
(* the exception and the server's transaction, and run on when the other   *)
(* is gone: UnitJustified says what the state of one means for the other.  *)
(***************************************************************************)
UnitJustified(u) ==
    /\ task[u] \in {"idle", "body"} => finisher[u] = "none" /\ exc[u] = "none"
    /\ task[u] = "idle" => done[u] = 0 /\ server[u] = "none" /\ u \notin held
    /\ task[u] = "body" => server[u] \in {"none", "open"}
    /\ task[u] = "body" /\ u \in Handlers /\ done[u] > 0 => server[u] = "open"
    /\ task[u] = "finish" => finisher[u] \in {"commit", "rollback", "close"}
    /\ task[u] \in {"returned", "failed"} => finisher[u] = "done"
    /\ task[u] = "returned" => exc[u] = "none"
    /\ task[u] = "cancelled" => finisher[u] # "none"
    /\ finisher[u] = "none" => task[u] \in {"idle", "body"}
    /\ finisher[u] = "commit" => exc[u] = "none" /\ server[u] \in {"open", "committed"}
    /\ finisher[u] = "rollback" => exc[u] # "none"
    /\ finisher[u] = "close" /\ exc[u] = "none" /\ u \in Handlers => server[u] = "committed"
    /\ finisher[u] = "done" => u \notin held /\ task[u] \in {"returned", "failed", "cancelled"}
    /\ exc[u] = "body" => server[u] \notin {"committed", "sent"}

UnitsInv == U!TypeOK /\ \A u \in Units : UnitJustified(u)

(***************************************************************************)
(* A request.  Between the check and the call anything may happen to the   *)
(* row, so what the check found is kept in `alive'; and the calls come     *)
(* only after the session is closed for good.                              *)
(***************************************************************************)
Made(r) == calls[r] # "none" \/ \E m \in network \cup restarted : m[1] = r

RequestJustified(r) ==
    /\ read[r] = "up" => r \in alive
    /\ task[r] \in {"finish", "returned"} /\ exc[r] = "none" => read[r] = "up"
    /\ Made(r) => finisher[r] = "done" /\ r \in alive
    /\ calls[r] = "none" => attempt[r] = 0
    /\ calls[r] = "delay" => attempt[r] < MaxAttempts
    /\ \A m \in network \cup restarted : m[1] = r => m[2] <= attempt[r]

IInv == TypeOK /\ UnitsInv /\ \A r \in Requests : RequestJustified(r)

-----------------------------------------------------------------------------
(***************************************************************************)
(* Units of work implement transactions.  EffectOf and AnswerOf are what   *)
(* the refinement mapping of UnitOfWork makes of a unit.                   *)
(***************************************************************************)
EffectOf(u) ==
    IF server[u] \in {"committed", "aborted"} THEN server[u]
    ELSE IF finisher[u] = "done" /\ server[u] # "sent" THEN "aborted" ELSE "open"

AnswerOf(u) ==
    CASE task[u] = "returned" -> "ok"
      [] task[u] = "failed" -> IF exc[u] = "body" THEN "error" ELSE "unknown"
      [] task[u] = "cancelled" -> "unknown"
      [] OTHER -> "none"

\* What one step may do with one unit: decide its effect once, and tell its
\* caller once, and nothing that is not so.
Truthful(u) ==
    /\ EffectOf(u)' = EffectOf(u) \/ EffectOf(u) = "open"
    /\ \/ AnswerOf(u)' = AnswerOf(u)
       \/ /\ AnswerOf(u) = "none"
          /\ AnswerOf(u)' = "ok" => EffectOf(u)' = "committed"
          /\ AnswerOf(u)' = "error" => EffectOf(u)' = "aborted"

Untouched(u) ==
    /\ task'[u] = task[u] /\ finisher'[u] = finisher[u] /\ exc'[u] = exc[u]
    /\ done'[u] = done[u] /\ server'[u] = server[u] /\ (u \in held' <=> u \in held)

\* A step of unit u keeps the invariant and is truthful.
UnitStep(u) ==
    /\ U!TypeOK'
    /\ \A v \in Units : v # u => Untouched(v)
    /\ UnitJustified(u)'
    /\ u \in Handlers => Truthful(u)

LEMMA Mapped ==
    /\ U!Atomic!Init <=> /\ [u \in Handlers |-> EffectOf(u)] = [u \in Handlers |-> "open"]
                         /\ [u \in Handlers |-> AnswerOf(u)] = [u \in Handlers |-> "none"]
    /\ U!Atomic!vars = <<[u \in Handlers |-> EffectOf(u)], [u \in Handlers |-> AnswerOf(u)]>>
  BY DEF U!Atomic!Init, U!Atomic!vars, EffectOf, AnswerOf

LEMMA TypedUnit ==
    ASSUME U!TypeOK, NEW u \in Units
    PROVE  /\ task[u] \in U!TaskStates /\ finisher[u] \in U!FinisherStates
           /\ exc[u] \in {"none", "body", "cancel", "finish"}
           /\ server[u] \in U!ServerStates
           /\ done[u] \in Nat /\ done[u] <= Length[u]
           /\ Length[u] \in Nat \ {0}
  BY UnitsAssumption DEF U!TypeOK, U!UnitsAssumption

LEMMA TypedLength == \A u \in Units : Length[u] \in Nat /\ 0 <= Length[u]
  BY DEF Length

\* The steps of UnitOfWork, each with what it makes of the five variables of its
\* unit.
LEMMA StartStep ==
    ASSUME UnitsInv, NEW u \in Units, U!Start(u)
    PROVE  UnitStep(u)
  <1>1. UnitJustified(u)
    BY DEF UnitsInv
  <1>2. task'[u] = "body" /\ UNCHANGED <<finisher, exc, done, server, held>>
    BY DEF U!Start, UnitsInv, U!TypeOK
  <1>3. U!TypeOK' /\ \A v \in Units : v # u => Untouched(v)
    BY DEF U!Start, UnitsInv, U!TypeOK, U!TaskStates, Untouched
  <1>4. UnitJustified(u)'
    BY <1>1, <1>2 DEF UnitJustified, U!Start
  <1>5. Truthful(u)
    BY <1>2 DEF Truthful, EffectOf, AnswerOf, U!Start
  <1> QED
    BY <1>3, <1>4, <1>5 DEF UnitStep

\* The first statement of a transaction opens it at the server.
LEMMA Executed ==
    ASSUME UnitsInv, NEW u \in Units, U!Executes(u)
    PROVE  /\ done' \in [Units -> Nat] /\ done'[u] <= Length[u]
           /\ server' \in [Units -> U!ServerStates]
           /\ u \in Handlers => server'[u] = "open"
           /\ u \notin Handlers => server'[u] = server[u]
           /\ \A v \in Units : v # u => done'[v] = done[v] /\ server'[v] = server[v]
  <1>1. done[u] \in Nat /\ Length[u] \in Nat
    BY TypedUnit DEF UnitsInv
  <1>2. done' \in [Units -> Nat] /\ done'[u] <= Length[u]
        /\ \A v \in Units : v # u => done'[v] = done[v]
    BY <1>1 DEF U!Executes, UnitsInv, U!TypeOK
  <1>3. /\ server' \in [Units -> U!ServerStates]
        /\ u \in Handlers => server'[u] = "open"
        /\ u \notin Handlers => server'[u] = server[u]
        /\ \A v \in Units : v # u => server'[v] = server[v]
    BY DEF U!Executes, UnitsInv, U!TypeOK, U!ServerStates
  <1> QED
    BY <1>2, <1>3

LEMMA StatementStep ==
    ASSUME UnitsInv, NEW u \in Units, U!Statement(u)
    PROVE  UnitStep(u)
  <1>1. UnitJustified(u) /\ task[u] = "body"
    BY DEF UnitsInv, U!Statement
  <1>2. UNCHANGED <<task, finisher, exc>> /\ held' = held \cup {u} /\ U!Executes(u)
    BY DEF U!Statement
  <1>3. U!TypeOK' /\ \A v \in Units : v # u => Untouched(v)
    BY <1>2, Executed DEF UnitsInv, U!TypeOK, Untouched
  <1>4. UnitJustified(u)'
    BY <1>1, <1>2, Executed DEF UnitJustified
  <1>5. u \in Handlers => Truthful(u)
    BY <1>1, <1>2, Executed DEF Truthful, EffectOf, AnswerOf, UnitJustified
  <1> QED
    BY <1>3, <1>4, <1>5 DEF UnitStep

LEMMA BodyEndsStep ==
    ASSUME UnitsInv, NEW u \in Units, U!BodyEnds(u)
    PROVE  UnitStep(u)
  <1>1. UnitJustified(u) /\ task[u] = "body" /\ done[u] = Length[u] /\ Length[u] > 0
    BY TypedUnit DEF UnitsInv, U!BodyEnds
  <1>2. /\ task'[u] = "finish" /\ finisher'[u] = IF u \in Handlers THEN "commit" ELSE "close"
        /\ UNCHANGED <<exc, done, server, held>>
        /\ \A v \in Units : v # u => task'[v] = task[v] /\ finisher'[v] = finisher[v]
    BY DEF U!BodyEnds, UnitsInv, U!TypeOK
  <1>3. U!TypeOK'
    BY DEF U!BodyEnds, UnitsInv, U!TypeOK, U!TaskStates, U!FinisherStates
  <1>4. \A v \in Units : v # u => Untouched(v)
    BY <1>2 DEF Untouched
  <1>5. UnitJustified(u)'
    BY <1>1, <1>2 DEF UnitJustified
  <1>6. u \in Handlers => Truthful(u)
    BY <1>1, <1>2 DEF Truthful, EffectOf, AnswerOf, UnitJustified
  <1> QED
    BY <1>3, <1>4, <1>5, <1>6 DEF UnitStep

LEMMA InterruptedStep ==
    ASSUME UnitsInv, NEW u \in Units, NEW e \in {"body", "cancel"}, U!Interrupted(u, e)
    PROVE  UnitStep(u)
  <1>1. UnitJustified(u) /\ task[u] = "body" /\ server[u] \in {"none", "open"}
    BY DEF UnitsInv, U!Interrupted, U!Raises, UnitJustified
  <1>2. /\ task'[u] = "finish" /\ finisher'[u] = IF u \in Handlers THEN "rollback" ELSE "close"
        /\ exc'[u] = e
        /\ \A v \in Units : v # u => /\ task'[v] = task[v] /\ finisher'[v] = finisher[v]
                                     /\ exc'[v] = exc[v]
    BY DEF U!Interrupted, U!Raises, UnitsInv, U!TypeOK
  <1>3. /\ done' \in [Units -> Nat] /\ done'[u] <= Length[u]
        /\ server' \in [Units -> U!ServerStates]
        /\ server'[u] \in {"none", "open", "aborted"}
        /\ \A v \in Units : v # u => done'[v] = done[v] /\ server'[v] = server[v]
        /\ held' \in {held, held \cup {u}}
    <2>1. CASE U!Executes(u) /\ held' = held \cup {u}
      BY <1>1, <2>1, Executed
    <2>2. CASE UNCHANGED <<done, server, held>>
      BY <1>1, <2>2 DEF UnitsInv, U!TypeOK
    <2>3. CASE server' = [server EXCEPT ![u] = "aborted"] /\ UNCHANGED <<done, held>>
      BY <2>3 DEF UnitsInv, U!TypeOK, U!ServerStates
    <2> QED
      BY <2>1, <2>2, <2>3 DEF U!Interrupted, U!Raises
  <1>4. U!TypeOK'
    <2>1. /\ task' \in [Units -> U!TaskStates] /\ finisher' \in [Units -> U!FinisherStates]
          /\ exc' \in [Units -> {"none", "body", "cancel", "finish"}]
      BY DEF U!Interrupted, U!Raises, UnitsInv, U!TypeOK, U!TaskStates, U!FinisherStates
    <2> QED
      BY <1>3, <2>1 DEF UnitsInv, U!TypeOK
  <1>5. \A v \in Units : v # u => Untouched(v)
    BY <1>2, <1>3 DEF Untouched
  <1>6. UnitJustified(u)'
    BY <1>2, <1>3 DEF UnitJustified
  <1>7. u \in Handlers => Truthful(u)
    BY <1>1, <1>2 DEF Truthful, EffectOf, AnswerOf, UnitJustified
  <1> QED
    BY <1>4, <1>5, <1>6, <1>7 DEF UnitStep

\* A caller that is cancelled while it waits leaves _finish to itself.
LEMMA CancelStep ==
    ASSUME UnitsInv, NEW u \in Units, U!Cancel(u)
    PROVE  UnitStep(u)
  <1>1. CASE U!Interrupted(u, "cancel")
    BY <1>1, InterruptedStep
  <1>2. CASE task[u] = "finish" /\ task' = [task EXCEPT ![u] = "cancelled"]
             /\ UNCHANGED <<finisher, exc, done, server, held>>
    <2>1. UnitJustified(u)
      BY DEF UnitsInv
    <2>2. task'[u] = "cancelled" /\ \A v \in Units : v # u => task'[v] = task[v]
      BY <1>2 DEF UnitsInv, U!TypeOK
    <2>3. U!TypeOK' /\ \A v \in Units : v # u => Untouched(v)
      BY <1>2, <2>2 DEF UnitsInv, U!TypeOK, U!TaskStates, Untouched
    <2>4. UnitJustified(u)'
      BY <1>2, <2>1, <2>2 DEF UnitJustified
    <2>5. u \in Handlers => Truthful(u)
      BY <1>2, <2>1, <2>2 DEF Truthful, EffectOf, AnswerOf, UnitJustified
    <2> QED
      BY <2>3, <2>4, <2>5 DEF UnitStep
  <1> QED
    BY <1>1, <1>2 DEF U!Cancel

\* commit() is the server's decision; whether its answer comes back is another
\* matter, and a rollback after it changes nothing.
LEMMA CommitStep ==
    ASSUME UnitsInv, NEW u \in Units,
           \/ U!ServerCommits(u) \/ U!CommitAnswered(u) \/ U!CommitFails(u)
           \/ U!Rollback(u)
    PROVE  UnitStep(u)
  <1>1. UnitJustified(u) /\ finisher[u] \in {"commit", "rollback"}
    BY DEF UnitsInv, U!ServerCommits, U!CommitAnswered, U!CommitFails, U!Rollback
  <1>2. UNCHANGED <<task, done, held>> /\ task[u] \in {"finish", "cancelled"}
        /\ task' \in [Units -> U!TaskStates]
    <2>1. task[u] \in U!TaskStates
      BY TypedUnit DEF UnitsInv
    <2> QED
      BY <1>1, <2>1 DEF U!ServerCommits, U!CommitAnswered, U!CommitFails, U!Rollback,
                        UnitJustified, U!TaskStates, UnitsInv, U!TypeOK
  <1>3. CASE U!ServerCommits(u)
    <2>1. /\ finisher[u] = "commit" /\ server[u] = "open" /\ server'[u] = "committed"
          /\ UNCHANGED <<finisher, exc>>
          /\ \A v \in Units : v # u => server'[v] = server[v]
      BY <1>3 DEF U!ServerCommits, UnitsInv, U!TypeOK
    <2>2. U!TypeOK' /\ \A v \in Units : v # u => Untouched(v)
      BY <1>2, <1>3, <2>1 DEF U!ServerCommits, UnitsInv, U!TypeOK, U!ServerStates, Untouched
    <2>3. UnitJustified(u)' /\ Truthful(u)
      BY <1>1, <1>2, <2>1 DEF UnitJustified, Truthful, EffectOf, AnswerOf
    <2> QED
      BY <2>2, <2>3 DEF UnitStep
  <1>4. CASE U!CommitAnswered(u)
    <2>1. /\ server[u] = "committed" /\ finisher'[u] = "close" /\ UNCHANGED <<exc, server>>
          /\ \A v \in Units : v # u => finisher'[v] = finisher[v]
      BY <1>4 DEF U!CommitAnswered, UnitsInv, U!TypeOK
    <2>2. U!TypeOK' /\ \A v \in Units : v # u => Untouched(v)
      BY <1>2, <1>4, <2>1 DEF U!CommitAnswered, UnitsInv, U!TypeOK, U!FinisherStates, Untouched
    <2>3. UnitJustified(u)' /\ Truthful(u)
      BY <1>1, <1>2, <2>1 DEF UnitJustified, Truthful, EffectOf, AnswerOf
    <2> QED
      BY <2>2, <2>3 DEF UnitStep
  <1>5. CASE U!CommitFails(u)
    <2>1. /\ finisher[u] = "commit" /\ finisher'[u] = "rollback" /\ exc'[u] = "finish"
          /\ \/ server'[u] = server[u]
             \/ server[u] = "open" /\ server'[u] = "sent"
          /\ \A v \in Units : v # u => /\ finisher'[v] = finisher[v] /\ exc'[v] = exc[v]
                                       /\ server'[v] = server[v]
      BY <1>5 DEF U!CommitFails, U!Sent, UnitsInv, U!TypeOK
    <2>2. U!TypeOK' /\ \A v \in Units : v # u => Untouched(v)
      BY <1>2, <1>5, <2>1 DEF U!CommitFails, U!Sent, UnitsInv, U!TypeOK, U!FinisherStates,
                               U!ServerStates, Untouched
    <2>3. UnitJustified(u)' /\ Truthful(u)
      BY <1>1, <1>2, <2>1 DEF UnitJustified, Truthful, EffectOf, AnswerOf
    <2> QED
      BY <2>2, <2>3 DEF UnitStep
  <1>6. CASE U!Rollback(u)
    <2>1. /\ finisher[u] = "rollback" /\ finisher'[u] = "close" /\ UNCHANGED exc
          /\ \/ server'[u] = server[u]
             \/ server[u] = "open" /\ server'[u] = "aborted"
          /\ \A v \in Units : v # u => finisher'[v] = finisher[v] /\ server'[v] = server[v]
      BY <1>6 DEF U!Rollback, U!Aborted, UnitsInv, U!TypeOK
    <2>2. U!TypeOK' /\ \A v \in Units : v # u => Untouched(v)
      BY <1>2, <1>6, <2>1
      DEF U!Rollback, U!Aborted, UnitsInv, U!TypeOK, U!FinisherStates, U!ServerStates, Untouched
    <2>3. UnitJustified(u)' /\ Truthful(u)
      BY <1>1, <1>2, <2>1 DEF UnitJustified, Truthful, EffectOf, AnswerOf
    <2> QED
      BY <2>2, <2>3 DEF UnitStep
  <1> QED
    BY <1>3, <1>4, <1>5, <1>6

\* A COMMIT that was under way is decided when its caller was told "unknown" or
\* is about to be.
LEMMA LateStep ==
    ASSUME UnitsInv, NEW u \in Units, U!DecidesLate(u)
    PROVE  UnitStep(u)
  <1>1. UnitJustified(u) /\ server[u] = "sent"
    BY DEF UnitsInv, U!DecidesLate
  <1>2. /\ server'[u] \in {"committed", "aborted"}
        /\ UNCHANGED <<task, finisher, exc, done, held>>
        /\ \A v \in Units : v # u => server'[v] = server[v]
    BY DEF U!DecidesLate, UnitsInv, U!TypeOK
  <1>3. U!TypeOK' /\ \A v \in Units : v # u => Untouched(v)
    BY <1>2 DEF U!DecidesLate, UnitsInv, U!TypeOK, U!ServerStates, Untouched
  <1>4. UnitJustified(u)'
    BY <1>1, <1>2 DEF UnitJustified
  <1>5. Truthful(u)
    BY <1>1, <1>2 DEF Truthful, EffectOf, AnswerOf
  <1> QED
    BY <1>3, <1>4, <1>5 DEF UnitStep

\* The caller returns only from a commit that was answered, and gets the body's
\* error only from a transaction that was never committed.
LEMMA CloseStep ==
    ASSUME UnitsInv, NEW u \in Units, U!Close(u)
    PROVE  UnitStep(u)
  <1>1. UnitJustified(u) /\ finisher[u] = "close"
    BY DEF UnitsInv, U!Close
  <1>2. /\ task[u] \in {"finish", "cancelled"}
        /\ exc[u] \in {"none", "body", "cancel", "finish"}
        /\ server[u] \in U!ServerStates
    BY <1>1, TypedUnit DEF UnitsInv, UnitJustified, U!TaskStates
  <1>3. /\ finisher'[u] = "done" /\ done'[u] = 0 /\ u \notin held'
        /\ exc'[u] \in {exc[u], "finish"}
        /\ server'[u] = IF server[u] = "open" THEN "aborted" ELSE server[u]
        /\ task'[u] = IF task[u] = "finish" THEN U!Ended(u) ELSE task[u]
    BY DEF U!Close, U!Aborted, UnitsInv, U!TypeOK
  <1>4. U!Ended(u) = IF exc'[u] = "none" THEN "returned"
                     ELSE IF exc'[u] = "cancel" THEN "cancelled" ELSE "failed"
    BY DEF U!Ended
  <1>5. U!TypeOK'
    <2>1. /\ finisher' \in [Units -> U!FinisherStates] /\ done' \in [Units -> Nat]
          /\ exc' \in [Units -> {"none", "body", "cancel", "finish"}]
          /\ server' \in [Units -> U!ServerStates]
          /\ held' \subseteq Units
      BY DEF U!Close, U!Aborted, UnitsInv, U!TypeOK, U!FinisherStates, U!ServerStates
    <2>2. task' \in [Units -> U!TaskStates]
      <3>1. U!Ended(u) \in U!TaskStates
        BY <1>4 DEF U!TaskStates
      <3> QED
        BY <3>1 DEF U!Close, UnitsInv, U!TypeOK
    <2>3. \A v \in Units : done'[v] <= Length[v]
      <3>1. \A v \in Units : done'[v] = done[v] \/ done'[v] = 0
        BY DEF U!Close, UnitsInv, U!TypeOK
      <3> QED
        BY <3>1, TypedUnit DEF UnitsInv
    <2> QED
      BY <2>1, <2>2, <2>3 DEF U!TypeOK
  <1>6. \A v \in Units : v # u => Untouched(v)
    BY DEF U!Close, U!Aborted, UnitsInv, U!TypeOK, Untouched
  <1>7. UnitJustified(u)'
    BY <1>1, <1>2, <1>3, <1>4 DEF UnitJustified
  <1>8. u \in Handlers => Truthful(u)
    <2>1. /\ EffectOf(u) = IF server[u] \in {"committed", "aborted"} THEN server[u] ELSE "open"
          /\ EffectOf(u)' = IF server[u] = "committed" THEN "committed"
                            ELSE IF server[u] = "sent" THEN "open" ELSE "aborted"
      BY <1>1, <1>2, <1>3 DEF EffectOf
    <2>2. /\ AnswerOf(u) = IF task[u] = "cancelled" THEN "unknown" ELSE "none"
          /\ task[u] = "cancelled" => AnswerOf(u)' = "unknown"
          /\ AnswerOf(u)' = "ok" => exc'[u] = "none"
          /\ AnswerOf(u)' = "error" => exc'[u] = "body"
      BY <1>2, <1>3, <1>4 DEF AnswerOf
    <2>3. u \in Handlers /\ exc'[u] = "none" => server[u] = "committed"
      BY <1>1, <1>3 DEF UnitJustified
    <2>4. exc'[u] = "body" => server[u] \notin {"committed", "sent"}
      BY <1>1, <1>3 DEF UnitJustified
    <2> QED
      BY <2>1, <2>2, <2>3, <2>4 DEF Truthful
  <1> QED
    BY <1>5, <1>6, <1>7, <1>8 DEF UnitStep

\* The end of the process tells nobody, and leaves only a COMMIT under way.
LEMMA DiesStep ==
    ASSUME UnitsInv, NEW u \in Units, U!Dies(u)
    PROVE  UnitStep(u)
  <1>1. UnitJustified(u) /\ task[u] # "idle" /\ finisher[u] # "done"
    BY DEF UnitsInv, U!Dies
  <1>2. /\ task[u] \in {"body", "finish", "cancelled"}
        /\ server[u] \in U!ServerStates
    BY <1>1, TypedUnit DEF UnitsInv, UnitJustified, U!TaskStates
  <1>3. /\ task'[u] = "cancelled" /\ finisher'[u] = "done" /\ exc'[u] = "cancel"
        /\ done'[u] = 0 /\ u \notin held'
        /\ \/ server'[u] = server[u]
           \/ server[u] = "open" /\ server'[u] \in {"aborted", "sent"}
    BY DEF U!Dies, U!Aborted, U!Sent, UnitsInv, U!TypeOK
  <1>4. U!TypeOK'
    <2>1. /\ task' \in [Units -> U!TaskStates] /\ finisher' \in [Units -> U!FinisherStates]
          /\ done' \in [Units -> Nat] /\ exc' \in [Units -> {"none", "body", "cancel", "finish"}]
          /\ held' \subseteq Units
      BY DEF U!Dies, UnitsInv, U!TypeOK, U!TaskStates, U!FinisherStates
    <2>2. server' \in [Units -> U!ServerStates]
      BY DEF U!Dies, U!Aborted, U!Sent, UnitsInv, U!TypeOK, U!ServerStates
    <2>3. \A v \in Units : done'[v] <= Length[v]
      <3>1. \A v \in Units : done'[v] = done[v] \/ done'[v] = 0
        BY DEF U!Dies, UnitsInv, U!TypeOK
      <3> QED
        BY <3>1, TypedUnit DEF UnitsInv
    <2> QED
      BY <2>1, <2>2, <2>3 DEF U!TypeOK
  <1>5. \A v \in Units : v # u => Untouched(v)
    BY DEF U!Dies, U!Aborted, U!Sent, UnitsInv, U!TypeOK, Untouched
  <1>6. UnitJustified(u)'
    BY <1>3 DEF UnitJustified
  <1>7. Truthful(u)
    <2>1. /\ EffectOf(u) = IF server[u] \in {"committed", "aborted"} THEN server[u] ELSE "open"
          /\ server[u] \in {"committed", "aborted"} => EffectOf(u)' = server[u]
      BY <1>1, <1>2, <1>3 DEF EffectOf
    <2>2. /\ AnswerOf(u) = IF task[u] = "cancelled" THEN "unknown" ELSE "none"
          /\ AnswerOf(u)' = "unknown"
      BY <1>2, <1>3 DEF AnswerOf
    <2> QED
      BY <2>1, <2>2 DEF Truthful
  <1> QED
    BY <1>4, <1>5, <1>6, <1>7 DEF UnitStep

\* Any step of one unit.
StepOf(u) == U!Start(u) \/ U!Progress(u) \/ U!BodyFails(u) \/ U!Cancel(u) \/ U!Dies(u)

LEMMA EveryUnitStep ==
    ASSUME UnitsInv, NEW u \in Units, StepOf(u)
    PROVE  UnitStep(u)
  <1>1. CASE U!BodyFails(u)
    BY <1>1, InterruptedStep DEF U!BodyFails
  <1> QED
    BY <1>1, StartStep, StatementStep, BodyEndsStep, CancelStep, CommitStep, LateStep,
       CloseStep, DiesStep DEF StepOf, U!Progress, U!Finish

LEMMA UnitsKept ==
    ASSUME UnitsInv, NEW u \in Units, UnitStep(u)
    PROVE  UnitsInv'
  <1>1. ASSUME NEW v \in Units, v # u
        PROVE  UnitJustified(v)'
    <2>1. UnitJustified(v) /\ Untouched(v)
      BY <1>1 DEF UnitsInv, UnitStep
    <2> QED
      BY <2>1 DEF UnitJustified, Untouched
  <1> QED
    BY <1>1 DEF UnitStep, UnitsInv

\* A truthful step is one of the abstract transaction, or none.
LEMMA TruthfulImplements ==
    ASSUME NEW u \in Units, UnitStep(u)
    PROVE  [U!Atomic!Next]_(U!Atomic!vars)
  <1> DEFINE effect == [v \in Handlers |-> EffectOf(v)]
             answer == [v \in Handlers |-> AnswerOf(v)]
  <1>1. \A v \in Handlers : v # u => EffectOf(v)' = EffectOf(v) /\ AnswerOf(v)' = AnswerOf(v)
    BY DEF UnitStep, Untouched, EffectOf, AnswerOf, Units
  <1>2. CASE u \notin Handlers
    <2>1. effect' = effect /\ answer' = answer
      BY <1>1, <1>2
    <2> QED
      BY <2>1 DEF U!Atomic!vars, EffectOf, AnswerOf
  <1>3. CASE u \in Handlers
    <2>1. effect' = [effect EXCEPT ![u] = EffectOf(u)']
      BY <1>1, <1>3
    <2>2. answer' = [answer EXCEPT ![u] = AnswerOf(u)']
      BY <1>1, <1>3
    <2>3. effect[u] = EffectOf(u) /\ effect'[u] = EffectOf(u)'
          /\ answer[u] = AnswerOf(u) /\ answer'[u] = AnswerOf(u)'
      BY <1>3
    <2>4. /\ EffectOf(u)' \in {"open", "committed", "aborted"}
          /\ AnswerOf(u)' \in {"none", "ok", "error", "unknown"}
      BY DEF EffectOf, AnswerOf
    <2>5. \/ UNCHANGED effect
          \/ \E o \in {"committed", "aborted"} :
                effect[u] = "open" /\ effect' = [effect EXCEPT ![u] = o]
      <3>1. EffectOf(u)' = EffectOf(u) \/ EffectOf(u) = "open"
        BY <1>3 DEF UnitStep, Truthful
      <3>2. CASE EffectOf(u)' = EffectOf(u)
        BY <2>1, <2>3, <3>2
      <3>3. CASE EffectOf(u)' # EffectOf(u)
        BY <2>1, <2>3, <2>4, <3>1, <3>3
      <3> QED
        BY <3>2, <3>3
    <2>6. \/ UNCHANGED answer
          \/ \E a \in {"ok", "error", "unknown"} :
                /\ answer[u] = "none"
                /\ a = "ok" => effect'[u] = "committed"
                /\ a = "error" => effect'[u] = "aborted"
                /\ answer' = [answer EXCEPT ![u] = a]
      <3>1. \/ AnswerOf(u)' = AnswerOf(u)
            \/ /\ AnswerOf(u) = "none"
               /\ AnswerOf(u)' = "ok" => EffectOf(u)' = "committed"
               /\ AnswerOf(u)' = "error" => EffectOf(u)' = "aborted"
        BY <1>3 DEF UnitStep, Truthful
      <3>2. CASE AnswerOf(u)' = AnswerOf(u)
        BY <2>2, <2>3, <3>2
      <3>3. CASE AnswerOf(u)' # AnswerOf(u)
        BY <2>2, <2>3, <2>4, <3>1, <3>3
      <3> QED
        BY <3>2, <3>3
    <2> QED
      BY <1>3, <2>5, <2>6
      DEF U!Atomic!Next, U!Atomic!Decide, U!Atomic!Tell, EffectOf, AnswerOf
  <1> QED
    BY <1>2, <1>3

-----------------------------------------------------------------------------
(***************************************************************************)
(* The steps of the composition, seen by its units and by its requests.    *)
(***************************************************************************)
LEMMA StepsOfUnits ==
    ASSUME [Next]_vars
    PROVE  UNCHANGED unitVars \/ \E u \in Units : StepOf(u)
  <1>1. ASSUME NEW u \in Handlers \cup Removers, Unit(u)
        PROVE  u \in Units /\ StepOf(u)
    BY <1>1 DEF Unit, Units, StepOf, U!Progress
  <1>2. ASSUME NEW r \in Requests, Request(r) \/ RequestFails(r) \/ RequestDies(r)
        PROVE  \/ UNCHANGED unitVars
               \/ r \in Units /\ StepOf(r)
    <2>1. CASE Request(r)
      BY <2>1 DEF Request, Read, Units, StepOf, U!Progress
    <2>2. CASE RequestFails(r)
      BY <2>2 DEF RequestFails, Units, StepOf
    <2>3. CASE RequestDies(r)
      BY <2>3 DEF RequestDies, Units, StepOf
    <2> QED
      BY <1>2, <2>1, <2>2, <2>3
  <1>3. CASE UNCHANGED vars
    BY <1>3 DEF vars
  <1>4. ASSUME NEW r \in Requests, Call(r) \/ Answered(r) \/ Unanswered(r)
        PROVE  UNCHANGED unitVars
    BY <1>4 DEF Call, Answered, Unanswered
  <1>5. ASSUME NEW m \in network, Arrive(m)
        PROVE  UNCHANGED unitVars
    BY <1>5 DEF Arrive
  <1>6. CASE RestartElsewhere
    BY <1>6 DEF RestartElsewhere
  <1> QED
    BY <1>1, <1>2, <1>3, <1>4, <1>5, <1>6 DEF Next

\* Whatever the requests do, the units keep their invariant.
LEMMA UnitsAlways ==
    ASSUME UnitsInv, [Next]_vars
    PROVE  UnitsInv'
  <1>1. CASE UNCHANGED unitVars
    BY <1>1 DEF unitVars, UnitsInv, U!TypeOK, UnitJustified
  <1>2. CASE \E u \in Units : StepOf(u)
    BY <1>2, EveryUnitStep, UnitsKept
  <1> QED
    BY <1>1, <1>2, StepsOfUnits

\* A step of the unit's task or of its finisher: what is left is the server's,
\* which may decide late.
OwnStep(u) ==
    \/ U!Start(u) \/ U!Statement(u) \/ U!BodyEnds(u) \/ U!Finish(u)
    \/ U!BodyFails(u) \/ U!Cancel(u) \/ U!Dies(u)

\* A unit that ended takes none.
LEMMA EndedForGood ==
    ASSUME UnitsInv, NEW u \in Units, OwnStep(u)
    PROVE  finisher[u] # "done"
  <1>1. UnitJustified(u)
    BY DEF UnitsInv
  <1> QED
    BY <1>1 DEF OwnStep, UnitJustified, U!Start, U!Statement, U!BodyEnds,
       U!BodyFails, U!Cancel, U!Interrupted, U!Raises, U!Dies, U!Finish, U!ServerCommits,
       U!CommitAnswered, U!CommitFails, U!Rollback, U!Close

\* A step that is not request r's: it may still take a message off the network.
Quiet(r) ==
    /\ Untouched(r)
    /\ read'[r] = read[r] /\ calls'[r] = calls[r] /\ attempt'[r] = attempt[r]
    /\ \A m \in network' \cup restarted' : m[1] = r => m \in network \cup restarted
    /\ alive \subseteq alive'

LEMMA QuietKeeps ==
    ASSUME NEW r \in Requests, RequestJustified(r), Quiet(r)
    PROVE  RequestJustified(r)'
  <1>1. Made(r)' => Made(r)
    BY DEF Made, Quiet
  <1> QED
    BY <1>1 DEF RequestJustified, Quiet, Untouched

\* Another unit's step is quiet.
LEMMA OthersQuiet ==
    ASSUME UnitsInv, NEW u \in Units, StepOf(u), NEW r \in Requests, r # u,
           read'[r] = read[r], UNCHANGED <<calls, attempt, network, restarted>>,
           alive \subseteq alive'
    PROVE  Quiet(r)
  <1>1. Untouched(r)
    BY EveryUnitStep DEF UnitStep, Units
  <1> QED
    BY <1>1 DEF Quiet

\* While the unit of a request runs, nothing was sent for it; and it ends well
\* only if it did so by a check.
LEMMA InItsUnit ==
    ASSUME UnitsInv, NEW r \in Requests, RequestJustified(r), OwnStep(r),
           UNCHANGED <<calls, attempt, network, restarted>>,
           read'[r] = "up" => r \in alive',
           task'[r] \in {"finish", "returned"} /\ exc'[r] = "none" => read'[r] = "up"
    PROVE  RequestJustified(r)'
  <1>1. ~Made(r)
    BY EndedForGood DEF RequestJustified, Units
  <1>2. ~Made(r)'
    BY <1>1 DEF Made
  <1> QED
    BY <1>2 DEF RequestJustified

\* The finisher of a request lets it return only what the body let through.
LEMMA FinishPassesOn ==
    ASSUME UnitsInv, NEW u \in Units, U!Finish(u),
           task'[u] \in {"finish", "returned"}, exc'[u] = "none"
    PROVE  task[u] \in {"finish", "returned"} /\ exc[u] = "none"
  <1>1. CASE U!Close(u)
    <2>1. exc'[u] = exc[u] \/ exc'[u] = "finish"
      BY <1>1 DEF U!Close, UnitsInv, U!TypeOK
    <2>2. task[u] = "finish" \/ task'[u] = task[u]
      BY <1>1 DEF U!Close, UnitsInv, U!TypeOK
    <2> QED
      BY <2>1, <2>2
  <1>2. CASE U!CommitFails(u)
    <2>1. exc'[u] = "finish"
      BY <1>2 DEF U!CommitFails, UnitsInv, U!TypeOK
    <2> QED
      BY <2>1
  <1>3. CASE U!ServerCommits(u) \/ U!CommitAnswered(u) \/ U!Rollback(u)
    BY <1>3 DEF U!ServerCommits, U!CommitAnswered, U!Rollback
  <1> QED
    BY <1>1, <1>2, <1>3 DEF U!Finish

\* Handlers and removals are quiet for every request.
LEMMA UnitStepQuiet ==
    ASSUME IInv, NEW u \in Handlers \cup Removers, Unit(u)
    PROVE  IInv'
  <1>1. u \in Units /\ StepOf(u)
    BY DEF Unit, Units, StepOf, U!Progress
  <1>2. UnitsInv /\ UnitsInv'
    BY <1>1, EveryUnitStep, UnitsKept DEF IInv
  <1>3. alive \subseteq alive' /\ alive' \subseteq Requests
    BY DEF Unit, Track, IInv, TypeOK
  <1>4. row' \in {"up", "dead", "absent"}
    BY DEF Unit, RowAfter, IInv, TypeOK
  <1>5. UNCHANGED <<read, calls, attempt, network, restarted, key>>
    BY DEF Unit, callVars
  <1>6. TypeOK'
    BY <1>2, <1>3, <1>4, <1>5 DEF IInv, UnitsInv, TypeOK
  <1>7. ASSUME NEW r \in Requests
        PROVE  RequestJustified(r)'
    <2>1. r # u
      BY TasksAssumption
    <2>2. Quiet(r)
      BY <1>1, <1>2, <1>3, <1>5, <2>1, OthersQuiet
    <2> QED
      BY <2>2, QuietKeeps DEF IInv
  <1> QED
    BY <1>2, <1>6, <1>7 DEF IInv

\* So is a step of one request's unit for the other requests; for itself, what
\* it read goes into `alive', and only the check lets the body end.
LEMMA RequestStep ==
    ASSUME IInv, NEW r \in Requests,
           \/ Request(r)
           \/ RequestFails(r)
           \/ RequestDies(r) /\ U!Dies(r) /\ UNCHANGED calls
    PROVE  IInv'
  <1>1. r \in Units /\ StepOf(r) /\ OwnStep(r)
    BY DEF Request, Read, RequestFails, RequestDies, Units, StepOf, OwnStep, U!Progress
  <1>2. UnitsInv /\ UnitsInv' /\ RequestJustified(r)
    BY <1>1, EveryUnitStep, UnitsKept DEF IInv
  <1>3. alive \subseteq alive' /\ alive' \subseteq Requests
    BY DEF Request, Read, RequestFails, RequestDies, Track, IInv, TypeOK
  <1>4. UNCHANGED <<row, calls, attempt, network, restarted, key>>
    BY DEF Request, Read, RequestFails, RequestDies, callVars
  <1>5. /\ read' \in [Requests -> {"up", "dead", "absent"}]
        /\ \A q \in Requests : q # r => read'[q] = read[q]
        /\ ~Read(r) => read' = read
    BY DEF Request, Read, RequestFails, RequestDies, callVars, IInv, TypeOK
  <1>6. TypeOK'
    BY <1>2, <1>3, <1>4, <1>5 DEF IInv, UnitsInv, TypeOK
  <1>7. read'[r] = "up" => r \in alive'
    <2>1. CASE Read(r)
      <3>1. task'[r] = "body" /\ read'[r] = row /\ row' = row
        BY <2>1 DEF Read, U!Statement, IInv, TypeOK
      <3> QED
        BY <2>1, <3>1 DEF Read, Track
    <2>2. CASE ~Read(r)
      BY <1>2, <1>3, <1>5, <2>2 DEF RequestJustified
    <2> QED
      BY <2>1, <2>2
  <1>8. task'[r] \in {"finish", "returned"} /\ exc'[r] = "none" => read'[r] = "up"
    <2>1. CASE Read(r)
      BY <2>1 DEF Read, U!Statement
    <2>2. CASE U!Start(r)
      <3>1. task'[r] = "body"
        BY <1>1, <2>2 DEF U!Start, IInv, UnitsInv, U!TypeOK
      <3> QED
        BY <3>1
    <2>3. CASE Checked(r) /\ U!BodyEnds(r) /\ UNCHANGED callVars
      BY <2>3 DEF Checked, callVars
    <2>4. CASE U!BodyFails(r)
      <3>1. exc'[r] = "body"
        BY <1>1, <2>4 DEF U!BodyFails, U!Interrupted, U!Raises, IInv, UnitsInv, U!TypeOK
      <3> QED
        BY <3>1
    <2>5. CASE U!Finish(r) /\ UNCHANGED callVars
      BY <1>1, <1>2, <2>5, FinishPassesOn DEF RequestJustified, callVars
    <2>6. CASE U!Dies(r)
      <3>1. exc'[r] = "cancel"
        BY <1>1, <2>6 DEF U!Dies, IInv, UnitsInv, U!TypeOK
      <3> QED
        BY <3>1
    <2> QED
      BY <2>1, <2>2, <2>3, <2>4, <2>5, <2>6 DEF Request, RequestFails
  <1>9. RequestJustified(r)'
    BY <1>1, <1>2, <1>4, <1>7, <1>8, InItsUnit
  <1>10. ASSUME NEW q \in Requests, q # r
         PROVE  RequestJustified(q)'
    <2>1. Quiet(q)
      BY <1>1, <1>2, <1>3, <1>4, <1>5, <1>10, OthersQuiet
    <2> QED
      BY <2>1, QuietKeeps DEF IInv
  <1> QED
    BY <1>2, <1>6, <1>9, <1>10 DEF IInv

\* A call is made for the first time after a body that found the engine up, and
\* with its session closed; the later ones because of the first.
LEMMA CallJustified ==
    ASSUME UnitsInv, NEW r \in Requests, RequestJustified(r), calls[r] # "none" \/ Released(r)
    PROVE  finisher[r] = "done" /\ r \in alive
  <1>1. CASE calls[r] # "none"
    BY <1>1 DEF RequestJustified, Made
  <1>2. CASE Released(r)
    <2>1. UnitJustified(r)
      BY DEF UnitsInv, Units
    <2> QED
      BY <1>2, <2>1 DEF UnitJustified, RequestJustified, Released
  <1> QED
    BY <1>1, <1>2

LEMMA CallStep ==
    ASSUME IInv, NEW r \in Requests, Call(r)
    PROVE  IInv'
  <1> DEFINE n == attempt[r] + 1
  <1>1. RequestJustified(r) /\ finisher[r] = "done" /\ r \in alive
    BY CallJustified DEF IInv, Call
  <1>2. UNCHANGED <<unitVars, row, alive, read, restarted, key>>
    BY DEF Call
  <1>3. UnitsInv'
    BY <1>2 DEF IInv, UnitsInv, unitVars, U!TypeOK, UnitJustified
  <1>4. attempt[r] \in 0 .. MaxAttempts /\ attempt[r] < MaxAttempts /\ n \in 1 .. MaxAttempts
    BY <1>1, AttemptsAssumption DEF RequestJustified, Call, IInv, TypeOK
  <1>5. /\ calls' = [calls EXCEPT ![r] = "calling"] /\ attempt' = [attempt EXCEPT ![r] = n]
        /\ network' = network \cup {<<r, n>>}
    BY DEF Call
  <1>6. <<r, n>> \notin restarted
    BY <1>1, <1>4 DEF RequestJustified
  <1>7. TypeOK'
    BY <1>2, <1>3, <1>4, <1>5, <1>6 DEF IInv, UnitsInv, TypeOK
  <1>8. RequestJustified(r)'
    <2>1. calls'[r] = "calling" /\ attempt'[r] = n
      BY <1>5 DEF IInv, TypeOK
    <2>2. ASSUME NEW m \in network' \cup restarted', m[1] = r
          PROVE  m[2] <= attempt'[r]
      <3>1. CASE m = <<r, n>>
        BY <1>4, <2>1, <3>1
      <3>2. CASE m \in network \cup restarted
        <4>1. m[2] <= attempt[r]
          BY <1>1, <2>2, <3>2 DEF RequestJustified
        <4>2. m[2] \in 1 .. MaxAttempts
          BY <3>2 DEF IInv, TypeOK
        <4> QED
          BY <1>4, <2>1, <4>1, <4>2
      <3> QED
        BY <1>2, <1>5, <2>2, <3>1, <3>2
    <2> QED
      BY <1>1, <1>2, <2>1, <2>2 DEF RequestJustified, unitVars, Made
  <1>9. ASSUME NEW q \in Requests, q # r
        PROVE  RequestJustified(q)'
    <2>1. Quiet(q)
      BY <1>2, <1>5, <1>9 DEF Quiet, Untouched, unitVars, IInv, TypeOK
    <2> QED
      BY <2>1, QuietKeeps DEF IInv
  <1> QED
    BY <1>3, <1>7, <1>8, <1>9 DEF IInv

\* An answer, or the lack of one: nothing is sent, and a new attempt is due only
\* when one is left.
LEMMA OutcomeStep ==
    ASSUME IInv, NEW r \in Requests,
           \/ Answered(r)
           \/ Unanswered(r)
           \/ /\ RequestDies(r) /\ UNCHANGED unitVars
              /\ calls[r] # "none" \/ Released(r)
              /\ calls' = [calls EXCEPT ![r] = "failed"]
    PROVE  IInv'
  <1>1. RequestJustified(r) /\ finisher[r] = "done" /\ r \in alive
    BY CallJustified DEF IInv, Answered, Unanswered
  <1>2. UNCHANGED <<unitVars, row, alive, read, attempt, restarted, key>>
    BY DEF Answered, Unanswered, RequestDies
  <1>3. UnitsInv'
    BY <1>2 DEF IInv, UnitsInv, unitVars, U!TypeOK, UnitJustified
  <1>4. network' \subseteq network
    BY DEF Answered, Unanswered, RequestDies
  <1>5. /\ calls' \in [Requests -> {"none", "calling", "delay", "ok", "mismatch", "failed"}]
        /\ \A q \in Requests : q # r => calls'[q] = calls[q]
        /\ calls'[r] # "none" /\ (calls'[r] = "delay" => attempt[r] < MaxAttempts)
    BY DEF Answered, Unanswered, NextAttempt, IInv, TypeOK
  <1>6. TypeOK'
    BY <1>2, <1>3, <1>4, <1>5 DEF IInv, UnitsInv, TypeOK
  <1>7. RequestJustified(r)'
    BY <1>1, <1>2, <1>4, <1>5 DEF RequestJustified, unitVars, Made
  <1>8. ASSUME NEW q \in Requests, q # r
        PROVE  RequestJustified(q)'
    <2>1. Quiet(q)
      BY <1>2, <1>4, <1>5, <1>8 DEF Quiet, Untouched, unitVars
    <2> QED
      BY <2>1, QuietKeeps DEF IInv
  <1> QED
    BY <1>3, <1>6, <1>7, <1>8 DEF IInv

\* The end of the process is one of the two above.
LEMMA RequestDiesStep ==
    ASSUME IInv, NEW r \in Requests, RequestDies(r)
    PROVE  IInv'
  <1>1. CASE U!Dies(r) /\ UNCHANGED calls
    BY <1>1, RequestStep
  <1>2. CASE /\ calls[r] \in {"calling", "delay"} \/ (calls[r] = "none" /\ Released(r))
             /\ calls' = [calls EXCEPT ![r] = "failed"]
             /\ UNCHANGED unitVars
    BY <1>2, OutcomeStep
  <1> QED
    BY <1>1, <1>2 DEF RequestDies

\* At the engine.
LEMMA EngineStep ==
    ASSUME IInv, RestartElsewhere \/ \E m \in network : Arrive(m)
    PROVE  IInv'
  <1>1. UNCHANGED <<unitVars, row, alive, read, calls, attempt>>
    BY DEF RestartElsewhere, Arrive
  <1>2. UnitsInv'
    BY <1>1 DEF IInv, UnitsInv, unitVars, U!TypeOK, UnitJustified
  <1>3. /\ network' \cup restarted' = network \cup restarted
        /\ network' \cap restarted' = {}
        /\ key' \in Requests \cup {OtherKey}
    BY DEF RestartElsewhere, Arrive, IInv, TypeOK
  <1>4. TypeOK'
    BY <1>1, <1>2, <1>3 DEF IInv, UnitsInv, TypeOK
  <1>5. ASSUME NEW q \in Requests
        PROVE  RequestJustified(q)'
    <2>1. Quiet(q)
      BY <1>1, <1>3 DEF Quiet, Untouched, unitVars
    <2> QED
      BY <2>1, QuietKeeps DEF IInv
  <1> QED
    BY <1>2, <1>4, <1>5 DEF IInv

-----------------------------------------------------------------------------
LEMMA Initially == Init => IInv
  <1> SUFFICES ASSUME Init
               PROVE  IInv
    OBVIOUS
  <1>1. UnitsInv
    <2>1. U!TypeOK
      BY TypedLength
      DEF Init, U!Init, U!TypeOK, U!TaskStates, U!FinisherStates, U!ServerStates
    <2> QED
      BY <2>1 DEF UnitsInv, UnitJustified, Init, U!Init
  <1>2. TypeOK
    BY <1>1, AttemptsAssumption DEF UnitsInv, TypeOK, Init
  <1>3. \A r \in Requests : RequestJustified(r)
    BY DEF RequestJustified, Made, Init, U!Init, Units
  <1> QED
    BY <1>1, <1>2, <1>3 DEF IInv

LEMMA Inductive == IInv /\ [Next]_vars => IInv'
  <1> SUFFICES ASSUME IInv, [Next]_vars
               PROVE  IInv'
    OBVIOUS
  <1>1. CASE UNCHANGED vars
    BY <1>1 DEF vars, unitVars, callVars, IInv, UnitsInv, TypeOK, U!TypeOK, UnitJustified,
                RequestJustified, Made
  <1>2. CASE Next
    BY <1>2, UnitStepQuiet, RequestStep, CallStep, OutcomeStep, RequestDiesStep, EngineStep
    DEF Next
  <1> QED
    BY <1>1, <1>2

\* Every unit and every request is in one of the situations the invariant names,
\* in every reachable state (uows/base.py:56-96, services/engine.py:124-132).
THEOREM Invariance == Spec => []IInv
  <1> QED
    BY Initially, Inductive, PTL DEF Spec

\* Sessions, transactions, calls and messages keep their types: a request makes
\* at most MaxAttempts calls, each with a number of its own, and no call that
\* reached the engine is under way again (utils/retry.py, grpc/engine.py).
THEOREM TypeCorrect == Spec => []TypeOK
  <1>1. IInv => TypeOK
    BY DEF IInv
  <1> QED
    BY <1>1, Invariance, PTL

\* An engine is called, even late and even again, only for a request during
\* which its row was not dead, and never while the request's unit of work has a
\* connection (services/engine.py:124-132).
THEOREM NoIdleCall == Spec => []CallsJustified
  <1>1. IInv => CallsJustified
    <2> SUFFICES ASSUME IInv, NEW r \in Requests, Made(r)
                 PROVE  r \in alive /\ r \notin held
      BY DEF CallsJustified, Made
    <2>1. finisher[r] = "done" /\ r \in alive
      BY DEF IInv, RequestJustified
    <2>2. UnitJustified(r)
      BY DEF IInv, UnitsInv, Units
    <2> QED
      BY <2>1, <2>2 DEF UnitJustified
  <1> QED
    BY <1>1, Invariance, PTL

\* Units of work with a transaction implement transactions, together with all
\* that requests and removals do: what a unit did is decided once, and its caller
\* is told at most once, and no falsehood (uows/base.py:56-96).
THEOREM EveryUnitAtomic == Spec => UnitsAtomic
  <1>1. Init => U!Atomic!Init
    <2> SUFFICES ASSUME Init
                 PROVE  U!Atomic!Init
      OBVIOUS
    <2>1. \A u \in Handlers : EffectOf(u) = "open" /\ AnswerOf(u) = "none"
      BY DEF Init, U!Init, EffectOf, AnswerOf, Units
    <2> QED
      BY <2>1, Mapped
  <1>2. IInv /\ [Next]_vars => [U!Atomic!Next]_(U!Atomic!vars)
    <2> SUFFICES ASSUME IInv, [Next]_vars
                 PROVE  [U!Atomic!Next]_(U!Atomic!vars)
      OBVIOUS
    <2>1. CASE UNCHANGED unitVars
      <3>1. UNCHANGED U!Atomic!vars
        BY <2>1 DEF U!Atomic!vars, unitVars
      <3> QED
        BY <3>1
    <2>2. CASE \E u \in Units : StepOf(u)
      BY <2>2, EveryUnitStep, TruthfulImplements DEF IInv
    <2> QED
      BY <2>1, <2>2, StepsOfUnits
  <1> QED
    BY <1>1, <1>2, Invariance, PTL DEF Spec, UnitsAtomic, U!Atomic!Spec
===============================================================================
