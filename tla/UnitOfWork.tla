----------------------------- MODULE UnitOfWork -----------------------------
(***************************************************************************)
(* Units of work (app/infra/database/uows/base.py).  A unit is one use of  *)
(* `async with uow.begin(with_tx=...)': the task of its caller runs the    *)
(* body, then waits, shielded from cancellation, for the task of _finish,  *)
(* which commits or rolls back and closes the session.  A cancelled caller *)
(* goes on without it.                                                     *)
(*                                                                         *)
(* With a transaction the statements of the body take effect together when *)
(* the server commits; without one the connection is in AUTOCOMMIT mode    *)
(* and each takes effect at once.  The units meet at one row: a statement  *)
(* of a unit that locks it waits while a transaction has it.               *)
(***************************************************************************)
EXTENDS Integers

CONSTANTS
    Units,
    TxUnits,    \* units begun with with_tx = True
    Locking,    \* units that lock the row with their first statement
    Length      \* [Units -> number of statements in the body]

\* What is assumed of the constants by whoever instantiates this module.
UnitsAssumption ==
    /\ TxUnits \subseteq Locking /\ Locking \subseteq Units
    /\ Length \in [Units -> Nat \ {0}]

VARIABLES
    task,       \* [Units -> state of the caller]
    finisher,   \* [Units -> what _finish does next]
    exc,        \* [Units -> the exception _finish raises, or "none"]
    done,       \* [Units -> statements of the body executed], while it has a session
    server,     \* [Units -> its transaction at the server]
    held        \* units whose session has a connection

vars == <<task, finisher, exc, done, server, held>>

TaskStates == {"idle", "body", "finish", "returned", "failed", "cancelled"}
FinisherStates == {"none", "commit", "rollback", "close", "done"}
ServerStates == {"none", "open", "sent", "committed", "aborted"}

Init ==
    /\ task = [u \in Units |-> "idle"]
    /\ finisher = [u \in Units |-> "none"]
    /\ exc = [u \in Units |-> "none"]
    /\ done = [u \in Units |-> 0]
    /\ server = [u \in Units |-> "none"]
    /\ held = {}

-----------------------------------------------------------------------------
(***************************************************************************)
(* The body.                                                               *)
(***************************************************************************)

\* _start: neither the session nor its begin() talks to the server.
Start(u) ==
    /\ task[u] = "idle"
    /\ task' = [task EXCEPT ![u] = "body"]
    /\ UNCHANGED <<finisher, exc, done, server, held>>

\* The transaction of the unit has not ended at the server.
Lasts(u) == server[u] \in {"open", "sent"}

\* A statement waits for every transaction that may have the row.  (The DELETE
\* of a removal passes by a row that its snapshot shows alive; it does to it what
\* it would have done just before the transaction.)
Blocked(u) ==
    /\ u \in Locking
    /\ done[u] = 0
    /\ \E v \in TxUnits \ {u} : Lasts(v)

Executes(u) ==
    /\ done[u] < Length[u]
    /\ ~Blocked(u)
    /\ done' = [done EXCEPT ![u] = @ + 1]
    /\ server' = [server EXCEPT ![u] = IF u \in TxUnits THEN "open" ELSE @]

Statement(u) ==
    /\ task[u] = "body"
    /\ Executes(u)
    /\ held' = held \cup {u}
    /\ UNCHANGED <<task, finisher, exc>>

BodyEnds(u) ==
    /\ task[u] = "body"
    /\ done[u] = Length[u]
    /\ task' = [task EXCEPT ![u] = "finish"]
    /\ finisher' = [finisher EXCEPT ![u] = IF u \in TxUnits THEN "commit" ELSE "close"]
    /\ UNCHANGED <<exc, done, server, held>>

\* The body is left with an exception: its own, an error of a statement, which
\* may be executed all the same if its answer was lost, or CancelledError.  A
\* lost connection ends the transaction.
Raises(u, e) ==
    /\ task[u] = "body"
    /\ exc' = [exc EXCEPT ![u] = e]
    /\ \/ Executes(u) /\ held' = held \cup {u}
       \/ UNCHANGED <<done, server, held>>
       \/ /\ server[u] = "open"
          /\ server' = [server EXCEPT ![u] = "aborted"]
          /\ UNCHANGED <<done, held>>

\* Mutant of BodyFails: _finish commits whatever the body did.
BodyFailsCommitted(u) ==
    /\ Raises(u, "body")
    /\ task' = [task EXCEPT ![u] = "finish"]
    /\ finisher' = [finisher EXCEPT ![u] = IF u \in TxUnits THEN "commit" ELSE "close"]

Interrupted(u, e) ==
    /\ Raises(u, e)
    /\ task' = [task EXCEPT ![u] = "finish"]
    /\ finisher' = [finisher EXCEPT ![u] = IF u \in TxUnits THEN "rollback" ELSE "close"]

BodyFails(u) == Interrupted(u, "body")

\* Mutant of Cancel: `except Exception' does not see CancelledError.
CancelUncaught(u) ==
    /\ Raises(u, "cancel")
    /\ task' = [task EXCEPT ![u] = "cancelled"]
    /\ UNCHANGED finisher

\* task.cancel(): the body gets CancelledError; a caller that waits for _finish
\* leaves it running.
Cancel(u) ==
    \/ Interrupted(u, "cancel")
    \/ /\ task[u] = "finish"
       /\ task' = [task EXCEPT ![u] = "cancelled"]
       /\ UNCHANGED <<finisher, exc, done, server, held>>

-----------------------------------------------------------------------------
(***************************************************************************)
(* _finish, and what it asks the server to do.                             *)
(***************************************************************************)
Aborted(u) == [server EXCEPT ![u] = IF @ = "open" THEN "aborted" ELSE @]

ServerCommits(u) ==
    /\ finisher[u] = "commit"
    /\ server[u] = "open"
    /\ server' = [server EXCEPT ![u] = "committed"]
    /\ UNCHANGED <<task, finisher, exc, done, held>>

CommitAnswered(u) ==
    /\ finisher[u] = "commit"
    /\ server[u] = "committed"
    /\ finisher' = [finisher EXCEPT ![u] = "close"]
    /\ UNCHANGED <<task, exc, done, server, held>>

\* The connection broke with the COMMIT under way.
Sent(u) == [server EXCEPT ![u] = IF @ = "open" THEN "sent" ELSE @]

\* commit() raises: the server refused, did not get the request or has not got
\* it yet, or its answer was lost.
CommitFails(u) ==
    /\ finisher[u] = "commit"
    /\ exc' = [exc EXCEPT ![u] = "finish"]
    /\ finisher' = [finisher EXCEPT ![u] = "rollback"]
    /\ server' \in {server, Sent(u)}
    /\ UNCHANGED <<task, done, held>>

\* The server, whose client is gone, gets the COMMIT or ends the transaction
\* without it, at any time.
DecidesLate(u) ==
    /\ server[u] = "sent"
    /\ \E outcome \in {"committed", "aborted"} :
          server' = [server EXCEPT ![u] = outcome]
    /\ UNCHANGED <<task, finisher, exc, done, held>>

\* rollback(), whose own errors are swallowed.
Rollback(u) ==
    /\ finisher[u] = "rollback"
    /\ finisher' = [finisher EXCEPT ![u] = "close"]
    /\ server' \in {server, Aborted(u)}
    /\ UNCHANGED <<task, exc, done, held>>

\* The session gives its connection back, and the pool resets or drops it; the
\* caller, if it still waits, gets the exception or returns.
Ended(u) ==
    CASE exc'[u] = "none"   -> "returned"
      [] exc'[u] = "cancel" -> "cancelled"
      [] OTHER              -> "failed"

Close(u) ==
    /\ finisher[u] = "close"
    /\ finisher' = [finisher EXCEPT ![u] = "done"]
    /\ exc' \in {exc, [exc EXCEPT ![u] = "finish"]}
    /\ server' = Aborted(u)
    /\ held' = held \ {u}
    /\ done' = [done EXCEPT ![u] = 0]
    /\ task' = [task EXCEPT ![u] = IF @ = "finish" THEN Ended(u) ELSE @]

Finish(u) ==
    ServerCommits(u) \/ CommitAnswered(u) \/ CommitFails(u) \/ Rollback(u) \/ Close(u)

\* The process ends, or its loop does, which cancels _finish too: its
\* connections break, and a commit that was on its way may still be executed.
Dies(u) ==
    /\ task[u] # "idle" /\ finisher[u] # "done"
    /\ task' = [task EXCEPT ![u] = "cancelled"]
    /\ finisher' = [finisher EXCEPT ![u] = "done"]
    /\ server' \in {Aborted(u)} \cup (IF finisher[u] = "commit" THEN {Sent(u)} ELSE {})
    /\ exc' = [exc EXCEPT ![u] = "cancel"]
    /\ done' = [done EXCEPT ![u] = 0]
    /\ held' = held \ {u}

-----------------------------------------------------------------------------
Progress(u) == Statement(u) \/ BodyEnds(u) \/ Finish(u) \/ DecidesLate(u)

Next == \E u \in Units :
    Start(u) \/ Progress(u) \/ BodyFails(u) \/ Cancel(u) \/ Dies(u)

Spec == Init /\ [][Next]_vars

-----------------------------------------------------------------------------
TypeOK ==
    /\ task \in [Units -> TaskStates]
    /\ finisher \in [Units -> FinisherStates]
    /\ exc \in [Units -> {"none", "body", "cancel", "finish"}]
    /\ done \in [Units -> Nat] /\ \A u \in Units : done[u] <= Length[u]
    /\ server \in [Units -> ServerStates]
    /\ held \subseteq Units

\* A unit with a transaction is a Transaction: what became of its statements is
\* settled by the server's commit, or by the end of _finish without one, unless
\* a COMMIT is still under way then.
Atomic == INSTANCE Transaction WITH
    Units  <- TxUnits,
    effect <- [u \in TxUnits |->
                  IF server[u] \in {"committed", "aborted"} THEN server[u]
                  ELSE IF finisher[u] = "done" /\ server[u] # "sent" THEN "aborted"
                  ELSE "open"],
    answer <- [u \in TxUnits |->
                  CASE task[u] = "returned" -> "ok"
                    [] task[u] = "failed" -> IF exc[u] = "body" THEN "error" ELSE "unknown"
                    [] task[u] = "cancelled" -> "unknown"
                    [] OTHER -> "none"]
=============================================================================
