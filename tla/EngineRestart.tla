--------------------------- MODULE EngineRestart ---------------------------
(***************************************************************************)
(* Restart of an engine from the admin panel (EngineService.restart, the   *)
(* gRPC client in app/infra/grpc/engine.py and retry in app/infra/utils)   *)
(* while the events process changes the engine's row and an admin removes  *)
(* dead engines.  Everything that touches the row is a unit of work, so    *)
(* this composes UnitOfWork: a request is a unit without a transaction     *)
(* that reads the row, and then, with its session closed, up to            *)
(* MaxAttempts calls of the engine.                                        *)
(*                                                                         *)
(* The request and its answer cross a network that may lose either; a      *)
(* request whose sender gave up may reach the engine later.                *)
(***************************************************************************)
EXTENDS Integers, FiniteSets

CONSTANTS
    Requests,      \* POSTs of the engine's edit form, each with its own uuid
    Handlers,      \* mark_dead or upsert of the engine, in the events process
    Removers,      \* remove_dead_engines
    MaxAttempts,   \* max_attempts of retry()
    OtherKey       \* any other uuid: the one before, or another admin's

ASSUME AttemptsAssumption == MaxAttempts \in Nat \ {0}

\* They are tasks of different kinds, and no two share a task.
ASSUME TasksAssumption ==
    Requests \cap (Handlers \cup Removers) = {} /\ Handlers \cap Removers = {}

Units == Requests \cup Handlers \cup Removers

\* SELECT, then UPSERT and INSERT of the records in mark_dead and upsert; one
\* statement in the others.
Length == [u \in Units |-> IF u \in Handlers THEN 2 ELSE 1]

VARIABLES
    task, finisher, exc, done, server, held,    \* UnitOfWork
    row,        \* the engine's row: its status or "absent"
    read,       \* [Requests -> what get(id) returned]
    calls,      \* [Requests -> state of GRPCEngineManager.restart]
    attempt,    \* [Requests -> attempts so far]
    network,    \* requests under way: <<request, attempt>>
    restarted,  \* those that reached the engine, which restarted
    key,        \* the request whose uuid the engine has
    alive       \* history: requests during which the engine was not dead

U == INSTANCE UnitOfWork WITH
    TxUnits <- Handlers, Locking <- Handlers \cup Removers

ASSUME UnitsAssumption == U!UnitsAssumption

unitVars == <<task, finisher, exc, done, server, held>>
callVars == <<read, calls, attempt, network, restarted, key>>
vars     == <<unitVars, callVars, row, alive>>

Init ==
    /\ U!Init
    /\ row \in {"up", "dead"}
    /\ read = [r \in Requests |-> "absent"]
    /\ calls = [r \in Requests |-> "none"]
    /\ attempt = [r \in Requests |-> 0]
    /\ network = {}
    /\ restarted = {}
    /\ key = OtherKey
    /\ alive = {}

\* Requests that have begun and see the row as it is now.
Track == alive' = alive \cup {r \in Requests : task'[r] # "idle" /\ row' = "up"}

-----------------------------------------------------------------------------
(***************************************************************************)
(* The units.  A handler's change shows when the server commits it; a      *)
(* statement outside of a transaction is one by itself.                    *)
(***************************************************************************)

\* The row after the unit's statements: a handler marks the engine dead, or
\* inserts, restores or updates it; DELETE takes the row if it is dead.
RowAfter(u) ==
    IF u \in Handlers
        THEN CASE row = "up" -> {"up", "dead"} [] row = "dead" -> {"dead", "up"}
               [] OTHER -> {"up"}
        ELSE {IF row = "dead" THEN "absent" ELSE row}

\* Unit u's statements take effect in this step.
Effective(u) ==
    \/ u \in Handlers /\ server[u] # "committed" /\ server'[u] = "committed"
    \/ u \in Removers /\ done'[u] > done[u]

Unit(u) ==
    /\ U!Start(u) \/ U!Progress(u) \/ U!BodyFails(u) \/ U!Cancel(u) \/ U!Dies(u)
    /\ IF Effective(u) THEN row' \in RowAfter(u) ELSE UNCHANGED row
    /\ Track
    /\ UNCHANGED callVars

Read(r) ==
    /\ U!Statement(r)
    /\ read' = [read EXCEPT ![r] = row]
    /\ UNCHANGED <<row, calls, attempt, network, restarted, key>>
    /\ Track

\* Mutant of Checked: any row will do.
CheckedExists(r) == read[r] # "absent"

\* The engine exists and is not dead: the body raises otherwise.
Checked(r) == read[r] = "up"

\* The steps of a request that are not calls.
Request(r) ==
    \/ Read(r)
    \/ /\ \/ U!Start(r)
          \/ Checked(r) /\ U!BodyEnds(r)
          \/ ~Checked(r) /\ done[r] = 1 /\ U!BodyFails(r)
          \/ U!Finish(r)
       /\ UNCHANGED <<row, callVars>>
       /\ Track

\* The SELECT fails.  Nobody cancels the task of a request: it ends with its
\* process.
RequestFails(r) ==
    /\ U!BodyFails(r)
    /\ UNCHANGED <<row, callVars>>
    /\ Track

-----------------------------------------------------------------------------
(***************************************************************************)
(* The calls.                                                              *)
(***************************************************************************)
\* `async with' was left normally, so the session is closed.
Released(r) == task[r] = "returned"

\* _process is called, or called again after the delay.
Call(r) ==
    /\ \/ calls[r] = "none" /\ Released(r)
       \/ calls[r] = "delay"
    /\ calls' = [calls EXCEPT ![r] = "calling"]
    /\ attempt' = [attempt EXCEPT ![r] = @ + 1]
    /\ network' = network \cup {<<r, attempt[r] + 1>>}
    /\ UNCHANGED <<unitVars, row, alive, read, restarted, key>>

\* RestartXray at the engine (external).
Arrive(m) ==
    /\ m \in network
    /\ network' = network \ {m}
    /\ restarted' = restarted \cup {m}
    /\ key' = m[1]
    /\ UNCHANGED <<unitVars, row, alive, read, calls, attempt>>

\* The engine is restarted with another uuid (external).
RestartElsewhere ==
    /\ key' = OtherKey
    /\ UNCHANGED <<unitVars, row, alive, read, calls, attempt, network, restarted>>

\* The engine answers with the uuid it has by then; another one is an error.
Answered(r) ==
    /\ calls[r] = "calling"
    /\ <<r, attempt[r]>> \in restarted
    /\ calls' = [calls EXCEPT ![r] = IF key = r THEN "ok" ELSE "mismatch"]
    /\ UNCHANGED <<unitVars, row, alive, read, attempt, network, restarted, key>>

\* Mutant of NextAttempt: the loop of retry goes round once too often.
OneMoreAttempt(r) == IF attempt[r] <= MaxAttempts THEN "delay" ELSE "failed"

NextAttempt(r) == IF attempt[r] < MaxAttempts THEN "delay" ELSE "failed"

\* The call raises: the request was lost, is late, or its answer was lost.
Unanswered(r) ==
    /\ calls[r] = "calling"
    /\ calls' = [calls EXCEPT ![r] = NextAttempt(r)]
    /\ network' \in {network, network \ {<<r, attempt[r]>>}}
    /\ UNCHANGED <<unitVars, row, alive, read, attempt, restarted, key>>

\* The process ends: in the unit of the request, or between or in its calls.
RequestDies(r) ==
    /\ \/ U!Dies(r) /\ UNCHANGED calls
       \/ /\ \/ calls[r] \in {"calling", "delay"}
             \/ calls[r] = "none" /\ Released(r)
          /\ calls' = [calls EXCEPT ![r] = "failed"]
          /\ UNCHANGED unitVars
    /\ UNCHANGED <<row, alive, read, attempt, network, restarted, key>>

-----------------------------------------------------------------------------
Next ==
    \/ \E u \in Handlers \cup Removers : Unit(u)
    \/ \E r \in Requests :
          \/ Request(r) \/ RequestFails(r) \/ RequestDies(r)
          \/ Call(r) \/ Answered(r) \/ Unanswered(r)
    \/ \E m \in network : Arrive(m)
    \/ RestartElsewhere

Spec == Init /\ [][Next]_vars

\* Tasks that run go on, and a call is answered or fails in the end: it has no
\* deadline, so this relies on the engine or the transport.
Fairness ==
    /\ \A u \in Handlers \cup Removers : WF_vars(Unit(u) /\ U!Progress(u))
    /\ \A r \in Requests :
          WF_vars(task[r] # "idle" /\ (Request(r) \/ Call(r) \/ Answered(r) \/ Unanswered(r)))

FairSpec == Spec /\ Fairness

-----------------------------------------------------------------------------
\* Beside the types: a request makes at most MaxAttempts calls, one at a time.
TypeOK ==
    /\ U!TypeOK
    /\ row \in {"up", "dead", "absent"}
    /\ read \in [Requests -> {"up", "dead", "absent"}]
    /\ calls \in [Requests -> {"none", "calling", "delay", "ok", "mismatch", "failed"}]
    /\ attempt \in [Requests -> 0 .. MaxAttempts]
    /\ network \cup restarted \subseteq Requests \X (1 .. MaxAttempts)
    /\ network \cap restarted = {}
    /\ key \in Requests \cup {OtherKey}
    /\ alive \subseteq Requests

\* No engine is restarted that was dead or gone all the time since the request
\* began, even though the check is over when the call is made, the row may have
\* changed since, and calls arrive late (services/engine.py:124-132).  While an
\* engine is called, however long it takes, the request has no connection.
CallsJustified ==
    \A r \in Requests :
        calls[r] # "none" \/ (\E m \in network \cup restarted : m[1] = r) =>
            r \in alive /\ r \notin held

\* Units with a transaction are atomic, and what their callers learn is true,
\* whoever is cancelled, whichever statement, commit or rollback fails, and
\* wherever the process ends.
UnitsAtomic == U!Atomic!Spec

\* Every unit that begins ends, whoever is cancelled: its session is closed, its
\* transaction over, and nobody waits for its row.  So does every request.
EveryUnitEnds ==
    /\ \A u \in Handlers \cup Removers :
          task[u] = "body" ~> finisher[u] = "done" /\ u \notin held /\ ~U!Lasts(u)
    /\ \A r \in Requests : task[r] = "body" ~>
          /\ r \notin held
          /\ task[r] \in {"failed", "cancelled"} \/ calls[r] \in {"ok", "mismatch", "failed"}
=============================================================================
