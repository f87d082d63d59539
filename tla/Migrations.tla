----------------------------- MODULE Migrations -----------------------------
(***************************************************************************)
(* The database schema over the life of an installation: the revisions in  *)
(* app/infra/database/migrations/versions, which alembic runs up or down   *)
(* while the tables hold rows, and the schema the models expect            *)
(* (app/infra/database/models.py).                                         *)
(*                                                                         *)
(* A schema is a set of objects <<kind, table, name, detail, refers>>.     *)
(* Types of columns are left out, but for the time zone of `created'; so   *)
(* is the column `id', the primary key of every table, and the conditions  *)
(* of partial indexes, which their columns tell apart.  Of the rows it     *)
(* matters which tables have some, and in which columns some have NULL.    *)
(***************************************************************************)
EXTENDS Integers, Sequences, SequencesExt

VARIABLES
    revision,    \* how many revisions are applied
    schema,      \* the objects of the schema
    filled,      \* tables with rows
    nulls        \* <<table, column>>: some row has NULL there

vars == <<revision, schema, filled, nulls>>

-----------------------------------------------------------------------------
(***************************************************************************)
(* Objects.                                                                *)
(***************************************************************************)
Table(t)           == <<"table", t, t, "", "">>
NotNull(t, names)  == {<<"column", t, c, "not null", "">> : c \in names}
Nullable(t, names) == {<<"column", t, c, "null", "">> : c \in names}
Local(t, c)        == <<"column", t, c, "no zone", "">>    \* not null
Index(t, name, c)  == <<"index", t, name, c, "">>
Unique(t, name, c) == <<"unique", t, name, c, "">>
Enum(name)         == <<"type", "", name, "", "">>

\* FOREIGN KEY (c) REFERENCES refers (id): name is <table>_<column>_fkey.
Fkey(t, c, refers) == <<"fkey", t, c, "", refers>>
FkeyCascade(t, c, refers) == <<"fkey", t, c, "cascade", refers>>

SameName(o, p) == o[1] = p[1] /\ o[2] = p[2] /\ o[3] = p[3]
Of(s, t)       == {o \in s : o[2] = t}
Tables(s)      == {o[2] : o \in {p \in s : p[1] = "table"}}

-----------------------------------------------------------------------------
(***************************************************************************)
(* Operations, and what PostgreSQL makes of them.                          *)
(***************************************************************************)
Create(t, objects) == [op |-> "create", table |-> t, objects |-> objects \cup {Table(t)}]
DropTable(t)       == [op |-> "drop table", table |-> t, objects |-> {}]
Add(objects)       == [op |-> "add", table |-> "", objects |-> objects]
Drop(objects)      == [op |-> "drop", table |-> "", objects |-> objects]
Alter(objects)     == [op |-> "alter", table |-> "", objects |-> objects]
Update(objects)    == [op |-> "update", table |-> "", objects |-> objects]

Columns(objects) == {<<o[2], o[3]>> : o \in {p \in objects : p[1] = "column"}}
Optional(objects) == {o \in objects : o[1] = "column" /\ o[4] = "null"}

New(s, objects) == \A o \in objects, p \in s : ~SameName(o, p)
Known(s, objects) == \A o \in objects : \E p \in s : SameName(o, p)

\* A constraint can refer to a table only if it is there.
Grounded(s, objects) == \A o \in objects : o[5] = "" \/ o[5] \in Tables(s)

\* ADD COLUMN gives the rows of the table NULL in the new column.
Given(objects, filledTables) == {c \in Columns(objects) : c[1] \in filledTables}

Legal(step, db) ==
    CASE step.op = "create" -> New(db.schema, step.objects) /\ Grounded(db.schema, step.objects)
      [] step.op = "drop table" ->
            /\ step.table \in Tables(db.schema)
            /\ \A o \in db.schema : o[5] = step.table => o[2] = step.table
      [] step.op = "add" ->
            /\ New(db.schema, step.objects) /\ Grounded(db.schema, step.objects)
            /\ \A o \in step.objects : o[2] \in Tables(db.schema)
            /\ Given(step.objects \ Optional(step.objects), db.filled) = {}
      [] step.op = "alter" ->
            /\ Known(db.schema, step.objects)
            /\ Columns(step.objects \ Optional(step.objects)) \cap db.nulls = {}
      [] OTHER -> Known(db.schema, step.objects)

SchemaAfter(step, s) ==
    LET others == {p \in s : \A o \in step.objects : ~SameName(o, p)}
    IN  CASE step.op = "drop table" -> s \ Of(s, step.table)
          [] step.op = "drop" -> others
          [] step.op = "update" -> s
          [] OTHER -> others \cup step.objects

NullsAfter(step, db) ==
    CASE step.op = "add" -> db.nulls \cup Given(step.objects, db.filled)
      [] step.op = "update" -> db.nulls \ Columns(step.objects)
      [] OTHER -> db.nulls \cap Columns(SchemaAfter(step, db.schema))

Perform(db, step) ==
    IF db.ok /\ Legal(step, db)
        THEN LET s == SchemaAfter(step, db.schema)
             IN  [ok |-> TRUE, schema |-> s, filled |-> db.filled \cap Tables(s),
                  nulls |-> NullsAfter(step, db)]
        ELSE [db EXCEPT !.ok = FALSE]

Start(s, filledTables, nullColumns) ==
    [ok |-> TRUE, schema |-> s, filled |-> filledTables, nulls |-> nullColumns]

Run(steps, db) == FoldLeft(Perform, db, steps)

-----------------------------------------------------------------------------
(***************************************************************************)
(* The revisions, from the first to the head.                              *)
(***************************************************************************)
Versioned == "version_timestamp, version_seq"

\* ce65be9d7ebd.  CREATE TYPE comes with the table; DROP TABLE leaves it.
Initial == [
    up |-> <<Create("engines",
                NotNull("engines", {"status", "addr", "version_timestamp", "version_seq"})
                \cup Nullable("engines", {"uuid"})
                \cup {Local("engines", "created"), Enum("enginestatus"),
                      Unique("engines", "engines_version_timestamp_version_seq_key",
                             Versioned)})>>,
    down |-> <<DropTable("engines")>>]

\* d76351334e79
EngineField == [
    up   |-> <<Alter(NotNull("engines", {"created"}))>>,
    down |-> <<Alter({Local("engines", "created")})>>]

Unpublished == Index("outbox", "ix_outbox_unpublished", "published")

\* 0804875c91bb
OutboxTable == [
    up |-> <<Create("outbox", NotNull("outbox", {"caused_by", "body", "published", "created_at"})
                              \cup Nullable("outbox", {"published_at"})),
             Add({Index("outbox", "ix_outbox_caused_by", "caused_by")}),
             Add({Unpublished})>>,
    down |-> <<Drop({Unpublished}),
               Drop({Index("outbox", "ix_outbox_caused_by", "caused_by")}),
               DropTable("outbox")>>]

\* Mutant of OutboxAttempts: the rows there are keep NULL.
OutboxAttemptsNull == [
    up   |-> <<Add(Nullable("outbox", {"attempts"})),
               Alter(NotNull("outbox", {"attempts"}))>>,
    down |-> <<Drop(NotNull("outbox", {"attempts"}))>>]

\* a66e839a709a
OutboxAttempts == [
    up   |-> <<Add(Nullable("outbox", {"attempts"})),
               Update(Nullable("outbox", {"attempts"})),
               Alter(NotNull("outbox", {"attempts"}))>>,
    down |-> <<Drop(NotNull("outbox", {"attempts"}))>>]

BotTask == NotNull("bot_delivery_tasks",
                   {"outbox_id", "subscription_id", "message", "published", "created_at"})
           \cup Nullable("bot_delivery_tasks", {"published_at"})
           \cup {Fkey("bot_delivery_tasks", "outbox_id", "outbox"),
                 Fkey("bot_delivery_tasks", "subscription_id", "engine_subscriptions")}

BotPending(c) == Index("bot_delivery_tasks", "ix_bot_delivery_task_pending", c)
OutboxPending == Index("outbox", "ix_outbox_pending", "next_attempt_at")

\* 97e038ee95bb
DeliveryTask == [
    up |-> <<Create("users", NotNull("users", {"telegram_id"})
                             \cup Nullable("users", {"description"})
                             \cup {Unique("users", "users_telegram_id_key", "telegram_id")}),
             Create("engine_subscriptions",
                    NotNull("engine_subscriptions", {"user_id", "engine_id"})
                    \cup {Fkey("engine_subscriptions", "engine_id", "engines"),
                          Fkey("engine_subscriptions", "user_id", "users")}),
             Create("bot_delivery_tasks", BotTask),
             Add({BotPending("published")}),
             Add(NotNull("outbox", {"fanned_out"})),
             Add(Nullable("outbox", {"fanned_out_at"})),
             Add(NotNull("outbox", {"next_attempt_at"})),
             Drop({Unpublished}),
             Add({OutboxPending}),
             Drop(NotNull("outbox", {"published"})),
             Drop(Nullable("outbox", {"published_at"}))>>,
    down |-> <<Add(Nullable("outbox", {"published_at"})),
               Add(NotNull("outbox", {"published"})),
               Drop({OutboxPending}),
               Add({Unpublished}),
               Drop(NotNull("outbox", {"next_attempt_at", "fanned_out"})
                    \cup Nullable("outbox", {"fanned_out_at"})),
               Drop({BotPending("published")}),
               DropTable("bot_delivery_tasks"),
               DropTable("engine_subscriptions"),
               DropTable("users")>>]

BotAttempts == NotNull("bot_delivery_tasks", {"attempts", "next_attempt_at"})

\* 91c2ff7519d4
TaskAttempts == [
    up |-> <<Add(BotAttempts),
             Drop({BotPending("published")}),
             Add({BotPending("next_attempt_at")})>>,
    down |-> <<Drop({BotPending("next_attempt_at")}),
               Add({BotPending("published")}),
               Drop(BotAttempts)>>]

Tasks == NotNull("delivery_tasks", {"outbox_id", "subscription_id", "published", "attempts",
                                    "created_at", "next_attempt_at"})
         \cup Nullable("delivery_tasks", {"published_at"})
         \cup {Fkey("delivery_tasks", "outbox_id", "outbox"),
               Fkey("delivery_tasks", "subscription_id", "engine_subscriptions"),
               Unique("delivery_tasks", "uq_bot_delivery_task", "outbox_id, subscription_id")}

TaskPending == Index("delivery_tasks", "ix_delivery_task_pending", "next_attempt_at")
OldVersion  == Unique("engines", "engines_version_timestamp_version_seq_key", Versioned)
NewVersion  == Unique("engines", "uq_engine_version", Versioned)

\* Mutant of Event: the column may be null, so that it can be added to rows.
NullableEvent == Nullable("engine_subscriptions", {"event"})

Event == NotNull("engine_subscriptions", {"event"})

\* 3ee8129175d8
TaskChange == [
    up |-> <<Create("delivery_tasks", Tasks),
             Add({TaskPending}),
             Drop({BotPending("next_attempt_at")}),
             DropTable("bot_delivery_tasks"),
             Add(Event),
             Drop({OldVersion}),
             Add({NewVersion})>>,
    down |-> <<Drop({NewVersion}),
               Add({OldVersion}),
               Drop(Event),
               Create("bot_delivery_tasks", BotTask \cup BotAttempts),
               Add({BotPending("next_attempt_at")}),
               Drop({TaskPending}),
               DropTable("delivery_tasks")>>]

\* A constraint is dropped and made again.
Again(fkeys) == <<Drop(fkeys), Add(fkeys)>>

\* 08e9ebe8c546
OutboxCascade == [
    up   |-> Again({FkeyCascade("delivery_tasks", "outbox_id", "outbox")}),
    down |-> Again({Fkey("delivery_tasks", "outbox_id", "outbox")})]

\* Mutant of Cascades: the downgrade forgets that of the tasks.
CascadesOfTasksKept == [
    up   |-> Again({FkeyCascade("delivery_tasks", "subscription_id", "engine_subscriptions"),
                    FkeyCascade("engine_subscriptions", "user_id", "users"),
                    FkeyCascade("engine_subscriptions", "engine_id", "engines")}),
    down |-> Again({Fkey("engine_subscriptions", "engine_id", "engines"),
                    Fkey("engine_subscriptions", "user_id", "users")})]

\* eb691ba21ad8
Cascades == [
    up   |-> Again({FkeyCascade("delivery_tasks", "subscription_id", "engine_subscriptions"),
                    FkeyCascade("engine_subscriptions", "user_id", "users"),
                    FkeyCascade("engine_subscriptions", "engine_id", "engines")}),
    down |-> Again({Fkey("engine_subscriptions", "engine_id", "engines"),
                    Fkey("engine_subscriptions", "user_id", "users"),
                    Fkey("delivery_tasks", "subscription_id", "engine_subscriptions")})]

\* The chain of down_revision.
Revisions == <<Initial, EngineField, OutboxTable, OutboxAttempts, DeliveryTask,
               TaskAttempts, TaskChange, OutboxCascade, Cascades>>

Newest == Len(Revisions)

Ups(from, to) == FlattenSeq([i \in 1 .. to - from |-> Revisions[from + i].up])

-----------------------------------------------------------------------------
Init ==
    /\ revision = 0
    /\ schema = {}
    /\ filled = {}
    /\ nulls = {}

Database == Start(schema, filled, nulls)

Parents(t) == {o[5] : o \in Of(schema, t)} \ {""}

\* The application of that time stores rows, where foreign keys allow it.
Fill(t) ==
    /\ t \in Tables(schema) \ filled
    /\ Parents(t) \subseteq filled
    /\ filled' = filled \cup {t}
    /\ nulls' \in {nulls, nulls \cup Columns(Optional(Of(schema, t)))}
    /\ UNCHANGED <<revision, schema>>

\* The last rows of a table are deleted that no row refers to.
Clear(t) ==
    /\ t \in filled
    /\ \A child \in filled : t \notin Parents(child)
    /\ filled' = filled \ {t}
    /\ nulls' = {c \in nulls : c[1] # t}
    /\ UNCHANGED <<revision, schema>>

\* env.py runs all the steps in one transaction: a step that fails leaves
\* everything as it was.
Migrate(steps, to) ==
    LET db == Run(steps, Database)
    IN  /\ db.ok
        /\ revision' = to
        /\ schema' = db.schema
        /\ filled' = db.filled
        /\ nulls' = db.nulls

\* `alembic upgrade', to the head of the release that is deployed.
Upgrade(to) ==
    /\ to \in revision + 1 .. Newest
    /\ Migrate(Ups(revision, to), to)

\* `alembic downgrade -1', by hand.
Downgrade ==
    /\ revision > 0
    /\ Migrate(Revisions[revision].down, revision - 1)

Next ==
    \/ \E t \in Tables(schema) : Fill(t) \/ Clear(t)
    \/ \E to \in 1 .. Newest : Upgrade(to)
    \/ Downgrade

Spec == Init /\ [][Next]_vars

-----------------------------------------------------------------------------
(***************************************************************************)
(* The schema the models expect.                                           *)
(***************************************************************************)
Engine ==
    NotNull("engines", {"created", "status", "addr", "version_timestamp", "version_seq"})
    \cup Nullable("engines", {"uuid"})
    \cup {Table("engines"), Enum("enginestatus"), NewVersion}

Outbox ==
    NotNull("outbox", {"caused_by", "body", "fanned_out", "attempts", "created_at",
                       "next_attempt_at"})
    \cup Nullable("outbox", {"fanned_out_at"})
    \cup {Table("outbox"), Index("outbox", "ix_outbox_caused_by", "caused_by"), OutboxPending}

User ==
    NotNull("users", {"telegram_id"}) \cup Nullable("users", {"description"})
    \cup {Table("users"), Unique("users", "users_telegram_id_key", "telegram_id")}

EngineSubscription ==
    NotNull("engine_subscriptions", {"user_id", "engine_id", "event"})
    \cup {Table("engine_subscriptions"),
          FkeyCascade("engine_subscriptions", "user_id", "users"),
          FkeyCascade("engine_subscriptions", "engine_id", "engines")}

BotDeliveryTask ==
    NotNull("delivery_tasks", {"outbox_id", "subscription_id", "published", "attempts",
                               "created_at", "next_attempt_at"})
    \cup Nullable("delivery_tasks", {"published_at"})
    \cup {Table("delivery_tasks"), TaskPending,
          FkeyCascade("delivery_tasks", "outbox_id", "outbox"),
          FkeyCascade("delivery_tasks", "subscription_id", "engine_subscriptions"),
          Unique("delivery_tasks", "uq_bot_delivery_task", "outbox_id, subscription_id")}

Models == Engine \cup Outbox \cup User \cup EngineSubscription \cup BotDeliveryTask

-----------------------------------------------------------------------------
\* A database that was taken down to nothing still has the enum type.
Leftover == IF revision = 0 THEN schema ELSE {}

\* The schema is the one its revision has in a new database, whatever went up
\* and down before and whatever failed; at the newest revision it is what the
\* models say, which nothing in the repository compares it with.
SchemaOfRevision ==
    /\ schema \ Leftover = Run(Ups(0, revision), Start({}, {}, {})).schema
    /\ Leftover \subseteq {Enum("enginestatus")}
    /\ revision = Newest => schema = Models

\* An upgrade that goes through takes nothing away that was stored: it drops no
\* table and no column that has rows.  3ee8129175d8 drops bot_delivery_tasks,
\* with the notifications nobody has sent yet, and 97e038ee95bb a column of the
\* outbox; both are held up if there are such rows, by a column that cannot be
\* added to the rows these refer to.
NothingStoredIsDropped ==
    [][revision' > revision =>
          {c \in Columns(schema) : c[1] \in filled}
              \subseteq {c \in Columns(schema') : c[1] \in filled'}]_vars

\* What holds an upgrade up: rows of the outbox (97e038ee95bb), of
\* bot_delivery_tasks (91c2ff7519d4) or of engine_subscriptions (3ee8129175d8),
\* and the enum type if it is left from before.
HeldUp(to) ==
    \/ revision = 0 /\ schema # {}
    \/ revision < 5 /\ 5 <= to /\ "outbox" \in filled
    \/ revision < 6 /\ 6 <= to /\ "bot_delivery_tasks" \in filled
    \/ revision < 7 /\ 7 <= to /\ "engine_subscriptions" \in filled

\* Nothing else does: engines, users, NULL in any column, and the rows of a
\* newer revision never stand in the way, whatever went up and down before.
UpgradeGoesThrough ==
    \A to \in revision + 1 .. Newest : Run(Ups(revision, to), Database).ok <=> ~HeldUp(to)
=============================================================================
