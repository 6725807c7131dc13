--------------------------- MODULE SchemaUpgrade ---------------------------
(***************************************************************************)
(* The database at a start after an update (db_migrations.py, Database.     *)
(* initialize of db.py, migrations/).  The bot applies the revisions of     *)
(* alembic, then initialises; the mini app and the panel only initialise,   *)
(* and compose starts all of them together on one file.  SQLite commits     *)
(* each statement of a schema by itself; what a revision writes into rows   *)
(* is one transaction with its number.                                      *)
(* Revisions: 1 the first tables, 2 the outbox, 3 the subgroup, 4 the       *)
(* archive (three revisions of one kind), 5 the accounts.                   *)
(***************************************************************************)
EXTENDS Naturals, Sequences

CONSTANTS
    Bot,
    Neighbours,     \* processes that initialise without migrations
    Profiles,       \* rows of users from before the update
    MaxCrashes      \* bound

VARIABLES
    tables,         \* "events" stands for the tables of the first revision beside "users"
    columns,        \* the columns of users that came later
    versioned,      \* there is a table alembic_version
    revision,       \* what it says, 0 when it is empty
    profiles, keyed,    \* rows of users, those whose subscription has a key
    owned, joined,      \* profiles with an account, with one that has their subscription
    at, stage,      \* process -> its step, how much it has initialised
    known,          \* has_user_tables, as the bot saw it
    rows,           \* what revision 5 has read: profiles, those with a key
    excused,        \* history: profiles whose row had no key or a column too few
    cut,            \* history: the first revision or the stamp was interrupted
    crashes

database == <<tables, columns, versioned, revision>>
people == <<profiles, keyed, owned, joined, excused>>
vars == <<database, people, at, stage, known, rows, cut, crashes>>

Newest == 5
Schema == <<"outbox", "archive", "accounts", "users", "events">>
Added == <<"audience", "subgroup">>
Columns == {"audience", "subgroup"}
Tables == {"outbox", "archive", "accounts", "users", "events"}

Database(ts, cs, v, r, ps, ks) ==
    /\ tables = ts /\ columns = cs /\ versioned = v /\ revision = r
    /\ profiles = ps /\ keyed = ks

(* An empty one, one from before alembic, one of the first revision, one of the fourth. *)
Init ==
    /\ \/ Database({}, {}, FALSE, 0, {}, {})
       \/ Database({"users", "events"}, {}, FALSE, 0, Profiles, {})
       \/ Database({"users", "events"}, {}, TRUE, 1, Profiles, Profiles)
       \/ Database(Tables \ {"accounts"}, Columns, TRUE, 4, Profiles, Profiles)
    /\ owned = {} /\ joined = {} /\ excused = {} /\ cut = FALSE /\ crashes = 0
    /\ at = [p \in Neighbours \cup {Bot} |-> "down"] /\ stage = [p \in Neighbours \cup {Bot} |-> 0]
    /\ known = FALSE /\ rows = [all |-> {}, keyed |-> {}]

Goes(p, step) == at' = [at EXCEPT ![p] = step]

(* Whatever fails ends the process, and it is started again. *)
Fails(p) == Goes(p, "down") /\ UNCHANGED <<tables, columns>>

BotOnly == UNCHANGED <<people, stage, crashes>>
-----------------------------------------------------------------------------
Looks ==
    /\ at[Bot] = "down" /\ Goes(Bot, "looked")
    /\ known' = (tables # {})
    /\ BotOnly /\ UNCHANGED <<database, rows, cut>>

\* Mutant: a database without history is taken for an empty one.
NeverStamps == FALSE

MustStamp == known /\ ~versioned

Decides ==
    /\ at[Bot] = "looked"
    /\ Goes(Bot, IF MustStamp THEN "stamping" ELSE "upgrading")
    /\ BotOnly /\ UNCHANGED <<database, known, rows, cut>>

\* alembic makes its table before anything else, and commits it.
MakesHistory ==
    /\ \/ at[Bot] = "stamping" /\ Goes(Bot, "stamped")
       \/ at[Bot] = "upgrading" /\ ~versioned /\ UNCHANGED at
    /\ versioned' = TRUE
    /\ BotOnly /\ UNCHANGED <<tables, columns, revision, known, rows, cut>>

Stamps ==
    /\ at[Bot] = "stamped" /\ Goes(Bot, "upgrading")
    /\ revision' = 1
    /\ BotOnly /\ UNCHANGED <<tables, columns, versioned, known, rows, cut>>

Upgrading(r) == at[Bot] = "upgrading" /\ versioned /\ revision = r

\* Revision 1 creates what must not be there yet, a table at a time.
CreatesFirst ==
    /\ \/ /\ Upgrading(0)
          /\ IF "users" \in tables
             THEN Fails(Bot)
             ELSE tables' = tables \cup {"users"} /\ columns' = {} /\ Goes(Bot, "creating")
       \/ /\ at[Bot] = "creating"
          /\ IF "events" \in tables
             THEN Fails(Bot)
             ELSE tables' = tables \cup {"events"} /\ Goes(Bot, "recording") /\ UNCHANGED columns
    /\ BotOnly /\ UNCHANGED <<versioned, revision, known, rows, cut>>

CreatesMissing ==
    /\ \/ Upgrading(1) /\ tables' = tables \cup {"outbox"} /\ Goes(Bot, "recording")
       \/ Upgrading(3) /\ tables' = tables \cup {"archive"} /\ Goes(Bot, "recording")
       \/ Upgrading(4) /\ tables' = tables \cup {"accounts"} /\ Goes(Bot, "reading")
    /\ BotOnly /\ UNCHANGED <<columns, versioned, revision, known, rows, cut>>

InspectsSubgroup ==
    /\ Upgrading(2)
    /\ Goes(Bot, IF "users" \in tables /\ "subgroup" \in columns THEN "recording" ELSE "altering")
    /\ BotOnly /\ UNCHANGED <<database, known, rows, cut>>

(* A column can be added once, and to a table that is there. *)
Alters(p, column, next) ==
    IF "users" \notin tables \/ column \in columns
    THEN Fails(p)
    ELSE columns' = columns \cup {column} /\ Goes(p, next) /\ UNCHANGED tables

AddsSubgroup ==
    /\ at[Bot] = "altering" /\ Alters(Bot, "subgroup", "recording")
    /\ BotOnly /\ UNCHANGED <<versioned, revision, known, rows, cut>>

Records ==
    /\ at[Bot] = "recording" /\ Goes(Bot, "upgrading")
    /\ revision' = revision + 1
    /\ BotOnly /\ UNCHANGED <<tables, columns, versioned, known, rows, cut>>

(* Rows that initialize has not brought up to date: it comes after the migrations. *)
TooOld == IF columns = Columns THEN profiles \ keyed ELSE profiles

\* Mutant: the revision is recorded before its rows are written.
RecordsFirst ==
    /\ at[Bot] = "reading" /\ Goes(Bot, "moving")
    /\ rows' = [all |-> profiles, keyed |-> keyed]
    /\ excused' = TooOld /\ revision' = Newest
    /\ UNCHANGED <<tables, columns, versioned, profiles, keyed, owned, joined, stage, known, cut, crashes>>

\* A query that fails for a missing column counts as "no users".
ReadsUsers ==
    /\ at[Bot] = "reading" /\ Goes(Bot, "moving")
    /\ rows' = IF columns = Columns
               THEN [all |-> profiles, keyed |-> keyed]
               ELSE [all |-> {}, keyed |-> {}]
    /\ excused' = TooOld
    /\ UNCHANGED <<database, profiles, keyed, owned, joined, stage, known, cut, crashes>>

\* Rows and number are one transaction.
MovesUsers ==
    /\ at[Bot] = "moving" /\ Goes(Bot, "upgrading")
    /\ owned' = owned \cup rows.all /\ joined' = joined \cup rows.keyed
    /\ revision' = Newest
    /\ UNCHANGED <<tables, columns, versioned, profiles, keyed, excused, stage, known, rows, cut, crashes>>

Upgraded ==
    /\ Upgrading(Newest) /\ Goes(Bot, "initialising")
    /\ stage' = [stage EXCEPT ![Bot] = 0]
    /\ UNCHANGED <<database, people, known, rows, cut, crashes>>
-----------------------------------------------------------------------------
(* The panel initialises again for every page. *)
Starts(p) ==
    /\ at[p] \in {"down", "running"} /\ Goes(p, "initialising")
    /\ stage' = [stage EXCEPT ![p] = 0]
    /\ UNCHANGED <<database, people, known, rows, cut, crashes>>

Initialising(p) == at[p] = "initialising"
Advances(p) == stage' = [stage EXCEPT ![p] = @ + 1]

(* The bot took the database for empty, or has half of the first revision. *)
AtFirst ==
    /\ revision = 0
    /\ (at[Bot] \in {"looked", "upgrading"} /\ ~known) \/ at[Bot] = "creating"

\* CREATE TABLE IF NOT EXISTS
Creates(p) ==
    /\ Initialising(p) /\ stage[p] < Len(Schema)
    /\ LET table == Schema[stage[p] + 1]
       IN  /\ tables' = tables \cup {table}
           /\ columns' = IF table = "users" /\ table \notin tables THEN {"audience"} ELSE columns
           /\ cut' = (cut \/ (AtFirst /\ table \notin tables))
    /\ Advances(p) /\ UNCHANGED <<versioned, revision, people, at, known, rows, crashes>>

ColumnOf(p) == Added[stage[p] + 1 - Len(Schema)]
AtColumns(p) == stage[p] \in Len(Schema)..(Len(Schema) + Len(Added) - 1)

Missing(p) == ColumnOf(p) \notin columns

\* _ensure_column looks first, then adds.
Inspects(p) ==
    /\ Initialising(p) /\ AtColumns(p)
    /\ IF Missing(p) THEN Goes(p, "adding") /\ UNCHANGED stage ELSE Advances(p) /\ UNCHANGED at
    /\ UNCHANGED <<database, people, known, rows, cut, crashes>>

Adds(p) ==
    /\ at[p] = "adding"
    /\ Alters(p, ColumnOf(p), "initialising")
    /\ stage' = [stage EXCEPT ![p] = IF ColumnOf(p) \in columns THEN @ ELSE @ + 1]
    /\ UNCHANGED <<versioned, revision, people, known, rows, cut, crashes>>

\* The keys of old rows are derived from their groups, in one transaction.
Normalises(p) ==
    /\ Initialising(p) /\ stage[p] = Len(Schema) + Len(Added) /\ Goes(p, "running")
    /\ keyed' = profiles
    /\ UNCHANGED <<database, profiles, owned, joined, excused, stage, known, rows, cut, crashes>>

(* The mini app meets someone who wrote to a bot: get_or_create_account. *)
LogsIn(u) ==
    /\ \E p \in Neighbours : at[p] = "running"
    /\ u \in profiles \ owned
    /\ owned' = owned \cup {u} /\ joined' = joined \cup ({u} \cap keyed)
    /\ UNCHANGED <<database, profiles, keyed, excused, at, stage, known, rows, cut, crashes>>

Crashes(p) ==
    /\ at[p] # "down" /\ crashes < MaxCrashes /\ crashes' = crashes + 1
    /\ Goes(p, "down")
    /\ cut' = (cut \/ (p = Bot /\ versioned /\ revision = 0))
    /\ UNCHANGED <<database, people, stage, known, rows>>
-----------------------------------------------------------------------------
Migrates ==
    \/ Looks \/ Decides \/ MakesHistory \/ Stamps \/ CreatesFirst \/ CreatesMissing
    \/ InspectsSubgroup \/ AddsSubgroup \/ Records \/ ReadsUsers \/ MovesUsers \/ Upgraded

Initialises(p) == Creates(p) \/ Inspects(p) \/ Adds(p) \/ Normalises(p)

Next ==
    \/ Migrates
    \/ \E p \in Neighbours : Starts(p)
    \/ \E p \in Neighbours \cup {Bot} : Initialises(p) \/ Crashes(p)
    \/ \E u \in Profiles : LogsIn(u)

(* Steps of a process follow each other, and compose starts again what has ended. *)
Fairness ==
    /\ WF_vars(Migrates) /\ WF_vars(Initialises(Bot))
    /\ \A p \in Neighbours : WF_vars(at[p] = "down" /\ Starts(p)) /\ WF_vars(Initialises(p))

Spec == Init /\ [][Next]_vars /\ Fairness
-----------------------------------------------------------------------------
\* Once the last revision is recorded, everyone from before has an account with his
\* subscription, whatever ended the start before; but for rows that were too old to be
\* moved: without the columns or the key that only initialize adds, after the migrations.
MovedUnlessOld ==
    revision = Newest => profiles \subseteq joined \cup excused

\* A history without an entry and tables that are there: revision 1 fails at every start.
DeadEnd ==
    /\ versioned /\ revision = 0 /\ "users" \in tables
    /\ at[Bot] \notin {"stamped", "creating", "recording"}

\* It takes a crash within the first revision or the stamp, or another process that
\* creates its tables while the bot takes the database for empty.
DeadEndOnlyIfCut == DeadEnd => cut

\* A bot that has started is up in the end, whoever else initialises meanwhile, whatever
\* column another adds first and however often that ends the start.
EventuallyUp == at[Bot] # "down" ~> at[Bot] = "running" \/ DeadEnd
=============================================================================
