--------------------------------- MODULE Startup ---------------------------------
(***************************************************************************)
(* How a process comes up: validateConfig, initDatabase with its           *)
(* migrations and initRelayer in a server (api/src/server.ts), and the     *)
(* second alone in the replay script (scripts/replay_dlq.ts).  Each        *)
(* statement on the database is a step, as the API and the replay script   *)
(* may start at once, an old and a new release among them, and any of them *)
(* may be killed.  A statement that finds the database locked for too long *)
(* throws, which ends the process like a kill.                             *)
(***************************************************************************)
EXTENDS Naturals, Sequences

CONSTANTS
    Servers, Scripts,   \* processes
    MaxStarts           \* bound on the starts of all of them

Processes == Servers \cup Scripts

\* The migration files in their order.  The last one adds columns, and cannot run twice.
Files == <<"001_idempotency", "002_dlq", "003_tenants", "004_connect_tokens",
           "005_job_completions", "006_payments", "007_tenant_plans">>

Repeatable(file) == file # "007_tenant_plans"

\* How many of the files a release has.
Releases == {5, 7}

VARIABLES
    phase,          \* of a process: "down", "opening", "migrating", "purging", "relayer", "up"
    release,        \* of a process: how many files it has
    config,         \* of a process: [relay, key]
    applied,        \* of a process: the names it read, and those it applied since
    tables,         \* what is there of the files, and whether the list of names is
    recorded,       \* names in _migrations
    starts

startupVars == <<phase, release, config, applied, tables, recorded, starts>>

StartupInit ==
    /\ phase = [p \in Processes |-> "down"]
    /\ release = [p \in Processes |-> 7]
    /\ config = [p \in Processes |-> [relay |-> TRUE, key |-> TRUE]]
    /\ applied = [p \in Processes |-> {}]
    /\ tables = {}
    /\ recorded = {}
    /\ starts = 0

Enter(p, next) == phase' = [phase EXCEPT ![p] = next]

-------------------------------------------------------------------------------
(* Coming up *)

\* validateConfig throws on a relaying API without a key, before it opens the database.
ValidConfig(c) == c.relay => c.key

StartProcess(p, r, c) ==
    /\ phase[p] = "down"
    /\ starts < MaxStarts
    /\ p \in Servers => ValidConfig(c)
    /\ release' = [release EXCEPT ![p] = r]
    /\ config' = [config EXCEPT ![p] = c]
    /\ starts' = starts + 1
    /\ Enter(p, "opening")
    /\ UNCHANGED <<applied, tables, recorded>>

\* CREATE TABLE IF NOT EXISTS _migrations
CreateList(p) ==
    /\ phase[p] = "opening"
    /\ "_migrations" \notin tables
    /\ tables' = tables \cup {"_migrations"}
    /\ UNCHANGED <<phase, release, config, applied, recorded, starts>>

\* SELECT name FROM _migrations, once for all the files.
ReadApplied(p) ==
    /\ phase[p] = "opening"
    /\ "_migrations" \in tables
    /\ applied' = [applied EXCEPT ![p] = recorded]
    /\ Enter(p, "migrating")
    /\ UNCHANGED <<release, config, tables, recorded, starts>>

Pending(p) == {i \in 1..release[p] : Files[i] \notin applied[p]}

NextFile(p) == Files[CHOOSE i \in Pending(p) : \A j \in Pending(p) : i <= j]

\* The statements of the file, and the insertion of its name, which is unique.
Runs(file) == (Repeatable(file) \/ file \notin tables) /\ file \notin recorded

Down(p) == Enter(p, "down") /\ applied' = [applied EXCEPT ![p] = {}]

\* A plausible slip: no transaction around the two, so that a kill may come in between.
MigrateUnwrapped(p, file) ==
    /\ tables' = tables \cup {file}
    /\ \/ recorded' = recorded \cup {file} /\ applied' = [applied EXCEPT ![p] = @ \cup {file}]
          /\ UNCHANGED phase
       \/ Down(p) /\ UNCHANGED recorded

\* One transaction.
Migrate(p, file) ==
    /\ tables' = tables \cup {file}
    /\ recorded' = recorded \cup {file}
    /\ applied' = [applied EXCEPT ![p] = @ \cup {file}]
    /\ UNCHANGED phase

\* A file that another process applied since the names were read fails, and is rolled back;
\* the error ends the process.
ApplyNext(p) ==
    /\ phase[p] = "migrating"
    /\ Pending(p) # {}
    /\ \/ Runs(NextFile(p)) /\ Migrate(p, NextFile(p))
       \/ ~Runs(NextFile(p)) /\ Down(p) /\ UNCHANGED <<tables, recorded>>
    /\ UNCHANGED <<release, config, starts>>

AllApplied(p) ==
    /\ phase[p] = "migrating"
    /\ Pending(p) = {}
    /\ Enter(p, "purging")
    /\ UNCHANGED <<release, config, applied, tables, recorded, starts>>

\* purgeExpiredTokens, whose effect on the links is Purge of Accounts.  It catches its
\* errors, and would go on without the table.
PurgeExpiredTokens(p) ==
    /\ phase[p] = "purging"
    /\ Enter(p, IF p \in Servers THEN "relayer" ELSE "up")
    /\ UNCHANGED <<release, config, applied, tables, recorded, starts>>

\* initRelayer, which would throw without a key, and listen.
Listen(p) ==
    /\ phase[p] = "relayer"
    /\ config[p].relay => config[p].key
    /\ Enter(p, "up")
    /\ UNCHANGED <<release, config, applied, tables, recorded, starts>>

\* shutdown, a kill, or a lock that lasts.
Stop(p) ==
    /\ phase[p] # "down"
    /\ Down(p)
    /\ UNCHANGED <<release, config, tables, recorded, starts>>

StartupNext ==
    \E p \in Processes :
        \/ \E r \in Releases, relay, key \in BOOLEAN : StartProcess(p, r, [relay |-> relay, key |-> key])
        \/ CreateList(p)
        \/ ReadApplied(p)
        \/ ApplyNext(p)
        \/ AllApplied(p)
        \/ PurgeExpiredTokens(p)
        \/ Listen(p)
        \/ Stop(p)

-------------------------------------------------------------------------------
(* Properties *)

\* The names of _migrations are those of the files that were run, each as a whole, from the
\* first on and without a gap, whoever starts or is killed at the same time; and a process
\* that is up finds all that its release has files for, and a server that relays has a key
\* (db/index.ts 79-139, config.ts 140-147, relayer.ts 89-97).
SchemaFollowsMigrations ==
    /\ tables \ {"_migrations"} = recorded
    /\ \E n \in 0..Len(Files) : recorded = {Files[i] : i \in 1..n}
    /\ \A p \in Processes :
        phase[p] = "up" =>
            /\ {Files[i] : i \in 1..release[p]} \subseteq tables
            /\ p \in Servers /\ config[p].relay => config[p].key
================================================================================
