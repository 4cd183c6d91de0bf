---------------------------- MODULE SchemaUpgrade ----------------------------
(***************************************************************************)
(* The database at the start of an API process (backend/database.py): the  *)
(* tables that create_all makes, the fourteen recorded versions and the    *)
(* compatibility block that run_migrations applies behind one advisory     *)
(* lock, and the flag database_available that every request tests and      *)
(* every database error clears.  init_db runs when a process starts and    *)
(* again in any request that finds the flag cleared.                       *)
(*                                                                         *)
(* A table is in the schema once create_all has run.  What the versions    *)
(* can trip over are the columns that are older than neither: a column is  *)
(* named here when some version or the compatibility block adds or uses it.*)
(* PostgreSQL is external: a transaction is one step, an advisory lock is  *)
(* freed when its connection closes.                                       *)
(***************************************************************************)
EXTENDS Naturals, FiniteSets

CONSTANTS
    Processes,    \* API processes on one database
    Requests,     \* requests being served at the same time
    Nobody,       \* no holder of the advisory lock
    Production,   \* config.IS_PRODUCTION
    MaxFaults     \* bound: connections that fail, requests that meet a database error

ASSUME TasksAssumption == Processes \cap Requests = {} /\ Nobody \notin Processes \cup Requests
ASSUME ModeAssumption == Production \in BOOLEAN
ASSUME FaultsAssumption == MaxFaults \in Nat

\* A task runs init_db: the start of a process, or a request in it.
Tasks    == Processes \cup Requests
Versions == 1 .. 14

\* The columns each version adds.  The tables it creates exist by then, and its
\* constraints, indexes and updates of rows concern columns named here or older.
TenantHistory        == {"events.tenant", "events.data"}
ProjectorEventId     == {"events.external_id"}
HistoryIntegrity     == {"events.actor", "events.fingerprint"}
AuthIdentity         == {"users.google_id"}
DevsecopsDomain      == {"connections.aks", "metrics.health"}
PendingApprovals     == {}
RetryHistory         == {}
VerifiedAzureTargets == {"connections.fingerprint"}
ApplicationType      == {"analyses.application_type"}
TerraformControl     == {}
AuthHardening        == {"users.ai_chat", "databases.secret"}
TerraformBinding     == {"deployments.terraform"}
WebhookSecrets       == {"integrations.secrets"}
CompanyWorkspaces    == {"tenants.mfa", "projects.tenant"}

\* versioned_migrations
Adds == <<TenantHistory, ProjectorEventId, HistoryIntegrity, AuthIdentity, DevsecopsDomain, PendingApprovals,
          RetryHistory, VerifiedAzureTargets, ApplicationType, TerraformControl, AuthHardening,
          TerraformBinding, WebhookSecrets, CompanyWorkspaces>>

\* The columns outside the first tables that each version's statements name.
Uses == [v \in Versions |->
    CASE v = 2 -> {"events.tenant", "events.external_id"}
      [] v = 3 -> {"events.data", "events.actor", "events.fingerprint"}
      [] v = 6 -> {"approvals.parameters"}
      [] v = 14 -> {"tenants.mfa", "projects.tenant"}
      [] OTHER -> Adds[v]]

\* migration_statements, which run after the versions.
CompatibilityAdds == {"users.google_id", "approvals.parameters", "metrics.project", "jobs.lease"}

AllColumns == CompatibilityAdds \cup UNION {Adds[v] : v \in Versions}

VARIABLES
    exists,      \* the database zeroops
    tables,      \* create_all has been committed
    columns,     \* of AllColumns, those in the schema
    recorded,    \* schema_migrations
    applied,     \* how often each version's statements were committed
    twins,       \* two accounts share a normalised e-mail address
    lock,        \* holder of the advisory lock zeroops-schema-migrations
    available,   \* database_available of each process
    pc,          \* where each task is
    missing,     \* what the task found missing: tables or versions
    home,        \* the process a request is served by
    faults       \* bound on faults

database   == <<exists, tables, columns, recorded, applied, twins>>
schemaVars == <<database, lock, available, pc, missing, home, faults>>

ProcessOf(t) == IF t \in Processes THEN t ELSE home[t]
IsUp(p)      == pc[p] = "up"

-----------------------------------------------------------------------------
\* A server with no database, or one that an earlier release left: with some of the
\* versions recorded, or with none and the columns of its compatibility block.
SchemaInit ==
    /\ \/ exists = FALSE /\ tables = FALSE /\ columns = {} /\ recorded = {} /\ twins = FALSE
       \/ /\ exists = TRUE /\ tables = TRUE
          /\ \E v \in {0, 10} :
                /\ recorded = 1 .. v
                /\ columns = CompatibilityAdds \cup UNION {Adds[w] : w \in 1 .. v}
                /\ twins \in {FALSE, v < 4}
    /\ applied = [v \in Versions |-> 0]
    /\ lock = Nobody
    /\ available = [p \in Processes |-> FALSE]
    /\ pc = [t \in Tasks |-> "idle"]
    /\ missing = [t \in Tasks |-> {}]
    /\ home = [r \in Requests |-> Nobody]
    /\ faults = 0

Continue(t, label) == pc' = [pc EXCEPT ![t] = label]

\* A task that ends: a request leaves its process.
End(gone) ==
    /\ pc' = [t \in Tasks |-> IF t \in gone THEN "idle" ELSE pc[t]]
    /\ home' = [r \in Requests |-> IF r \in gone THEN Nobody ELSE home[r]]

\* lifespan
StartProcess(p) ==
    /\ pc[p] = "idle"
    /\ available' = [available EXCEPT ![p] = TRUE]
    /\ Continue(p, "connect")
    /\ UNCHANGED <<database, lock, missing, home, faults>>

\* get_db
Arrive(r, p) ==
    /\ pc[r] = "idle" /\ IsUp(p)
    /\ home' = [home EXCEPT ![r] = p]
    /\ Continue(r, IF available[p] THEN "serving" ELSE "connect")
    /\ UNCHANGED <<database, lock, available, missing, faults>>

Serve(r) ==
    /\ pc[r] = "serving"
    /\ End({r})
    /\ UNCHANGED <<database, lock, available, missing, faults>>

\* Any SQLAlchemyError, a violated constraint too, is taken for an outage.
ServeWithError(r) ==
    /\ pc[r] = "serving" /\ faults < MaxFaults
    /\ faults' = faults + 1
    /\ available' = [available EXCEPT ![ProcessOf(r)] = FALSE]
    /\ End({r})
    /\ UNCHANGED <<database, lock, missing>>

-----------------------------------------------------------------------------
\* init_db, from the first statement to its result.
Succeed(t) == Continue(t, IF t \in Processes THEN "up" ELSE "serving")

\* Mutant of Failure: production starts without its migrations too.
FailureTolerant(t) ==
    /\ IF t \in Processes THEN Continue(t, "up") /\ UNCHANGED home ELSE End({t})
    /\ UNCHANGED available
    /\ lock' = IF lock = t THEN Nobody ELSE lock
    /\ missing' = [missing EXCEPT ![t] = {}]

\* Mutant of Failure: the advisory lock outlives the task.
FailureKeepsLock(t) ==
    /\ IF t \in Processes /\ ~Production THEN Continue(t, "up") /\ UNCHANGED home ELSE End({t})
    /\ available' = IF Production THEN available ELSE [available EXCEPT ![ProcessOf(t)] = FALSE]
    /\ missing' = [missing EXCEPT ![t] = {}]
    /\ UNCHANGED lock

\* A production process that cannot start ends, and a production request leaves the
\* flag as it is; elsewhere the process starts all the same.
Failure(t) ==
    /\ IF t \in Processes /\ ~Production THEN Continue(t, "up") /\ UNCHANGED home ELSE End({t})
    /\ available' = IF Production THEN available ELSE [available EXCEPT ![ProcessOf(t)] = FALSE]
    /\ lock' = IF lock = t THEN Nobody ELSE lock
    /\ missing' = [missing EXCEPT ![t] = {}]

Connect(t) ==
    /\ pc[t] = "connect"
    /\ Continue(t, IF exists THEN "look" ELSE "create database")
    /\ UNCHANGED <<database, lock, available, missing, home, faults>>

\* CREATE DATABASE fails when another process was faster.
CreateDatabase(t) ==
    /\ pc[t] = "create database"
    /\ IF exists
       THEN Failure(t) /\ UNCHANGED exists
       ELSE exists' = TRUE /\ Continue(t, "look") /\ UNCHANGED <<lock, available, missing, home>>
    /\ UNCHANGED <<tables, columns, recorded, applied, twins, faults>>

\* create_all looks which tables are missing, outside of the advisory lock.
LookForTables(t) ==
    /\ pc[t] = "look"
    /\ missing' = [missing EXCEPT ![t] = IF tables THEN {} ELSE {0}]
    /\ Continue(t, "create tables")
    /\ UNCHANGED <<database, lock, available, home, faults>>

\* New tables have every column of the models; creating one that exists fails.
CreateTables(t) ==
    /\ pc[t] = "create tables"
    /\ IF missing[t] # {} /\ tables
       THEN Failure(t) /\ UNCHANGED <<tables, columns>>
       ELSE /\ tables' = TRUE
            /\ columns' = IF tables THEN columns ELSE AllColumns
            /\ available' = [available EXCEPT ![ProcessOf(t)] = TRUE]
            /\ missing' = [missing EXCEPT ![t] = {}]
            /\ Continue(t, "migrate")
            /\ UNCHANGED <<lock, home>>
    /\ UNCHANGED <<exists, recorded, applied, twins, faults>>

\* run_migrations returns at once when the flag was cleared meanwhile.
SkipMigrations(t) ==
    /\ pc[t] = "migrate" /\ ~available[ProcessOf(t)]
    /\ Succeed(t)
    /\ UNCHANGED <<database, lock, available, missing, home, faults>>

\* Mutant of TakeLock: the versions are not serialised.
TakeNoLock(t) ==
    /\ pc[t] = "migrate" /\ available[ProcessOf(t)]
    /\ Continue(t, "read versions")
    /\ UNCHANGED <<database, lock, available, missing, home, faults>>

TakeLock(t) ==
    /\ pc[t] = "migrate" /\ available[ProcessOf(t)]
    /\ lock = Nobody
    /\ lock' = t
    /\ Continue(t, "read versions")
    /\ UNCHANGED <<database, available, missing, home, faults>>

Unlock(t) == lock' = IF lock = t THEN Nobody ELSE lock

\* _run_migrations_unlocked tests the flag again.
ReadVersions(t) ==
    /\ pc[t] = "read versions"
    /\ IF available[ProcessOf(t)]
       THEN /\ missing' = [missing EXCEPT ![t] = Versions \ recorded]
            /\ Continue(t, "versions")
            /\ UNCHANGED lock
       ELSE Unlock(t) /\ Succeed(t) /\ UNCHANGED missing
    /\ UNCHANGED <<database, available, home, faults>>

\* A version runs after the smaller ones of the same transaction.
Applicable(todo) ==
    /\ \A v \in todo : Uses[v] \subseteq columns \cup UNION {Adds[w] : w \in {w \in todo : w <= v}}
    /\ 4 \in todo => ~twins

\* Every missing version in one transaction.
ApplyVersions(t) ==
    /\ pc[t] = "versions"
    /\ IF Applicable(missing[t])
       THEN /\ recorded' = recorded \cup missing[t]
            /\ columns' = columns \cup UNION {Adds[v] : v \in missing[t]}
            /\ applied' = [v \in Versions |-> applied[v] + (IF v \in missing[t] THEN 1 ELSE 0)]
            /\ missing' = [missing EXCEPT ![t] = {}]
            /\ Continue(t, "compatibility")
            /\ UNCHANGED <<lock, available, home>>
       ELSE Failure(t) /\ UNCHANGED <<recorded, columns, applied>>
    /\ UNCHANGED <<exists, tables, twins, faults>>

\* The compatibility block in a transaction of its own, and the lock is given back.
ApplyCompatibility(t) ==
    /\ pc[t] = "compatibility"
    /\ columns' = columns \cup CompatibilityAdds
    /\ Unlock(t)
    /\ Succeed(t)
    /\ UNCHANGED <<exists, tables, recorded, applied, twins, available, missing, home, faults>>

Initialising(t) == pc[t] \notin {"idle", "up", "serving"}

\* The connection is lost at some point of init_db.
LoseConnection(t) ==
    /\ Initialising(t) /\ faults < MaxFaults
    /\ faults' = faults + 1
    /\ Failure(t)
    /\ UNCHANGED database

\* A process stops and takes its requests with it.
Crash(p) ==
    /\ pc[p] # "idle" /\ faults < MaxFaults
    /\ faults' = faults + 1
    /\ LET gone == {p} \cup {r \in Requests : home[r] = p}
       IN  /\ End(gone)
           /\ missing' = [t \in Tasks |-> IF t \in gone THEN {} ELSE missing[t]]
           /\ lock' = IF lock \in gone THEN Nobody ELSE lock
    /\ UNCHANGED <<database, available>>

\* The accounts are merged by hand, which migration 004 asks for.
MergeAccounts ==
    /\ twins
    /\ twins' = FALSE
    /\ UNCHANGED <<exists, tables, columns, recorded, applied, lock, available, pc, missing, home, faults>>

-----------------------------------------------------------------------------
InitDb(t) ==
    \/ Connect(t) \/ CreateDatabase(t)
    \/ LookForTables(t) \/ CreateTables(t)
    \/ SkipMigrations(t) \/ TakeLock(t)
    \/ ReadVersions(t) \/ ApplyVersions(t) \/ ApplyCompatibility(t)

-----------------------------------------------------------------------------
\* Types.
SchemaTypes ==
    /\ exists \in BOOLEAN /\ tables \in BOOLEAN /\ twins \in BOOLEAN
    /\ columns \subseteq AllColumns
    /\ recorded \subseteq Versions
    /\ applied \in [Versions -> Nat]
    /\ lock \in Tasks \cup {Nobody}
    /\ available \in [Processes -> BOOLEAN]
    /\ pc \in [Tasks -> {"idle", "connect", "create database", "look", "create tables", "migrate",
                         "read versions", "versions", "compatibility", "up", "serving"}]
    /\ missing \in [Tasks -> SUBSET (Versions \cup {0})]
    /\ home \in [Requests -> Processes \cup {Nobody}]
    /\ faults \in 0 .. MaxFaults

\* A version's statements are committed once, however many processes and requests run
\* the migrations at the same time: some of them drop and add constraints or erase data.
AppliedOnce == \A v \in Versions : applied[v] <= 1

\* In production no request is served from a schema that a migration has yet to reach,
\* although a request that finds the flag cleared may skip the migrations, and the flag
\* is set before they run.
ServedOnFullSchema ==
    Production => \A r \in Requests : pc[r] = "serving" => recorded = Versions /\ columns = AllColumns

\* The schema grows by whole versions, and requests see the last one.
SchemaIsSound == SchemaTypes /\ AppliedOnce /\ ServedOnFullSchema
=============================================================================
