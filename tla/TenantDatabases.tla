--------------------------- MODULE TenantDatabases ---------------------------
(***************************************************************************)
(* How a process makes tenants and opens their databases (tenant.go of     *)
(* app/services/application, app/services/tenancy/tenant).  A connection   *)
(* is registered in a registry that keeps a budget and in the one map of   *)
(* the configuration; migrations and seeders of a tenant run on the        *)
(* connection that two globals of the process name at that moment, and so  *)
(* do the queries by which audits and rotations ask for a table.           *)
(***************************************************************************)
EXTENDS Naturals, FiniteSets

CONSTANTS
  Tenants,
  Platform,     \* the connection of the platform
  Calls,        \* goroutines of the process, which serve one request each
  Budgets,      \* pools that budgets of an installation have room for
  Ups,          \* number of TenantBusinessMigrations
  None

\* The platform is no tenant, and whoever holds a mutex is a call.
DatabasesAssumption == Budgets \subseteq Nat /\ Ups \in Nat /\ None \notin Calls /\ Platform \notin Tenants

Connections == Tenants \union {Platform}

VARIABLES
  rows,         \* tenants that have a row,
  databases,    \* and those that have a database
  tables,       \* by connection and tenant: how many of its migrations ran there
  seeds,        \* by connection: the tenants whose seeders ran there
  room,         \* pools that the budget of this installation has room for
  pools,        \* tenantConnectionRegistry
  config,       \* database.connections: "no" such entry, an "open" or a "refused" one
  registerMu, initializeMu,    \* the call that holds the mutex
  schema, seeder,              \* the connections that facades.Schema and seeders use
  stage, tenant,               \* of a call: where it is, and its tenant
  saw,          \* what it read of database.connections, and whether the pool fits
  previous,     \* the connection it will put back
  ups,          \* the migrations it has run
  made,         \* history: tenants whose creation has been answered
  disturbed     \* history: two calls that no mutex orders changed a global at a time

rowVars == <<rows, databases, tables, seeds, made>>
registryVars == <<room, pools, config>>
globalVars == <<schema, seeder, disturbed>>
localVars == <<saw, previous, ups>>
mutexes == <<registerMu, initializeMu>>
vars == <<rowVars, registryVars, globalVars, localVars, mutexes, stage, tenant>>

\* By the global that is changed in them.
Migrating == {"migrate set", "migrate", "migrated"}
Probing == {"probe set", "probe"}
Seeding == {"seed", "seeded", "seed failed"}
PlatformSeeding == {"platform seed"}
Registering == {"row registers", "request registers", "migration registers"}
Registered == {"row registered", "request registered", "migration registered"}
Stages == Migrating \union Probing \union Seeding \union PlatformSeeding \union Registering
            \union Registered \union {"idle", "create", "database", "statements",
                                      "initialize", "sync", "done"}
Verdict == [config : [Tenants -> {"no", "open", "refused"}], fits : BOOLEAN]
NoVerdict == [config |-> [t \in Tenants |-> "no"], fits |-> FALSE]

TypeOK ==
  /\ rows \subseteq Tenants /\ databases \subseteq Tenants /\ pools \subseteq Tenants
  /\ made \subseteq Tenants
  /\ tables \in [Connections -> [Tenants -> 0..Ups]]
  /\ seeds \in [Connections -> SUBSET Tenants]
  /\ room \in Budgets /\ config \in [Tenants -> {"no", "open", "refused"}]
  /\ {registerMu, initializeMu} \subseteq Calls \union {None}
  /\ {schema, seeder} \subseteq Connections /\ disturbed \in BOOLEAN
  /\ stage \in [Calls -> Stages] /\ tenant \in [Calls -> Tenants \union {None}]
  /\ saw \in [Calls -> Verdict] /\ previous \in [Calls -> Connections]
  /\ ups \in [Calls -> 0..Ups]

\* Tenants from before the process was started have yet to be registered in it.
Init ==
  /\ rows \in SUBSET Tenants /\ databases = rows /\ made = rows
  /\ tables = [k \in Connections |-> [t \in Tenants |-> IF t = k /\ t \in rows THEN Ups ELSE 0]]
  /\ seeds = [k \in Connections |-> {k} \intersect rows]
  /\ room \in Budgets /\ pools = {} /\ config = [t \in Tenants |-> "no"]
  /\ registerMu = None /\ initializeMu = None
  /\ schema = Platform /\ seeder = Platform /\ disturbed = FALSE
  /\ stage = [c \in Calls |-> "idle"] /\ tenant = [c \in Calls |-> None]
  /\ saw = [c \in Calls |-> NoVerdict] /\ previous = [c \in Calls |-> Platform]
  /\ ups = [c \in Calls |-> 0]

GoTo(c, s) == stage' = [stage EXCEPT ![c] = s]

\* The two changes of a global overlap: each puts back what it found.
Overlap(c, others) == disturbed' = (disturbed \/ (\E d \in Calls \ {c} : stage[d] \in others))

-----------------------------------------------------------------------------
(* RegisterTenantConnection, which most requests of a tenant begin with. *)

\* Variant: the mutex is not there.
RegisterFreeAlways == TRUE
RegisterFree == registerMu = None

ReadConnections(c) ==
  /\ stage[c] \in Registering
  /\ RegisterFree /\ registerMu' = c
  /\ saw' = [saw EXCEPT ![c] = [config |-> config,
               fits |-> Cardinality(pools \union {tenant[c]}) <= room]]
  /\ GoTo(c, CASE stage[c] = "row registers" -> "row registered"
               [] stage[c] = "request registers" -> "request registered"
               [] stage[c] = "migration registers" -> "migration registered")
  /\ UNCHANGED <<rowVars, registryVars, globalVars, previous, ups, initializeMu, tenant>>

\* A pool that does not fit is configured to answer with the error.
AddConnection(c) ==
  LET t == tenant[c] fits == saw[c].fits IN
  /\ stage[c] \in Registered
  /\ pools' = IF fits THEN pools \union {t} ELSE pools
  /\ config' = [saw[c].config EXCEPT ![t] = IF fits THEN "open" ELSE "refused"]
  /\ registerMu' = None /\ UNCHANGED room
  /\ GoTo(c, CASE stage[c] = "row registered" -> "statements"
               [] stage[c] = "request registered" -> "done"
               [] stage[c] = "migration registered" -> "migrate set")
  /\ saw' = [saw EXCEPT ![c] = NoVerdict]
  \* previous := facades.Schema().GetConnection(), the next line of runTenantMigrations
  /\ IF stage[c] = "migration registered"
       THEN previous' = [previous EXCEPT ![c] = schema] /\ Overlap(c, Probing)
       ELSE UNCHANGED <<previous, disturbed>>
  /\ UNCHANGED <<rowVars, schema, seeder, ups, initializeMu, tenant>>

Request(c, t) ==
  /\ stage[c] = "idle" /\ t \in rows
  /\ tenant' = [tenant EXCEPT ![c] = t] /\ GoTo(c, "request registers")
  /\ UNCHANGED <<rowVars, registryVars, globalVars, localVars, mutexes>>

-----------------------------------------------------------------------------
(* Create, with a database to be initialized. *)

\* Whatever it does may fail; what it has done so far stays.
Fail(c) ==
  /\ GoTo(c, "done")
  /\ UNCHANGED <<rowVars, registryVars, globalVars, localVars, mutexes, tenant>>

CreateRow(c, t) ==
  /\ stage[c] = "idle" /\ t \notin rows
  /\ rows' = rows \union {t}
  /\ tenant' = [tenant EXCEPT ![c] = t] /\ GoTo(c, "database")
  /\ UNCHANGED <<databases, tables, seeds, made, registryVars, globalVars, localVars, mutexes>>

\* runPostgresPlatformProvision: the role, and the database if there is none.
CreateDatabase(c) ==
  /\ stage[c] = "database"
  /\ \/ /\ databases' = databases \union {tenant[c]} /\ GoTo(c, "row registers")
        /\ UNCHANGED <<rows, tables, seeds, made, registryVars, globalVars, localVars>>
        /\ UNCHANGED <<mutexes, tenant>>
     \/ Fail(c)

\* The statements of ProvisionPostgresTenant in the database of the tenant.
TenantStatements(c) ==
  /\ stage[c] = "statements"
  /\ \/ /\ config[tenant[c]] = "open" /\ tenant[c] \in databases /\ GoTo(c, "initialize")
        /\ UNCHANGED <<rowVars, registryVars, globalVars, localVars, mutexes, tenant>>
     \/ Fail(c)

\* InitializeDatabase.  Variant: its mutex is not there.
InitializeFreeAlways == TRUE
InitializeFree == initializeMu = None
BeginInitialize(c) ==
  /\ stage[c] = "initialize" /\ InitializeFree
  /\ initializeMu' = c /\ GoTo(c, "migration registers")
  /\ UNCHANGED <<rowVars, registryVars, globalVars, localVars, registerMu, tenant>>

SetMigrationConnection(c) ==
  /\ stage[c] = "migrate set"
  /\ schema' = tenant[c] /\ GoTo(c, "migrate")
  /\ UNCHANGED <<rowVars, registryVars, seeder, disturbed, localVars, mutexes, tenant>>

\* One of the migrations, wherever it goes; or the first that fails.
Reachable(k) == k = Platform \/ (k \in databases /\ config[k] = "open")
Migrate(c) ==
  /\ stage[c] = "migrate"
  /\ \/ /\ Reachable(schema) /\ ups[c] < Ups
        /\ tables' = [tables EXCEPT ![schema][tenant[c]] = IF @ > ups[c] THEN @ ELSE ups[c] + 1]
        /\ ups' = [ups EXCEPT ![c] = @ + 1]
        /\ UNCHANGED stage
     \/ GoTo(c, "migrated") /\ UNCHANGED <<tables, ups>>
  /\ UNCHANGED <<rows, databases, seeds, made, registryVars, globalVars, saw, previous, mutexes, tenant>>

\* The deferred SetConnection.  What failed is over, and unlocks.
RestoreMigrationConnection(c) ==
  /\ stage[c] = "migrated"
  /\ schema' = previous[c]
  /\ previous' = [previous EXCEPT ![c] = Platform]
  /\ IF ups[c] = Ups
       THEN GoTo(c, "sync") /\ UNCHANGED initializeMu
       ELSE GoTo(c, "done") /\ initializeMu' = None
  /\ ups' = [ups EXCEPT ![c] = 0]
  /\ UNCHANGED <<rowVars, registryVars, seeder, disturbed, saw, registerMu, tenant>>

\* seeders.SetConnection reads and sets under a lock.
SetSeederConnection(c) ==
  /\ stage[c] = "sync"
  /\ previous' = [previous EXCEPT ![c] = seeder] /\ seeder' = tenant[c]
  /\ Overlap(c, PlatformSeeding)
  /\ GoTo(c, "seed")
  /\ UNCHANGED <<rowVars, registryVars, schema, saw, ups, mutexes, tenant>>

Seed(c) ==
  /\ stage[c] = "seed"
  /\ \/ /\ Reachable(seeder)
        /\ seeds' = [seeds EXCEPT ![seeder] = @ \union {tenant[c]}] /\ GoTo(c, "seeded")
     \/ GoTo(c, "seed failed") /\ UNCHANGED seeds
  /\ UNCHANGED <<rows, databases, tables, made, registryVars, globalVars, localVars, mutexes, tenant>>

\* SyncFromPlatform, which may fail, the deferred restore and the deferred Unlock.
EndInitialize(c) ==
  /\ stage[c] \in {"seeded", "seed failed"}
  /\ seeder' = previous[c] /\ previous' = [previous EXCEPT ![c] = Platform]
  /\ initializeMu' = None
  /\ made' = made \/ (stage[c] = "seeded" /\ made' = made \union {tenant[c]})
  /\ GoTo(c, "done")
  /\ UNCHANGED <<rows, databases, tables, seeds, registryVars, schema, disturbed, saw, ups, registerMu, tenant>>

\* Destroy, with its database, if nobody works in that, or without.  Its pool stays.
Destroy(t) ==
  /\ t \in rows /\ rows' = rows \ {t} /\ made' = made \ {t}
  /\ \/ UNCHANGED <<databases, tables, seeds>>
     \/ /\ \A c \in Calls : tenant[c] = t => stage[c] = "done"
        /\ databases' = databases \ {t}
        /\ tables' = [tables EXCEPT ![t] = [u \in Tenants |-> 0]]
        /\ seeds' = [seeds EXCEPT ![t] = {}]
  /\ UNCHANGED <<registryVars, globalVars, localVars, mutexes, stage, tenant>>

-----------------------------------------------------------------------------
(* Who else changes the globals. *)

\* auditRetentionSchemaHasTable and schemaHasTable, of a connection registered
\* before: read, set, ask, put back.
ReadProbeConnection(c, t) ==
  /\ stage[c] = "idle" /\ t \in rows /\ config[t] = "open"
  /\ tenant' = [tenant EXCEPT ![c] = t]
  /\ previous' = [previous EXCEPT ![c] = schema]
  /\ Overlap(c, Probing \union Migrating)
  /\ GoTo(c, "probe set")
  /\ UNCHANGED <<rowVars, registryVars, schema, seeder, saw, ups, mutexes>>

SetProbeConnection(c) ==
  /\ stage[c] = "probe set"
  /\ schema' = tenant[c] /\ GoTo(c, "probe")
  /\ UNCHANGED <<rowVars, registryVars, seeder, disturbed, localVars, mutexes, tenant>>

RestoreProbeConnection(c) ==
  /\ stage[c] = "probe"
  /\ schema' = previous[c] /\ previous' = [previous EXCEPT ![c] = Platform]
  /\ GoTo(c, "done")
  /\ UNCHANGED <<rowVars, registryVars, seeder, disturbed, saw, ups, mutexes, tenant>>

\* EnsureLocalDefaults, by a login to the platform of a local installation.
BeginPlatformSeeds(c) ==
  /\ stage[c] = "idle"
  /\ previous' = [previous EXCEPT ![c] = seeder] /\ seeder' = Platform
  /\ Overlap(c, Seeding)
  /\ GoTo(c, "platform seed")
  /\ UNCHANGED <<rowVars, registryVars, schema, saw, ups, mutexes, tenant>>

EndPlatformSeeds(c) ==
  /\ stage[c] = "platform seed"
  /\ seeder' = previous[c] /\ previous' = [previous EXCEPT ![c] = Platform]
  /\ GoTo(c, "done")
  /\ UNCHANGED <<rowVars, registryVars, schema, disturbed, saw, ups, mutexes, tenant>>

-----------------------------------------------------------------------------

Next ==
  \/ \E c \in Calls :
       \/ \E t \in Tenants : Request(c, t) \/ CreateRow(c, t) \/ ReadProbeConnection(c, t)
       \/ ReadConnections(c) \/ AddConnection(c)
       \/ CreateDatabase(c) \/ TenantStatements(c) \/ BeginInitialize(c)
       \/ SetMigrationConnection(c) \/ Migrate(c) \/ RestoreMigrationConnection(c)
       \/ SetSeederConnection(c) \/ Seed(c) \/ EndInitialize(c)
       \/ SetProbeConnection(c) \/ RestoreProbeConnection(c)
       \/ BeginPlatformSeeds(c) \/ EndPlatformSeeds(c)
  \/ \E t \in Tenants : Destroy(t)

Spec == Init /\ [][Next]_vars

-----------------------------------------------------------------------------
(* What holds. *)

\* However many tenants meet in a process, its pools stay within the budget, and
\* each has its entry in the configuration: no registration undoes another.
PoolsWithinBudget ==
  /\ Cardinality(pools) <= room
  /\ \A t \in Tenants : t \in pools <=> config[t] = "open"

\* The tables and seeds of a tenant are made in its own database only, and all of
\* them by the time its creation is answered, however many tenants are created at
\* a time; and then the process is back at the platform.  (A probe, or a login that
\* seeds the platform, in the midst of it may spoil that: no mutex orders them.)
TenantsStayHome ==
  ~disturbed =>
    /\ \A k \in Connections, t \in Tenants :
         k # t => tables[k][t] = 0 /\ t \notin seeds[k]
    /\ \A t \in made : tables[t][t] = Ups /\ t \in seeds[t]
    /\ (\A c \in Calls : stage[c] \notin Migrating \union Probing) => schema = Platform
=============================================================================
