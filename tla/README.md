# A formal model of goravel-mine

goravel-mine is a multi-tenant administration platform on the Goravel framework. An HTTP
application, queue workers, schedulers and console commands run as several processes, usually
on several nodes, against one database and one cache. They meet in the rows of that database,
in entries of the cache, in the queue, and - inside one process - in shared maps and globals.
This directory models the places where they meet: TLA+ modules translated from the Go code,
TLC configurations that check them on small instances, and TLAPS proofs of what should hold on
every instance.

Paths are below `src/app/` unless they start with `src/`.

## Inventory

What each part keeps, does and talks to, what is hard about it, and what makes it correct.

| part | state | operations | talks to | what is hard | correct when |
|---|---|---|---|---|---|
| **idempotency store** `services/runtime/queue/idempotency.go` | rows of `queue_idempotency`: status, result, claim token, lease | `Once`, `OnceWithMetadata` | called by message consumers, high-risk jobs, publications | each statement can be stale when the next one runs; a lease lapses under a running function; the worker dies or its finish fails | live leases exclude; a finish inside the lease counts; a success is final |
| **outbox** `.../queue/outbox*.go` | rows of `queue_outbox`, a runner's batch | `Append`, `ClaimDue`, `MarkSent`, `MarkFailed`, runner start and shutdown | the queue | two runners, a batch older than its locks, death between push and mark | one live claim per event; sent means pushed; every event is settled, once |
| **message bus** `services/runtime/messagebus/` | deliveries, dead letters, queued and failed jobs | dispatch, `consumeMessage`, retry, bury, replay, resolve, retry or delete a failed job | outbox, idempotency store, queue | an at-least-once queue in front of an at-most-once store; panics; failing writes in the failure path itself | an enqueued message is handled, or someone can see that it was not |
| **scheduled tasks** `services/runtime/scheduledtask/` | rows of `scheduled_task`, run logs, a process's active runs | `RunDue`, `Claim`, `runTask`, `ManualRun`, `Update`, `Enable`, `Disable`, `Delete` | handlers; nodes meet in the row | overlapping triggers, retries, misfires, lapsed locks, forms saved under running tasks | FORBID runs do not overlap, no occurrence fires twice, a key runs once |
| **protection engine** `services/runtime/protection/engine.go` | circuits, windows, concurrency counts, completions | `Evaluate`, `Complete`, `ReplaceRules` | HTTP middleware, rule sets | calls that end under another version than admitted them; half-open slots | counts equal what runs; limits bound traffic; outages end |
| **rule sets** `.../protection/service.go` | drafts, published versions, the loader's mutex | create, update, publish, roll back, enable, delete | the engine | forms saved under a publication; a conflict check outside its transaction; loads that overtake each other | what is published is what was seen, and the engine works with it |
| **module lifecycle** `modulecatalog/lifecycle_*.go` | `module_lifecycle_lock`, `_run`, `module_state`; child processes | install, upgrade, rollback, uninstall; renew; release stale locks | shell commands, operators | a child that ignores its cancellation, a lock that lapses, late results, release by hand | the commands of one module do not run side by side; success is recorded last |
| **migration lock** `services/runtime/migrationlock/`, `console/commands/migration/` | session advisory locks of PostgreSQL | `Acquire`, `Release`, migrate | database sessions | two keys for `all`, back-off with a key in hand, failing unlocks, broken sessions | overlapping migrations exclude each other; a waiter blocks nobody |
| **sensitive operations** `services/application/security.go` | re-authentication tokens and their locks (cache), approvals (database) | issue, request, approve; the guard, its transaction, restore | every dangerous change of the platform | two calls with one piece of evidence; a change prepared, then approved, then carried out; death between spending and changing | evidence pays once, for its change, and is not lost without a cause |
| **audit pruning** `services/application/audit.go` | plans, executions with a heartbeat, archive manifests, retention runs | create a plan, archive, execute, recover an abandoned run | sensitive operations, immutable storage | an execution taken for dead that goes on; records that change after they were archived | what is deleted was archived as it was; a plan runs once |
| **tenant export** `services/application/tenant.go` | governance run, evidence, download token | request, handle a job, download | outbox, queue, object storage | an event pushed twice, a late job that fails | done means completed, and stays so |
| **tenant records** same file | the tenant's row, plans, permission trail | form, status, permissions, plan, snapshot; plans | sensitive operations | read, change a copy, write back, without a version | the trail tells what the tenant has |
| **tenant databases** same file, `services/tenancy/tenant/connection_registry.go` | databases, pools, the connection map, two globals | create, initialize, destroy; register a connection; probe | migrations, seeders | globals that name "the" connection; a budget shared by all tenants | pools within the budget; every table in its own database |
| **tenant rates** `services/tenancy/tenant/rate_limiter.go` | hits of the window in the cache, under a lock | `Allow` | every request of a tenant | a lock that lapses between read and write | the limit holds |
| **accounts** `services/application/auth.go`, `services/access/auth/` | password, history, second factor, challenges, counters | log in, complete a challenge, set up, confirm, disable a factor, change or reset a password | cache, permissions | challenges held twice, codes written back, a history read before and written after | what was owed was given; codes buy once; records are true |
| **tokens** `services/access/auth/jwt.go`, `token_blacklist.go`, `auth.go` | JWTs, blacklist entries in the cache | issue, parse, refresh, log out | cache | entries that last by other lifetimes than their tokens; two refreshes at a time | what was ended stays ended |
| **single sign-on** `services/application/sso.go`, `tenant.go` | transactions, verified claims, locks, accounts, bindings | authorize, call back, bind, log in | outside identity providers | a callback repeated, failing half way, outlasting its lock | one login, one account, and a failure can be repeated |
| **permissions** `services/application/permission.go`, `services/access/casbin/` | roles, menus, memberships, Casbin rules, each node's enforcer | create, rename, delete, assign, authorize | cache | a load that overlaps an invalidation; a code read outside its transaction | rows and rules agree; answers are recent |
| **users** `permission.go`, `auth.go` | users, quota, cached user info with versions | create, update, delete; `me` | cache, permissions | info built across an invalidation; a quota checked before its insert | what a user is told is current |
| **operation log** `services/platform/logadmin/dispatcher.go` | a channel and its goroutine | dispatch, start, shut down | queue, database | a dispatch while the worker is told to stop | every record is written |
| module planner and version policy `modulecatalog/lifecycle_planner.go` | none | order modules, compare versions | executor | dependency order | a pure function; not modelled yet |
| module admission `services/moduleadmission/`, security rotation | admission records; key versions | fetch, verify, admit; re-encrypt in batches | files, database | interrupted batches | not modelled: mostly files, processes and one-row updates |
| platform data, catalogue listings, OpenAPI, observability, HTTP, console, code generators, start-up, support, web client | rows read and written one at a time, or none | - | the services above | no interleaving of their own | not modelled |

### How the parts interact

    HTTP request --- tenant rates --- tokens / user info --- enforcer --- protection engine
    service writes + Append -> queue_outbox -> runner -> queue
         queue -> MessageConsumeJob -> idempotency store -> handler
         queue -> QueueOutboxDispatchJob -> tenant export
    dangerous change -> re-authentication token + approval -> tenant, audit pruning, ...
    scheduler tick on each node -> Claim on scheduled_task -> handler (retention, ...)
    role, menu, user, sign-on -> Casbin rules -> invalidation -> enforcer of each node
    console and HTTP -> lifecycle executor -> lock row -> child process
    console migration:safe, tenant:migrate -> advisory locks -> migrations

`PROJECT.json` lists the hazards of this code line by line, each with the properties that
would catch it going wrong. Where a property exempts a case the note of the hazard says so.

## Plan

The modules are in the order of what matters most. Each is written so that it can be proved
about: constants with named assumptions, one action per operation, no recursive operators.
Abstract specifications worth stating beside `OncePerKey`: a lock that lapses, which the task's
row, the lifecycle's lock and the outbox's claims implement alike.

1. `QueueIdempotency` with its abstract specification `OncePerKey`; `QueueOutbox`;
   `MessageBus`, which contains the store.
2. `ScheduledTask`, `ProtectionEngine`, `ModuleLifecycle`, `MigrationLock`.
3. `SensitiveOperations`, `AuditPrune`, `TenantExport`, `TenantRecords`, `TenantDatabases`,
   `TenantRates`.
4. `Permissions`, `SignOn`, `Sessions`, `Tokens`, `Users`, `OperationLogs`, `RuleSets`.
5. Proofs of every safety and action property that a run checks, in the same order. *All up to
   here is written.*
6. Left: adapters and routes of the message bus, which are published like rule sets; the planner
   against a reference order.

## The modules

In every module each statement on the database or the cache is an action of its own, unless
the code holds it in a transaction or a mutex together with others: whatever a process has
read may have changed when it acts. Time is either the time left of a lease, or a bounded
clock; lengths are a few ticks, as the code only compares instants. Clocks of different nodes
agree, as the code supposes when it writes one node's `now` for another to compare. Variables
without a counterpart in the code are called history in their declarations: they record what
happened, for the properties.

### QueueIdempotency, OncePerKey

The columns of `queue_idempotency` are `status`, `result`, `token` and `lease` (the time left
until `locked_until`); the locals of `OnceWithMetadata` are `pc`, `key`, `claim`, `left` and
`rep`. `ReadRow`, `InsertRow`, `ReadConflict`, `ReserveFailed`, `ReserveStaleRunning` and
`Finish` are its statements; each may fail, and `Abandon` is the death of the worker at any of
them. `rep` says whether the caller was told a duplicate, lost the race, or ran the function
itself. `OncePerKey` has only `phase` and `answer` for each key; the refinement maps running to
held, success to done, the rest to free.

### QueueOutbox

Columns `status`, `attempts`, `wait` (available_at), `owner` (claim_token) and `lock`; per
runner `run`, `pc`, `todo`, `holds`, `age` (of the `now` that its `ClaimDue` goes on using) and
`outcome`. A cycle selects due rows, claims them one conditional UPDATE at a time, pushes and
marks in id order. `Shutdown` cancels a runner at any step, `Crash` and `Restart` lose its
batch, `StatementError` ends its cycle. `pushed` and `fatal` are history.

### MessageBus

One message. `sent[d]` is the progress of a dispatch; `jobs` and `failedJobs` are the queue
(external: it hands each job to one worker, again if the worker dies, and files a job that
failed under `failed_jobs`); `stage`, `attempt`, `class` and `delivery` are `consumeMessage`
and `handleMessageFailure` in a worker, `letter` the last dead letter of a key. The store is
`QueueIdempotency` itself, instantiated with the same variables: the steps of `Once` are its
actions, and the handler runs between its reserve and its finish. Replay, retry and deletion
by operators are actions.

### ScheduledTask

The row (`setting`, `exists`, `enabled`, `version`, `nextRun`, `lockedUntil`, `runToken`),
`RunDue` on each node (what it has read, `seenNext`, `seenLock`), `runTask` for each run
(attempt, end of the handler or delay, the lock that its claim wrote, status of the log), the
process's active runs, and operators with a form open (`formVersion`, `formNext`). `Claim` is
the conditional UPDATE with its policy and misfire decision; a FORBID task is locked for
`Timeout + Margin`; `FinishTask` releases by run token. `fires` and `rearmed` are history.
`Delete` and `CommitSetStatus` (Enable, Disable) may hit a running task.

### ProtectionEngine, RuleSets

Every method of `Engine` holds one mutex, so `Evaluate`, `Complete` and `ReplaceRules` are one
action each. One rule set: `circuit[k]` is the record of a circuit (state, clock, samples,
probes in flight, successes), `window` the rate window, `concurrency` the count of running
calls, `held[c]` the completion a call will run, with the version that admitted it. `Publish`
and `SetEnabled` write the database, `ReplaceRules` loads it. `Tick` ages every clock up to the
duration that reads it. `admits` and `disabled` are history.

`RuleSets` is how that database comes to say what it says. A set has a draft with a version
number (`row`) and the list of what was `published`; an operator's call opens a form
(`number`, `wish`), finds the row, reads the version, checks for conflicts with what other sets
have published, and commits under the condition that the version is the form's. `Evaluate` of a
request loads the engine under a mutex when it is out of date (`loader`, `found`, `loaded`).
`meant` and `raced` are history.

### ModuleLifecycle

A process is a call of `executeItem` with its renewal goroutine, its child process and the
goroutine that watches a child which did not stop within the grace time. `holder` and `expires`
are the lock row; `run[k]` is the run row of an idempotency key; `stated` the keys with a
success in `module_state`. `ReadStaleLock` and `ReleaseStaleLock` are the operator's two
statements. `Crash` leaves the child running. `lapsed` records whose lock ran out in their
hands.

### MigrationLock

`locks[<<p, k>>]` counts how often p's session holds key k (PostgreSQL's part); `got` is the
`acquired` slice, `pc` the place in `acquireAll`, in `SafeMigrateCore.Run`
(`TenantMigrateCore.Run` takes the lock of the tenants likewise) and in `Release`. Unlocks may
fail, which the code ignores; `Break` ends a session without its process noticing.

### SensitiveOperations

A tenant (`status`, `needsApproval`, `database`), re-authentication tokens in the cache with
their locks, approvals in the database, and calls that delete or export the tenant. A call
takes its token's lock, checks the token's claims, forgets it, reads the approval, makes the
change and marks the approval in the order that its `form` has: *guard* (everything is spent
first), *transaction* (the approval is marked together with the change), *unapproved* (the
policy asks for none) and *reauth* (the token comes back when the change fails). `Prepare`
happens before the approval is asked for, `PatchPolicy` may change the policy after it.
`Crash` ends a call anywhere. An approval's UPDATE repeats its conditions, and is modelled so.

### AuditPrune

`record` are the audit tables; a plan lists the records that are due with their digests
(`digest`, `target`); `archive` is the manifest in immutable storage, which anybody may have
written with anything in it; an execution recovers an abandoned run, loads the plan, verifies
the archive against it, spends its evidence, claims the plan, and for each target beats,
claims, deletes what still has its digest, and marks. `age` is that of the heartbeat, `Lease`
is `auditPruneLeaseTimeout`. Retention runs of the scheduler nodes (`run`, `runPlan`, `node`)
draw up plans and are finished by the execution that ends them. `Drift` is any other writer.

### TenantExport

`run` and `event` are written in one transaction, by one of several calls of `Request` under
one idempotency key. A job reads the run, starts or resumes it, writes the artifact, attaches
its evidence, completes the run or fails it; what it returns decides between retry, failed job
and done (`Judge`). Download tokens are pulled from the cache and serve once. The queue is
external.

### TenantRecords, TenantDatabases, TenantRates

`TenantRecords` is the row (`status`, `plan`, `features`), the plans (`open`, `grants`) and the
newest entry of the permission trail (`told`). A call reads the row (`seen`), works on its copy
and writes columns of it back: the form of a tenant, a change of status, of permissions or of
plan, the snapshot of an old tenant, and creation, update and deletion of a plan.

`TenantDatabases` is one process: rows and databases of tenants, `tables` and `seeds` by the
connection they were made on, the registry with its budget (`pools`, `room`), the map of the
configuration, two mutexes, and the globals `schema` and `seeder` that migrations and seeders
go by. Calls create a tenant, register a connection for a request, run its migrations and
seeders, probe, seed the platform, or destroy a tenant.

`TenantRates` is the limiter: the list of `hits` is read, extended and written back under a
lock that lapses. Every operation on the cache can fail.

### Permissions, Users

`Permissions` follows one user and one permission. Rows are `code` of the roles that exist,
`menu`, `grants` and `members`; rules are `prules` and `grules`, by code. A call reads what it
goes by, commits rows and rules in one transaction, and invalidates the enforcer of its node.
`menu` is the menu that has the permission's name, `others` are those that had one before or
have another. `SaveMenu` makes menus, renames the one of that name away or leaves it out;
`RenameMenu` gives the name to another, whose rows become grants without a rule: `adrift`, until
their role is synced or deleted. What roles are granted of a menu while it has another name is
not followed, so that a rename lets any roles have it.
The enforcer is an entry for a time (`entry`, `left`) or a load in flight (`load`, `age`), for
which other requests wait. `since` (when the rules last said each verdict) and `torn` are
history.

`Users` counts changes (`rows`) instead of their contents. A request looks up the cached info
under the versions of everyone and of the user, or builds it and stores it under the versions
it began with; a change commits, and then increments a version or, when that fails, puts one
for a time. The quota is checked before the insertion.

### Sessions, Tokens, SignOn

`Sessions` is one account: password, history, second factor (`secret`, `codes`, `enrolled`),
challenges in the cache, the counter of failures and the lock it leads to. Workers serve
logins, their challenges, set-up, confirmation and disabling of the factor, changes and resets
of the password, statement by statement. Any statement of the database may fail: the request
ends (`Fails`), or a failure is counted (`Compare`, `PrepareVerify`), or, where `Enabled` and
`CheckMaxAge` cannot read, the login goes on as if nothing were due (`PassOver`). History is what
has been spent, by how many at a time; what each request and its challenges have `settled`, given
or passed over; and `slips`: what those who were let in still owed.

`Tokens` issues JWTs under the lifetimes of the moment, which `Deploy` changes, and ends them
by entries of the blacklist. A refresh finds the user, ends its token and issues the next pair,
in three steps; `Logout` ends tokens.

`SignOn` is a transaction in the cache, its lock, the code that the provider takes once, the
verified claims that are kept for a repetition, the person's accounts and the binding. A
callback takes the lock, loads, exchanges, stores the claims, finds or makes an account, binds
it, and consumes the transaction. `Crash` and failures are possible at each step.

### OperationLogs

The channel, its goroutine, `Shutdown` and its waiting callers, and for each record where its
dispatch is: offered to the channel, dropped to a write of its own, sent to the queue. A start
may come with a dispatch, after a shutdown as well.

### The modules for TLC

An MC module gives an instance its constants. Most hold several components that share no
state, and a variable `focus` that says which of them moves in a behaviour; the others rest. A
behaviour of the sum is a behaviour of one component beside others at rest, so what holds of the
sum holds of each, and what fails in a component fails in the sum. Each component has variables
of its own, renamed by its INSTANCE where another has the name. In `MCLifecycles` and
`MCAdministration`, components that have several initial states are left out of the behaviours
of the others: their variables are 0, and their properties ask for their focus.

- `MCIdempotentConsumption`: store, bus (with a store of its own), export
- `MCQueueOutbox`: outbox
- `MCMessagesAndRecords`: pruning, bus, operation log
- `MCScheduling`: a task on two nodes, a task under operators; `MCScheduledTask` by itself
- `MCRuntimeGuards`: migration lock, protection engine; `MCProtectionEngine` by itself
- `MCLifecycles`: module lifecycle, tenant records, databases and rates, users, rule sets
- `MCAdministration`: sensitive operations, sessions, sign-on
- `MCAccess`: tokens, permissions; `MCPermissions` by itself

## The runs

Each passes in less than five minutes with two workers.

| run | question | instance, and why it is enough |
|---|---|---|
| `idempotent_consumption` | Is work that is handed out more than once done as often as it should be, and does it come to rest? | Store: 2 workers, 1 key, 2 results, 4 tokens, a lease of 2: keys do not touch each other, a takeover needs two workers, and two ticks let a lease be half gone. Bus: 1 worker, 2 dispatches, 2 attempts, 2 tokens. Export: 2 requests, 2 jobs, 2 attempts, 1 download |
| `queue_outbox` | Is an event in one live claim, settled for cause and for good, and always settled? | 2 runners, 2 events in one batch, a lock of 1 tick, 2 attempts, 2 faults: a batch can lapse between its events and another runner take over the second |
| `messages_and_records` | Can a message or a record of the log vanish, does pruning delete what nobody archived? | Bus: 2 workers, 1 consumer, 2 dispatches (a duplicate or a replay), 3 attempts, 3 tokens. Pruning: 1 plan, 2 records, 2 executions, 2 nodes, a lease of 1 tick, so that an execution is taken for dead before, between and after its targets. Log: 3 records, a channel of 1, 2 calls of `Shutdown` |
| `message_bus_at_least_once` | (violated) Is the bus at-least-once? | the same |
| `scheduling` | Do locks guard runs, does what asks once run once, do runs overlap as the policy says? | 2 nodes, 2 runs, period 2, handler up to 2, clock to 5: two occurrences and a claim that outlasts its lock; three settings (retried; skipped when late; prompt). And 1 node, 2 runs, 1 key, 1 operator, clock to 2, FORBID and REPLACE |
| `scheduled_forbid_retry` | (violated) Do FORBID tasks exclude when they are retried? | 2 nodes, 3 runs, clock to 6 |
| `runtime_guards` | Do overlapping migrations exclude and do waiters hold nothing? Do counter, window, slots and outage clock stay true? | 3 processes of every scope, two rounds each: a chain platform - all - tenants needs three. 3 callers against limits of 2, two circuits, durations of 1 or 2, 2 versions |
| `protection_reenabled` | (violated) Does a re-enabled set leave HALF_OPEN? | 2 callers, 1 circuit, 3 versions |
| `lifecycles` | Do lifecycle commands exclude and end right? Trails, pools, tables, rates, users and rule sets: see the properties | Lifecycle: 2 calls, 2 keys, 2 commands, TTL 2, clock to 4: one lock can expire and the next one too. 2 calls on 2 plans. 2 goroutines, 2 tenants with 2 migrations, budgets of 1 and 2. 3 requests, limit and window 2, a lock of 1, clock to 3. 2 operators, 1 request at a time, 2 users of whom 1 may be, 2 changes. 2 calls on 2 rule sets of 2 patterns, versions to 5 |
| `administration` | Does evidence pay once and is it not lost? Does a login owe nothing? Can a sign-on be repeated? | 2 administrators, 2 tokens, 1 approval, 2 calls, lifetimes of 1, clock to 1. 3 requests of one account, 2 passwords, a history of 1, 1 recovery code, 2 failures to a lock; with the third at work the status, the lock and challenges nobody brought stay as they are, since nothing reads them any more. 2 transactions of one person, 2 callbacks at a time, 2 usernames, lifetime 2, a lock of 1 |
| `access` | Do rules follow rows, are answers recent, does an ended token stay ended? | Rows and rules: 2 roles, codes and menus, 2 calls. Answers: 1 role, 2 codes, 1 menu that may go, 2 calls, 2 requests, TTL 2, a load of 1 (rows and rules do not depend on requests, and an answer only on whether the rules say yes). 4 tokens, 2 workers, two configurations of lifetimes, clock to 2 |
| `access_sign_on` | (violated) Does every change of roles drop the enforcer? | the permissions of `access` |

Symmetry is used where no liveness is checked and no constant singles out an element. Named
bounds are the clocks (`Horizon`, `MaxTime`, `Patience`), versions and changes (`MaxVersion`,
`MaxChanges`, `MaxDrawn`), faults (`MaxFaults`), and the number of runs, dispatches, calls,
requests and tokens. Where behaviours end at such a bound - everywhere but in the outbox and in
the engine by itself - `CHECK_DEADLOCK` is off: the clock stops, or every call is made. The
bounds were also tried one step higher where that was feasible: `Sessions` with three passwords
and with four requests, `Users` with two requests at a time and a lifetime of two,
`SensitiveOperations` with three calls and with a clock to two.

What the properties say:

- store: `LeaseExclusive`, `KeepsPromise` (the refinement). Two functions may run under one key
  when the first outlasts its five minutes, and none of these says otherwise.
- outbox: `ClaimExclusive` (live claims), `SettledWithCause`, `SettledIsFinal`, and the
  liveness property `EventuallySettled`.
- bus: `EnqueuedIsAccountedFor` has one exception, a delivery IGNORED as a duplicate: see the
  findings. `SucceededWasHandledOrLost` names the one way a delivery says SUCCEEDED without a
  handled message: a lost race for a failed row. `WorkComesToRest` is of the bus and of exports.
- export: `DoneIsCompleted`. Pruning: `DeletedWasArchived`, `PlanExecutedOnce`,
  `RetentionIsHonest`. Log: `RecordsAreWritten`.
- tasks: `LockGuardsRuns`, `RunsOnce`, `OverlapsByPolicy`.
- engine: `CountsAreTrue` (places, probe slots, and a bound for every stretch of a window's
  length, which a fixed window puts at twice the limit less one), `OutageNotProlonged`.
- migrations: `MigrationsExclude`, `WaitersHoldNothing`.
- lifecycle: `LockGuardsCommands`, `SucceededIsStated`, `TerminalStays`.
- tenants: `TrailTellsPermissions`, `PoolsWithinBudget`, `TenantsStayHome`, `LimitHolds`.
- users: `UsersAreKept`. Rule sets: `PublishedAsSeen`, `RulesAreServed`.
- evidence: `EvidenceBuysItsChange`, `EvidenceNotLost`. Accounts: `AdmittedInFull`,
  `FactorsAreSpentOnce`, `RecordsAreKept`. Sign-on: `SignOnIsRepeatable`.
- access: `AnswerIsRecent`, `RulesFollowRows`, `EndedStaysEnded`.

Each property of a passing run has a variant of the code beside the modelled definition - a
dropped condition, a missing reset, an exchanged order - under which it fails; the variants are
the operators marked "Variant:" in the modules and listed as `mutants` in `PROJECT.json`.

### What the properties exempt

The code does not keep everything one might wish, and a property that names an exception says
what it does keep:

- A conflict check of rule sets before the other was published (`raced`): both are published.
- A menu that is given the permission's name after roles were granted it: `UpdateMenu` renames
  the row by its id and moves neither rows nor rules (`permission.go:430-437`), so a role keeps
  the menu and the rule of the old name until it is synced (`adrift`). No other call is needed.
- A second factor or an expired password whose read fails in the login: `Enabled` answers no
  (`auth.go:772-778`) and `CheckMaxAge` nothing (`password_history.go:120-124`), and the account
  is let in. `src/docs/api-contract/admin-base-apis.md:77` has an enrolled account answer the
  challenge first, without a word on failures; `AdmittedInFull` holds for whoever was asked,
  and a factor that was passed over excuses no password, nor the other way round. For the same
  reason an enrolled account may set up anew, against line 164 of that document (`Setup`).
- A session that breaks under a migration; the lock of a module, a tenant's limiter, a sign-on
  or a scheduled run that lapses in its holder's hands.
- A probe, or a login that seeds the platform, in the midst of a tenant's creation
  (`disturbed`): no mutex orders the two globals.
- Recovery codes and challenges that two requests hold at a time, codes written back from a
  copy; a history of passwords written by two at a time; a set-up of the second factor while it
  is being confirmed (`src/docs/api-contract/admin-base-apis.md:164` has it confirmed by a code
  of the secret it keeps); a refresh token that two requests bring at a time.
- The quota of users when two are made at a time, or one by a first sign-on, which checks none.
- An occurrence that an operator put back by saving a form that was opened before it fired, and
  those after it.

Beside the properties: an abandoned execution of a plan leaves its retention run to an operator
(`AuditPrune`); a tenant's form writes back the status and plan it was opened with
(`TenantRecords`); a record that falls back from a configured queue to the channel is lost when
the process ends, since no runner exists that would empty it (`OperationLogs`); and the
transaction of a single sign-on is used up after the login's result is made, where
`src/docs/api-contract/oidc-sso.md:86` has it the other way round, which only helps
(`SignOn`).

### Fairness

- Outbox, `LiveSpec`: weak fairness of each runner's next step, restart included (the loop of a
  runner goes on until shutdown and a supervisor restarts processes), and of ticks that come in
  time, that is, at which no batch in progress outlasts its lock. A batch that does is a fault,
  and there are finitely many (`MaxFaults`): with infinitely many an event need never be settled.
- Bus and export, `MCIdempotentConsumption`: weak fairness of each worker's moves (it polls the
  queue for ever), of pushing and marking the export's event (which the outbox's liveness
  stands for), and of the export's jobs; crashes, failed statements and requeues by operators
  come to an end.
- Engine, `LiveSpec`: time passes, calls keep arriving, admitted calls end (the middleware
  completes in a deferred call), and an evaluation reloads rules older than five seconds.

## Findings

1. **The bus is not at-least-once across the death of a consumer**
   (`message_bus_at_least_once`). A worker that dies in its handler leaves its key running for
   five minutes; the queue hands the job out again, `consumeMessage` finds the key running,
   records IGNORED and returns no error, and the job is gone. The runbook promises at-least-once
   delivery and asks operators to confirm it by this very experiment.
2. **FORBID tasks with retries overlap themselves** (`scheduled_forbid_retry`). The lock lasts
   one timeout and five seconds; `runTask` spends up to `MaxAttempts` timeouts and the delays
   between them without extending it. `OverlapsByPolicy` says when the policy does hold.
3. **A re-enabled rule set may reject for ever** (`protection_reenabled`). Disabling a set
   removes its rules but keeps its circuits; probes that end meanwhile give no slot back, and
   enabling restores HALF_OPEN with every slot taken.
4. **A single sign-on leaves the enforcer as it was** (`access_sign_on`). `completeSSOLogin`
   (`tenant.go:2774`) replaces the user's roles and rules and drops the cached user info only;
   the node answers by the old roles until its entry expires. The capacity budget says that
   successful changes of roles invalidate the key of the tenant.

## The proofs

TLAPS checks every theorem to its leaves, for every value of the constants that the modules'
named assumptions allow. These are what the code's validation and its own constants guarantee:
a lease, a time to live, a limit, a size, a number of attempts or commands that is not zero
(`LeaseAssumption`, `OutboxLeaseAssumption`, `AttemptsAssumption`, `LifecycleAssumption`,
`EngineAssumption`, `RatesAssumption`, `RolesAssumption`, `UsersAssumption`, `RulesAssumption`,
`SignOnAssumption`, `SessionsAssumption`, `LogAssumption`, ...), values that
stand for an empty column or an idle worker and are nobody's (`TokenAssumption`,
`NobodyAssumption`, `ExportAssumption`, `DatabasesAssumption`, ...), and sets of settings or
lists of the right shape (`SettingsAssumption`, `BusAssumption`, `EvidenceAssumption`). TLC
evaluates each of them in the runs. Components of a run that holds several are proved about by
their own specification, `P!Spec` (permissions), `E!Spec` (engine), `M!Spec` (bus), `X!Spec`
(export), `R!Spec` (rates), `D!Spec` (databases), `T!Spec` (trail), `U!Spec` (users), `G!Spec`
(rule sets), `S!Spec` (sign-on) and `L!Spec` (the log, or logins), not by the sum.

**IdempotentConsumptionProofs.** For the store, `LeaseExclusive` is not inductive: a claim can be
taken over between a worker's read and its update. The strengthening is `ClaimsAreFenced` -
whoever executes with time left is the one in the row, with its token and just that time, and no
two executing calls carry one token. `LeasesExclude` and `TimelyFinish` (a finish inside the
lease takes effect) follow. `Remembered` is what a running call knows of its row, and
`ImplementsPromise` is the refinement of `OncePerKey`: each statement is a step of the promise
for one key, or none. For the export, a job is crossed off only after the run it found completed,
and no step takes a completed run back: `DoneCompleted`.

**QueueOutboxProofs.** `ClaimsAreFenced` - an event held in a batch younger than its lock is its
runner's in the row, with the lock that the batch took - is inductive together with what a
runner about to mark knows of its dispatch (`OutcomeIsTrue`) and the attempts that a row has
left. `ClaimsExclude`, `MarksTakeEffect`, `SettledForCause` and `SettledForGood` follow.

**LifecyclesProofs.** For modules, `LeaseInRow` - a call with a lock that has not lapsed is in the
row, and so is its child - is inductive once it is known that a call that releases has no child
left (`NoChildLeft`). With the row in one call's hands no other writes a run, and the call that
does has seen it not terminal (`RunInv`): `SucceededStated` and `TerminalLasts` rest on that. For
the tenants' rate limit, `RatesInv` says what holds until a request outlasts its lock: whoever
works on the entry is alone, no hit that still counts has been dropped from it, and the hits read
are those in it, so that a hit is added only where one more fits (`PutFits`): `LimitKept`.

For their databases, what a call inside the registry's mutex has read of the connections is still
so when it writes them back (`Budgeted`): `PoolsKept`. The two globals have one user at a time,
who has read the platform and will put it back (`SchemaHome`, `SeederHome`) - migrations because
of the mutex of `InitializeDatabase`, the others because nothing was `disturbed` - and so
each migration and seeder finds the tenant it means (`TablesHome`): `HomeKept`.

The trail's property is inductive as it stands, since a call that writes the row or its trail
writes the other in the same transaction: `TrailTold`. For the users, a call that inserts has room
unless two were past the check at a time (`QuotaKept`); a request expects no more than has been
shown (`Asked`); and as versions only grow while they can be incremented, what is found under the
newest ones shows all that has been shown before, or was built across a change (`ToldAll`):
`UsersKept`. For the rule sets, while a row has the version of a form its operator still sees what
he saw, so that what is published is what he meant (`Fitting`): `PublicationsSeen`. What was
checked for conflicts has none until it is written, unless it raced another check
(`Conflictless`), and whoever has the engine's mutex has read nothing older than what is loaded
(`Loading`, `Served`): `RulesServed`.

**RuntimeGuardsProofs.** For the migration lock, `LockInv` says that a key is with one session at
a time, that a process whose session is whole holds the keys it counts, and counts all of them
while it migrates and none while it waits; an unlock that fails leaks a lock but never lends
one. Exact counting gives `WaitersHold`. For the engine, `EngineInv` says that no call runs under
a version that is still to be loaded - which is why a reload may start counting at nothing -,
that only half-open circuits have probes, that each place and probe slot has its call, and that
every admission remembered has a place of its own in the window it was counted in, this one or
the one before. Two windows have twice `Limit` places, and one of them is not within a window's
length of the others: `CountsTrue`. `OutagesEnd` compares clocks of a circuit before and after
every action.

**ScheduledTaskProofs.** `LastingLockIsInRow` - the lock of a scheduled FORBID run that still lasts
is the one in the row, under its token - is inductive with `LockedRunsExclude` and `TicksArePast`:
a claim compares the row's lock with the time of its tick, which lies in the past, so it finds
no lock that lasts now. `Margin` must not be zero for it. What has fired lies before the next run
in the row, save what operators put back (`FiredIsBehind`): `OccurrencesOnce`. `RunsInv` says, stage
by stage, when a run ends at the latest, who is active and who is cancelled; `KeysOnce` and
`OverlapFollowsPolicy` follow.

**MessagesAndRecordsProofs.** What an execution deletes is compared with the digest of the plan,
the digest with the archive before the evidence is spent, and neither changes afterwards
(`PruneInv`). What it counts as done is gone, and its count is that of the targets behind it
(`ExecInv`). The row of the plan names its one execution, and one that was given up learns it
from its next heartbeat (`OnceInv`).

For the bus, `ReportsAreTrue` says what a worker's report of the store means for its message, and
gives `SuccessIsTrue`. A message is accounted for because somebody is left to settle it, and the
hard case is a chain of workers who yield to each other: one that found a failed row and lost the
race for it reports success for whoever won. So the invariant counts everybody but those who may
still yield: a row that is taken has somebody counted (`TakenIsCounted`), and an enqueued message
has too, or has a failed row that a worker is about to take (`EnqueuedIsCounted`): `MessagesAccounted`.

For the operation log, a record is in one place - with its request, in the channel, with the
goroutine, or written (`RecordsInPlace`) - and the goroutine ends only where nothing can be sent
any more (`ShutdownInOrder`): `RecordsKept`.

**SensitiveOperationsProofs.** A lock lasts at least as long as its token (`LocksLast`), so whoever
finds the lock free while the token is valid finds nobody at work for it (`LocksExclude`); what is
forgotten only its own restoring brings back (`SpendingInv`); an approval's UPDATE repeats what
it asks of the row (`ApprovalInv`). `TokensAccounted` and `UsedForACall` keep a call that answers
for whatever is gone: `NothingLost`.

For sign-on, `SignOnInv`: as long as no callback of a transaction outlasts its lock, whoever holds
the lock is alone with the transaction, and one that has signed somebody on leaves none in the
cache (`Alone`); what a spent code was exchanged for is kept, or a callback is about to keep it
(`Remembered`); and whoever looks for a free name does so because there is no account, unless one
was made while another call had found none (`FirstName`): `SignOnRepeatable`.

For logins, `LoginInv`. Requests and challenges are numbered, no two requests at work have one
number, and codes that remain are not spent but where a late one put them back (`SpendInv`):
`FactorsOnce`. A request that has compared a new password with the history knows how much of it
there was, and what an account without a history is to be given is its password (`RecordsInv`):
`PasswordsOnRecord`. Whatever was due when a password was compared has been given, is due no
longer, is still ahead, or was not asked for because the read failed (`PassedOver`): secrets are
only drawn and passwords only added, so that what has changed does not come back (`AdmitInv`):
`AdmittedWhole`.

**AccessProofs.** An entry of the blacklist outlasts its token, unless that was issued under a
longer lifetime (`EntriesLast`); a token that was exchanged while a worker had it in hand is one
that two brought (`ExchangesMeet`): `EndedForGood`. Rows and rules agree because what a call has
read of its role is true when it commits, or the role is new and nothing refers to it
(`SeenFits`), and because the user has no rule without a role (`NoStrayRules`); a grant that is
not `adrift` was made under the name the menu has: `RulesFollow`. What an enforcer says was right no longer ago than its age and that of its load (`Recent`):
`AnswersRecent`.

What the proofs showed about the models: a scheduled FORBID lock needs a margin, and an
occurrence put back puts back those after it; menus of roles not yet created appear only where
changes have met a missing role; admissions have to remember their place in the window. Each of
these is now in the module, with the line of the code it is from.

**Only model-checked.** Liveness, and everything that needs ENABLED, is beyond the prover:
`EventuallySettled`, `WorkComesToRest` and `HalfOpenIsLeft` rest on TLC, as do the
counterexamples of the findings. Every other property of a passing run is stated by a theorem.

## Not modelled

Within the modelled parts: the in-memory doubles that tests use; the memory adapter's
synchronous dispatch; edits of a task that change its policies, timeout or schedule, and
`Reconcile`; step rows of lifecycle runs, which nothing reads back; the idempotent publication
of rule sets, which is the store's `Once` around `Publish`; metrics, logs and audit trails; the
contents of messages, payloads and results; clocks of nodes that disagree. The services of the
platform's own administrators and roles go through the same steps as those of tenants, on other
tables; the models stand for both, and the map names the tenants' code. Databases are taken to
execute each statement atomically, and PostgreSQL's advisory locks, the cache and the queue to
behave as their use in the code supposes. In `Sessions` and `Tokens` no call of the cache fails:
there a `Forget` that does not come through would leave a challenge to be brought again, and an
`Increment` after an `Add` that failed a counter without expiry.

The map covers about an eighth of the repository's implementation lines. Most of the rest are listings,
projections and forms over single rows, request parsing, code generators, OpenAPI documents,
start-up and file or process handling: code without an interleaving or a history that a model
could get wrong in another way than a test does. The inventory and `components` in
`PROJECT.json` name these parts.
