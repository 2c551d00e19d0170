----------------------------- MODULE MCLifecycles -----------------------------
(***************************************************************************)
(* What installs and serves modules and tenants: the lifecycle of a        *)
(* module, the row and the plans of a tenant, the databases and pools of   *)
(* tenants, the rate limiter of one, its users, and the rule sets of the   *)
(* protection engine.  They share no state here, so it is enough to let    *)
(* one of them move in each behaviour, its focus, and to leave the others  *)
(* out of it.                                                              *)
(*                                                                         *)
(* Two lifecycle calls, of one action or of two, with two commands each;   *)
(* the clock has room for a lock to expire and the next holder's as well.  *)
(* Two calls work on a tenant and its two plans.  Two goroutines create,   *)
(* destroy and meet two tenants, with budgets of one pool and of two.      *)
(* Three requests of one tenant and a limit of two.  Two operators and one *)
(* request after another on two users of a tenant that may have one.  Two  *)
(* calls on two rule sets of two patterns, of which one may have been      *)
(* published, once or twice.                                               *)
(***************************************************************************)
EXTENDS ModuleLifecycle, TLC

CONSTANTS
  Calls, None,
  Plans, FirstPlan,
  Tenants, Platform, Budgets, Ups,
  Requests, Limit, Window, LockTtl, MaxTime,
  Ids, Everyone, MaxUsers, Readers, InfoTTL, MaxChanges,
  RuleSets, Patterns, MaxVersion

VARIABLES
  focus,
  status, plan, features, open, grants, told, writer, step, copy, goal,
  rows, databases, tables, seeds, room, pools, config, registerMu, initializeMu, schema, seeder,
  stage, tenant, saw, previous, ups, made, disturbed,
  moment, hits, rateLock, at, time, seen, held, admitted, late,
  records, deleted, version, lapsing, cache, act, of, turn, who, info, shown, expected, changes,
  signedOn, crowded, fellBack, outdated,
  row, published, meant, loaded, loader, found, doing, op, target, number, wish, pick, raced

MCSymmetry == Permutations(Procs) \union Permutations(Keys)

T == INSTANCE TenantRecords WITH stage <- step, seen <- copy
D == INSTANCE TenantDatabases
R == INSTANCE TenantRates WITH now <- moment, lock <- rateLock
U == INSTANCE Users WITH
       Limit <- MaxUsers, TTL <- InfoTTL, Operators <- Procs, Requests <- Readers,
       rows <- records, op <- act, stage <- turn
G == INSTANCE RuleSets WITH at <- doing

ASSUME RatesAssumption == R!RatesAssumption
ASSUME DatabasesAssumption == D!DatabasesAssumption
ASSUME UsersAssumption == U!UsersAssumption
ASSUME RulesAssumption == G!RulesAssumption

tenantVars == <<status, plan, features, open, grants, told, writer, step, copy, goal>>
databaseVars ==
  <<rows, databases, tables, seeds, room, pools, config, registerMu, initializeMu, schema, seeder,
    stage, tenant, saw, previous, ups, made, disturbed>>
rateVars == <<moment, hits, rateLock, at, time, seen, held, admitted, late>>
userVars ==
  <<records, deleted, version, lapsing, cache, act, of, turn, who, info, shown, expected, changes,
    signedOn, crowded, fellBack, outdated>>
ruleVars ==
  <<row, published, meant, loaded, loader, found, doing, op, target, number, wish, pick, raced>>
tenantsVars == <<tenantVars, databaseVars, rateVars, userVars>>
allVars == <<focus, vars, tenantsVars, ruleVars>>

NoTenant ==
  /\ status = 0 /\ plan = 0 /\ features = 0 /\ open = 0 /\ grants = 0 /\ told = 0 /\ writer = 0
  /\ step = 0 /\ copy = 0 /\ goal = 0
NoDatabases ==
  /\ rows = 0 /\ databases = 0 /\ tables = 0 /\ seeds = 0 /\ room = 0 /\ pools = 0 /\ config = 0
  /\ registerMu = 0 /\ initializeMu = 0 /\ schema = 0 /\ seeder = 0 /\ stage = 0 /\ tenant = 0
  /\ saw = 0 /\ previous = 0 /\ ups = 0 /\ made = 0 /\ disturbed = 0
NoUsers ==
  /\ records = 0 /\ deleted = 0 /\ version = 0 /\ lapsing = 0 /\ cache = 0 /\ act = 0 /\ of = 0
  /\ turn = 0 /\ who = 0 /\ info = 0 /\ shown = 0 /\ expected = 0 /\ changes = 0 /\ signedOn = 0
  /\ crowded = 0 /\ fellBack = 0 /\ outdated = 0
NoRules ==
  /\ row = 0 /\ published = 0 /\ meant = 0 /\ loaded = 0 /\ loader = 0 /\ found = 0 /\ doing = 0
  /\ op = 0 /\ target = 0 /\ number = 0 /\ wish = 0 /\ pick = 0 /\ raced = 0

MCInit ==
  /\ focus \in {"module", "tenant", "databases", "rates", "users", "rules"}
  /\ Init /\ R!Init
  /\ IF focus = "tenant" THEN T!Init ELSE NoTenant
  /\ IF focus = "databases" THEN D!Init ELSE NoDatabases
  /\ IF focus = "users" THEN U!Init ELSE NoUsers
  /\ IF focus = "rules" THEN G!Init /\ (\E i \in RuleSets : published[i] = <<>>) ELSE NoRules

MCNext ==
  /\ UNCHANGED focus
  /\ \/ focus = "module" /\ Next /\ UNCHANGED <<tenantsVars, ruleVars>>
     \/ focus = "rules" /\ G!Next /\ UNCHANGED <<vars, tenantsVars>>
     \/ /\ UNCHANGED <<vars, ruleVars>>
        /\ \/ focus = "tenant" /\ T!Next /\ UNCHANGED <<databaseVars, rateVars, userVars>>
           \/ focus = "databases" /\ D!Next /\ UNCHANGED <<tenantVars, rateVars, userVars>>
           \/ focus = "rates" /\ R!Next /\ UNCHANGED <<tenantVars, databaseVars, userVars>>
           \/ focus = "users" /\ U!Next /\ UNCHANGED <<tenantVars, databaseVars, rateVars>>

MCSpec == MCInit /\ [][MCNext]_allVars

TrailTellsPermissions == focus = "tenant" => T!TrailTellsPermissions
PoolsWithinBudget == focus = "databases" => D!PoolsWithinBudget
TenantsStayHome == focus = "databases" => D!TenantsStayHome
LimitHolds == R!LimitHolds
UsersAreKept == focus = "users" => U!UsersAreKept
PublishedAsSeen == focus = "rules" => G!PublishedAsSeen
RulesAreServed == focus = "rules" => G!RulesAreServed
===============================================================================
