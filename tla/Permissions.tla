----------------------------- MODULE Permissions -----------------------------
(***************************************************************************)
(* Roles, their menus and users, the Casbin rules kept beside them         *)
(* (app/services/application/permission.go), the roles a single sign-on    *)
(* brings along (sso.go, tenant.go), and the enforcers that the nodes keep *)
(* of the rules (app/services/access/casbin/cache.go).                     *)
(*                                                                         *)
(* One user and one permission of one tenant are followed, and the         *)
(* enforcer of one node: changes are made here and elsewhere.  A role is a *)
(* row with an id and a code; the rules know it by its code.  The menu     *)
(* that bears the name of the permission may be deleted and made again,    *)
(* under a new id, and renamed: its rows keep to its id and the rules to   *)
(* the name.  Names of menus are unique.  A transaction of the database is *)
(* one step.                                                               *)
(***************************************************************************)
EXTENDS Naturals, FiniteSets

CONSTANTS
  Roles,        \* ids, never given again
  Codes,
  Menus,        \* ids of menus that may bear the name of the permission
  Calls,        \* calls that change roles, users or menus, each made once
  Readers,      \* requests to be authorized here
  TTL,          \* of an enforcer
  MaxLoad,      \* ticks the rules may take to load
  None          \* no id, and the code of a role that is not there: ""

\* Something to follow, and a time to keep it for.
RolesAssumption ==
  /\ Roles # {} /\ Codes # {} /\ Menus # {}
  /\ None \notin Roles \union Codes \union Menus
  /\ TTL \in Nat \ {0} /\ MaxLoad \in Nat

VARIABLES
  born, code,   \* the roles that have been created; codes of those that exist
  menu, drawn,  \* the id of the menu with the name, and the ids that have been given
  others,       \* ids that bear another name now
  grants,       \* role_belongs_menu: the roles that have the menu with the name
  members,      \* user_belongs_role: the roles of the user
  prules,       \* p rules: the codes that have the permission
  grules,       \* g rules: the codes the user has
  stage, call,  \* the calls: where they are, and what they go by
  entry, left,  \* the enforcer: what it says, and for how long it is good
  load, age,    \* the load in flight: what it has read, and its age
  reader,       \* the requests
  since,        \* history: ticks since the rules last said "yes", and "no"
  adrift,       \* history: the roles that had the menu before it took the name
  torn          \* history: changes have overlapped, or met a role that is not there

menuVars == <<menu, drawn, others>>
dataVars == <<born, code, menuVars, grants, members, prules, grules, adrift>>
callVars == <<stage, call>>
cacheVars == <<entry, left, load, age, reader>>
vars == <<dataVars, callVars, cacheVars, since, torn>>

Stages == {"idle", "commit", "invalidate", "done", "failed"}
Nothing == [node |-> None, kind |-> None, role |-> None, to |-> None, seen |-> None]
Nodes == {"here", "elsewhere"}
CallOf ==
  [node : Nodes \union {None},
   kind : {"rename", "delete", "grant", "revoke", "menu", "other", None},
   role : Roles \union {None}, to : Codes \union {None},
   seen : Codes \union Menus \union {None}]
Verdicts == {"yes", "no"}
Stale == TTL + MaxLoad

RowsTyped ==
  /\ born \subseteq Roles /\ code \in [Roles -> Codes \union {None}]
  /\ menu \in Menus \union {None} /\ drawn \subseteq Menus /\ others \subseteq Menus
  /\ adrift \subseteq Roles /\ grants \subseteq Roles /\ members \subseteq Roles
  /\ prules \subseteq Codes \union {None} /\ grules \subseteq Codes \union {None}
CallsTyped == stage \in [Calls -> Stages] /\ call \in [Calls -> CallOf]
CacheTyped ==
  /\ entry \in Verdicts \union {"none"} /\ left \in 0..TTL
  /\ load \in Verdicts \union {"none", "started", "error"} /\ age \in 0..MaxLoad
  /\ reader \in [Readers -> Verdicts \union {"idle", "load", "wait", "error"}]
HistoryTyped == since \in [Verdicts -> 0..Stale] /\ torn \in BOOLEAN
TypeOK == RowsTyped /\ CallsTyped /\ CacheTyped /\ HistoryTyped

Live(r) == code[r] # None
Verdict == IF grules \intersect prules # {} THEN "yes" ELSE "no"

\* One role, that the user may have and that may have the permission, and one menu,
\* with the name of the permission or with another.
Init ==
  LET first == CHOOSE r \in Roles : TRUE
      name == CHOOSE k \in Codes : TRUE
      one == CHOOSE m \in Menus : TRUE
  IN
  /\ born = {first} /\ code = [r \in Roles |-> IF r = first THEN name ELSE None]
  /\ drawn = {one} /\ adrift = {}
  /\ \/ menu = one /\ others = {} /\ grants \in {{}, {first}}
     \/ menu = None /\ others = {one} /\ grants = {}
  /\ members \in {{}, {first}}
  /\ prules = {code[r] : r \in grants} /\ grules = {code[r] : r \in members}
  /\ stage = [c \in Calls |-> "idle"] /\ call = [c \in Calls |-> Nothing]
  /\ entry = "none" /\ left = 0 /\ load = "none" /\ age = 0
  /\ reader = [q \in Readers |-> "idle"]
  /\ since = [v \in Verdicts |-> IF v = Verdict THEN 0 ELSE Stale]
  /\ torn = FALSE

-----------------------------------------------------------------------------
(* The changes.  Some read the row of their role before their transaction. *)

GoTo(c, s, what) ==
  /\ stage' = [stage EXCEPT ![c] = s]
  /\ call' = [call EXCEPT ![c] = what]
\* A call arrives on a node: to read first, or to write at once.
Reads(c, n, k, r, t, x) ==
  /\ stage[c] = "idle"
  /\ GoTo(c, "commit", [node |-> n, kind |-> k, role |-> r, to |-> t, seen |-> x])
Written(c, n) == GoTo(c, "invalidate", [Nothing EXCEPT !.node = n])
Commits(c, kinds) ==
  /\ stage[c] = "commit" /\ call[c].kind \in kinds
  /\ Written(c, call[c].node)

\* What the histories make of a transaction of c.
Remember(c) ==
  /\ since' = [v \in Verdicts |-> IF v \in {Verdict, Verdict'} THEN 0 ELSE since[v]]
  /\ torn' = (torn \/ None \in (prules \union grules)'
                   \/ \E d \in Calls \ {c} : stage[d] = "commit")

\* UpdateRole, DeleteRoles and SyncRolePermissions.
ReadRole(c, n, k, r, t) ==
  /\ Reads(c, n, k, r, t, code[r])
  /\ UNCHANGED <<dataVars, cacheVars, since, torn>>

\* The codes of roles are unique.
Taken(r, k) == \E q \in Roles \ {r} : code[q] = k

CreateRole(c, n, r, k) ==
  /\ stage[c] = "idle" /\ r \notin born /\ ~Taken(r, k)
  /\ Written(c, n)
  /\ born' = born \union {r}
  /\ code' = [code EXCEPT ![r] = k]
  /\ UNCHANGED <<menuVars, grants, members, prules, grules, adrift, cacheVars, since, torn>>

\* The rules that name the old code.  Variant: those of the users are forgotten.
Renamed(rules, from, k) ==
  IF from \in rules THEN (rules \ {from}) \union {k} ELSE rules
MembersForgotten(from, k) == grules
MembersRenamed(from, k) == Renamed(grules, from, k)
UpdateRole(c) ==
  LET r == call[c].role
      k == call[c].to
  IN
  /\ Commits(c, {"rename"})
  /\ Live(r) => ~Taken(r, k)
  /\ code' = [code EXCEPT ![r] = IF Live(r) THEN k ELSE None]
  /\ prules' = Renamed(prules, call[c].seen, k)
  /\ grules' = MembersRenamed(call[c].seen, k)
  /\ UNCHANGED <<born, menuVars, grants, members, adrift, cacheVars>>
  /\ Remember(c)

\* The rows of the users that had the role stay; where no role was read, the rules do.
DeleteRoles(c) ==
  LET r == call[c].role
      gone == {call[c].seen} \ {None}
  IN
  /\ Commits(c, {"delete"})
  /\ code' = [code EXCEPT ![r] = None]
  /\ grants' = grants \ {r} /\ adrift' = adrift \ {r}
  /\ prules' = prules \ gone /\ grules' = grules \ gone
  /\ UNCHANGED <<born, menuVars, members, cacheVars>>
  /\ Remember(c)

\* A permission without a menu gets its rule, and a row for no menu.
SyncRolePermissions(c) ==
  LET r == call[c].role
      k == call[c].seen
      grant == call[c].kind = "grant"
  IN
  /\ Commits(c, {"grant", "revoke"})
  /\ grants' = IF grant /\ menu # None THEN grants \union {r} ELSE grants \ {r}
  /\ adrift' = adrift \ {r}
  /\ prules' = IF grant THEN prules \union {k} ELSE prules \ {k}
  /\ UNCHANGED <<born, code, menuVars, members, grules, cacheVars>>
  /\ Remember(c)

TransactionFails(c) ==
  /\ stage[c] = "commit"
  /\ GoTo(c, "failed", Nothing)
  /\ UNCHANGED <<dataVars, cacheVars, since, torn>>

\* syncUserRolesInTransaction; a code without a role leaves a rule for "".
SetUserRoles(codes) ==
  LET found == {r \in Roles : code[r] \in codes} IN
  /\ members' = found
  /\ grules' = {code[r] : r \in found} \union
                 (IF \A k \in codes : \E r \in found : code[r] = k THEN {} ELSE {None})

SyncUserRoles(c, n, codes) ==
  /\ stage[c] = "idle"
  /\ Written(c, n)
  /\ SetUserRoles(codes)
  /\ UNCHANGED <<born, code, menuVars, grants, prules, adrift, cacheVars>>
  /\ Remember(c)

\* applySSOMappings; completeSSOLogin drops the user's cached info and no enforcer.
ApplySSOMappings(c, n, codes) ==
  /\ stage[c] = "idle"
  /\ GoTo(c, "done", [Nothing EXCEPT !.node = n])
  /\ SetUserRoles(codes)
  /\ UNCHANGED <<born, code, menuVars, grants, prules, adrift, cacheVars>>
  /\ Remember(c)

-----------------------------------------------------------------------------
(* Menus. *)

NoRows == grants' = {} /\ adrift' = {}

\* deletedMenuTargets: the ids and names to delete.
ReadMenus(c, n, m) ==
  /\ m \in others \union ({menu} \ {None})
  /\ Reads(c, n, IF m = menu THEN "menu" ELSE "other", None, None, m)
  /\ UNCHANGED <<dataVars, cacheVars, since, torn>>

\* By the id, and by the name that was read.
DeleteMenus(c) ==
  LET m == call[c].seen IN
  /\ Commits(c, {"menu", "other"})
  /\ prules' = IF call[c].kind = "menu" THEN {} ELSE prules
  /\ IF menu = m THEN menu' = None /\ NoRows ELSE UNCHANGED <<menu, grants, adrift>>
  /\ others' = others \ {m}
  /\ UNCHANGED <<born, code, drawn, members, grules, cacheVars>>
  /\ Remember(c)

\* CreateMenu, or an UpdateMenu of the parent, which makes its buttons anew or leaves
\* one out: the rows of the old one are left to an id that is gone, or, if it is the
\* parent and gets another name, to what no longer is the permission.
SaveMenu(c, n, m) ==
  /\ stage[c] = "idle"
  /\ m \in (Menus \ drawn) \union {None} /\ m # menu
  /\ Written(c, n)
  /\ menu' = m /\ drawn' = drawn \union ({m} \ {None})
  /\ others' \in {others, others \union ({menu} \ {None})}
  /\ NoRows
  /\ UNCHANGED <<born, code, members, prules, grules, cacheVars, since, torn>>

\* UpdateMenu gives the name, which nobody has, to a menu that has had another one: its
\* rows become rows of the permission.  Which roles have it is not followed until then.
RenameMenu(c, n, m) ==
  /\ stage[c] = "idle" /\ menu = None /\ m \in others
  /\ Written(c, n)
  /\ menu' = m /\ others' = others \ {m}
  /\ grants' \in SUBSET {r \in Roles : Live(r)} /\ adrift' = grants'
  /\ UNCHANGED <<born, code, drawn, members, prules, grules, cacheVars, since, torn>>

-----------------------------------------------------------------------------
(* The cache. *)

Drop == entry' = "none" /\ left' = 0
Invalidate(c) ==
  /\ stage[c] = "invalidate"
  /\ GoTo(c, "done", call[c])
  /\ IF call[c].node = "here" THEN Drop ELSE UNCHANGED <<entry, left>>
  /\ UNCHANGED <<dataVars, load, age, reader, since, torn>>

Good == entry # "none" /\ left > 0

\* A hit leaves the expiry alone.  Variant: it renews it.
RenewedByHit == TTL
KeptByHit == left
Hit(q) ==
  /\ reader[q] = "idle" /\ Good
  /\ reader' = [reader EXCEPT ![q] = entry]
  /\ left' = KeptByHit
  /\ UNCHANGED <<dataVars, callVars, entry, load, age, since, torn>>

StartLoad(q) ==
  /\ reader[q] = "idle" /\ ~Good /\ load = "none"
  /\ Drop
  /\ reader' = [reader EXCEPT ![q] = "load"]
  /\ load' = "started" /\ age' = 0
  /\ UNCHANGED <<dataVars, callVars, since, torn>>

AwaitLoad(q) ==
  /\ reader[q] = "idle" /\ ~Good /\ load # "none"
  /\ Drop
  /\ reader' = [reader EXCEPT ![q] = "wait"]
  /\ UNCHANGED <<dataVars, callVars, load, age, since, torn>>

LoadRules ==
  /\ load = "started"
  /\ load' \in {Verdict, "error"}
  /\ UNCHANGED <<dataVars, callVars, entry, left, age, reader, since, torn>>

\* The load ends, for everybody who waits for it.
StoreEnforcer ==
  /\ load \in Verdicts \union {"error"}
  /\ load' = "none" /\ age' = 0
  /\ IF load = "error" THEN UNCHANGED <<entry, left>> ELSE entry' = load /\ left' = TTL
  /\ reader' = [q \in Readers |-> IF reader[q] \in {"load", "wait"} THEN load ELSE reader[q]]
  /\ UNCHANGED <<dataVars, callVars, since, torn>>

Leave(q) ==
  /\ reader[q] \in Verdicts \union {"error"}
  /\ reader' = [reader EXCEPT ![q] = "idle"]
  /\ UNCHANGED <<dataVars, callVars, entry, left, load, age, since, torn>>

\* The process of a node dies with what it keeps and what it was about to do.
Restart(n) ==
  /\ IF n = "here"
       THEN Drop /\ load' = "none" /\ age' = 0 /\ reader' = [q \in Readers |-> "idle"]
       ELSE UNCHANGED cacheVars
  /\ LET lost == {c \in Calls : stage[c] \in {"commit", "invalidate"} /\ call[c].node = n}
     IN /\ stage' = [c \in Calls |-> IF c \in lost THEN "failed" ELSE stage[c]]
        /\ call' = [c \in Calls |-> IF c \in lost THEN Nothing ELSE call[c]]
  /\ UNCHANGED <<dataVars, since, torn>>

\* A load takes MaxLoad ticks at most, and an answer is used at once.
Tick ==
  /\ load # "none" => age < MaxLoad
  /\ \A q \in Readers : reader[q] \notin Verdicts
  /\ left' = IF left = 0 THEN 0 ELSE left - 1
  /\ age' = IF load = "none" THEN 0 ELSE age + 1
  /\ since' = [v \in Verdicts |->
       IF v = Verdict THEN 0 ELSE IF since[v] = Stale THEN Stale ELSE since[v] + 1]
  /\ UNCHANGED <<dataVars, callVars, entry, load, reader, torn>>

Begin(c, n) ==
  \/ \E k \in {"delete", "grant", "revoke"}, r \in Roles : ReadRole(c, n, k, r, None)
  \/ \E r \in Roles, k \in Codes : ReadRole(c, n, "rename", r, k) \/ CreateRole(c, n, r, k)
  \/ \E codes \in SUBSET Codes : SyncUserRoles(c, n, codes) \/ ApplySSOMappings(c, n, codes)
  \/ \E m \in Menus \union {None} : ReadMenus(c, n, m) \/ SaveMenu(c, n, m) \/ RenameMenu(c, n, m)

Next ==
  \/ \E c \in Calls :
       \/ \E n \in Nodes : Begin(c, n)
       \/ UpdateRole(c) \/ DeleteRoles(c) \/ SyncRolePermissions(c) \/ DeleteMenus(c)
       \/ TransactionFails(c) \/ Invalidate(c)
  \/ \E q \in Readers :
       Hit(q) \/ StartLoad(q) \/ AwaitLoad(q) \/ Leave(q)
  \/ LoadRules \/ StoreEnforcer
  \/ \E n \in Nodes : Restart(n)
  \/ Tick

Spec == Init /\ [][Next]_vars

-----------------------------------------------------------------------------
(* What holds. *)

\* Whatever changes, invalidations, loads and restarts come between, an answer was
\* right less than a TTL and a load ago, be it that the node is never told of the change.
AnswerIsRecent ==
  \A q \in Readers : reader[q] \in Verdicts => since[reader[q]] < TTL + MaxLoad

\* Rows and rules agree, as long as no two changes overlapped: a role that was given
\* the menu under the name it has has its rule, and the user has the rules of the roles
\* that are the user's.  Renaming a menu moves no rule (saveMenu, permission.go:430-437):
\* a role that had it before it took the name is owed nothing until it is synced.
RulesFollowRows ==
  torn \/ \A r \in Roles : Live(r) =>
    /\ r \in grants \ adrift => code[r] \in prules
    /\ r \in members <=> code[r] \in grules

\* A change that has come to its end here has dropped the enforcer.
ChangesInvalidate ==
  [][\A c \in Calls :
       stage'[c] = "done" /\ stage[c] # "done" /\ call'[c].node = "here" => left' = 0]_vars
=============================================================================
