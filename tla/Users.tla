--------------------------------- MODULE Users ---------------------------------
(***************************************************************************)
(* The users of a tenant (PermissionAdminService in                        *)
(* app/services/application/permission.go), the quota of the tenant they   *)
(* count against, and what a user is told about itself, which is kept in   *)
(* the cache (FormatUserInfo in auth.go).                                  *)
(*                                                                         *)
(* What is cached is never deleted.  Its key holds two versions, of all    *)
(* users and of the one, and a change is followed by an increment of one   *)
(* of them: what was stored before is not looked up any more, and lapses.  *)
(***************************************************************************)
EXTENDS Naturals, FiniteSets

CONSTANTS
  Ids,             \* users there may be
  Everyone,        \* what concerns all of them: roles and menus
  Limit,           \* max_users of the tenant, 0 for none
  Operators, Requests,  \* workers: changes, and requests of a user for what it is told
  TTL,             \* currentUserInfoCacheTTL
  MaxChanges       \* bound

\* A tenant has finitely many users, and a quota of 0 or more; nobody is called everyone.
UsersAssumption ==
  IsFiniteSet(Ids) /\ Everyone \notin Ids /\ Limit \in Nat /\ TTL \in Nat /\ MaxChanges \in Nat

VARIABLES
  rows,            \* how often a user, or what concerns all of them, has been changed, 0
                   \* while there is no such user
  deleted,         \* users that were deleted
  version,         \* in the cache: the versions the keys are made of,
  lapsing,         \* and how long those last that were put by way of fallback
  cache,           \* what is kept: [key, info, left, late]
  op, of,          \* of an operator: what its call is about to do, and to whom
  stage, who, info,  \* of a request: where it is, whose it is, and what it has read
  shown,           \* the changes whose invalidation is over,
  expected,        \* and which of them a request has to show
  changes,         \* how many changes there were
  signedOn,        \* users made by a first sign-on
  crowded,         \* a user was made while a call had found the quota kept
  fellBack,        \* a version was put because it could not be incremented
  outdated         \* users that were told less than was expected

Subjects == Ids \union {Everyone}
Existing == {u \in Ids : rows[u] > 0} \ deleted
KeyOf(u) == <<version[Everyone], u, version[u]>>

rowVars == <<rows, deleted>>
cacheVars == <<version, lapsing, cache>>
callVars == <<op, of>>
requestVars == <<stage, who, info, expected>>
quotaVars == <<signedOn, crowded>>
vars == <<rowVars, cacheVars, callVars, requestVars, quotaVars, shown, changes, fellBack, outdated>>

Levels == 0..(MaxChanges + 2)
Info == [row : Levels, common : Levels]
NoInfo == [row |-> 0, common |-> 0]

TypeOK ==
  /\ rows \in [Subjects -> Levels] /\ deleted \subseteq Ids
  /\ version \in [Subjects -> Levels] /\ lapsing \in [Subjects -> 0..TTL]
  /\ \A e \in cache : e.info \in Info /\ e.left \in 1..TTL /\ e.late \in BOOLEAN
  /\ op \in [Operators -> {"idle", "count", "insert", "commit", "invalidate"}]
  /\ of \in [Operators -> Subjects]
  /\ stage \in [Requests -> {"idle", "look", "build", "put"}] /\ who \in [Requests -> Ids]
  /\ info \in [Requests -> Info] /\ expected \in [Requests -> Info]
  /\ shown \in [Subjects -> Levels] /\ changes \in 0..MaxChanges
  /\ signedOn \subseteq Ids /\ crowded \in BOOLEAN /\ fellBack \in BOOLEAN /\ outdated \subseteq Ids

Someone == CHOOSE u \in Ids : TRUE

Init ==
  /\ rows \in [Subjects -> {0, 1}] /\ rows[Everyone] = 1 /\ deleted = {}
  /\ Limit # 0 => Cardinality(Existing) <= Limit
  /\ version = [s \in Subjects |-> 0] /\ lapsing = [s \in Subjects |-> 0] /\ cache = {}
  /\ op = [c \in Operators |-> "idle"] /\ of = [c \in Operators |-> Everyone]
  /\ stage = [q \in Requests |-> "idle"] /\ who = [q \in Requests |-> Someone]
  /\ info = [q \in Requests |-> NoInfo] /\ expected = [q \in Requests |-> NoInfo]
  /\ shown = [s \in Subjects |-> 0] /\ changes = 0
  /\ signedOn = {} /\ crowded = FALSE /\ fellBack = FALSE /\ outdated = {}

-----------------------------------------------------------------------------
(* PermissionAdminService. *)

Begin(c, s, step) ==
  /\ op[c] = "idle" /\ changes < MaxChanges
  /\ changes' = changes + 1
  /\ op' = [op EXCEPT ![c] = step] /\ of' = [of EXCEPT ![c] = s]
Then(c, step) == op' = [op EXCEPT ![c] = step]

CreateUser(c, u) ==
  /\ rows[u] = 0 /\ Begin(c, u, "count")
  /\ UNCHANGED <<rowVars, cacheVars, requestVars, quotaVars, shown, fellBack, outdated>>

\* EnsureResourceQuota.  Variant: what there is is compared, not what will be.
WithinQuotaNow == Limit = 0 \/ Cardinality(Existing) <= Limit
WithinQuota == Limit = 0 \/ Cardinality(Existing) + 1 <= Limit
EnsureResourceQuota(c) ==
  /\ op[c] = "count" /\ Then(c, IF WithinQuota THEN "insert" ELSE "idle")
  /\ UNCHANGED <<rowVars, cacheVars, of, requestVars, quotaVars, shown, changes, fellBack, outdated>>

\* One transaction: the row, departments, positions and the password history.
InsertUser(c) ==
  /\ op[c] = "insert" /\ rows[of[c]] = 0 /\ Then(c, "invalidate")
  /\ rows' = [rows EXCEPT ![of[c]] = 1]
  /\ crowded' = (crowded \/ \E d \in Operators \ {c} : op[d] = "insert")
  /\ UNCHANGED <<deleted, cacheVars, of, requestVars, signedOn, shown, changes, fellBack, outdated>>

\* A first sign-on makes its user without a look at the quota (see SignOn).
SignOnCreates(u) ==
  /\ rows[u] = 0 /\ rows' = [rows EXCEPT ![u] = 1]
  /\ signedOn' = signedOn \union {u}
  /\ crowded' = (crowded \/ \E d \in Operators : op[d] = "insert")
  /\ UNCHANGED <<deleted, cacheVars, callVars, requestVars, shown, changes, fellBack, outdated>>

\* A change of the user s: UpdateUser, SyncUserRoles, ResetPassword, UpdateProfile; or
\* of what concerns everyone.
UpdateUser(c, s) ==
  /\ rows[s] > 0 /\ Begin(c, s, "commit")
  /\ UNCHANGED <<rowVars, cacheVars, requestVars, quotaVars, shown, fellBack, outdated>>

Commit(c) ==
  /\ op[c] = "commit" /\ Then(c, "invalidate")
  /\ rows' = [rows EXCEPT ![of[c]] = @ + 1]
  /\ UNCHANGED <<deleted, cacheVars, of, requestVars, quotaVars, shown, changes, fellBack, outdated>>

DeleteUsers(c, u) ==
  /\ u \in Existing /\ Begin(c, u, "invalidate")
  /\ deleted' = deleted \union {u}
  /\ UNCHANGED <<rows, cacheVars, requestVars, quotaVars, shown, fellBack, outdated>>

TransactionFails(c) ==
  /\ op[c] \in {"insert", "commit"} /\ Then(c, "idle")
  /\ UNCHANGED <<rowVars, cacheVars, of, requestVars, quotaVars, shown, changes, fellBack, outdated>>

\* InvalidateCurrentUserInfoForConnection and InvalidateAllCurrentUserInfo.  Increment
\* makes the version last; if it fails, a version that lapses is put in its place.
\* Variant: a change that concerns everyone is taken for nobody's.
NextVersionOfUsers(s) == IF s = Everyone THEN version[s] ELSE version[s] + 1
NextVersion(s) == version[s] + 1
InvalidateCurrentUserInfo(c) ==
  /\ op[c] = "invalidate" /\ Then(c, "idle")
  /\ shown' = [shown EXCEPT ![of[c]] = rows[of[c]]]
  /\ \/ version' = [version EXCEPT ![of[c]] = NextVersion(of[c])] /\ UNCHANGED <<lapsing, fellBack>>
     \/ /\ version' = [version EXCEPT ![of[c]] = 2] /\ fellBack' = TRUE
        /\ lapsing' = [lapsing EXCEPT ![of[c]] = TTL]
  /\ UNCHANGED <<rowVars, cache, of, requestVars, quotaVars, changes, outdated>>

-----------------------------------------------------------------------------
(* What a user is told. *)

\* UserFromAuthorization reads the row, before anything else.
Request(q, u) ==
  /\ stage[q] = "idle" /\ u \in Existing
  /\ stage' = [stage EXCEPT ![q] = "look"] /\ who' = [who EXCEPT ![q] = u]
  /\ info' = [info EXCEPT ![q].row = rows[u]]
  /\ expected' = [expected EXCEPT ![q] = [row |-> shown[u], common |-> shown[Everyone]]]
  /\ UNCHANGED <<rowVars, cacheVars, callVars, quotaVars, shown, changes, fellBack, outdated>>

Behind(i, j) == i.row < j.row \/ i.common < j.common

Answer(q, told, excused) ==
  /\ stage' = [stage EXCEPT ![q] = "idle"] /\ who' = [who EXCEPT ![q] = Someone]
  /\ info' = [info EXCEPT ![q] = NoInfo] /\ expected' = [expected EXCEPT ![q] = NoInfo]
  /\ outdated' = outdated \union (IF Behind(told, expected[q]) /\ ~excused THEN {who[q]} ELSE {})

\* cachedCurrentUserInfo.
Look(q) ==
  /\ stage[q] = "look"
  /\ LET found == {e \in cache : e.key = KeyOf(who[q])} IN
     \/ \E e \in found : Answer(q, e.info, e.late)
     \/ /\ found = {} /\ stage' = [stage EXCEPT ![q] = "build"]
        /\ UNCHANGED <<who, info, expected, outdated>>
  /\ UNCHANGED <<rowVars, cacheVars, callVars, quotaVars, shown, changes, fellBack>>

\* buildUserInfo: the roles, as they are by now.
Build(q) ==
  /\ stage[q] = "build" /\ stage' = [stage EXCEPT ![q] = "put"]
  /\ info' = [info EXCEPT ![q].common = rows[Everyone]]
  /\ UNCHANGED <<rowVars, cacheVars, callVars, who, expected, quotaVars, shown, changes, fellBack, outdated>>

\* cacheCurrentUserInfo makes the key anew: what was read before an invalidation may
\* be kept under the version of after.
CacheCurrentUserInfo(q) ==
  /\ stage[q] = "put"
  /\ LET late == Behind(info[q], [row |-> shown[who[q]], common |-> shown[Everyone]]) IN
     cache' = {e \in cache : e.key # KeyOf(who[q])}
                \union {[key |-> KeyOf(who[q]), info |-> info[q], left |-> TTL, late |-> late]}
  /\ Answer(q, info[q], FALSE)
  /\ UNCHANGED <<rowVars, version, lapsing, callVars, quotaVars, shown, changes, fellBack>>

Tick ==
  /\ cache # {} \/ \E s \in Subjects : lapsing[s] > 0
  /\ cache' = {[e EXCEPT !.left = @ - 1] : e \in {e \in cache : e.left > 1}}
  /\ lapsing' = [s \in Subjects |-> IF lapsing[s] > 0 THEN lapsing[s] - 1 ELSE 0]
  /\ version' = [s \in Subjects |-> IF lapsing[s] = 1 THEN 0 ELSE version[s]]
  /\ UNCHANGED <<rowVars, callVars, requestVars, quotaVars, shown, changes, fellBack, outdated>>

-----------------------------------------------------------------------------

OperatorStep(c) ==
  \/ \E u \in Ids : CreateUser(c, u) \/ DeleteUsers(c, u)
  \/ \E s \in Subjects : UpdateUser(c, s)
  \/ EnsureResourceQuota(c) \/ InsertUser(c) \/ Commit(c) \/ TransactionFails(c)
  \/ InvalidateCurrentUserInfo(c)
RequestStep(q) ==
  (\E u \in Ids : Request(q, u)) \/ Look(q) \/ Build(q) \/ CacheCurrentUserInfo(q)

Next ==
  \/ \E c \in Operators : OperatorStep(c)
  \/ \E q \in Requests : RequestStep(q)
  \/ \E u \in Ids : SignOnCreates(u)
  \/ Tick

Spec == Init /\ [][Next]_vars

-----------------------------------------------------------------------------
(* What holds. *)

\* What a user is told by a request shows every change whose invalidation was over
\* when it began, unless it was built across an invalidation, or a version could not
\* be incremented and a number that had been used took its place.
ChangesShow == outdated # {} => fellBack

\* The users that operators made are within the quota, unless two were made at a time.
QuotaHolds == Limit # 0 /\ Cardinality(Existing \ signedOn) > Limit => crowded

UsersAreKept == ChangesShow /\ QuotaHolds
=============================================================================
