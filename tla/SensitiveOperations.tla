------------------------ MODULE SensitiveOperations -------------------------
(***************************************************************************)
(* Sensitive operations (app/services/application/security.go): a change   *)
(* is made only for one-shot evidence, a re-authentication token in the    *)
(* cache and an approval in the database, both bound to the change.  Two   *)
(* changes of a tenant, its deletion and its export (tenant.go), stand for *)
(* all: between them they use each way the code has of spending evidence   *)
(* (a call's form):                                                        *)
(*                                                                         *)
(*   guard        the token is forgotten, the approval marked, the change  *)
(*                made; nothing is given back if it fails                  *)
(*   transaction  the approval is marked in the transaction of the change  *)
(*   unapproved   the same, where the policy asks for no approval          *)
(*   reauth       no approval; the token comes back if the change fails    *)
(*                                                                         *)
(* The deletion and export flags of a tenant's policy are one flag here.   *)
(***************************************************************************)
EXTENDS Naturals

CONSTANTS
  Users,        \* administrators
  Tokens,       \* re-authentication tokens
  Approvals,    \* approval requests
  Calls,        \* calls of a sensitive operation, each made once
  Requests,     \* the pairs <<user, change>> that are asked for
  None,         \* no user, token, approval or call
  TokenTtl, ApprovalTtl, MinLockTtl,
  MaxTime       \* bound on the clock

Changes == {"delete", "export"}

ASSUME EvidenceAssumption ==
  /\ None \notin Users \union Tokens \union Approvals
  /\ Requests \subseteq Users \X Changes
  /\ TokenTtl \in Nat /\ ApprovalTtl \in Nat /\ MinLockTtl \in Nat /\ MaxTime \in Nat

VARIABLES
  status, needsApproval, database,       \* the tenant, its policy, its database
  now,
  cached, owner, scope, expires,         \* the tokens: those in the cache, claims
  lockedUntil,                           \* the locks of the tokens
  state, requester, approver, bound, before, until,           \* the approvals
  stage, actor, change, token, approval, form, plan, effect   \* the calls

tenantVars == <<status, needsApproval, database>>
tokenVars == <<cached, owner, scope, expires>>
approvalVars == <<state, requester, approver, bound, before, until>>
inputVars == <<actor, change, token, approval, form>>
vars == <<tenantVars, now, tokenVars, lockedUntil, approvalVars, stage, inputVars,
          plan, effect>>

Forms == {"guard", "transaction", "unapproved", "reauth"}
Stages == {"idle", "prepare", "lock", "check", "forget", "load", "consume",
           "commit", "mutate", "remove", "restore", "release", "done", "crashed"}
Spending == {"load", "consume", "commit", "mutate", "remove", "restore"}
Effects == {"none", "failed", "part", "all"}
Answers == {"yes", "no"}
Times == 0..(MaxTime + TokenTtl + ApprovalTtl + MinLockTtl)

\* The before-snapshots of the resolvers: of what these three read of a tenant
\* that is there, only the policy can change.
Snapshot == needsApproval
Snapshots == Answers \union {"none"}

TypeOK ==
  /\ status \in {"active", "deleted"} /\ needsApproval \in Answers /\ database \in {"up", "dropped"}
  /\ now \in 0..MaxTime
  /\ cached \subseteq Tokens
  /\ owner \in [Tokens -> Users \union {None}]
  /\ scope \in [Tokens -> Changes]
  /\ expires \in [Tokens -> Times]
  /\ lockedUntil \in [Tokens -> Times]
  /\ state \in [Approvals -> {"absent", "pending", "approved", "used"}]
  /\ requester \in [Approvals -> Users \union {None}]
  /\ approver \in [Approvals -> Users \union {None}]
  /\ bound \in [Approvals -> Changes]
  /\ before \in [Approvals -> Snapshots]
  /\ until \in [Approvals -> Times]
  /\ stage \in [Calls -> Stages]
  /\ actor \in [Calls -> Users \union {None}]
  /\ change \in [Calls -> Changes]
  /\ token \in [Calls -> Tokens \union {None}]
  /\ approval \in [Calls -> Approvals \union {None}]
  /\ form \in [Calls -> Forms]
  /\ plan \in [Calls -> Snapshots]
  /\ effect \in [Calls -> Effects]

Init ==
  /\ status = "active" /\ needsApproval = "yes" /\ database = "up"
  /\ now = 0
  /\ cached = {}
  /\ owner = [t \in Tokens |-> None]
  /\ scope = [t \in Tokens |-> "delete"]
  /\ expires = [t \in Tokens |-> 0]
  /\ lockedUntil = [t \in Tokens |-> 0]
  /\ state = [a \in Approvals |-> "absent"]
  /\ requester = [a \in Approvals |-> None]
  /\ approver = [a \in Approvals |-> None]
  /\ bound = [a \in Approvals |-> "delete"]
  /\ before = [a \in Approvals |-> "none"]
  /\ until = [a \in Approvals |-> 0]
  /\ stage = [c \in Calls |-> "idle"]
  /\ actor = [c \in Calls |-> None]
  /\ change = [c \in Calls |-> "delete"]
  /\ token = [c \in Calls |-> None]
  /\ approval = [c \in Calls |-> None]
  /\ form = [c \in Calls |-> "guard"]
  /\ plan = [c \in Calls |-> "none"]
  /\ effect = [c \in Calls |-> "none"]

-----------------------------------------------------------------------------
(* Evidence. *)

\* IssuePlatformReAuthToken, once the password and the second factor are
\* verified; operation and resource are those of the resolved plan.
IssueReAuthToken(t, u, ch) ==
  /\ owner[t] = None /\ status # "deleted"
  /\ owner' = [owner EXCEPT ![t] = u]
  /\ scope' = [scope EXCEPT ![t] = ch]
  /\ expires' = [expires EXCEPT ![t] = now + TokenTtl]
  /\ cached' = cached \union {t}
  /\ UNCHANGED <<tenantVars, now, lockedUntil, approvalVars, stage, inputVars,
                 plan, effect>>

CreateApproval(a, u, ch) ==
  /\ state[a] = "absent" /\ status # "deleted"
  /\ state' = [state EXCEPT ![a] = "pending"]
  /\ requester' = [requester EXCEPT ![a] = u]
  /\ bound' = [bound EXCEPT ![a] = ch]
  /\ before' = [before EXCEPT ![a] = Snapshot]
  /\ until' = [until EXCEPT ![a] = now + ApprovalTtl]
  /\ UNCHANGED <<tenantVars, now, tokenVars, lockedUntil, approver, stage,
                 inputVars, plan, effect>>

\* ApprovePlatformApproval: its UPDATE repeats what it found in the row it read,
\* except for the requester, who never changes.
ApproveApproval(a, u) ==
  /\ state[a] = "pending" /\ requester[a] # u /\ now < until[a]
  /\ state' = [state EXCEPT ![a] = "approved"]
  /\ approver' = [approver EXCEPT ![a] = u]
  /\ UNCHANGED <<tenantVars, now, tokenVars, lockedUntil, requester, bound,
                 before, until, stage, inputVars, plan, effect>>

-----------------------------------------------------------------------------
(* A call, from its request to the release of its token's lock. *)

GoTo(c, s) == stage' = [stage EXCEPT ![c] = s]
evidenceVars == <<tokenVars, lockedUntil, approvalVars>>

\* Whether an approval is needed is read before the plan is prepared.
FormOf(ch) ==
  IF ch = "export" THEN (IF needsApproval = "yes" THEN "transaction" ELSE "unapproved")
  ELSE (IF needsApproval = "yes" THEN "guard" ELSE "reauth")

Begin(c, u, ch, t, a) ==
  /\ stage[c] = "idle" /\ status # "deleted" /\ owner[t] # None
  /\ actor' = [actor EXCEPT ![c] = u]
  /\ change' = [change EXCEPT ![c] = ch]
  /\ token' = [token EXCEPT ![c] = t]
  /\ approval' = [approval EXCEPT ![c] = a]
  /\ form' = [form EXCEPT ![c] = FormOf(ch)]
  /\ GoTo(c, IF FormOf(ch) = "reauth" THEN "lock" ELSE "prepare")
  /\ UNCHANGED <<tenantVars, now, evidenceVars, plan, effect>>

Prepare(c) ==
  /\ stage[c] = "prepare"
  /\ GoTo(c, IF status = "deleted" THEN "done" ELSE "lock")
  /\ plan' = [plan EXCEPT ![c] = Snapshot]
  /\ UNCHANGED <<tenantVars, now, evidenceVars, inputVars, effect>>

\* withLockedReAuthToken looks at the token, locks it, and looks again.
Valid(c) ==
  LET t == token[c] IN
  t \in cached /\ now < expires[t] /\ owner[t] = actor[c] /\ scope[t] = change[c]

LongerOf(x, y) == IF x < y THEN y ELSE x
LockFree(t) == lockedUntil[t] <= now
LockUntil(t) == LongerOf(expires[t], now + MinLockTtl)

TakeLock(c) ==
  /\ stage[c] = "lock"
  /\ IF Valid(c) /\ LockFree(token[c])
       THEN /\ lockedUntil' = [lockedUntil EXCEPT ![token[c]] = LockUntil(token[c])]
            /\ GoTo(c, "check")
       ELSE GoTo(c, "done") /\ UNCHANGED lockedUntil
  /\ UNCHANGED <<tenantVars, now, tokenVars, approvalVars, inputVars, plan, effect>>

Check(c) ==
  /\ stage[c] = "check"
  /\ GoTo(c, IF Valid(c) THEN "forget" ELSE "release")
  /\ UNCHANGED <<tenantVars, now, evidenceVars, inputVars, plan, effect>>

\* Forget reports a key that is gone, or that it could not delete, or neither:
\* the drivers of the cache differ.  Only a token that is gone is forgotten.
Forget(c) ==
  /\ stage[c] = "forget"
  /\ \/ /\ cached' = cached \ {token[c]}
        /\ GoTo(c, IF form[c] = "reauth" THEN "mutate"
                   ELSE IF form[c] = "unapproved" THEN "commit" ELSE "load")
     \/ GoTo(c, "release") /\ UNCHANGED cached
  /\ UNCHANGED <<tenantVars, now, owner, scope, expires, lockedUntil, approvalVars,
                 inputVars, plan, effect>>

\* Where a refusal of the approval leads: only the guard restores the token.
\* Variant: nothing does.
RefusedForgets(c) == "release"
Refused(c) == IF form[c] = "guard" THEN "restore" ELSE "release"

\* loadPermissionApproval, validRegisteredPermissionApprovalBinding.  Variant:
\* the digest of the snapshots is left out.
BindsWithoutDigest(c, a) == requester[a] = actor[c] /\ bound[a] = change[c]
Binds(c, a) ==
  requester[a] = actor[c] /\ bound[a] = change[c] /\ before[a] = plan[c]
Approved(a) == state[a] = "approved" /\ requester[a] # approver[a]

LoadApproval(c) ==
  LET a == approval[c] IN
  /\ stage[c] = "load"
  /\ \/ Approved(a) /\ Binds(c, a) /\ now <= until[a] /\ GoTo(c, "consume")
     \/ GoTo(c, Refused(c))
  /\ UNCHANGED <<tenantVars, now, evidenceVars, inputVars, plan, effect>>

\* The UPDATE of consumePermissionApprovalBinding.
Consumable(c, a) == state[a] = "approved" /\ Binds(c, a) /\ now < until[a]

MarkUsed(a) ==
  /\ state' = [state EXCEPT ![a] = "used"]
  /\ UNCHANGED <<requester, approver, bound, before, until>>

\* The statement may also fail.
Consume(c) ==
  LET a == approval[c] IN
  /\ stage[c] = "consume" /\ form[c] = "guard"
  /\ \/ Consumable(c, a) /\ MarkUsed(a) /\ GoTo(c, "mutate")
     \/ GoTo(c, "restore") /\ UNCHANGED approvalVars
  /\ UNCHANGED <<tenantVars, now, tokenVars, lockedUntil, inputVars, plan, effect>>

\* The transaction of an export: approval, run and outbox event, or nothing.
CommitExport(c) ==
  LET a == approval[c] IN
  /\ form[c] \in {"transaction", "unapproved"}
  /\ \/ /\ stage[c] = "consume" /\ Consumable(c, a) /\ MarkUsed(a)
        /\ effect' = [effect EXCEPT ![c] = "all"]
     \/ /\ stage[c] = "commit" /\ UNCHANGED approvalVars
        /\ effect' = [effect EXCEPT ![c] = "all"]
     \/ /\ stage[c] \in {"consume", "commit"} /\ UNCHANGED approvalVars
        /\ effect' = [effect EXCEPT ![c] = "failed"]
  /\ GoTo(c, "release")
  /\ UNCHANGED <<tenantVars, now, tokenVars, lockedUntil, inputVars, plan>>

\* The first statement of Destroy.
DropDatabase(c) ==
  /\ stage[c] = "mutate"
  /\ database' = "dropped"
  /\ effect' = [effect EXCEPT ![c] = "part"]
  /\ GoTo(c, "remove")
  /\ UNCHANGED <<status, needsApproval, now, evidenceVars, inputVars, plan>>

\* Destroy's DELETE, after the database is gone.
Remove(c) ==
  /\ stage[c] = "remove"
  /\ status' = "deleted"
  /\ effect' = [effect EXCEPT ![c] = "all"]
  /\ GoTo(c, "release")
  /\ UNCHANGED <<needsApproval, database, now, evidenceVars, inputVars, plan>>

\* Variant: a guarded change that fails gives its token back too.
FailedGivesBack(c) == "restore"
Failed(c) == IF form[c] = "reauth" THEN "restore" ELSE "release"

MutateFails(c) ==
  /\ stage[c] \in {"mutate", "remove"}
  /\ GoTo(c, Failed(c))
  /\ effect' = [effect EXCEPT ![c] = IF stage[c] = "mutate" THEN "failed" ELSE "part"]
  /\ UNCHANGED <<tenantVars, now, evidenceVars, inputVars, plan>>

\* restoreReAuthToken.
RestoreReAuthToken(c) ==
  /\ stage[c] = "restore"
  /\ cached' = IF now < expires[token[c]] THEN cached \union {token[c]} ELSE cached
  /\ GoTo(c, "release")
  /\ UNCHANGED <<tenantVars, now, owner, scope, expires, lockedUntil, approvalVars,
                 inputVars, plan, effect>>

\* The lock is given back, whoever has it by now.
ReleaseLock(c) ==
  /\ stage[c] = "release"
  /\ lockedUntil' = [lockedUntil EXCEPT ![token[c]] = 0]
  /\ GoTo(c, "done")
  /\ UNCHANGED <<tenantVars, now, tokenVars, approvalVars, inputVars, plan, effect>>

\* The process dies; its lock stays until it lapses.
Crash(c) ==
  /\ stage[c] \notin {"idle", "prepare", "lock", "done", "crashed"}
  /\ GoTo(c, "crashed")
  /\ UNCHANGED <<tenantVars, now, evidenceVars, inputVars, plan, effect>>

\* PatchPolicy by a call that is not followed here; bounded to one patch, which
\* relaxes the policy.
PatchPolicy ==
  /\ status # "deleted" /\ needsApproval = "yes"
  /\ needsApproval' = "no"
  /\ UNCHANGED <<status, database, now, evidenceVars, stage, inputVars, plan, effect>>

Tick ==
  /\ now < MaxTime /\ now' = now + 1
  /\ UNCHANGED <<tenantVars, evidenceVars, stage, inputVars, plan, effect>>

CallStep(c) ==
  \/ \E r \in Requests, t \in Tokens, a \in Approvals : Begin(c, r[1], r[2], t, a)
  \/ Prepare(c) \/ TakeLock(c) \/ Check(c) \/ Forget(c)
  \/ LoadApproval(c) \/ Consume(c) \/ CommitExport(c)
  \/ DropDatabase(c) \/ Remove(c) \/ MutateFails(c)
  \/ RestoreReAuthToken(c) \/ ReleaseLock(c) \/ Crash(c)

Next ==
  \/ \E t \in Tokens, r \in Requests : IssueReAuthToken(t, r[1], r[2])
  \/ \E a \in Approvals, r \in Requests : CreateApproval(a, r[1], r[2])
  \/ \E a \in Approvals, u \in Users : ApproveApproval(a, u)
  \/ \E c \in Calls : CallStep(c)
  \/ PatchPolicy \/ Tick

Spec == Init /\ [][Next]_vars

-----------------------------------------------------------------------------
(* What holds. *)

ByApproval == {"guard", "transaction"}

\* The call has made its change, or has begun to and keeps the token.
Spent(c) ==
  \/ effect[c] = "all"
  \/ form[c] = "guard" /\ (effect[c] # "none" \/ stage[c] = "mutate")

\* Evidence is spent once: no two calls make their change for one token, or for
\* one approval, however they interleave, expire or die between looking at the
\* evidence and spending it.
EvidenceSpentOnce ==
  \A c, d \in Calls : c # d /\ Spent(c) /\ Spent(d) =>
    /\ token[c] # token[d]
    /\ form[c] \in ByApproval /\ form[d] \in ByApproval => approval[c] # approval[d]

\* Whatever a call changes, a second administrator has approved: this change,
\* for this requester, on the snapshot the call planned on.
ChangedAsApproved ==
  \A c \in Calls : form[c] \in ByApproval /\ effect[c] \in {"part", "all"} =>
    LET a == approval[c] IN
    /\ state[a] = "used"
    /\ requester[a] = actor[c] /\ bound[a] = change[c] /\ before[a] = plan[c]
    /\ approver[a] # None /\ approver[a] # actor[c]

\* A piece of evidence pays for one change, and for the one it was given for.
EvidenceBuysItsChange == EvidenceSpentOnce /\ ChangedAsApproved

\* No evidence is lost without a cause: a token that is gone before its time is
\* in the hands of a call, or one that used it crashed or came as far as its
\* change; so is a used approval.  A refusal costs a guarded call nothing.
Holds(c) == stage[c] \in Spending \union {"crashed"}
EvidenceNotLost ==
  /\ \A t \in Tokens : owner[t] # None /\ t \notin cached /\ now < expires[t] =>
       \E c \in Calls : token[c] = t
         /\ (Holds(c) \/ effect[c] # "none" \/ form[c] = "transaction")
  /\ \A a \in Approvals : state[a] = "used" =>
       \E c \in Calls : approval[c] = a /\ form[c] \in ByApproval
         /\ (Holds(c) \/ effect[c] # "none")
=============================================================================
