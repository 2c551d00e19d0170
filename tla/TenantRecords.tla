---------------------------- MODULE TenantRecords ----------------------------
(***************************************************************************)
(* The row of a tenant, its plans, and the trail of its permissions        *)
(* (app/services/application/tenant.go, tenant_service and                 *)
(* tenant_plan_service).  Every call reads the row, works on its copy and  *)
(* writes columns of it back, in one transaction or statement by statement,*)
(* without a lock or a version: another call may write in between.         *)
(*                                                                         *)
(* The calls that change a status, a plan or permissions run under the     *)
(* guard of SensitiveOperations; the form of a tenant does not.            *)
(***************************************************************************)
EXTENDS Naturals

CONSTANTS
  Calls,        \* calls of the services, each made once
  Plans,        \* plans, named by their codes
  FirstPlan     \* the plan the tenant starts with

Statuses == {"active", "suspended", "archived"}
\* What tenant_permissions of a JSON column says: two payloads, or no such key.
Payloads == {"some", "full"}
Columns == Payloads \union {"none"}
\* TenantEffectivePermissionPayload: without the key a tenant may do anything.
\* (TenantPermissionPayloadFromTenant, which After is made with, finds nothing.)
Effective(column) == IF column = "none" THEN "full" ELSE column

VARIABLES
  status, plan, features,   \* the row of the tenant
  open, grants,             \* the plans: "no" row, "on" or "off"; their features
  told, writer,             \* After of the trail's newest row; history: who wrote
                            \* features last
  stage, seen, goal         \* the calls: where they are, the row they have read,
                            \* their input

planVars == <<open, grants>>
trailVars == <<told, writer>>
callVars == <<stage, seen, goal>>
vars == <<status, plan, features, planVars, trailVars, callVars>>

Stages == {"idle", "form plan", "form row", "form json", "permissions", "plan",
           "plan commit", "snapshot", "plan row", "plan json", "count", "delete",
           "done"}
Row == [status : Statuses, plan : Plans, features : Columns, grants : Columns]
NoRow == [status |-> "active", plan |-> FirstPlan, features |-> "none",
          grants |-> "none"]
Goal == [plan : Plans, payload : Columns, open : {"on", "off"}]
NoGoal == [plan |-> FirstPlan, payload |-> "none", open |-> "on"]

TypeOK ==
  /\ status \in Statuses /\ plan \in Plans /\ features \in Columns
  /\ open \in [Plans -> {"no", "on", "off"}]
  /\ grants \in [Plans -> Columns]
  /\ told \in Columns /\ writer \in {"create", "form", "other"}
  /\ stage \in [Calls -> Stages]
  /\ seen \in [Calls -> Row]
  /\ goal \in [Calls -> Goal]

\* A tenant from before the permissions, or one that Create has given those of
\* its plan.
Init ==
  /\ status = "active" /\ plan = FirstPlan
  /\ features \in {"none", "some"}
  /\ open = [p \in Plans |-> "on"]
  /\ grants = [p \in Plans |-> IF p = FirstPlan THEN "some" ELSE "full"]
  /\ told = Effective(features) /\ writer = "create"
  /\ stage = [c \in Calls |-> "idle"]
  /\ seen = [c \in Calls |-> NoRow]
  /\ goal = [c \in Calls |-> NoGoal]

GoTo(c, s) == stage' = [stage EXCEPT ![c] = s]
Fail(c) == GoTo(c, "done")
rowVars == <<status, plan, features>>

\* FindByID.
Find(c, next) ==
  /\ GoTo(c, next)
  /\ seen' = [seen EXCEPT ![c] =
       [status |-> status, plan |-> plan, features |-> features, grants |-> "none"]]

Want(c, p, payload) ==
  goal' = [goal EXCEPT ![c] = [plan |-> p, payload |-> payload, open |-> "on"]]

\* ActiveByCode of plan p.
FindPlan(c, p, next) ==
  IF open[p] = "on"
    THEN GoTo(c, next) /\ seen' = [seen EXCEPT ![c].grants = grants[p]]
    ELSE Fail(c) /\ UNCHANGED seen

\* SnapshotFeaturesForPlan.
SnapshotForPlan(ofPlan, input) == IF input # "none" THEN input ELSE ofPlan

-----------------------------------------------------------------------------
(* TenantService.Update: the form of a tenant. *)

\* The form carries a status and a plan, and may not change them.
ReadForm(c, s, p) ==
  /\ stage[c] = "idle"
  /\ Find(c, IF s = status /\ p = plan THEN "form plan" ELSE "done")
  /\ UNCHANGED <<rowVars, planVars, trailVars, goal>>

PlanOfForm(c) ==
  /\ stage[c] = "form plan"
  /\ FindPlan(c, seen[c].plan, "form row")
  /\ UNCHANGED <<rowVars, planVars, trailVars, goal>>

\* The first UPDATE writes the status and the plan along; it may fail.
WriteForm(c) ==
  /\ stage[c] = "form row"
  /\ \/ status' = seen[c].status /\ plan' = seen[c].plan /\ GoTo(c, "form json")
     \/ Fail(c) /\ UNCHANGED <<status, plan>>
  /\ UNCHANGED <<features, planVars, trailVars, seen, goal>>

\* updateTenantJSONColumns, with preserveTenantPermissionFeature.
WriteFormJSON(c) ==
  /\ stage[c] = "form json"
  /\ \/ /\ features' = SnapshotForPlan(seen[c].grants, seen[c].features)
        /\ writer' = IF features' = features THEN writer ELSE "form"
     \/ UNCHANGED <<features, writer>>
  /\ GoTo(c, "done")
  /\ UNCHANGED <<status, plan, planVars, told, seen, goal>>

-----------------------------------------------------------------------------
(* UpdateStatus, UpdatePermissions, UpdatePlan, SnapshotLegacyPermissions *)

UpdateStatus(c, s) ==
  /\ stage[c] = "idle"
  /\ GoTo(c, "done")
  /\ status' = s
  /\ UNCHANGED <<plan, features, planVars, trailVars, seen, goal>>

\* The row of the trail is written in the transaction of the change.  Variant:
\* it is made from the tenant as it was read.
ToldAsRead(c, column) == Effective(seen[c].features)
Told(c, column) == column

WriteFeatures(c, column) ==
  /\ features' = column
  /\ told' = Told(c, column)
  /\ writer' = "other"

ReadPermissions(c, payload) ==
  /\ stage[c] = "idle"
  /\ Find(c, "permissions")
  /\ Want(c, FirstPlan, payload)
  /\ UNCHANGED <<rowVars, planVars, trailVars>>

CommitPermissions(c) ==
  /\ stage[c] = "permissions"
  /\ \/ WriteFeatures(c, goal[c].payload)
     \/ UNCHANGED <<features, trailVars>>
  /\ GoTo(c, "done")
  /\ UNCHANGED <<status, plan, planVars, seen, goal>>

ReadPlanChange(c, p, payload) ==
  /\ stage[c] = "idle"
  /\ Find(c, "plan")
  /\ Want(c, p, payload)
  /\ UNCHANGED <<rowVars, planVars, trailVars>>

PlanOfChange(c) ==
  /\ stage[c] = "plan"
  /\ FindPlan(c, goal[c].plan, "plan commit")
  /\ UNCHANGED <<rowVars, planVars, trailVars, goal>>

CommitPlan(c) ==
  /\ stage[c] = "plan commit"
  /\ \/ /\ plan' = goal[c].plan
        /\ WriteFeatures(c, SnapshotForPlan(seen[c].grants, goal[c].payload))
     \/ UNCHANGED <<plan, features, trailVars>>
  /\ GoTo(c, "done")
  /\ UNCHANGED <<status, planVars, seen, goal>>

\* The console command, for a tenant whose features have no such key.
ReadLegacy(c) ==
  /\ stage[c] = "idle"
  /\ Find(c, IF features = "none" THEN "snapshot" ELSE "done")
  /\ UNCHANGED <<rowVars, planVars, trailVars, goal>>

CommitSnapshot(c) ==
  /\ stage[c] = "snapshot"
  /\ WriteFeatures(c, "full") \/ UNCHANGED <<features, trailVars>>
  /\ GoTo(c, "done")
  /\ UNCHANGED <<status, plan, planVars, seen, goal>>

-----------------------------------------------------------------------------
(* TenantPlanService. *)

\* Create is one transaction; a plan comes back under a code that was deleted.
CreatePlan(c, p, payload) ==
  /\ stage[c] = "idle" /\ open[p] = "no"
  /\ open' = [open EXCEPT ![p] = "on"]
  /\ grants' = [grants EXCEPT ![p] = payload]
  /\ GoTo(c, "done")
  /\ UNCHANGED <<rowVars, trailVars, seen, goal>>

\* ensureTenantPlanExists, then two statements, which may find no row any more.
\* A change of the code is left out.
ReadPlanRow(c, p, payload, o) ==
  /\ stage[c] = "idle" /\ open[p] # "no"
  /\ GoTo(c, "plan row")
  /\ goal' = [goal EXCEPT ![c] = [plan |-> p, payload |-> payload, open |-> o]]
  /\ UNCHANGED <<rowVars, planVars, trailVars, seen>>

WritePlanRow(c) ==
  LET p == goal[c].plan IN
  /\ stage[c] = "plan row"
  /\ \/ /\ open' = [open EXCEPT ![p] = IF @ = "no" THEN @ ELSE goal[c].open]
        /\ GoTo(c, "plan json")
     \/ Fail(c) /\ UNCHANGED open
  /\ UNCHANGED <<rowVars, grants, trailVars, seen, goal>>

WritePlanJSON(c) ==
  LET p == goal[c].plan IN
  /\ stage[c] = "plan json"
  /\ grants' = [grants EXCEPT ![p] = IF open[p] = "no" THEN @ ELSE goal[c].payload]
  /\ GoTo(c, "done")
  /\ UNCHANGED <<rowVars, open, trailVars, seen, goal>>

\* Delete: the codes, the tenants that have them, the DELETE.
ReadCodes(c, p) ==
  /\ stage[c] = "idle" /\ open[p] # "no"
  /\ GoTo(c, "count")
  /\ Want(c, p, "none")
  /\ UNCHANGED <<rowVars, planVars, trailVars, seen>>

CountTenants(c) ==
  /\ stage[c] = "count"
  /\ GoTo(c, IF plan = goal[c].plan THEN "done" ELSE "delete")
  /\ UNCHANGED <<rowVars, planVars, trailVars, seen, goal>>

DeletePlan(c) ==
  /\ stage[c] = "delete"
  /\ open' = [open EXCEPT ![goal[c].plan] = "no"]
  /\ grants' = [grants EXCEPT ![goal[c].plan] = "none"]
  /\ GoTo(c, "done")
  /\ UNCHANGED <<rowVars, trailVars, seen, goal>>

Next ==
  \E c \in Calls :
    \/ \E s \in Statuses, p \in Plans : ReadForm(c, s, p)
    \/ PlanOfForm(c) \/ WriteForm(c) \/ WriteFormJSON(c)
    \/ \E s \in Statuses : UpdateStatus(c, s)
    \/ \E x \in Payloads : ReadPermissions(c, x)
    \/ CommitPermissions(c)
    \/ \E p \in Plans, x \in Columns : ReadPlanChange(c, p, x) \/ CreatePlan(c, p, x)
    \/ PlanOfChange(c) \/ CommitPlan(c)
    \/ ReadLegacy(c) \/ CommitSnapshot(c)
    \/ \E p \in Plans, x \in Columns, o \in {"on", "off"} : ReadPlanRow(c, p, x, o)
    \/ WritePlanRow(c) \/ WritePlanJSON(c)
    \/ \E p \in Plans : ReadCodes(c, p)
    \/ CountTenants(c) \/ DeletePlan(c)

Spec == Init /\ [][Next]_vars

-----------------------------------------------------------------------------
(* What holds. *)

\* The newest row of the trail tells the permissions the tenant has, whichever
\* of the calls that write it overlap.  Two things it cannot tell: a form that
\* changed them, which writes no row; and full access for want of a payload.
TrailTellsPermissions ==
  told = Effective(features) \/ writer = "form" \/ features = "none"
=============================================================================
