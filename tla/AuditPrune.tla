------------------------------ MODULE AuditPrune ------------------------------
(***************************************************************************)
(* The removal of old audit records (app/services/application/audit.go)    *)
(* and the retention runs that ask for it (tenant.go).  A plan lists the   *)
(* records that are due with a digest of each; somebody copies them to     *)
(* immutable storage; an execution compares the copy with the plan, spends *)
(* its evidence, claims the plan and deletes what still has its digest,    *)
(* one target at a time, under a heartbeat that another execution takes    *)
(* for dead when it gets too old.                                          *)
(*                                                                         *)
(* A version of a record stands for its text and its digest.  The evidence *)
(* of an execution is the subject of SensitiveOperations: here the guard   *)
(* calls the execution or refuses it.                                      *)
(***************************************************************************)
EXTENDS Naturals, FiniteSets

CONSTANTS
  Plans,        \* plans that may be drawn up
  Executors,    \* executions, each for one plan
  Nodes,        \* scheduler nodes, each runs the retention task once
  NumRecords,   \* records of the audit tables, in the order of the targets
  None,
  Lease         \* auditPruneLeaseTimeout

Records == 1..NumRecords
Versions == {"old", "changed"}
Texts == Versions \union {"absent"}

\* There is a record, and nothing is not a manifest.
ASSUME PruneAssumption ==
  NumRecords \in Nat \ {0} /\ None \notin [Records -> Texts]

VARIABLES
  record,                                   \* the audit tables
  status, execution, age, digest, target,   \* the plans and their targets
  archive,                                  \* the manifests in immutable storage
  run, runPlan,                             \* the retention run of a tenant and day
  node, drawn,                              \* the scheduler nodes, the plan of each
  stage, plan, at, tally, result,           \* the executions
  deleted, late                             \* history

planVars == <<status, execution, age, digest, target>>
runVars == <<run, runPlan>>
nodeVars == <<node, drawn>>
executorVars == <<stage, plan, at, tally, result>>
historyVars == <<deleted, late>>
vars == <<record, planVars, archive, runVars, nodeVars, executorVars, historyVars>>

PlanStatuses == {"none", "planned", "running", "completed", "no_op", "failed", "partial"}
Closed == {"completed", "no_op", "failed", "partial"}
TargetStatuses == {"none", "planned", "running", "completed", "no_op", "failed"}
RunStatuses == {"none", "pending", "running", "awaiting", "completed", "failed"}
Stages == {"idle", "recover", "load", "verify", "evidence", "claim", "heartbeat",
           "target", "delete", "mark", "finish", "report", "done"}
Outcomes == {"completed", "no_op", "failed"}

TypeOK ==
  /\ record \in [Records -> Texts]
  /\ status \in [Plans -> PlanStatuses]
  /\ execution \in [Plans -> Executors \union {None}]
  /\ age \in [Plans -> 0..(Lease + 1)]
  /\ digest \in [Plans -> [Records -> Texts]]
  /\ target \in [Plans -> [Records -> TargetStatuses]]
  /\ archive \in [Plans -> [Records -> Texts] \union {None}]
  /\ run \in RunStatuses /\ runPlan \in Plans \union {None}
  /\ node \in [Nodes -> {"idle", "create", "start", "plan", "await", "done"}]
  /\ drawn \in [Nodes -> Plans \union {None}]
  /\ stage \in [Executors -> Stages]
  /\ plan \in [Executors -> Plans \union {None}]
  /\ at \in [Executors -> 1..(NumRecords + 1)]
  /\ tally \in [Executors -> [Outcomes -> 0..NumRecords]]
  /\ result \in [Executors -> Outcomes \union {"", "partial", "error"}]
  /\ deleted \subseteq (Plans \X Records \X Texts)
  /\ late \in [Plans -> 0..NumRecords]

Init ==
  /\ record = [r \in Records |-> "old"]
  /\ status = [p \in Plans |-> "none"]
  /\ execution = [p \in Plans |-> None]
  /\ age = [p \in Plans |-> 0]
  /\ digest = [p \in Plans |-> [r \in Records |-> "absent"]]
  /\ target = [p \in Plans |-> [r \in Records |-> "none"]]
  /\ archive = [p \in Plans |-> None]
  /\ run = "none" /\ runPlan = None
  /\ node = [n \in Nodes |-> "idle"]
  /\ drawn = [n \in Nodes |-> None]
  /\ stage = [e \in Executors |-> "idle"]
  /\ plan = [e \in Executors |-> None]
  /\ at = [e \in Executors |-> 1]
  /\ tally = [e \in Executors |-> [o \in Outcomes |-> 0]]
  /\ result = [e \in Executors |-> ""]
  /\ deleted = {}
  /\ late = [p \in Plans |-> 0]

Targets(p) == {r \in Records : target[p][r] # "none"}

-----------------------------------------------------------------------------
(* Plans, and the archive that an operator makes of one. *)

\* Create, whose transaction writes the plan with all its targets.
Create(p) ==
  /\ status[p] = "none"
  /\ status' = [status EXCEPT ![p] = "planned"]
  /\ digest' = [digest EXCEPT ![p] = record]
  /\ target' = [target EXCEPT ![p] =
                  [r \in Records |-> IF record[r] = "absent" THEN "none" ELSE "planned"]]
  /\ UNCHANGED <<execution, age>>

CreateByHand(p) ==
  /\ Create(p)
  /\ UNCHANGED <<record, archive, runVars, nodeVars, executorVars, historyVars>>

\* Whatever was archived under the name of the plan, right or wrong
\* about the first record.
Manifests(p) ==
  {digest[p]} \union {[digest[p] EXCEPT ![1] = t] : t \in Texts}
Archive(p, manifest) ==
  /\ status[p] # "none" /\ archive[p] = None
  /\ archive' = [archive EXCEPT ![p] = manifest]
  /\ UNCHANGED <<record, planVars, runVars, nodeVars, executorVars, historyVars>>

\* Audit records are not meant to change, and other plans, which are not
\* followed here, may cover the same ones.
Drift(r) ==
  /\ record[r] = "old"
  /\ \E t \in {"changed", "absent"} : record' = [record EXCEPT ![r] = t]
  /\ UNCHANGED <<planVars, archive, runVars, nodeVars, executorVars, historyVars>>

-----------------------------------------------------------------------------
(* TenantRetentionService.runTenant. *)

NodeGoes(n, s) == node' = [node EXCEPT ![n] = s]
notNodes == <<record, archive, executorVars, historyVars>>

\* CreateOrGetRun: look the run up, then insert it.
FindRun(n) ==
  /\ node[n] = "idle"
  /\ NodeGoes(n, IF run = "none" THEN "create" ELSE "done")
  /\ UNCHANGED <<notNodes, planVars, runVars, drawn>>

CreateRun(n) ==
  /\ node[n] = "create"
  /\ NodeGoes(n, IF run = "none" THEN "start" ELSE "done")
  /\ run' = IF run = "none" THEN "pending" ELSE run
  /\ UNCHANGED <<notNodes, planVars, runPlan, drawn>>

StartRun(n) ==
  /\ node[n] = "start"
  /\ IF run = "pending" THEN NodeGoes(n, "plan") /\ run' = "running"
                  ELSE NodeGoes(n, "done") /\ UNCHANGED run
  /\ UNCHANGED <<notNodes, planVars, runPlan, drawn>>

PlanRun(n, p) ==
  /\ node[n] = "plan"
  /\ NodeGoes(n, "await")
  /\ drawn' = [drawn EXCEPT ![n] = p]
  /\ Create(p)
  /\ UNCHANGED <<notNodes, runVars>>

PlanRunFails(n) ==
  /\ node[n] = "plan"
  /\ NodeGoes(n, "done")
  /\ run' = IF run = "running" THEN "failed" ELSE run
  /\ UNCHANGED <<notNodes, planVars, runPlan, drawn>>

AwaitRetentionEvidence(n) ==
  /\ node[n] = "await"
  /\ NodeGoes(n, "done")
  /\ IF run = "running" THEN run' = "awaiting" /\ runPlan' = drawn[n]
                        ELSE UNCHANGED runVars
  /\ UNCHANGED <<notNodes, planVars, drawn>>

-----------------------------------------------------------------------------
(* AuditPruneExecutor.Execute. *)

GoTo(e, s) == stage' = [stage EXCEPT ![e] = s]
notExecution == <<archive, nodeVars>>

Execute(e, p) ==
  /\ stage[e] = "idle" /\ status[p] # "none"
  /\ GoTo(e, "recover")
  /\ plan' = [plan EXCEPT ![e] = p]
  /\ UNCHANGED <<notExecution, record, planVars, runVars, at, tally, result, historyVars>>

\* recoverAbandonedRun.
RecoverAbandonedRun(e) ==
  LET p == plan[e] IN
  /\ stage[e] = "recover"
  /\ GoTo(e, "load")
  /\ status' = [status EXCEPT ![p] =
                  IF @ = "running" /\ age[p] > Lease THEN "partial" ELSE @]
  /\ UNCHANGED <<notExecution, record, execution, age, digest, target, runVars,
                 plan, at, tally, result, historyVars>>

\* Load and validateAuditPrunePlanForExecution: of what they read, only the
\* statuses can have changed, and those of the targets after that of the plan.
Load(e) ==
  /\ stage[e] = "load"
  /\ GoTo(e, IF status[plan[e]] = "planned" THEN "verify" ELSE "done")
  /\ UNCHANGED <<notExecution, record, planVars, runVars, plan, at, tally, result,
                 historyVars>>

\* VerifyAttested, auditPruneArchiveMatchesPlan.  Variant: only that every
\* target is in the manifest.
ArchiveListsPlan(p) ==
  archive[p] # None /\ \A r \in Targets(p) : archive[p][r] # "absent"
ArchiveMatchesPlan(p) == archive[p] = digest[p]

VerifyAttested(e) ==
  /\ stage[e] = "verify"
  /\ GoTo(e, IF ArchiveMatchesPlan(plan[e]) THEN "evidence" ELSE "done")
  /\ UNCHANGED <<notExecution, record, planVars, runVars, plan, at, tally, result,
                 historyVars>>

\* executeSensitive.
SpendEvidence(e) ==
  /\ stage[e] = "evidence"
  /\ GoTo(e, "claim") \/ GoTo(e, "done")
  /\ UNCHANGED <<notExecution, record, planVars, runVars, plan, at, tally, result,
                 historyVars>>

\* The first UPDATE of executeVerified.
ClaimablePlan(p) == status[p] = "planned"

ClaimPlan(e) ==
  LET p == plan[e] IN
  /\ stage[e] = "claim"
  /\ IF ClaimablePlan(p)
       THEN /\ status' = [status EXCEPT ![p] = "running"]
            /\ execution' = [execution EXCEPT ![p] = e]
            /\ age' = [age EXCEPT ![p] = 0]
            /\ GoTo(e, IF Targets(p) = {} THEN "finish" ELSE "heartbeat")
       ELSE GoTo(e, "done") /\ UNCHANGED <<status, execution, age>>
  /\ UNCHANGED <<notExecution, record, digest, target, runVars, plan, at, tally,
                 result, historyVars>>

\* The target at hand is counted and the next one taken.
Count(e, o) ==
  /\ tally' = [tally EXCEPT ![e][o] = @ + 1]
  /\ at' = [at EXCEPT ![e] = @ + 1]
  /\ GoTo(e, IF at[e] = NumRecords THEN "finish" ELSE "heartbeat")

\* Records that were absent when the plan was drawn up are not among its targets.
SkipRecord(e) ==
  /\ stage[e] = "heartbeat" /\ at[e] \notin Targets(plan[e])
  /\ at' = [at EXCEPT ![e] = @ + 1]
  /\ GoTo(e, IF at[e] = NumRecords THEN "finish" ELSE "heartbeat")
  /\ UNCHANGED <<notExecution, record, planVars, runVars, plan, tally, result, historyVars>>

\* heartbeatRun.  Variant: it does not look at the status.
HeartbeatOfAny(e, p) == execution[p] = e
HeartbeatMatches(e, p) == status[p] = "running" /\ execution[p] = e

\* registerAndVerifyTargetConnection or the statement may fail as well.
HeartbeatRun(e) ==
  LET p == plan[e] IN
  /\ stage[e] = "heartbeat" /\ at[e] \in Targets(p)
  /\ \/ /\ HeartbeatMatches(e, p)
        /\ age' = [age EXCEPT ![p] = 0]
        /\ GoTo(e, "target")
        /\ UNCHANGED <<at, tally>>
     \/ Count(e, "failed") /\ UNCHANGED age
  /\ UNCHANGED <<notExecution, record, status, execution, digest, target, runVars,
                 plan, result, historyVars>>

ClaimTarget(e) ==
  LET p == plan[e] IN
  /\ stage[e] = "target"
  /\ \/ /\ target[p][at[e]] = "planned"
        /\ target' = [target EXCEPT ![p][at[e]] = "running"]
        /\ GoTo(e, "delete")
        /\ UNCHANGED <<at, tally>>
     \/ Count(e, "failed") /\ UNCHANGED target
  /\ UNCHANGED <<notExecution, record, status, execution, age, digest, runVars, plan,
                 result, historyVars>>

\* deleteExactAuditPruneTarget, under the lock of the record.  Variant: it does
\* not compare digests.
UnchangedAlways(p, r) == TRUE
UnchangedTarget(p, r) == record[r] = digest[p][r]

DeleteTarget(e) ==
  LET p == plan[e]
      r == at[e] IN
  /\ stage[e] = "delete"
  /\ \/ /\ record[r] \in Versions /\ UnchangedTarget(p, r)
        /\ record' = [record EXCEPT ![r] = "absent"]
        /\ deleted' = deleted \union {<<p, r, record[r]>>}
        /\ late' = [late EXCEPT ![p] = IF status[p] = "running" THEN @ ELSE @ + 1]
        /\ result' = [result EXCEPT ![e] = "completed"]
     \/ /\ record[r] = "absent"
        /\ result' = [result EXCEPT ![e] = "no_op"]
        /\ UNCHANGED <<record, deleted, late>>
     \/ /\ result' = [result EXCEPT ![e] = "failed"]
        /\ UNCHANGED <<record, deleted, late>>
  /\ GoTo(e, "mark")
  /\ UNCHANGED <<notExecution, planVars, runVars, plan, at, tally>>

\* An outcome that could not be written counts as a failure.
MarkTarget(e) ==
  /\ stage[e] = "mark"
  /\ \/ /\ target' = [target EXCEPT ![plan[e]][at[e]] = result[e]]
        /\ Count(e, result[e])
     \/ Count(e, "failed") /\ UNCHANGED target
  /\ result' = [result EXCEPT ![e] = ""]
  /\ UNCHANGED <<notExecution, record, status, execution, age, digest, runVars, plan,
                 historyVars>>

\* auditPruneRunStatus.  Variant: some successes are a success.
RunStatusLenient(e, p) ==
  LET n == tally[e] IN
  IF n["no_op"] = Cardinality(Targets(p)) THEN "no_op"
  ELSE IF n["completed"] + n["no_op"] = 0 THEN "failed" ELSE "completed"
AuditPruneRunStatus(e, p) ==
  LET n == tally[e] IN
  IF n["no_op"] = Cardinality(Targets(p)) THEN "no_op"
  ELSE IF n["failed"] > 0 /\ n["completed"] + n["no_op"] > 0 THEN "partial"
  ELSE IF n["failed"] > 0 THEN "failed" ELSE "completed"

\* updateAuditPruneRun; the statement may fail.
FinishRun(e) ==
  LET p == plan[e]
      s == AuditPruneRunStatus(e, p) IN
  /\ stage[e] = "finish"
  /\ \/ /\ HeartbeatMatches(e, p)
        /\ status' = [status EXCEPT ![p] = s]
        /\ age' = [age EXCEPT ![p] = 0]
        /\ result' = [result EXCEPT ![e] = s]
     \/ /\ result' = [result EXCEPT ![e] = "error"]
        /\ UNCHANGED <<status, age>>
  /\ GoTo(e, "report")
  /\ UNCHANGED <<notExecution, record, execution, digest, target, runVars, plan, at,
                 tally, historyVars>>

\* FinishRetentionPlan, whose error changes nothing more.
FinishRetentionPlan(e) ==
  /\ stage[e] = "report"
  /\ \/ /\ run = "awaiting" /\ runPlan = plan[e]
        /\ run' = IF result[e] \in {"completed", "no_op"} THEN "completed" ELSE "failed"
     \/ UNCHANGED run
  /\ GoTo(e, "done")
  /\ at' = [at EXCEPT ![e] = 1]
  /\ tally' = [tally EXCEPT ![e] = [o \in Outcomes |-> 0]]
  /\ result' = [result EXCEPT ![e] = ""]
  /\ UNCHANGED <<notExecution, record, planVars, runPlan, plan, historyVars>>

Tick ==
  /\ \E p \in Plans : status[p] = "running" /\ age[p] <= Lease
  /\ age' = [p \in Plans |-> IF status[p] = "running" /\ age[p] <= Lease
                               THEN age[p] + 1 ELSE age[p]]
  /\ UNCHANGED <<record, status, execution, digest, target, archive, runVars, nodeVars,
                 executorVars, historyVars>>

Retention(n) ==
  \/ FindRun(n) \/ CreateRun(n) \/ StartRun(n) \/ PlanRunFails(n)
  \/ AwaitRetentionEvidence(n)
  \/ \E p \in Plans : PlanRun(n, p)

Execution(e) ==
  \/ \E p \in Plans : Execute(e, p)
  \/ RecoverAbandonedRun(e) \/ Load(e) \/ VerifyAttested(e) \/ SpendEvidence(e)
  \/ ClaimPlan(e) \/ SkipRecord(e) \/ HeartbeatRun(e) \/ ClaimTarget(e)
  \/ DeleteTarget(e) \/ MarkTarget(e) \/ FinishRun(e) \/ FinishRetentionPlan(e)

Next ==
  \/ \E p \in Plans : CreateByHand(p)
  \/ \E p \in Plans : \E manifest \in Manifests(p) : Archive(p, manifest)
  \/ \E r \in Records : Drift(r)
  \/ \E n \in Nodes : Retention(n)
  \/ \E e \in Executors : Execution(e)
  \/ Tick

Spec == Init /\ [][Next]_vars

-----------------------------------------------------------------------------
(* What holds. *)

\* What is gone was archived as it was: every record that pruning deleted is in
\* the manifest of its plan, in the version that it had when it was deleted,
\* however the tables changed between plan, archive and execution.
DeletedWasArchived ==
  \A d \in deleted : archive[d[1]] # None /\ archive[d[1]][d[2]] = d[3]

\* A plan is executed once: an execution that was taken for dead while it
\* deletes finishes that record and no other, and nobody takes its place.
Working == {"heartbeat", "target", "delete", "mark", "finish"}
PlanExecutedOnce ==
  /\ \A p \in Plans : late[p] <= 1
  /\ \A e \in Executors : stage[e] \in Working => execution[plan[e]] = e

\* A retention run that says `completed' has removed everything it had planned.
RetentionIsHonest ==
  run = "completed" => \A r \in Targets(runPlan) : record[r] = "absent"
=============================================================================
