----------------------- MODULE MessagesAndRecordsProofs -----------------------
(***************************************************************************)
(* What pruning deletes was archived, by one execution of each plan, and   *)
(* the retention run tells the truth about it: for any number of plans,    *)
(* records, executions and nodes.                                          *)
(*                                                                         *)
(* What an execution deletes is compared with the digest of the plan, the  *)
(* digest with the archive before the evidence is spent, and neither       *)
(* changes from then on (PruneInv).  What an execution counts as done is   *)
(* gone and does not come back, and its count is that of the targets       *)
(* behind it (ExecInv).  The row of the plan names its one execution, and  *)
(* no plan is opened twice; an execution that was given up learns it from  *)
(* its next heartbeat (OnceInv).                                           *)
(*                                                                         *)
(* A message that was enqueued is accounted for, for any consumers,        *)
(* workers, dispatches and attempts.  A worker that found a row failed may *)
(* leave the message to whoever took the row; so the claim that is         *)
(* inductive counts everybody but such workers (BusInv).                   *)
(*                                                                         *)
(* A record of the operation log is in one place: with its request, in     *)
(* the channel, with the goroutine, or written (LogInv), for any number of *)
(* records, calls of Shutdown and any size of the channel.                 *)
(***************************************************************************)
EXTENDS MCMessagesAndRecords, Integers, Sequences, FiniteSetTheorems, TLAPS

-----------------------------------------------------------------------------
(* What is deleted was archived. *)

PlanTypes ==
  /\ status \in [Plans -> PlanStatuses]
  /\ digest \in [Plans -> [Records -> Texts]]
  /\ archive = [p \in Plans |-> archive[p]]
  /\ record \in [Records -> Texts]
  /\ stage \in [Executors -> Stages]
  /\ plan \in [Executors -> Plans \union {None}]

\* The stages of an execution that has a plan, and of one whose archive was verified.
Bound == Stages \ {"idle", "done"}
Verified == Bound \ {"recover", "load", "verify"}

PlanKnown == \A e \in Executors : stage[e] \in Bound => plan[e] \in Plans /\ status[plan[e]] # "none"
ArchiveVerified == \A e \in Executors : stage[e] \in Verified => archive[plan[e]] = digest[plan[e]]

DeletedRecords ==
  \A d \in deleted : \E p \in Plans, r \in Records, v \in Texts :
     d = <<p, r, v>> /\ status[p] # "none" /\ archive[p] = digest[p] /\ digest[p][r] = v

PruneInv == PlanTypes /\ PlanKnown /\ ArchiveVerified /\ DeletedRecords

LEMMA PruneFirst == Init => PruneInv
<1> SUFFICES ASSUME Init PROVE PruneInv
  OBVIOUS
<1>1. archive = [p \in Plans |-> archive[p]]
  BY DEF Init
<1>2. PlanTypes
  BY <1>1 DEF Init, PlanTypes, PlanStatuses, Texts, Versions, Stages
<1>3. PlanKnown /\ ArchiveVerified /\ DeletedRecords
  BY DEF Init, PlanKnown, ArchiveVerified, DeletedRecords, Bound, Verified
<1> QED BY <1>2, <1>3 DEF PruneInv

\* An execution goes on: what was verified stays verified, as plans and archives are
\* written once.
LEMMA PruneKept ==
  ASSUME PruneInv, NEW e \in Executors, NEW s \in Stages, stage' = [stage EXCEPT ![e] = s],
         status' \in [Plans -> PlanStatuses], \A p \in Plans : status[p] # "none" => status'[p] # "none",
         UNCHANGED <<record, digest, archive, plan, deleted>>,
         s \in Bound => stage[e] \in Bound, s \in Verified => stage[e] \in Verified
  PROVE  PruneInv'
<1>1. PlanTypes'
  BY DEF PruneInv, PlanTypes
<1>2. PlanKnown'
  BY DEF PruneInv, PlanTypes, PlanKnown
<1>3. ArchiveVerified'
  BY DEF PruneInv, PlanTypes, ArchiveVerified
<1>4. DeletedRecords'
  BY DEF PruneInv, DeletedRecords
<1> QED BY <1>1, <1>2, <1>3, <1>4 DEF PruneInv

\* An execution does not undo that its plan was drawn up.
LEMMA StatusKept ==
  ASSUME PruneInv, NEW e \in Executors,
         \/ RecoverAbandonedRun(e) \/ Load(e) \/ SpendEvidence(e) \/ ClaimPlan(e)
         \/ SkipRecord(e) \/ HeartbeatRun(e) \/ ClaimTarget(e) \/ MarkTarget(e)
         \/ FinishRun(e) \/ FinishRetentionPlan(e)
  PROVE  /\ status' \in [Plans -> PlanStatuses]
         /\ \A p \in Plans : status[p] # "none" => status'[p] # "none"
<1>1. status \in [Plans -> PlanStatuses]
  BY DEF PruneInv, PlanTypes
<1>2. CASE RecoverAbandonedRun(e)
  BY <1>1, <1>2 DEF RecoverAbandonedRun, PlanStatuses
<1>3. CASE ClaimPlan(e)
  BY <1>1, <1>3 DEF ClaimPlan, PlanStatuses
<1>4. CASE FinishRun(e)
  <2>1. AuditPruneRunStatus(e, plan[e]) \in Closed
    BY DEF AuditPruneRunStatus, Closed
  <2> QED BY <1>1, <1>4, <2>1 DEF FinishRun, PlanStatuses, Closed
<1>5. CASE \/ Load(e) \/ SpendEvidence(e)
           \/ SkipRecord(e) \/ HeartbeatRun(e) \/ ClaimTarget(e) \/ MarkTarget(e)
           \/ FinishRetentionPlan(e)
  <2>1. status' = status
    BY <1>5 DEF Load, SpendEvidence, SkipRecord, HeartbeatRun, ClaimTarget, MarkTarget,
                FinishRetentionPlan, planVars
  <2> QED BY <1>1, <2>1
<1> QED BY <1>2, <1>3, <1>4, <1>5

LEMMA PruneGoes ==
  ASSUME PruneInv, NEW e \in Executors,
         \/ RecoverAbandonedRun(e) \/ Load(e) \/ SpendEvidence(e) \/ ClaimPlan(e)
         \/ SkipRecord(e) \/ HeartbeatRun(e) \/ ClaimTarget(e) \/ MarkTarget(e)
         \/ FinishRun(e) \/ FinishRetentionPlan(e)
  PROVE  PruneInv'
<1>1. UNCHANGED <<record, digest, archive, plan, deleted>>
  BY DEF RecoverAbandonedRun, Load, SpendEvidence, ClaimPlan, SkipRecord, HeartbeatRun,
         ClaimTarget, MarkTarget, FinishRun, FinishRetentionPlan, notExecution, planVars,
         historyVars
<1>2. \E s \in Stages :
        /\ stage' = [stage EXCEPT ![e] = s]
        /\ s \in Bound => stage[e] \in Bound
        /\ s \in Verified => stage[e] \in Verified
  BY DEF RecoverAbandonedRun, Load, SpendEvidence, ClaimPlan, SkipRecord, HeartbeatRun,
         ClaimTarget, MarkTarget, FinishRun, FinishRetentionPlan, Count, GoTo,
         Stages, Bound, Verified
<1>3. /\ status' \in [Plans -> PlanStatuses]
      /\ \A p \in Plans : status[p] # "none" => status'[p] # "none"
  BY StatusKept
<1> QED BY <1>1, <1>2, <1>3, PruneKept

LEMMA PruneBegins == ASSUME PruneInv, NEW e \in Executors, NEW p \in Plans, Execute(e, p) PROVE PruneInv'
<1>1. /\ stage[e] = "idle" /\ status[p] # "none" /\ stage' = [stage EXCEPT ![e] = "recover"]
      /\ plan' = [plan EXCEPT ![e] = p] /\ UNCHANGED <<record, status, digest, archive, deleted>>
  BY DEF Execute, GoTo, notExecution, planVars, historyVars
<1>2. PlanTypes'
  BY <1>1 DEF PruneInv, PlanTypes, Stages
<1>3. PlanKnown'
  BY <1>1 DEF PruneInv, PlanTypes, PlanKnown
<1>4. ArchiveVerified'
  BY <1>1 DEF PruneInv, PlanTypes, ArchiveVerified, Verified, Bound
<1>5. DeletedRecords'
  BY <1>1 DEF PruneInv, DeletedRecords
<1> QED BY <1>2, <1>3, <1>4, <1>5 DEF PruneInv

LEMMA PruneVerifies == ASSUME PruneInv, NEW e \in Executors, VerifyAttested(e) PROVE PruneInv'
<1>1. /\ stage[e] = "verify" /\ UNCHANGED <<record, status, digest, archive, plan, deleted>>
      /\ \/ stage' = [stage EXCEPT ![e] = "evidence"] /\ archive[plan[e]] = digest[plan[e]]
         \/ stage' = [stage EXCEPT ![e] = "done"]
  BY DEF VerifyAttested, GoTo, ArchiveMatchesPlan, notExecution, planVars, historyVars
<1>2. PlanTypes'
  BY <1>1 DEF PruneInv, PlanTypes, Stages
<1>3. PlanKnown' /\ ArchiveVerified'
  BY <1>1 DEF PruneInv, PlanTypes, PlanKnown, ArchiveVerified, Bound, Verified, Stages
<1>4. DeletedRecords'
  BY <1>1 DEF PruneInv, DeletedRecords
<1> QED BY <1>2, <1>3, <1>4 DEF PruneInv

LEMMA PruneDeletes == ASSUME PruneInv, NEW e \in Executors, DeleteTarget(e), at[e] \in Records PROVE PruneInv'
<1>1. /\ stage[e] = "delete" /\ stage' = [stage EXCEPT ![e] = "mark"]
      /\ UNCHANGED <<status, digest, archive, plan>>
      /\ \/ /\ record[at[e]] \in Versions /\ record[at[e]] = digest[plan[e]][at[e]]
            /\ record' = [record EXCEPT ![at[e]] = "absent"]
            /\ deleted' = deleted \union {<<plan[e], at[e], record[at[e]]>>}
         \/ UNCHANGED <<record, deleted>>
  BY DEF DeleteTarget, GoTo, UnchangedTarget, notExecution, planVars
<1>2. PlanTypes'
  BY <1>1 DEF PruneInv, PlanTypes, Stages, Texts, Versions
<1>3. PlanKnown' /\ ArchiveVerified'
  BY <1>1 DEF PruneInv, PlanTypes, PlanKnown, ArchiveVerified, Bound, Verified, Stages
<1>4. /\ plan[e] \in Plans /\ status[plan[e]] # "none" /\ archive[plan[e]] = digest[plan[e]]
  BY <1>1 DEF PruneInv, PlanKnown, ArchiveVerified, Bound, Verified, Stages
<1>5. DeletedRecords'
  <2> SUFFICES ASSUME NEW d \in deleted'
               PROVE  \E p \in Plans, r \in Records, v \in Texts :
                        /\ d = <<p, r, v>> /\ status[p] # "none" /\ archive[p] = digest[p]
                        /\ digest[p][r] = v
    BY <1>1 DEF DeletedRecords
  <2>1. CASE d \in deleted
    BY <2>1 DEF PruneInv, DeletedRecords
  <2>2. CASE d = <<plan[e], at[e], record[at[e]]>> /\ record[at[e]] = digest[plan[e]][at[e]]
             /\ record[at[e]] \in Versions
    BY <1>4, <2>2 DEF Texts
  <2> QED BY <1>1, <2>1, <2>2
<1> QED BY <1>2, <1>3, <1>5 DEF PruneInv

\* Drawing up a plan touches no other, and archiving one archives it for the first time.
LEMMA PruneDrawsUp ==
  ASSUME PruneInv, NEW p \in Plans, Create(p), UNCHANGED <<record, archive, stage, plan, deleted>>
  PROVE  PruneInv'
<1>1. /\ status[p] = "none" /\ status' = [status EXCEPT ![p] = "planned"]
      /\ digest' = [digest EXCEPT ![p] = record]
  BY DEF Create
<1>2. PlanTypes'
  BY <1>1 DEF PruneInv, PlanTypes, PlanStatuses
<1>3. PlanKnown' /\ ArchiveVerified'
  BY <1>1 DEF PruneInv, PlanTypes, PlanKnown, ArchiveVerified, Verified
<1>4. DeletedRecords'
  BY <1>1 DEF PruneInv, PlanTypes, DeletedRecords
<1> QED BY <1>2, <1>3, <1>4 DEF PruneInv

LEMMA PruneArchives ==
  ASSUME PruneInv, NEW p \in Plans, NEW m, Archive(p, m)
  PROVE  PruneInv'
<1>1. /\ archive[p] = None /\ archive' = [archive EXCEPT ![p] = m]
      /\ UNCHANGED <<record, status, digest, stage, plan, deleted>>
  BY DEF Archive, planVars, executorVars, historyVars
<1>2. archive[p] # digest[p]
  BY <1>1, PruneAssumption DEF PruneInv, PlanTypes
<1>3. PlanTypes'
  BY <1>1 DEF PruneInv, PlanTypes
<1>4. PlanKnown' /\ ArchiveVerified'
  BY <1>1, <1>2 DEF PruneInv, PlanTypes, PlanKnown, ArchiveVerified, Verified
<1>5. DeletedRecords'
  BY <1>1, <1>2 DEF PruneInv, PlanTypes, DeletedRecords
<1> QED BY <1>3, <1>4, <1>5 DEF PruneInv

\* The tables change, or nothing that the invariant speaks of.
LEMMA PruneElsewhere ==
  ASSUME PruneInv, UNCHANGED <<status, digest, archive, stage, plan, deleted>>,
         record' \in [Records -> Texts]
  PROVE  PruneInv'
BY DEF PruneInv, PlanTypes, PlanKnown, ArchiveVerified, DeletedRecords

-----------------------------------------------------------------------------
(* An execution and its position in the plan. *)

ExecTypes ==
  /\ target \in [Plans -> [Records -> TargetStatuses]]
  /\ at \in [Executors -> 1..(NumRecords + 1)]
  /\ tally \in [Executors -> [Outcomes -> Nat]]
  /\ result = [e \in Executors |-> result[e]]

Ahead == {"idle", "recover", "load", "verify", "evidence", "claim"}
Done(e) == {r \in Targets(plan[e]) : r < at[e]}
Gone(R) == \A r \in R : record[r] = "absent"

\* The records behind an execution are counted, and gone if none has failed.
Accounted(e) ==
  /\ tally[e]["completed"] + tally[e]["no_op"] + tally[e]["failed"] = Cardinality(Done(e))
  /\ tally[e]["failed"] = 0 => Gone(Done(e))

Going(e) ==
  /\ stage[e] \in Ahead => at[e] = 1 /\ \A o \in Outcomes : tally[e][o] = 0
  /\ stage[e] \in Working => Accounted(e)
  /\ stage[e] = "heartbeat" => at[e] <= NumRecords
  /\ stage[e] \in {"target", "delete", "mark"} => at[e] \in Targets(plan[e])
  /\ stage[e] = "finish" => at[e] = NumRecords + 1 \/ Targets(plan[e]) = {}
  /\ stage[e] = "mark" =>
       result[e] \in Outcomes /\ (result[e] # "failed" => record[at[e]] = "absent")
  /\ stage[e] = "report" /\ result[e] \in {"completed", "no_op"} => Gone(Targets(plan[e]))

ExecInv == ExecTypes /\ \A e \in Executors : Going(e)

\* A record that is gone stays away, and the targets of a plan are what they were.
Monotone ==
  /\ \A r \in Records : record[r] = "absent" => record'[r] = "absent"
  /\ \A p \in Plans : status[p] # "none" =>
       Targets(p)' = Targets(p) /\ status'[p] # "none"

LEMMA TargetsAreFew ==
  ASSUME NEW p
  PROVE  Targets(p) \subseteq Records /\ IsFiniteSet(Targets(p))
<1>1. Targets(p) \subseteq Records
  BY DEF Targets
<1>2. IsFiniteSet(Records)
  BY FS_Interval, PruneAssumption DEF Records
<1> QED BY <1>1, <1>2, FS_Subset

LEMMA GoingElsewhere ==
  ASSUME PruneInv, NEW x \in Executors, Going(x), Monotone,
         stage'[x] = stage[x], plan'[x] = plan[x], at'[x] = at[x], tally'[x] = tally[x],
         result'[x] = result[x]
  PROVE  Going(x)'
<1>1. CASE stage[x] \in Bound
  <2>1. plan[x] \in Plans /\ status[plan[x]] # "none"
    BY <1>1 DEF PruneInv, PlanKnown
  <2>2. Targets(plan[x])' = Targets(plan[x]) /\ Targets(plan[x]) \subseteq Records
    BY <2>1 DEF Monotone, Targets
  <2>3. Done(x)' = Done(x)
    BY <2>2 DEF Done
  <2>4. Accounted(x) => Accounted(x)'
    BY <2>2, <2>3 DEF Accounted, Gone, Monotone, Done
  <2> QED BY <2>2, <2>4 DEF Going, Monotone, Gone
<1>2. CASE stage[x] \notin Bound
  BY <1>2 DEF Going, Bound, PruneInv, PlanTypes, Stages, Working
<1> QED BY <1>1, <1>2

\* A record is counted: one more behind the execution.
LEMMA CountAccounts ==
  ASSUME ExecTypes, NEW e \in Executors, NEW o \in Outcomes, Count(e, o),
         Accounted(e), Monotone, plan[e] \in Plans, status[plan[e]] # "none", plan'[e] = plan[e],
         at[e] \in Targets(plan[e]), o # "failed" => record[at[e]] = "absent"
  PROVE  /\ Accounted(e)' /\ at'[e] = at[e] + 1 /\ stage' = [stage EXCEPT ![e] =
                 IF at[e] = NumRecords THEN "finish" ELSE "heartbeat"]
         /\ tally' \in [Executors -> [Outcomes -> Nat]]
         /\ \A x \in Executors : x # e => tally'[x] = tally[x] /\ at'[x] = at[x]
<1>1. /\ tally' = [tally EXCEPT ![e] = [tally[e] EXCEPT ![o] = tally[e][o] + 1]]
      /\ tally[e] \in [Outcomes -> Nat] /\ at[e] \in Nat
      /\ at' = [at EXCEPT ![e] = at[e] + 1]
      /\ stage' = [stage EXCEPT ![e] = IF at[e] = NumRecords THEN "finish" ELSE "heartbeat"]
  BY DEF Count, GoTo, ExecTypes
<1>2. tally'[e] = [tally[e] EXCEPT ![o] = tally[e][o] + 1] /\ at'[e] = at[e] + 1
  BY <1>1 DEF ExecTypes
<1>3. /\ tally' \in [Executors -> [Outcomes -> Nat]]
      /\ \A x \in Executors : x # e => tally'[x] = tally[x] /\ at'[x] = at[x]
  BY <1>1 DEF ExecTypes
<1>4. Targets(plan[e])' = Targets(plan[e])
  BY DEF Monotone, Targets
<1>5. Done(e)' = Done(e) \union {at[e]} /\ at[e] \notin Done(e)
  <2>1. Targets(plan[e]) \subseteq Nat
    BY PruneAssumption DEF Targets, Records
  <2> QED BY <1>1, <1>2, <1>4, <2>1 DEF Done
<1>6. Cardinality(Done(e)') = Cardinality(Done(e)) + 1
  <2>1. IsFiniteSet(Done(e))
    BY TargetsAreFew, FS_Subset DEF Done
  <2> QED BY <1>5, <2>1, FS_AddElement
<1>7. tally'[e]["completed"] + tally'[e]["no_op"] + tally'[e]["failed"]
        = tally[e]["completed"] + tally[e]["no_op"] + tally[e]["failed"] + 1
  BY <1>1, <1>2 DEF Outcomes
<1>8. tally'[e]["failed"] = 0 => Gone(Done(e))'
  <2> SUFFICES ASSUME tally'[e]["failed"] = 0, NEW r \in Done(e)' PROVE record'[r] = "absent"
    BY DEF Gone
  <2>1. o # "failed" /\ tally[e]["failed"] = 0
    BY <1>1, <1>2 DEF Outcomes
  <2>2. record[r] = "absent" /\ r \in Records
    BY <1>5, <2>1 DEF Accounted, Gone, Done, Targets
  <2> QED BY <2>2 DEF Monotone
<1> QED BY <1>1, <1>2, <1>3, <1>6, <1>7, <1>8 DEF Accounted

LEMMA ExecFirst == Init => ExecInv
<1> SUFFICES ASSUME Init PROVE ExecInv
  OBVIOUS
<1>1. ExecTypes
  <2>1. 1 \in 1..(NumRecords + 1)
    BY PruneAssumption
  <2> QED BY <2>1 DEF Init, ExecTypes, TargetStatuses, Outcomes
<1>2. \A e \in Executors : Going(e)
  BY DEF Init, Going, Ahead, Working, Outcomes
<1> QED BY <1>1, <1>2 DEF ExecInv

\* An execution moves: the others are where they were.
LEMMA ExecMoves ==
  ASSUME PruneInv, ExecInv, Monotone, NEW e \in Executors, ExecTypes', Going(e)', UNCHANGED plan,
         \A x \in Executors : x # e =>
           stage'[x] = stage[x] /\ at'[x] = at[x] /\ tally'[x] = tally[x] /\ result'[x] = result[x]
  PROVE  ExecInv'
<1> SUFFICES ASSUME NEW x \in Executors, x # e PROVE Going(x)'
  BY DEF ExecInv
<1>1. Going(x)
  BY DEF ExecInv
<1> QED BY <1>1, GoingElsewhere

LEMMA ExecBegins ==
  ASSUME PruneInv, ExecInv, Monotone, NEW e \in Executors, NEW p \in Plans, Execute(e, p)
  PROVE  ExecInv'
<1>1. /\ stage[e] = "idle" /\ stage' = [stage EXCEPT ![e] = "recover"] /\ plan' = [plan EXCEPT ![e] = p]
      /\ UNCHANGED <<target, at, tally, result>>
  BY DEF Execute, GoTo, planVars
<1>2. stage \in [Executors -> Stages] /\ plan \in [Executors -> Plans \union {None}]
  BY DEF PruneInv, PlanTypes
<1>3. ExecTypes'
  BY <1>1 DEF ExecInv, ExecTypes
<1>4. Going(e)'
  BY <1>1, <1>2 DEF ExecInv, Going, Ahead, Working
<1>5. ASSUME NEW x \in Executors, x # e PROVE Going(x)'
  <2>1. Going(x) /\ stage'[x] = stage[x] /\ plan'[x] = plan[x]
    BY <1>1, <1>2, <1>5 DEF ExecInv
  <2> QED BY <1>1, <2>1, GoingElsewhere
<1> QED BY <1>3, <1>4, <1>5 DEF ExecInv

\* Up to its claim an execution has counted nothing.
LEMMA ExecPrepares ==
  ASSUME PruneInv, ExecInv, Monotone, NEW e \in Executors,
         RecoverAbandonedRun(e) \/ Load(e) \/ VerifyAttested(e) \/ SpendEvidence(e)
  PROVE  ExecInv'
<1>1. /\ stage[e] \in Ahead /\ UNCHANGED <<target, plan, at, tally, result>>
      /\ \E s \in Ahead \union {"done"} : stage' = [stage EXCEPT ![e] = s]
  BY DEF RecoverAbandonedRun, Load, VerifyAttested, SpendEvidence, GoTo, planVars, Ahead
<1>2. stage \in [Executors -> Stages]
  BY DEF PruneInv, PlanTypes
<1>3. ExecTypes'
  BY <1>1 DEF ExecInv, ExecTypes
<1>4. Going(e)'
  BY <1>1, <1>2 DEF ExecInv, Going, Ahead, Working
<1>5. \A x \in Executors : x # e => stage'[x] = stage[x]
  BY <1>1, <1>2
<1> QED BY <1>1, <1>3, <1>4, <1>5, ExecMoves

LEMMA ExecClaims ==
  ASSUME PruneInv, ExecInv, Monotone, NEW e \in Executors, ClaimPlan(e)
  PROVE  ExecInv'
<1>1. /\ stage[e] = "claim" /\ UNCHANGED <<target, plan, at, tally, result>>
      /\ \/ stage' = [stage EXCEPT ![e] = "finish"] /\ Targets(plan[e]) = {}
         \/ stage' = [stage EXCEPT ![e] = "heartbeat"]
         \/ stage' = [stage EXCEPT ![e] = "done"]
  BY DEF ClaimPlan, GoTo
<1>2. stage \in [Executors -> Stages]
  BY DEF PruneInv, PlanTypes
<1>3. ExecTypes'
  BY <1>1 DEF ExecInv, ExecTypes
<1>4. at[e] = 1 /\ \A o \in Outcomes : tally[e][o] = 0
  BY <1>1 DEF ExecInv, Going, Ahead
<1>5. Targets(plan[e])' = Targets(plan[e]) /\ Done(e)' = {} /\ NumRecords >= 1
  <2>1. Targets(plan[e])' = Targets(plan[e])
    BY <1>1 DEF Targets
  <2>2. Targets(plan[e]) \subseteq Records
    BY TargetsAreFew
  <2> QED BY <1>1, <1>4, <2>1, <2>2, PruneAssumption DEF Done, Records
<1>6. Accounted(e)'
  <2>1. Cardinality(Done(e)') = 0
    BY <1>5, FS_EmptySet
  <2>2. /\ tally'[e]["completed"] = 0 /\ tally'[e]["no_op"] = 0 /\ tally'[e]["failed"] = 0
    BY <1>1, <1>4 DEF Outcomes
  <2>3. Gone(Done(e))'
    BY <1>5 DEF Gone
  <2> QED BY <2>1, <2>2, <2>3 DEF Accounted
<1>7. Going(e)'
  BY <1>1, <1>2, <1>4, <1>5, <1>6, PruneAssumption DEF Going, Ahead, Working
<1>8. \A x \in Executors : x # e => stage'[x] = stage[x]
  BY <1>1, <1>2
<1> QED BY <1>1, <1>3, <1>7, <1>8, ExecMoves

LEMMA ExecSkips ==
  ASSUME PruneInv, ExecInv, Monotone, NEW e \in Executors, SkipRecord(e)
  PROVE  ExecInv'
<1>1. /\ stage[e] = "heartbeat" /\ at[e] \notin Targets(plan[e])
      /\ at' = [at EXCEPT ![e] = at[e] + 1]
      /\ stage' = [stage EXCEPT ![e] = IF at[e] = NumRecords THEN "finish" ELSE "heartbeat"]
      /\ UNCHANGED <<record, target, plan, tally, result>>
  BY DEF SkipRecord, GoTo, planVars
<1>2. /\ stage \in [Executors -> Stages] /\ at \in [Executors -> 1..(NumRecords + 1)]
      /\ at[e] <= NumRecords /\ Accounted(e) /\ NumRecords \in Nat
  BY <1>1, PruneAssumption DEF PruneInv, PlanTypes, ExecInv, ExecTypes, Going, Working
<1>3. ExecTypes'
  <2>1. at' \in [Executors -> 1..(NumRecords + 1)]
    BY <1>1, <1>2
  <2> QED BY <1>1, <2>1 DEF ExecInv, ExecTypes
<1>4. Targets(plan[e])' = Targets(plan[e]) /\ Targets(plan[e]) \subseteq 1..NumRecords
  BY <1>1, TargetsAreFew DEF Targets, Records
<1>5. Done(e)' = Done(e)
  BY <1>1, <1>2, <1>4 DEF Done
<1>6. Accounted(e)'
  BY <1>1, <1>2, <1>5 DEF Accounted, Gone
<1>7. Going(e)'
  BY <1>1, <1>2, <1>4, <1>6 DEF Going, Ahead, Working
<1>8. \A x \in Executors : x # e => stage'[x] = stage[x] /\ at'[x] = at[x]
  BY <1>1, <1>2
<1> QED BY <1>1, <1>3, <1>7, <1>8, ExecMoves

\* An execution is at a target: it has one, and the target is a record.
LEMMA AtTarget ==
  ASSUME PruneInv, ExecInv, NEW e \in Executors,
         \/ stage[e] \in {"target", "delete", "mark"}
         \/ stage[e] = "heartbeat" /\ at[e] \in Targets(plan[e])
  PROVE  /\ Accounted(e) /\ at[e] \in Targets(plan[e]) /\ at[e] \in Records
         /\ plan[e] \in Plans /\ status[plan[e]] # "none"
<1>1. Accounted(e) /\ at[e] \in Targets(plan[e])
  BY DEF ExecInv, Going, Working
<1>2. plan[e] \in Plans /\ status[plan[e]] # "none"
  BY DEF PruneInv, PlanKnown, Bound, Stages
<1> QED BY <1>1, <1>2, TargetsAreFew

\* It counts the record and takes the next one.
LEMMA ExecCounts ==
  ASSUME PruneInv, ExecInv, Monotone, NEW e \in Executors, NEW o \in Outcomes,
         Count(e, o), UNCHANGED plan,
         \/ stage[e] \in {"target", "delete", "mark"}
         \/ stage[e] = "heartbeat" /\ at[e] \in Targets(plan[e]),
         o # "failed" => record[at[e]] = "absent",
         target' \in [Plans -> [Records -> TargetStatuses]],
         result' = [x \in Executors |-> result'[x]],
         \A x \in Executors : x # e => result'[x] = result[x]
  PROVE  ExecInv'
<1>1. /\ Accounted(e) /\ at[e] \in Targets(plan[e]) /\ at[e] \in Records
      /\ plan[e] \in Plans /\ status[plan[e]] # "none"
  BY AtTarget
<1>2. ExecTypes
  BY DEF ExecInv
<1>3. /\ Accounted(e)' /\ at'[e] = at[e] + 1
      /\ stage' = [stage EXCEPT ![e] = IF at[e] = NumRecords THEN "finish" ELSE "heartbeat"]
      /\ tally' \in [Executors -> [Outcomes -> Nat]]
      /\ \A x \in Executors : x # e => tally'[x] = tally[x] /\ at'[x] = at[x]
  BY <1>1, <1>2, CountAccounts
<1>4. stage \in [Executors -> Stages] /\ NumRecords \in Nat /\ at[e] \in 1..NumRecords
  BY <1>1, PruneAssumption DEF PruneInv, PlanTypes, Records
<1>5. at' \in [Executors -> 1..(NumRecords + 1)]
  <2>1. at' = [at EXCEPT ![e] = at[e] + 1] /\ at \in [Executors -> 1..(NumRecords + 1)]
    BY <1>2 DEF Count, ExecTypes
  <2> QED BY <1>4, <2>1
<1>6. ExecTypes'
  BY <1>3, <1>5 DEF ExecTypes
<1>7. Going(e)'
  <2>1. stage'[e] = IF at[e] = NumRecords THEN "finish" ELSE "heartbeat"
    BY <1>3, <1>4
  <2>2. CASE at[e] = NumRecords
    BY <1>3, <2>1, <2>2 DEF Going, Ahead, Working
  <2>3. CASE at[e] # NumRecords
    <3>1. at'[e] = at[e] + 1
      BY <1>3
    <3>2. at'[e] <= NumRecords
      BY <1>4, <2>3, <3>1
    <3> QED BY <1>3, <2>1, <2>3, <3>2 DEF Going, Ahead, Working
  <2> QED BY <2>2, <2>3
<1>8. \A x \in Executors : x # e => stage'[x] = stage[x]
  BY <1>3, <1>4
<1> QED BY <1>3, <1>6, <1>7, <1>8, ExecMoves

LEMMA ExecHeartbeat ==
  ASSUME PruneInv, ExecInv, Monotone, NEW e \in Executors, HeartbeatRun(e)
  PROVE  ExecInv'
<1>1. /\ stage[e] = "heartbeat" /\ at[e] \in Targets(plan[e])
      /\ UNCHANGED <<record, target, plan, result>>
      /\ \/ Count(e, "failed")
         \/ stage' = [stage EXCEPT ![e] = "target"] /\ UNCHANGED <<at, tally>>
  BY DEF HeartbeatRun, GoTo
<1>2. CASE Count(e, "failed")
  <2>1. ExecTypes
    BY DEF ExecInv
  <2>2. target' \in [Plans -> [Records -> TargetStatuses]] /\ result' = [x \in Executors |-> result'[x]]
    BY <1>1, <2>1 DEF ExecTypes
  <2>3. "failed" \in Outcomes
    BY DEF Outcomes
  <2> QED BY <1>1, <1>2, <2>2, <2>3, ExecCounts
<1>3. CASE stage' = [stage EXCEPT ![e] = "target"] /\ UNCHANGED <<at, tally>>
  <2>1. stage \in [Executors -> Stages] /\ Going(e)
    BY DEF PruneInv, PlanTypes, ExecInv
  <2>2. ExecTypes'
    BY <1>1, <1>3 DEF ExecInv, ExecTypes
  <2>3. Targets(plan[e])' = Targets(plan[e])
    BY <1>1 DEF Targets
  <2>4. Accounted(e)'
    BY <1>1, <1>3, <2>1, <2>3 DEF Going, Working, Accounted, Gone, Done
  <2>5. Going(e)'
    BY <1>1, <1>3, <2>1, <2>3, <2>4 DEF Going, Ahead, Working
  <2>6. \A x \in Executors : x # e => stage'[x] = stage[x]
    BY <1>3, <2>1
  <2> QED BY <1>1, <1>3, <2>2, <2>5, <2>6, ExecMoves
<1> QED BY <1>1, <1>2, <1>3

LEMMA ExecClaimsTarget ==
  ASSUME PruneInv, ExecInv, Monotone, NEW e \in Executors, ClaimTarget(e)
  PROVE  ExecInv'
<1>1. /\ stage[e] = "target" /\ UNCHANGED <<record, plan, result>>
      /\ \/ Count(e, "failed") /\ UNCHANGED target
         \/ /\ target' = [target EXCEPT ![plan[e]] = [target[plan[e]] EXCEPT ![at[e]] = "running"]]
            /\ stage' = [stage EXCEPT ![e] = "delete"] /\ UNCHANGED <<at, tally>>
  BY DEF ClaimTarget, GoTo
<1>2. /\ Accounted(e) /\ at[e] \in Targets(plan[e]) /\ at[e] \in Records
      /\ plan[e] \in Plans /\ status[plan[e]] # "none"
  BY <1>1, AtTarget
<1>3. CASE Count(e, "failed") /\ UNCHANGED target
  <2>1. ExecTypes
    BY DEF ExecInv
  <2>2. target' \in [Plans -> [Records -> TargetStatuses]] /\ result' = [x \in Executors |-> result'[x]]
    BY <1>1, <1>3, <2>1 DEF ExecTypes
  <2>3. "failed" \in Outcomes
    BY DEF Outcomes
  <2> QED BY <1>1, <1>3, <2>2, <2>3, ExecCounts
<1>4. CASE /\ target' = [target EXCEPT ![plan[e]] = [target[plan[e]] EXCEPT ![at[e]] = "running"]]
           /\ stage' = [stage EXCEPT ![e] = "delete"] /\ UNCHANGED <<at, tally>>
  <2>1. stage \in [Executors -> Stages] /\ Going(e) /\ ExecTypes
    BY DEF PruneInv, PlanTypes, ExecInv
  <2>2. target' \in [Plans -> [Records -> TargetStatuses]]
    BY <1>2, <1>4, <2>1 DEF ExecTypes, TargetStatuses
  <2>3. ExecTypes'
    BY <1>1, <1>4, <2>1, <2>2 DEF ExecTypes
  <2>4. Targets(plan[e])' = Targets(plan[e])
    BY <1>1, <1>2 DEF Monotone, Targets
  <2>5. Accounted(e)'
    BY <1>1, <1>2, <1>4, <2>4 DEF Accounted, Gone, Done
  <2>6. Going(e)'
    BY <1>1, <1>2, <1>4, <2>1, <2>4, <2>5 DEF Going, Ahead, Working
  <2>7. \A x \in Executors : x # e => stage'[x] = stage[x]
    BY <1>4, <2>1
  <2> QED BY <1>1, <1>4, <2>3, <2>6, <2>7, ExecMoves
<1> QED BY <1>1, <1>3, <1>4

LEMMA ExecDeletes ==
  ASSUME PruneInv, ExecInv, Monotone, NEW e \in Executors, DeleteTarget(e)
  PROVE  ExecInv'
<1>1. /\ stage[e] = "delete" /\ UNCHANGED <<target, plan, at, tally>>
      /\ stage' = [stage EXCEPT ![e] = "mark"]
      /\ \/ /\ record' = [record EXCEPT ![at[e]] = "absent"]
            /\ result' = [result EXCEPT ![e] = "completed"]
         \/ record[at[e]] = "absent" /\ UNCHANGED record /\ result' = [result EXCEPT ![e] = "no_op"]
         \/ UNCHANGED record /\ result' = [result EXCEPT ![e] = "failed"]
  BY DEF DeleteTarget, GoTo, planVars
<1>2. /\ Accounted(e) /\ at[e] \in Targets(plan[e]) /\ at[e] \in Records
      /\ plan[e] \in Plans /\ status[plan[e]] # "none"
  BY <1>1, AtTarget
<1>3. /\ stage \in [Executors -> Stages] /\ record \in [Records -> Texts] /\ ExecTypes
  BY DEF PruneInv, PlanTypes, ExecInv
<1>4. result' = [x \in Executors |-> result'[x]] /\ \A x \in Executors : x # e => result'[x] = result[x]
  <2>1. result = [x \in Executors |-> result[x]]
    BY <1>3 DEF ExecTypes
  <2> QED BY <1>1, <2>1
<1>5. result'[e] \in Outcomes /\ (result'[e] # "failed" => record'[at[e]] = "absent")
  <2>1. result = [x \in Executors |-> result[x]]
    BY <1>3 DEF ExecTypes
  <2> QED BY <1>1, <1>2, <1>3, <2>1 DEF Outcomes
<1>6. ExecTypes'
  BY <1>1, <1>3, <1>4 DEF ExecTypes
<1>7. Targets(plan[e])' = Targets(plan[e]) /\ Targets(plan[e]) \subseteq Records
  BY <1>1, TargetsAreFew DEF Targets
<1>8. Accounted(e)'
  <2>1. Done(e)' = Done(e) /\ Done(e) \subseteq Records
    BY <1>1, <1>7 DEF Done
  <2> QED BY <1>1, <1>2, <2>1 DEF Accounted, Gone, Monotone
<1>9. Going(e)'
  BY <1>1, <1>2, <1>3, <1>5, <1>7, <1>8 DEF Going, Ahead, Working
<1>10. \A x \in Executors : x # e => stage'[x] = stage[x]
  BY <1>1, <1>3
<1> QED BY <1>1, <1>4, <1>6, <1>9, <1>10, ExecMoves

LEMMA ExecMarks ==
  ASSUME PruneInv, ExecInv, Monotone, NEW e \in Executors, MarkTarget(e)
  PROVE  ExecInv'
<1>1. /\ stage[e] = "mark" /\ UNCHANGED <<record, plan>> /\ result' = [result EXCEPT ![e] = ""]
      /\ \/ /\ target' = [target EXCEPT ![plan[e]] = [target[plan[e]] EXCEPT ![at[e]] = result[e]]]
            /\ Count(e, result[e])
         \/ Count(e, "failed") /\ UNCHANGED target
  BY DEF MarkTarget
<1>2. at[e] \in Records /\ plan[e] \in Plans
  BY <1>1, AtTarget
<1>3. result[e] \in Outcomes /\ (result[e] # "failed" => record[at[e]] = "absent")
  BY <1>1 DEF ExecInv, Going
<1>4. ExecTypes
  BY DEF ExecInv
<1>5. target' \in [Plans -> [Records -> TargetStatuses]]
  <2>1. result[e] \in TargetStatuses /\ target \in [Plans -> [Records -> TargetStatuses]]
    BY <1>3, <1>4 DEF ExecTypes, TargetStatuses, Outcomes
  <2>2. \/ target' = [target EXCEPT ![plan[e]] = [target[plan[e]] EXCEPT ![at[e]] = result[e]]]
        \/ target' = target
    BY <1>1
  <2> QED BY <1>2, <2>1, <2>2
<1>6. result' = [x \in Executors |-> result'[x]] /\ \A x \in Executors : x # e => result'[x] = result[x]
  <2>1. result = [x \in Executors |-> result[x]]
    BY <1>4 DEF ExecTypes
  <2> QED BY <1>1, <2>1
<1>7. "failed" \in Outcomes
  BY DEF Outcomes
<1>8. CASE Count(e, result[e])
  BY <1>1, <1>3, <1>5, <1>6, <1>8, ExecCounts
<1>9. CASE Count(e, "failed")
  BY <1>1, <1>5, <1>6, <1>7, <1>9, ExecCounts
<1> QED BY <1>1, <1>8, <1>9

\* What a run reports of itself is what its count tells.
LEMMA ExecFinishes ==
  ASSUME PruneInv, ExecInv, Monotone, NEW e \in Executors, FinishRun(e)
  PROVE  ExecInv'
<1>1. /\ stage[e] = "finish" /\ stage' = [stage EXCEPT ![e] = "report"]
      /\ UNCHANGED <<record, target, plan, at, tally>>
      /\ \/ result' = [result EXCEPT ![e] = AuditPruneRunStatus(e, plan[e])]
         \/ result' = [result EXCEPT ![e] = "error"]
  BY DEF FinishRun, GoTo
<1>2. stage \in [Executors -> Stages] /\ result = [x \in Executors |-> result[x]]
  BY DEF PruneInv, PlanTypes, ExecInv, ExecTypes
<1>3. result' = [x \in Executors |-> result'[x]] /\ \A x \in Executors : x # e => result'[x] = result[x]
  BY <1>1, <1>2
<1>4. ExecTypes'
  BY <1>1, <1>3 DEF ExecInv, ExecTypes
<1>5. Targets(plan[e])' = Targets(plan[e]) /\ Targets(plan[e]) \subseteq 1..NumRecords
  BY <1>1, TargetsAreFew DEF Targets, Records
<1>6. Done(e) = Targets(plan[e])
  <2>1. at[e] = NumRecords + 1 \/ Targets(plan[e]) = {}
    BY <1>1 DEF ExecInv, Going
  <2> QED BY <1>5, <2>1, PruneAssumption DEF Done
<1>7. ASSUME result'[e] \in {"completed", "no_op"} PROVE Gone(Targets(plan[e]))'
  <2>1. AuditPruneRunStatus(e, plan[e]) \in {"completed", "no_op"}
    BY <1>1, <1>2, <1>7
  <2>2. /\ tally[e]["completed"] + tally[e]["no_op"] + tally[e]["failed"] = Cardinality(Targets(plan[e]))
        /\ tally[e]["failed"] = 0 => Gone(Targets(plan[e]))
    BY <1>1, <1>6 DEF ExecInv, Going, Working, Accounted
  <2>3. /\ tally[e]["completed"] \in Nat /\ tally[e]["no_op"] \in Nat /\ tally[e]["failed"] \in Nat
    BY DEF ExecInv, ExecTypes, Outcomes
  <2>4. tally[e]["failed"] = 0
    <3>1. CASE tally[e]["no_op"] = Cardinality(Targets(plan[e]))
      BY <2>2, <2>3, <3>1
    <3>2. CASE tally[e]["no_op"] # Cardinality(Targets(plan[e]))
      BY <2>1, <2>3, <3>2 DEF AuditPruneRunStatus
    <3> QED BY <3>1, <3>2
  <2> QED BY <1>1, <1>5, <2>2, <2>4 DEF Gone
<1>8. Going(e)'
  BY <1>1, <1>2, <1>7 DEF Going, Ahead, Working
<1>9. \A x \in Executors : x # e => stage'[x] = stage[x]
  BY <1>1, <1>2
<1> QED BY <1>1, <1>3, <1>4, <1>8, <1>9, ExecMoves

LEMMA ExecReports ==
  ASSUME PruneInv, ExecInv, Monotone, NEW e \in Executors, FinishRetentionPlan(e)
  PROVE  ExecInv'
<1>1. /\ stage' = [stage EXCEPT ![e] = "done"] /\ UNCHANGED <<target, plan>>
      /\ at' = [at EXCEPT ![e] = 1] /\ result' = [result EXCEPT ![e] = ""]
      /\ tally' = [tally EXCEPT ![e] = [o \in Outcomes |-> 0]]
  BY DEF FinishRetentionPlan, GoTo, planVars
<1>2. stage \in [Executors -> Stages] /\ ExecTypes
  BY DEF PruneInv, PlanTypes, ExecInv
<1>3. ExecTypes'
  <2>1. 1 \in 1..(NumRecords + 1)
    BY PruneAssumption
  <2> QED BY <1>1, <1>2, <2>1 DEF ExecTypes
<1>4. Going(e)'
  BY <1>1, <1>2 DEF Going, Ahead, Working
<1>5. \A x \in Executors : x # e =>
        stage'[x] = stage[x] /\ at'[x] = at[x] /\ tally'[x] = tally[x] /\ result'[x] = result[x]
  BY <1>1, <1>2 DEF ExecTypes
<1> QED BY <1>1, <1>3, <1>4, <1>5, ExecMoves

\* What others do changes nothing of an execution.
LEMMA ExecElsewhere ==
  ASSUME PruneInv, ExecInv, Monotone, target' \in [Plans -> [Records -> TargetStatuses]],
         UNCHANGED <<stage, plan, at, tally, result>>
  PROVE  ExecInv'
<1>1. ExecTypes'
  BY DEF ExecInv, ExecTypes
<1>2. ASSUME NEW x \in Executors PROVE Going(x)'
  BY GoingElsewhere DEF ExecInv
<1> QED BY <1>1, <1>2 DEF ExecInv

-----------------------------------------------------------------------------
(* One execution of a plan. *)

Late == {"target", "delete"}

Sole == \A e \in Executors : stage[e] \in Working =>
          execution[plan[e]] = e /\ status[plan[e]] \notin {"none", "planned"}

\* A record deleted after the run was closed is the last one of its plan.
LastOne == \A p \in Plans : late[p] = 0 \/
             /\ late[p] = 1 /\ status[p] \in Closed
             /\ \A e \in Executors : plan[e] = p => stage[e] \notin Late

OnceInv ==
  /\ execution = [p \in Plans |-> execution[p]] /\ late \in [Plans -> Nat]
  /\ Sole /\ LastOne

LEMMA OnceFirst == Init => OnceInv
<1> SUFFICES ASSUME Init PROVE OnceInv
  OBVIOUS
<1>1. execution = [p \in Plans |-> execution[p]] /\ late \in [Plans -> Nat]
  BY DEF Init
<1>2. Sole /\ LastOne
  BY DEF Init, Sole, LastOne, Working
<1> QED BY <1>1, <1>2 DEF OnceInv

\* An execution goes on, and no plan is opened again.
LEMMA OnceKept ==
  ASSUME PruneInv, OnceInv, NEW e \in Executors, NEW s \in Stages,
         stage' = [stage EXCEPT ![e] = s], UNCHANGED <<execution, plan, late>>,
         s \in Working => stage[e] \in Working,
         s \in Late => stage[e] \in Late \/ status[plan[e]] = "running",
         \A p \in Plans : /\ status[p] \notin {"none", "planned"} => status'[p] \notin {"none", "planned"}
                          /\ status[p] \in Closed => status'[p] \in Closed
  PROVE  OnceInv'
<1>1. stage \in [Executors -> Stages]
  BY DEF PruneInv, PlanTypes
<1>2. \A x \in Executors : stage[x] \in Working => plan[x] \in Plans
  BY DEF PruneInv, PlanKnown, Bound, Working, Stages
<1>3. Sole'
  BY <1>1, <1>2 DEF OnceInv, Sole, Working
<1>4. LastOne'
  <2> SUFFICES ASSUME NEW p \in Plans, late[p] # 0
               PROVE  /\ late[p] = 1 /\ status'[p] \in Closed
                      /\ \A x \in Executors : plan[x] = p => stage'[x] \notin Late
    BY DEF LastOne
  <2>1. /\ late[p] = 1 /\ status[p] \in Closed
        /\ \A x \in Executors : plan[x] = p => stage[x] \notin Late
    BY DEF OnceInv, LastOne
  <2>2. status[p] # "running"
    BY <2>1 DEF Closed
  <2> QED BY <1>1, <2>1, <2>2
<1> QED BY <1>3, <1>4 DEF OnceInv

LEMMA OnceGoes ==
  ASSUME PruneInv, OnceInv, NEW e \in Executors,
         \/ RecoverAbandonedRun(e) \/ Load(e) \/ VerifyAttested(e) \/ SpendEvidence(e)
         \/ SkipRecord(e) \/ HeartbeatRun(e) \/ ClaimTarget(e) \/ MarkTarget(e)
         \/ FinishRun(e) \/ FinishRetentionPlan(e)
  PROVE  OnceInv'
<1>1. UNCHANGED <<execution, plan, late>>
  BY DEF RecoverAbandonedRun, Load, VerifyAttested, SpendEvidence, SkipRecord, HeartbeatRun,
         ClaimTarget, MarkTarget, FinishRun, FinishRetentionPlan, planVars, historyVars
<1>2. \E s \in Stages :
        /\ stage' = [stage EXCEPT ![e] = s]
        /\ s \in Working => stage[e] \in Working
        /\ s \in Late => stage[e] \in Late \/ status[plan[e]] = "running"
  BY DEF RecoverAbandonedRun, Load, VerifyAttested, SpendEvidence, SkipRecord, HeartbeatRun,
         ClaimTarget, MarkTarget, FinishRun, FinishRetentionPlan, Count, GoTo,
         HeartbeatMatches, Stages, Working, Late
<1>3. \A p \in Plans : /\ status[p] \notin {"none", "planned"} => status'[p] \notin {"none", "planned"}
                       /\ status[p] \in Closed => status'[p] \in Closed
  <2>1. status \in [Plans -> PlanStatuses]
    BY DEF PruneInv, PlanTypes
  <2>2. CASE RecoverAbandonedRun(e)
    BY <2>1, <2>2 DEF RecoverAbandonedRun, Closed
  <2>3. CASE FinishRun(e)
    <3>1. AuditPruneRunStatus(e, plan[e]) \in Closed
      BY DEF AuditPruneRunStatus, Closed
    <3> QED BY <2>1, <2>3, <3>1 DEF FinishRun, Closed
  <2>4. CASE \/ Load(e) \/ VerifyAttested(e) \/ SpendEvidence(e) \/ SkipRecord(e)
             \/ HeartbeatRun(e) \/ ClaimTarget(e) \/ MarkTarget(e) \/ FinishRetentionPlan(e)
    <3>1. status' = status
      BY <2>4 DEF Load, VerifyAttested, SpendEvidence, SkipRecord, HeartbeatRun, ClaimTarget,
                  MarkTarget, FinishRetentionPlan, planVars
    <3> QED BY <3>1
  <2> QED BY <2>2, <2>3, <2>4
<1> QED BY <1>1, <1>2, <1>3, OnceKept

LEMMA OnceBegins ==
  ASSUME PruneInv, OnceInv, NEW e \in Executors, NEW p \in Plans, Execute(e, p)
  PROVE  OnceInv'
<1>1. /\ stage' = [stage EXCEPT ![e] = "recover"] /\ plan' = [plan EXCEPT ![e] = p]
      /\ UNCHANGED <<status, execution, late>>
  BY DEF Execute, GoTo, planVars, historyVars
<1>2. stage \in [Executors -> Stages] /\ plan \in [Executors -> Plans \union {None}]
  BY DEF PruneInv, PlanTypes
<1>3. Sole'
  BY <1>1, <1>2 DEF OnceInv, Sole, Working
<1>4. LastOne'
  BY <1>1, <1>2 DEF OnceInv, LastOne, Late
<1> QED BY <1>1, <1>3, <1>4 DEF OnceInv

\* The claim finds nobody at work on the plan.
LEMMA OnceClaims == ASSUME PruneInv, OnceInv, NEW e \in Executors, ClaimPlan(e) PROVE OnceInv'
<1>1. /\ stage[e] = "claim" /\ UNCHANGED <<plan, late>>
      /\ \/ /\ status[plan[e]] = "planned" /\ status' = [status EXCEPT ![plan[e]] = "running"]
            /\ execution' = [execution EXCEPT ![plan[e]] = e]
            /\ \E s \in {"finish", "heartbeat"} : stage' = [stage EXCEPT ![e] = s]
         \/ stage' = [stage EXCEPT ![e] = "done"] /\ UNCHANGED <<status, execution>>
  BY DEF ClaimPlan, ClaimablePlan, GoTo, historyVars
<1>2. /\ stage \in [Executors -> Stages] /\ status \in [Plans -> PlanStatuses]
      /\ execution = [p \in Plans |-> execution[p]] /\ plan[e] \in Plans
      /\ \A x \in Executors : stage[x] \in Working => plan[x] \in Plans
  BY <1>1 DEF PruneInv, PlanTypes, OnceInv, PlanKnown, Bound, Stages, Working
<1>3. execution' = [p \in Plans |-> execution'[p]]
  BY <1>1, <1>2
<1>4. Sole'
  BY <1>1, <1>2 DEF OnceInv, Sole, Working
<1>5. LastOne'
  BY <1>1, <1>2 DEF OnceInv, LastOne, Late, Closed
<1> QED BY <1>1, <1>3, <1>4, <1>5 DEF OnceInv

\* Nobody else is about to delete a record of the plan.
LEMMA OnceDeletes == ASSUME PruneInv, OnceInv, NEW e \in Executors, DeleteTarget(e) PROVE OnceInv'
<1>1. /\ stage[e] = "delete" /\ stage' = [stage EXCEPT ![e] = "mark"]
      /\ UNCHANGED <<status, execution, plan>>
      /\ \/ late' = late
         \/ status[plan[e]] # "running" /\ late' = [late EXCEPT ![plan[e]] = late[plan[e]] + 1]
  BY DEF DeleteTarget, GoTo, planVars, OnceInv
<1>2. /\ stage \in [Executors -> Stages] /\ late \in [Plans -> Nat] /\ plan[e] \in Plans
      /\ status[plan[e]] \in PlanStatuses /\ status[plan[e]] \notin {"none", "planned"}
      /\ \A x \in Executors : stage[x] \in Late => execution[plan[x]] = x
  BY <1>1 DEF PruneInv, PlanTypes, OnceInv, PlanKnown, Bound, Stages, Working, Sole, Late
<1>3. late[plan[e]] = 0
  BY <1>1, <1>2 DEF OnceInv, LastOne, Late
<1>4. late' \in [Plans -> Nat]
  BY <1>1, <1>2
<1>5. Sole'
  BY <1>1, <1>2 DEF OnceInv, Sole, Working
<1>6. LastOne'
  <2>1. CASE late' = late
    BY <1>1, <1>2, <2>1 DEF OnceInv, LastOne, Late
  <2>2. CASE status[plan[e]] # "running" /\ late' = [late EXCEPT ![plan[e]] = late[plan[e]] + 1]
    <3>1. late' = [late EXCEPT ![plan[e]] = 1]
      BY <1>3, <2>2
    <3>2. status[plan[e]] \in Closed
      BY <1>2, <2>2 DEF PlanStatuses, Closed
    <3>3. \A x \in Executors : plan[x] = plan[e] => stage'[x] \notin Late
      BY <1>1, <1>2 DEF Late
    <3>4. \A p \in Plans : p # plan[e] => late'[p] = late[p]
      BY <1>2, <3>1
    <3>5. \A x \in Executors : stage'[x] \in Late => stage[x] \in Late
      BY <1>1, <1>2 DEF Late
    <3> QED BY <1>1, <1>2, <3>1, <3>2, <3>3, <3>4, <3>5 DEF OnceInv, LastOne
  <2> QED BY <1>1, <2>1, <2>2
<1> QED BY <1>1, <1>4, <1>5, <1>6 DEF OnceInv

\* Plans are drawn up, and others act.
LEMMA OnceElsewhere ==
  ASSUME PruneInv, OnceInv, UNCHANGED <<execution, stage, plan, late>>,
         \A p \in Plans : status'[p] = status[p] \/ status[p] = "none"
  PROVE  OnceInv'
<1>1. \A x \in Executors : stage[x] \in Working => plan[x] \in Plans
  BY DEF PruneInv, PlanKnown, Bound, Working, Stages
<1>2. Sole'
  BY <1>1 DEF OnceInv, Sole
<1>3. LastOne'
  BY DEF OnceInv, LastOne, Closed
<1> QED BY <1>2, <1>3 DEF OnceInv

-----------------------------------------------------------------------------
(* Every step. *)

Honest == run = "completed" =>
  runPlan \in Plans /\ status[runPlan] # "none" /\ Gone(Targets(runPlan))

AuditInv == PruneInv /\ ExecInv /\ OnceInv /\ Honest

LEMMA HonestKept ==
  ASSUME Honest, Monotone, run' = "completed" => run = "completed" /\ runPlan' = runPlan
  PROVE  Honest'
<1> SUFFICES ASSUME run' = "completed"
             PROVE  runPlan' \in Plans /\ status'[runPlan'] # "none" /\ Gone(Targets(runPlan))'
  BY DEF Honest
<1>1. runPlan' = runPlan /\ runPlan \in Plans /\ status[runPlan] # "none" /\ Gone(Targets(runPlan))
  BY DEF Honest
<1>2. Targets(runPlan)' = Targets(runPlan) /\ Targets(runPlan) \subseteq Records
  BY <1>1 DEF Monotone, Targets
<1> QED BY <1>1, <1>2 DEF Monotone, Gone

LEMMA MonotoneWork ==
  ASSUME PruneInv, ExecInv, NEW e \in Executors, Execution(e)
  PROVE  Monotone
<1>1. \A r \in Records : record[r] = "absent" => record'[r] = "absent"
  <2>1. CASE DeleteTarget(e)
    <3>1. record \in [Records -> Texts] /\ (record' = record \/ record' = [record EXCEPT ![at[e]] = "absent"])
      BY <2>1 DEF PruneInv, PlanTypes, DeleteTarget
    <3> QED BY <3>1
  <2>2. CASE ~ DeleteTarget(e)
    <3>1. record' = record
      BY <2>2 DEF Execution, Execute, RecoverAbandonedRun, Load, VerifyAttested, SpendEvidence,
                  ClaimPlan, SkipRecord, HeartbeatRun, ClaimTarget, MarkTarget, FinishRun,
                  FinishRetentionPlan
    <3> QED BY <3>1
  <2> QED BY <2>1, <2>2
<1>2. \A p \in Plans : status[p] # "none" => status'[p] # "none"
  <2>1. CASE \E p \in Plans : Execute(e, p)
    BY <2>1 DEF Execute, planVars
  <2>2. CASE VerifyAttested(e) \/ DeleteTarget(e)
    BY <2>2 DEF VerifyAttested, DeleteTarget, planVars
  <2> QED BY <2>1, <2>2, StatusKept DEF Execution
<1>3. \A p \in Plans : Targets(p)' = Targets(p)
  <2>1. target \in [Plans -> [Records -> TargetStatuses]]
    BY DEF ExecInv, ExecTypes
  <2>2. CASE ClaimTarget(e) \/ MarkTarget(e)
    <3>1. /\ at[e] \in Targets(plan[e]) /\ at[e] \in Records /\ plan[e] \in Plans
      BY <2>2, AtTarget DEF ClaimTarget, MarkTarget
    <3>2. stage[e] = "mark" => result[e] \in Outcomes
      BY DEF ExecInv, Going
    <3>3. \/ target' = target
          \/ \E v \in TargetStatuses \ {"none"} :
               target' = [target EXCEPT ![plan[e]] = [target[plan[e]] EXCEPT ![at[e]] = v]]
      BY <2>2, <3>2 DEF ClaimTarget, MarkTarget, TargetStatuses, Outcomes
    <3>4. target[plan[e]][at[e]] # "none"
      BY <3>1 DEF Targets
    <3>5. ASSUME NEW p \in Plans, NEW r \in Records
          PROVE  target'[p][r] # "none" <=> target[p][r] # "none"
      <4>1. CASE target' = target
        BY <4>1
      <4>2. CASE target' # target
        <5>1. PICK v \in TargetStatuses \ {"none"} :
                target' = [target EXCEPT ![plan[e]] = [target[plan[e]] EXCEPT ![at[e]] = v]]
          BY <3>3, <4>2
        <5>2. v # "none"
          BY <5>1
        <5>3. CASE p = plan[e] /\ r = at[e]
          BY <2>1, <3>1, <3>4, <5>1, <5>2, <5>3
        <5>4. CASE p # plan[e] \/ r # at[e]
          BY <2>1, <3>1, <5>1, <5>4
        <5> QED BY <5>3, <5>4
      <4> QED BY <4>1, <4>2
    <3> QED BY <3>5 DEF Targets
  <2>3. CASE ~ ClaimTarget(e) /\ ~ MarkTarget(e)
    <3>1. target' = target
      BY <2>3 DEF Execution, Execute, RecoverAbandonedRun, Load, VerifyAttested, SpendEvidence,
                  ClaimPlan, SkipRecord, HeartbeatRun, DeleteTarget, FinishRun,
                  FinishRetentionPlan, planVars
    <3> QED BY <3>1 DEF Targets
  <2> QED BY <2>2, <2>3
<1> QED BY <1>1, <1>2, <1>3 DEF Monotone

\* A retention run is said to be completed on the word of an execution that is.
LEMMA HonestWork ==
  ASSUME AuditInv, NEW e \in Executors, Execution(e)
  PROVE  Honest'
<1>1. Monotone
  BY MonotoneWork DEF AuditInv
<1>2. CASE FinishRetentionPlan(e)
  <2>1. CASE run = "awaiting" /\ runPlan = plan[e] /\ result[e] \in {"completed", "no_op"}
    <3>1. plan[e] \in Plans /\ status[plan[e]] # "none" /\ stage[e] = "report"
      BY <1>2 DEF AuditInv, PruneInv, PlanKnown, Bound, Stages, FinishRetentionPlan
    <3>2. Gone(Targets(plan[e]))
      BY <2>1, <3>1 DEF AuditInv, ExecInv, Going
    <3>3. Targets(plan[e])' = Targets(plan[e]) /\ Targets(plan[e]) \subseteq Records
      <4>1. Targets(plan[e])' = Targets(plan[e])
        BY <1>1, <1>2, <3>1 DEF Monotone, FinishRetentionPlan, Targets, planVars
      <4> QED BY <4>1, TargetsAreFew
    <3>4. runPlan' = plan[e]
      BY <1>2, <2>1 DEF FinishRetentionPlan
    <3> QED BY <1>1, <3>1, <3>2, <3>3, <3>4 DEF Honest, Monotone, Gone
  <2>2. CASE ~ (run = "awaiting" /\ runPlan = plan[e] /\ result[e] \in {"completed", "no_op"})
    <3>1. run' = "completed" => run = "completed" /\ runPlan' = runPlan
      BY <1>2, <2>2 DEF FinishRetentionPlan
    <3> QED BY <1>1, <3>1, HonestKept DEF AuditInv
  <2> QED BY <2>1, <2>2
<1>3. CASE ~ FinishRetentionPlan(e)
  <2>1. run' = run /\ runPlan' = runPlan
    BY <1>3 DEF Execution, Execute, RecoverAbandonedRun, Load, VerifyAttested, SpendEvidence,
                ClaimPlan, SkipRecord, HeartbeatRun, ClaimTarget, DeleteTarget, MarkTarget,
                FinishRun, runVars
  <2> QED BY <1>1, <2>1, HonestKept DEF AuditInv
<1> QED BY <1>2, <1>3

LEMMA AuditWork ==
  ASSUME AuditInv, NEW e \in Executors, Execution(e)
  PROVE  AuditInv'
<1>1. PruneInv /\ ExecInv /\ OnceInv /\ Monotone /\ Honest'
  BY MonotoneWork, HonestWork DEF AuditInv
<1>2. ASSUME NEW p \in Plans, Execute(e, p) PROVE AuditInv'
  BY <1>1, <1>2, PruneBegins, ExecBegins, OnceBegins DEF AuditInv
<1>3. CASE RecoverAbandonedRun(e) \/ Load(e) \/ SpendEvidence(e)
  BY <1>1, <1>3, PruneGoes, ExecPrepares, OnceGoes DEF AuditInv
<1>4. CASE VerifyAttested(e)
  BY <1>1, <1>4, PruneVerifies, ExecPrepares, OnceGoes DEF AuditInv
<1>5. CASE ClaimPlan(e)
  BY <1>1, <1>5, PruneGoes, ExecClaims, OnceClaims DEF AuditInv
<1>6. CASE SkipRecord(e) \/ HeartbeatRun(e) \/ ClaimTarget(e)
  BY <1>1, <1>6, PruneGoes, ExecSkips, ExecHeartbeat, ExecClaimsTarget, OnceGoes DEF AuditInv
<1>7. CASE DeleteTarget(e)
  <2>1. at[e] \in Records
    BY <1>1, <1>7, AtTarget DEF DeleteTarget
  <2> QED BY <1>1, <1>7, <2>1, PruneDeletes, ExecDeletes, OnceDeletes DEF AuditInv
<1>8. CASE MarkTarget(e) \/ FinishRun(e) \/ FinishRetentionPlan(e)
  BY <1>1, <1>8, PruneGoes, ExecMarks, ExecFinishes, ExecReports, OnceGoes DEF AuditInv
<1> QED BY <1>2, <1>3, <1>4, <1>5, <1>6, <1>7, <1>8 DEF Execution

\* A plan is drawn up by an operator or by a node.
LEMMA AuditDrawsUp ==
  ASSUME AuditInv, NEW p \in Plans, Create(p),
         UNCHANGED <<record, archive, runPlan, stage, plan, at, tally, result, deleted, late>>,
         run' = "completed" => run = "completed"
  PROVE  AuditInv'
<1>1. /\ status[p] = "none" /\ status' = [status EXCEPT ![p] = "planned"] /\ execution' = execution
      /\ target' = [target EXCEPT ![p] =
                      [r \in Records |-> IF record[r] = "absent" THEN "none" ELSE "planned"]]
  BY DEF Create
<1>2. /\ status \in [Plans -> PlanStatuses] /\ target \in [Plans -> [Records -> TargetStatuses]]
  BY DEF AuditInv, PruneInv, PlanTypes, ExecInv, ExecTypes
<1>3. target' \in [Plans -> [Records -> TargetStatuses]]
  <2>1. [r \in Records |-> IF record[r] = "absent" THEN "none" ELSE "planned"] \in [Records -> TargetStatuses]
    BY DEF TargetStatuses
  <2> QED BY <1>1, <1>2, <2>1
<1>4. Monotone
  BY <1>1, <1>2 DEF Monotone, Targets
<1>5. PruneInv'
  BY PruneDrawsUp DEF AuditInv
<1>6. ExecInv'
  BY <1>3, <1>4, ExecElsewhere DEF AuditInv
<1>7. OnceInv'
  BY <1>1, <1>2, OnceElsewhere DEF AuditInv
<1>8. Honest'
  BY <1>4, HonestKept DEF AuditInv
<1> QED BY <1>5, <1>6, <1>7, <1>8 DEF AuditInv

\* The tables change, and plans grow old.
LEMMA AuditElsewhere ==
  ASSUME AuditInv, record' \in [Records -> Texts],
         \A r \in Records : record[r] = "absent" => record'[r] = "absent",
         UNCHANGED <<status, execution, digest, target, archive, stage, plan, at, tally, result, deleted, late>>,
         run' = "completed" => run = "completed" /\ runPlan' = runPlan
  PROVE  AuditInv'
<1>1. Monotone
  BY DEF Monotone, Targets
<1>2. PruneInv'
  BY PruneElsewhere DEF AuditInv
<1>3. target' \in [Plans -> [Records -> TargetStatuses]]
  BY DEF AuditInv, ExecInv, ExecTypes
<1>4. ExecInv'
  BY <1>1, <1>3, ExecElsewhere DEF AuditInv
<1>5. OnceInv'
  BY OnceElsewhere DEF AuditInv
<1>6. Honest'
  BY <1>1, HonestKept DEF AuditInv
<1> QED BY <1>2, <1>4, <1>5, <1>6 DEF AuditInv

LEMMA AuditStep ==
  ASSUME AuditInv, [Next]_vars
  PROVE  AuditInv'
<1>0. record \in [Records -> Texts]
  BY DEF AuditInv, PruneInv, PlanTypes
<1>1. CASE UNCHANGED vars
  BY <1>0, <1>1, AuditElsewhere
     DEF vars, planVars, runVars, nodeVars, executorVars, historyVars
<1>2. ASSUME NEW p \in Plans, CreateByHand(p) PROVE AuditInv'
  BY <1>2, AuditDrawsUp DEF CreateByHand, runVars, executorVars, historyVars
<1>3. ASSUME NEW p \in Plans, NEW m \in Manifests(p), Archive(p, m) PROVE AuditInv'
  <2>1. PruneInv'
    BY <1>3, PruneArchives DEF AuditInv
  <2>2. UNCHANGED <<record, status, execution, target, stage, plan, at, tally, result, late, run, runPlan>>
    BY <1>3 DEF Archive, planVars, runVars, executorVars, historyVars
  <2>3. Monotone
    BY <2>2 DEF Monotone, Targets
  <2>4. ExecInv'
    BY <2>2, <2>3, ExecElsewhere DEF AuditInv, ExecInv, ExecTypes
  <2>5. OnceInv'
    BY <2>2, OnceElsewhere DEF AuditInv
  <2>6. Honest'
    BY <2>2, <2>3, HonestKept DEF AuditInv
  <2> QED BY <2>1, <2>4, <2>5, <2>6 DEF AuditInv
<1>4. ASSUME NEW r \in Records, Drift(r) PROVE AuditInv'
  <2>1. record' \in [Records -> Texts] /\ \A x \in Records : record[x] = "absent" => record'[x] = "absent"
    BY <1>0, <1>4 DEF Drift, Texts, Versions
  <2>2. UNCHANGED <<status, execution, digest, target, archive, stage, plan, at, tally, result, deleted, late,
                    run, runPlan>>
    BY <1>4 DEF Drift, planVars, runVars, executorVars, historyVars
  <2> QED BY <2>1, <2>2, AuditElsewhere
<1>5. ASSUME NEW n \in Nodes, Retention(n) PROVE AuditInv'
  <2>1. ASSUME NEW p \in Plans, PlanRun(n, p) PROVE AuditInv'
    BY <2>1, AuditDrawsUp DEF PlanRun, notNodes, runVars, executorVars, historyVars
  <2>2. ASSUME FindRun(n) \/ CreateRun(n) \/ StartRun(n) \/ PlanRunFails(n) \/ AwaitRetentionEvidence(n)
        PROVE  AuditInv'
    <3>1. UNCHANGED <<record, status, execution, digest, target, archive, stage, plan, at, tally, result, deleted,
                      late>>
      BY <2>2 DEF FindRun, CreateRun, StartRun, PlanRunFails, AwaitRetentionEvidence, notNodes,
                  planVars, executorVars, historyVars
    <3>2. run' = "completed" => run = "completed" /\ runPlan' = runPlan
      BY <2>2 DEF FindRun, CreateRun, StartRun, PlanRunFails, AwaitRetentionEvidence, runVars
    <3> QED BY <1>0, <3>1, <3>2, AuditElsewhere
  <2> QED BY <1>5, <2>1, <2>2 DEF Retention
<1>6. ASSUME NEW e \in Executors, Execution(e) PROVE AuditInv'
  BY <1>6, AuditWork
<1>7. CASE Tick
  BY <1>0, <1>7, AuditElsewhere DEF Tick, runVars, executorVars, historyVars
<1> QED BY <1>1, <1>2, <1>3, <1>4, <1>5, <1>6, <1>7 DEF Next

LEMMA AuditFirst == Init => AuditInv
<1>1. Init => Honest
  BY DEF Init, Honest
<1> QED BY <1>1, PruneFirst, ExecFirst, OnceFirst DEF AuditInv

LEMMA AuditAlways == Spec => []AuditInv
<1>1. Init => AuditInv
  BY AuditFirst
<1>2. AuditInv /\ [Next]_vars => AuditInv'
  BY AuditStep
<1> QED BY <1>1, <1>2, PTL DEF Spec

\* What pruning deletes is in the manifest of its plan, in the version that it had
\* (deleteExactAuditPruneTarget, auditPruneArchiveMatchesPlan).
THEOREM DeletedIsArchived == Spec => []DeletedWasArchived
<1>1. AuditInv => DeletedWasArchived
  <2> SUFFICES ASSUME AuditInv, NEW d \in deleted
               PROVE  archive[d[1]] # None /\ archive[d[1]][d[2]] = d[3]
    BY DEF DeletedWasArchived
  <2>1. PICK p \in Plans, r \in Records, v \in Texts :
          d = <<p, r, v>> /\ status[p] # "none" /\ archive[p] = digest[p] /\ digest[p][r] = v
    BY DEF AuditInv, PruneInv, DeletedRecords
  <2>2. digest[p] # None
    BY <2>1, PruneAssumption DEF AuditInv, PruneInv, PlanTypes
  <2> QED BY <2>1, <2>2
<1> QED BY <1>1, AuditAlways, PTL

\* A plan has one execution, and one that was given up deletes one record more at most
\* (the first UPDATE of executeVerified, heartbeatRun, recoverAbandonedRun).
THEOREM ExecutedOnce == Spec => []PlanExecutedOnce
<1>1. AuditInv => PlanExecutedOnce
  BY DEF AuditInv, OnceInv, LastOne, Sole, PlanExecutedOnce
<1> QED BY <1>1, AuditAlways, PTL

\* A retention run that is `completed' has removed what it planned, whatever failed on
\* the way (auditPruneRunStatus, FinishRetentionPlan).
THEOREM RetentionTellsTruth == Spec => []RetentionIsHonest
<1>1. AuditInv => RetentionIsHonest
  BY DEF AuditInv, Honest, Gone, RetentionIsHonest
<1> QED BY <1>1, AuditAlways, PTL
-----------------------------------------------------------------------------
(* The message bus. *)

\* The lease of a claim, in ticks.
LEMMA StoreLease == BusLease \in Nat \ {0}
BY BusAssumption DEF M!BusAssumption

\* What a call holds at each of its statements.
ReportIsTrue(w) ==
    /\ pc[w] = "reserveFailed" => rep[w].kind = "lost" /\ rep[w].status = "failed"
    /\ pc[w] = "reserveStale" => rep[w].kind = "lost" /\ rep[w].status = "running"
    /\ pc[w] = "finish" =>
         /\ rep[w].kind = "own" /\ rep[w].status \in {"success", "failed"}
         /\ rep[w].status = "success" => key[w] \in handled
    /\ pc[w] = "done" =>
         \/ rep[w].kind \in {"duplicate", "error"}
         \/ rep[w].kind = "lost" /\ rep[w].status \in {"running", "failed"}
         \/ rep[w].kind = "own" /\ rep[w].status = "success" /\ key[w] \in handled

\* A worker that found the row failed and may leave it, or has left it, to another.
Yielding(w) ==
    /\ jobStage[w] = "once"
    /\ \/ pc[w] = "reserveFailed"
       \/ pc[w] = "done" /\ rep[w].kind = "lost" /\ rep[w].status = "failed"

\* What remains of a message without any worker.
Traced(k) ==
    \/ k \in handled \/ k \in ignored \/ M!Visible(k)
    \/ \E n \in M!Attempts : jobs[<<k, n>>] > 0

Counted(k) == Traced(k) \/ \E w \in Workers : jobStage[w] # "idle" /\ key[w] = k /\ ~Yielding(w)

\* Somebody is about to find out whether the failed row is still there to take.
MayTake(k) ==
    rowStatus[k] = "failed" /\ \E w \in Workers : jobStage[w] = "once" /\ key[w] = k /\ pc[w] = "reserveFailed"

\* Whom a worker yields to, and that worker's own heirs, are counted.
TakenIsCounted == \A k \in Keys : rowStatus[k] \in {"running", "success"} => Counted(k)
EnqueuedIsCounted == \A k \in Keys : M!Enqueued(k) => Counted(k) \/ MayTake(k)

ReportsAreTrue == \A w \in Workers : ReportIsTrue(w)
StagesFit ==
    \A w \in Workers : /\ jobStage[w] = "retry" => attempt[w] < MaxAttempts
                       /\ jobStage[w] = "once" => delivery[w] = "PROCESSING"

BusInv ==
    M!TypeOK /\ ReportsAreTrue /\ StagesFit /\ TakenIsCounted /\ EnqueuedIsCounted

(* The store of the bus keeps its types. *)

\* Every report a call can hold has the shape of QueueIdempotencyResult.
LEMMA ReportType ==
    ASSUME M!Once!TypeOK
    PROVE  /\ M!Once!NoReport \in M!Once!Report
           /\ M!Once!ErrReport \in M!Once!Report
           /\ \A k \in Keys, kind \in M!Once!Kinds : M!Once!RowReport(k, kind) \in M!Once!Report
           /\ \A s \in M!Once!Statuses, r \in Results : [kind |-> "own", status |-> s, result |-> r] \in M!Once!Report
           /\ \A w \in Workers : M!Once!HandlerReport(rep[w]) \in M!Once!Report
BY DEF M!Once!TypeOK, M!Once!Report, M!Once!Kinds, M!Once!Statuses, M!Once!NoReport, M!Once!ErrReport, M!Once!RowReport, M!Once!HandlerReport

\* The end of a call keeps the types of the calls.
LEMMA ReplyType ==
    ASSUME M!Once!TypeOK, NEW w \in Workers, NEW step \in M!Once!Steps, NEW r \in M!Once!Report,
           M!Once!Reply(w, step, r)
    PROVE  /\ pc' \in [Workers -> M!Once!Steps]
           /\ key' \in [Workers -> Keys]
           /\ claim' \in [Workers -> Tokens \union {NoToken}]
           /\ left' \in [Workers -> 0..BusLease]
           /\ rep' \in [Workers -> M!Once!Report]
BY StoreLease DEF M!Once!TypeOK, M!Once!Reply

\* Moving a call along, with the table as it is, keeps the types.
LEMMA CallStepType ==
    ASSUME M!Once!TypeOK, NEW w \in Workers, NEW step \in M!Once!Steps, NEW r \in M!Once!Report,
           UNCHANGED M!Once!table,
           M!Once!Goto(w, step) \/ M!Once!GotoWith(w, step, r) \/ M!Once!Reply(w, step, r)
    PROVE  M!Once!TypeOK'
<1>1. CASE M!Once!Goto(w, step)
  BY <1>1 DEF M!Once!TypeOK, M!Once!table, M!Once!Goto
<1>2. CASE M!Once!GotoWith(w, step, r)
  BY <1>2 DEF M!Once!TypeOK, M!Once!table, M!Once!GotoWith
<1>3. CASE M!Once!Reply(w, step, r)
  BY <1>3, ReplyType DEF M!Once!TypeOK, M!Once!table
<1> QED
  BY <1>1, <1>2, <1>3

\* Claiming a row keeps the types.
LEMMA ClaimType ==
    ASSUME M!Once!TypeOK, NEW w \in Workers, M!Once!ClaimRow(w)
    PROVE  M!Once!TypeOK'
BY ReportType, StoreLease DEF M!Once!TypeOK, M!Once!ClaimRow, M!Once!Statuses, M!Once!Steps

LEMMA TypeInit == M!Once!Init => M!Once!TypeOK
BY StoreLease DEF M!Once!Init, M!Once!TypeOK, M!Once!Report, M!Once!Kinds, M!Once!Statuses, M!Once!Steps, M!Once!NoReport

LEMMA TypeStep == M!Once!TypeOK /\ [M!Once!Next]_M!Once!vars => M!Once!TypeOK'
<1> SUFFICES ASSUME M!Once!TypeOK, [M!Once!Next]_M!Once!vars
             PROVE  M!Once!TypeOK'
  OBVIOUS
<1> USE ReportType, CallStepType, ClaimType
<1>1. ASSUME NEW w \in Workers, NEW k \in Keys, M!Once!Begin(w, k)
      PROVE  M!Once!TypeOK'
  BY <1>1 DEF M!Once!TypeOK, M!Once!Begin, M!Once!Steps, M!Once!table
<1>2. ASSUME NEW w \in Workers, M!Once!ReadRow(w)
      PROVE  M!Once!TypeOK'
  <2> key[w] \in Keys
    BY DEF M!Once!TypeOK
  <2> QED
    BY <1>2 DEF M!Once!ReadRow, M!Once!Steps, M!Once!Kinds
<1>3. ASSUME NEW w \in Workers, M!Once!ReadError(w) \/ M!Once!InsertError(w)
      PROVE  M!Once!TypeOK'
  BY <1>3 DEF M!Once!ReadError, M!Once!InsertError, M!Once!Steps
<1>4. ASSUME NEW w \in Workers, M!Once!InsertRow(w)
      PROVE  M!Once!TypeOK'
  BY <1>4 DEF M!Once!InsertRow, M!Once!Steps
<1>5. ASSUME NEW w \in Workers, M!Once!ReadConflict(w)
      PROVE  M!Once!TypeOK'
  <2> key[w] \in Keys
    BY DEF M!Once!TypeOK
  <2> QED
    BY <1>5 DEF M!Once!ReadConflict, M!Once!Steps, M!Once!Kinds
<1>6. ASSUME NEW w \in Workers, M!Once!ReserveFailed(w) \/ M!Once!ReserveStaleRunning(w)
      PROVE  M!Once!TypeOK'
  <2> rep[w] \in M!Once!Report
    BY DEF M!Once!TypeOK
  <2> QED
    BY <1>6 DEF M!Once!ReserveFailed, M!Once!ReserveStaleRunning, M!Once!Steps
<1>7. ASSUME NEW w \in Workers, NEW s \in {"success", "failed"}, NEW r \in Results,
             M!Once!RunHandler(w, s, r)
      PROVE  M!Once!TypeOK'
  BY <1>7 DEF M!Once!RunHandler, M!Once!Steps, M!Once!Statuses
<1>8. ASSUME NEW w \in Workers, M!Once!Finish(w)
      PROVE  M!Once!TypeOK'
  <2>1. CASE UNCHANGED M!Once!table
    BY <1>8, <2>1 DEF M!Once!Finish, M!Once!Steps
  <2>2. CASE M!Once!FinishMatches(w)
    <3> rep[w].status \in M!Once!Statuses /\ rep[w].result \in Results \union {NoResult}
      BY DEF M!Once!TypeOK, M!Once!Report
    <3>1. /\ rowStatus' \in [Keys -> M!Once!Statuses]
          /\ rowResult' \in [Keys -> Results \union {NoResult}]
          /\ token' \in [Keys -> Tokens \union {NoToken}]
          /\ lease' \in [Keys -> 0..BusLease]
      BY <1>8, <2>2, StoreLease DEF M!Once!TypeOK, M!Once!Finish
    <3>2. M!Once!HandlerReport(rep[w]) \in M!Once!Report
      OBVIOUS
    <3>3. M!Once!Reply(w, "done", M!Once!HandlerReport(rep[w]))
      BY <1>8 DEF M!Once!Finish
    <3> QED
      BY <3>1, <3>2, <3>3, ReplyType DEF M!Once!TypeOK, M!Once!Steps
  <2> QED
    BY <1>8, <2>1, <2>2 DEF M!Once!Finish
<1>9. ASSUME NEW w \in Workers, M!Once!FinishError(w) \/ M!Once!Return(w) \/ M!Once!Abandon(w)
      PROVE  M!Once!TypeOK'
  BY <1>9 DEF M!Once!FinishError, M!Once!Return, M!Once!Abandon, M!Once!Steps
<1>10. CASE M!Once!Tick
  BY <1>10, StoreLease DEF M!Once!TypeOK, M!Once!Tick, M!Once!Elapse
<1>11. CASE UNCHANGED M!Once!vars
  BY <1>11 DEF M!Once!TypeOK, M!Once!vars
<1> QED
  BY <1>1, <1>2, <1>3, <1>4, <1>5, <1>6, <1>7, <1>8, <1>9, <1>10, <1>11
  DEF M!Once!Next, M!Once!WorkerStep

\* A statement of the store, as the bus takes it.
LEMMA StoreStatement ==
    ASSUME NEW w \in Workers, M!OnceStep(w)
    PROVE  /\ \/ M!Once!ReadRow(w) \/ M!Once!ReadError(w) \/ M!Once!InsertRow(w) \/ M!Once!InsertError(w) \/ M!Once!ReadConflict(w)
              \/ M!Once!ReserveFailed(w) \/ M!Once!ReserveStaleRunning(w) \/ M!Once!Finish(w) \/ M!Once!FinishError(w)
              \/ \E r \in Results : M!Once!RunHandler(w, "failed", r)
           /\ jobStage[w] = "once"
           /\ UNCHANGED <<sent, jobs, failedJobs, jobStage, attempt, class, delivery>>
           /\ UNCHANGED <<letter, handled, discarded, ignored>>
BY DEF M!OnceStep, M!consume

-------------------------------------------------------------------------------
\* A step that moves one worker and concerns one key need only account for that key.
LEMMA OneKeyMoves ==
    ASSUME TakenIsCounted, EnqueuedIsCounted, UNCHANGED sent,
           NEW w \in Workers, NEW q \in Keys,
           \A v \in Workers \ {w} :
             pc'[v] = pc[v] /\ key'[v] = key[v] /\ rep'[v] = rep[v] /\ jobStage'[v] = jobStage[v],
           key'[w] = q, key[w] = q \/ jobStage[w] = "idle",
           \A k \in Keys \ {q} : rowStatus'[k] = rowStatus[k] /\ (Traced(k) => Traced(k)'),
           rowStatus'[q] \in {"running", "success"} => Counted(q)',
           M!Enqueued(q) => Counted(q)' \/ MayTake(q)'
    PROVE  TakenIsCounted' /\ EnqueuedIsCounted'
<1>1. ASSUME NEW k \in Keys, k # q PROVE Counted(k) => Counted(k)'
  BY <1>1 DEF Counted, Yielding
<1>2. ASSUME NEW k \in Keys, k # q PROVE MayTake(k) => MayTake(k)'
  BY <1>2 DEF MayTake
<1>3. \A k \in Keys : M!Enqueued(k)' = M!Enqueued(k)
  BY DEF M!Enqueued
<1> QED BY <1>1, <1>2, <1>3 DEF TakenIsCounted, EnqueuedIsCounted

\* A step that moves no worker and loses no trace.
LEMMA NoWorkerMoves ==
    ASSUME TakenIsCounted, EnqueuedIsCounted, UNCHANGED <<pc, key, rep, jobStage, rowStatus>>,
           \A k \in Keys : Traced(k) => Traced(k)',
           \A k \in Keys : M!Enqueued(k)' => M!Enqueued(k) \/ Traced(k)'
    PROVE  TakenIsCounted' /\ EnqueuedIsCounted'
<1>1. ASSUME NEW k \in Keys PROVE (Counted(k) => Counted(k)') /\ (MayTake(k) => MayTake(k)')
  BY DEF Counted, Yielding, MayTake
<1>2. \A k \in Keys : Traced(k)' => Counted(k)'
  BY DEF Counted
<1> QED BY <1>1, <1>2 DEF TakenIsCounted, EnqueuedIsCounted

\* A worker that is not yielding counts.
LEMMA WorkerCounts ==
    ASSUME NEW w \in Workers, NEW q \in Keys, jobStage'[w] # "idle", key'[w] = q, ~Yielding(w)'
    PROVE  Counted(q)'
BY DEF Counted

-------------------------------------------------------------------------------
\* A statement of the store.
LEMMA StoreKeepsTypes ==
    ASSUME BusInv, NEW w \in Workers, M!OnceStep(w) PROVE M!TypeOK'
<1>1. M!Once!TypeOK'
  <2>1. M!Once!WorkerStep(w)
    BY StoreStatement DEF M!Once!WorkerStep
  <2>2. M!Once!Next
    BY <2>1 DEF M!Once!Next
  <2>3. M!Once!TypeOK
    BY DEF BusInv, M!TypeOK
  <2> QED BY <2>2, <2>3, TypeStep
<1>2. pc'[w] # "idle" /\ \A v \in Workers : v # w => pc'[v] = pc[v]
  <2>1. pc \in [Workers -> M!Once!Steps]
    BY DEF BusInv, M!TypeOK, M!Once!TypeOK
  <2>2. CASE M!Once!InsertRow(w) \/ M!Once!ReserveFailed(w) \/ M!Once!ReserveStaleRunning(w)
    BY <2>1, <2>2 DEF M!Once!InsertRow, M!Once!ReserveFailed, M!Once!ReserveStaleRunning,
       M!Once!ClaimRow, M!Once!Goto, M!Once!GotoWith, M!Once!Reply
  <2>3. CASE M!Once!ReadRow(w) \/ M!Once!ReadError(w) \/ M!Once!InsertError(w)
               \/ M!Once!ReadConflict(w)
    BY <2>1, <2>3 DEF M!Once!ReadRow, M!Once!ReadError, M!Once!InsertError, M!Once!ReadConflict,
       M!Once!Goto, M!Once!GotoWith, M!Once!Reply
  <2>4. CASE M!Once!Finish(w) \/ M!Once!FinishError(w)
               \/ \E r \in Results : M!Once!RunHandler(w, "failed", r)
    BY <2>1, <2>4 DEF M!Once!Finish, M!Once!FinishError, M!Once!RunHandler,
       M!Once!GotoWith, M!Once!Reply
  <2> QED BY <2>2, <2>3, <2>4, StoreStatement
<1> QED BY <1>1, <1>2, StoreStatement DEF BusInv, M!TypeOK

LEMMA StoreReports ==
    ASSUME BusInv, NEW w \in Workers, M!OnceStep(w)
    PROVE  /\ \A v \in Workers : ReportIsTrue(v)'
           /\ UNCHANGED key
           /\ \A v \in Workers \ {w} : pc'[v] = pc[v] /\ rep'[v] = rep[v]
           /\ \A k \in Keys \ {key[w]} : rowStatus'[k] = rowStatus[k]
<1> DEFINE Others == UNCHANGED key /\ (\A v \in Workers \ {w} : pc'[v] = pc[v] /\ rep'[v] = rep[v])
                       /\ (\A k \in Keys \ {key[w]} : rowStatus'[k] = rowStatus[k])
<1>1. pc \in [Workers -> M!Once!Steps] /\ rep \in [Workers -> M!Once!Report] /\ key \in [Workers -> Keys]
      /\ rowStatus \in [Keys -> M!Once!Statuses] /\ UNCHANGED handled
  BY StoreStatement DEF BusInv, M!TypeOK, M!Once!TypeOK
<1>2. ReportIsTrue(w)
  BY DEF BusInv, ReportsAreTrue
<1>3. Others
  BY <1>1, StoreStatement
     DEF M!Once!ReadRow, M!Once!ReadError, M!Once!InsertRow, M!Once!InsertError, M!Once!ReadConflict, M!Once!ReserveFailed, M!Once!ReserveStaleRunning,
         M!Once!Finish, M!Once!FinishError, M!Once!RunHandler, M!Once!ClaimRow, M!Once!Goto, M!Once!GotoWith, M!Once!Reply, M!Once!table
<1>4. ASSUME NEW v \in Workers, v # w PROVE ReportIsTrue(v)'
  BY <1>1, <1>3, <1>4 DEF BusInv, ReportsAreTrue, ReportIsTrue
<1>5. ReportIsTrue(w)'
  <2> USE <1>1, <1>2 DEF ReportIsTrue
  <2>1. CASE M!Once!ReadRow(w)
    BY <2>1 DEF M!Once!ReadRow, M!Once!Goto, M!Once!GotoWith, M!Once!Reply, M!Once!RowReport
  <2>2. CASE M!Once!ReadError(w) \/ M!Once!InsertError(w)
    BY <2>2 DEF M!Once!ReadError, M!Once!InsertError, M!Once!Goto
  <2>3. CASE M!Once!InsertRow(w)
    BY <2>3 DEF M!Once!InsertRow, M!Once!ClaimRow, M!Once!Goto
  <2>4. CASE M!Once!ReadConflict(w)
    BY <2>4 DEF M!Once!ReadConflict, M!Once!Reply, M!Once!RowReport, M!Once!ErrReport
  <2>5. CASE M!Once!ReserveFailed(w)
    BY <2>5 DEF M!Once!ReserveFailed, M!Once!ClaimRow, M!Once!Reply, M!Once!ErrReport
  <2>6. CASE M!Once!ReserveStaleRunning(w)
    BY <2>6 DEF M!Once!ReserveStaleRunning, M!Once!ClaimRow, M!Once!Reply, M!Once!ErrReport
  <2>7. CASE M!Once!Finish(w)
    BY <2>7 DEF M!Once!Finish, M!Once!Reply, M!Once!HandlerReport, M!Once!ErrReport
  <2>8. CASE M!Once!FinishError(w)
    BY <2>8 DEF M!Once!FinishError, M!Once!Reply, M!Once!ErrReport
  <2>9. CASE \E r \in Results : M!Once!RunHandler(w, "failed", r)
    BY <2>9 DEF M!Once!RunHandler, M!Once!GotoWith
  <2> QED BY <2>1, <2>2, <2>3, <2>4, <2>5, <2>6, <2>7, <2>8, <2>9, StoreStatement
<1> QED BY <1>3, <1>4, <1>5

LEMMA StoreCounts ==
    ASSUME BusInv, NEW w \in Workers, M!OnceStep(w)
    PROVE  TakenIsCounted' /\ EnqueuedIsCounted'
<1> DEFINE q == key[w]
<1>1. pc \in [Workers -> M!Once!Steps] /\ rep \in [Workers -> M!Once!Report] /\ q \in Keys
      /\ rowStatus \in [Keys -> M!Once!Statuses]
  BY DEF BusInv, M!TypeOK, M!Once!TypeOK
<1>2. /\ UNCHANGED <<sent, jobStage, key>> /\ jobStage[w] = "once"
      /\ \A k \in Keys : Traced(k)' = Traced(k)
  BY StoreStatement, StoreReports DEF Traced, M!Visible
<1>3. ReportIsTrue(w) /\ ReportIsTrue(w)'
  BY StoreReports DEF BusInv, ReportsAreTrue
<1>4. CASE ~Yielding(w)'
  BY <1>1, <1>2, <1>4, WorkerCounts, OneKeyMoves, StoreReports DEF BusInv
<1>5. CASE Yielding(w)'
  <2>1. CASE pc'[w] = "reserveFailed"
    <3>1. rowStatus[q] = "failed" /\ UNCHANGED rowStatus
      BY <1>1, <2>1, StoreStatement
         DEF M!Once!ReadRow, M!Once!ReadError, M!Once!InsertRow, M!Once!InsertError, M!Once!ReadConflict, M!Once!ReserveFailed, M!Once!ReserveStaleRunning,
             M!Once!Finish, M!Once!FinishError, M!Once!RunHandler, M!Once!ClaimRow, M!Once!Goto, M!Once!GotoWith, M!Once!Reply, M!Once!table
    <3>2. MayTake(q)'
      BY <1>1, <1>2, <2>1, <3>1 DEF MayTake
    <3> QED BY <1>1, <1>2, <3>1, <3>2, OneKeyMoves, StoreReports DEF BusInv
  <2>2. CASE pc'[w] = "done" /\ rep'[w].kind = "lost" /\ rep'[w].status = "failed"
    <3>1. pc[w] = "reserveFailed" /\ rowStatus[q] # "failed" /\ UNCHANGED rowStatus /\ rep' = rep
      BY <1>1, <1>3, <2>2, StoreStatement
         DEF M!Once!ReadRow, M!Once!ReadError, M!Once!InsertRow, M!Once!InsertError, M!Once!ReadConflict, M!Once!ReserveFailed, M!Once!ReserveStaleRunning,
             M!Once!Finish, M!Once!FinishError, M!Once!RunHandler, M!Once!ClaimRow, M!Once!Goto, M!Once!GotoWith, M!Once!Reply, M!Once!table, M!Once!RowReport, M!Once!ErrReport,
             M!Once!HandlerReport, ReportIsTrue
    <3>2. Counted(q) => Counted(q)'
      BY <1>1, <1>2, <3>1, StoreReports DEF Counted, Yielding
    <3>3. ~MayTake(q)
      BY <3>1 DEF MayTake
    <3> QED BY <1>1, <1>2, <3>1, <3>2, <3>3, OneKeyMoves, StoreReports
            DEF BusInv, TakenIsCounted, EnqueuedIsCounted
  <2> QED BY <1>5, <2>1, <2>2 DEF Yielding
<1> QED BY <1>4, <1>5

LEMMA OnceStepKeeps ==
    ASSUME BusInv, NEW w \in Workers, M!OnceStep(w) PROVE BusInv'
<1>1. ReportsAreTrue'
  BY StoreReports DEF ReportsAreTrue
<1>2. StagesFit'
  BY StoreStatement DEF BusInv, StagesFit
<1> QED BY <1>1, <1>2, StoreKeepsTypes, StoreCounts DEF BusInv

-------------------------------------------------------------------------------
\* The types of the bus, the store's among them.
LEMMA BusTypes ==
    ASSUME BusInv
    PROVE  /\ M!Once!TypeOK /\ pc \in [Workers -> M!Once!Steps] /\ rep \in [Workers -> M!Once!Report]
           /\ key \in [Workers -> Keys] /\ rowStatus \in [Keys -> M!Once!Statuses]
           /\ jobStage \in [Workers -> M!Stages] /\ attempt \in [Workers -> M!Attempts]
           /\ class \in [Workers -> M!Classes] /\ delivery \in [Workers -> M!DeliveryStatuses]
           /\ jobs \in [M!Jobs -> Nat] /\ failedJobs \in [M!Jobs -> Nat]
           /\ letter \in [Keys -> {"none", "OPEN", "RESOLVED"}]
           /\ \A w \in Workers : jobStage[w] # "once" <=> pc[w] = "idle"
BY DEF BusInv, M!TypeOK, M!Once!TypeOK, M!JobCount

\* A worker's step that leaves it without a call of the store.
LEMMA OutsideStoreKeeps ==
    ASSUME BusInv, NEW w \in Workers,
           \/ pc[w] = "idle" /\ UNCHANGED M!Once!vars
           \/ M!Once!Return(w) \/ M!Once!Abandon(w),
           NEW s \in M!Stages \ {"once"}, jobStage' = [jobStage EXCEPT ![w] = s],
           NEW n \in M!Attempts, attempt' = [attempt EXCEPT ![w] = n],
           s = "retry" => n < MaxAttempts,
           class' \in [Workers -> M!Classes], delivery' \in [Workers -> M!DeliveryStatuses],
           \A v \in Workers \ {w} : delivery'[v] = delivery[v],
           jobs' \in [M!Jobs -> Nat], failedJobs' \in [M!Jobs -> Nat],
           letter' \in [Keys -> {"none", "OPEN", "RESOLVED"}],
           UNCHANGED <<sent, handled, discarded>>, ignored' \subseteq Keys,
           \A k \in Keys : Traced(k) => Traced(k)',
           s # "idle" \/ (\A q \in {key[w]} : Traced(q)') \/ (pc[w] = "done" /\ Yielding(w))
    PROVE  BusInv'
<1> DEFINE q == key[w]
<1>1. M!Once!TypeOK'
  <2>1. [M!Once!Next]_M!Once!vars
    BY DEF M!Once!Next, M!Once!WorkerStep
  <2> QED BY <2>1, BusTypes, TypeStep
<1>2. /\ UNCHANGED <<M!Once!table, key>> /\ pc'[w] = "idle"
      /\ \A v \in Workers \ {w} : pc'[v] = pc[v] /\ rep'[v] = rep[v]
  BY BusTypes DEF M!Once!Return, M!Once!Abandon, M!Once!Reply, M!Once!vars, M!Once!table
<1>3. M!TypeOK'
  <2>1. jobStage' \in [Workers -> M!Stages] /\ attempt' \in [Workers -> M!Attempts]
    BY BusTypes
  <2>2. \A v \in Workers : jobStage'[v] # "once" <=> pc'[v] = "idle"
    BY <1>2, BusTypes
  <2> QED BY <1>1, <2>1, <2>2 DEF BusInv, M!TypeOK, M!JobCount
<1>4. ReportsAreTrue'
  BY <1>2 DEF BusInv, ReportsAreTrue, ReportIsTrue
<1>5. StagesFit'
  BY BusTypes DEF BusInv, StagesFit
<1>6. TakenIsCounted' /\ EnqueuedIsCounted'
  <2>1. jobStage'[w] = s /\ key'[w] = q /\ q \in Keys /\ rowStatus' = rowStatus
        /\ \A v \in Workers \ {w} : key'[v] = key[v] /\ jobStage'[v] = jobStage[v]
    BY <1>2, BusTypes DEF M!Once!table
  <2>2. CASE s # "idle" \/ \A x \in {key[w]} : Traced(x)'
    <3>1. Counted(q)'
      BY <2>1, <2>2 DEF Counted, Yielding
    <3> QED BY <1>2, <2>1, <3>1, OneKeyMoves DEF BusInv
  <2>3. CASE pc[w] = "done" /\ Yielding(w)
    <3>1. (Counted(q) => Counted(q)') /\ (MayTake(q) => MayTake(q)')
      BY <1>2, <2>1, <2>3 DEF Counted, MayTake, Yielding
    <3> QED BY <1>2, <2>1, <3>1, OneKeyMoves DEF BusInv, TakenIsCounted, EnqueuedIsCounted
  <2> QED BY <2>2, <2>3
<1> QED BY <1>3, <1>4, <1>5, <1>6 DEF BusInv

\* One job more, or one less that has a worker or a failed job instead.
LEMMA Counting ==
    ASSUME BusInv, NEW j \in M!Jobs
    PROVE  /\ M!Add(jobs, j) \in [M!Jobs -> Nat] /\ M!Add(failedJobs, j) \in [M!Jobs -> Nat]
           /\ jobs[j] > 0 => M!Remove(jobs, j) \in [M!Jobs -> Nat]
           /\ failedJobs[j] > 0 => M!Remove(failedJobs, j) \in [M!Jobs -> Nat]
           /\ M!Add(jobs, j)[j] > 0 /\ M!Add(failedJobs, j)[j] > 0
           /\ \A i \in M!Jobs : /\ M!Add(jobs, j)[i] >= jobs[i]
                                /\ M!Add(failedJobs, j)[i] >= failedJobs[i]
                                /\ i # j => /\ M!Remove(jobs, j)[i] = jobs[i]
                                            /\ M!Remove(failedJobs, j)[i] = failedJobs[i]
BY BusTypes DEF M!Add, M!Remove

LEMMA WorkersJob ==
    ASSUME BusInv, NEW w \in Workers
    PROVE  M!JobOf(w) \in M!Jobs /\ M!JobOf(w) = <<key[w], attempt[w]>>
           /\ key[w] \in Keys /\ attempt[w] \in M!Attempts
BY BusTypes DEF M!JobOf, M!Jobs

\* Traces only ever grow where no job and no failed job is taken away.
LEMMA TracesGrow ==
    ASSUME BusInv, handled \subseteq handled', ignored \subseteq ignored', discarded \subseteq discarded',
           \A k \in Keys : letter[k] # "none" => letter'[k] # "none",
           \A j \in M!Jobs : jobs'[j] >= jobs[j] /\ failedJobs'[j] >= failedJobs[j],
           jobs' \in [M!Jobs -> Nat], failedJobs' \in [M!Jobs -> Nat]
    PROVE  \A k \in Keys : Traced(k) => Traced(k)'
<1> SUFFICES ASSUME NEW k \in Keys, Traced(k) PROVE Traced(k)'
  OBVIOUS
<1>1. ASSUME NEW n \in M!Attempts PROVE /\ jobs[<<k, n>>] > 0 => jobs'[<<k, n>>] > 0
                                        /\ failedJobs[<<k, n>>] > 0 => failedJobs'[<<k, n>>] > 0
  BY BusTypes DEF M!Jobs
<1> QED BY <1>1 DEF Traced, M!Visible

-------------------------------------------------------------------------------
\* A worker gives its job up, to the queue or to whoever reads failed_jobs.
LEMMA EndTraced ==
    ASSUME BusInv, NEW w \in Workers,
           \/ jobs' = M!Add(jobs, M!JobOf(w)) /\ UNCHANGED failedJobs
           \/ failedJobs' = M!Add(failedJobs, M!JobOf(w)) /\ UNCHANGED jobs,
           UNCHANGED <<letter, handled, discarded, ignored>>
    PROVE  /\ jobs' \in [M!Jobs -> Nat] /\ failedJobs' \in [M!Jobs -> Nat]
           /\ \A k \in Keys : Traced(k) => Traced(k)'
           /\ (\A q \in {key[w]} : Traced(q)')
<1> DEFINE j == M!JobOf(w)
<1>1. j \in M!Jobs /\ j = <<key[w], attempt[w]>> /\ attempt[w] \in M!Attempts
  BY WorkersJob
<1>2. jobs' \in [M!Jobs -> Nat] /\ failedJobs' \in [M!Jobs -> Nat]
  BY <1>1, Counting, BusTypes
<1>3. \A i \in M!Jobs : jobs'[i] >= jobs[i] /\ failedJobs'[i] >= failedJobs[i]
  BY <1>1, Counting, BusTypes
<1>4. \A k \in Keys : Traced(k) => Traced(k)'
  BY <1>2, <1>3, TracesGrow
<1>5. jobs'[j] > 0 \/ failedJobs'[j] > 0
  BY <1>1, Counting
<1>6. (\A q \in {key[w]} : Traced(q)')
  BY <1>1, <1>5 DEF Traced, M!Visible
<1> QED BY <1>2, <1>4, <1>6

\* Handle ends with an error.
LEMMA JobFailsKeeps ==
    ASSUME BusInv, M!BusAssumption, NEW w \in Workers, M!JobFails(w),
           \/ pc[w] = "idle" /\ UNCHANGED M!Once!vars
           \/ M!Once!Return(w),
           UNCHANGED <<sent, jobs, letter, handled, discarded, ignored>>
    PROVE  BusInv'
<1>1. /\ failedJobs' = M!Add(failedJobs, M!JobOf(w)) /\ UNCHANGED delivery
      /\ jobStage' = [jobStage EXCEPT ![w] = "idle"] /\ attempt' = [attempt EXCEPT ![w] = 1]
      /\ class' = [class EXCEPT ![w] = "RETRYABLE"]
  BY DEF M!JobFails, M!Rest
<1>2. "idle" \in M!Stages \ {"once"} /\ 1 \in M!Attempts /\ class' \in [Workers -> M!Classes]
  BY <1>1, BusTypes, WorkersJob DEF M!Stages, M!Classes, M!Attempts, M!BusAssumption
<1> QED BY <1>1, <1>2, EndTraced, BusTypes, OutsideStoreKeeps DEF BusInv, M!TypeOK

\* The store's call is over with an error.
LEMMA FailingKeeps ==
    ASSUME BusInv, M!BusAssumption, NEW w \in Workers, NEW c \in M!Classes,
           M!Once!Return(w) \/ M!Once!Abandon(w),
           jobStage' = [jobStage EXCEPT ![w] = "failing"], class' = [class EXCEPT ![w] = c],
           UNCHANGED <<attempt, delivery, sent, jobs, failedJobs, letter, handled, discarded, ignored>>
    PROVE  BusInv'
<1>1. PICK s \in M!Stages \ {"once"} : s = "failing" /\ s # "idle" /\ s # "retry"
  BY DEF M!Stages
<1>2. /\ attempt' = [attempt EXCEPT ![w] = attempt[w]] /\ attempt[w] \in M!Attempts
      /\ class' \in [Workers -> M!Classes] /\ jobStage' = [jobStage EXCEPT ![w] = s]
      /\ \A k \in Keys : Traced(k) => Traced(k)'
  BY <1>1, BusTypes DEF Traced, M!Visible
<1>3. /\ jobs' \in [M!Jobs -> Nat] /\ failedJobs' \in [M!Jobs -> Nat] /\ ignored' \subseteq Keys
      /\ letter' \in [Keys -> {"none", "OPEN", "RESOLVED"}]
      /\ delivery' \in [Workers -> M!DeliveryStatuses]
      /\ \A v \in Workers \ {w} : delivery'[v] = delivery[v]
  BY BusTypes DEF BusInv, M!TypeOK
<1> QED BY <1>1, <1>2, <1>3, OutsideStoreKeeps

LEMMA HandlerPanicsKeeps ==
    ASSUME BusInv, M!BusAssumption, NEW w \in Workers, M!HandlerPanics(w) PROVE BusInv'
<1>1. "RETRYABLE" \in M!Classes
  BY DEF M!Classes
<1> QED BY <1>1, FailingKeeps DEF M!HandlerPanics

LEMMA FailWithKeeps ==
    ASSUME BusInv, M!BusAssumption, NEW w \in Workers, NEW c \in M!Classes, M!FailWith(w, c)
    PROVE  BusInv'
BY FailingKeeps DEF M!FailWith

LEMMA HandleMessageFailureKeeps ==
    ASSUME BusInv, M!BusAssumption, NEW w \in Workers, M!HandleMessageFailure(w) PROVE BusInv'
<1>1. pc[w] = "idle" /\ UNCHANGED M!Once!vars
  BY BusTypes DEF M!HandleMessageFailure, M!store, M!Once!vars
<1>2. CASE M!JobFails(w)
  BY <1>1, <1>2, JobFailsKeeps DEF M!HandleMessageFailure
<1>3. ASSUME NEW s \in {"retry", "bury"}, NEW d \in M!DeliveryStatuses,
             s = "retry" => M!ShouldRetry(class[w], attempt[w]),
             M!FinishDelivery(w, d), jobStage' = [jobStage EXCEPT ![w] = s],
             class' = [class EXCEPT ![w] = "RETRYABLE"], UNCHANGED <<attempt, failedJobs>>
      PROVE  BusInv'
  <2>1. UNCHANGED <<sent, jobs, letter, handled, discarded, ignored>>
    BY DEF M!HandleMessageFailure
  <2>2. /\ attempt' = [attempt EXCEPT ![w] = attempt[w]] /\ attempt[w] \in M!Attempts
        /\ class' \in [Workers -> M!Classes] /\ s \in M!Stages \ {"once"} /\ s # "idle"
        /\ delivery' \in [Workers -> M!DeliveryStatuses]
        /\ \A v \in Workers \ {w} : delivery'[v] = delivery[v]
        /\ \A k \in Keys : Traced(k) => Traced(k)'
    BY <1>3, <2>1, BusTypes DEF M!Classes, M!Stages, Traced, M!Visible, M!FinishDelivery
  <2>3. s = "retry" => attempt[w] < MaxAttempts
    BY <1>3 DEF M!ShouldRetry
  <2>4. /\ jobs' \in [M!Jobs -> Nat] /\ failedJobs' \in [M!Jobs -> Nat] /\ ignored' \subseteq Keys
        /\ letter' \in [Keys -> {"none", "OPEN", "RESOLVED"}]
    BY <1>3, <2>1, BusTypes DEF BusInv, M!TypeOK
  <2> QED BY <1>1, <1>3, <2>1, <2>2, <2>3, <2>4, OutsideStoreKeeps
<1> QED BY <1>2, <1>3 DEF M!HandleMessageFailure, M!DeliveryStatuses

LEMMA ScheduleMessageRetryKeeps ==
    ASSUME BusInv, M!BusAssumption, NEW w \in Workers, M!ScheduleMessageRetry(w) PROVE BusInv'
<1>1. pc[w] = "idle" /\ UNCHANGED M!Once!vars /\ jobStage[w] = "retry"
      /\ UNCHANGED <<sent, letter, handled, discarded, ignored>>
  BY BusTypes DEF M!ScheduleMessageRetry, M!store, M!Once!vars
<1>2. CASE M!JobFails(w) /\ UNCHANGED jobs
  BY <1>1, <1>2, JobFailsKeeps
<1>3. CASE /\ jobs' = M!Add(jobs, <<key[w], attempt[w] + 1>>) /\ M!Rest(w)
           /\ UNCHANGED <<delivery, failedJobs>>
  <2> DEFINE j == <<key[w], attempt[w] + 1>>
  <2>1. attempt[w] + 1 \in M!Attempts /\ key[w] \in Keys /\ j \in M!Jobs
    BY <1>1, WorkersJob DEF BusInv, StagesFit, M!Attempts, M!BusAssumption, M!Jobs
  <2>2. /\ jobs' \in [M!Jobs -> Nat] /\ jobs'[j] > 0
        /\ \A i \in M!Jobs : jobs'[i] >= jobs[i] /\ failedJobs'[i] >= failedJobs[i]
    <3>1. jobs' = M!Add(jobs, j) /\ failedJobs' = failedJobs
      BY <1>3
    <3> HIDE DEF j
    <3>2. jobs' \in [M!Jobs -> Nat] /\ jobs'[j] > 0
      BY <2>1, <3>1, Counting
    <3>3. \A i \in M!Jobs : jobs'[i] >= jobs[i]
      BY <2>1, <3>1, Counting
    <3>4. \A i \in M!Jobs : failedJobs'[i] >= failedJobs[i]
      BY <3>1, BusTypes
    <3> QED BY <3>2, <3>3, <3>4
  <2>3. \A k \in Keys : Traced(k) => Traced(k)'
    BY <1>1, <1>3, <2>2, BusTypes, TracesGrow
  <2>4. (\A q \in {key[w]} : Traced(q)')
    BY <2>1, <2>2 DEF Traced
  <2>5. /\ "idle" \in M!Stages \ {"once"} /\ 1 \in M!Attempts /\ class' \in [Workers -> M!Classes]
        /\ jobStage' = [jobStage EXCEPT ![w] = "idle"] /\ attempt' = [attempt EXCEPT ![w] = 1]
    BY <1>3, <2>1, BusTypes DEF M!Stages, M!Classes, M!Attempts, M!BusAssumption, M!Rest
  <2> QED BY <1>1, <1>3, <2>2, <2>3, <2>4, <2>5, BusTypes, OutsideStoreKeeps DEF BusInv, M!TypeOK
<1> QED BY <1>2, <1>3 DEF M!ScheduleMessageRetry

LEMMA CreateDeadLetterKeeps ==
    ASSUME BusInv, M!BusAssumption, NEW w \in Workers, M!CreateDeadLetter(w) PROVE BusInv'
<1>1. pc[w] = "idle" /\ UNCHANGED M!Once!vars /\ UNCHANGED <<sent, jobs, handled, discarded, ignored>>
  BY BusTypes DEF M!CreateDeadLetter, M!store, M!Once!vars
<1>2. CASE M!JobFails(w) /\ UNCHANGED letter
  BY <1>1, <1>2, JobFailsKeeps
<1>3. CASE /\ letter' = [letter EXCEPT ![key[w]] = "OPEN"] /\ M!Rest(w)
           /\ UNCHANGED <<delivery, failedJobs>>
  <2>1. key[w] \in Keys /\ 1 \in M!Attempts
    BY WorkersJob DEF M!Attempts, M!BusAssumption
  <2>2. /\ letter' \in [Keys -> {"none", "OPEN", "RESOLVED"}] /\ letter'[key[w]] = "OPEN"
        /\ \A k \in Keys : letter[k] # "none" => letter'[k] # "none"
    BY <1>3, <2>1, BusTypes
  <2>3. (\A q \in {key[w]} : Traced(q)') /\ \A k \in Keys : Traced(k) => Traced(k)'
    BY <1>1, <1>3, <2>1, <2>2 DEF Traced, M!Visible
  <2>4. /\ "idle" \in M!Stages \ {"once"} /\ class' \in [Workers -> M!Classes]
        /\ jobStage' = [jobStage EXCEPT ![w] = "idle"] /\ attempt' = [attempt EXCEPT ![w] = 1]
    BY <1>3, BusTypes DEF M!Stages, M!Classes, M!Rest
  <2> QED BY <1>1, <1>3, <2>1, <2>2, <2>3, <2>4, BusTypes, OutsideStoreKeeps DEF BusInv, M!TypeOK
<1> QED BY <1>2, <1>3 DEF M!CreateDeadLetter

LEMMA CrashKeeps ==
    ASSUME BusInv, M!BusAssumption, NEW w \in Workers, M!Crash(w) PROVE BusInv'
<1>1. /\ jobs' = M!Add(jobs, M!JobOf(w)) /\ M!Rest(w) /\ delivery' = [delivery EXCEPT ![w] = "none"]
      /\ UNCHANGED <<sent, failedJobs, letter, handled, discarded, ignored>>
      /\ M!Once!Abandon(w) \/ M!Once!Return(w) \/ (pc[w] = "idle" /\ UNCHANGED M!Once!vars)
  BY DEF M!Crash, M!store, M!Once!vars
<1>2. /\ "idle" \in M!Stages \ {"once"} /\ class' \in [Workers -> M!Classes] /\ 1 \in M!Attempts
      /\ jobStage' = [jobStage EXCEPT ![w] = "idle"] /\ attempt' = [attempt EXCEPT ![w] = 1]
      /\ delivery' \in [Workers -> M!DeliveryStatuses]
      /\ \A v \in Workers \ {w} : delivery'[v] = delivery[v]
  BY <1>1, BusTypes, WorkersJob DEF M!Stages, M!Classes, M!Rest, M!Attempts, M!BusAssumption, M!DeliveryStatuses
<1> QED BY <1>1, <1>2, EndTraced, BusTypes, OutsideStoreKeeps DEF BusInv, M!TypeOK

LEMMA SettleKeeps ==
    ASSUME BusInv, M!BusAssumption, NEW w \in Workers, M!Settle(w) PROVE BusInv'
<1>1. M!Once!Return(w) /\ UNCHANGED <<sent, jobs, letter, handled, discarded>>
      /\ pc[w] = "done" /\ jobStage[w] = "once" /\ rep[w].kind # "error"
  BY DEF M!Settle
<1>2. CASE M!JobFails(w) /\ UNCHANGED ignored
  BY <1>1, <1>2, JobFailsKeeps
<1>3. CASE /\ M!FinishDelivery(w, M!DeliveryStatus(rep[w])) /\ M!Rest(w) /\ UNCHANGED failedJobs
           /\ ignored' = ignored \union {k \in {key[w]} : M!DeliveryStatus(rep[w]) = "IGNORED"}
  <2>1. key[w] \in Keys /\ 1 \in M!Attempts
    BY WorkersJob DEF M!Attempts, M!BusAssumption
  <2>2. (\A q \in {key[w]} : Traced(q)') \/ Yielding(w)
    BY <1>1, <1>3 DEF BusInv, ReportsAreTrue, ReportIsTrue, M!DeliveryStatus, Traced, Yielding
  <2>3. \A k \in Keys : Traced(k) => Traced(k)'
    BY <1>1, <1>3 DEF Traced, M!Visible
  <2>4. /\ "idle" \in M!Stages \ {"once"} /\ class' \in [Workers -> M!Classes]
        /\ jobStage' = [jobStage EXCEPT ![w] = "idle"] /\ attempt' = [attempt EXCEPT ![w] = 1]
        /\ delivery' \in [Workers -> M!DeliveryStatuses]
        /\ \A v \in Workers \ {w} : delivery'[v] = delivery[v]
    BY <1>3, BusTypes
       DEF M!Stages, M!Classes, M!Rest, M!FinishDelivery, M!DeliveryStatus, M!DeliveryStatuses
  <2>5. ignored' \subseteq Keys
    BY <1>3, <2>1 DEF BusInv, M!TypeOK
  <2> QED BY <1>1, <1>3, <2>1, <2>2, <2>3, <2>4, <2>5, BusTypes, OutsideStoreKeeps DEF BusInv, M!TypeOK
<1> QED BY <1>2, <1>3 DEF M!Settle

\* A job is taken from the queue: what it stood for has a worker or a failed job now.
LEMMA TakenJob ==
    ASSUME BusInv, NEW j \in M!Jobs, jobs[j] > 0, jobs' = M!Remove(jobs, j),
           UNCHANGED <<failedJobs, letter, handled, discarded, ignored>>
    PROVE  /\ jobs' \in [M!Jobs -> Nat]
           /\ \A k \in Keys : k # j[1] => (Traced(k) => Traced(k)')
<1>1. \A k \in Keys, n \in M!Attempts : k # j[1] => <<k, n>> \in M!Jobs /\ <<k, n>> # j
  BY DEF M!Jobs
<1>2. \A k \in Keys, n \in M!Attempts : k # j[1] => jobs'[<<k, n>>] = jobs[<<k, n>>]
  BY <1>1, Counting
<1> QED BY <1>2, Counting DEF Traced, M!Visible

LEMMA ReceiveKeeps ==
    ASSUME BusInv, M!BusAssumption, NEW w \in Workers, NEW q \in Keys, NEW n \in M!Attempts,
           M!Receive(w, q, n)
    PROVE  BusInv'
<1>1. /\ jobStage[w] = "idle" /\ jobs[<<q, n>>] > 0 /\ jobs' = M!Remove(jobs, <<q, n>>)
      /\ M!Once!Begin(w, q) /\ jobStage' = [jobStage EXCEPT ![w] = "once"] /\ attempt' = [attempt EXCEPT ![w] = n]
      /\ delivery' = [delivery EXCEPT ![w] = "PROCESSING"]
      /\ UNCHANGED <<class, sent, failedJobs, letter, handled, discarded, ignored>>
  BY DEF M!Receive
<1>2. /\ UNCHANGED M!Once!table /\ pc' = [pc EXCEPT ![w] = "read"] /\ key' = [key EXCEPT ![w] = q]
      /\ rep' = rep
  BY <1>1 DEF M!Once!Begin
<1>3. M!Once!TypeOK'
  <2>1. [M!Once!Next]_M!Once!vars
    BY <1>1 DEF M!Once!Next
  <2> QED BY <2>1, BusTypes, TypeStep
<1>4. <<q, n>> \in M!Jobs /\ <<q, n>>[1] = q
  BY DEF M!Jobs
<1>5. jobs' \in [M!Jobs -> Nat] /\ \A k \in Keys \ {q} : Traced(k) => Traced(k)'
  BY <1>1, <1>4, TakenJob
<1>6. M!TypeOK'
  <2>1. jobStage' \in [Workers -> M!Stages] /\ attempt' \in [Workers -> M!Attempts]
        /\ delivery' \in [Workers -> M!DeliveryStatuses]
        /\ \A v \in Workers \ {w} : delivery'[v] = delivery[v]
    BY <1>1, BusTypes DEF M!Stages, M!DeliveryStatuses
  <2>2. \A v \in Workers : jobStage'[v] # "once" <=> pc'[v] = "idle"
    BY <1>1, <1>2, BusTypes
  <2> QED BY <1>1, <1>3, <1>5, <2>1, <2>2 DEF BusInv, M!TypeOK, M!JobCount
<1>7. ReportsAreTrue' /\ StagesFit'
  BY <1>1, <1>2, BusTypes DEF BusInv, ReportsAreTrue, ReportIsTrue, StagesFit
<1>8. TakenIsCounted' /\ EnqueuedIsCounted'
  <2>1. /\ jobStage'[w] = "once" /\ pc'[w] = "read" /\ key'[w] = q /\ UNCHANGED <<sent, rowStatus>>
        /\ \A v \in Workers \ {w} :
             pc'[v] = pc[v] /\ key'[v] = key[v] /\ rep'[v] = rep[v] /\ jobStage'[v] = jobStage[v]
    BY <1>1, <1>2, BusTypes DEF M!Once!table
  <2>2. Counted(q)'
    BY <2>1 DEF Counted, Yielding
  <2> QED BY <1>1, <1>5, <2>1, <2>2, OneKeyMoves DEF BusInv
<1> QED BY <1>6, <1>7, <1>8 DEF BusInv

LEMMA ReceiveRejectedKeeps ==
    ASSUME BusInv, M!BusAssumption, NEW w \in Workers, NEW q \in Keys, NEW n \in M!Attempts,
           M!ReceiveRejected(w, q, n)
    PROVE  BusInv'
<1>1. /\ jobStage[w] = "idle" /\ jobs[<<q, n>>] > 0 /\ jobs' = M!Remove(jobs, <<q, n>>)
      /\ key' = [key EXCEPT ![w] = q]
      /\ jobStage' = [jobStage EXCEPT ![w] = "bury"] /\ attempt' = [attempt EXCEPT ![w] = n]
      /\ delivery' = [delivery EXCEPT ![w] = "DEAD_LETTERED"]
      /\ UNCHANGED <<rowStatus, rowResult, token, lease, pc, claim, left, rep>>
      /\ UNCHANGED <<class, sent, failedJobs, letter, handled, discarded, ignored>>
  BY DEF M!ReceiveRejected
<1>2. M!Once!TypeOK'
  BY <1>1, BusTypes DEF M!Once!TypeOK
<1>3. <<q, n>> \in M!Jobs /\ <<q, n>>[1] = q
  BY DEF M!Jobs
<1>4. jobs' \in [M!Jobs -> Nat] /\ \A k \in Keys \ {q} : Traced(k) => Traced(k)'
  BY <1>1, <1>3, TakenJob
<1>5. M!TypeOK'
  <2>1. jobStage' \in [Workers -> M!Stages] /\ attempt' \in [Workers -> M!Attempts]
        /\ delivery' \in [Workers -> M!DeliveryStatuses]
        /\ \A v \in Workers \ {w} : delivery'[v] = delivery[v]
    BY <1>1, BusTypes DEF M!Stages, M!DeliveryStatuses
  <2>2. \A v \in Workers : jobStage'[v] # "once" <=> pc'[v] = "idle"
    BY <1>1, BusTypes
  <2> QED BY <1>1, <1>2, <1>4, <2>1, <2>2 DEF BusInv, M!TypeOK, M!JobCount
<1>6. ReportsAreTrue' /\ StagesFit'
  BY <1>1, BusTypes DEF BusInv, ReportsAreTrue, ReportIsTrue, StagesFit
<1>7. TakenIsCounted' /\ EnqueuedIsCounted'
  <2>1. /\ jobStage'[w] = "bury" /\ key'[w] = q
        /\ \A v \in Workers \ {w} :
             pc'[v] = pc[v] /\ key'[v] = key[v] /\ rep'[v] = rep[v] /\ jobStage'[v] = jobStage[v]
    BY <1>1, BusTypes
  <2>2. Counted(q)'
    BY <2>1 DEF Counted, Yielding
  <2> QED BY <1>1, <1>4, <2>1, <2>2, OneKeyMoves DEF BusInv
<1> QED BY <1>5, <1>6, <1>7 DEF BusInv

LEMMA HandlerSucceedsKeeps ==
    ASSUME BusInv, M!BusAssumption, NEW w \in Workers, M!HandlerSucceeds(w) PROVE BusInv'
<1> DEFINE q == key[w]
<1>1. PICK r \in Results : M!Once!RunHandler(w, "success", r)
  BY DEF M!HandlerSucceeds
<1>2. /\ jobStage[w] = "once" /\ handled' = handled \union {q} /\ q \in Keys
      /\ UNCHANGED <<sent, jobs, failedJobs, jobStage, attempt, class, delivery>>
      /\ UNCHANGED <<letter, discarded, ignored>>
  BY WorkersJob DEF M!HandlerSucceeds, M!consume
<1>3. /\ UNCHANGED <<M!Once!table, key>> /\ pc' = [pc EXCEPT ![w] = "finish"]
      /\ rep' = [rep EXCEPT ![w] = [kind |-> "own", status |-> "success", result |-> r]]
  BY <1>1 DEF M!Once!RunHandler, M!Once!GotoWith
<1>4. M!Once!TypeOK'
  <2>1. [M!Once!Next]_M!Once!vars
    BY <1>1 DEF M!Once!Next, M!Once!WorkerStep
  <2> QED BY <2>1, BusTypes, TypeStep
<1>5. M!TypeOK'
  <2>1. \A v \in Workers : jobStage'[v] # "once" <=> pc'[v] = "idle"
    BY <1>2, <1>3, BusTypes
  <2>2. handled' \subseteq Keys
    BY <1>2 DEF BusInv, M!TypeOK
  <2> QED BY <1>2, <1>4, <2>1, <2>2 DEF BusInv, M!TypeOK
<1>6. StagesFit'
  BY <1>2 DEF BusInv, StagesFit
<1>7. ReportsAreTrue'
  BY <1>2, <1>3, BusTypes DEF BusInv, ReportsAreTrue, ReportIsTrue
<1>8. TakenIsCounted' /\ EnqueuedIsCounted'
  <2>1. Counted(q)' /\ \A k \in Keys : Traced(k) => Traced(k)'
    BY <1>2, <1>3 DEF Counted, Traced, M!Visible
  <2>2. /\ key'[w] = q /\ rowStatus' = rowStatus
        /\ \A v \in Workers \ {w} :
             pc'[v] = pc[v] /\ key'[v] = key[v] /\ rep'[v] = rep[v] /\ jobStage'[v] = jobStage[v]
    BY <1>2, <1>3, BusTypes DEF M!Once!table
  <2> QED BY <1>2, <2>1, <2>2, OneKeyMoves DEF BusInv
<1> QED BY <1>5, <1>6, <1>7, <1>8 DEF BusInv

-------------------------------------------------------------------------------
\* Steps that move no worker and leave the store's rows as they are.
LEMMA NoWorkerKeeps ==
    ASSUME BusInv, M!TypeOK', UNCHANGED <<pc, key, rep, rowStatus, jobStage, attempt, delivery, handled>>,
           \A k \in Keys : Traced(k) => Traced(k)',
           \A k \in Keys : M!Enqueued(k)' => M!Enqueued(k) \/ Traced(k)'
    PROVE  BusInv'
<1>1. ReportsAreTrue' /\ StagesFit'
  BY DEF BusInv, ReportsAreTrue, ReportIsTrue, StagesFit
<1> QED BY <1>1, NoWorkerMoves DEF BusInv

LEMMA StartDispatchKeeps ==
    ASSUME BusInv, M!BusAssumption, NEW d \in Dispatches, M!StartDispatch(d) PROVE BusInv'
<1>1. /\ sent[d] = -1 /\ sent' = [sent EXCEPT ![d] = 0]
      /\ UNCHANGED <<M!Once!vars, jobs, failedJobs, jobStage, attempt, class, delivery>>
      /\ UNCHANGED <<letter, handled, discarded, ignored>>
  BY DEF M!StartDispatch, M!store, M!consume, M!Once!vars
<1>2. sent \in [Dispatches -> -1..Len(Consumers)] /\ Len(Consumers) \in Nat
  BY DEF BusInv, M!TypeOK, M!BusAssumption
<1>3. M!Once!TypeOK'
  BY <1>1, BusTypes DEF M!Once!TypeOK, M!Once!vars
<1>4. M!TypeOK'
  BY <1>1, <1>2, <1>3 DEF BusInv, M!TypeOK, M!Once!vars
<1>5. \A k \in Keys : Traced(k) => Traced(k)'
  BY <1>1 DEF Traced, M!Visible
<1>6. \A k \in Keys : M!Enqueued(k)' => M!Enqueued(k)
  BY <1>1, <1>2 DEF M!Enqueued
<1> QED BY <1>1, <1>4, <1>5, <1>6, NoWorkerKeeps DEF M!Once!vars

LEMMA DispatchNextKeeps ==
    ASSUME BusInv, M!BusAssumption, NEW d \in Dispatches, M!DispatchNext(d) PROVE BusInv'
<1> DEFINE q == Consumers[sent[d] + 1]
<1>1. /\ sent[d] \in 0..(Len(Consumers) - 1) /\ sent' = [sent EXCEPT ![d] = sent[d] + 1]
      /\ jobs' = M!Add(jobs, <<q, 1>>)
      /\ UNCHANGED <<M!Once!vars, failedJobs, jobStage, attempt, class, delivery>>
      /\ UNCHANGED <<letter, handled, discarded, ignored>>
  BY DEF M!DispatchNext, M!store, M!consume, M!Once!vars
<1>2. sent \in [Dispatches -> -1..Len(Consumers)] /\ Len(Consumers) \in Nat
  BY DEF BusInv, M!TypeOK, M!BusAssumption
<1>3. q \in Keys /\ 1 \in M!Attempts /\ <<q, 1>> \in M!Jobs
  BY <1>1, <1>2 DEF M!BusAssumption, M!Attempts, M!Jobs
<1>4. jobs' \in [M!Jobs -> Nat] /\ jobs'[<<q, 1>>] > 0 /\ \A i \in M!Jobs : jobs'[i] >= jobs[i]
  BY <1>1, <1>3, Counting
<1>5. sent' \in [Dispatches -> -1..Len(Consumers)]
  BY <1>1, <1>2
<1>6. M!Once!TypeOK'
  BY <1>1, BusTypes DEF M!Once!TypeOK, M!Once!vars
<1>7. M!TypeOK'
  BY <1>1, <1>4, <1>5, <1>6 DEF BusInv, M!TypeOK, M!JobCount, M!Once!vars
<1>8. \A k \in Keys : Traced(k) => Traced(k)'
  <2>1. failedJobs' \in [M!Jobs -> Nat] /\ \A i \in M!Jobs : failedJobs'[i] >= failedJobs[i]
    BY <1>1, BusTypes
  <2>2. /\ handled \subseteq handled' /\ ignored \subseteq ignored' /\ discarded \subseteq discarded'
        /\ \A k \in Keys : letter[k] # "none" => letter'[k] # "none"
    BY <1>1
  <2>3. jobs' \in [M!Jobs -> Nat] /\ \A i \in M!Jobs : jobs'[i] >= jobs[i]
    BY <1>4
  <2> QED BY <2>1, <2>2, <2>3, TracesGrow
<1>9. \A x \in {q} : Traced(x)'
  BY <1>3, <1>4 DEF Traced
<1>10. ASSUME NEW k \in Keys, k # q PROVE M!Enqueued(k)' => M!Enqueued(k)
  BY <1>1, <1>2, <1>10 DEF M!Enqueued
<1> QED BY <1>1, <1>7, <1>8, <1>9, <1>10, NoWorkerKeeps DEF M!Once!vars

LEMMA ReceiveErrorKeeps ==
    ASSUME BusInv, NEW q \in Keys, NEW n \in M!Attempts, M!ReceiveError(q, n) PROVE BusInv'
<1>1. /\ jobs[<<q, n>>] > 0 /\ jobs' = M!Remove(jobs, <<q, n>>)
      /\ failedJobs' = M!Add(failedJobs, <<q, n>>)
      /\ UNCHANGED <<M!Once!vars, sent, jobStage, attempt, class, delivery>>
      /\ UNCHANGED <<letter, handled, discarded, ignored>>
  BY DEF M!ReceiveError, M!store, M!consume, M!Once!vars
<1>2. <<q, n>> \in M!Jobs
  BY DEF M!Jobs
<1>3. /\ jobs' \in [M!Jobs -> Nat] /\ failedJobs' \in [M!Jobs -> Nat]
      /\ failedJobs'[<<q, n>>] > 0
      /\ \A i \in M!Jobs : failedJobs'[i] >= failedJobs[i] /\ (i # <<q, n>> => jobs'[i] = jobs[i])
  BY <1>1, <1>2, Counting
<1>4. M!Once!TypeOK'
  BY <1>1, BusTypes DEF M!Once!TypeOK, M!Once!vars
<1>5. M!TypeOK'
  BY <1>1, <1>3, <1>4 DEF BusInv, M!TypeOK, M!JobCount, M!Once!vars
<1>6. \A k \in Keys : Traced(k) => Traced(k)'
  <2> SUFFICES ASSUME NEW k \in Keys, Traced(k) PROVE Traced(k)'
    OBVIOUS
  <2>1. CASE k = q
    BY <1>3, <2>1 DEF Traced, M!Visible
  <2>2. CASE k # q
    <3>1. ASSUME NEW m \in M!Attempts
          PROVE  /\ jobs[<<k, m>>] > 0 => jobs'[<<k, m>>] > 0
                 /\ failedJobs[<<k, m>>] > 0 => failedJobs'[<<k, m>>] > 0
      <4>1. <<k, m>> \in M!Jobs /\ <<k, m>> # <<q, n>>
        BY <2>2 DEF M!Jobs
      <4> QED BY <1>3, <4>1, BusTypes
    <3> QED BY <1>1, <3>1 DEF Traced, M!Visible
  <2> QED BY <2>1, <2>2
<1>7. \A k \in Keys : M!Enqueued(k)' => M!Enqueued(k)
  BY <1>1 DEF M!Enqueued
<1> QED BY <1>1, <1>5, <1>6, <1>7, NoWorkerKeeps DEF M!Once!vars

LEMMA FailedJobTaken ==
    ASSUME BusInv, NEW j \in M!Jobs, failedJobs[j] > 0, failedJobs' = M!Remove(failedJobs, j),
           \/ jobs' = M!Add(jobs, j) /\ UNCHANGED discarded
           \/ UNCHANGED jobs /\ discarded' = discarded \union {j[1]},
           UNCHANGED <<M!Once!vars, sent, jobStage, attempt, class, delivery>>,
           UNCHANGED <<letter, handled, ignored>>
    PROVE  BusInv'
<1>1. PICK q \in Keys, n \in M!Attempts : j = <<q, n>> /\ j[1] = q
  BY DEF M!Jobs
<1>2. /\ jobs' \in [M!Jobs -> Nat] /\ failedJobs' \in [M!Jobs -> Nat]
      /\ \A i \in M!Jobs : jobs'[i] >= jobs[i] /\ (i # j => failedJobs'[i] = failedJobs[i])
      /\ jobs'[j] > 0 \/ q \in discarded'
  <2>1. failedJobs' \in [M!Jobs -> Nat] /\ \A i \in M!Jobs : i # j => failedJobs'[i] = failedJobs[i]
    BY Counting
  <2>2. CASE jobs' = M!Add(jobs, j)
    BY <2>1, <2>2, Counting
  <2>3. CASE jobs' = jobs /\ discarded' = discarded \union {j[1]}
    BY <1>1, <2>1, <2>3, BusTypes
  <2> QED BY <2>2, <2>3
<1>3. discarded' \subseteq Keys /\ discarded \subseteq discarded'
  BY <1>1 DEF BusInv, M!TypeOK
<1>4. M!Once!TypeOK'
  BY BusTypes DEF M!Once!TypeOK, M!Once!vars
<1>5. M!TypeOK'
  BY <1>2, <1>3, <1>4 DEF BusInv, M!TypeOK, M!JobCount, M!Once!vars
<1>6. \A k \in Keys : Traced(k) => Traced(k)'
  <2> SUFFICES ASSUME NEW k \in Keys, Traced(k) PROVE Traced(k)'
    OBVIOUS
  <2>1. CASE k = q
    BY <1>1, <1>2, <2>1 DEF Traced, M!Visible
  <2>2. CASE k # q
    <3>1. ASSUME NEW m \in M!Attempts
          PROVE  /\ jobs[<<k, m>>] > 0 => jobs'[<<k, m>>] > 0
                 /\ failedJobs[<<k, m>>] > 0 => failedJobs'[<<k, m>>] > 0
      <4>1. <<k, m>> \in M!Jobs /\ <<k, m>> # j
        BY <1>1, <2>2 DEF M!Jobs
      <4> QED BY <1>2, <4>1, BusTypes
    <3> QED BY <1>3, <3>1 DEF Traced, M!Visible
  <2> QED BY <2>1, <2>2
<1>7. \A k \in Keys : M!Enqueued(k)' => M!Enqueued(k)
  BY DEF M!Enqueued
<1> QED BY <1>5, <1>6, <1>7, NoWorkerKeeps DEF M!Once!vars

LEMMA OperatorKeeps ==
    ASSUME BusInv,
           \/ \E j \in M!Jobs : M!RetryFailedJob(j) \/ M!DeleteFailedJob(j)
           \/ \E k \in Keys : M!ResolveDeadLetter(k)
    PROVE  BusInv'
<1>1. ASSUME NEW j \in M!Jobs, M!RetryFailedJob(j) \/ M!DeleteFailedJob(j) PROVE BusInv'
  BY <1>1, FailedJobTaken DEF M!RetryFailedJob, M!DeleteFailedJob, M!store, M!consume, M!Once!vars
<1>2. ASSUME NEW q \in Keys, M!ResolveDeadLetter(q) PROVE BusInv'
  <2>1. /\ letter[q] = "OPEN" /\ letter' = [letter EXCEPT ![q] = "RESOLVED"]
        /\ UNCHANGED <<M!Once!vars, sent, jobs, failedJobs, jobStage, attempt, class, delivery>>
        /\ UNCHANGED <<handled, discarded, ignored>>
    BY <1>2 DEF M!ResolveDeadLetter, M!store, M!consume, M!Once!vars
  <2>2. /\ letter' \in [Keys -> {"none", "OPEN", "RESOLVED"}]
        /\ \A k \in Keys : letter[k] # "none" => letter'[k] # "none"
    BY <2>1, BusTypes
  <2>3. M!Once!TypeOK'
    BY <2>1, BusTypes DEF M!Once!TypeOK, M!Once!vars
  <2>4. M!TypeOK'
    BY <2>1, <2>2, <2>3 DEF BusInv, M!TypeOK, M!Once!vars
  <2>5. \A k \in Keys : (Traced(k) => Traced(k)') /\ (M!Enqueued(k)' => M!Enqueued(k))
    BY <2>1, <2>2 DEF Traced, M!Visible, M!Enqueued
  <2> QED BY <2>1, <2>4, <2>5, NoWorkerKeeps DEF M!Once!vars
<1> QED BY <1>1, <1>2

LEMMA BusTickKeeps == ASSUME BusInv, M!Tick PROVE BusInv'
<1>1. /\ M!Once!Tick /\ UNCHANGED <<sent, jobs, failedJobs, jobStage, attempt, class, delivery>>
      /\ UNCHANGED <<letter, handled, discarded, ignored>>
  BY DEF M!Tick, M!consume
<1>2. UNCHANGED <<pc, key, rep, rowStatus>>
  BY <1>1 DEF M!Once!Tick
<1>3. M!Once!TypeOK'
  <2>1. M!Once!Next
    BY <1>1 DEF M!Once!Next
  <2> QED BY <2>1, BusTypes, TypeStep
<1>4. M!TypeOK'
  BY <1>1, <1>2, <1>3 DEF BusInv, M!TypeOK
<1>5. \A k \in Keys : (Traced(k) => Traced(k)') /\ (M!Enqueued(k)' => M!Enqueued(k))
  BY <1>1 DEF Traced, M!Visible, M!Enqueued
<1> QED BY <1>1, <1>2, <1>4, <1>5, NoWorkerKeeps

-------------------------------------------------------------------------------
LEMMA BusStep == ASSUME M!BusAssumption PROVE BusInv /\ [M!Next]_M!vars => BusInv'
<1>1. ASSUME BusInv, NEW w \in Workers, M!Consume(w) PROVE BusInv'
  BY <1>1, ReceiveKeeps, ReceiveRejectedKeeps, OnceStepKeeps, HandlerSucceedsKeeps,
     HandlerPanicsKeeps, SettleKeeps, FailWithKeeps, HandleMessageFailureKeeps,
     ScheduleMessageRetryKeeps, CreateDeadLetterKeeps, CrashKeeps
  DEF M!Consume
<1>2. ASSUME BusInv, M!Next PROVE BusInv'
  BY <1>1, <1>2, StartDispatchKeeps, DispatchNextKeeps, ReceiveErrorKeeps, OperatorKeeps, BusTickKeeps
  DEF M!Next, M!ReplayDeadLetter
<1>3. ASSUME BusInv, UNCHANGED M!vars PROVE BusInv'
  <2>1. UNCHANGED <<M!Once!vars, sent, jobs, failedJobs, jobStage, attempt, class, delivery>>
        /\ UNCHANGED <<letter, handled, discarded, ignored>>
    BY <1>3 DEF M!vars, M!store, M!consume, M!Once!vars
  <2>2. M!Once!TypeOK'
    BY <1>3, <2>1, BusTypes DEF M!Once!TypeOK, M!Once!vars
  <2>3. M!TypeOK'
    BY <1>3, <2>1, <2>2 DEF BusInv, M!TypeOK, M!Once!vars
  <2>4. \A k \in Keys : (Traced(k) => Traced(k)') /\ (M!Enqueued(k)' => M!Enqueued(k))
    BY <2>1 DEF Traced, M!Visible, M!Enqueued
  <2> QED BY <1>3, <2>1, <2>3, <2>4, NoWorkerKeeps DEF M!Once!vars
<1> QED BY <1>2, <1>3

LEMMA BusFirst == ASSUME M!BusAssumption PROVE M!Init => BusInv
<1> SUFFICES ASSUME M!Init PROVE BusInv
  OBVIOUS
<1>1. M!Once!Init /\ M!Once!TypeOK
  BY TypeInit DEF M!Init
<1>2. /\ sent = [d \in Dispatches |-> -1] /\ 0 \in -1..Len(Consumers) /\ 1 \in M!Attempts
      /\ -1 \in -1..Len(Consumers)
  BY DEF M!Init, M!BusAssumption, M!Attempts
<1>3. M!TypeOK
  BY <1>1, <1>2
  DEF M!Init, M!Once!Init, M!TypeOK, M!JobCount, M!Stages, M!Classes, M!DeliveryStatuses
<1>4. ReportsAreTrue /\ StagesFit
  BY <1>1 DEF M!Init, M!Once!Init, ReportsAreTrue, ReportIsTrue, StagesFit
<1>5. TakenIsCounted
  BY <1>1 DEF M!Once!Init, TakenIsCounted
<1>6. EnqueuedIsCounted
  BY <1>2 DEF EnqueuedIsCounted, M!Enqueued
<1> QED BY <1>3, <1>4, <1>5, <1>6 DEF BusInv

\* Whatever fails - a handler, a write, an enqueue, a worker, the queue's failed jobs under
\* an operator's hands - a message that was enqueued is handled, visibly failed, still in
\* flight or was ignored as a duplicate (consumeMessage, handleMessageFailure).
THEOREM MessagesAccounted == M!Spec => []EnqueuedIsAccountedFor
<1>1. BusInv => EnqueuedIsAccountedFor
  BY DEF BusInv, EnqueuedIsCounted, Counted, MayTake, Traced, EnqueuedIsAccountedFor,
         M!EnqueuedIsAccountedFor, M!InFlight
<1>2. M!Init => BusInv
  BY BusFirst, BusAssumption
<1>3. BusInv /\ [M!Next]_M!vars => BusInv'
  BY BusStep, BusAssumption
<1> QED BY <1>1, <1>2, <1>3, PTL DEF M!Spec

\* A delivery row says SUCCEEDED only for a message that was handled, or in the hands of a
\* worker that lost the race for a failed row.
THEOREM SuccessIsTrue == M!Spec => SucceededWasHandledOrLost
<1>1. BusInv => \A w \in Workers : M!SettlesRightly(w)
  <2> SUFFICES ASSUME BusInv, NEW w \in Workers, key[w] \notin handled, delivery'[w] = "SUCCEEDED",
                      M!Settle(w)
               PROVE  rep[w].kind = "lost" /\ rep[w].status = "failed"
    BY DEF M!SettlesRightly
  <2> QED BY BusTypes DEF M!Settle, BusInv, ReportsAreTrue, ReportIsTrue, StagesFit, M!FinishDelivery,
                M!DeliveryStatus, M!JobFails
<1>2. M!Init => BusInv
  BY BusFirst, BusAssumption
<1>3. BusInv /\ [M!Next]_M!vars => BusInv'
  BY BusStep, BusAssumption
<1> QED BY <1>1, <1>2, <1>3, PTL DEF M!Spec, SucceededWasHandledOrLost, M!SucceededWasHandledOrLost

-----------------------------------------------------------------------------
(* The log of operations. *)

Accepted(r) == \E i \in 1..Len(channel) : channel[i] = r

\* The channel is closed by a shutdown only, and the goroutine ends when it is empty.
ShutdownInOrder ==
  /\ closed => stopping
  /\ worker = "done" => stopping /\ channel = <<>>
  /\ ~started => channel = <<>> /\ worker \in {"none", "done"}
  /\ \A r \in LogRecords : dispatch[r] = "send" => started

\* A record is in one place: with its request, in the channel, with the goroutine, written.
RecordsInPlace ==
  /\ \A i, j \in 1..Len(channel) : channel[i] = channel[j] => i = j
  /\ \A r \in LogRecords :
       /\ dispatch[r] # "returned" => ~Accepted(r) /\ worker # r /\ written[r] = 0
       /\ Accepted(r) => worker # r /\ written[r] = 0
       /\ worker = r => written[r] = 0
       /\ dispatch[r] = "returned" => Accepted(r) \/ worker = r \/ written[r] = 1
       /\ written[r] <= 1

LogInv == L!TypeOK /\ ~panicked /\ ShutdownInOrder /\ RecordsInPlace

LEMMA LogFirst == L!Init => LogInv
<1> SUFFICES ASSUME L!Init PROVE LogInv
  OBVIOUS
<1>1. channel = <<>> /\ worker = "none" /\ worker \notin LogRecords
  BY LogAssumption DEF L!Init, L!LogAssumption
<1>2. L!TypeOK
  <2>1. channel \in Seq(LogRecords) /\ Len(channel) <= Size
    BY <1>1, LogAssumption DEF L!LogAssumption
  <2>2. written \in [LogRecords -> 0..2]
    BY DEF L!Init
  <2> QED BY <1>1, <2>1, <2>2 DEF L!Init, L!TypeOK
<1>3. ShutdownInOrder /\ RecordsInPlace
  BY <1>1 DEF L!Init, ShutdownInOrder, RecordsInPlace, Accepted
<1> QED BY <1>2, <1>3 DEF L!Init, LogInv

\* The request's part: where the record goes.
LEMMA DispatchMoves ==
  ASSUME LogInv, NEW r \in LogRecords,
         L!DispatchOperationLog(r) \/ L!DispatchStarts(r)
  PROVE  LogInv'
<1>1. PICK s \in {"queued", "start", "write", "send"} :
        /\ dispatch[r] # "returned" /\ dispatch' = [dispatch EXCEPT ![r] = s]
        /\ UNCHANGED <<stopping, channel, closed, stopper, written, panicked, configured>>
        /\ \/ UNCHANGED <<started, worker>> /\ s # "send"
           \/ /\ s = "send" /\ started' = TRUE /\ ~stopping
              /\ worker' = IF started THEN worker ELSE "idle"
  BY DEF L!DispatchOperationLog, L!DispatchStarts, L!StartWorker, L!GoTo, L!workerVars
<1>2. dispatch'[r] = s /\ \A q \in LogRecords \ {r} : dispatch'[q] = dispatch[q]
  BY <1>1 DEF LogInv, L!TypeOK
<1>3. \A q \in LogRecords : worker' = q <=> worker = q
  BY <1>1, LogAssumption DEF LogInv, ShutdownInOrder, L!LogAssumption
<1>4. L!TypeOK'
  BY <1>1 DEF LogInv, L!TypeOK
<1>5. ShutdownInOrder'
  BY <1>1, <1>2 DEF LogInv, ShutdownInOrder
<1>6. RecordsInPlace'
  BY <1>1, <1>2, <1>3 DEF LogInv, RecordsInPlace, Accepted
<1> QED BY <1>1, <1>4, <1>5, <1>6 DEF LogInv

\* It is written by the request, once.
LEMMA WrittenHere ==
  ASSUME LogInv, NEW r \in LogRecords, L!WriteHere(r) PROVE LogInv'
<1>1. /\ dispatch[r] = "write" /\ dispatch' = [dispatch EXCEPT ![r] = "returned"]
      /\ written' = [written EXCEPT ![r] = IF @ < 2 THEN @ + 1 ELSE @]
      /\ UNCHANGED <<configured, started, stopping, channel, closed, worker, stopper, panicked>>
  BY DEF L!WriteHere, L!Write, L!GoTo, L!workerVars
<1>2. written[r] = 0 /\ ~Accepted(r) /\ worker # r
  BY <1>1 DEF LogInv, RecordsInPlace
<1>3. /\ written'[r] = 1 /\ dispatch'[r] = "returned"
      /\ \A q \in LogRecords \ {r} : written'[q] = written[q] /\ dispatch'[q] = dispatch[q]
  BY <1>1, <1>2 DEF LogInv, L!TypeOK
<1>4. L!TypeOK'
  BY <1>1, <1>2 DEF LogInv, L!TypeOK
<1>5. ShutdownInOrder'
  BY <1>1, <1>3 DEF LogInv, ShutdownInOrder
<1>6. RecordsInPlace'
  BY <1>1, <1>2, <1>3 DEF LogInv, RecordsInPlace, Accepted
<1> QED BY <1>1, <1>4, <1>5, <1>6 DEF LogInv

\* The channel takes it at its end, if it is open and has room.
LEMMA Dispatched ==
  ASSUME LogInv, NEW r \in LogRecords, L!Dispatch(r) PROVE LogInv'
<1>1. /\ dispatch[r] = "send" /\ started
      /\ UNCHANGED <<configured, started, stopping, closed, worker, stopper, written>>
  BY DEF L!Dispatch, LogInv, ShutdownInOrder
<1>2. channel \in Seq(LogRecords) /\ ~Accepted(r) /\ worker # r /\ written[r] = 0
  BY <1>1 DEF LogInv, RecordsInPlace, L!TypeOK
<1>3. CASE dispatch' = [dispatch EXCEPT ![r] = "write"] /\ UNCHANGED <<channel, panicked>>
  <2>1. dispatch'[r] = "write" /\ \A q \in LogRecords \ {r} : dispatch'[q] = dispatch[q]
    BY <1>3 DEF LogInv, L!TypeOK
  <2>2. L!TypeOK'
    BY <1>1, <1>3 DEF LogInv, L!TypeOK
  <2>3. ShutdownInOrder' /\ RecordsInPlace'
    BY <1>1, <1>2, <1>3, <2>1 DEF LogInv, ShutdownInOrder, RecordsInPlace, Accepted
  <2> QED BY <1>3, <2>2, <2>3 DEF LogInv
<1>4. CASE /\ ~stopping /\ Len(channel) < Size /\ channel' = Append(channel, r)
           /\ dispatch' = [dispatch EXCEPT ![r] = "returned"] /\ UNCHANGED panicked
  <2>1. dispatch'[r] = "returned" /\ \A q \in LogRecords \ {r} : dispatch'[q] = dispatch[q]
    BY <1>4 DEF LogInv, L!TypeOK
  <2>2. /\ channel' \in Seq(LogRecords) /\ Len(channel') = Len(channel) + 1 /\ Len(channel) \in Nat
        /\ channel'[Len(channel) + 1] = r
        /\ \A i \in 1..Len(channel) : channel'[i] = channel[i] /\ channel[i] # r
    BY <1>2, <1>4 DEF Accepted
  <2>3. \A q \in LogRecords : Accepted(q)' <=> Accepted(q) \/ q = r
    BY <2>2 DEF Accepted
  <2>4. \A i, j \in 1..Len(channel') : channel'[i] = channel'[j] => i = j
    BY <2>2 DEF LogInv, RecordsInPlace
  <2>5. L!TypeOK'
    BY <1>1, <1>4, <2>2, LogAssumption DEF LogInv, L!TypeOK, L!LogAssumption
  <2>6. ShutdownInOrder'
    BY <1>1, <1>4, <2>1 DEF LogInv, ShutdownInOrder
  <2>7. RecordsInPlace'
    BY <1>1, <1>2, <2>1, <2>3, <2>4 DEF LogInv, RecordsInPlace
  <2> QED BY <1>4, <2>5, <2>6, <2>7 DEF LogInv
<1> QED BY <1>1, <1>3, <1>4 DEF L!Dispatch, L!StoppingNow, L!GoTo, LogInv, ShutdownInOrder

\* The goroutine takes the first, and writes it.
LEMMA Taken ==
  ASSUME LogInv, L!Take PROVE LogInv'
<1>1. /\ worker = "idle" /\ channel # <<>> /\ worker' = Head(channel) /\ channel' = Tail(channel)
      /\ UNCHANGED <<configured, started, stopping, closed, dispatch, stopper, written, panicked>>
  BY DEF L!Take
<1>2. /\ channel \in Seq(LogRecords) /\ Len(channel) \in Nat \ {0} /\ worker' = channel[1]
      /\ channel[1] \in LogRecords /\ channel' \in Seq(LogRecords) /\ Len(channel') = Len(channel) - 1
      /\ \A i \in 1..Len(channel') : channel'[i] = channel[i + 1] /\ i + 1 \in 1..Len(channel)
  BY <1>1 DEF LogInv, L!TypeOK
<1>3. \A q \in LogRecords : Accepted(q) <=> Accepted(q)' \/ q = worker'
  <2>1. \A q \in LogRecords : Accepted(q)' \/ q = worker' => Accepted(q)
    BY <1>2 DEF Accepted
  <2>2. ASSUME NEW q \in LogRecords, Accepted(q), q # worker' PROVE Accepted(q)'
    <3>1. PICK i \in 1..Len(channel) : channel[i] = q
      BY <2>2 DEF Accepted
    <3>2. i # 1 /\ i - 1 \in 1..Len(channel')
      BY <1>2, <2>2, <3>1
    <3>3. channel'[i - 1] = q
      BY <1>2, <3>1, <3>2
    <3> QED BY <3>2, <3>3 DEF Accepted
  <2> QED BY <2>1, <2>2
<1>4. \A q \in LogRecords : q = worker' => ~Accepted(q)'
  <2>1. \A i \in 1..Len(channel') : i + 1 # 1 /\ channel'[i] = channel[i + 1] /\ i + 1 \in 1..Len(channel)
    BY <1>2
  <2>2. \A i \in 1..Len(channel) : channel[i] = channel[1] => i = 1
    BY <1>2 DEF LogInv, RecordsInPlace
  <2> QED BY <1>2, <2>1, <2>2 DEF Accepted
<1>5. \A i, j \in 1..Len(channel') : channel'[i] = channel'[j] => i = j
  BY <1>2 DEF LogInv, RecordsInPlace
<1>6. worker \notin LogRecords /\ worker' \notin {"none", "done", "idle"}
  BY <1>1, <1>2, LogAssumption DEF L!LogAssumption
<1>7. L!TypeOK'
  BY <1>1, <1>2, LogAssumption DEF LogInv, L!TypeOK, L!LogAssumption
<1>8. ShutdownInOrder'
  BY <1>1, <1>6 DEF LogInv, ShutdownInOrder
<1>9. RecordsInPlace'
  <2>1. \A q \in LogRecords : q = worker' => written'[q] = 0 /\ dispatch'[q] = "returned"
    BY <1>1, <1>3 DEF LogInv, RecordsInPlace
  <2>2. \A q \in LogRecords : worker # q /\ (Accepted(q) => q = worker' \/ Accepted(q)')
    BY <1>3, <1>6
  <2> QED BY <1>1, <1>3, <1>4, <1>5, <2>1, <2>2 DEF LogInv, RecordsInPlace
<1> QED BY <1>1, <1>7, <1>8, <1>9 DEF LogInv

LEMMA TakenIsWritten ==
  ASSUME LogInv, L!WriteTaken PROVE LogInv'
<1>1. /\ worker \in LogRecords /\ worker' = "idle"
      /\ written' = [written EXCEPT ![worker] = IF @ < 2 THEN @ + 1 ELSE @]
      /\ UNCHANGED <<configured, started, stopping, channel, closed, dispatch, stopper, panicked>>
  BY DEF L!WriteTaken, L!Write
<1>2. worker' \notin LogRecords /\ worker \notin {"none", "idle", "done"}
  BY <1>1, LogAssumption DEF L!LogAssumption
<1>3. written[worker] = 0 /\ ~Accepted(worker) /\ dispatch[worker] = "returned"
  BY <1>1 DEF LogInv, RecordsInPlace
<1>4. written'[worker] = 1 /\ \A q \in LogRecords \ {worker} : written'[q] = written[q]
  BY <1>1, <1>3 DEF LogInv, L!TypeOK
<1>5. L!TypeOK'
  BY <1>1, <1>3 DEF LogInv, L!TypeOK
<1>6. ShutdownInOrder'
  BY <1>1, <1>2 DEF LogInv, ShutdownInOrder
<1>7. RecordsInPlace'
  BY <1>1, <1>2, <1>3, <1>4 DEF LogInv, RecordsInPlace, Accepted
<1> QED BY <1>1, <1>5, <1>6, <1>7 DEF LogInv

\* The goroutine begins and ends, and its callers wait.
LEMMA WorkerStartsAndEnds ==
  ASSUME LogInv,
         L!RunRunner \/ L!Finish \/ \E s \in Stoppers : L!Shutdown(s) \/ L!ShutdownReturns(s)
  PROVE  LogInv'
<1>1. UNCHANGED <<configured, channel, dispatch, written, panicked>>
  BY DEF L!RunRunner, L!Finish, L!Shutdown, L!ShutdownReturns, L!workerVars
<1>2. /\ \/ worker' = worker
         \/ worker \in {"none", "done"} /\ worker' = "idle" /\ started'
         \/ worker' = "done" /\ stopping' /\ channel = <<>> /\ worker \in {"none", "idle", "done"}
      /\ stopping => stopping' /\ (worker = "done" => worker' = "done")
      /\ started => started'
      /\ closed' => stopping'
      /\ {started', stopping', closed'} \subseteq BOOLEAN
      /\ stopper' \in [Stoppers -> {"new", "waiting", "returned"}]
      /\ ~started' => ~started
  <2> USE DEF LogInv, L!TypeOK, ShutdownInOrder
  <2>1. CASE L!RunRunner
    BY <2>1 DEF L!RunRunner, L!StartWorker
  <2>2. CASE L!Finish
    BY <2>2 DEF L!Finish
  <2>3. ASSUME NEW s \in Stoppers, L!Shutdown(s) PROVE <1>2!:
    BY <2>3 DEF L!Shutdown
  <2>4. ASSUME NEW s \in Stoppers, L!ShutdownReturns(s) PROVE <1>2!:
    BY <2>4 DEF L!ShutdownReturns, L!workerVars
  <2> QED BY <2>1, <2>2, <2>3, <2>4
<1>3. \A q \in LogRecords : worker' = q <=> worker = q
  BY <1>2, LogAssumption DEF L!LogAssumption
<1>4. L!TypeOK'
  BY <1>1, <1>2 DEF LogInv, L!TypeOK
<1>5. ShutdownInOrder'
  BY <1>1, <1>2 DEF LogInv, ShutdownInOrder
<1>6. RecordsInPlace'
  BY <1>1, <1>3 DEF LogInv, RecordsInPlace, Accepted
<1> QED BY <1>1, <1>4, <1>5, <1>6 DEF LogInv

LEMMA LogStep == LogInv /\ [L!Next]_L!vars => LogInv'
<1> SUFFICES ASSUME LogInv, [L!Next]_L!vars PROVE LogInv'
  OBVIOUS
<1>1. CASE UNCHANGED L!vars
  BY <1>1 DEF L!vars, LogInv, L!TypeOK, ShutdownInOrder, RecordsInPlace, Accepted
<1>2. CASE L!Next
  BY <1>2, DispatchMoves, WrittenHere, Dispatched, Taken, TakenIsWritten, WorkerStartsAndEnds
     DEF L!Next
<1> QED BY <1>1, <1>2

\* Wherever a shutdown falls, a record is written once, or still on its way, and none meets
\* the closed channel, for any number of records, calls of Shutdown and any size of the
\* channel (dispatcher.go).
THEOREM RecordsKept == L!Spec => []RecordsAreWritten
<1>1. LogInv => RecordsAreWritten
  <2> SUFFICES ASSUME LogInv PROVE RecordsAreWritten
    OBVIOUS
  <2>1. worker = "done" => \A r \in LogRecords : ~Accepted(r) /\ worker # r
    BY LogAssumption DEF LogInv, ShutdownInOrder, Accepted, L!LogAssumption
  <2> QED BY <2>1 DEF LogInv, RecordsInPlace, RecordsAreWritten, L!RecordsAreWritten
<1> QED BY <1>1, LogFirst, LogStep, PTL DEF L!Spec
===============================================================================
