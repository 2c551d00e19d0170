----------------------------- MODULE TenantExport -----------------------------
(***************************************************************************)
(* The export of a tenant's data (app/services/application/tenant.go): a   *)
(* request writes a governance run and an outbox event in one transaction; *)
(* jobs made from the event write the artifact, attach its evidence and    *)
(* complete the run; operators fetch it with tokens that serve once.       *)
(*                                                                         *)
(* The outbox pushes an event at least once, as QueueOutbox shows, so      *)
(* several jobs may stand for one run.  The queue is external: it holds a  *)
(* job until its Handle succeeds or is not to be tried again, and hands it *)
(* out once more when its worker dies.                                     *)
(***************************************************************************)
EXTENDS Naturals, FiniteSets

CONSTANTS
  Jobs,         \* jobs pushed for the run's event
  Requesters,   \* calls of Request under one idempotency key
  Downloads,    \* downloads of the artifact
  MaxAttempts,  \* of queueOutboxRetryPolicy
  None

\* No job is the one that has not written anything.
ExportAssumption == None \notin Jobs

VARIABLES
  run,          \* status of the governance run
  event,        \* of the outbox: none, open or sent
  evidence,     \* the job whose artifact the evidence row describes
  caller,       \* where Request is
  stage,        \* where a job is: Handle, and what the queue does about it
  attempt,      \* the attempts of a job
  token         \* the download tokens: none, cached, pulled, served or refused

vars == <<run, event, evidence, caller, stage, attempt, token>>

RunStatuses == {"none", "pending", "running", "artifact_written", "completed", "failed"}
Stages == {"none", "queued", "read", "start", "resume", "write", "attach", "complete",
           "fail", "judge", "failed", "done"}
Working == Stages \ {"none", "queued", "failed", "done"}

TypeOK ==
  /\ run \in RunStatuses
  /\ event \in {"none", "open", "sent"}
  /\ evidence \in Jobs \union {None}
  /\ caller \in [Requesters -> {"idle", "commit", "found", "created", "refused"}]
  /\ stage \in [Jobs -> Stages]
  /\ attempt \in [Jobs -> 0..MaxAttempts]
  /\ token \in [Downloads -> {"none", "cached", "pulled", "served", "refused"}]

Init ==
  /\ run = "none" /\ event = "none" /\ evidence = None
  /\ caller = [c \in Requesters |-> "idle"]
  /\ stage = [j \in Jobs |-> "none"]
  /\ attempt = [j \in Jobs |-> 0]
  /\ token = [d \in Downloads |-> "none"]

-----------------------------------------------------------------------------
(* TenantDataExportService.Request. *)

FindRun(c) ==
  /\ caller[c] = "idle"
  /\ caller' = [caller EXCEPT ![c] = IF run = "none" THEN "commit" ELSE "found"]
  /\ UNCHANGED <<run, event, evidence, stage, attempt, token>>

\* The guard's transaction.  The unique key of the run, or the evidence of the
\* call (SensitiveOperations), may refuse it.
CommitRequest(c) ==
  /\ caller[c] = "commit"
  /\ \/ /\ run = "none"
        /\ run' = "pending" /\ event' = "open"
        /\ caller' = [caller EXCEPT ![c] = "created"]
     \/ /\ caller' = [caller EXCEPT ![c] = "refused"]
        /\ UNCHANGED <<run, event>>
  /\ UNCHANGED <<evidence, stage, attempt, token>>

-----------------------------------------------------------------------------
(* The outbox and the queue. *)

GoTo(j, s) == stage' = [stage EXCEPT ![j] = s]

\* Several pushes of one event, and a mark that comes after the last of them.
Push(j) ==
  /\ event = "open" /\ stage[j] = "none"
  /\ GoTo(j, "queued")
  /\ UNCHANGED <<run, event, evidence, caller, attempt, token>>

MarkSent ==
  /\ event = "open" /\ \E j \in Jobs : stage[j] # "none"
  /\ event' = "sent"
  /\ UNCHANGED <<run, evidence, caller, stage, attempt, token>>

Take(j) ==
  /\ stage[j] = "queued" /\ attempt[j] < MaxAttempts
  /\ GoTo(j, "read")
  /\ attempt' = [attempt EXCEPT ![j] = @ + 1]
  /\ UNCHANGED <<run, event, evidence, caller, token>>

\* The worker dies and the queue hands the job out again, at the same attempt.
Crash(j) ==
  /\ stage[j] \in Working
  /\ GoTo(j, "queued")
  /\ attempt' = [attempt EXCEPT ![j] = @ - 1]
  /\ UNCHANGED <<run, event, evidence, caller, token>>

\* An operator puts a failed job back.
RetryFailedJob(j) ==
  /\ stage[j] = "failed"
  /\ GoTo(j, "queued")
  /\ attempt' = [attempt EXCEPT ![j] = 0]
  /\ UNCHANGED <<run, event, evidence, caller, token>>

-----------------------------------------------------------------------------
(* TenantDataExportWorker.Handle.  Where a statement finds another state than   *)
(* it asks for it reports an error, and so it does when it cannot run at all.  *)

notHandle == <<event, caller, attempt, token>>

\* What Handle does about the status it has read.
Route ==
  [pending |-> "start", failed |-> "resume", running |-> "write",
   artifact_written |-> "complete", completed |-> "done"]
ReadRun(j) ==
  /\ stage[j] = "read"
  /\ GoTo(j, Route[run]) \/ GoTo(j, "fail")
  /\ UNCHANGED <<notHandle, run, evidence>>

\* Transition: one UPDATE under the status the run must have.
Transition(j, from, to, next) ==
  \/ run = from /\ run' = to /\ GoTo(j, next)
  \/ GoTo(j, "fail") /\ UNCHANGED run

Start(j) ==
  /\ stage[j] = "start" /\ Transition(j, "pending", "running", "write")
  /\ UNCHANGED <<notHandle, evidence>>

\* resumeTenantExportRun.
Resume(j) ==
  /\ stage[j] = "resume" /\ Transition(j, "failed", "running", "write")
  /\ UNCHANGED <<notHandle, evidence>>

\* exportTenantDataset, EncryptString and WriteImmutable.
WriteImmutable(j) ==
  /\ stage[j] = "write"
  /\ GoTo(j, "attach") \/ GoTo(j, "fail")
  /\ UNCHANGED <<notHandle, run, evidence>>

\* AttachEvidence, a transaction: the evidence goes in with the status.  Variant:
\* it does not ask for the status.
AttachableAlways == evidence = None
Attachable == evidence = None /\ run = "running"
AttachEvidence(j) ==
  /\ stage[j] = "attach"
  /\ \/ Attachable /\ evidence' = j /\ run' = "artifact_written" /\ GoTo(j, "complete")
     \/ evidence # None /\ GoTo(j, "complete") /\ UNCHANGED <<run, evidence>>
     \/ GoTo(j, "fail") /\ UNCHANGED <<run, evidence>>
  /\ UNCHANGED notHandle

Complete(j) ==
  /\ stage[j] = "complete" /\ Transition(j, "artifact_written", "completed", "done")
  /\ UNCHANGED <<notHandle, evidence>>

\* markTenantExportFailed, whose own error is ignored.  Variant: it fails a run
\* in any state.
FailableAlways == TRUE
Failable == run \in {"pending", "running"}
MarkFailed(j) ==
  /\ stage[j] = "fail"
  /\ run' = IF Failable THEN "failed" ELSE run
  /\ GoTo(j, "judge")
  /\ UNCHANGED <<notHandle, evidence>>

MarkFailedFails(j) ==
  /\ stage[j] = "fail"
  /\ GoTo(j, "judge")
  /\ UNCHANGED <<notHandle, run, evidence>>

\* ShouldRetry.  Variant: a job vanishes after its last attempt.
JudgedDropped(j) == IF attempt[j] < MaxAttempts THEN "queued" ELSE "none"
Judged(j) == IF attempt[j] < MaxAttempts THEN "queued" ELSE "failed"
Judge(j) ==
  /\ stage[j] = "judge"
  /\ GoTo(j, Judged(j))
  /\ UNCHANGED <<notHandle, run, evidence>>

-----------------------------------------------------------------------------
(* StatusForOperator and Download. *)

IssueToken(d) ==
  /\ run = "completed" /\ token[d] = "none"
  /\ token' = [token EXCEPT ![d] = "cached"]
  /\ UNCHANGED <<run, event, evidence, caller, stage, attempt>>

PullToken(d) ==
  /\ token[d] = "cached"
  /\ token' = [token EXCEPT ![d] = "pulled"]
  /\ UNCHANGED <<run, event, evidence, caller, stage, attempt>>

\* The token may be too old or another user's, and the object out of reach.
Download(d) ==
  /\ token[d] = "pulled"
  /\ \/ /\ run = "completed" /\ evidence # None
        /\ token' = [token EXCEPT ![d] = "served"]
     \/ token' = [token EXCEPT ![d] = "refused"]
  /\ UNCHANGED <<run, event, evidence, caller, stage, attempt>>

Handle(j) ==
  \/ ReadRun(j) \/ Start(j) \/ Resume(j) \/ WriteImmutable(j) \/ AttachEvidence(j)
  \/ Complete(j) \/ MarkFailed(j) \/ MarkFailedFails(j)

QueueStep(j) == Take(j) \/ Handle(j) \/ Judge(j)
Disturbance == \E j \in Jobs : Crash(j) \/ RetryFailedJob(j)

Next ==
  \/ \E c \in Requesters : FindRun(c) \/ CommitRequest(c)
  \/ \E j \in Jobs : Push(j) \/ QueueStep(j)
  \/ MarkSent \/ Disturbance
  \/ \E d \in Downloads : IssueToken(d) \/ PullToken(d) \/ Download(d)

Spec == Init /\ [][Next]_vars

-----------------------------------------------------------------------------
(* What holds. *)

\* A job that the queue has crossed off has done its work, for good: the run is
\* completed with evidence, whatever its duplicates do, late or failing.
DoneIsCompleted ==
  /\ (\E j \in Jobs : stage[j] = "done") => run = "completed"
  /\ run \in {"artifact_written", "completed"} <=> evidence # None

\* A request comes to rest: its run is completed, or a failed job is there for
\* an operator to see.
Rest == run = "completed" \/ \E j \in Jobs : stage[j] = "failed"
RequestComesToRest == run = "pending" ~> Rest
=============================================================================
