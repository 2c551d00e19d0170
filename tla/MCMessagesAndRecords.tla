-------------------------- MODULE MCMessagesAndRecords --------------------------
(*****************************************************************************)
(* The pruning of audit records, the message bus, and the worker that writes *)
(* the operation log.  They share no state here, so it is enough to let one  *)
(* of them move in each behaviour: its focus.                                *)
(*                                                                           *)
(* Two executions and two scheduler nodes prune two records by one plan; a   *)
(* lease of one tick lapses under a running execution.  One consumer, two    *)
(* workers and two dispatches: the second a duplicate or a replay.  Three    *)
(* attempts: two retries.  Three records of three requests for a channel of  *)
(* one, and two calls of Shutdown.                                           *)
(*****************************************************************************)
EXTENDS AuditPrune, TLC

CONSTANTS
  Workers, Keys, Results, NoResult, Tokens, NoToken, BusLease, Consumers, Dispatches, MaxAttempts,
  k1,
  LogRecords, Stoppers, Size

VARIABLES
  focus,
  rowStatus, rowResult, token, lease, pc, key, claim, left, rep, sent, jobs, failedJobs,
  jobStage, attempt, class, delivery, letter, handled, discarded, ignored,
  configured, started, stopping, channel, closed, worker, dispatch, stopper, written, panicked

MCSymmetry == Permutations(Executors) \union Permutations(Nodes)
MCConsumers == <<k1>>

M == INSTANCE MessageBus WITH
       Lease <- BusLease, status <- rowStatus, result <- rowResult, stage <- jobStage

L == INSTANCE OperationLogs WITH Records <- LogRecords, at <- dispatch

ASSUME BusAssumption == M!BusAssumption
ASSUME LogAssumption == L!LogAssumption

busVars ==
  <<rowStatus, rowResult, token, lease, pc, key, claim, left, rep, sent, jobs, failedJobs,
    jobStage, attempt, class, delivery, letter, handled, discarded, ignored>>
logVars ==
  <<configured, started, stopping, channel, closed, worker, dispatch, stopper, written, panicked>>

MCInit ==
  /\ Init /\ M!Init /\ L!Init
  /\ \/ focus = "logs"
     \/ focus \in {"pruning", "messages"} /\ configured

MCNext ==
  \/ focus = "pruning" /\ Next /\ UNCHANGED <<focus, busVars, logVars>>
  \/ focus = "messages" /\ M!Next /\ UNCHANGED <<focus, vars, logVars>>
  \/ focus = "logs" /\ L!Next /\ UNCHANGED <<focus, vars, busVars>>

MCSpec == MCInit /\ [][MCNext]_<<focus, vars, busVars, logVars>>

EnqueuedIsAccountedFor == M!EnqueuedIsAccountedFor
AtLeastOnce == M!AtLeastOnce
SucceededWasHandledOrLost == M!SucceededWasHandledOrLost
RecordsAreWritten == L!RecordsAreWritten
=================================================================================
