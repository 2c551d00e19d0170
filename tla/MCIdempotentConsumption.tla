----------------------- MODULE MCIdempotentConsumption -----------------------
(***************************************************************************)
(* The idempotency store by itself, the message bus that consumes through  *)
(* a store of its own, and the jobs of a tenant's export, which have only  *)
(* the row of their run.  They share no state, so it is enough to let one  *)
(* of them move in each behaviour: its focus.                              *)
(*                                                                         *)
(* The store has two workers and one key: the lease of two ticks can lapse *)
(* under a running handler, and be taken over, while its finish is still   *)
(* to come.  The bus has one worker, one consumer and two dispatches, the  *)
(* second a duplicate or a replay, and two attempts.  The export is asked  *)
(* for twice under one key, two jobs stand for it, and each is tried twice.*)
(***************************************************************************)
EXTENDS QueueIdempotency

CONSTANTS
  k1, BusWorkers, BusResults, BusTokens, Dispatches,
  ExportJobs, ExportAttempts, Requesters, Downloads, None

VARIABLES
  focus,
  busStatus, busResult, busToken, busLease, busPc, busKey, busClaim, busLeft, busRep,
  sent, jobs, failedJobs, stage, attempt, class, delivery, letter, handled,
  discarded, ignored,
  run, event, evidence, caller, jobStage, jobAttempt, download

MCLease == 2

B == INSTANCE MessageBus
       WITH Workers <- BusWorkers, Results <- BusResults, Tokens <- BusTokens,
            Lease <- 1, Consumers <- <<k1>>, MaxAttempts <- 2,
            status <- busStatus, result <- busResult, token <- busToken,
            lease <- busLease, pc <- busPc, key <- busKey, claim <- busClaim,
            left <- busLeft, rep <- busRep

ASSUME BusAssumption == B!BusAssumption

busVars ==
  <<busStatus, busResult, busToken, busLease, busPc, busKey, busClaim, busLeft,
    busRep, sent, jobs, failedJobs, stage, attempt, class, delivery, letter,
    handled, discarded, ignored>>

X == INSTANCE TenantExport
       WITH Jobs <- ExportJobs, MaxAttempts <- ExportAttempts, stage <- jobStage,
            attempt <- jobAttempt, token <- download

ASSUME ExportAssumption == X!ExportAssumption

exportVars == <<run, event, evidence, caller, jobStage, jobAttempt, download>>
allVars == <<focus, vars, busVars, exportVars>>

MCInit == focus \in {"store", "bus", "export"} /\ Init /\ B!Init /\ X!Init

MCNext ==
  \/ focus = "store" /\ Next /\ UNCHANGED <<focus, busVars, exportVars>>
  \/ focus = "bus" /\ B!Next /\ UNCHANGED <<focus, vars, exportVars>>
  \/ focus = "export" /\ X!Next /\ UNCHANGED <<focus, vars, busVars>>

\* The fairness of B!LiveSpec.
BusMove(w) ==
  focus = "bus" /\ B!WorkerMove(w) /\ UNCHANGED <<focus, vars, exportVars>>

\* The dispatcher of the outbox passes again and again, and the workers of the
\* queue take what there is; crashes and operators come to an end.
Exports(A) == focus = "export" /\ A /\ UNCHANGED <<focus, vars, busVars>>
PushSome == \E j \in ExportJobs : Exports(X!Push(j))
MarkSent == Exports(X!MarkSent)
QueueMove(j) == Exports(X!QueueStep(j))

MCSpec ==
  /\ MCInit /\ [][MCNext]_allVars
  /\ \A w \in BusWorkers : WF_allVars(BusMove(w))
  /\ WF_allVars(PushSome) /\ WF_allVars(MarkSent)
  /\ \A j \in ExportJobs : WF_allVars(QueueMove(j))
  /\ <>[][~B!Disturbance /\ ~X!Disturbance]_allVars

DoneIsCompleted == X!DoneIsCompleted

\* What is asked of a queue comes to rest: every message of the bus, and every export.
WorkComesToRest == B!EnqueuedComesToRest /\ X!RequestComesToRest
===============================================================================
