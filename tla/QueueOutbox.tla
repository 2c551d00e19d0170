------------------------------ MODULE QueueOutbox ------------------------------
(***************************************************************************)
(* The transactional outbox (app/services/runtime/queue/outbox.go,         *)
(* outbox_db.go, outbox_runner.go): runners on several nodes select due    *)
(* rows of queue_outbox, claim them one conditional UPDATE at a time,      *)
(* dispatch the claimed batch in id order and mark each event.             *)
(*                                                                         *)
(* Time is relative: lock[e] is locked_until - now and age[d] the time     *)
(* since d's ClaimDue took its `now`, which every UPDATE of its batch goes *)
(* on using.  Both saturate at Lease; exact for any batch younger than     *)
(* Lease, and for an older one the model allows more than the code.  A     *)
(* claim token is named by the runner that drew it: a runner forgets its   *)
(* batch before it draws another, so no runner holds two tokens of a row.  *)
(***************************************************************************)
EXTENDS Integers, FiniteSets

CONSTANTS
    Dispatchers,    \* QueueOutboxRunner instances
    NumEvents,      \* events are their ids, 1..NumEvents
    Batch,          \* queue.outbox.batch
    Lease,          \* the five minutes of a claim, in ticks
    MaxAttempts,    \* queueOutboxRetryPolicy.MaxAttempts
    MaxFaults,      \* bound: crashes and failing database statements
    Nobody          \* an empty claim_token column

ASSUME EventsAssumption == NumEvents \in Nat
ASSUME OutboxLeaseAssumption == Lease \in Nat \ {0}
ASSUME BatchAssumption == Batch \in Nat \ {0}
ASSUME AttemptsAssumption == MaxAttempts \in Nat \ {0}
ASSUME FaultsAssumption == MaxFaults \in Nat
ASSUME NobodyAssumption == Nobody \notin Dispatchers

Events == 1..NumEvents

VARIABLES
    \* the columns of queue_outbox
    status,     \* status[e], "none" before the event is enqueued
    attempts,   \* attempts[e]
    wait,       \* wait[e]: 1 while available_at lies in the future
    owner,      \* owner[e]: claim_token
    lock,       \* lock[e]: locked_until - now, -Lease for NULL
    \* the runners
    run,        \* run[d]: "up", "cancelled" by Shutdown, or "down"
    pc,         \* pc[d]: "idle", "claim", "dispatch" or "mark"
    todo,       \* todo[d]: selected rows still to be claimed
    holds,      \* holds[d]: claimed events of the batch not yet marked
    age,        \* age[d]: the age of ClaimDue's `now`
    outcome,    \* outcome[d]: of the dispatch to be marked
    \* what the outside sees
    pushed,     \* events that reached the queue at least once
    fatal,      \* events whose dispatch failed with a non-retryable error
    faults      \* faults that happened

rows == <<status, attempts, wait, owner, lock>>
local == <<pc, todo, holds, age, outcome>>
world == <<pushed, fatal>>
vars == <<rows, local, run, world, faults>>

Outcomes == {"ok", "retryable", "fatal"}

TypeOK ==
    /\ status \in [Events -> {"none", "pending", "processing", "sent", "failed"}]
    /\ attempts \in [Events -> 0..MaxAttempts]
    /\ wait \in [Events -> 0..1]
    /\ owner \in [Events -> Dispatchers \union {Nobody}]
    /\ lock \in [Events -> -Lease..Lease]
    /\ run \in [Dispatchers -> {"up", "cancelled", "down"}]
    /\ pc \in [Dispatchers -> {"idle", "claim", "dispatch", "mark"}]
    /\ todo \in [Dispatchers -> SUBSET Events]
    /\ holds \in [Dispatchers -> SUBSET Events]
    /\ age \in [Dispatchers -> 0..Lease]
    /\ outcome \in [Dispatchers -> Outcomes]
    /\ pushed \in SUBSET Events
    /\ fatal \in SUBSET Events
    /\ faults \in 0..MaxFaults

Init ==
    /\ status = [e \in Events |-> "none"]
    /\ attempts = [e \in Events |-> 0]
    /\ wait = [e \in Events |-> 0]
    /\ owner = [e \in Events |-> Nobody]
    /\ lock = [e \in Events |-> -Lease]
    /\ run = [d \in Dispatchers |-> "up"]
    /\ pc = [d \in Dispatchers |-> "idle"]
    /\ todo = [d \in Dispatchers |-> {}]
    /\ holds = [d \in Dispatchers |-> {}]
    /\ age = [d \in Dispatchers |-> 0]
    /\ outcome = [d \in Dispatchers |-> "ok"]
    /\ pushed = {}
    /\ fatal = {}
    /\ faults = 0

-------------------------------------------------------------------------------
\* EnqueueQueueOutboxEventWithQuery, in its caller's transaction.
Enqueue(e) ==
    /\ status[e] = "none"
    /\ status' = [status EXCEPT ![e] = "pending"]
    /\ UNCHANGED <<attempts, wait, owner, lock, local, run, world, faults>>

\* Variants: without the lock condition; without the lapsed claims.
ClaimableWithoutLock(e, a) == status[e] \in {"pending", "processing"}
ClaimablePendingOnly(e, a) == status[e] = "pending" /\ lock[e] <= -a

\* The status and lock conditions of ClaimDue's statements, whose clock is a
\* ticks old.
Claimable(e, a) ==
    /\ status[e] \in {"pending", "processing"}
    /\ lock[e] <= -a

Due(e) == Claimable(e, 0) /\ wait[e] = 0

\* The first Batch due rows by id.
FirstDue ==
    {e \in Events : Due(e) /\ Cardinality({f \in 1..(e - 1) : Due(f)}) < Batch}

IsFirst(e, S) == e \in S /\ \A f \in S : e <= f

\* The runner's tick: ClaimDue selects the rows it will try to claim.
SelectDue(d) ==
    /\ run[d] = "up"
    /\ pc[d] = "idle"
    /\ FirstDue # {}
    /\ pc' = [pc EXCEPT ![d] = "claim"]
    /\ todo' = [todo EXCEPT ![d] = FirstDue]
    /\ age' = [age EXCEPT ![d] = 0]
    /\ UNCHANGED <<holds, outcome, rows, run, world, faults>>

\* Where the cycle goes when its claimed batch is S: dispatch it, or end.
EnterDispatch(d, S) ==
    /\ pc' = [pc EXCEPT ![d] = IF S = {} THEN "idle" ELSE "dispatch"]
    /\ age' = [age EXCEPT ![d] = IF S = {} THEN 0 ELSE @]

\* After one row of the claim loop: the next row, or the dispatch of S.
ClaimNext(d, e, S) ==
    /\ todo' = [todo EXCEPT ![d] = @ \ {e}]
    /\ holds' = [holds EXCEPT ![d] = S]
    /\ \/ todo[d] # {e} /\ UNCHANGED <<pc, age>>
       \/ todo[d] = {e} /\ EnterDispatch(d, S)

\* One conditional UPDATE of the claim loop: available_at is not looked at
\* again.  A row somebody else got meanwhile is left out of the batch.
ClaimOne(d, e) ==
    /\ run[d] = "up"
    /\ pc[d] = "claim"
    /\ IsFirst(e, todo[d])
    /\ \/ /\ Claimable(e, age[d])
          /\ status' = [status EXCEPT ![e] = "processing"]
          /\ owner' = [owner EXCEPT ![e] = d]
          /\ lock' = [lock EXCEPT ![e] = Lease - age[d]]
          /\ ClaimNext(d, e, holds[d] \union {e})
       \/ /\ ~Claimable(e, age[d])
          /\ ClaimNext(d, e, holds[d])
          /\ UNCHANGED <<status, owner, lock>>
    /\ UNCHANGED <<attempts, wait, outcome, run, world, faults>>

\* DispatchDue dispatches the next event of the batch to the queue.
Dispatch(d, e, o) ==
    /\ pc[d] = "dispatch"
    /\ IsFirst(e, holds[d])
    /\ pc' = [pc EXCEPT ![d] = "mark"]
    /\ outcome' = [outcome EXCEPT ![d] = o]
    /\ pushed' = IF o = "ok" THEN pushed \union {e} ELSE pushed
    /\ fatal' = IF o = "fatal" THEN fatal \union {e} ELSE fatal
    /\ UNCHANGED <<todo, holds, age, rows, run, faults>>

\* Variants of ShouldRetry: one attempt too many, and one too few.
ShouldRetryOnceMore(o, attempt) == o = "retryable" /\ attempt <= MaxAttempts
ShouldRetryOnceLess(o, attempt) == o = "retryable" /\ attempt + 1 < MaxAttempts

\* queueOutboxRetryPolicy.ShouldRetry
ShouldRetry(o, attempt) == o = "retryable" /\ attempt < MaxAttempts

\* Variant: a mark without its conditions.
MarkMatchesAlways(d, e) == TRUE

\* The row a mark finds: only while it is being processed under d's token.
MarkMatches(d, e) == status[e] = "processing" /\ owner[e] = d

\* Variant: a failed dispatch falls through to MarkSent.
MarkedStatusAlwaysSent(o, attempt) == "sent"

MarkedStatus(o, attempt) ==
    IF o = "ok" THEN "sent"
    ELSE IF ShouldRetry(o, attempt) THEN "pending" ELSE "failed"

\* attempts after the mark
Tried(d, e) == IF outcome[d] = "ok" THEN attempts[e] ELSE attempts[e] + 1

\* MarkSent or MarkFailed (whose SELECT and UPDATE carry the same token
\* condition): a mark that matches no row is not noticed.
Mark(d, e) ==
    /\ run[d] = "up"
    /\ pc[d] = "mark"
    /\ IsFirst(e, holds[d])
    /\ \/ /\ MarkMatches(d, e)
          /\ status' = [status EXCEPT ![e] = MarkedStatus(outcome[d], Tried(d, e))]
          /\ attempts' = [attempts EXCEPT ![e] = Tried(d, e)]
          /\ wait' = [wait EXCEPT ![e] = IF ShouldRetry(outcome[d], Tried(d, e)) THEN 1 ELSE @]
          /\ owner' = [owner EXCEPT ![e] = Nobody]
          /\ lock' = [lock EXCEPT ![e] = -Lease]
       \/ /\ ~MarkMatches(d, e)
          /\ UNCHANGED rows
    /\ holds' = [holds EXCEPT ![d] = @ \ {e}]
    /\ EnterDispatch(d, holds[d] \ {e})
    /\ outcome' = [outcome EXCEPT ![d] = "ok"]
    /\ UNCHANGED <<todo, run, world, faults>>

\* The runner gives up its cycle and forgets the batch; the rows it claimed
\* stay claimed until their lock lapses.
Forget(d) ==
    /\ pc' = [pc EXCEPT ![d] = "idle"]
    /\ todo' = [todo EXCEPT ![d] = {}]
    /\ holds' = [holds EXCEPT ![d] = {}]
    /\ age' = [age EXCEPT ![d] = 0]
    /\ outcome' = [outcome EXCEPT ![d] = "ok"]
    /\ UNCHANGED <<rows, world>>

\* A claim or a mark fails, and DispatchDue returns the error.  After Shutdown
\* every statement fails: they run under the cancelled context.
StatementError(d) ==
    /\ pc[d] \in {"claim", "mark"}
    /\ \/ run[d] = "cancelled" /\ UNCHANGED faults
       \/ run[d] = "up" /\ faults < MaxFaults /\ faults' = faults + 1
    /\ Forget(d)
    /\ UNCHANGED run

\* Shutdown cancels the context; Run returns when the cycle is over.
Shutdown(d) ==
    /\ run[d] = "up"
    /\ faults < MaxFaults
    /\ faults' = faults + 1
    /\ run' = [run EXCEPT ![d] = "cancelled"]
    /\ UNCHANGED <<rows, local, world>>

Exit(d) ==
    /\ run[d] = "cancelled"
    /\ pc[d] = "idle"
    /\ run' = [run EXCEPT ![d] = "down"]
    /\ UNCHANGED <<rows, local, world, faults>>

Crash(d) ==
    /\ run[d] # "down"
    /\ faults < MaxFaults
    /\ faults' = faults + 1
    /\ run' = [run EXCEPT ![d] = "down"]
    /\ Forget(d)

\* The process is started again.
Restart(d) ==
    /\ run[d] = "down"
    /\ run' = [run EXCEPT ![d] = "up"]
    /\ UNCHANGED <<rows, local, world, faults>>

AtLeast(lo, n) == IF n <= lo THEN lo ELSE n
AtMost(hi, n) == IF n >= hi THEN hi ELSE n

\* A running cycle finishes within its lease (five minutes against a batch of
\* twenty pushes): a tick that lets one outlast it counts as a fault.
Timely == \A d \in Dispatchers : pc[d] # "idle" => age[d] + 1 < Lease

Tick ==
    /\ \/ Timely /\ UNCHANGED faults
       \/ ~Timely /\ faults < MaxFaults /\ faults' = faults + 1
    /\ lock' = [e \in Events |-> AtLeast(-Lease, lock[e] - 1)]
    /\ wait' = [e \in Events |-> 0]
    /\ age' = [d \in Dispatchers |-> IF pc[d] = "idle" THEN 0 ELSE AtMost(Lease, age[d] + 1)]
    /\ UNCHANGED <<status, attempts, owner, pc, todo, holds, outcome, run, world>>

\* A cycle goes on: the steps a live runner takes by itself.
CycleStep(d) ==
    \/ SelectDue(d)
    \/ \E e \in Events : ClaimOne(d, e)
    \/ \E e \in Events, o \in Outcomes : Dispatch(d, e, o)
    \/ \E e \in Events : Mark(d, e)
    \/ run[d] = "cancelled" /\ StatementError(d)
    \/ Exit(d)
    \/ Restart(d)

Next ==
    \/ \E e \in Events : Enqueue(e)
    \/ \E d \in Dispatchers :
          \/ CycleStep(d)
          \/ run[d] = "up" /\ StatementError(d)
          \/ Shutdown(d)
          \/ Crash(d)
    \/ Tick

Spec == Init /\ [][Next]_vars

\* Runners go on, nodes are restarted, time passes.
LiveSpec ==
    /\ Spec
    /\ \A d \in Dispatchers : WF_vars(CycleStep(d))
    /\ WF_vars(Timely /\ Tick)

-------------------------------------------------------------------------------
(* Properties *)

Live(d) == age[d] < Lease

\* Two runners may both hold an event - dispatching a batch may outlast its
\* lock - but never two whose locks are both alive.
ClaimExclusive ==
    \A d, c \in Dispatchers :
        (d # c /\ Live(d) /\ Live(c)) => holds[d] \intersect holds[c] = {}

\* At least once: an event is only recorded as sent when the queue has it,
\* whichever runner pushed it and whichever marked it.
SentWasPushed == \A e \in Events : status[e] = "sent" => e \in pushed

\* An event is given up only after the policy's attempts, or after an error
\* that must not be retried.
FailedForCause ==
    \A e \in Events : status[e] = "failed" => attempts[e] = MaxAttempts \/ e \in fatal

\* No event is settled without a cause, in DispatchDue of either runner.
SettledWithCause == SentWasPushed /\ FailedForCause

\* Sent and failed events are never claimed, dispatched to another status or
\* counted again, whatever a late runner does.
SettledIsFinal ==
    [][\A e \in Events : status[e] \in {"sent", "failed"}
          => status'[e] = status[e] /\ attempts'[e] = attempts[e]]_vars

\* A mark made inside the lock takes effect.
TimelyMarkTakesEffect ==
    [][\A d \in Dispatchers, e \in Events :
          (Live(d) /\ Mark(d, e)) => status'[e] = MarkedStatus(outcome[d], Tried(d, e))]_vars

\* Every enqueued event is settled: no crash, shutdown, failed statement or
\* lost race leaves one behind.
EventuallySettled ==
    \A e \in Events : status[e] = "pending" ~> status[e] \in {"sent", "failed"}

\* A live claim is the one in the row.
ClaimsAreFenced ==
    \A d \in Dispatchers : \A e \in holds[d] :
        Live(d) => status[e] = "processing" /\ owner[e] = d /\ lock[e] = Lease - age[d]
===============================================================================
