------------------------------ MODULE MessageBus ------------------------------
(***************************************************************************)
(* Dispatch, consumption, retry and burial of one message of the message   *)
(* bus (app/services/runtime/messagebus/job.go and the dead-letter part of *)
(* service.go), composed with the idempotency store it consumes through.   *)
(*                                                                         *)
(* Keys are the idempotency keys consumerKey:messageID, one per registered *)
(* consumer of the message.  The queue behind the adapter is external: it  *)
(* holds jobs, hands each to one worker at a time, hands a job out again   *)
(* when its worker dies, and moves a job whose Handle returned an error to *)
(* failed_jobs.                                                            *)
(***************************************************************************)
EXTENDS Integers, Sequences

CONSTANTS
    Workers, Keys, Results, NoResult, Tokens, NoToken, Lease,
    Consumers,      \* the keys in the order consumersForMessageType sorts them
    Dispatches,     \* runs of dispatchMessageOutboxEvent for this message
    MaxAttempts     \* max_attempts of the route's retry policy

BusAssumption ==
    Consumers \in Seq(Keys) /\ MaxAttempts \in Nat \ {0} /\ Lease \in Nat \ {0}

VARIABLES
    status, result, token, lease,       \* the table queue_idempotency
    pc, key, claim, left, rep,          \* a worker's call of OnceWithMetadata
    sent,           \* sent[d]: the consumers dispatch d has enqueued, -1 before it starts
    jobs,           \* jobs[<<k, n>>]: queued MessageConsumeJobs for k, attempt n
    failedJobs,     \* failedJobs[<<k, n>>]: those in failed_jobs
    stage,          \* stage[w]: where consumeMessage is
    attempt,        \* attempt[w]: the attempt number of w's job, 1 without one
    class,          \* class[w]: the failure class at hand, RETRYABLE without one
    delivery,       \* delivery[w]: status of the message_delivery row of w's job
    letter,         \* letter[k]: resolution status of k's last dead letter
    handled,        \* the keys whose handler has returned without an error
    discarded,      \* the keys of which an operator deleted a failed job
    ignored         \* the keys with a delivery row that says IGNORED

Once == INSTANCE QueueIdempotency

store == <<status, result, token, lease, pc, key, claim, left, rep>>
consume == <<stage, attempt, class, delivery>>
vars == <<store, sent, jobs, failedJobs, consume, letter, handled, discarded, ignored>>

Attempts == 1..MaxAttempts
Jobs == Keys \X Attempts
Classes == {"RETRYABLE", "NON_RETRYABLE", "UNKNOWN_RESULT"}
Stages == {"idle", "once", "failing", "retry", "bury"}
DeliveryStatuses ==
    {"none", "PROCESSING", "SUCCEEDED", "IGNORED", "RETRY_SCHEDULED", "DEAD_LETTERED"}
\* A job is in one place at a time, so no count exceeds the dispatches.
JobCount == Nat

\* Every worker with a job is in a stage that fits its store call, and the
\* attempts of a job stay within the policy.
TypeOK ==
    /\ Once!TypeOK
    /\ sent \in [Dispatches -> -1..Len(Consumers)]
    /\ jobs \in [Jobs -> JobCount]
    /\ failedJobs \in [Jobs -> JobCount]
    /\ stage \in [Workers -> Stages]
    /\ attempt \in [Workers -> Attempts]
    /\ class \in [Workers -> Classes]
    /\ delivery \in [Workers -> DeliveryStatuses]
    /\ letter \in [Keys -> {"none", "OPEN", "RESOLVED"}]
    /\ handled \subseteq Keys
    /\ discarded \subseteq Keys
    /\ ignored \subseteq Keys
    /\ \A w \in Workers : stage[w] # "once" <=> pc[w] = "idle"

Init ==
    /\ Once!Init
    /\ sent = [d \in Dispatches |-> -1]
    /\ jobs = [j \in Jobs |-> 0]
    /\ failedJobs = [j \in Jobs |-> 0]
    /\ stage = [w \in Workers |-> "idle"]
    /\ attempt = [w \in Workers |-> 1]
    /\ class = [w \in Workers |-> "RETRYABLE"]
    /\ delivery = [w \in Workers |-> "none"]
    /\ letter = [k \in Keys |-> "none"]
    /\ handled = {}
    /\ discarded = {}
    /\ ignored = {}

Add(count, j) == [count EXCEPT ![j] = @ + 1]
Remove(count, j) == [count EXCEPT ![j] = @ - 1]
JobOf(w) == <<key[w], attempt[w]>>

-------------------------------------------------------------------------------
(* Dispatch *)

\* The outbox hands the message to dispatchMessageOutboxEvent: for the first
\* time, again because an earlier run failed half way or its mark was lost.
StartDispatch(d) ==
    /\ sent[d] = -1
    /\ sent' = [sent EXCEPT ![d] = 0]
    /\ UNCHANGED <<store, jobs, failedJobs, consume, letter, handled, discarded, ignored>>

\* ReplayDeadLetter enqueues the original envelope again, for all of its
\* consumers, whether or not the dead letter has been resolved.
ReplayDeadLetter(k, d) ==
    /\ letter[k] # "none"
    /\ StartDispatch(d)

\* The next consumer's job, attempt 1.  A Dispatch error ends the run here,
\* with the earlier consumers already enqueued: then d takes no more steps.
DispatchNext(d) ==
    /\ sent[d] \in 0..(Len(Consumers) - 1)
    /\ sent' = [sent EXCEPT ![d] = @ + 1]
    /\ jobs' = Add(jobs, <<Consumers[sent[d] + 1], 1>>)
    /\ UNCHANGED <<store, failedJobs, consume, letter, handled, discarded, ignored>>

-------------------------------------------------------------------------------
(* consumeMessage *)

\* The worker is done with its job.
Rest(w) ==
    /\ stage' = [stage EXCEPT ![w] = "idle"]
    /\ attempt' = [attempt EXCEPT ![w] = 1]
    /\ class' = [class EXCEPT ![w] = "RETRYABLE"]

\* Handle returned an error: the queue moves the job to failed_jobs.
JobFails(w) ==
    /\ failedJobs' = Add(failedJobs, JobOf(w))
    /\ Rest(w)
    /\ UNCHANGED delivery

\* finishMessageDelivery.
FinishDelivery(w, s) == delivery' = [delivery EXCEPT ![w] = s]

\* A worker takes a job, creates the delivery row and calls the store.
Receive(w, k, n) ==
    /\ stage[w] = "idle"
    /\ jobs[<<k, n>>] > 0
    /\ jobs' = Remove(jobs, <<k, n>>)
    /\ Once!Begin(w, k)
    /\ stage' = [stage EXCEPT ![w] = "once"]
    /\ attempt' = [attempt EXCEPT ![w] = n]
    /\ delivery' = [delivery EXCEPT ![w] = "PROCESSING"]
    /\ UNCHANGED <<class, sent, failedJobs, letter, handled, discarded, ignored>>

\* The delivery row cannot be created.
ReceiveError(k, n) ==
    /\ jobs[<<k, n>>] > 0
    /\ jobs' = Remove(jobs, <<k, n>>)
    /\ failedJobs' = Add(failedJobs, <<k, n>>)
    /\ UNCHANGED <<store, sent, consume, letter, handled, discarded, ignored>>

\* The envelope is invalid, or the consumer is gone or does not support it:
\* the delivery row is created DEAD_LETTERED.
ReceiveRejected(w, k, n) ==
    /\ stage[w] = "idle"
    /\ jobs[<<k, n>>] > 0
    /\ jobs' = Remove(jobs, <<k, n>>)
    /\ key' = [key EXCEPT ![w] = k]
    /\ stage' = [stage EXCEPT ![w] = "bury"]
    /\ attempt' = [attempt EXCEPT ![w] = n]
    /\ delivery' = [delivery EXCEPT ![w] = "DEAD_LETTERED"]
    /\ UNCHANGED <<status, result, token, lease, pc, claim, left, rep>>
    /\ UNCHANGED <<class, sent, failedJobs, letter, handled, discarded, ignored>>

\* The store's statements up to its return.
OnceStep(w) ==
    /\ stage[w] = "once"
    /\ \/ Once!ReadRow(w)
       \/ Once!ReadError(w)
       \/ Once!InsertRow(w)
       \/ Once!InsertError(w)
       \/ Once!ReadConflict(w)
       \/ Once!ReserveFailed(w)
       \/ Once!ReserveStaleRunning(w)
       \/ \E r \in Results : Once!RunHandler(w, "failed", r)
       \/ Once!Finish(w)
       \/ Once!FinishError(w)
    /\ UNCHANGED <<sent, jobs, failedJobs, consume, letter, handled, discarded, ignored>>

HandlerSucceeds(w) ==
    /\ stage[w] = "once"
    /\ \E r \in Results : Once!RunHandler(w, "success", r)
    /\ handled' = handled \union {key[w]}
    /\ UNCHANGED <<sent, jobs, failedJobs, consume, letter, discarded, ignored>>

\* Variants: the row's status is passed on as it is; a row found running
\* counts as a success.
DeliveryStatusRaw(r) == r.status
DeliveryStatusKeepsRunning(r) == IF r.kind = "duplicate" THEN "IGNORED" ELSE "SUCCEEDED"

DeliveryStatus(r) ==
    IF r.kind = "duplicate" \/ r.status = "running" THEN "IGNORED" ELSE "SUCCEEDED"

\* The store answered without an error: the job is done once its delivery
\* row is written.
Settle(w) ==
    /\ stage[w] = "once"
    /\ pc[w] = "done"
    /\ rep[w].kind # "error"
    /\ \/ /\ FinishDelivery(w, DeliveryStatus(rep[w]))
          /\ Rest(w)
          /\ ignored' = ignored \union {k \in {key[w]} : DeliveryStatus(rep[w]) = "IGNORED"}
          /\ UNCHANGED failedJobs
       \/ JobFails(w) /\ UNCHANGED ignored
    /\ Once!Return(w)
    /\ UNCHANGED <<sent, jobs, letter, handled, discarded>>

\* The store returned an error: the handler's, of any class, or its own.
FailWith(w, c) ==
    /\ stage[w] = "once"
    /\ pc[w] = "done"
    /\ rep[w].kind = "error"
    /\ Once!Return(w)
    /\ stage' = [stage EXCEPT ![w] = "failing"]
    /\ class' = [class EXCEPT ![w] = c]
    /\ UNCHANGED <<attempt, delivery, sent, jobs, failedJobs, letter, handled, discarded, ignored>>

\* The handler panics.  consumeMessage recovers, but the store's call is gone
\* and its row stays running.
HandlerPanics(w) ==
    /\ stage[w] = "once"
    /\ pc[w] = "run"
    /\ Once!Abandon(w)
    /\ stage' = [stage EXCEPT ![w] = "failing"]
    /\ class' = [class EXCEPT ![w] = "RETRYABLE"]
    /\ UNCHANGED <<attempt, delivery, sent, jobs, failedJobs, letter, handled, discarded, ignored>>

ShouldRetry(c, n) == c = "RETRYABLE" /\ n < MaxAttempts

\* handleMessageFailure: the delivery row first, then the retry or the dead
\* letter.  The route may not load and the row may not be written.
HandleMessageFailure(w) ==
    /\ stage[w] = "failing"
    /\ \/ /\ ShouldRetry(class[w], attempt[w])
          /\ FinishDelivery(w, "RETRY_SCHEDULED")
          /\ stage' = [stage EXCEPT ![w] = "retry"]
          /\ class' = [class EXCEPT ![w] = "RETRYABLE"]
          /\ UNCHANGED <<attempt, failedJobs>>
       \/ /\ ~ShouldRetry(class[w], attempt[w])
          /\ FinishDelivery(w, "DEAD_LETTERED")
          /\ stage' = [stage EXCEPT ![w] = "bury"]
          /\ class' = [class EXCEPT ![w] = "RETRYABLE"]
          /\ UNCHANGED <<attempt, failedJobs>>
       \/ JobFails(w)
    /\ UNCHANGED <<store, sent, jobs, letter, handled, discarded, ignored>>

\* Variant: a retry that cannot be enqueued is not reported to the queue.
ScheduleMessageRetrySilent(w) ==
    /\ stage[w] = "retry"
    /\ \/ jobs' = Add(jobs, <<key[w], attempt[w] + 1>>)
       \/ UNCHANGED jobs
    /\ Rest(w)
    /\ UNCHANGED <<store, delivery, sent, failedJobs, letter, handled, discarded, ignored>>

ScheduleMessageRetry(w) ==
    /\ stage[w] = "retry"
    /\ \/ /\ jobs' = Add(jobs, <<key[w], attempt[w] + 1>>)
          /\ Rest(w)
          /\ UNCHANGED <<delivery, failedJobs>>
       \/ /\ JobFails(w)
          /\ UNCHANGED jobs
    /\ UNCHANGED <<store, sent, letter, handled, discarded, ignored>>

CreateDeadLetter(w) ==
    /\ stage[w] = "bury"
    /\ \/ /\ letter' = [letter EXCEPT ![key[w]] = "OPEN"]
          /\ Rest(w)
          /\ UNCHANGED <<delivery, failedJobs>>
       \/ /\ JobFails(w)
          /\ UNCHANGED letter
    /\ UNCHANGED <<store, sent, jobs, handled, discarded, ignored>>

\* The worker's process dies; the queue hands its job out again.
Crash(w) ==
    /\ stage[w] # "idle"
    /\ jobs' = Add(jobs, JobOf(w))
    /\ Rest(w)
    /\ delivery' = [delivery EXCEPT ![w] = "none"]
    /\ \/ Once!Abandon(w)
       \/ Once!Return(w)
       \/ pc[w] = "idle" /\ UNCHANGED store
    /\ UNCHANGED <<sent, failedJobs, letter, handled, discarded, ignored>>

-------------------------------------------------------------------------------
(* Operators *)

\* QueueFailedJobService.Retry and Delete.
RetryFailedJob(j) ==
    /\ failedJobs[j] > 0
    /\ failedJobs' = Remove(failedJobs, j)
    /\ jobs' = Add(jobs, j)
    /\ UNCHANGED <<store, sent, consume, letter, handled, discarded, ignored>>

DeleteFailedJob(j) ==
    /\ failedJobs[j] > 0
    /\ failedJobs' = Remove(failedJobs, j)
    /\ discarded' = discarded \union {j[1]}
    /\ UNCHANGED <<store, sent, jobs, consume, letter, handled, ignored>>

ResolveDeadLetter(k) ==
    /\ letter[k] = "OPEN"
    /\ letter' = [letter EXCEPT ![k] = "RESOLVED"]
    /\ UNCHANGED <<store, sent, jobs, failedJobs, consume, handled, discarded, ignored>>

Tick ==
    /\ Once!Tick
    /\ UNCHANGED <<sent, jobs, failedJobs, consume, letter, handled, discarded, ignored>>

Consume(w) ==
    \/ \E k \in Keys, n \in Attempts : Receive(w, k, n) \/ ReceiveRejected(w, k, n)
    \/ OnceStep(w)
    \/ HandlerSucceeds(w)
    \/ HandlerPanics(w)
    \/ Settle(w)
    \/ \E c \in Classes : FailWith(w, c)
    \/ HandleMessageFailure(w)
    \/ ScheduleMessageRetry(w)
    \/ CreateDeadLetter(w)
    \/ Crash(w)

Next ==
    \/ \E d \in Dispatches : StartDispatch(d) \/ DispatchNext(d)
    \/ \E k \in Keys, d \in Dispatches : ReplayDeadLetter(k, d)
    \/ \E w \in Workers : Consume(w)
    \/ \E k \in Keys, n \in Attempts : ReceiveError(k, n)
    \/ \E j \in Jobs : RetryFailedJob(j) \/ DeleteFailedJob(j)
    \/ \E k \in Keys : ResolveDeadLetter(k)
    \/ Tick

Spec == Init /\ [][Next]_vars

\* Workers keep taking jobs and time passes; processes die, and operators put
\* failed jobs back, only finitely often.
WorkerMove(w) ==
    \/ \E k \in Keys, n \in Attempts : Receive(w, k, n) \/ ReceiveRejected(w, k, n)
    \/ OnceStep(w)
    \/ HandlerSucceeds(w)
    \/ Settle(w)
    \/ \E c \in Classes : FailWith(w, c)
    \/ HandleMessageFailure(w)
    \/ ScheduleMessageRetry(w)
    \/ CreateDeadLetter(w)

Disturbance ==
    \/ \E w \in Workers : Crash(w)
    \/ \E j \in Jobs : RetryFailedJob(j)

LiveSpec ==
    /\ Spec
    /\ \A w \in Workers : WF_vars(WorkerMove(w))
    /\ <>[][~Disturbance]_vars

-------------------------------------------------------------------------------
(* Properties *)

\* k's job has been enqueued by some dispatch.
Enqueued(k) == \E d \in Dispatches : \E i \in 1..sent[d] : Consumers[i] = k

\* Somebody will still act on k without being asked to.
InFlight(k) ==
    \/ \E n \in Attempts : jobs[<<k, n>>] > 0
    \/ \E w \in Workers : stage[w] # "idle" /\ key[w] = k

\* An operator can see that k was not handled, or chose to drop it.
Visible(k) ==
    \/ letter[k] # "none"
    \/ \E n \in Attempts : failedJobs[<<k, n>>] > 0
    \/ k \in discarded

\* Whatever fails - a handler, a write, an enqueue, a worker - an enqueued
\* message is handled, visibly failed, or still in flight; the one way out is
\* a delivery that was ignored because the store called it a duplicate.
EnqueuedIsAccountedFor ==
    \A k \in Keys : Enqueued(k) =>
        k \in handled \/ InFlight(k) \/ Visible(k) \/ k \in ignored

\* The same without the exception, which is what "at least once" promises.
AtLeastOnce ==
    \A k \in Keys : Enqueued(k) => k \in handled \/ InFlight(k) \/ Visible(k)

\* A delivery that says SUCCEEDED either has a handled message behind it or
\* lost the race for a failed row, whose winner it then leaves to finish.
SettlesRightly(w) ==
    (key[w] \notin handled /\ delivery'[w] = "SUCCEEDED" /\ Settle(w))
        => rep[w].kind = "lost" /\ rep[w].status = "failed"
SucceededWasHandledOrLost == [][\A w \in Workers : SettlesRightly(w)]_vars

\* An enqueued message comes to rest: its retries are bounded and every path
\* of a failing job ends it.
EnqueuedComesToRest == \A k \in Keys : Enqueued(k) ~> ~InFlight(k)
===============================================================================
