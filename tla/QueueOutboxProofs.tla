-------------------------- MODULE QueueOutboxProofs --------------------------
(***************************************************************************)
(* For any number of runners and events, any batch, lock time and number   *)
(* of attempts and faults: claims that last exclude each other, marks made *)
(* in time take effect, and events are settled for cause and for good.     *)
(*                                                                         *)
(* The heart is ClaimsAreFenced: an event held by a runner whose batch is  *)
(* younger than the lock is that runner's in its row.                      *)
(***************************************************************************)
EXTENDS QueueOutbox, TLAPS

IdleHoldsNothing == \A d \in Dispatchers : pc[d] = "idle" => holds[d] = {}

\* A runner about to mark an event knows what became of its dispatch.
OutcomeIsTrue ==
    \A d \in Dispatchers, e \in Events :
        (pc[d] = "mark" /\ IsFirst(e, holds[d])) =>
            /\ outcome[d] = "ok" => e \in pushed
            /\ outcome[d] = "fatal" => e \in fatal

AttemptsLeft ==
    \A e \in Events : status[e] \in {"none", "pending", "processing"} => attempts[e] < MaxAttempts

Settled == SentWasPushed /\ FailedForCause

Batches == IdleHoldsNothing /\ OutcomeIsTrue

IInv == TypeOK /\ Batches /\ ClaimsAreFenced /\ AttemptsLeft /\ Settled

\* What the assumptions on the constants say.
LEMMA ConstantFacts ==
    /\ Events \subseteq Int
    /\ Lease \in Nat /\ Lease > 0
    /\ MaxAttempts \in Nat /\ MaxAttempts > 0
    /\ MaxFaults \in Nat
    /\ Nobody \notin Dispatchers
BY EventsAssumption, OutboxLeaseAssumption, AttemptsAssumption, FaultsAssumption,
   NobodyAssumption DEF Events

\* Nothing is enqueued, claimed or marked at first.
LEMMA InitInvariant == Init => IInv
<1> SUFFICES ASSUME Init PROVE IInv
  OBVIOUS
<1> USE ConstantFacts
<1>1. TypeOK
  BY DEF Init, TypeOK, Outcomes
<1>2. Batches /\ ClaimsAreFenced
  BY DEF Init, Batches, IdleHoldsNothing, OutcomeIsTrue, ClaimsAreFenced
<1>3. AttemptsLeft /\ Settled
  BY DEF Init, AttemptsLeft, Settled, SentWasPushed, FailedForCause
<1> QED BY <1>1, <1>2, <1>3 DEF IInv

\* A row appears; nobody can have claimed it.
LEMMA EnqueueInvariant == ASSUME IInv, NEW e \in Events, Enqueue(e) PROVE IInv'
<1> USE ConstantFacts
<1>1. TypeOK'
  BY DEF IInv, TypeOK, Enqueue, local, world
<1>2. Batches'
  BY DEF IInv, Batches, IdleHoldsNothing, OutcomeIsTrue, Enqueue, local, world
<1>3. ClaimsAreFenced'
  BY DEF IInv, TypeOK, ClaimsAreFenced, Live, Enqueue, local, world
<1>4. AttemptsLeft'
  BY DEF IInv, TypeOK, AttemptsLeft, Enqueue, local, world
<1>5. Settled'
  BY DEF IInv, TypeOK, Settled, SentWasPushed, FailedForCause, Enqueue, local, world
<1> QED BY <1>1, <1>2, <1>3, <1>4, <1>5 DEF IInv

\* A runner begins a batch: it holds nothing yet.
LEMMA SelectDueInvariant == ASSUME IInv, NEW d \in Dispatchers, SelectDue(d) PROVE IInv'
<1> USE ConstantFacts
<1>1. FirstDue \subseteq Events
  BY DEF FirstDue
<1>2. TypeOK'
  BY <1>1 DEF IInv, TypeOK, SelectDue, rows, world
<1>3. Batches'
  BY DEF IInv, TypeOK, Batches, IdleHoldsNothing, OutcomeIsTrue, SelectDue, rows, world
<1>4. ClaimsAreFenced'
  BY DEF IInv, TypeOK, Batches, IdleHoldsNothing, ClaimsAreFenced, Live, SelectDue, rows, world
<1>5. AttemptsLeft' /\ Settled'
  BY DEF IInv, AttemptsLeft, Settled, SentWasPushed, FailedForCause, SelectDue, rows, world
<1> QED BY <1>2, <1>3, <1>4, <1>5 DEF IInv

\* Where a runner is after a row of its claim loop.
LEMMA ClaimNextFacts ==
  ASSUME IInv, NEW d \in Dispatchers, NEW e \in Events, NEW S \in SUBSET Events,
         pc[d] = "claim", ClaimNext(d, e, S)
  PROVE  /\ todo' \in [Dispatchers -> SUBSET Events]
         /\ holds' = [holds EXCEPT ![d] = S]
         /\ pc' \in [Dispatchers -> {"idle", "claim", "dispatch", "mark"}]
         /\ age' \in [Dispatchers -> 0..Lease]
         /\ \A c \in Dispatchers : c # d => pc'[c] = pc[c] /\ age'[c] = age[c]
         /\ pc'[d] # "mark"
         /\ S # {} => pc'[d] # "idle" /\ age'[d] = age[d]
<1> USE ConstantFacts
<1>1. /\ pc \in [Dispatchers -> {"idle", "claim", "dispatch", "mark"}]
      /\ age \in [Dispatchers -> 0..Lease] /\ todo \in [Dispatchers -> SUBSET Events]
  BY DEF IInv, TypeOK
<1>2. todo' \in [Dispatchers -> SUBSET Events] /\ holds' = [holds EXCEPT ![d] = S]
  <2>1. todo' = [todo EXCEPT ![d] = @ \ {e}] /\ todo[d] \ {e} \in SUBSET Events
    BY <1>1 DEF ClaimNext
  <2> QED BY <1>1, <2>1 DEF ClaimNext
<1>3. CASE UNCHANGED <<pc, age>>
  BY <1>1, <1>2, <1>3
<1>4. CASE EnterDispatch(d, S)
  <2>1. CASE S = {}
    <3>1. pc' = [pc EXCEPT ![d] = "idle"] /\ age' = [age EXCEPT ![d] = 0]
      BY <1>4, <2>1 DEF EnterDispatch
    <3> QED BY <1>1, <1>2, <2>1, <3>1
  <2>2. CASE S # {}
    <3>1. pc' = [pc EXCEPT ![d] = "dispatch"] /\ age' = [age EXCEPT ![d] = age[d]]
      BY <1>4, <2>2 DEF EnterDispatch
    <3> QED BY <1>1, <1>2, <2>2, <3>1
  <2> QED BY <2>1, <2>2
<1> QED BY <1>3, <1>4 DEF ClaimNext

\* A row is claimed whose lock has lapsed: no runner with a live batch holds it.
LEMMA ClaimOneInvariant ==
  ASSUME IInv, NEW d \in Dispatchers, NEW e \in Events, ClaimOne(d, e) PROVE IInv'
<1> USE ConstantFacts
<1> DEFINE Got == /\ Claimable(e, age[d])
                  /\ status' = [status EXCEPT ![e] = "processing"]
                  /\ owner' = [owner EXCEPT ![e] = d]
                  /\ lock' = [lock EXCEPT ![e] = Lease - age[d]]
           S == IF Claimable(e, age[d]) THEN holds[d] \union {e} ELSE holds[d]
<1>1. /\ pc[d] = "claim" /\ S \in SUBSET Events /\ ClaimNext(d, e, S)
      /\ Got \/ (~Claimable(e, age[d]) /\ UNCHANGED <<status, owner, lock>>)
      /\ UNCHANGED <<attempts, wait, outcome, run, world, faults>>
  BY DEF ClaimOne, IInv, TypeOK
<1>2. /\ todo' \in [Dispatchers -> SUBSET Events]
      /\ holds' = [holds EXCEPT ![d] = S]
      /\ pc' \in [Dispatchers -> {"idle", "claim", "dispatch", "mark"}]
      /\ age' \in [Dispatchers -> 0..Lease]
      /\ \A c \in Dispatchers : c # d => pc'[c] = pc[c] /\ age'[c] = age[c]
      /\ pc'[d] # "mark"
      /\ S # {} => pc'[d] # "idle" /\ age'[d] = age[d]
  BY <1>1, ClaimNextFacts
<1> HIDE DEF S
<1>3. S = holds[d] \/ (Got /\ S = holds[d] \union {e})
  BY <1>1 DEF S
<1>4. TypeOK'
  BY <1>1, <1>2 DEF IInv, TypeOK, world
<1>5. Batches'
  BY <1>1, <1>2 DEF IInv, TypeOK, Batches, IdleHoldsNothing, OutcomeIsTrue, world
<1>6. ClaimsAreFenced'
  <2> SUFFICES ASSUME NEW c \in Dispatchers, NEW f \in holds'[c], age'[c] < Lease
               PROVE  status'[f] = "processing" /\ owner'[f] = c /\ lock'[f] = Lease - age'[c]
    BY DEF ClaimsAreFenced, Live
  <2>1. age'[c] = age[c] /\ f \in Events
    BY <1>1, <1>2 DEF IInv, TypeOK
  <2>2. CASE c = d /\ f = e /\ Got
    BY <2>1, <2>2 DEF IInv, TypeOK
  <2>3. CASE f \in holds[c] /\ ~(c = d /\ f = e /\ Got)
    <3>1. status[f] = "processing" /\ owner[f] = c /\ lock[f] = Lease - age[c]
      BY <2>1, <2>3 DEF IInv, ClaimsAreFenced, Live
    <3>2. f # e \/ ~Claimable(e, age[d])
      BY <3>1, <2>1, <2>3, <1>1 DEF Claimable, IInv, TypeOK
    <3> QED BY <3>1, <3>2, <2>1, <1>1 DEF IInv, TypeOK
  <2> QED BY <2>2, <2>3, <1>2, <1>3 DEF IInv, TypeOK
<1>7. AttemptsLeft'
  BY <1>1 DEF IInv, TypeOK, AttemptsLeft, Claimable
<1>8. Settled'
  BY <1>1 DEF IInv, TypeOK, Settled, SentWasPushed, FailedForCause, world
<1> QED BY <1>4, <1>5, <1>6, <1>7, <1>8 DEF IInv

\* The dispatched event is the first of the batch.
LEMMA DispatchInvariant ==
  ASSUME IInv, NEW d \in Dispatchers, NEW e \in Events, NEW o \in Outcomes, Dispatch(d, e, o)
  PROVE  IInv'
<1> USE ConstantFacts
<1>1. TypeOK'
  BY DEF IInv, TypeOK, Dispatch, rows
<1>2. IdleHoldsNothing'
  BY DEF IInv, TypeOK, Batches, IdleHoldsNothing, Dispatch
<1>3. OutcomeIsTrue'
  <2> SUFFICES ASSUME NEW c \in Dispatchers, NEW f \in Events, pc'[c] = "mark", IsFirst(f, holds'[c])
               PROVE  /\ outcome'[c] = "ok" => f \in pushed'
                      /\ outcome'[c] = "fatal" => f \in fatal'
    BY DEF OutcomeIsTrue, IsFirst
  <2>1. holds' = holds /\ pushed \subseteq pushed' /\ fatal \subseteq fatal'
    BY DEF Dispatch
  <2>2. CASE c = d
    <3>1. f = e
      <4>1. f \in holds[d] /\ e \in holds[d] /\ e <= f /\ f <= e
        BY <2>1, <2>2 DEF Dispatch, IsFirst
      <4> QED BY <4>1
    <3> QED BY <2>2, <3>1 DEF Dispatch, IInv, TypeOK
  <2>3. CASE c # d
    <3>1. pc[c] = "mark" /\ outcome'[c] = outcome[c]
      BY <2>3 DEF Dispatch, IInv, TypeOK
    <3> QED BY <2>1, <3>1 DEF IInv, Batches, OutcomeIsTrue
  <2> QED BY <2>2, <2>3
<1>4. ClaimsAreFenced'
  BY DEF IInv, ClaimsAreFenced, Live, Dispatch, rows
<1>5. AttemptsLeft' /\ Settled'
  BY DEF IInv, AttemptsLeft, Settled, SentWasPushed, FailedForCause, Dispatch, rows
<1> QED BY <1>1, <1>2, <1>3, <1>4, <1>5 DEF IInv, Batches

\* The marked event was dispatched; a claim of another runner is not touched.
LEMMA MarkInvariant ==
  ASSUME IInv, NEW d \in Dispatchers, NEW e \in Events, Mark(d, e) PROVE IInv'
<1> USE ConstantFacts
<1> DEFINE S == holds[d] \ {e}
           Done == /\ MarkMatches(d, e)
                   /\ status' = [status EXCEPT ![e] = MarkedStatus(outcome[d], Tried(d, e))]
                   /\ attempts' = [attempts EXCEPT ![e] = Tried(d, e)]
                   /\ owner' = [owner EXCEPT ![e] = Nobody]
                   /\ lock' = [lock EXCEPT ![e] = -Lease]
<1>1. /\ Done \/ (~MarkMatches(d, e) /\ UNCHANGED <<status, attempts, owner, lock>>)
      /\ holds' = [holds EXCEPT ![d] = S]
      /\ pc[d] = "mark" /\ IsFirst(e, holds[d])
      /\ UNCHANGED <<todo, run, world, faults>>
      /\ outcome' = [outcome EXCEPT ![d] = "ok"]
  BY DEF Mark, rows
<1>2. wait' \in [Events -> 0..1]
  BY DEF Mark, rows, IInv, TypeOK
<1>3. /\ pc' = [pc EXCEPT ![d] = IF S = {} THEN "idle" ELSE "dispatch"]
      /\ age' = [age EXCEPT ![d] = IF S = {} THEN 0 ELSE @]
  BY DEF Mark, EnterDispatch
<1>4. Done => /\ attempts[e] < MaxAttempts
              /\ Tried(d, e) \in 0..MaxAttempts
              /\ outcome[d] = "ok" => e \in pushed
              /\ outcome[d] = "fatal" => e \in fatal
  BY <1>1 DEF MarkMatches, Tried, IInv, TypeOK, AttemptsLeft, Batches, OutcomeIsTrue
<1>5. LET s == MarkedStatus(outcome[d], Tried(d, e)) IN
        /\ s \in {"sent", "pending", "failed"}
        /\ s = "sent" => outcome[d] = "ok"
        /\ s = "pending" => Tried(d, e) < MaxAttempts
        /\ s = "failed" => outcome[d] = "fatal" \/ ~(Tried(d, e) < MaxAttempts)
  BY DEF MarkedStatus, ShouldRetry, IInv, TypeOK, Outcomes
<1>6. TypeOK'
  BY <1>1, <1>2, <1>3, <1>4, <1>5 DEF IInv, TypeOK, world, Outcomes
<1>7. Batches'
  BY <1>1, <1>3 DEF IInv, TypeOK, Batches, IdleHoldsNothing, OutcomeIsTrue, world
<1>8. ClaimsAreFenced'
  <2> SUFFICES ASSUME NEW c \in Dispatchers, NEW f \in holds'[c], age'[c] < Lease
               PROVE  status'[f] = "processing" /\ owner'[f] = c /\ lock'[f] = Lease - age'[c]
    BY DEF ClaimsAreFenced, Live
  <2>1. f \in holds[c] /\ f \in Events /\ age'[c] = age[c] /\ (c = d => f # e)
    BY <1>1, <1>3 DEF IInv, TypeOK
  <2>2. status[f] = "processing" /\ owner[f] = c /\ lock[f] = Lease - age[c]
    BY <2>1 DEF IInv, ClaimsAreFenced, Live
  <2>3. f # e \/ ~MarkMatches(d, e)
    BY <2>1, <2>2 DEF MarkMatches
  <2> QED BY <1>1, <2>1, <2>2, <2>3 DEF IInv, TypeOK
<1>9. AttemptsLeft'
  BY <1>1, <1>4, <1>5 DEF IInv, TypeOK, AttemptsLeft
<1>10. SentWasPushed'
  BY <1>1, <1>4, <1>5 DEF IInv, TypeOK, Settled, SentWasPushed, world
<1>11. FailedForCause'
  BY <1>1, <1>4, <1>5 DEF IInv, TypeOK, Settled, FailedForCause, world
<1> QED BY <1>6, <1>7, <1>8, <1>9, <1>10, <1>11 DEF IInv, Settled

\* A runner that forgets its batch has no claim left to speak of.
LEMMA ForgetInvariant ==
  ASSUME IInv, NEW d \in Dispatchers, Forget(d), faults' \in 0..MaxFaults,
         run' \in [Dispatchers -> {"up", "cancelled", "down"}]
  PROVE  IInv'
<1> USE ConstantFacts
<1>1. TypeOK'
  <2>1. todo' \in [Dispatchers -> SUBSET Events] /\ holds' \in [Dispatchers -> SUBSET Events]
    <3>1. {} \in SUBSET Events
      OBVIOUS
    <3> QED BY <3>1 DEF IInv, TypeOK, Forget
  <2> QED BY <2>1 DEF IInv, TypeOK, Forget, rows, world, Outcomes
<1>2. Batches'
  BY DEF IInv, TypeOK, Batches, IdleHoldsNothing, OutcomeIsTrue, Forget, rows, world
<1>3. ClaimsAreFenced'
  BY DEF IInv, TypeOK, ClaimsAreFenced, Live, Forget, rows, world
<1>4. AttemptsLeft' /\ Settled'
  BY DEF IInv, AttemptsLeft, Settled, SentWasPushed, FailedForCause, Forget, rows, world
<1> QED BY <1>1, <1>2, <1>3, <1>4 DEF IInv

\* Starting and stopping a runner between two steps of its cycle.
LEMMA RunInvariant ==
  ASSUME IInv, UNCHANGED <<rows, local, world>>, faults' \in 0..MaxFaults,
         run' \in [Dispatchers -> {"up", "cancelled", "down"}]
  PROVE  IInv'
<1>1. TypeOK'
  BY DEF IInv, TypeOK, rows, local, world
<1>2. Batches' /\ ClaimsAreFenced'
  BY DEF IInv, Batches, IdleHoldsNothing, OutcomeIsTrue, ClaimsAreFenced, Live, rows, local, world
<1>3. AttemptsLeft' /\ Settled'
  BY DEF IInv, AttemptsLeft, Settled, SentWasPushed, FailedForCause, rows, local, world
<1> QED BY <1>1, <1>2, <1>3 DEF IInv

\* A lock and the batch it was taken in grow older together.
LEMMA TickInvariant == ASSUME IInv, Tick PROVE IInv'
<1> USE ConstantFacts
<1>1. TypeOK'
  BY DEF IInv, TypeOK, Tick, local, world, AtLeast, AtMost
<1>2. Batches'
  BY DEF IInv, Batches, IdleHoldsNothing, OutcomeIsTrue, Tick, world
<1>3. ClaimsAreFenced'
  <2> SUFFICES ASSUME NEW c \in Dispatchers, NEW f \in holds[c], age'[c] < Lease
               PROVE  status[f] = "processing" /\ owner[f] = c /\ lock'[f] = Lease - age'[c]
    BY DEF ClaimsAreFenced, Live, Tick
  <2>1. pc[c] # "idle" /\ f \in Events
    BY DEF IInv, TypeOK, Batches, IdleHoldsNothing
  <2>2. age'[c] = age[c] + 1 /\ age[c] \in 0..Lease
    BY <2>1 DEF IInv, TypeOK, Tick, AtMost
  <2>3. status[f] = "processing" /\ owner[f] = c /\ lock[f] = Lease - age[c]
    BY <2>2 DEF IInv, ClaimsAreFenced, Live
  <2> QED BY <2>1, <2>2, <2>3 DEF Tick, AtLeast
<1>4. AttemptsLeft' /\ Settled'
  BY DEF IInv, AttemptsLeft, Settled, SentWasPushed, FailedForCause, Tick, world
<1> QED BY <1>1, <1>2, <1>3, <1>4 DEF IInv

\* Every step preserves the invariant.
LEMMA StepInvariant == IInv /\ [Next]_vars => IInv'
<1> SUFFICES ASSUME IInv, [Next]_vars PROVE IInv'
  OBVIOUS
<1> USE ConstantFacts
<1>1. ASSUME NEW e \in Events, Enqueue(e) PROVE IInv'
  BY <1>1, EnqueueInvariant
<1>2. ASSUME NEW d \in Dispatchers, SelectDue(d) PROVE IInv'
  BY <1>2, SelectDueInvariant
<1>3. ASSUME NEW d \in Dispatchers, NEW e \in Events, ClaimOne(d, e) PROVE IInv'
  BY <1>3, ClaimOneInvariant
<1>4. ASSUME NEW d \in Dispatchers, NEW e \in Events, NEW o \in Outcomes, Dispatch(d, e, o) PROVE IInv'
  BY <1>4, DispatchInvariant
<1>5. ASSUME NEW d \in Dispatchers, NEW e \in Events, Mark(d, e) PROVE IInv'
  BY <1>5, MarkInvariant
<1>6. ASSUME NEW d \in Dispatchers, StatementError(d) \/ Crash(d) PROVE IInv'
  BY <1>6, ForgetInvariant DEF StatementError, Crash, IInv, TypeOK
<1>7. ASSUME NEW d \in Dispatchers, Shutdown(d) \/ Exit(d) \/ Restart(d) PROVE IInv'
  BY <1>7, RunInvariant DEF Shutdown, Exit, Restart, IInv, TypeOK
<1>8. CASE Tick
  BY <1>8, TickInvariant
<1>9. CASE UNCHANGED vars
  BY <1>9, RunInvariant DEF vars, IInv, TypeOK
<1> QED
  BY <1>1, <1>2, <1>3, <1>4, <1>5, <1>6, <1>7, <1>8, <1>9 DEF Next, CycleStep

\* The columns and every runner's cycle keep their types, and the claims of
\* live batches are in their rows.
THEOREM Fenced == Spec => []IInv
<1> QED BY InitInvariant, StepInvariant, PTL DEF Spec

\* The columns of queue_outbox and the runners' batches keep their types.
THEOREM TypeCorrect == Spec => []TypeOK
<1>1. IInv => TypeOK
  BY DEF IInv
<1> QED BY <1>1, Fenced, PTL

\* Two runners whose batches are younger than their locks never hold one event.
THEOREM ClaimsExclude == Spec => []ClaimExclusive
<1>1. IInv => ClaimExclusive
  BY DEF IInv, TypeOK, ClaimsAreFenced, ClaimExclusive
<1> QED BY <1>1, Fenced, PTL

\* Sent means pushed, and failed means tried often enough or never to be
\* retried, whichever runners pushed and marked.
THEOREM SettledForCause == Spec => []SettledWithCause
<1>1. IInv => SettledWithCause
  BY DEF IInv, Settled, SettledWithCause
<1> QED BY <1>1, Fenced, PTL

\* A mark made while the batch is younger than its locks takes effect.
THEOREM MarksTakeEffect == Spec => TimelyMarkTakesEffect
<1>1. ASSUME IInv, NEW d \in Dispatchers, NEW e \in Events, Live(d), Mark(d, e)
      PROVE  status'[e] = MarkedStatus(outcome[d], Tried(d, e))
  <2>1. MarkMatches(d, e)
    BY <1>1 DEF Mark, IsFirst, MarkMatches, IInv, ClaimsAreFenced
  <2> QED BY <1>1, <2>1 DEF Mark, IInv, TypeOK
<1>2. IInv /\ [Next]_vars =>
        [\A d \in Dispatchers, e \in Events :
            (Live(d) /\ Mark(d, e)) => status'[e] = MarkedStatus(outcome[d], Tried(d, e))]_vars
  BY <1>1
<1> QED BY <1>2, Fenced, PTL DEF Spec, TimelyMarkTakesEffect

\* A sent or failed event stays what it is, and so does its count of attempts.
THEOREM SettledForGood == Spec => SettledIsFinal
<1>1. ASSUME IInv, Next, NEW e \in Events, status[e] \in {"sent", "failed"}
      PROVE  status'[e] = status[e] /\ attempts'[e] = attempts[e]
  <2>1. ASSUME NEW f \in Events, Enqueue(f) PROVE status'[e] = status[e] /\ attempts'[e] = attempts[e]
    BY <1>1, <2>1 DEF Enqueue, IInv, TypeOK
  <2>2. ASSUME NEW d \in Dispatchers, NEW f \in Events, ClaimOne(d, f)
        PROVE  status'[e] = status[e] /\ attempts'[e] = attempts[e]
    BY <1>1, <2>2 DEF ClaimOne, Claimable, IInv, TypeOK
  <2>3. ASSUME NEW d \in Dispatchers, NEW f \in Events, Mark(d, f)
        PROVE  status'[e] = status[e] /\ attempts'[e] = attempts[e]
    BY <1>1, <2>3 DEF Mark, MarkMatches, rows, IInv, TypeOK
  <2>4. ASSUME NEW d \in Dispatchers,
               \/ SelectDue(d) \/ StatementError(d) \/ Shutdown(d) \/ Exit(d) \/ Crash(d) \/ Restart(d)
               \/ \E f \in Events, o \in Outcomes : Dispatch(d, f, o)
        PROVE  status' = status /\ attempts' = attempts
    BY <2>4 DEF SelectDue, StatementError, Shutdown, Exit, Crash, Restart, Dispatch, Forget, rows
  <2>5. CASE Tick
    BY <2>5 DEF Tick
  <2> QED BY <1>1, <2>1, <2>2, <2>3, <2>4, <2>5 DEF Next, CycleStep
<1>2. IInv /\ [Next]_vars =>
        [\A e \in Events : status[e] \in {"sent", "failed"}
            => status'[e] = status[e] /\ attempts'[e] = attempts[e]]_vars
  BY <1>1
<1> QED BY <1>2, Fenced, PTL DEF Spec, SettledIsFinal
=============================================================================
