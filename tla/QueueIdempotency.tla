--------------------------- MODULE QueueIdempotency ---------------------------
(***************************************************************************)
(* DBQueueIdempotencyStore (app/services/runtime/queue/idempotency.go):    *)
(* Once(key, fn) reserves the key's row in queue_idempotency, runs fn and  *)
(* records its outcome.  Every database statement is a step of its own, so *)
(* that what a worker read may be stale when it acts on it, and a worker   *)
(* may die between any two statements.                                     *)
(*                                                                         *)
(* Time is the time left of a lease (locked_until - now, not below 0):     *)
(* the code only ever asks whether locked_until has passed.  A claim token *)
(* (randomRunToken) is one that no row and no running call carries.        *)
(***************************************************************************)
EXTENDS Naturals

CONSTANTS
    Workers,    \* goroutines that call Once, on any node
    Keys,       \* idempotency keys
    Results,    \* what fn may return, as a result or as an error text
    NoResult,   \* an empty result column
    Tokens,     \* claim tokens
    NoToken,    \* an empty claim_token column
    Lease       \* the five minutes of a claim, in ticks

ASSUME LeaseAssumption == Lease \in Nat \ {0}
ASSUME TokenAssumption == NoToken \notin Tokens
ASSUME ResultAssumption == NoResult \notin Results

VARIABLES
    \* the columns of queue_idempotency
    status,     \* status[k], "absent" while the key has no row
    result,     \* result[k]
    token,      \* token[k]: claim_token
    lease,      \* lease[k]: the time left until locked_until
    \* the local variables of OnceWithMetadata in each worker
    pc,         \* pc[w]: the statement the call has reached
    key,        \* key[w]: its key argument
    claim,      \* claim[w]: its claimToken
    left,       \* left[w]: the time left of the lease it took with claim[w]
    rep         \* rep[w]: the row it read, the outcome of fn, or what it returns

table == <<status, result, token, lease>>
calls == <<pc, key, claim, left, rep>>
vars == <<status, result, token, lease, pc, key, claim, left, rep>>

Statuses == {"absent", "running", "success", "failed"}

\* What a call hands back, QueueIdempotencyResult and the error: the result of
\* its own run ("own"), a row it found ("duplicate": Duplicate is true), the row
\* it lost the race for ("lost": Duplicate is false), or an error.
Kinds == {"none", "own", "duplicate", "lost", "error"}

Report == [kind : Kinds, status : Statuses, result : Results \union {NoResult}]

Steps == {"idle", "read", "insert", "conflict", "reserveFailed",
          "reserveStale", "run", "finish", "done"}

TypeOK ==
    /\ status \in [Keys -> Statuses]
    /\ result \in [Keys -> Results \union {NoResult}]
    /\ token \in [Keys -> Tokens \union {NoToken}]
    /\ lease \in [Keys -> 0..Lease]
    /\ pc \in [Workers -> Steps]
    /\ key \in [Workers -> Keys]
    /\ claim \in [Workers -> Tokens \union {NoToken}]
    /\ left \in [Workers -> 0..Lease]
    /\ rep \in [Workers -> Report]

NoReport == [kind |-> "none", status |-> "absent", result |-> NoResult]
ErrReport == [kind |-> "error", status |-> "absent", result |-> NoResult]

\* The row of key k as a call reports it.
RowReport(k, kind) == [kind |-> kind, status |-> status[k], result |-> result[k]]

Init ==
    /\ status = [k \in Keys |-> "absent"]
    /\ result = [k \in Keys |-> NoResult]
    /\ token = [k \in Keys |-> NoToken]
    /\ lease = [k \in Keys |-> 0]
    /\ pc = [w \in Workers |-> "idle"]
    /\ key \in [Workers -> Keys]
    /\ claim = [w \in Workers |-> NoToken]
    /\ left = [w \in Workers |-> 0]
    /\ rep = [w \in Workers |-> NoReport]

-------------------------------------------------------------------------------
Goto(w, step) ==
    /\ pc' = [pc EXCEPT ![w] = step]
    /\ UNCHANGED <<key, claim, left, rep>>

\* Remember r and go on to another statement.
GotoWith(w, step, r) ==
    /\ pc' = [pc EXCEPT ![w] = step]
    /\ rep' = [rep EXCEPT ![w] = r]
    /\ UNCHANGED <<key, claim, left>>

\* The call is over, with r for its caller.
Reply(w, step, r) ==
    /\ pc' = [pc EXCEPT ![w] = step]
    /\ rep' = [rep EXCEPT ![w] = r]
    /\ claim' = [claim EXCEPT ![w] = NoToken]
    /\ left' = [left EXCEPT ![w] = 0]
    /\ UNCHANGED key

InUse(t) == (\E k \in Keys : token[k] = t) \/ (\E w \in Workers : claim[w] = t)

\* The statement that claims the row succeeds: running, with a new token and
\* a full lease.  The result of an earlier failed attempt stays in the row.
ClaimRow(w) == \E t \in Tokens :
    /\ ~InUse(t)
    /\ status' = [status EXCEPT ![key[w]] = "running"]
    /\ token' = [token EXCEPT ![key[w]] = t]
    /\ lease' = [lease EXCEPT ![key[w]] = Lease]
    /\ pc' = [pc EXCEPT ![w] = "run"]
    /\ claim' = [claim EXCEPT ![w] = t]
    /\ left' = [left EXCEPT ![w] = Lease]
    /\ rep' = [rep EXCEPT ![w] = NoReport]
    /\ UNCHANGED <<result, key>>

\* A caller invokes Once(k, fn).
Begin(w, k) ==
    /\ pc[w] = "idle"
    /\ pc' = [pc EXCEPT ![w] = "read"]
    /\ key' = [key EXCEPT ![w] = k]
    /\ UNCHANGED <<claim, left, rep>>
    /\ UNCHANGED table

Expired(k) == lease[k] = 0

\* reserve's first SELECT, and the branch it takes on what it read.
ReadRow(w) ==
    /\ pc[w] = "read"
    /\ \/ /\ status[key[w]] = "absent"
          /\ Goto(w, "insert")
       \/ /\ status[key[w]] = "failed"
          /\ GotoWith(w, "reserveFailed", RowReport(key[w], "lost"))
       \/ /\ status[key[w]] = "running"
          /\ Expired(key[w])
          /\ GotoWith(w, "reserveStale", RowReport(key[w], "lost"))
       \/ /\ \/ status[key[w]] = "success"
             \/ status[key[w]] = "running" /\ ~Expired(key[w])
          /\ Reply(w, "done", RowReport(key[w], "duplicate"))
    /\ UNCHANGED table

\* A SELECT that fails is treated like a row that does not exist.
ReadError(w) ==
    /\ pc[w] = "read"
    /\ Goto(w, "insert")
    /\ UNCHANGED table

\* reserve's INSERT: the key is unique.
InsertRow(w) ==
    /\ pc[w] = "insert"
    /\ \/ /\ status[key[w]] = "absent"
          /\ ClaimRow(w)
       \/ /\ status[key[w]] # "absent"
          /\ Goto(w, "conflict")
          /\ UNCHANGED table

InsertError(w) ==
    /\ pc[w] = "insert"
    /\ Goto(w, "conflict")
    /\ UNCHANGED table

\* existingAfterReserveConflict: any row that is there now is a duplicate;
\* none, or a failing SELECT, returns the INSERT's error.
ReadConflict(w) ==
    /\ pc[w] = "conflict"
    /\ \/ /\ status[key[w]] # "absent"
          /\ Reply(w, "done", RowReport(key[w], "duplicate"))
       \/ Reply(w, "done", ErrReport)
    /\ UNCHANGED table

\* Variant: the UPDATE of a failed row without its status condition.
ReserveFailedUnconditional(w) ==
    /\ pc[w] = "reserveFailed"
    /\ ClaimRow(w)

\* The conditional UPDATE of a failed row.  Losing it returns the row as it
\* was read, neither claimed nor marked as a duplicate.
ReserveFailed(w) ==
    /\ pc[w] = "reserveFailed"
    /\ \/ /\ status[key[w]] = "failed"
          /\ ClaimRow(w)
       \/ /\ status[key[w]] # "failed"
          /\ Reply(w, "done", rep[w])
          /\ UNCHANGED table
       \/ /\ Reply(w, "done", ErrReport)
          /\ UNCHANGED table

\* Variant: the takeover UPDATE without its locked_until condition.
ReserveStaleUnconditional(w) ==
    /\ pc[w] = "reserveStale"
    /\ status[key[w]] = "running"
    /\ ClaimRow(w)

\* The conditional UPDATE of a running row whose lease has lapsed.
ReserveStaleRunning(w) ==
    /\ pc[w] = "reserveStale"
    /\ \/ /\ status[key[w]] = "running"
          /\ Expired(key[w])
          /\ ClaimRow(w)
       \/ /\ ~(status[key[w]] = "running" /\ Expired(key[w]))
          /\ Reply(w, "done", rep[w])
          /\ UNCHANGED table
       \/ /\ Reply(w, "done", ErrReport)
          /\ UNCHANGED table

\* Variant: an empty result status is not replaced by "success".
RunHandlerNoDefault(w, outcome, r) ==
    /\ pc[w] = "run"
    /\ GotoWith(w, "finish", [kind |-> "own", status |-> "", result |-> r])
    /\ UNCHANGED table

\* fn returns r ("success") or fails with r ("failed").
RunHandler(w, outcome, r) ==
    /\ pc[w] = "run"
    /\ GotoWith(w, "finish", [kind |-> "own", status |-> outcome, result |-> r])
    /\ UNCHANGED table

\* What the caller gets: fn's result, or fn's error and no result.
HandlerReport(r) == IF r.status = "failed" THEN ErrReport ELSE r

\* Variants: finish without its token condition, and without any.
FinishMatchesAnyClaim(w) == status[key[w]] = "running"
FinishMatchesAlways(w) == TRUE

\* finish's UPDATE matches the row only while it is running under w's claim.
FinishMatches(w) == status[key[w]] = "running" /\ token[key[w]] = claim[w]

\* finish, fenced by the status and the claim token.  That it matched no row
\* is not noticed.
Finish(w) ==
    /\ pc[w] = "finish"
    /\ \/ /\ FinishMatches(w)
          /\ status' = [status EXCEPT ![key[w]] = rep[w].status]
          /\ result' = [result EXCEPT ![key[w]] = rep[w].result]
          /\ token' = [token EXCEPT ![key[w]] = NoToken]
          /\ lease' = [lease EXCEPT ![key[w]] = 0]
       \/ /\ ~FinishMatches(w)
          /\ UNCHANGED table
    /\ Reply(w, "done", HandlerReport(rep[w]))

\* finish's UPDATE fails: the caller gets that error, or fn's.
FinishError(w) ==
    /\ pc[w] = "finish"
    /\ Reply(w, "done", ErrReport)
    /\ UNCHANGED table

Return(w) ==
    /\ pc[w] = "done"
    /\ Reply(w, "idle", NoReport)
    /\ UNCHANGED table

\* fn panics or the process dies: nothing is recorded.
Abandon(w) ==
    /\ pc[w] \notin {"idle", "done"}
    /\ Reply(w, "idle", NoReport)
    /\ UNCHANGED table

Elapse(n) == IF n = 0 THEN 0 ELSE n - 1

Tick ==
    /\ lease' = [k \in Keys |-> Elapse(lease[k])]
    /\ left' = [w \in Workers |-> Elapse(left[w])]
    /\ UNCHANGED <<status, result, token, pc, key, claim, rep>>

WorkerStep(w) ==
    \/ ReadRow(w)
    \/ ReadError(w)
    \/ InsertRow(w)
    \/ InsertError(w)
    \/ ReadConflict(w)
    \/ ReserveFailed(w)
    \/ ReserveStaleRunning(w)
    \/ \E outcome \in {"success", "failed"}, r \in Results : RunHandler(w, outcome, r)
    \/ Finish(w)
    \/ FinishError(w)
    \/ Return(w)

Next ==
    \/ \E w \in Workers : \/ \E k \in Keys : Begin(w, k)
                          \/ WorkerStep(w)
                          \/ Abandon(w)
    \/ Tick

Spec == Init /\ [][Next]_vars

-------------------------------------------------------------------------------
(* Properties *)

\* The steps at which a call owns a claim.
Executing(w) == pc[w] \in {"run", "finish"}

\* Two workers may both be inside fn for one key - the lease is five minutes
\* and fn may take longer - but never two whose leases are both alive.
LeaseExclusive ==
    \A v, w \in Workers :
        (v # w /\ Executing(v) /\ Executing(w) /\ key[v] = key[w])
            => left[v] = 0 \/ left[w] = 0

\* A caller that was told "duplicate, succeeded" was told the one result
\* that the row will carry for ever, however long ago it read it.
DuplicateAnswerIsFinal ==
    \A w \in Workers :
        (pc[w] = "done" /\ rep[w].kind = "duplicate" /\ rep[w].status = "success")
            => status[key[w]] = "success" /\ result[key[w]] = rep[w].result

\* An outcome that reaches finish inside the lease is recorded: no other
\* worker's claim or outcome can have taken its place.
FinishWithinLeaseTakesEffect ==
    [][\A w \in Workers :
          (left[w] > 0 /\ Finish(w))
              => status'[key[w]] = rep[w].status /\ result'[key[w]] = rep[w].result]_vars

\* No worker enters fn for a key whose success is on record.
NoRunAfterSuccess ==
    [][\A w \in Workers :
          (pc[w] # "run" /\ pc'[w] = "run") => status[key[w]] # "success"]_vars

\* A claim whose lease is alive is the one in the row, and no two calls carry
\* the same token: what LeaseExclusive and the fencing of finish rest on.
LiveClaimIsInRow(w) ==
    (Executing(w) /\ left[w] > 0)
        => /\ status[key[w]] = "running"
           /\ token[key[w]] = claim[w]
           /\ lease[key[w]] = left[w]

ClaimsAreFenced ==
    /\ \A w \in Workers : Executing(w) => claim[w] \in Tokens
    /\ \A w \in Workers : LiveClaimIsInRow(w)
    /\ \A v, w \in Workers :
          (v # w /\ Executing(v) /\ Executing(w)) => claim[v] # claim[w]

\* The store keeps the promise of OncePerKey: the recorded statuses move only
\* along its steps and a completed key keeps its first answer.
PhaseOf(s) ==
    IF s = "running" THEN "held" ELSE IF s = "success" THEN "done" ELSE "free"

AnswerOf(k) == IF status[k] = "success" THEN result[k] ELSE NoResult

Promise == INSTANCE OncePerKey WITH
    phase  <- [k \in Keys |-> PhaseOf(status[k])],
    answer <- [k \in Keys |-> AnswerOf(k)]

KeepsPromise == Promise!Spec
===============================================================================
