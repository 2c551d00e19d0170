---------------------- MODULE IdempotentConsumptionProofs ----------------------
(***************************************************************************)
(* For any number of workers, keys, tokens and any lease: the claims of    *)
(* the idempotency store are fenced, leases exclude one another, a         *)
(* recorded success is final, and the store implements OncePerKey.         *)
(*                                                                         *)
(* The export of a tenant, X, for any number of jobs for one event.        *)
(***************************************************************************)
EXTENDS MCIdempotentConsumption, Integers, Sequences, TLAPS

\* Every report a call can hold has the shape of QueueIdempotencyResult.
LEMMA ReportType ==
    ASSUME TypeOK
    PROVE  /\ NoReport \in Report
           /\ ErrReport \in Report
           /\ \A k \in Keys, kind \in Kinds : RowReport(k, kind) \in Report
           /\ \A s \in Statuses, r \in Results : [kind |-> "own", status |-> s, result |-> r] \in Report
           /\ \A w \in Workers : HandlerReport(rep[w]) \in Report
BY DEF TypeOK, Report, Kinds, Statuses, NoReport, ErrReport, RowReport, HandlerReport

\* The end of a call keeps the types of the calls.
LEMMA ReplyType ==
    ASSUME TypeOK, NEW w \in Workers, NEW step \in Steps, NEW r \in Report,
           Reply(w, step, r)
    PROVE  /\ pc' \in [Workers -> Steps]
           /\ key' \in [Workers -> Keys]
           /\ claim' \in [Workers -> Tokens \union {NoToken}]
           /\ left' \in [Workers -> 0..Lease]
           /\ rep' \in [Workers -> Report]
BY LeaseAssumption DEF TypeOK, Reply

\* Moving a call along, with the table as it is, keeps the types.
LEMMA CallStepType ==
    ASSUME TypeOK, NEW w \in Workers, NEW step \in Steps, NEW r \in Report,
           UNCHANGED table,
           Goto(w, step) \/ GotoWith(w, step, r) \/ Reply(w, step, r)
    PROVE  TypeOK'
<1>1. CASE Goto(w, step)
  BY <1>1 DEF TypeOK, table, Goto
<1>2. CASE GotoWith(w, step, r)
  BY <1>2 DEF TypeOK, table, GotoWith
<1>3. CASE Reply(w, step, r)
  BY <1>3, ReplyType DEF TypeOK, table
<1> QED
  BY <1>1, <1>2, <1>3

\* Claiming a row keeps the types.
LEMMA ClaimType ==
    ASSUME TypeOK, NEW w \in Workers, ClaimRow(w)
    PROVE  TypeOK'
BY ReportType, LeaseAssumption DEF TypeOK, ClaimRow, Statuses, Steps

LEMMA TypeInit == Init => TypeOK
BY LeaseAssumption DEF Init, TypeOK, Report, Kinds, Statuses, Steps, NoReport

LEMMA TypeStep == TypeOK /\ [Next]_vars => TypeOK'
<1> SUFFICES ASSUME TypeOK, [Next]_vars
             PROVE  TypeOK'
  OBVIOUS
<1> USE ReportType, CallStepType, ClaimType
<1>1. ASSUME NEW w \in Workers, NEW k \in Keys, Begin(w, k)
      PROVE  TypeOK'
  BY <1>1 DEF TypeOK, Begin, Steps, table
<1>2. ASSUME NEW w \in Workers, ReadRow(w)
      PROVE  TypeOK'
  <2> key[w] \in Keys
    BY DEF TypeOK
  <2> QED
    BY <1>2 DEF ReadRow, Steps, Kinds
<1>3. ASSUME NEW w \in Workers, ReadError(w) \/ InsertError(w)
      PROVE  TypeOK'
  BY <1>3 DEF ReadError, InsertError, Steps
<1>4. ASSUME NEW w \in Workers, InsertRow(w)
      PROVE  TypeOK'
  BY <1>4 DEF InsertRow, Steps
<1>5. ASSUME NEW w \in Workers, ReadConflict(w)
      PROVE  TypeOK'
  <2> key[w] \in Keys
    BY DEF TypeOK
  <2> QED
    BY <1>5 DEF ReadConflict, Steps, Kinds
<1>6. ASSUME NEW w \in Workers, ReserveFailed(w) \/ ReserveStaleRunning(w)
      PROVE  TypeOK'
  <2> rep[w] \in Report
    BY DEF TypeOK
  <2> QED
    BY <1>6 DEF ReserveFailed, ReserveStaleRunning, Steps
<1>7. ASSUME NEW w \in Workers, NEW s \in {"success", "failed"}, NEW r \in Results,
             RunHandler(w, s, r)
      PROVE  TypeOK'
  BY <1>7 DEF RunHandler, Steps, Statuses
<1>8. ASSUME NEW w \in Workers, Finish(w)
      PROVE  TypeOK'
  <2>1. CASE UNCHANGED table
    BY <1>8, <2>1 DEF Finish, Steps
  <2>2. CASE FinishMatches(w)
    <3> rep[w].status \in Statuses /\ rep[w].result \in Results \union {NoResult}
      BY DEF TypeOK, Report
    <3>1. /\ status' \in [Keys -> Statuses]
          /\ result' \in [Keys -> Results \union {NoResult}]
          /\ token' \in [Keys -> Tokens \union {NoToken}]
          /\ lease' \in [Keys -> 0..Lease]
      BY <1>8, <2>2, LeaseAssumption DEF TypeOK, Finish
    <3>2. HandlerReport(rep[w]) \in Report
      OBVIOUS
    <3>3. Reply(w, "done", HandlerReport(rep[w]))
      BY <1>8 DEF Finish
    <3> QED
      BY <3>1, <3>2, <3>3, ReplyType DEF TypeOK, Steps
  <2> QED
    BY <1>8, <2>1, <2>2 DEF Finish
<1>9. ASSUME NEW w \in Workers, FinishError(w) \/ Return(w) \/ Abandon(w)
      PROVE  TypeOK'
  BY <1>9 DEF FinishError, Return, Abandon, Steps
<1>10. CASE Tick
  BY <1>10, LeaseAssumption DEF TypeOK, Tick, Elapse
<1>11. CASE UNCHANGED vars
  BY <1>11 DEF TypeOK, vars
<1> QED
  BY <1>1, <1>2, <1>3, <1>4, <1>5, <1>6, <1>7, <1>8, <1>9, <1>10, <1>11
  DEF Next, WorkerStep

\* The type invariant: rows and calls keep their shape.
THEOREM TypeCorrect == Spec => []TypeOK
BY TypeInit, TypeStep, PTL DEF Spec

-------------------------------------------------------------------------------
\* A step of one call that leaves the table alone and does not enter fn keeps
\* the claims fenced.
LEMMA CallStepFenced ==
    ASSUME TypeOK, ClaimsAreFenced, NEW w \in Workers,
           UNCHANGED <<status, token, lease>>,
           \A v \in Workers \ {w} : /\ pc'[v] = pc[v] /\ key'[v] = key[v]
                                    /\ claim'[v] = claim[v] /\ left'[v] = left[v],
           \/ pc'[w] \notin {"run", "finish"}
           \/ /\ pc[w] = "run"
              /\ key'[w] = key[w] /\ claim'[w] = claim[w] /\ left'[w] = left[w]
    PROVE  ClaimsAreFenced'
BY DEF ClaimsAreFenced, LiveClaimIsInRow, Executing

\* Claiming a row on which no live claim stands keeps the claims fenced: the
\* new token is nobody's.
LEMMA ClaimFenced ==
    ASSUME TypeOK, ClaimsAreFenced, NEW w \in Workers, ClaimRow(w),
           \/ status[key[w]] # "running"
           \/ lease[key[w]] = 0
    PROVE  ClaimsAreFenced'
<1>1. PICK t \in Tokens : /\ ~InUse(t)
                          /\ status' = [status EXCEPT ![key[w]] = "running"]
                          /\ token' = [token EXCEPT ![key[w]] = t]
                          /\ lease' = [lease EXCEPT ![key[w]] = Lease]
                          /\ pc' = [pc EXCEPT ![w] = "run"]
                          /\ claim' = [claim EXCEPT ![w] = t]
                          /\ left' = [left EXCEPT ![w] = Lease]
                          /\ key' = key
  BY DEF ClaimRow
<1>2. \A v \in Workers : key[v] \in Keys
  BY DEF TypeOK
<1>3. \A v \in Workers : Executing(v)' => claim'[v] \in Tokens
  BY <1>1 DEF ClaimsAreFenced, Executing, TypeOK
<1>4. ASSUME NEW v \in Workers
      PROVE  LiveClaimIsInRow(v)'
  <2>1. CASE v = w
    BY <1>1, <1>2, <2>1 DEF LiveClaimIsInRow, TypeOK
  <2>2. CASE v # w /\ key[v] = key[w]
    <3> ~(Executing(v) /\ left[v] > 0)
      BY <2>2 DEF ClaimsAreFenced, LiveClaimIsInRow
    <3> QED
      BY <1>1, <2>2 DEF LiveClaimIsInRow, Executing, TypeOK
  <2>3. CASE v # w /\ key[v] # key[w]
    BY <1>1, <1>2, <2>3 DEF ClaimsAreFenced, LiveClaimIsInRow, Executing, TypeOK
  <2> QED
    BY <2>1, <2>2, <2>3
<1>5. ASSUME NEW u \in Workers, NEW v \in Workers, u # v, Executing(u)', Executing(v)'
      PROVE  claim'[u] # claim'[v]
  BY <1>1, <1>5 DEF ClaimsAreFenced, Executing, InUse, TypeOK
<1> QED
  BY <1>3, <1>4, <1>5 DEF ClaimsAreFenced

\* The inductive step: every step of the store keeps the claims fenced.
LEMMA FencedStep ==
    ASSUME TypeOK, ClaimsAreFenced, [Next]_vars
    PROVE  ClaimsAreFenced'
<1> USE DEF TypeOK
<1>1. ASSUME NEW w \in Workers, NEW k \in Keys, Begin(w, k)
      PROVE  ClaimsAreFenced'
  BY <1>1, CallStepFenced DEF Begin, table
<1>2. ASSUME NEW w \in Workers, UNCHANGED table, NEW step \in Steps \ {"run", "finish"},
             NEW r, Goto(w, step) \/ GotoWith(w, step, r) \/ Reply(w, step, r)
      PROVE  ClaimsAreFenced'
  <2>1. CASE Goto(w, step)
    BY <1>2, <2>1, CallStepFenced DEF table, Goto
  <2>2. CASE GotoWith(w, step, r)
    BY <1>2, <2>2, CallStepFenced DEF table, GotoWith
  <2>3. CASE Reply(w, step, r)
    BY <1>2, <2>3, CallStepFenced DEF table, Reply
  <2> QED
    BY <1>2, <2>1, <2>2, <2>3
<1>3. ASSUME NEW w \in Workers,
             ReadRow(w) \/ ReadError(w) \/ InsertError(w) \/ ReadConflict(w)
                 \/ FinishError(w) \/ Return(w) \/ Abandon(w)
      PROVE  ClaimsAreFenced'
  BY <1>2, <1>3 DEF ReadRow, ReadError, InsertError, ReadConflict, FinishError, Return,
                    Abandon, Steps
<1>4. ASSUME NEW w \in Workers, InsertRow(w)
      PROVE  ClaimsAreFenced'
  BY <1>2, <1>4, ClaimFenced DEF InsertRow, Steps
<1>5. ASSUME NEW w \in Workers, ReserveFailed(w)
      PROVE  ClaimsAreFenced'
  BY <1>2, <1>5, ClaimFenced DEF ReserveFailed, Steps
<1>6. ASSUME NEW w \in Workers, ReserveStaleRunning(w)
      PROVE  ClaimsAreFenced'
  BY <1>2, <1>6, ClaimFenced DEF ReserveStaleRunning, Expired, Steps
<1>7. ASSUME NEW w \in Workers, NEW s, NEW r, RunHandler(w, s, r)
      PROVE  ClaimsAreFenced'
  BY <1>7, CallStepFenced DEF RunHandler, GotoWith, table
<1>8. ASSUME NEW w \in Workers, Finish(w)
      PROVE  ClaimsAreFenced'
  <2>1. CASE ~FinishMatches(w)
    BY <1>2, <1>8, <2>1 DEF Finish, Steps
  <2>2. CASE FinishMatches(w)
    <3>1. \A v \in Workers : Executing(v)' => Executing(v) /\ v # w
      BY <1>8 DEF Finish, Reply, Executing
    <3>2. \A v \in Workers \ {w} : /\ key'[v] = key[v] /\ claim'[v] = claim[v]
                                    /\ left'[v] = left[v]
      BY <1>8 DEF Finish, Reply
    <3>3. \A v \in Workers \ {w} : Executing(v) => claim[v] # token[key[w]]
      BY <1>8, <2>2 DEF Finish, FinishMatches, ClaimsAreFenced, Executing
    <3>4. \A k \in Keys \ {key[w]} : /\ status'[k] = status[k] /\ token'[k] = token[k]
                                      /\ lease'[k] = lease[k]
      BY <1>8, <2>2 DEF Finish
    <3>5. \A v \in Workers : LiveClaimIsInRow(v)'
      BY <3>1, <3>2, <3>3, <3>4 DEF LiveClaimIsInRow, ClaimsAreFenced
    <3> QED
      BY <3>1, <3>2, <3>5 DEF ClaimsAreFenced
  <2> QED
    BY <2>1, <2>2
<1>9. CASE Tick
  BY <1>9, LeaseAssumption
  DEF Tick, Elapse, ClaimsAreFenced, LiveClaimIsInRow, Executing
<1>10. CASE UNCHANGED vars
  BY <1>10 DEF vars, ClaimsAreFenced, LiveClaimIsInRow, Executing
<1> QED
  BY <1>1, <1>3, <1>4, <1>5, <1>6, <1>7, <1>8, <1>9, <1>10 DEF Next, WorkerStep

\* ClaimsAreFenced is an invariant of the store.
THEOREM Fenced == Spec => []ClaimsAreFenced
<1>1. Init => ClaimsAreFenced
  BY DEF Init, ClaimsAreFenced, LiveClaimIsInRow, Executing
<1>2. TypeOK /\ ClaimsAreFenced /\ [Next]_vars => ClaimsAreFenced'
  BY FencedStep
<1> QED
  BY <1>1, <1>2, TypeCorrect, PTL DEF Spec

\* Of two workers inside fn for one key, at most one holds a live lease
\* (reserveStaleRunning takes over only what has lapsed).
THEOREM LeasesExclude == Spec => []LeaseExclusive
<1>1. TypeOK /\ ClaimsAreFenced => LeaseExclusive
  BY DEF TypeOK, ClaimsAreFenced, LiveClaimIsInRow, LeaseExclusive
<1> QED
  BY <1>1, TypeCorrect, Fenced, PTL

\* An outcome that reaches finish inside the lease is recorded.
THEOREM TimelyFinish == Spec => FinishWithinLeaseTakesEffect
<1>1. ASSUME TypeOK, ClaimsAreFenced, NEW w \in Workers, left[w] > 0, Finish(w)
      PROVE  status'[key[w]] = rep[w].status /\ result'[key[w]] = rep[w].result
  <2>1. FinishMatches(w)
    BY <1>1 DEF Finish, FinishMatches, ClaimsAreFenced, LiveClaimIsInRow, Executing
  <2> QED
    BY <1>1, <2>1 DEF TypeOK, Finish
<1>2. TypeOK /\ ClaimsAreFenced /\ [Next]_vars
        => [\A w \in Workers :
              (left[w] > 0 /\ Finish(w))
                 => status'[key[w]] = rep[w].status /\ result'[key[w]] = rep[w].result]_vars
  BY <1>1
<1> QED
  BY <1>2, TypeCorrect, Fenced, PTL DEF Spec, FinishWithinLeaseTakesEffect

-------------------------------------------------------------------------------
\* What a call remembers at each step: the row it read while it reserves, the
\* outcome of its own fn when it finishes.
RememberedReport ==
    \A w \in Workers :
        /\ pc[w] \in {"reserveFailed", "reserveStale"} => rep[w].kind = "lost"
        /\ pc[w] = "finish" => /\ rep[w].kind = "own"
                               /\ rep[w].status \in {"success", "failed"}
                               /\ rep[w].result \in Results

\* RememberedReport is inductive.
LEMMA RememberedStep ==
    ASSUME TypeOK, RememberedReport, [Next]_vars
    PROVE  RememberedReport'
<1> USE DEF TypeOK, RememberedReport
<1>1. ASSUME NEW w \in Workers, NEW k \in Keys, Begin(w, k)
      PROVE  RememberedReport'
  BY <1>1 DEF Begin
<1>2. ASSUME NEW w \in Workers, NEW r, Goto(w, "insert") \/ Goto(w, "conflict")
                  \/ Reply(w, "done", r) \/ Reply(w, "idle", r)
      PROVE  RememberedReport'
  BY <1>2 DEF Goto, Reply
<1>3. ASSUME NEW w \in Workers, ReadRow(w)
      PROVE  RememberedReport'
  <2>1. ASSUME NEW step, GotoWith(w, step, RowReport(key[w], "lost")), step # "finish"
        PROVE  RememberedReport'
    BY <2>1 DEF GotoWith, RowReport
  <2> QED
    BY <1>2, <1>3, <2>1 DEF ReadRow
<1>4. ASSUME NEW w \in Workers, ClaimRow(w)
      PROVE  RememberedReport'
  BY <1>4 DEF ClaimRow
<1>5. ASSUME NEW w \in Workers,
             ReadError(w) \/ InsertRow(w) \/ InsertError(w) \/ ReadConflict(w)
                 \/ ReserveFailed(w) \/ ReserveStaleRunning(w)
      PROVE  RememberedReport'
  BY <1>2, <1>4, <1>5
  DEF ReadError, InsertRow, InsertError, ReadConflict, ReserveFailed, ReserveStaleRunning
<1>6. ASSUME NEW w \in Workers, NEW s \in {"success", "failed"}, NEW r \in Results,
             RunHandler(w, s, r)
      PROVE  RememberedReport'
  BY <1>6 DEF RunHandler, GotoWith
<1>7. ASSUME NEW w \in Workers, Finish(w) \/ FinishError(w) \/ Return(w) \/ Abandon(w)
      PROVE  RememberedReport'
  BY <1>2, <1>7 DEF Finish, FinishError, Return, Abandon
<1>8. CASE Tick
  BY <1>8 DEF Tick
<1>9. CASE UNCHANGED vars
  BY <1>9 DEF vars
<1> QED
  BY <1>1, <1>3, <1>5, <1>6, <1>7, <1>8, <1>9 DEF Next, WorkerStep

\* Every call remembers what its step needs.
THEOREM Remembered == Spec => []RememberedReport
<1>1. Init => RememberedReport
  BY DEF Init, RememberedReport
<1> QED
  BY <1>1, RememberedStep, TypeCorrect, PTL DEF Spec

\* What a step can do to the statuses and results: nothing, claim one row whose
\* work is not completed, or record an outcome in one running row.
ClaimsOne(k) ==
    /\ status[k] # "success"
    /\ status' = [status EXCEPT ![k] = "running"]
    /\ UNCHANGED result

RecordsOne(k, s, r) ==
    /\ status[k] = "running"
    /\ status' = [status EXCEPT ![k] = s]
    /\ result' = [result EXCEPT ![k] = r]

\* Every step of the store is one of these three.
LEMMA TableStep ==
    ASSUME TypeOK, RememberedReport, [Next]_vars
    PROVE  \/ UNCHANGED <<status, result>>
           \/ \E k \in Keys : ClaimsOne(k)
           \/ \E k \in Keys, s \in {"success", "failed"}, r \in Results : RecordsOne(k, s, r)
<1> DEFINE Goal == \/ UNCHANGED <<status, result>>
                   \/ \E k \in Keys : ClaimsOne(k)
                   \/ \E k \in Keys, s \in {"success", "failed"}, r \in Results :
                           RecordsOne(k, s, r)
<1>1. ASSUME NEW w \in Workers, ClaimRow(w), status[key[w]] # "success"
      PROVE  Goal
  <2>1. key[w] \in Keys /\ ClaimsOne(key[w])
    BY <1>1 DEF ClaimRow, ClaimsOne, TypeOK
  <2> QED
    BY <2>1
<1>2. ASSUME NEW w \in Workers, Finish(w), FinishMatches(w)
      PROVE  Goal
  <2>1. /\ key[w] \in Keys
        /\ rep[w].status \in {"success", "failed"}
        /\ rep[w].result \in Results
        /\ RecordsOne(key[w], rep[w].status, rep[w].result)
    BY <1>2 DEF Finish, FinishMatches, RecordsOne, RememberedReport, TypeOK
  <2> QED
    BY <2>1
<1>3. ASSUME NEW w \in Workers, WorkerStep(w)
      PROVE  Goal
  BY <1>1, <1>2, <1>3
  DEF WorkerStep, ReadRow, ReadError, InsertRow, InsertError, ReadConflict, ReserveFailed,
      ReserveStaleRunning, RunHandler, Finish, FinishError, Return, table
<1> QED
  BY <1>3 DEF Next, Begin, Abandon, Tick, table, vars

\* The store implements OncePerKey: what is recorded for a key moves from free
\* to held and from held to free or, for good, to done.
THEOREM ImplementsPromise == Spec => KeepsPromise
<1>1. Init => Promise!Init
  BY DEF Init, Promise!Init, PhaseOf, AnswerOf
<1>2. TypeOK /\ RememberedReport /\ [Next]_vars => [Promise!Next]_(Promise!vars)
  <2> SUFFICES ASSUME TypeOK, RememberedReport, [Next]_vars
               PROVE  [Promise!Next]_(Promise!vars)
    OBVIOUS
  <2>1. CASE UNCHANGED <<status, result>>
    BY <2>1 DEF Promise!vars, AnswerOf
  <2>2. ASSUME NEW k \in Keys, ClaimsOne(k)
        PROVE  [Promise!Next]_(Promise!vars)
    <3>1. \A j \in Keys : AnswerOf(j)' = AnswerOf(j)
      BY <2>2 DEF ClaimsOne, AnswerOf, TypeOK
    <3>2. CASE status[k] = "running"
      <4>1. \A j \in Keys : PhaseOf(status[j])' = PhaseOf(status[j])
        BY <2>2, <3>2 DEF ClaimsOne, TypeOK
      <4> QED
        BY <3>1, <4>1 DEF Promise!vars
    <3>3. CASE status[k] # "running"
      <4>1. \A j \in Keys : PhaseOf(status[j])' = IF j = k THEN "held" ELSE PhaseOf(status[j])
        BY <2>2 DEF ClaimsOne, PhaseOf, TypeOK
      <4>2. PhaseOf(status[k]) = "free"
        BY <2>2, <3>3 DEF ClaimsOne, PhaseOf
      <4>3. Promise!Undertake(k)
        BY <3>1, <4>1, <4>2 DEF Promise!Undertake
      <4> QED
        BY <4>3 DEF Promise!Next
    <3> QED
      BY <3>2, <3>3
  <2>3. ASSUME NEW k \in Keys, NEW r \in Results, RecordsOne(k, "success", r)
        PROVE  Promise!Complete(k, r)
    <3>1. \A j \in Keys : PhaseOf(status[j])' = IF j = k THEN "done" ELSE PhaseOf(status[j])
      BY <2>3 DEF RecordsOne, PhaseOf, TypeOK
    <3>2. \A j \in Keys : AnswerOf(j)' = IF j = k THEN r ELSE AnswerOf(j)
      BY <2>3 DEF RecordsOne, AnswerOf, TypeOK
    <3>3. PhaseOf(status[k]) = "held"
      BY <2>3 DEF RecordsOne, PhaseOf
    <3> QED
      BY <3>1, <3>2, <3>3 DEF Promise!Complete
  <2>4. ASSUME NEW k \in Keys, NEW r \in Results, RecordsOne(k, "failed", r)
        PROVE  Promise!GiveUp(k)
    <3>1. \A j \in Keys : PhaseOf(status[j])' = IF j = k THEN "free" ELSE PhaseOf(status[j])
      BY <2>4 DEF RecordsOne, PhaseOf, TypeOK
    <3>2. \A j \in Keys : AnswerOf(j)' = AnswerOf(j)
      BY <2>4 DEF RecordsOne, AnswerOf, TypeOK
    <3>3. PhaseOf(status[k]) = "held"
      BY <2>4 DEF RecordsOne, PhaseOf
    <3> QED
      BY <3>1, <3>2, <3>3 DEF Promise!GiveUp
  <2> QED
    BY <2>1, <2>2, <2>3, <2>4, TableStep DEF Promise!Next
<1> QED
  BY <1>1, <1>2, TypeCorrect, Remembered, PTL DEF Spec, KeepsPromise, Promise!Spec

-------------------------------------------------------------------------------
(* The export of a tenant. *)

\* A job has a run; what is done rests on a run that no statement leaves.
ExportInv ==
    /\ run \in X!RunStatuses /\ jobStage \in [ExportJobs -> X!Stages]
    /\ event # "none" => run # "none"
    /\ \A j \in ExportJobs : jobStage[j] # "none" => run # "none"
    /\ DoneIsCompleted

LEMMA ExportFirst == X!Init => ExportInv
BY DEF X!Init, ExportInv, DoneIsCompleted, X!DoneIsCompleted, X!RunStatuses, X!Stages

\* A step of one job that is not its last, on a run that keeps its evidence.
LEMMA JobMoves ==
    ASSUME ExportInv, UNCHANGED event, NEW j \in ExportJobs, jobStage[j] # "none",
           NEW s \in X!Stages, jobStage' = [jobStage EXCEPT ![j] = s],
           s = "done" => run' = "completed",
           \/ UNCHANGED <<run, evidence>>
           \/ /\ UNCHANGED evidence /\ run \in {"pending", "running", "failed"}
              /\ run' \in {"running", "failed"}
           \/ /\ UNCHANGED evidence /\ run = "artifact_written" /\ run' = "completed"
           \/ /\ run = "running" /\ run' = "artifact_written" /\ evidence' # None
    PROVE  ExportInv'
BY DEF ExportInv, DoneIsCompleted, X!DoneIsCompleted, X!RunStatuses, X!Stages

LEMMA HandleKeeps ==
    ASSUME X!ExportAssumption, ExportInv, NEW j \in ExportJobs, X!Handle(j) PROVE ExportInv'
<1> USE DEF X!GoTo, X!notHandle, X!Stages, X!Transition
<1>1. CASE X!ReadRun(j)
  <2>1. run \in {"pending", "failed", "running", "artifact_written", "completed"}
    BY <1>1 DEF ExportInv, X!ReadRun, X!RunStatuses
  <2>2. X!Route[run] \in X!Stages /\ (X!Route[run] = "done" => run = "completed")
    BY <2>1 DEF X!Route
  <2> QED BY <1>1, <2>2, JobMoves DEF X!ReadRun
<1>2. CASE X!Start(j) \/ X!Resume(j) \/ X!WriteImmutable(j) \/ X!Complete(j)
  BY <1>2, JobMoves DEF X!Start, X!Resume, X!WriteImmutable, X!Complete
<1>3. CASE X!AttachEvidence(j)
  BY <1>3, JobMoves DEF X!AttachEvidence, X!Attachable, X!ExportAssumption
<1>4. CASE X!MarkFailed(j) \/ X!MarkFailedFails(j)
  BY <1>4, JobMoves DEF X!MarkFailed, X!MarkFailedFails, X!Failable
<1> QED BY <1>1, <1>2, <1>3, <1>4 DEF X!Handle

LEMMA ExportStep ==
    ASSUME X!ExportAssumption PROVE ExportInv /\ [X!Next]_X!vars => ExportInv'
<1> SUFFICES ASSUME ExportInv, [X!Next]_X!vars PROVE ExportInv'
  OBVIOUS
<1>1. ASSUME NEW j \in ExportJobs, X!Handle(j) PROVE ExportInv'
  BY <1>1, HandleKeeps
<1>2. ASSUME NEW j \in ExportJobs, X!Take(j) \/ X!Judge(j) \/ X!Crash(j) \/ X!RetryFailedJob(j)
      PROVE  ExportInv'
  BY <1>2, JobMoves
  DEF X!Take, X!Judge, X!Judged, X!Crash, X!RetryFailedJob, X!GoTo, X!notHandle, X!Stages, X!Working
<1>3. ASSUME NEW j \in ExportJobs, X!Push(j) PROVE ExportInv'
  BY <1>3 DEF ExportInv, DoneIsCompleted, X!DoneIsCompleted, X!Push, X!GoTo, X!Stages
<1>4. CASE UNCHANGED <<run, evidence, jobStage>> /\ (event' = event \/ event # "none")
  BY <1>4 DEF ExportInv, DoneIsCompleted, X!DoneIsCompleted
<1>5. ASSUME NEW c \in Requesters, X!CommitRequest(c) PROVE ExportInv'
  BY <1>5 DEF ExportInv, DoneIsCompleted, X!DoneIsCompleted, X!CommitRequest, X!RunStatuses
<1>6. X!Next \/ UNCHANGED X!vars =>
        \/ UNCHANGED <<run, evidence, jobStage>> /\ (event' = event \/ event # "none")
        \/ \E c \in Requesters : X!CommitRequest(c)
        \/ \E j \in ExportJobs : X!Push(j) \/ X!Handle(j) \/ X!Take(j) \/ X!Judge(j) \/ X!Crash(j)
                                   \/ X!RetryFailedJob(j)
  BY DEF X!Next, X!QueueStep, X!Disturbance, X!MarkSent, X!FindRun, X!IssueToken, X!PullToken,
         X!Download, X!vars
<1> QED BY <1>1, <1>2, <1>3, <1>4, <1>5, <1>6

\* However often an export is pushed, retried and given up, a job that is done has a completed
\* run with its evidence behind it, for good (TenantDataExportWorker.Handle).
THEOREM DoneCompleted == X!Spec => []DoneIsCompleted
<1>1. ExportInv => DoneIsCompleted
  BY DEF ExportInv
<1>2. ExportInv /\ [X!Next]_X!vars => ExportInv'
  BY ExportStep, ExportAssumption
<1> QED BY <1>1, <1>2, ExportFirst, PTL DEF X!Spec
================================================================================
