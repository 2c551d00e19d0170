------------------------- MODULE ScheduledTaskProofs -------------------------
(***************************************************************************)
(* For any number of nodes, runs and operators, any cron period, timeout   *)
(* and margin: scheduled runs of a FORBID task are under way together only *)
(* once the lock of one of them has lapsed.                                *)
(*                                                                         *)
(* A claim compares the row's lock with the tick it was called with, which *)
(* lies in the past; a lock that still lasts now lasted then. What makes   *)
(* this enough is that the lock in the row is the one that lasts.          *)
(***************************************************************************)
EXTENDS ScheduledTask, TLAPS

RunStages == {"new", "lookup", "start", "exec", "record", "wait", "finish", "done"}

Types ==
    /\ now \in Nat /\ exists \in BOOLEAN /\ lockedUntil \in Nat
    /\ tickAt \in [Nodes -> Nat]
    /\ rpc \in [Runs -> RunStages]
    /\ mode \in [Runs -> {"schedule", "manual"}]
    /\ lockEnd \in [Runs -> Nat]

TicksArePast == \A n \in Nodes : tickAt[n] <= now

IInv == Types /\ TicksArePast /\ LastingLockIsInRow /\ LockedRunsExclude

\* A scheduled run whose lock lasts.
Lasting(r) == Scheduled(r) /\ lockEnd[r] > now

\* Nothing has been claimed at first.
LEMMA InitInvariant == Init => IInv
<1> SUFFICES ASSUME Init PROVE IInv
  OBVIOUS
<1>1. Types /\ TicksArePast
  BY DEF Init, Types, TicksArePast, RunStages
<1>2. \A r \in Runs : ~Scheduled(r)
  BY DEF Init, Scheduled
<1> QED BY <1>1, <1>2 DEF IInv, LastingLockIsInRow, LockedRunsExclude

\* Every step but a claim: a lock that lasts afterwards lasted before, in the
\* same row.
LEMMA LocksKept ==
  ASSUME IInv, Types', TicksArePast', now' >= now, UNCHANGED setting,
         \A r \in Runs : (Policy = "FORBID" /\ Lasting(r)') =>
            /\ Lasting(r) /\ lockEnd'[r] = lockEnd[r]
            /\ exists' => exists /\ lockedUntil' = lockedUntil /\ runToken' = runToken
  PROVE  IInv'
<1>1. Policy' = Policy
  BY DEF Policy
<1>2. LastingLockIsInRow'
  BY <1>1 DEF IInv, LastingLockIsInRow, Lasting
<1>3. LockedRunsExclude'
  <2> SUFFICES ASSUME Policy = "FORBID", NEW q \in Runs, NEW r \in Runs, q # r,
                      Lasting(q)', Lasting(r)'
               PROVE  FALSE
    BY <1>1 DEF LockedRunsExclude, Lasting, Types
  <2>1. Lasting(q) /\ Lasting(r)
    OBVIOUS
  <2> QED BY <2>1 DEF IInv, LockedRunsExclude, Lasting, Types
<1> QED BY <1>2, <1>3 DEF IInv

\* The runner forgets its tick.
LEMMA RunnerDoneFacts ==
  ASSUME IInv, NEW n \in Nodes, RunnerDone(n), UNCHANGED now
  PROVE  tickAt' \in [Nodes -> Nat] /\ TicksArePast'
BY DEF IInv, Types, TicksArePast, RunnerDone

\* Ending runs leaves the others as they were.
LEMMA EndFacts ==
  ASSUME IInv, NEW R \in SUBSET Runs, End(R)
  PROVE  /\ rpc' \in [Runs -> RunStages] /\ lockEnd' \in [Runs -> Nat] /\ mode' = mode
         /\ \A r \in Runs : r \in R => ~Scheduled(r)'
         /\ \A r \in Runs : r \notin R => rpc'[r] = rpc[r] /\ lockEnd'[r] = lockEnd[r]
BY DEF IInv, Types, End, RunStages, Scheduled

\* A run goes from one stage to the next.
LEMMA StageInvariant ==
  ASSUME IInv, NEW r \in Runs, NEW s \in RunStages, rpc' = [rpc EXCEPT ![r] = s],
         rpc[r] \notin {"new", "done"},
         UNCHANGED <<now, row, runner, mode, lockEnd>>
  PROVE  IInv'
<1>1. Types' /\ TicksArePast'
  BY DEF IInv, Types, TicksArePast, row, runner
<1>2. \A q \in Runs : Lasting(q)' => Lasting(q) /\ lockEnd'[q] = lockEnd[q]
  BY DEF IInv, Types, Lasting, Scheduled
<1> QED BY <1>1, <1>2, LocksKept DEF IInv, Types, row

\* Runs return or die, the row as it was.
LEMMA EndInvariant ==
  ASSUME IInv, NEW R \in SUBSET Runs, End(R), UNCHANGED <<now, row>>,
         tickAt' \in [Nodes -> Nat], TicksArePast'
  PROVE  IInv'
<1>1. Types'
  BY EndFacts DEF IInv, Types, row
<1>2. \A q \in Runs : Lasting(q)' => Lasting(q) /\ lockEnd'[q] = lockEnd[q]
  BY EndFacts DEF IInv, Types, Lasting, Scheduled
<1> QED BY <1>1, <1>2, LocksKept DEF IInv, Types, row

\* A run gives back a lock only if it is its own, and ends.
LEMMA ReleaseInvariant ==
  ASSUME IInv, NEW r \in Runs, End({r}), rpc[r] \notin {"new", "done"},
         ReleaseLock(r) \/ UNCHANGED <<lockedUntil, runToken>>,
         UNCHANGED <<now, setting, exists, runner>>
  PROVE  IInv'
<1>1. lockedUntil' \in Nat
  BY DEF ReleaseLock, IInv, Types
<1>2. Types' /\ TicksArePast'
  BY <1>1, EndFacts DEF IInv, Types, TicksArePast, runner
<1>3. ASSUME NEW q \in Runs, Policy = "FORBID", Lasting(q)'
      PROVE  /\ Lasting(q) /\ lockEnd'[q] = lockEnd[q]
             /\ exists' => exists /\ lockedUntil' = lockedUntil /\ runToken' = runToken
  <2>1. q # r /\ Lasting(q) /\ lockEnd'[q] = lockEnd[q]
    BY <1>3, EndFacts DEF IInv, Types, Lasting, Scheduled
  <2>2. exists => runToken = q
    BY <1>3, <2>1 DEF IInv, LastingLockIsInRow, Lasting
  <2>3. exists => UNCHANGED <<lockedUntil, runToken>>
    BY <2>1, <2>2 DEF ReleaseLock, FinishMatches
  <2> QED BY <2>1, <2>3
<1> QED BY <1>2, <1>3, LocksKept DEF IInv, Types

\* The runner and the operators leave runs and locks alone.
LEMMA RowInvariant ==
  ASSUME IInv, UNCHANGED <<setting, lockedUntil, runToken, runVars>>,
         now' \in Nat, now' >= now, exists' = exists \/ exists' = FALSE,
         tickAt' \in [Nodes -> Nat], TicksArePast'
  PROVE  IInv'
<1>1. Types'
  BY DEF IInv, Types, runVars
<1>2. \A q \in Runs : Lasting(q)' => Lasting(q) /\ lockEnd'[q] = lockEnd[q]
  BY DEF IInv, Types, Lasting, Scheduled, runVars
<1>3. exists' => exists
  BY DEF IInv, Types
<1> QED BY <1>1, <1>2, <1>3, LocksKept

\* A claim finds no lock that lasts.
LEMMA ClaimInvariant ==
  ASSUME IInv, NEW n \in Nodes, NEW r \in Runs, Claim(n, r) PROVE IInv'
<1>1. /\ exists /\ (Policy = "FORBID" => lockedUntil <= tickAt[n])
      /\ tickAt[n] \in Nat /\ tickAt[n] <= now
  BY DEF Claim, CanClaim, StillDue, LockFree, IInv, Types, TicksArePast
<1>2. /\ rpc' = [rpc EXCEPT ![r] = "start"]
      /\ lockEnd' = [lockEnd EXCEPT ![r] = tickAt[n] + LockTime]
      /\ lockedUntil' = tickAt[n] + LockTime /\ runToken' = r
      /\ UNCHANGED <<now, setting, exists, mode>>
  BY DEF Claim
<1>3. LockTime \in Nat
  BY TimeAssumption DEF LockTime
<1>4. Types' /\ TicksArePast'
  BY <1>1, <1>2, <1>3, RunnerDoneFacts DEF Claim, IInv, Types, RunStages
<1>5. ASSUME Policy = "FORBID", NEW q \in Runs, q # r PROVE ~Lasting(q)'
  <2>1. ~Lasting(q)
    BY <1>1, <1>5 DEF IInv, Types, LastingLockIsInRow, Lasting
  <2> QED BY <1>2, <1>5, <2>1 DEF IInv, Types, Lasting, Scheduled
<1>6. Policy' = Policy
  BY <1>2 DEF Policy
<1>7. LastingLockIsInRow'
  BY <1>2, <1>3, <1>5, <1>6 DEF LastingLockIsInRow, Lasting, IInv, Types
<1>8. LockedRunsExclude'
  <2> SUFFICES ASSUME Policy = "FORBID", NEW p \in Runs, NEW q \in Runs, p # q,
                      Lasting(p)', Lasting(q)'
               PROVE  FALSE
    BY <1>4, <1>6 DEF LockedRunsExclude, Lasting, Types
  <2> QED BY <1>5
<1> QED BY <1>4, <1>7, <1>8 DEF IInv

\* Every step preserves the invariant.
LEMMA StepInvariant == IInv /\ [Next]_vars => IInv'
<1> SUFFICES ASSUME IInv, [Next]_vars PROVE IInv'
  OBVIOUS
<1>1. ASSUME NEW n \in Nodes, ReadDue(n) PROVE IInv'
  <2>1. tickAt' \in [Nodes -> Nat] /\ TicksArePast'
    BY <1>1 DEF ReadDue, IInv, Types, TicksArePast
  <2> QED BY <1>1, <2>1, RowInvariant DEF ReadDue, row, IInv, Types
<1>2. ASSUME NEW n \in Nodes, SkipTask(n) \/ ClaimLost(n) PROVE IInv'
  <2>1. /\ RunnerDone(n)
        /\ UNCHANGED <<now, setting, exists, lockedUntil, runToken, runVars>>
    BY <1>2 DEF SkipTask, ClaimLost, row
  <2>2. tickAt' \in [Nodes -> Nat] /\ TicksArePast'
    BY <2>1, RunnerDoneFacts
  <2> QED BY <2>1, <2>2, RowInvariant DEF IInv, Types
<1>3. ASSUME NEW n \in Nodes, NEW r \in Runs, Claim(n, r) PROVE IInv'
  BY <1>3, ClaimInvariant
<1>4. ASSUME NEW n \in Nodes, NEW r \in Runs, NEW k, ManualRun(n, r, k) PROVE IInv'
  <2>1. Types' /\ TicksArePast'
    BY <1>4 DEF ManualRun, IInv, Types, TicksArePast, RunStages, row, runner
  <2>2. \A q \in Runs : Lasting(q)' => Lasting(q) /\ lockEnd'[q] = lockEnd[q]
    BY <1>4 DEF ManualRun, IInv, Types, Lasting, Scheduled
  <2> QED BY <1>4, <2>1, <2>2, LocksKept DEF ManualRun, IInv, Types, row
<1>5. ASSUME NEW r \in Runs, ManualLookup(r) \/ ManualLookupError(r) \/ StartAttempt(r) \/ Execute(r)
      PROVE  IInv'
  BY <1>5, StageInvariant DEF ManualLookup, ManualLookupError, StartAttempt, Execute, RunStages
<1>6. ASSUME NEW r \in Runs, NEW s, RecordAttempt(r, s) PROVE IInv'
  BY <1>6, StageInvariant DEF RecordAttempt, RunStages
<1>7. ASSUME NEW r \in Runs, Wake(r) PROVE IInv'
  BY <1>7, StageInvariant DEF Wake, RunStages
<1>8. ASSUME NEW r \in Runs, StartConflict(r) \/ RecordError(r) \/ FinishError(r) PROVE IInv'
  BY <1>8, EndInvariant DEF StartConflict, RecordError, FinishError, runner, IInv, Types, TicksArePast
<1>9. ASSUME NEW r \in Runs, StartError(r) \/ FinishTask(r) PROVE IInv'
  BY <1>9, ReleaseInvariant DEF StartError, FinishTask
<1>10. ASSUME NEW n \in Nodes, CrashNode(n) PROVE IInv'
  BY <1>10, RunnerDoneFacts, EndInvariant DEF CrashNode
<1>11. ASSUME NEW e \in Editors, NEW on, NEW v,
              \/ OpenForm(e, on, v) \/ BeginSetStatus(e, on) \/ BeginUpdate(e)
              \/ CommitUpdate(e) \/ CloseForm(e) \/ CommitSetStatus(e) \/ Delete(e)
       PROVE  IInv'
  <2>1. /\ UNCHANGED <<now, tickAt, setting, lockedUntil, runToken, runVars>>
        /\ exists' = exists \/ exists' = FALSE
    BY <1>11 DEF OpenForm, BeginSetStatus, BeginUpdate, CommitUpdate, CloseForm,
       CommitSetStatus, Delete, row, runner
  <2>2. /\ now' \in Nat /\ now' >= now
        /\ tickAt' \in [Nodes -> Nat] /\ TicksArePast'
    BY <2>1 DEF IInv, Types, TicksArePast
  <2> QED BY <2>1, <2>2, RowInvariant
<1>12. CASE Tick
  BY <1>12, RowInvariant DEF Tick, row, runner, IInv, Types, TicksArePast
<1>13. CASE UNCHANGED vars
  BY <1>13, RowInvariant DEF vars, row, runner, IInv, Types, TicksArePast
<1> QED
  BY <1>1, <1>2, <1>3, <1>4, <1>5, <1>6, <1>7, <1>8, <1>9, <1>10, <1>11, <1>12, <1>13 DEF Next

\* The locks in runs and row agree, and no tick lies ahead, at all times.
LEMMA Invariance == Spec => []IInv
<1> QED BY InitInvariant, StepInvariant, PTL DEF Spec

\* A lock that lasts is the one in the row, whoever else claims, finishes,
\* edits, deletes or runs the task by hand.
THEOREM LastingLocks == Spec => []LastingLockIsInRow
<1>1. IInv => LastingLockIsInRow
  BY DEF IInv
<1> QED BY <1>1, Invariance, PTL

\* Two scheduled runs of a FORBID task are under way together only once the
\* lock of one of them has lapsed.
THEOREM RunsApart == Spec => []LockedRunsExclude
<1>1. IInv => LockedRunsExclude
  BY DEF IInv
<1> QED BY <1>1, Invariance, PTL

\* Both together: the lock of a FORBID task guards its runs.
THEOREM LocksGuard == Spec => []LockGuardsRuns
<1>1. LastingLockIsInRow /\ LockedRunsExclude => LockGuardsRuns
  BY DEF LockGuardsRuns
<1> QED BY <1>1, LastingLocks, RunsApart, PTL

-------------------------------------------------------------------------------
(* The occurrences of the schedule. *)

\* What a tick sets next_run_at to lies ahead of it.
LEMMA NextRunAhead ==
  ASSUME NEW t \in Nat
  PROVE  NextRun(t) \in Nat /\ NextRun(t) > t
<1>1. t \div Period \in Nat /\ (t \div Period + 1) * Period > t
  BY TimeAssumption, SMTT(30)
<1>2. (t \div Period + 1) * Period \in Nat
  BY <1>1, TimeAssumption, SMTT(30)
<1> QED BY <1>1, <1>2 DEF NextRun

OccurrenceTypes ==
  /\ nextRun \in Nat /\ fires \in [Times -> Nat] /\ formNext \in [Editors -> Nat]

\* An occurrence that fired lies behind next_run_at, unless an operator put it back.
FiredIsBehind ==
  \A o \in Times : o \notin rearmed => fires[o] <= 1 /\ (fires[o] > 0 => o < nextRun)

OccurrenceInv == OccurrenceTypes /\ FiredIsBehind

\* The runner fires the occurrence in the row and writes a later one.
LEMMA OccurrenceFired ==
  ASSUME IInv, OccurrenceInv, NEW n \in Nodes, StillDue(n), nextRun' = NextRun(tickAt[n]),
         Fire, UNCHANGED <<rearmed, formNext>>
  PROVE  OccurrenceInv'
<1>1. /\ tickAt[n] \in Nat /\ nextRun <= tickAt[n] /\ nextRun \in Nat
      /\ NextRun(tickAt[n]) \in Nat /\ NextRun(tickAt[n]) > tickAt[n]
  BY NextRunAhead DEF IInv, Types, StillDue, OccurrenceInv, OccurrenceTypes
<1>2. OccurrenceTypes'
  <2>1. fires' \in [Times -> Nat]
    <3>1. fires \in [Times -> Nat]
      BY DEF OccurrenceInv, OccurrenceTypes
    <3>2. fires' = [o \in Times |-> IF o = nextRun THEN fires[o] + 1 ELSE fires[o]]
      BY <3>1 DEF Fire
    <3> QED BY <3>1, <3>2
  <2> QED BY <1>1, <2>1 DEF OccurrenceInv, OccurrenceTypes
<1>3. ASSUME NEW o \in Times, o \notin rearmed
      PROVE  fires'[o] <= 1 /\ (fires'[o] > 0 => o < nextRun')
  <2>1. fires[o] \in Nat /\ fires[o] <= 1 /\ (fires[o] > 0 => o < nextRun) /\ o \in Nat
    BY <1>3 DEF OccurrenceInv, OccurrenceTypes, FiredIsBehind, Times
  <2>2. CASE o = nextRun
    <3>1. fires'[o] = fires[o] + 1
      BY <2>2 DEF Fire, OccurrenceInv, OccurrenceTypes
    <3> QED BY <1>1, <2>1, <2>2, <3>1
  <2>3. CASE o # nextRun
    <3>1. fires'[o] = fires[o]
      BY <2>3 DEF Fire, OccurrenceInv, OccurrenceTypes
    <3> QED BY <1>1, <2>1, <2>3, <3>1
  <2> QED BY <2>2, <2>3
<1> QED BY <1>2, <1>3 DEF OccurrenceInv, FiredIsBehind

\* An operator writes next_run_at: what it passes over in time is on record.
LEMMA OccurrenceCommitted ==
  ASSUME OccurrenceInv, NEW e \in Editors, nextRun' = formNext[e], Rearm(e), UNCHANGED fires,
         formNext' = [formNext EXCEPT ![e] = 0]
  PROVE  OccurrenceInv'
<1>1. OccurrenceTypes'
  BY DEF OccurrenceInv, OccurrenceTypes
<1>2. FiredIsBehind'
  BY DEF OccurrenceInv, OccurrenceTypes, FiredIsBehind, Rearm, Times
<1> QED BY <1>1, <1>2 DEF OccurrenceInv

LEMMA OccurrenceKept ==
  ASSUME OccurrenceInv, UNCHANGED <<nextRun, fires, rearmed>>, formNext' \in [Editors -> Nat]
  PROVE  OccurrenceInv'
BY DEF OccurrenceInv, OccurrenceTypes, FiredIsBehind

LEMMA OccurrenceStep == IInv /\ OccurrenceInv /\ [Next]_vars => OccurrenceInv'
<1> SUFFICES ASSUME IInv, OccurrenceInv, [Next]_vars PROVE OccurrenceInv'
  OBVIOUS
<1>0. formNext \in [Editors -> Nat]
  BY DEF OccurrenceInv, OccurrenceTypes
<1>1. ASSUME NEW n \in Nodes, ReadDue(n) \/ ClaimLost(n) \/ CrashNode(n) PROVE OccurrenceInv'
  BY <1>0, <1>1, OccurrenceKept DEF ReadDue, ClaimLost, CrashNode, row, edit, history
<1>2. ASSUME NEW n \in Nodes, SkipTask(n) PROVE OccurrenceInv'
  BY <1>0, <1>2, OccurrenceKept, OccurrenceFired DEF SkipTask, edit
<1>3. ASSUME NEW n \in Nodes, NEW r \in Runs, Claim(n, r) PROVE OccurrenceInv'
  BY <1>3, OccurrenceFired DEF Claim, CanClaim, edit
<1>4. ASSUME NEW n \in Nodes, NEW r \in Runs, NEW k, ManualRun(n, r, k) PROVE OccurrenceInv'
  BY <1>0, <1>4, OccurrenceKept DEF ManualRun, row, edit, history
<1>5. ASSUME NEW r \in Runs,
             \/ ManualLookup(r) \/ ManualLookupError(r)
             \/ StartAttempt(r) \/ StartConflict(r) \/ StartError(r) \/ Execute(r)
             \/ RecordError(r) \/ Wake(r) \/ FinishTask(r) \/ FinishError(r)
             \/ \E s \in {"success", "failed"} : RecordAttempt(r, s)
      PROVE  OccurrenceInv'
  <2>1. UNCHANGED <<nextRun, fires, rearmed, formNext>>
    BY <1>5 DEF ManualLookup, ManualLookupError, StartAttempt, StartConflict, StartError, Execute,
                RecordError, Wake, FinishTask, FinishError, RecordAttempt, row, edit, history
  <2> QED BY <1>0, <2>1, OccurrenceKept
<1>6. ASSUME NEW e \in Editors, NEW on, NEW v,
             OpenForm(e, on, v) \/ BeginSetStatus(e, on) \/ BeginUpdate(e) \/ CloseForm(e) \/ Delete(e)
      PROVE  OccurrenceInv'
  <2>1. UNCHANGED <<nextRun, fires, rearmed>>
    BY <1>6 DEF OpenForm, BeginSetStatus, BeginUpdate, CloseForm, Delete, row, history
  <2>2. NextRun(now) \in Nat
    BY NextRunAhead DEF IInv, Types
  <2>3. formNext' \in [Editors -> Nat]
    BY <1>0, <1>6, <2>2 DEF OpenForm, BeginSetStatus, BeginUpdate, CloseForm, Delete, EditDone, edit
  <2> QED BY <2>1, <2>3, OccurrenceKept
<1>7. ASSUME NEW e \in Editors, CommitUpdate(e) \/ CommitSetStatus(e) PROVE OccurrenceInv'
  BY <1>7, OccurrenceCommitted DEF CommitUpdate, CommitSetStatus, EditDone
<1>8. ASSUME Tick \/ UNCHANGED vars PROVE OccurrenceInv'
  BY <1>0, <1>8, OccurrenceKept DEF Tick, vars, row, edit, history
<1> QED BY <1>1, <1>2, <1>3, <1>4, <1>5, <1>6, <1>7, <1>8 DEF Next

LEMMA OccurrenceFirst == Init => OccurrenceInv
<1> SUFFICES ASSUME Init PROVE OccurrenceInv
  OBVIOUS
<1>1. NextRun(0) \in Nat
  BY NextRunAhead
<1> QED BY <1>1 DEF Init, OccurrenceInv, OccurrenceTypes, FiredIsBehind

\* An occurrence that no operator put back fires at most once, whichever nodes read it due
\* and however late they claim it.
THEOREM OccurrencesOnce == Spec => []OccurrenceOnce
<1>1. OccurrenceInv => OccurrenceOnce
  BY DEF OccurrenceInv, OccurrenceTypes, FiredIsBehind, OccurrenceOnce
<1>2. IInv /\ OccurrenceInv /\ [Next]_vars => (IInv /\ OccurrenceInv)'
  BY StepInvariant, OccurrenceStep
<1> QED BY <1>1, <1>2, InitInvariant, OccurrenceFirst, PTL DEF Spec

-------------------------------------------------------------------------------
(* What becomes of the runs. *)

Attempts == Nat \ {0}

RunTypes ==
  /\ node \in [Runs -> Nodes] /\ ikey \in [Runs -> Keys \union {NoKey}]
  /\ att \in [Runs -> Attempts] /\ until \in [Runs -> Nat]
  /\ log \in [Runs -> {"none", "running", "success", "failed"}]
  /\ active \in [Nodes -> Runs \union {NoRun}]
  /\ keyed \subseteq Runs /\ cancelled \subseteq Runs

\* A run that has registered itself under REPLACE.
Registered(r) == rpc[r] \in {"exec", "record", "wait", "finish"} \/ (rpc[r] = "start" /\ att[r] > 1)

\* A run that has inserted its first log row.
Logged(r) == log[r] # "none" \/ att[r] > 1 \/ rpc[r] \in {"exec", "record", "wait"}

\* Where nothing but handlers and delays takes time, and a task is attempted once.
Punctual == Policy = "FORBID" /\ Prompt /\ MaxAttempts = 1

NewIsBlank(r) ==
  /\ rpc[r] \in {"new", "lookup"} => att[r] = 1
  /\ rpc[r] = "new" => log[r] = "none" /\ r \notin keyed
  /\ rpc[r] = "lookup" => mode[r] = "manual"
LoggedHasKey(r) == ikey[r] # NoKey /\ Logged(r) => r \in keyed
ToldOrActive(r) == Policy = "REPLACE" /\ Registered(r) => r \in cancelled \/ active[node[r]] = r
HandlerInLock(r) == Punctual /\ mode[r] = "schedule" =>
  /\ rpc[r] # "wait"
  /\ rpc[r] = "start" => att[r] = 1 /\ lockEnd[r] = now + Timeout + Margin
  /\ rpc[r] = "exec" => until[r] >= now /\ lockEnd[r] = until[r] + Margin
RunOK(r) == NewIsBlank(r) /\ LoggedHasKey(r) /\ ToldOrActive(r) /\ HandlerInLock(r)

\* A key is on the log rows of one run.
KeysApart == \A q, r \in keyed : q # r => ikey[q] # ikey[r]

\* A node that has read the row goes on at once.
TicksAreNow ==
  /\ npc \in [Nodes -> {"idle", "due"}]
  /\ Prompt => \A n \in Nodes : npc[n] = "due" => tickAt[n] = now

RunsInv == RunTypes /\ KeysApart /\ TicksAreNow /\ \A r \in Runs : RunOK(r)

\* What a step of another run leaves of q.
Untouched(q) ==
  /\ rpc'[q] = rpc[q] /\ mode'[q] = mode[q] /\ node'[q] = node[q] /\ ikey'[q] = ikey[q]
  /\ att'[q] = att[q] /\ until'[q] = until[q] /\ lockEnd'[q] = lockEnd[q] /\ log'[q] = log[q]
  /\ (q \in keyed') = (q \in keyed)
  /\ q \in cancelled => q \in cancelled'
  /\ active[node[q]] = q /\ Policy = "REPLACE" => active'[node[q]] = q \/ q \in cancelled'

LEMMA UntouchedStaysOK ==
  ASSUME RunsInv, NEW q \in Runs, Untouched(q), UNCHANGED <<now, setting>>
  PROVE  RunOK(q)'
<1>1. RunOK(q) /\ Policy' = Policy /\ MaxAttempts' = MaxAttempts /\ Prompt' = Prompt
  BY DEF RunsInv, Policy, MaxAttempts, Prompt
<1>2. NewIsBlank(q)' /\ LoggedHasKey(q)'
  BY <1>1 DEF Untouched, RunOK, NewIsBlank, LoggedHasKey, Logged
<1>3. ToldOrActive(q)'
  BY <1>1 DEF Untouched, RunOK, ToldOrActive, Registered
<1>4. HandlerInLock(q)'
  BY <1>1 DEF Untouched, RunOK, HandlerInLock, Punctual
<1> QED BY <1>2, <1>3, <1>4 DEF RunOK

\* A step of r that leaves the other runs, the clock and the form alone.
LEMMA RunStepKeeps ==
  ASSUME RunsInv, NEW r \in Runs, UNCHANGED <<now, setting>>, RunTypes', TicksAreNow',
         keyed' = keyed \/ keyed' = keyed \union {r},
         r \in keyed' /\ r \notin keyed => \A q \in keyed : q # r => ikey[q] # ikey'[r],
         r \in keyed => ikey'[r] = ikey[r],
         RunOK(r)', \A q \in Runs : q # r => Untouched(q)
  PROVE  RunsInv'
<1>1. \A q \in Runs : RunOK(q)'
  BY UntouchedStaysOK
<1>2. KeysApart'
  BY DEF RunsInv, RunTypes, KeysApart, Untouched
<1> QED BY <1>1, <1>2 DEF RunsInv

\* Runs end: what they registered is taken back.
LEMMA EndsApart ==
  ASSUME IInv, RunsInv, NEW R \in SUBSET Runs, End(R), UNCHANGED <<now, setting>>,
         NEW q \in Runs, q \notin R, log'[q] = log[q], (q \in keyed') = (q \in keyed)
  PROVE  Untouched(q)
BY DEF IInv, Types, RunsInv, RunTypes, End, Untouched

LEMMA EndTypes ==
  ASSUME IInv, RunsInv, NEW R \in SUBSET Runs, End(R),
         log' \in [Runs -> {"none", "running", "success", "failed"}], keyed' \subseteq Runs
  PROVE  RunTypes'
<1>1. att' \in [Runs -> Attempts]
  BY DEF RunsInv, RunTypes, End, Attempts
<1>2. until' \in [Runs -> Nat]
  BY DEF RunsInv, RunTypes, End
<1>3. active' \in [Nodes -> Runs \union {NoRun}]
  BY DEF RunsInv, RunTypes, End
<1> QED BY <1>1, <1>2, <1>3 DEF RunsInv, RunTypes, End

\* What has ended is in no stage the invariant speaks of, as long as its key stays.
LEMMA EndedIsOK ==
  ASSUME IInv, RunsInv, NEW R \in SUBSET Runs, End(R), UNCHANGED <<now, setting>>,
         NEW r \in R, log'[r] # "none" /\ ikey[r] # NoKey => r \in keyed'
  PROVE  RunOK(r)'
<1>1. rpc'[r] = "done" /\ att'[r] = 1 /\ ikey'[r] = ikey[r]
  BY DEF End
<1>2. NewIsBlank(r)' /\ LoggedHasKey(r)'
  BY <1>1 DEF NewIsBlank, LoggedHasKey, Logged
<1>3. ToldOrActive(r)' /\ HandlerInLock(r)'
  BY <1>1 DEF ToldOrActive, Registered, HandlerInLock
<1> QED BY <1>2, <1>3 DEF RunOK

\* A run begins, claimed or by hand: nothing is logged or registered yet.
LEMMA BeginOK ==
  ASSUME IInv, RunsInv, NEW n \in Nodes, NEW r \in Runs,
         Claim(n, r) \/ \E k \in Keys \union {NoKey} : ManualRun(n, r, k)
  PROVE  RunsInv'
<1>1. ASSUME Claim(n, r) PROVE RunsInv'
  <2>1. /\ rpc[r] = "new" /\ npc[n] = "due" /\ tickAt[n] \in Nat
        /\ rpc' = [rpc EXCEPT ![r] = "start"] /\ node' = [node EXCEPT ![r] = n]
        /\ lockEnd' = [lockEnd EXCEPT ![r] = tickAt[n] + LockTime]
        /\ RunnerDone(n)
        /\ UNCHANGED <<now, setting, mode, ikey, att, until, log, keyed, active, cancelled>>
    BY <1>1 DEF Claim, IInv, Types
  <2>2. RunTypes'
    BY <2>1 DEF RunsInv, RunTypes
  <2>3. TicksAreNow'
    BY <2>1 DEF RunsInv, TicksAreNow, RunnerDone, Prompt, IInv, Types
  <2>4. \A q \in Runs : q # r => Untouched(q)
    BY <2>1 DEF Untouched, IInv, Types, RunsInv, RunTypes
  <2>5. att[r] = 1 /\ log[r] = "none" /\ r \notin keyed /\ rpc'[r] = "start"
    BY <2>1 DEF RunsInv, RunOK, NewIsBlank, IInv, Types
  <2>6. NewIsBlank(r)' /\ LoggedHasKey(r)' /\ ToldOrActive(r)'
    BY <2>1, <2>5 DEF NewIsBlank, LoggedHasKey, ToldOrActive, Logged, Registered
  <2>7. HandlerInLock(r)'
    <3>1. lockEnd'[r] = tickAt[n] + LockTime
      BY <2>1 DEF IInv, Types
    <3>2. Punctual => tickAt[n] = now /\ LockTime = Timeout + Margin
      BY <2>1 DEF Punctual, RunsInv, TicksAreNow, LockTime
    <3>3. Punctual' = Punctual
      BY <2>1 DEF Punctual, Policy, Prompt, MaxAttempts
    <3>4. now \in Nat /\ Timeout \in Nat /\ Margin \in Nat
      BY TimeAssumption DEF IInv, Types
    <3> QED BY <2>1, <2>5, <3>1, <3>2, <3>3, <3>4 DEF HandlerInLock
  <2> QED BY <2>1, <2>2, <2>3, <2>4, <2>6, <2>7, RunStepKeeps DEF RunOK
<1>2. ASSUME NEW k \in Keys \union {NoKey}, ManualRun(n, r, k) PROVE RunsInv'
  <2>1. /\ rpc[r] = "new"
        /\ rpc' = [rpc EXCEPT ![r] = IF k = NoKey THEN "start" ELSE "lookup"]
        /\ node' = [node EXCEPT ![r] = n] /\ mode' = [mode EXCEPT ![r] = "manual"]
        /\ ikey' = [ikey EXCEPT ![r] = k]
        /\ UNCHANGED <<now, setting, runner, att, until, lockEnd, log, keyed, active, cancelled>>
    BY <1>2 DEF ManualRun, row
  <2>2. RunTypes'
    BY <2>1 DEF RunsInv, RunTypes
  <2>3. TicksAreNow'
    BY <2>1 DEF RunsInv, TicksAreNow, runner, Prompt
  <2>4. \A q \in Runs : q # r => Untouched(q)
    BY <2>1 DEF Untouched, IInv, Types, RunsInv, RunTypes
  <2>5. /\ att[r] = 1 /\ log[r] = "none" /\ r \notin keyed
        /\ rpc'[r] \in {"start", "lookup"} /\ mode'[r] = "manual"
    BY <2>1 DEF RunsInv, RunOK, NewIsBlank, IInv, Types
  <2>6. RunOK(r)'
    BY <2>1, <2>5 DEF RunOK, NewIsBlank, LoggedHasKey, ToldOrActive, Logged, Registered, HandlerInLock
  <2> QED BY <2>1, <2>2, <2>3, <2>4, <2>5, <2>6, RunStepKeeps
<1> QED BY <1>1, <1>2

\* What the steps between share: the run's node, mode, key and lock are what they were.
LEMMA StageOK ==
  ASSUME IInv, RunsInv, NEW r \in Runs, NEW s \in RunStages, rpc' = [rpc EXCEPT ![r] = s],
         rpc[r] # "new", s \notin {"new", "lookup"},
         UNCHANGED <<now, setting, runner, node, mode, ikey, lockEnd, keyed, active, cancelled>>,
         NEW l \in {"none", "running", "success", "failed"}, log' = [log EXCEPT ![r] = l],
         NEW a \in Attempts, att' = [att EXCEPT ![r] = a],
         NEW u \in Nat, until' = [until EXCEPT ![r] = u],
         Logged(r)' => Logged(r), Registered(r)' => Registered(r),
         HandlerInLock(r)'
  PROVE  RunsInv'
<1>1. RunTypes'
  BY DEF RunsInv, RunTypes
<1>2. TicksAreNow'
  BY DEF RunsInv, TicksAreNow, runner, Prompt
<1>3. \A q \in Runs : q # r => Untouched(q)
  BY DEF Untouched, IInv, Types, RunsInv, RunTypes
<1>4. rpc'[r] = s /\ Policy' = Policy /\ RunOK(r)
  BY DEF IInv, Types, RunsInv, Policy
<1>5. NewIsBlank(r)' /\ LoggedHasKey(r)' /\ ToldOrActive(r)'
  BY <1>4 DEF RunOK, NewIsBlank, LoggedHasKey, ToldOrActive
<1> QED BY <1>1, <1>2, <1>3, <1>5, RunStepKeeps DEF RunOK

LEMMA BetweenOK ==
  ASSUME IInv, RunsInv, NEW r \in Runs,
         \/ ManualLookup(r) \/ ManualLookupError(r) \/ Execute(r) \/ Wake(r)
         \/ \E s \in {"success", "failed"} : RecordAttempt(r, s)
  PROVE  RunsInv'
<1>1. /\ UNCHANGED <<now, setting, runner, node, mode, ikey, lockEnd, keyed, active, cancelled>>
      /\ Punctual' = Punctual
  BY DEF ManualLookup, ManualLookupError, Execute, Wake, RecordAttempt, row, Punctual, Policy,
         Prompt, MaxAttempts
<1>2. /\ rpc \in [Runs -> RunStages] /\ att \in [Runs -> Attempts] /\ until \in [Runs -> Nat]
      /\ log \in [Runs -> {"none", "running", "success", "failed"}] /\ RunOK(r) /\ now \in Nat
  BY DEF IInv, Types, RunsInv, RunTypes
<1>3. ASSUME ManualLookup(r) \/ ManualLookupError(r) PROVE RunsInv'
  <2>1. \E s \in {"start", "done"} : rpc' = [rpc EXCEPT ![r] = s]
    BY <1>3 DEF ManualLookup, ManualLookupError
  <2>2. PICK s \in {"start", "done"} : rpc' = [rpc EXCEPT ![r] = s]
    BY <2>1
  <2>3. rpc[r] = "lookup" /\ UNCHANGED <<att, until, log>>
    BY <1>3 DEF ManualLookup, ManualLookupError
  <2>4. /\ log' = [log EXCEPT ![r] = log[r]] /\ att' = [att EXCEPT ![r] = att[r]]
        /\ until' = [until EXCEPT ![r] = until[r]]
    BY <1>2, <2>3
  <2>5. rpc'[r] = s /\ att[r] = 1 /\ mode'[r] = "manual" /\ att'[r] = 1 /\ log'[r] = log[r]
    BY <1>1, <1>2, <2>2, <2>3 DEF RunOK, NewIsBlank
  <2>6. Logged(r)' => Logged(r)
    BY <2>2, <2>5 DEF Logged
  <2>7. ~Registered(r)' /\ HandlerInLock(r)'
    BY <2>2, <2>5 DEF Registered, HandlerInLock
  <2>8. s \in RunStages /\ rpc[r] # "new" /\ s \notin {"new", "lookup"} /\ att[r] \in Attempts
        /\ until[r] \in Nat /\ log[r] \in {"none", "running", "success", "failed"}
    BY <1>2, <2>2, <2>3 DEF RunStages
  <2> QED BY <1>1, <2>2, <2>4, <2>6, <2>7, <2>8, StageOK
<1>4. ASSUME Execute(r) PROVE RunsInv'
  <2>1. rpc[r] = "exec" /\ rpc' = [rpc EXCEPT ![r] = "record"] /\ UNCHANGED <<att, until, log>>
    BY <1>4 DEF Execute
  <2>2. /\ log' = [log EXCEPT ![r] = log[r]] /\ att' = [att EXCEPT ![r] = att[r]]
        /\ until' = [until EXCEPT ![r] = until[r]]
    BY <1>2, <2>1
  <2>3. rpc'[r] = "record"
    BY <1>2, <2>1
  <2>4. Logged(r) /\ Registered(r) /\ HandlerInLock(r)'
    BY <2>1, <2>3 DEF Logged, Registered, HandlerInLock
  <2>5. "record" \in RunStages
    BY DEF RunStages
  <2> QED BY <1>1, <1>2, <2>1, <2>2, <2>4, <2>5, StageOK
<1>5. ASSUME Wake(r) PROVE RunsInv'
  <2>1. rpc[r] = "wait" /\ UNCHANGED <<until, log>>
    BY <1>5 DEF Wake
  <2>2. \E s \in {"finish", "start"}, a \in Attempts :
          rpc' = [rpc EXCEPT ![r] = s] /\ att' = [att EXCEPT ![r] = a]
    <3>1. att = [att EXCEPT ![r] = att[r]] /\ att[r] \in Attempts /\ att[r] + 1 \in Attempts
      BY <1>2 DEF Attempts
    <3> QED BY <1>5, <3>1 DEF Wake
  <2>3. PICK s \in {"finish", "start"}, a \in Attempts :
          rpc' = [rpc EXCEPT ![r] = s] /\ att' = [att EXCEPT ![r] = a]
    BY <2>2
  <2>4. log' = [log EXCEPT ![r] = log[r]] /\ until' = [until EXCEPT ![r] = until[r]]
    BY <1>2, <2>1
  <2>5. Logged(r) /\ Registered(r)
    BY <2>1 DEF Logged, Registered
  <2>6. HandlerInLock(r)'
    BY <1>1, <1>2, <2>1 DEF RunOK, HandlerInLock
  <2>7. s \in RunStages /\ s \notin {"new", "lookup"}
    BY DEF RunStages
  <2> QED BY <1>1, <1>2, <2>1, <2>3, <2>4, <2>5, <2>6, <2>7, StageOK
<1>6. ASSUME NEW v \in {"success", "failed"}, RecordAttempt(r, v) PROVE RunsInv'
  <2>1. /\ rpc[r] = "record" /\ log' = [log EXCEPT ![r] = v] /\ until' = [until EXCEPT ![r] = now + 1]
        /\ rpc' = [rpc EXCEPT ![r] = IF Retries(r, v) THEN "wait" ELSE "finish"] /\ att' = att
    BY <1>6 DEF RecordAttempt
  <2>2. PICK s \in {"wait", "finish"} :
          rpc' = [rpc EXCEPT ![r] = s] /\ (s = "wait" => att[r] < MaxAttempts)
    BY <2>1 DEF Retries
  <2>3. att' = [att EXCEPT ![r] = att[r]] /\ now + 1 \in Nat
    BY <1>2, <2>1
  <2>4. Logged(r) /\ Registered(r)
    BY <2>1 DEF Logged, Registered
  <2>5. HandlerInLock(r)'
    <3>1. Punctual => s # "wait"
      BY <1>2, <2>2 DEF Punctual, Attempts
    <3> QED BY <1>1, <1>2, <2>2, <3>1 DEF HandlerInLock
  <2>6. s \in RunStages /\ s \notin {"new", "lookup"}
    BY DEF RunStages
  <2> QED BY <1>1, <1>2, <2>1, <2>2, <2>3, <2>4, <2>5, <2>6, StageOK
<1> QED BY <1>3, <1>4, <1>5, <1>6

\* An attempt starts: the first of a run takes the run's key, which no other run has,
\* and makes it the one its node would cancel.
LEMMA StartOK ==
  ASSUME IInv, RunsInv, NEW r \in Runs, StartAttempt(r)
  PROVE  RunsInv'
<1>1. /\ rpc[r] = "start" /\ ~KeyConflict(r) /\ Register(r)
      /\ rpc' = [rpc EXCEPT ![r] = "exec"] /\ until' = [until EXCEPT ![r] = now + Timeout]
      /\ log' = [log EXCEPT ![r] = "running"]
      /\ keyed' = IF ikey[r] # NoKey THEN keyed \union {r} ELSE keyed
      /\ UNCHANGED <<now, setting, runner, node, mode, ikey, att, lockEnd>>
  BY DEF StartAttempt, row
<1>2. /\ now \in Nat /\ Timeout \in Nat /\ Margin \in Nat /\ RunOK(r) /\ node[r] \in Nodes
      /\ rpc'[r] = "exec" /\ until'[r] = now + Timeout /\ att[r] \in Attempts
  BY <1>1, TimeAssumption DEF IInv, Types, RunsInv, RunTypes
<1>3. \/ active' = [active EXCEPT ![node[r]] = r]
         /\ cancelled' = cancelled \union ({active[node[r]]} \ {NoRun}) /\ Policy = "REPLACE" /\ att[r] = 1
      \/ UNCHANGED <<active, cancelled>> /\ (Policy # "REPLACE" \/ att[r] # 1)
  BY <1>1 DEF Register
<1>4. RunTypes'
  <2>1. active' \in [Nodes -> Runs \union {NoRun}] /\ cancelled' \subseteq Runs
    BY <1>2, <1>3 DEF RunsInv, RunTypes
  <2> QED BY <1>1, <1>2, <2>1 DEF RunsInv, RunTypes
<1>5. TicksAreNow'
  BY <1>1 DEF RunsInv, TicksAreNow, runner, Prompt
<1>6. ASSUME NEW q \in Runs, q # r PROVE Untouched(q)
  <2>1. active[node[q]] = q => active'[node[q]] = q \/ q \in cancelled'
    <3>1. q # NoRun /\ node[q] \in Nodes
      BY NoRunAssumption DEF RunsInv, RunTypes
    <3> QED BY <1>2, <1>3, <3>1 DEF RunsInv, RunTypes
  <2>2. q \in cancelled => q \in cancelled'
    BY <1>3
  <2>3. (q \in keyed') = (q \in keyed)
    BY <1>1, <1>6
  <2> QED BY <1>1, <1>6, <2>1, <2>2, <2>3 DEF Untouched, IInv, Types, RunsInv, RunTypes
<1>7. NewIsBlank(r)'
  BY <1>2 DEF NewIsBlank
<1>8. LoggedHasKey(r)'
  BY <1>1 DEF LoggedHasKey
<1>9. ToldOrActive(r)'
  <2>1. CASE Policy = "REPLACE" /\ att[r] = 1
    BY <1>1, <1>2, <1>3, <2>1 DEF ToldOrActive, RunsInv, RunTypes
  <2>2. CASE Policy = "REPLACE" /\ att[r] # 1
    <3>1. Registered(r)
      BY <1>1, <1>2, <2>2 DEF Registered, Attempts
    <3> QED BY <1>1, <1>2, <1>3, <2>2, <3>1 DEF ToldOrActive, RunOK
  <2>3. CASE Policy # "REPLACE"
    BY <1>1, <2>3 DEF ToldOrActive, Policy
  <2> QED BY <2>1, <2>2, <2>3
<1>10. HandlerInLock(r)'
  <2>1. Punctual' = Punctual
    BY <1>1 DEF Punctual, Policy, Prompt, MaxAttempts
  <2> QED BY <1>1, <1>2, <2>1 DEF RunOK, HandlerInLock
<1>11. r \in keyed' /\ r \notin keyed => \A q \in keyed : q # r => ikey[q] # ikey'[r]
  <2> SUFFICES ASSUME r \in keyed', r \notin keyed, NEW q \in keyed, q # r, ikey[q] = ikey[r]
               PROVE  FALSE
    BY <1>1
  <2>1. ikey[r] # NoKey
    BY <1>1
  <2>2. KeyTaken(r)
    BY DEF KeyTaken
  <2>3. att[r] # 1
    BY <1>1, <2>1, <2>2 DEF KeyConflict
  <2> QED BY <1>2, <2>1, <2>3 DEF RunOK, LoggedHasKey, Logged, Attempts
<1> QED BY <1>1, <1>4, <1>5, <1>6, <1>7, <1>8, <1>9, <1>10, <1>11, RunStepKeeps DEF RunOK

\* Runs end, by themselves or with their node.
LEMMA EndsOK ==
  ASSUME IInv, RunsInv, NEW r \in Runs,
         StartConflict(r) \/ StartError(r) \/ RecordError(r) \/ FinishTask(r) \/ FinishError(r)
  PROVE  RunsInv'
<1>1. /\ End({r}) /\ UNCHANGED <<now, setting, runner>>
      /\ \/ UNCHANGED <<log, keyed>>
         \/ /\ ~KeyConflict(r) /\ log' = [log EXCEPT ![r] = "running"]
            /\ keyed' = IF ikey[r] # NoKey THEN keyed \union {r} ELSE keyed
  BY DEF StartConflict, StartError, RecordError, FinishTask, FinishError, row
<1>2. /\ log \in [Runs -> {"none", "running", "success", "failed"}] /\ keyed \subseteq Runs
      /\ RunOK(r) /\ att[r] \in Attempts
  BY DEF RunsInv, RunTypes
<1>3. RunTypes'
  BY <1>1, <1>2, EndTypes
<1>4. TicksAreNow'
  BY <1>1 DEF RunsInv, TicksAreNow, runner, Prompt
<1>5. \A q \in Runs : q # r => Untouched(q)
  <2>1. \A q \in Runs : q # r => log'[q] = log[q] /\ (q \in keyed') = (q \in keyed)
    BY <1>1, <1>2
  <2> QED BY <1>1, <2>1, EndsApart
<1>6. RunOK(r)'
  <2>1. log'[r] # "none" /\ ikey[r] # NoKey => r \in keyed'
    BY <1>1, <1>2 DEF RunOK, LoggedHasKey, Logged
  <2> QED BY <1>1, <2>1, EndedIsOK
<1>7. r \in keyed' /\ r \notin keyed => \A q \in keyed : q # r => ikey[q] # ikey'[r]
  <2> SUFFICES ASSUME r \in keyed', r \notin keyed, NEW q \in keyed, q # r, ikey[q] = ikey[r]
               PROVE  FALSE
    BY <1>1 DEF End
  <2>1. ikey[r] # NoKey /\ ~KeyConflict(r) /\ KeyTaken(r)
    BY <1>1 DEF KeyTaken
  <2>2. att[r] # 1
    BY <2>1 DEF KeyConflict
  <2> QED BY <1>2, <2>1, <2>2 DEF RunOK, LoggedHasKey, Logged, Attempts
<1>8. (keyed' = keyed \/ keyed' = keyed \union {r}) /\ ikey' = ikey
  BY <1>1 DEF End
<1> QED BY <1>1, <1>3, <1>4, <1>5, <1>6, <1>7, <1>8, RunStepKeeps

LEMMA CrashOK ==
  ASSUME IInv, RunsInv, NEW n \in Nodes, CrashNode(n)
  PROVE  RunsInv'
<1> DEFINE R == {r \in Runs : node[r] = n /\ rpc[r] # "new"}
<1>1. End(R) /\ RunnerDone(n) /\ UNCHANGED <<now, setting, log, keyed>> /\ R \in SUBSET Runs
  BY DEF CrashNode, row
<1>2. RunTypes'
  <2>1. log \in [Runs -> {"none", "running", "success", "failed"}] /\ keyed \subseteq Runs
    BY DEF RunsInv, RunTypes
  <2> HIDE DEF R
  <2> QED BY <1>1, <2>1, EndTypes
<1>3. TicksAreNow'
  BY <1>1 DEF RunsInv, TicksAreNow, RunnerDone, Prompt, IInv, Types
<1>4. ASSUME NEW q \in Runs PROVE RunOK(q)'
  <2> HIDE DEF R
  <2>1. CASE q \in R
    <3>1. log'[q] # "none" /\ ikey[q] # NoKey => q \in keyed'
      BY <1>1 DEF RunsInv, RunOK, LoggedHasKey, Logged
    <3> QED BY <1>1, <2>1, <3>1, EndedIsOK
  <2>2. CASE q \notin R
    BY <1>1, <2>2, EndsApart, UntouchedStaysOK
  <2> QED BY <2>1, <2>2
<1>5. KeysApart'
  BY <1>1 DEF RunsInv, KeysApart, End
<1> QED BY <1>2, <1>3, <1>4, <1>5 DEF RunsInv

\* The runner and the operators leave the runs alone.
LEMMA RunnerOK ==
  ASSUME IInv, RunsInv, UNCHANGED <<now, setting, runVars>>, TicksAreNow'
  PROVE  RunsInv'
<1>1. RunTypes' /\ KeysApart'
  BY DEF RunsInv, RunTypes, KeysApart, runVars
<1>2. ASSUME NEW q \in Runs PROVE Untouched(q)
  BY DEF Untouched, runVars
<1> QED BY <1>1, <1>2, UntouchedStaysOK DEF RunsInv

\* Time passes a prompt task only at rest, and a handler only until its timeout.
LEMMA TickOK ==
  ASSUME IInv, RunsInv, Tick
  PROVE  RunsInv'
<1>1. /\ now' = now + 1 /\ UNCHANGED <<setting, runner, runVars>> /\ (Prompt => AtRest) /\ now \in Nat
      /\ \A r \in Runs : rpc[r] = "exec" => now < until[r]
      /\ Policy' = Policy /\ Prompt' = Prompt /\ MaxAttempts' = MaxAttempts
  BY DEF Tick, row, IInv, Types, Policy, Prompt, MaxAttempts
<1>2. RunTypes' /\ KeysApart'
  BY <1>1 DEF RunsInv, RunTypes, KeysApart, runVars
<1>3. TicksAreNow'
  BY <1>1 DEF RunsInv, TicksAreNow, runner, AtRest
<1>4. ASSUME NEW q \in Runs PROVE RunOK(q)'
  <2>1. NewIsBlank(q)' /\ LoggedHasKey(q)' /\ ToldOrActive(q)'
    BY <1>1 DEF RunsInv, RunOK, NewIsBlank, LoggedHasKey, ToldOrActive, Logged, Registered, runVars
  <2>2. HandlerInLock(q)'
    <3>1. Punctual' = Punctual /\ (Punctual => rpc[q] # "start")
      BY <1>1 DEF Punctual, AtRest
    <3>2. until[q] \in Nat /\ HandlerInLock(q)
      BY DEF RunsInv, RunTypes, RunOK
    <3> QED BY <1>1, <3>1, <3>2 DEF HandlerInLock, runVars
  <2> QED BY <2>1, <2>2 DEF RunOK
<1> QED BY <1>2, <1>3, <1>4 DEF RunsInv

LEMMA RunsStep == IInv /\ RunsInv /\ [Next]_vars => RunsInv'
<1> SUFFICES ASSUME IInv, RunsInv, [Next]_vars PROVE RunsInv'
  OBVIOUS
<1>1. ASSUME NEW n \in Nodes, ReadDue(n) PROVE RunsInv'
  <2>1. TicksAreNow'
    BY <1>1 DEF ReadDue, RunsInv, TicksAreNow, row, Prompt, IInv, Types
  <2> QED BY <1>1, <2>1, RunnerOK DEF ReadDue, row
<1>2. ASSUME NEW n \in Nodes, SkipTask(n) \/ ClaimLost(n) PROVE RunsInv'
  <2>1. RunnerDone(n) /\ UNCHANGED <<now, setting, runVars>>
    BY <1>2 DEF SkipTask, ClaimLost, row
  <2>2. TicksAreNow'
    BY <2>1 DEF RunsInv, TicksAreNow, RunnerDone, Prompt, IInv, Types
  <2> QED BY <2>1, <2>2, RunnerOK
<1>3. ASSUME NEW e \in Editors, NEW on, NEW v,
              \/ OpenForm(e, on, v) \/ BeginSetStatus(e, on) \/ BeginUpdate(e)
              \/ CommitUpdate(e) \/ CloseForm(e) \/ CommitSetStatus(e) \/ Delete(e)
      PROVE  RunsInv'
  <2>1. UNCHANGED <<now, setting, runner, runVars>>
    BY <1>3 DEF OpenForm, BeginSetStatus, BeginUpdate, CommitUpdate, CloseForm,
       CommitSetStatus, Delete, row
  <2>2. TicksAreNow'
    BY <2>1 DEF RunsInv, TicksAreNow, runner, Prompt
  <2> QED BY <2>1, <2>2, RunnerOK
<1>4. CASE UNCHANGED vars
  <2>1. UNCHANGED <<now, setting, runner, runVars>>
    BY <1>4 DEF vars, row
  <2>2. TicksAreNow'
    BY <2>1 DEF RunsInv, TicksAreNow, runner, Prompt
  <2> QED BY <2>1, <2>2, RunnerOK
<1> QED BY <1>1, <1>2, <1>3, <1>4, BeginOK, BetweenOK, StartOK, EndsOK, CrashOK, TickOK DEF Next

LEMMA RunsFirst == Init => RunsInv
<1> SUFFICES ASSUME Init PROVE RunsInv
  OBVIOUS
<1>1. node \in [Runs -> Nodes]
  BY DEF Init
<1>2. RunTypes /\ KeysApart /\ TicksAreNow
  BY <1>1 DEF Init, RunTypes, KeysApart, TicksAreNow, Attempts
<1>3. ASSUME NEW r \in Runs PROVE RunOK(r)
  BY <1>3 DEF Init, RunOK, NewIsBlank, LoggedHasKey, ToldOrActive, HandlerInLock, Logged, Registered
<1> QED BY <1>2, <1>3 DEF RunsInv

LEMMA RunsInvariance == Spec => [](IInv /\ RunsInv)
<1>1. IInv /\ RunsInv /\ [Next]_vars => (IInv /\ RunsInv)'
  BY StepInvariant, RunsStep
<1> QED BY <1>1, InitInvariant, RunsFirst, PTL DEF Spec

\* A key runs the task once: the first log row of a run is what takes the key, in the
\* database, whatever a lookup that failed or came too early had said.
THEOREM KeysOnce == Spec => []KeyRunsOnce
<1>1. IInv /\ RunsInv => KeyRunsOnce
  BY DEF RunsInv, RunOK, LoggedHasKey, Logged, KeysApart, KeyRunsOnce
<1> QED BY <1>1, RunsInvariance, PTL

\* What asks to run once runs once.
THEOREM AskedOnceRunsOnce == Spec => []RunsOnce
<1>1. OccurrenceOnce /\ KeyRunsOnce => RunsOnce
  BY DEF RunsOnce
<1> QED BY <1>1, OccurrencesOnce, KeysOnce, PTL

\* Under REPLACE only the run its node knows goes on unasked, and under FORBID no two
\* handlers run at a time where every handler is back within its timeout: its lock is
\* Margin longer.
THEOREM OverlapFollowsPolicy == Spec => []OverlapsByPolicy
<1>1. IInv /\ RunsInv => ReplaceLeavesOne
  BY DEF RunsInv, RunOK, ToldOrActive, Registered, ReplaceLeavesOne
<1>2. IInv /\ RunsInv => ForbidExcludesInTime
  <2> SUFFICES ASSUME IInv, RunsInv, Prompt, MaxAttempts = 1, Policy = "FORBID",
                      NEW q \in Runs, NEW r \in Runs, q # r, mode[q] = "schedule", mode[r] = "schedule",
                      rpc[q] = "exec", rpc[r] = "exec"
               PROVE  FALSE
    BY DEF ForbidExcludesInTime, ForbidExcludes
  <2>1. lockEnd[q] <= now \/ lockEnd[r] <= now
    BY DEF IInv, LockedRunsExclude, Scheduled
  <2>2. ASSUME NEW p \in {q, r} PROVE lockEnd[p] > now
    <3>1. until[p] >= now /\ lockEnd[p] = until[p] + Margin /\ until[p] \in Nat
      BY DEF RunsInv, RunTypes, RunOK, HandlerInLock, Punctual
    <3> QED BY <3>1, TimeAssumption DEF IInv, Types
  <2>3. lockEnd[q] \in Nat /\ lockEnd[r] \in Nat /\ now \in Nat
    BY DEF IInv, Types
  <2> QED BY <2>1, <2>2, <2>3
<1>3. ReplaceLeavesOne /\ ForbidExcludesInTime => OverlapsByPolicy
  BY DEF OverlapsByPolicy
<1> QED BY <1>1, <1>2, <1>3, RunsInvariance, PTL
===============================================================================
