---------------------------- MODULE ScheduledTask ----------------------------
(***************************************************************************)
(* One row of scheduled_task and everything that acts on it                *)
(* (app/services/runtime/scheduledtask): the ticking runner of every node, *)
(* the goroutines that run the task, manual runs and the operators that    *)
(* edit, switch or delete it.                                              *)
(*                                                                         *)
(* Time is a counter of ticks shared by all nodes (the deployment keeps    *)
(* clocks synchronised); RunDue works with the time of the tick it was     *)
(* called for, which may be behind.  A run stands for its run token, and   *)
(* its handler returns by the timeout of its context.                      *)
(***************************************************************************)
EXTENDS Naturals

CONSTANTS
    Nodes,
    Runs,           \* calls of runTask
    NoRun,          \* an empty run_token, or no registered run
    Keys,           \* idempotency keys of manual runs
    NoKey,
    Editors,        \* operators that save the task's form or switch it on or off
    Settings,       \* the columns of the task's form that shape its runs:
                    \* policy, misfire, attempts, and prompt, which is TRUE
                    \* where statements take no time, only handlers and delays
    Period,         \* the cron expression fires at the multiples of Period
    Timeout,        \* timeout_seconds
    Margin,         \* the five seconds a lock outlives the timeout
    Grace,          \* the two seconds after which a trigger has misfired
    Horizon,        \* bound: the clock stops here
    MaxVersion      \* bound: no update of a task of this version

ASSUME SettingsAssumption ==
    Settings \subseteq [policy : {"ALLOW", "FORBID", "REPLACE"},
                        misfire : {"IGNORE", "FIRE_ONCE_NOW", "SCHEDULER_DEFAULT"},
                        attempts : Nat \ {0}, prompt : BOOLEAN]
ASSUME TimeAssumption ==
    /\ Period \in Nat \ {0} /\ Margin \in Nat \ {0}
    /\ Timeout \in Nat /\ Grace \in Nat /\ Horizon \in Nat /\ MaxVersion \in Nat
ASSUME NoRunAssumption == NoRun \notin Runs /\ NoKey \notin Keys

VARIABLES
    now,
    \* the row
    setting,        \* one of Settings
    exists, enabled, version, nextRun,
    lockedUntil,    \* 0 stands for NULL
    runToken,
    \* RunDue on each node
    npc,            \* npc[n]: "idle", or "due" once it has read the row
    tickAt,         \* tickAt[n]: the now it was called with
    seenNext,       \* seenNext[n]: next_run_at as read
    seenLock,       \* seenLock[n]: locked_until as read
    \* runTask
    rpc,            \* rpc[r]: where it is
    node,           \* node[r]: the node it runs on
    mode,           \* mode[r]: triggerMode
    ikey,           \* ikey[r]: the idempotency key of a manual run
    att,            \* att[r]: the attempt
    until,          \* until[r]: when the running handler or delay ends at the latest
    lockEnd,        \* lockEnd[r]: the locked_until its claim wrote
    log,            \* log[r]: status of the log row of its last attempt
    keyed,          \* the runs whose first log row carries their key
    active,         \* active[n]: scheduledTaskActiveRuns of n's process
    cancelled,      \* the runs whose context has been cancelled
    \* operators
    epc, formVersion, formNext, formEnabled,
    readVersion,    \* readVersion[e]: the version Update read
    \* history
    fires,          \* fires[o]: how often occurrence o was claimed or skipped
    rearmed         \* the occurrences an operator put back after they had fired, and
                    \* those after them

row == <<setting, exists, enabled, version, nextRun, lockedUntil, runToken>>
runner == <<npc, tickAt, seenNext, seenLock>>
runVars == <<rpc, node, mode, ikey, att, until, lockEnd, log, keyed, active, cancelled>>
edit == <<epc, formVersion, formNext, formEnabled, readVersion>>
history == <<fires, rearmed>>
vars == <<now, row, runner, runVars, edit, history>>

Policy == setting.policy
Misfire == setting.misfire
MaxAttempts == setting.attempts
Prompt == setting.prompt

Times == 0..(Horizon + Timeout + Margin + Period)

\* The next multiple of Period after t (taskNextRun).  Variant: not before t.
NextRunInclusive(t) == IF t % Period = 0 THEN t ELSE (t \div Period + 1) * Period
NextRun(t) == (t \div Period + 1) * Period

TypeOK ==
    /\ now \in 0..Horizon
    /\ setting \in Settings
    /\ exists \in BOOLEAN /\ enabled \in BOOLEAN /\ version \in Nat
    /\ nextRun \in Times /\ lockedUntil \in Times
    /\ runToken \in Runs \union {NoRun}
    /\ npc \in [Nodes -> {"idle", "due"}]
    /\ tickAt \in [Nodes -> Times]
    /\ seenNext \in [Nodes -> Times] /\ seenLock \in [Nodes -> Times]
    /\ rpc \in [Runs -> {"new", "lookup", "start", "exec", "record", "wait", "finish", "done"}]
    /\ node \in [Runs -> Nodes]
    /\ mode \in [Runs -> {"schedule", "manual"}]
    /\ ikey \in [Runs -> Keys \union {NoKey}]
    /\ att \in [Runs -> 1..MaxAttempts]
    /\ until \in [Runs -> Times] /\ lockEnd \in [Runs -> Times]
    /\ log \in [Runs -> {"none", "running", "success", "failed"}]
    /\ keyed \subseteq Runs /\ cancelled \subseteq Runs
    /\ active \in [Nodes -> Runs \union {NoRun}]
    /\ epc \in [Editors -> {"idle", "editing", "saving", "toggling"}]
    /\ formVersion \in [Editors -> Nat] /\ readVersion \in [Editors -> Nat]
    /\ formNext \in [Editors -> Times]
    /\ formEnabled \in [Editors -> BOOLEAN]
    /\ fires \in [Times -> Nat] /\ rearmed \subseteq Times

Init ==
    /\ now = 0
    /\ setting \in Settings
    /\ exists = TRUE /\ enabled = TRUE /\ version = 1
    /\ nextRun = NextRun(0) /\ lockedUntil = 0 /\ runToken = NoRun
    /\ npc = [n \in Nodes |-> "idle"]
    /\ tickAt = [n \in Nodes |-> 0]
    /\ seenNext = [n \in Nodes |-> 0]
    /\ seenLock = [n \in Nodes |-> 0]
    /\ rpc = [r \in Runs |-> "new"]
    /\ node \in {[r \in Runs |-> n] : n \in Nodes}
    /\ mode = [r \in Runs |-> "schedule"]
    /\ ikey = [r \in Runs |-> NoKey]
    /\ att = [r \in Runs |-> 1]
    /\ until = [r \in Runs |-> 0]
    /\ lockEnd = [r \in Runs |-> 0]
    /\ log = [r \in Runs |-> "none"]
    /\ keyed = {} /\ cancelled = {}
    /\ active = [n \in Nodes |-> NoRun]
    /\ epc = [e \in Editors |-> "idle"]
    /\ formVersion = [e \in Editors |-> 0]
    /\ readVersion = [e \in Editors |-> 0]
    /\ formNext = [e \in Editors |-> 0]
    /\ formEnabled = [e \in Editors |-> TRUE]
    /\ fires = [o \in Times |-> 0] /\ rearmed = {}

-------------------------------------------------------------------------------
(* RunDue *)

RunnerDone(n) ==
    /\ npc' = [npc EXCEPT ![n] = "idle"]
    /\ tickAt' = [tickAt EXCEPT ![n] = 0]
    /\ seenNext' = [seenNext EXCEPT ![n] = 0]
    /\ seenLock' = [seenLock EXCEPT ![n] = 0]

\* A tick of the runner finds the task due.
ReadDue(n) ==
    /\ npc[n] = "idle"
    /\ exists /\ enabled /\ nextRun <= now
    /\ npc' = [npc EXCEPT ![n] = "due"]
    /\ tickAt' = [tickAt EXCEPT ![n] = now]
    /\ seenNext' = [seenNext EXCEPT ![n] = nextRun]
    /\ seenLock' = [seenLock EXCEPT ![n] = lockedUntil]
    /\ UNCHANGED <<now, row, runVars, edit, history>>

ShouldSkipMisfire(n) == Misfire = "IGNORE" /\ tickAt[n] - seenNext[n] > Grace
SeenLocked(n) == Policy = "FORBID" /\ seenLock[n] > tickAt[n]

\* The condition on next_run_at that every UPDATE of the runner carries.
\* Variant: none, the snapshot is trusted.
StillDueTrustsSnapshot(n) == exists
StillDue(n) == exists /\ nextRun <= tickAt[n]

Fire == fires' = [fires EXCEPT ![nextRun] = @ + 1]

\* skipTask: the occurrence is passed over and logged, unless another node
\* got to it first or the UPDATE fails.
SkipTask(n) ==
    /\ npc[n] = "due"
    /\ ShouldSkipMisfire(n) \/ SeenLocked(n)
    /\ \/ /\ StillDue(n)
          /\ nextRun' = NextRun(tickAt[n])
          /\ Fire
       \/ UNCHANGED <<nextRun, fires>>
    /\ RunnerDone(n)
    /\ UNCHANGED <<now, setting, exists, enabled, version, lockedUntil, runToken>>
    /\ UNCHANGED <<runVars, edit, rearmed>>

\* How long a claim locks the row.  Variant: without the timeout.
LockTimeMarginOnly == Margin
LockTime == IF Policy = "FORBID" THEN Timeout + Margin ELSE 2 * Margin

\* The lock condition of Claim.  Variants: none; the lock as RunDue read it.
LockFreeAlways(n) == TRUE
LockFreeAsRead(n) == Policy = "FORBID" => seenLock[n] <= tickAt[n]
LockFree(n) == Policy = "FORBID" => lockedUntil <= tickAt[n]

CanClaim(n) == StillDue(n) /\ enabled /\ LockFree(n)

\* Claim and, if it won, the goroutine that runs the task.
Claim(n, r) ==
    /\ npc[n] = "due"
    /\ ~ShouldSkipMisfire(n) /\ ~SeenLocked(n)
    /\ rpc[r] = "new"
    /\ CanClaim(n)
    /\ nextRun' = NextRun(tickAt[n])
    /\ lockedUntil' = tickAt[n] + LockTime
    /\ runToken' = r
    /\ Fire
    /\ rpc' = [rpc EXCEPT ![r] = "start"]
    /\ node' = [node EXCEPT ![r] = n]
    /\ lockEnd' = [lockEnd EXCEPT ![r] = tickAt[n] + LockTime]
    /\ RunnerDone(n)
    /\ UNCHANGED <<now, setting, exists, enabled, version, edit, rearmed>>
    /\ UNCHANGED <<mode, ikey, att, until, log, keyed, active, cancelled>>

\* The UPDATE matched no row or failed.
ClaimLost(n) ==
    /\ npc[n] = "due"
    /\ ~ShouldSkipMisfire(n) /\ ~SeenLocked(n)
    /\ RunnerDone(n)
    /\ UNCHANGED <<now, row, runVars, edit, history>>

-------------------------------------------------------------------------------
(* Manual runs *)

\* ManualRunIdempotent reads the task ...
ManualRun(n, r, k) ==
    /\ rpc[r] = "new"
    /\ exists
    /\ rpc' = [rpc EXCEPT ![r] = IF k = NoKey THEN "start" ELSE "lookup"]
    /\ node' = [node EXCEPT ![r] = n]
    /\ mode' = [mode EXCEPT ![r] = "manual"]
    /\ ikey' = [ikey EXCEPT ![r] = k]
    /\ UNCHANGED <<att, until, lockEnd, log, keyed, active, cancelled>>
    /\ UNCHANGED <<now, row, runner, edit, history>>

KeyTaken(r) == \E q \in keyed : ikey[q] = ikey[r]

\* ... and returns the execution recorded under its key, if there is one.
\* A SELECT that fails is treated as if there were none.
ManualLookup(r) ==
    /\ rpc[r] = "lookup"
    /\ rpc' = [rpc EXCEPT ![r] = IF KeyTaken(r) THEN "done" ELSE "start"]
    /\ UNCHANGED <<node, mode, ikey, att, until, lockEnd, log, keyed, active, cancelled>>
    /\ UNCHANGED <<now, row, runner, edit, history>>

ManualLookupError(r) ==
    /\ rpc[r] = "lookup"
    /\ rpc' = [rpc EXCEPT ![r] = "start"]
    /\ UNCHANGED <<node, mode, ikey, att, until, lockEnd, log, keyed, active, cancelled>>
    /\ UNCHANGED <<now, row, runner, edit, history>>

-------------------------------------------------------------------------------
(* runTask *)

\* The condition of the final UPDATE of the row (taskRunQuery).  Variant: a
\* scheduled run does not check its token.
FinishMatchesAnyToken(r) == exists
FinishMatches(r) == exists /\ (mode[r] = "schedule" => runToken = r)

\* finishScheduledTask: a scheduled run also gives its lock back.  Variant: a
\* manual run does so too.
ReleaseLockAlways(r) ==
    IF FinishMatches(r)
    THEN lockedUntil' = 0 /\ runToken' = NoRun
    ELSE UNCHANGED <<lockedUntil, runToken>>

ReleaseLock(r) ==
    IF mode[r] = "schedule" /\ FinishMatches(r)
    THEN lockedUntil' = 0 /\ runToken' = NoRun
    ELSE UNCHANGED <<lockedUntil, runToken>>

\* The runs in R return or die: their contexts are unregistered and their
\* local variables forgotten.
End(R) ==
    /\ rpc' = [r \in Runs |-> IF r \in R THEN "done" ELSE rpc[r]]
    /\ att' = [r \in Runs |-> IF r \in R THEN 1 ELSE att[r]]
    /\ until' = [r \in Runs |-> IF r \in R THEN 0 ELSE until[r]]
    /\ lockEnd' = [r \in Runs |-> IF r \in R THEN 0 ELSE lockEnd[r]]
    /\ active' = [n \in Nodes |-> IF active[n] \in R THEN NoRun ELSE active[n]]
    /\ cancelled' = cancelled \ R
    /\ UNCHANGED <<node, mode, ikey>>

\* Variant: the previous run is forgotten, not cancelled.
RegisterOnly(r) ==
    IF Policy = "REPLACE" /\ att[r] = 1
    THEN active' = [active EXCEPT ![node[r]] = r] /\ UNCHANGED cancelled
    ELSE UNCHANGED <<active, cancelled>>

\* registerScheduledTaskRun, before the first attempt: under REPLACE the
\* previous run of this process is cancelled.
Register(r) ==
    IF Policy = "REPLACE" /\ att[r] = 1
    THEN /\ active' = [active EXCEPT ![node[r]] = r]
         /\ cancelled' = cancelled \union ({active[node[r]]} \ {NoRun})
    ELSE UNCHANGED <<active, cancelled>>

\* The log row of an attempt is inserted, unless it is the first of a key
\* that another run has taken: (task_id, idempotency_key) is unique.
\* Variant: the key is looked up but not unique.
KeyConflictIgnored(r) == FALSE
KeyConflict(r) == att[r] = 1 /\ ikey[r] # NoKey /\ KeyTaken(r)

StartAttempt(r) ==
    /\ rpc[r] = "start"
    /\ ~KeyConflict(r)
    /\ log' = [log EXCEPT ![r] = "running"]
    /\ keyed' = IF ikey[r] # NoKey THEN keyed \union {r} ELSE keyed
    /\ Register(r)
    /\ rpc' = [rpc EXCEPT ![r] = "exec"]
    /\ until' = [until EXCEPT ![r] = now + Timeout]
    /\ UNCHANGED <<node, mode, ikey, att, lockEnd>>
    /\ UNCHANGED <<now, row, runner, edit, history>>

\* errScheduledTaskExecutionExists: the other run's execution is returned.
StartConflict(r) ==
    /\ rpc[r] = "start"
    /\ KeyConflict(r)
    /\ End({r})
    /\ UNCHANGED <<log, keyed>>
    /\ UNCHANGED <<now, row, runner, edit, history>>

\* The log row cannot be inserted, or its JSON columns not be written after
\* it was (recordTaskRunWriteFailure).
StartError(r) ==
    /\ rpc[r] = "start"
    /\ \/ UNCHANGED <<log, keyed>>
       \/ /\ ~KeyConflict(r)
          /\ log' = [log EXCEPT ![r] = "running"]
          /\ keyed' = IF ikey[r] # NoKey THEN keyed \union {r} ELSE keyed
    /\ ReleaseLock(r) \/ UNCHANGED <<lockedUntil, runToken>>
    /\ End({r})
    /\ UNCHANGED <<setting, exists, enabled, version, nextRun>>
    /\ UNCHANGED <<now, runner, edit, history>>

\* The handler returns; a panic is a failure.
Execute(r) ==
    /\ rpc[r] = "exec"
    /\ rpc' = [rpc EXCEPT ![r] = "record"]
    /\ UNCHANGED <<node, mode, ikey, att, until, lockEnd, log, keyed, active, cancelled>>
    /\ UNCHANGED <<now, row, runner, edit, history>>

\* finishScheduledTaskLog, and what comes next: a failed attempt is retried
\* while attempts are left and the run has not been cancelled.
Retries(r, s) == s = "failed" /\ att[r] < MaxAttempts /\ r \notin cancelled

\* Variant: a handler's empty status is not replaced by "success".
RecordAttemptNoDefault(r, s) ==
    /\ rpc[r] = "record"
    /\ log' = [log EXCEPT ![r] = ""]
    /\ rpc' = [rpc EXCEPT ![r] = "finish"]
    /\ UNCHANGED <<node, mode, ikey, att, until, lockEnd, keyed, active, cancelled>>
    /\ UNCHANGED <<now, row, runner, edit, history>>

RecordAttempt(r, s) ==
    /\ rpc[r] = "record"
    /\ log' = [log EXCEPT ![r] = s]
    /\ rpc' = [rpc EXCEPT ![r] = IF Retries(r, s) THEN "wait" ELSE "finish"]
    /\ until' = [until EXCEPT ![r] = now + 1]
    /\ UNCHANGED <<node, mode, ikey, att, lockEnd, keyed, active, cancelled>>
    /\ UNCHANGED <<now, row, runner, edit, history>>

\* The log row cannot be updated: runTask returns at once, the lock stays.
RecordError(r) ==
    /\ rpc[r] = "record"
    /\ End({r})
    /\ UNCHANGED <<log, keyed>>
    /\ UNCHANGED <<now, row, runner, edit, history>>

\* The delay before the next attempt is over, or the run was cancelled in it.
Wake(r) ==
    /\ rpc[r] = "wait"
    /\ \/ /\ r \in cancelled
          /\ rpc' = [rpc EXCEPT ![r] = "finish"]
          /\ UNCHANGED att
       \/ /\ now >= until[r]
          /\ rpc' = [rpc EXCEPT ![r] = "start"]
          /\ att' = [att EXCEPT ![r] = @ + 1]
    /\ UNCHANGED <<node, mode, ikey, until, lockEnd, log, keyed, active, cancelled>>
    /\ UNCHANGED <<now, row, runner, edit, history>>

FinishTask(r) ==
    /\ rpc[r] = "finish"
    /\ ReleaseLock(r)
    /\ End({r})
    /\ UNCHANGED <<setting, exists, enabled, version, nextRun>>
    /\ UNCHANGED <<log, keyed>>
    /\ UNCHANGED <<now, runner, edit, history>>

FinishError(r) ==
    /\ rpc[r] = "finish"
    /\ End({r})
    /\ UNCHANGED <<log, keyed>>
    /\ UNCHANGED <<now, row, runner, edit, history>>

\* The process of node n dies with all of its runs; it starts again.
CrashNode(n) ==
    /\ End({r \in Runs : node[r] = n /\ rpc[r] # "new"})
    /\ RunnerDone(n)
    /\ UNCHANGED <<log, keyed>>
    /\ UNCHANGED <<now, row, edit, history>>

-------------------------------------------------------------------------------
(* Operators *)

EditDone(e) ==
    /\ epc' = [epc EXCEPT ![e] = "idle"]
    /\ formVersion' = [formVersion EXCEPT ![e] = 0]
    /\ readVersion' = [readVersion EXCEPT ![e] = 0]
    /\ formNext' = [formNext EXCEPT ![e] = 0]
    /\ formEnabled' = [formEnabled EXCEPT ![e] = TRUE]

\* An operator opens the form and changes it; the form carries the version
\* it was opened with, or none (0).
OpenForm(e, on, v) ==
    /\ epc[e] = "idle"
    /\ exists
    /\ epc' = [epc EXCEPT ![e] = "editing"]
    /\ formVersion' = [formVersion EXCEPT ![e] = v]
    /\ formEnabled' = [formEnabled EXCEPT ![e] = on]
    /\ UNCHANGED <<formNext, readVersion, now, row, runner, runVars, history>>

VersionFits(e) == formVersion[e] > 0 => formVersion[e] = version

\* Update reads the row, compares versions and computes next_run_at ...
BeginUpdate(e) ==
    /\ epc[e] = "editing"
    /\ exists /\ VersionFits(e)
    /\ epc' = [epc EXCEPT ![e] = "saving"]
    /\ formNext' = [formNext EXCEPT ![e] = NextRun(now)]
    /\ readVersion' = [readVersion EXCEPT ![e] = version]
    /\ UNCHANGED <<formVersion, formEnabled>>
    /\ UNCHANGED <<now, row, runner, runVars, history>>

\* What an operator's write of next_run_at does to the history: a node whose tick is
\* behind may go through the occurrences from there again.
Rearm(e) ==
    rearmed' = rearmed \union {o \in Times : o >= formNext[e] /\ fires[o] > 0}

\* Variant: the whole row is saved, lock columns included.
CommitUpdateWholeRow(e) ==
    /\ epc[e] = "saving"
    /\ exists /\ VersionFits(e)
    /\ version < MaxVersion
    /\ nextRun' = formNext[e]
    /\ enabled' = formEnabled[e]
    /\ version' = readVersion[e] + 1
    /\ lockedUntil' = 0 /\ runToken' = NoRun
    /\ Rearm(e)
    /\ EditDone(e)
    /\ UNCHANGED <<setting, exists, now, runner, runVars, fires>>

\* ... and writes the row if the version is still the one in the form, or the
\* form has none. The edits modelled keep the task's policies and timeout.
CommitUpdate(e) ==
    /\ epc[e] = "saving"
    /\ exists /\ VersionFits(e)
    /\ version < MaxVersion
    /\ nextRun' = formNext[e]
    /\ enabled' = formEnabled[e]
    /\ version' = readVersion[e] + 1
    /\ Rearm(e)
    /\ EditDone(e)
    /\ UNCHANGED <<setting, exists, lockedUntil, runToken>>
    /\ UNCHANGED <<now, runner, runVars, fires>>

\* The operator gives up, or is told that the version conflicts.
CloseForm(e) ==
    /\ epc[e] \in {"editing", "saving", "toggling"}
    /\ EditDone(e)
    /\ UNCHANGED <<now, row, runner, runVars, history>>

\* setStatus (Enable, Disable): neither checks nor raises the version.
BeginSetStatus(e, on) ==
    /\ epc[e] = "idle"
    /\ exists
    /\ epc' = [epc EXCEPT ![e] = "toggling"]
    /\ formNext' = [formNext EXCEPT ![e] = NextRun(now)]
    /\ formEnabled' = [formEnabled EXCEPT ![e] = on]
    /\ UNCHANGED <<formVersion, readVersion, now, row, runner, runVars, history>>

CommitSetStatus(e) ==
    /\ epc[e] = "toggling"
    /\ exists
    /\ enabled' = formEnabled[e]
    /\ nextRun' = formNext[e]
    /\ Rearm(e)
    /\ EditDone(e)
    /\ UNCHANGED <<setting, exists, version, lockedUntil, runToken>>
    /\ UNCHANGED <<now, runner, runVars, fires>>

Delete(e) ==
    /\ epc[e] = "idle"
    /\ exists' = FALSE
    /\ UNCHANGED <<setting, enabled, version, nextRun, lockedUntil, runToken>>
    /\ UNCHANGED <<now, runner, runVars, edit, history>>

-------------------------------------------------------------------------------
AtRest ==
    /\ \A n \in Nodes : npc[n] = "idle"
    /\ \A r \in Runs : rpc[r] \in {"new", "exec", "wait", "done"}
    /\ ~(exists /\ enabled /\ nextRun <= now)

\* A handler that obeys its context has returned when its timeout is over.
Tick ==
    /\ now < Horizon
    /\ \A r \in Runs : rpc[r] = "exec" => now < until[r]
    /\ Prompt => AtRest
    /\ now' = now + 1
    /\ UNCHANGED <<row, runner, runVars, edit, history>>

Next ==
    \/ \E n \in Nodes : ReadDue(n) \/ SkipTask(n) \/ ClaimLost(n) \/ CrashNode(n)
    \/ \E n \in Nodes, r \in Runs :
          \/ Claim(n, r)
          \/ \E k \in Keys \union {NoKey} : ManualRun(n, r, k)
    \/ \E r \in Runs :
          \/ ManualLookup(r) \/ ManualLookupError(r)
          \/ StartAttempt(r) \/ StartConflict(r) \/ StartError(r)
          \/ Execute(r)
          \/ \E s \in {"success", "failed"} : RecordAttempt(r, s)
          \/ RecordError(r) \/ Wake(r) \/ FinishTask(r) \/ FinishError(r)
    \/ \E e \in Editors :
          \/ \E on \in BOOLEAN : OpenForm(e, on, 0) \/ OpenForm(e, on, version)
          \/ \E on \in BOOLEAN : BeginSetStatus(e, on)
          \/ BeginUpdate(e) \/ CommitUpdate(e) \/ CloseForm(e)
          \/ CommitSetStatus(e) \/ Delete(e)
    \/ Tick

Spec == Init /\ [][Next]_vars

-------------------------------------------------------------------------------
(* Properties *)

\* A scheduled run is under way from its claim to the release of its lock.
Scheduled(r) == mode[r] = "schedule" /\ rpc[r] \notin {"new", "done"}

\* Under FORBID two scheduled runs are never under way together while the
\* locks of both last.
LockedRunsExclude ==
    Policy = "FORBID" =>
        \A q, r \in Runs :
            (q # r /\ Scheduled(q) /\ Scheduled(r)) => lockEnd[q] <= now \/ lockEnd[r] <= now

\* What LockedRunsExclude rests on: a lock that lasts is the one in the row,
\* whoever else claims, finishes, edits or runs the task by hand.
LastingLockIsInRow ==
    (Policy = "FORBID" /\ exists) =>
        \A r \in Runs : (Scheduled(r) /\ lockEnd[r] > now) =>
            runToken = r /\ lockedUntil = lockEnd[r]

\* The lock of a FORBID task guards its runs, in Claim and until
\* finishScheduledTask.
LockGuardsRuns == LastingLockIsInRow /\ LockedRunsExclude

\* Under FORBID two handlers of scheduled runs never execute together.
ForbidExcludes ==
    Policy = "FORBID" =>
        \A q, r \in Runs :
            (q # r /\ mode[q] = "schedule" /\ mode[r] = "schedule")
                => ~(rpc[q] = "exec" /\ rpc[r] = "exec")

\* Under REPLACE at most one run of a process executes without having been
\* told to stop.
ReplaceLeavesOne ==
    Policy = "REPLACE" =>
        \A q, r \in Runs :
            (q # r /\ node[q] = node[r] /\ rpc[q] = "exec" /\ rpc[r] = "exec")
                => q \in cancelled \/ r \in cancelled

\* No occurrence fires twice, on however many nodes, unless an operator's
\* write put it, or one before it, back.
OccurrenceOnce == \A o \in DOMAIN fires : o \notin rearmed => fires[o] <= 1

\* Two requests with one idempotency key never both execute the task.
KeyRunsOnce ==
    \A q, r \in Runs :
        (q # r /\ ikey[q] = ikey[r] /\ ikey[q] # NoKey) => log[q] = "none" \/ log[r] = "none"

\* Nothing that asks to run once runs twice: an occurrence of the schedule, or a
\* request with an idempotency key.
RunsOnce == OccurrenceOnce /\ KeyRunsOnce

\* ForbidExcludes holds where a task is attempted once and nothing but its handler and
\* its delays takes time: the lock then outlives the handler.
ForbidExcludesInTime == (Prompt /\ MaxAttempts = 1) => ForbidExcludes

\* The runs of a task overlap as its policy says, on one node or on many.
OverlapsByPolicy == ForbidExcludesInTime /\ ReplaceLeavesOne
===============================================================================
