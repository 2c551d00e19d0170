--------------------------- MODULE ModuleLifecycle ---------------------------
(***************************************************************************)
(* The lifecycle executor of one module (app/modulecatalog): install,      *)
(* upgrade, rollback and uninstall requests, on any node, that take the    *)
(* module's row in module_lifecycle_lock, run the commands of the action   *)
(* as child processes and record run and state.                            *)
(*                                                                         *)
(* A process p is one call of executeItem: the executor, the goroutine     *)
(* that renews its lock, the child process, and the goroutine that watches *)
(* a child that did not stop. Its lock rows carry a run_key of its own, so *)
(* the row's (owner, run_key) is p. All nodes share one clock.             *)
(***************************************************************************)
EXTENDS Naturals

CONSTANTS
  Procs,        \* calls of executeItem for this module
  Keys,         \* idempotency keys action:module:version
  NoKey,
  Free,         \* no row in module_lifecycle_lock
  Commands,     \* number of commands of an action, its destructive check first
  TTL,          \* lockTTL
  Horizon       \* bound: the clock stops here

ASSUME LifecycleAssumption ==
  /\ Commands \in Nat \ {0} /\ TTL \in Nat \ {0} /\ Horizon \in Nat
  /\ Free \notin Procs /\ NoKey \notin Keys

VARIABLES
  now,
  holder, expires,  \* the row of module_lifecycle_lock
  run,              \* run[k]: status of k's row in module_lifecycle_run
  pc,               \* pc[p]: where p is
  key,              \* key[p]: the idempotency key p executes
  lease,            \* lease[p]: ExpiresAt in the renewal goroutine
  cmd,              \* cmd[p]: the command p is at
  child,            \* child[p]: p's child process
  renewal,          \* renewal[p]: FALSE once p's renewal goroutine has failed
  observed,         \* ReleaseStaleLocks: the expired row an operator has read
  lapsed,           \* history: the processes whose lock expired in their hands
  stated            \* history: keys with a success written to module_state

lock == <<holder, expires>>
local == <<pc, key, lease, cmd, child, renewal>>
history == <<lapsed, stated>>
vars == <<now, lock, run, local, observed, history>>

Stages == {"idle", "preflight", "begin", "start", "launch", "running", "grace", "failing",
           "latefailing", "watching", "success", "complete", "release",
           "done", "dead"}
\* The stages in which p may use the lock.
Holding == Stages \ {"idle", "done", "dead"}
Terminal == {"succeeded", "reconciliation_required"}

TypeOK ==
  /\ now \in 0..Horizon
  /\ holder \in Procs \union {Free}
  /\ expires \in 0..(Horizon + TTL)
  /\ run \in [Keys -> {"none", "running", "failed"} \union Terminal]
  /\ pc \in [Procs -> Stages]
  /\ key \in [Procs -> Keys \union {NoKey}]
  /\ lease \in [Procs -> 0..(Horizon + TTL)]
  /\ cmd \in [Procs -> 1..Commands]
  /\ child \in [Procs -> {"none", "on", "ok", "failed"}]
  /\ renewal \in [Procs -> BOOLEAN]
  /\ observed \in [holder : Procs \union {Free}, expires : 0..(Horizon + TTL)]
  /\ lapsed \subseteq Procs /\ stated \subseteq Keys

Nothing == [holder |-> Free, expires |-> 0]

Init ==
  /\ now = 0
  /\ holder = Free /\ expires = 0
  /\ run = [k \in Keys |-> "none"]
  /\ pc = [p \in Procs |-> "idle"]
  /\ key = [p \in Procs |-> NoKey]
  /\ lease = [p \in Procs |-> 0]
  /\ cmd = [p \in Procs |-> 1]
  /\ child = [p \in Procs |-> "none"]
  /\ renewal = [p \in Procs |-> TRUE]
  /\ observed = Nothing
  /\ lapsed = {} /\ stated = {}

Goto(p, stage) == pc' = [pc EXCEPT ![p] = stage]

-----------------------------------------------------------------------------
(***************************************************************************)
(* The lock                                                                *)
(***************************************************************************)

\* Acquire's UPDATE or INSERT takes a row that is not there or has expired.
\* Variant: any row is taken.
CanAcquireAlways == TRUE
CanAcquire == holder = Free \/ expires <= now

Acquire(p, k) ==
  /\ pc[p] = "idle"
  /\ CanAcquire
  /\ holder' = p /\ expires' = now + TTL
  /\ key' = [key EXCEPT ![p] = k]
  /\ Goto(p, "preflight")
  /\ UNCHANGED <<now, run, lease, cmd, child, renewal, observed, history>>

\* lock_blocked, or a database error.
AcquireFails(p) ==
  /\ pc[p] = "idle"
  /\ Goto(p, "done")
  /\ UNCHANGED <<now, lock, run, key, lease, cmd, child, renewal, observed, history>>

\* Renew asks only that the row is still p's: an expired row nobody took is
\* renewed. Variant: the new expiry counts from the old one.
ExtendFromExpiry(p) == holder = p /\ holder' = p /\ expires' = expires + TTL
Extend(p) == holder = p /\ holder' = p /\ expires' = now + TTL

\* Release deletes p's row, or fails and leaves it to expire.
Drop(p) ==
  \/ holder = p /\ holder' = Free /\ expires' = 0
  \/ UNCHANGED lock

Release(p) ==
  /\ pc[p] = "release"
  /\ Drop(p)
  /\ Goto(p, "done")
  /\ UNCHANGED <<now, run, key, lease, cmd, child, renewal, observed, history>>

-----------------------------------------------------------------------------
(***************************************************************************)
(* executeItem up to the commands                                          *)
(***************************************************************************)

\* preflightItem goes on unless the key's run blocks a retry, and then the
\* security gate opens.
Preflight(p) ==
  /\ pc[p] = "preflight"
  /\ run[key[p]] \notin Terminal
  /\ Goto(p, "begin")
  /\ UNCHANGED <<now, lock, run, key, lease, cmd, child, renewal, observed, history>>

\* The run blocks a retry, or the query or the gate fails.
PreflightStops(p) ==
  /\ pc[p] = "preflight"
  /\ Goto(p, "release")
  /\ UNCHANGED <<now, lock, run, key, lease, cmd, child, renewal, observed, history>>

\* BeginRun: the UPDATE skips a succeeded run, and then the INSERT fails. With a
\* command that is not allowed (failValidation) the next thing is the failure.
BeginRun(p) ==
  /\ pc[p] = "begin"
  /\ \/ /\ run[key[p]] # "succeeded"
        /\ run' = [run EXCEPT ![key[p]] = "running"]
        /\ \/ Goto(p, "start")
           \/ Goto(p, "failing")
     \/ /\ UNCHANGED run
        /\ Goto(p, "release")
  /\ UNCHANGED <<now, lock, key, lease, cmd, child, renewal, observed, history>>

-----------------------------------------------------------------------------
(***************************************************************************)
(* One command: startCommandAttempt, runCommandWithRenewal                 *)
(***************************************************************************)

\* runCommands goes on to the next command, or is through.
AfterCommand(p) ==
  IF cmd[p] < Commands THEN cmd' = [cmd EXCEPT ![p] = @ + 1] /\ Goto(p, "start")
                       ELSE UNCHANGED cmd /\ Goto(p, "success")

\* An earlier item of the same request has run this command.
SkipCommand(p) ==
  /\ pc[p] = "start"
  /\ AfterCommand(p)
  /\ UNCHANGED <<now, lock, run, key, lease, child, renewal, observed, history>>

\* startCommandAttempt records the step and renews the lock ...
StartCommand(p) ==
  /\ pc[p] = "start"
  /\ Extend(p)
  /\ lease' = [lease EXCEPT ![p] = now + TTL]
  /\ Goto(p, "launch")
  /\ UNCHANGED <<now, run, key, cmd, child, renewal, observed, history>>

\* ... and only then the child process and the renewal goroutine start.
Launch(p) ==
  /\ pc[p] = "launch"
  /\ child' = [child EXCEPT ![p] = "on"]
  /\ renewal' = [renewal EXCEPT ![p] = TRUE]
  /\ Goto(p, "running")
  /\ UNCHANGED <<now, lock, run, key, lease, cmd, observed, history>>

\* The step cannot be recorded or the lock not be renewed.
StartFails(p) ==
  /\ pc[p] = "start"
  /\ Goto(p, "failing")
  /\ UNCHANGED <<now, lock, run, key, lease, cmd, child, renewal, observed, history>>

\* A tick of the renewal goroutine, which goes on through the grace period.
Renew(p) ==
  /\ pc[p] \in {"running", "grace"} /\ renewal[p]
  /\ lease[p] > now
  /\ Extend(p)
  /\ lease' = [lease EXCEPT ![p] = now + TTL]
  /\ UNCHANGED <<now, run, pc, key, cmd, child, renewal, observed, history>>

\* It finds its lease over, its row gone, or the database failing.
RenewFails(p) ==
  /\ pc[p] \in {"running", "grace"} /\ renewal[p]
  /\ renewal' = [renewal EXCEPT ![p] = FALSE]
  /\ UNCHANGED <<now, lock, run, pc, key, lease, cmd, child, observed, history>>

\* The child process ends, whoever is left to notice.
ChildEnds(p) ==
  /\ child[p] = "on"
  /\ \E result \in {"ok", "failed"} : child' = [child EXCEPT ![p] = result]
  /\ UNCHANGED <<now, lock, run, pc, key, lease, cmd, renewal, observed, history>>

\* awaitCommand receives the result; a renewal that has failed by then fails
\* the command.
CommandDone(p) ==
  /\ pc[p] = "running" /\ child[p] \in {"ok", "failed"}
  /\ child' = [child EXCEPT ![p] = "none"]
  /\ IF child[p] = "ok" /\ renewal[p] THEN AfterCommand(p)
                                     ELSE UNCHANGED cmd /\ Goto(p, "failing")
  /\ UNCHANGED <<now, lock, run, key, lease, renewal, observed, history>>

\* The renewal has failed, the command timed out or the request was cancelled:
\* the child is told to stop and given the grace period.
CancelCommand(p) ==
  /\ pc[p] = "running"
  /\ Goto(p, "grace")
  /\ UNCHANGED <<now, lock, run, key, lease, cmd, child, renewal, observed, history>>

CommandStopped(p) ==
  /\ pc[p] = "grace" /\ child[p] \in {"ok", "failed"}
  /\ child' = [child EXCEPT ![p] = "none"]
  /\ Goto(p, "failing")
  /\ UNCHANGED <<now, lock, run, key, lease, cmd, renewal, observed, history>>

\* The grace period is over (lifecycleCommandStillRunningError): the failure retains the lock. Variant: it
\* is a failure like any other.
CommandStillRunningReleases(p) ==
  /\ pc[p] = "grace" /\ child[p] = "on"
  /\ Goto(p, "failing")
  /\ UNCHANGED <<now, lock, run, key, lease, cmd, child, renewal, observed, history>>
CommandStillRunning(p) ==
  /\ pc[p] = "grace" /\ child[p] = "on"
  /\ Goto(p, "latefailing")
  /\ UNCHANGED <<now, lock, run, key, lease, cmd, child, renewal, observed, history>>

-----------------------------------------------------------------------------
(***************************************************************************)
(* The end of a run                                                        *)
(***************************************************************************)

\* CompleteRun writes whatever the row says; its errors are ignored. A run that
\* failed and one that asks for a manual command (manual_required) are alike.
Complete(p, status) ==
  \/ run' = [run EXCEPT ![key[p]] = status]
  \/ UNCHANGED run

\* finishFailure and failValidation.
FinishFailure(p) ==
  /\ pc[p] = "failing"
  /\ Complete(p, "failed")
  /\ Goto(p, "release")
  /\ UNCHANGED <<now, lock, key, lease, cmd, child, renewal, observed, history>>

\* finishFailure with the child still running: watchLateRunner takes over.
FinishLateFailure(p) ==
  /\ pc[p] = "latefailing"
  /\ Complete(p, "reconciliation_required")
  /\ Goto(p, "watching")
  /\ UNCHANGED <<now, lock, key, lease, cmd, child, renewal, observed, history>>

RenewLate(p) ==
  /\ pc[p] = "watching"
  /\ Extend(p)
  /\ UNCHANGED <<now, run, local, observed, history>>

\* recordLateLeaseFailure: the watcher gives up, and leaves the row alone.
RenewLateFails(p) ==
  /\ pc[p] = "watching"
  /\ Complete(p, "reconciliation_required")
  /\ Goto(p, "done")
  /\ UNCHANGED <<now, lock, key, lease, cmd, child, renewal, observed, history>>

\* recordLateCompletion. Variant: what the child returned is the run's result.
LateCompletionTakesResult(p) ==
  /\ pc[p] = "watching" /\ child[p] \in {"ok", "failed"}
  /\ Complete(p, IF child[p] = "ok" THEN "succeeded" ELSE "failed")
  /\ child' = [child EXCEPT ![p] = "none"]
  /\ Goto(p, "release")
  /\ UNCHANGED <<now, lock, key, lease, cmd, renewal, observed, history>>
LateCompletion(p) ==
  /\ pc[p] = "watching" /\ child[p] \in {"ok", "failed"}
  /\ Complete(p, "reconciliation_required")
  /\ child' = [child EXCEPT ![p] = "none"]
  /\ Goto(p, "release")
  /\ UNCHANGED <<now, lock, key, lease, cmd, renewal, observed, history>>

\* finishSuccess writes module_state, or the run becomes a failed one. Variant:
\* the error is ignored, like the others.
StateSavedOrNot(p) ==
  /\ pc[p] = "success"
  /\ (stated' = stated \union {key[p]} \/ UNCHANGED stated)
  /\ Goto(p, "complete")
  /\ UNCHANGED <<now, lock, run, key, lease, cmd, child, renewal, observed, lapsed>>
StateSaved(p) ==
  /\ pc[p] = "success"
  /\ \/ stated' = stated \union {key[p]} /\ Goto(p, "complete")
     \/ UNCHANGED stated /\ Goto(p, "failing")
  /\ UNCHANGED <<now, lock, run, key, lease, cmd, child, renewal, observed, lapsed>>

\* Then the run is complete.
RunSaved(p) ==
  /\ pc[p] = "complete"
  /\ Complete(p, "succeeded")
  /\ Goto(p, "release")
  /\ UNCHANGED <<now, lock, key, lease, cmd, child, renewal, observed, history>>

\* p's process dies with its goroutines; its child process does not.
Crash(p) ==
  /\ pc[p] \in Holding
  /\ Goto(p, "dead")
  /\ UNCHANGED <<now, lock, run, key, lease, cmd, child, renewal, observed, history>>

-----------------------------------------------------------------------------
(***************************************************************************)
(* ReleaseStaleLocks and the clock                                         *)
(***************************************************************************)

ReadStaleLock ==
  /\ observed = Nothing
  /\ holder # Free /\ expires < now
  /\ observed' = [holder |-> holder, expires |-> expires]
  /\ UNCHANGED <<now, lock, run, local, history>>

\* The DELETE in the transaction. Variant: by key alone.
StillStaleByKey == holder # Free
StillStale ==
  /\ holder = observed.holder
  /\ expires = observed.expires /\ expires < now

ReleaseStaleLock ==
  /\ observed # Nothing
  /\ IF StillStale THEN holder' = Free /\ expires' = 0 ELSE UNCHANGED lock
  /\ observed' = Nothing
  /\ UNCHANGED <<now, run, local, history>>

Tick ==
  /\ now < Horizon
  /\ now' = now + 1
  /\ lapsed' = IF holder # Free /\ expires <= now + 1 THEN lapsed \union {holder}
                                                       ELSE lapsed
  /\ UNCHANGED <<lock, run, local, observed, stated>>

Next ==
  \/ \E p \in Procs :
       \/ \E k \in Keys : Acquire(p, k)
       \/ AcquireFails(p) \/ Release(p)
       \/ Preflight(p) \/ PreflightStops(p) \/ BeginRun(p)
       \/ SkipCommand(p) \/ StartCommand(p) \/ StartFails(p) \/ Launch(p)
       \/ Renew(p) \/ RenewFails(p) \/ ChildEnds(p)
       \/ CommandDone(p) \/ CancelCommand(p)
       \/ CommandStopped(p) \/ CommandStillRunning(p)
       \/ FinishFailure(p) \/ FinishLateFailure(p)
       \/ RenewLate(p) \/ RenewLateFails(p) \/ LateCompletion(p)
       \/ StateSaved(p) \/ RunSaved(p)
       \/ Crash(p)
  \/ ReadStaleLock \/ ReleaseStaleLock \/ Tick

Spec == Init /\ [][Next]_vars

-----------------------------------------------------------------------------
(***************************************************************************)
(* Properties                                                              *)
(***************************************************************************)

\* Whoever works under the lock, its child process included, has the row, and
\* the row has time left, until the lock has expired in its hands.
LeaseInRow ==
  \A p \in Procs : ((pc[p] \in Holding \/ child[p] = "on") /\ p \notin lapsed)
                      => holder = p /\ expires > now

\* Two command processes of one module run together only if one of them comes
\* from a call whose lock expired: a late child, a cancelled call, an operator's
\* release of stale locks and another node change nothing about that.
CommandsExclude ==
  \A p, q \in Procs : (p # q /\ child[p] = "on" /\ child[q] = "on")
                         => p \in lapsed \/ q \in lapsed

\* The row of the lock guards the commands, from executeItem to the end of a late
\* child.
LockGuardsCommands == LeaseInRow /\ CommandsExclude

\* While no lock has expired in anyone's hands, a run that succeeded or needs
\* reconciliation stays what it is, whichever calls come after it.
TerminalStays ==
  [][\A k \in Keys : (lapsed' = {} /\ run[k] \in Terminal) => run'[k] = run[k]]_vars

\* A run is succeeded only once module_state has its result, whatever crashes
\* or fails in between.
SucceededIsStated == \A k \in Keys : run[k] = "succeeded" => k \in stated

=============================================================================
