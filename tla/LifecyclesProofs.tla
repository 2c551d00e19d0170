-------------------------- MODULE LifecyclesProofs --------------------------
(***************************************************************************)
(* The lifecycle of a module; a tenant's rate limiter, its databases, the  *)
(* trail of its permissions and its users; and the rule sets of the        *)
(* protection engine.                                                      *)
(*                                                                         *)
(* For any number of calls, keys and commands and any lock time: two       *)
(* command processes of one module run together only after a lock expired  *)
(* in its owner's hands, a run is succeeded only once its result is in     *)
(* module_state, and while no lock expires a terminal run stays.           *)
(*                                                                         *)
(* CommandsExclude follows from LeaseInRow, and LeaseInRow is inductive    *)
(* once it is known that a call that releases the row has no child left.   *)
(* What the runs say rests on that: with the row in one call's hands no    *)
(* other writes a run, and the call that does has seen it not terminal.    *)
(*                                                                         *)
(* For any number of requests on any nodes, any limit, window and lock:    *)
(* while no request outlasts its lock, whoever works on the entry of hits  *)
(* is alone with it and what still counts is in it (RatesInv), so that no  *)
(* stretch of a window's length sees more let in than the limit.           *)
(*                                                                         *)
(* For any number of goroutines, tenants, migrations and pools: what a     *)
(* call inside the registry's mutex has read is still so when it writes,   *)
(* so that no registration undoes another; and who uses one of the         *)
(* globals is alone with it, as long as no call outside of the mutexes     *)
(* disturbs it, so that what is made for a tenant is made at home          *)
(* (DatabasesInv).                                                         *)
(*                                                                         *)
(* For any number of operators, requests and users: no version is used     *)
(* twice, so that what is found under the newest ones shows what has been  *)
(* shown before (UsersInv).  For any number of calls, sets and patterns:   *)
(* while a row has the version of a form, the one who filled it in still   *)
(* sees what he saw; and who has the mutex of the engine has read nothing  *)
(* older than what is loaded (RulesInv).                                   *)
(***************************************************************************)
EXTENDS MCLifecycles, Sequences, FiniteSetTheorems, TLAPS

\* A call at one of these stages has no child process running.
Childless == {"idle", "preflight", "begin", "start", "launch", "failing",
              "success", "complete", "release"}
NoChildLeft == \A p \in Procs : pc[p] \in Childless => child[p] # "on"

Types ==
  /\ now \in Nat /\ expires \in Nat
  /\ pc \in [Procs -> Stages]
  /\ child \in [Procs -> {"none", "on", "ok", "failed"}]

IInv == Types /\ NoChildLeft /\ LeaseInRow

\* What LeaseInRow says of one call.
Leased(p) == ((pc[p] \in Holding \/ child[p] = "on") /\ p \notin lapsed)
                => holder = p /\ expires > now

\* Nobody holds a lock and no call has started: the invariant holds at first.
LEMMA InitInvariant == Init => IInv
BY LifecycleAssumption DEF Init, IInv, Types, NoChildLeft, LeaseInRow, Childless, Stages, Holding

\* The steps that change neither the row nor the clock: whoever works after
\* one worked before it.
LEMMA RowKept ==
  ASSUME IInv, UNCHANGED <<now, lock, lapsed>>,
         NEW p \in Procs, NEW s \in Stages, NEW c \in {"none", "on", "ok", "failed"},
         pc' = [pc EXCEPT ![p] = s], child' = [child EXCEPT ![p] = c],
         s \in Childless => c # "on",
         s \in Holding => pc[p] \in Holding,
         c = "on" => pc[p] \in Holding \/ child[p] = "on"
  PROVE  IInv'
<1>1. Types'
  BY DEF IInv, Types, lock
<1>2. NoChildLeft'
  BY DEF IInv, Types, NoChildLeft
<1>3. LeaseInRow'
  BY DEF IInv, Types, LeaseInRow, lock
<1> QED BY <1>1, <1>2, <1>3 DEF IInv

\* The step a call takes to another stage, its child left alone.
LEMMA StageKept ==
  ASSUME IInv, UNCHANGED <<now, lock, lapsed, child>>,
         NEW p \in Procs, NEW s \in Stages, Goto(p, s),
         s \in Childless => child[p] # "on",
         s \in Holding => pc[p] \in Holding
  PROVE  IInv'
<1>1. child' = [child EXCEPT ![p] = child[p]] /\ child[p] \in {"none", "on", "ok", "failed"}
  BY DEF IInv, Types
<1> QED BY <1>1, RowKept DEF Goto

\* A renewal of p's row gives it more time.
LEMMA RowRenewed ==
  ASSUME IInv, NEW p \in Procs, Extend(p), UNCHANGED <<now, lapsed, child>>,
         NEW s \in Stages, pc' = [pc EXCEPT ![p] = s],
         s \in Childless => child[p] # "on",
         s \in Holding => pc[p] \in Holding
  PROVE  IInv'
<1>1. Types'
  BY LifecycleAssumption DEF IInv, Types, Extend
<1>2. NoChildLeft'
  BY DEF IInv, Types, NoChildLeft
<1>3. LeaseInRow'
  BY LifecycleAssumption DEF IInv, Types, LeaseInRow, Extend
<1> QED BY <1>1, <1>2, <1>3 DEF IInv

\* Taking the row and giving it back.
LEMMA AcquireReleaseInvariant ==
  ASSUME IInv, NEW p \in Procs
  PROVE  /\ \A k \in Keys : Acquire(p, k) => IInv'
         /\ Release(p) => IInv'
<1>1. ASSUME NEW k \in Keys, Acquire(p, k) PROVE IInv'
  <2>1. Types'
    BY <1>1, LifecycleAssumption DEF Acquire, IInv, Types, Goto, Stages
  <2>2. NoChildLeft'
    BY <1>1 DEF Acquire, IInv, Types, NoChildLeft, Goto, Childless, Stages
  <2>3. LeaseInRow'
    BY <1>1, LifecycleAssumption
    DEF Acquire, CanAcquire, IInv, Types, NoChildLeft, LeaseInRow, Goto, Holding, Stages,
        Childless, history
  <2> QED BY <2>1, <2>2, <2>3 DEF IInv
<1>2. ASSUME Release(p) PROVE IInv'
  <2>1. Types'
    BY <1>2 DEF Release, Drop, IInv, Types, Goto, Stages, lock
  <2>2. NoChildLeft'
    BY <1>2 DEF Release, IInv, Types, NoChildLeft, Goto, Childless, Stages
  <2>3. LeaseInRow'
    BY <1>2, LifecycleAssumption
    DEF Release, Drop, IInv, Types, NoChildLeft, LeaseInRow, Goto, Holding, Stages,
        Childless, lock, history
  <2> QED BY <2>1, <2>2, <2>3 DEF IInv
<1> QED BY <1>1, <1>2

\* The other steps of a call move it from stage to stage.
LEMMA StageInvariant ==
  ASSUME IInv, NEW p \in Procs,
         \/ AcquireFails(p) \/ Preflight(p) \/ PreflightStops(p) \/ BeginRun(p)
         \/ SkipCommand(p) \/ StartFails(p) \/ CancelCommand(p)
         \/ CommandStillRunning(p) \/ FinishFailure(p) \/ FinishLateFailure(p)
         \/ RenewLateFails(p) \/ StateSaved(p) \/ RunSaved(p) \/ Crash(p)
  PROVE  IInv'
<1>0. UNCHANGED <<now, lock, lapsed, child>> /\ pc[p] \in Stages
  BY DEF AcquireFails, Preflight, PreflightStops, BeginRun, SkipCommand, StartFails,
         CancelCommand, CommandStillRunning, FinishFailure, FinishLateFailure,
         RenewLateFails, StateSaved, RunSaved, Crash, history, IInv, Types
<1>1. \E s \in Stages : /\ Goto(p, s)
                        /\ s \in Childless => pc[p] \in Childless
                        /\ s \in Holding => pc[p] \in Holding
  BY DEF AcquireFails, Preflight, PreflightStops, BeginRun, SkipCommand, AfterCommand,
         StartFails, CancelCommand, CommandStillRunning, FinishFailure, FinishLateFailure,
         RenewLateFails, StateSaved, RunSaved, Crash, Goto, Stages, Childless, Holding
<1> QED BY <1>0, <1>1, StageKept DEF IInv, NoChildLeft

\* The steps about its child process.
LEMMA ChildInvariant ==
  ASSUME IInv, NEW p \in Procs,
         \/ Launch(p) \/ ChildEnds(p) \/ CommandDone(p) \/ CommandStopped(p)
         \/ LateCompletion(p)
  PROVE  IInv'
<1>0. UNCHANGED <<now, lock, lapsed>>
  BY DEF Launch, ChildEnds, CommandDone, CommandStopped, LateCompletion, history
<1>1. ASSUME Launch(p) PROVE IInv'
  BY <1>0, <1>1, RowKept DEF Launch, Goto, Stages, Holding, Childless
<1>2. ASSUME ChildEnds(p) PROVE IInv'
  <2>1. PICK c \in {"ok", "failed"} : child' = [child EXCEPT ![p] = c]
    BY <1>2 DEF ChildEnds
  <2>2. pc' = [pc EXCEPT ![p] = pc[p]] /\ pc[p] \in Stages
    BY <1>2 DEF ChildEnds, IInv, Types
  <2> QED BY <1>0, <2>1, <2>2, RowKept
<1>3. ASSUME CommandDone(p) \/ CommandStopped(p) \/ LateCompletion(p) PROVE IInv'
  <2>1. child' = [child EXCEPT ![p] = "none"] /\ pc[p] \in Holding
    BY <1>3 DEF CommandDone, CommandStopped, LateCompletion, Holding, Stages
  <2>2. \E s \in Stages : pc' = [pc EXCEPT ![p] = s]
    BY <1>3 DEF CommandDone, CommandStopped, LateCompletion, AfterCommand, Goto, Stages
  <2> QED BY <1>0, <2>1, <2>2, RowKept
<1> QED BY <1>1, <1>2, <1>3

\* Its renewals of the row.
LEMMA RenewalInvariant ==
  ASSUME IInv, NEW p \in Procs,
         StartCommand(p) \/ Renew(p) \/ RenewFails(p) \/ RenewLate(p)
  PROVE  IInv'
<1>1. ASSUME StartCommand(p) PROVE IInv'
  <2>1. child[p] # "on" /\ Extend(p) /\ UNCHANGED <<now, lapsed, child>>
        /\ pc' = [pc EXCEPT ![p] = "launch"] /\ pc[p] \in Holding
    BY <1>1 DEF StartCommand, Goto, IInv, NoChildLeft, Childless, Holding, Stages, history
  <2> QED BY <2>1, RowRenewed DEF Stages
<1>2. ASSUME Renew(p) \/ RenewLate(p) PROVE IInv'
  <2>1. /\ Extend(p) /\ UNCHANGED <<now, lapsed, child>>
        /\ pc' = [pc EXCEPT ![p] = pc[p]] /\ pc[p] \in Stages \ Childless
    BY <1>2 DEF Renew, RenewLate, local, history, IInv, Types, Stages, Childless
  <2> QED BY <2>1, RowRenewed
<1>3. ASSUME RenewFails(p) PROVE IInv'
  <2>1. UNCHANGED <<now, lock, lapsed, child, pc>>
    BY <1>3 DEF RenewFails, history
  <2> QED BY <2>1 DEF IInv, Types, NoChildLeft, LeaseInRow, lock
<1> QED BY <1>1, <1>2, <1>3

\* An operator's release of a stale row, and time.
LEMMA EnvironmentInvariant ==
  ASSUME IInv, ReadStaleLock \/ ReleaseStaleLock \/ Tick
  PROVE  IInv'
<1>0. UNCHANGED <<pc, child>>
  BY DEF ReadStaleLock, ReleaseStaleLock, Tick, local
<1>1. Types' /\ NoChildLeft'
  BY <1>0 DEF IInv, Types, NoChildLeft, ReadStaleLock, ReleaseStaleLock, Tick, lock
<1>2. ASSUME ReadStaleLock PROVE LeaseInRow'
  BY <1>0, <1>2 DEF ReadStaleLock, IInv, LeaseInRow, lock, history
<1>3. ASSUME ReleaseStaleLock PROVE LeaseInRow'
  BY <1>0, <1>3 DEF ReleaseStaleLock, StillStale, IInv, Types, LeaseInRow, lock, history
<1>4. ASSUME Tick PROVE LeaseInRow'
  <2>1. now' = now + 1 /\ UNCHANGED <<holder, expires>>
    BY <1>4 DEF Tick, lock
  <2>2. lapsed' = IF holder # Free /\ expires <= now + 1 THEN lapsed \union {holder}
                                                         ELSE lapsed
    BY <1>4 DEF Tick
  <2> QED BY <1>0, <2>1, <2>2, LifecycleAssumption DEF IInv, Types, LeaseInRow
<1> QED BY <1>1, <1>2, <1>3, <1>4 DEF IInv

\* Every step keeps the invariant.
LEMMA NextInvariant == IInv /\ [Next]_vars => IInv'
<1> SUFFICES ASSUME IInv, [Next]_vars PROVE IInv'
  OBVIOUS
<1>1. CASE UNCHANGED vars
  BY <1>1 DEF vars, lock, local, history, IInv, Types, NoChildLeft, LeaseInRow
<1>2. CASE Next
  BY <1>2, AcquireReleaseInvariant, StageInvariant, ChildInvariant, RenewalInvariant,
     EnvironmentInvariant DEF Next
<1> QED BY <1>1, <1>2

\* The lock a call works under is in the row and lasts until it expired in the
\* call's hands: Acquire, Renew, Release, the late watcher and
\* ReleaseStaleLocks never take a lock that lasts.
THEOREM LocksLast == Spec => []LeaseInRow
<1>1. IInv => LeaseInRow
  BY DEF IInv
<1> QED BY <1>1, InitInvariant, NextInvariant, PTL DEF Spec

\* Command processes of one module exclude each other while no lock expired,
\* through cancelled requests, late children, crashes and operators.
THEOREM CommandsApart == Spec => []CommandsExclude
<1>1. IInv => CommandsExclude
  BY DEF IInv, LeaseInRow, CommandsExclude
<1> QED BY <1>1, InitInvariant, NextInvariant, PTL DEF Spec

\* Both together: the row of the lock guards the commands.
THEOREM LockGuards == Spec => []LockGuardsCommands
<1>1. LeaseInRow /\ CommandsExclude => LockGuardsCommands
  BY DEF LockGuardsCommands
<1> QED BY <1>1, LocksLast, CommandsApart, PTL

-----------------------------------------------------------------------------
(* What the runs say. *)

\* The stages past the preflight of a call that has not yet recorded its result.
Working == {"begin", "start", "launch", "running", "grace", "failing", "latefailing",
            "success", "complete"}
Statuses == {"none", "running", "failed"} \union Terminal

RunTypes ==
  /\ run \in [Keys -> Statuses]
  /\ key \in [Procs -> Keys \union {NoKey}]
  /\ \A p \in Procs : pc[p] \in Holding => key[p] \in Keys

StatedFirst == \A p \in Procs : pc[p] = "complete" => key[p] \in stated

\* What a call works on is not terminal; the watcher of a late child may have written
\* that it needs reconciliation.
Unsettled ==
  \A p \in Procs : lapsed = {} =>
     /\ pc[p] \in Working => run[key[p]] \notin Terminal
     /\ pc[p] = "watching" => run[key[p]] # "succeeded"

RunInv == RunTypes /\ StatedFirst /\ SucceededIsStated /\ Unsettled

\* Two calls use the lock together only after it expired on one of them.
LEMMA OneAtATime ==
  ASSUME IInv, lapsed = {}, NEW p \in Procs, NEW q \in Procs,
         pc[p] \in Holding, pc[q] \in Holding
  PROVE  p = q
BY DEF IInv, LeaseInRow

\* A call goes from stage to stage and writes no run.
LEMMA RunKept ==
  ASSUME IInv, RunInv, UNCHANGED <<run, key>>, stated \subseteq stated', lapsed \subseteq lapsed',
         NEW p \in Procs, NEW s \in Stages, pc' = [pc EXCEPT ![p] = s],
         s \in Holding => pc[p] \in Holding,
         s = "complete" => key[p] \in stated',
         s \in Working => pc[p] \in Working \/ run[key[p]] \notin Terminal,
         s = "watching" => pc[p] = "watching"
  PROVE  RunInv'
<1>1. pc \in [Procs -> Stages]
  BY DEF IInv, Types
<1>2. RunTypes'
  BY <1>1 DEF RunInv, RunTypes
<1>3. StatedFirst'
  BY <1>1 DEF RunInv, StatedFirst
<1>4. SucceededIsStated'
  BY DEF RunInv, SucceededIsStated
<1>5. Unsettled'
  BY <1>1 DEF RunInv, Unsettled
<1> QED BY <1>2, <1>3, <1>4, <1>5 DEF RunInv

\* A call writes the run it has the lock for, so that no other call works on it
\* unless a lock expired.
LEMMA RunWritten ==
  ASSUME IInv, RunInv, UNCHANGED <<key, stated, lapsed>>,
         NEW p \in Procs, NEW s \in Stages, pc' = [pc EXCEPT ![p] = s], pc[p] \in Holding,
         NEW v \in Statuses, run' = [run EXCEPT ![key[p]] = v],
         v = "succeeded" => key[p] \in stated,
         s # "complete",
         s \in Working => v \notin Terminal,
         s = "watching" => v # "succeeded"
  PROVE  RunInv'
<1>1. pc \in [Procs -> Stages] /\ key[p] \in Keys /\ run \in [Keys -> Statuses]
  BY DEF IInv, Types, RunInv, RunTypes
<1>2. RunTypes'
  BY <1>1 DEF RunInv, RunTypes
<1>3. StatedFirst'
  BY <1>1 DEF RunInv, StatedFirst
<1>4. SucceededIsStated'
  BY <1>1 DEF RunInv, SucceededIsStated
<1>5. Unsettled'
  <2> SUFFICES ASSUME NEW q \in Procs, lapsed = {}
               PROVE  /\ pc'[q] \in Working => run'[key[q]] \notin Terminal
                      /\ pc'[q] = "watching" => run'[key[q]] # "succeeded"
    BY DEF Unsettled
  <2>1. CASE q = p
    BY <1>1, <2>1
  <2>2. CASE q # p
    <3>1. pc[q] \notin Holding
      BY <2>2, OneAtATime
    <3>2. pc'[q] = pc[q]
      BY <1>1, <2>2
    <3> QED BY <3>1, <3>2 DEF Working, Holding, Stages
  <2> QED BY <2>1, <2>2
<1> QED BY <1>2, <1>3, <1>4, <1>5 DEF RunInv

\* The steps of a call that write no run.
LEMMA RunKeptStep ==
  ASSUME IInv, RunInv, NEW p \in Procs,
         \/ AcquireFails(p) \/ Release(p) \/ Preflight(p) \/ PreflightStops(p)
         \/ SkipCommand(p) \/ StartCommand(p) \/ StartFails(p) \/ Launch(p)
         \/ Renew(p) \/ RenewFails(p) \/ ChildEnds(p)
         \/ CommandDone(p) \/ CancelCommand(p) \/ CommandStopped(p) \/ CommandStillRunning(p)
         \/ RenewLate(p) \/ StateSaved(p) \/ Crash(p)
  PROVE  RunInv' /\ run' = run
<1>1. UNCHANGED <<run, key, lapsed>> /\ stated \subseteq stated'
  BY DEF AcquireFails, Release, Preflight, PreflightStops, SkipCommand, StartCommand,
         StartFails, Launch, Renew, RenewFails, ChildEnds, CommandDone, CancelCommand,
         CommandStopped, CommandStillRunning, RenewLate, StateSaved, Crash, history, local
<1>2. pc \in [Procs -> Stages] /\ pc[p] \in Stages
  BY DEF IInv, Types
<1>3. ASSUME Renew(p) \/ RenewFails(p) \/ ChildEnds(p) \/ RenewLate(p) PROVE RunInv'
  <2>1. pc' = [pc EXCEPT ![p] = pc[p]]
    BY <1>2, <1>3 DEF Renew, RenewFails, ChildEnds, RenewLate, local
  <2>2. pc[p] = "complete" => key[p] \in stated
    BY DEF RunInv, StatedFirst
  <2> QED BY <1>1, <1>2, <2>1, <2>2, RunKept
<1>4. ASSUME AcquireFails(p) \/ Release(p) \/ PreflightStops(p) \/ Crash(p) PROVE RunInv'
  <2>1. \E s \in {"done", "release", "dead"} :
          pc' = [pc EXCEPT ![p] = s] /\ (s \in Holding => pc[p] \in Holding)
    BY <1>4 DEF AcquireFails, Release, PreflightStops, Crash, Goto, Holding, Stages
  <2> QED BY <1>1, <2>1, RunKept DEF Stages, Working
<1>5. ASSUME Preflight(p) PROVE RunInv'
  BY <1>1, <1>5, RunKept DEF Preflight, Goto, Stages, Holding
<1>6. ASSUME StateSaved(p) PROVE RunInv'
  <2>1. CASE stated' = stated \union {key[p]} /\ Goto(p, "complete")
    BY <1>1, <1>6, <2>1, RunKept DEF StateSaved, Goto, Stages, Holding, Working
  <2>2. CASE Goto(p, "failing")
    BY <1>1, <1>6, <2>2, RunKept DEF StateSaved, Goto, Stages, Holding, Working
  <2> QED BY <1>6, <2>1, <2>2 DEF StateSaved
<1>7. ASSUME \/ SkipCommand(p) \/ StartCommand(p) \/ StartFails(p) \/ Launch(p)
             \/ CommandDone(p) \/ CancelCommand(p) \/ CommandStopped(p) \/ CommandStillRunning(p)
      PROVE RunInv'
  <2>1. pc[p] \in {"start", "launch", "running", "grace"}
    BY <1>7 DEF SkipCommand, StartCommand, StartFails, Launch, CommandDone, CancelCommand,
                CommandStopped, CommandStillRunning
  <2>2. \E s \in {"start", "success", "launch", "failing", "running", "grace", "latefailing"} :
          pc' = [pc EXCEPT ![p] = s]
    BY <1>7 DEF SkipCommand, StartCommand, StartFails, Launch, CommandDone, CancelCommand,
                CommandStopped, CommandStillRunning, AfterCommand, Goto
  <2> QED BY <1>1, <2>1, <2>2, RunKept DEF Stages, Holding, Working
<1> QED BY <1>1, <1>3, <1>4, <1>5, <1>6, <1>7

\* The steps that may write the run of the call. None changes a terminal run while
\* no lock has expired.
Kept(k) == (lapsed' = {} /\ run[k] \in Terminal) => run'[k] = run[k]

LEMMA RunWrittenStep ==
  ASSUME IInv, RunInv, NEW p \in Procs,
         \/ BeginRun(p) \/ FinishFailure(p) \/ FinishLateFailure(p)
         \/ RenewLateFails(p) \/ LateCompletion(p) \/ RunSaved(p)
  PROVE  RunInv' /\ \A k \in Keys : Kept(k)
<1>1. UNCHANGED <<key, stated, lapsed>>
  BY DEF BeginRun, FinishFailure, FinishLateFailure, RenewLateFails, LateCompletion, RunSaved, history
<1>2. pc[p] \in Holding /\ key[p] \in Keys /\ run \in [Keys -> Statuses]
  BY DEF BeginRun, FinishFailure, FinishLateFailure, RenewLateFails, LateCompletion, RunSaved,
         Holding, Stages, RunInv, RunTypes
<1>3. \/ /\ run' = run
         /\ \E s \in {"start", "failing", "release", "watching", "done"} :
              /\ pc' = [pc EXCEPT ![p] = s]
              /\ s \in Working => pc[p] \in Working
              /\ s = "watching" => pc[p] \in {"latefailing", "watching"}
      \/ \E v \in Statuses, s \in {"start", "failing", "release", "watching", "done"} :
           /\ run' = [run EXCEPT ![key[p]] = v] /\ pc' = [pc EXCEPT ![p] = s]
           /\ v = "succeeded" => pc[p] = "complete"
           /\ s \in Working => v \notin Terminal
           /\ s = "watching" => v # "succeeded"
           /\ pc[p] \in Working \/ (pc[p] = "watching" /\ v = "reconciliation_required")
  <2>1. CASE BeginRun(p)
    BY <2>1 DEF BeginRun, Goto, Working, Statuses, Terminal
  <2>2. CASE FinishFailure(p)
    BY <2>2 DEF FinishFailure, Complete, Goto, Working, Statuses, Terminal
  <2>3. CASE FinishLateFailure(p)
    BY <2>3 DEF FinishLateFailure, Complete, Goto, Working, Statuses, Terminal
  <2>4. CASE RenewLateFails(p)
    BY <2>4 DEF RenewLateFails, Complete, Goto, Working, Statuses, Terminal
  <2>5. CASE LateCompletion(p)
    BY <2>5 DEF LateCompletion, Complete, Goto, Working, Statuses, Terminal
  <2>6. CASE RunSaved(p)
    BY <2>6 DEF RunSaved, Complete, Goto, Working, Statuses, Terminal
  <2> QED BY <2>1, <2>2, <2>3, <2>4, <2>5, <2>6
<1>4. CASE run' = run /\ \E s \in {"start", "failing", "release", "watching", "done"} :
              /\ pc' = [pc EXCEPT ![p] = s]
              /\ s \in Working => pc[p] \in Working
              /\ s = "watching" => pc[p] \in {"latefailing", "watching"}
  <2>1. PICK s \in {"start", "failing", "release", "watching", "done"} :
              /\ pc' = [pc EXCEPT ![p] = s]
              /\ s \in Working => pc[p] \in Working
              /\ s = "watching" => pc[p] \in {"latefailing", "watching"}
    BY <1>4
  <2>2. CASE s # "watching" \/ pc[p] = "watching"
    <3>1. s \in Stages /\ s # "complete"
      BY DEF Stages
    <3>2. UNCHANGED <<run, key>> /\ stated \subseteq stated' /\ lapsed \subseteq lapsed'
      BY <1>1, <1>4
    <3>3. RunInv'
      BY <1>2, <2>1, <2>2, <3>1, <3>2, RunKept
    <3> QED BY <1>4, <3>3 DEF Kept
  <2>3. CASE s = "watching" /\ pc[p] = "latefailing"
    <3>1. run' = [run EXCEPT ![key[p]] = run[key[p]]] /\ run[key[p]] \in Statuses
      BY <1>2, <1>4
    <3>2. run[key[p]] = "succeeded" => lapsed # {} /\ key[p] \in stated
      BY <1>2, <2>3 DEF RunInv, Unsettled, SucceededIsStated, Working, Terminal
    <3>3. pc \in [Procs -> Stages]
      BY DEF IInv, Types
    <3>4. RunTypes' /\ StatedFirst' /\ SucceededIsStated'
      BY <1>1, <1>2, <1>4, <2>1, <2>3, <3>3
      DEF RunInv, RunTypes, StatedFirst, SucceededIsStated
    <3>5. Unsettled'
      BY <1>1, <1>4, <2>1, <2>3, <3>2, <3>3 DEF RunInv, Unsettled, Working
    <3> QED BY <1>4, <3>4, <3>5 DEF RunInv, Kept
  <2> QED BY <2>1, <2>2, <2>3
<1>5. ASSUME NEW v \in Statuses, NEW s \in {"start", "failing", "release", "watching", "done"},
             run' = [run EXCEPT ![key[p]] = v], pc' = [pc EXCEPT ![p] = s],
             v = "succeeded" => pc[p] = "complete",
             s \in Working => v \notin Terminal,
             s = "watching" => v # "succeeded",
             pc[p] \in Working \/ (pc[p] = "watching" /\ v = "reconciliation_required")
      PROVE  RunInv' /\ \A k \in Keys : Kept(k)
  <2>1. v = "succeeded" => key[p] \in stated
    BY <1>5 DEF RunInv, StatedFirst
  <2>2. RunInv'
    <3>1. s \in Stages /\ s # "complete"
      BY DEF Stages
    <3> QED BY <1>1, <1>2, <1>5, <2>1, <3>1, RunWritten
  <2>3. ASSUME NEW k \in Keys PROVE Kept(k)
    <3>1. k # key[p] => run'[k] = run[k]
      BY <1>2, <1>5
    <3>2. run'[key[p]] = v
      BY <1>2, <1>5
    <3>3. lapsed = {} => (run[key[p]] \in Terminal => run[key[p]] = v)
      BY <1>5 DEF RunInv, Unsettled, Terminal, Working
    <3> QED BY <1>1, <3>1, <3>2, <3>3 DEF Kept
  <2> QED BY <2>2, <2>3
<1> QED BY <1>3, <1>4, <1>5

\* A call begins.
LEMMA RunAcquired ==
  ASSUME IInv, RunInv, NEW p \in Procs, NEW k \in Keys, Acquire(p, k)
  PROVE  RunInv' /\ run' = run
<1>1. pc \in [Procs -> Stages] /\ pc[p] = "idle"
  BY DEF IInv, Types, Acquire
<1>2. /\ UNCHANGED <<run, stated, lapsed>> /\ key' = [key EXCEPT ![p] = k]
      /\ pc' = [pc EXCEPT ![p] = "preflight"]
  BY DEF Acquire, history, Goto
<1>3. RunTypes'
  BY <1>1, <1>2 DEF RunInv, RunTypes
<1>4. StatedFirst' /\ SucceededIsStated' /\ Unsettled'
  BY <1>1, <1>2 DEF RunInv, RunTypes, StatedFirst, SucceededIsStated, Unsettled, Working
<1> QED BY <1>2, <1>3, <1>4 DEF RunInv

LEMMA RunStep ==
  ASSUME IInv, RunInv, [Next]_vars
  PROVE  RunInv' /\ \A k \in Keys : Kept(k)
<1>1. ASSUME \/ UNCHANGED vars \/ ReadStaleLock \/ ReleaseStaleLock \/ Tick
      PROVE  RunInv' /\ run' = run
  <2>1. UNCHANGED <<run, key, pc, stated>> /\ lapsed \subseteq lapsed'
    BY <1>1 DEF vars, ReadStaleLock, ReleaseStaleLock, Tick, local, history
  <2> QED BY <2>1 DEF RunInv, RunTypes, StatedFirst, SucceededIsStated, Unsettled
<1> QED BY <1>1, RunAcquired, RunKeptStep, RunWrittenStep DEF Next, Kept

LEMMA RunFirst == Init => RunInv
BY DEF Init, RunInv, RunTypes, StatedFirst, SucceededIsStated, Unsettled, Statuses, Terminal,
       Working, Holding, Stages

\* A succeeded run has its result in module_state, whichever calls crashed, failed or were
\* overtaken: finishSuccess writes the state before the run, and nothing else succeeds.
THEOREM SucceededStated == Spec => []SucceededIsStated
<1>1. RunInv => SucceededIsStated
  BY DEF RunInv
<1> QED BY <1>1, InitInvariant, NextInvariant, RunFirst, RunStep, PTL DEF Spec

\* A run that succeeded or needs reconciliation stays that while no lock has expired in
\* anyone's hands.
THEOREM TerminalLasts == Spec => TerminalStays
<1>1. IInv /\ RunInv /\ [Next]_vars =>
        [\A k \in Keys : (lapsed' = {} /\ run[k] \in Terminal) => run'[k] = run[k]]_vars
  BY RunStep DEF Kept
<1> QED BY <1>1, InitInvariant, NextInvariant, RunFirst, RunStep, PTL DEF Spec, TerminalStays

-----------------------------------------------------------------------------
(* The rate limiter of a tenant. *)

\* The hits of a window's length from m on, among those let in or in the entry.
From(m) == {h \in admitted \union hits : m <= h[2] /\ h[2] < m + Window}

RatesTyped ==
  /\ moment \in Nat /\ rateLock \in 0..LockTtl /\ late \in BOOLEAN
  /\ at \in [Requests -> {"new", "read", "put", "release", "in", "over", "out", "failed"}]
  /\ time \in [Requests -> Nat] /\ held \in [Requests -> 0..LockTtl]
  /\ admitted \subseteq Requests \X Nat /\ hits \subseteq Requests \X Nat
  /\ seen \in [Requests -> SUBSET (Requests \X Nat)]
  /\ \A r \in Requests : time[r] <= moment
  /\ \A r \in Requests : IsFiniteSet(seen[r])
  /\ IsFiniteSet(admitted) /\ IsFiniteSet(hits)

\* Whoever is at work has the lock, and is alone.
Alone ==
  \A r \in Requests : at[r] \in R!Working =>
    /\ held[r] = rateLock /\ rateLock > 0
    /\ \A q \in Requests : at[q] \in R!Working => q = r

\* What was let in is in the entry as long as it counts at the moment t.
Remembered(t) == \A h \in admitted : h \in hits \/ h[2] + Window <= t

\* A request that is about to write its hit has seen all that count for it.
PutFits ==
  \A r \in Requests : at[r] = "put" =>
    /\ seen[r] = R!Recent(hits, time[r]) /\ Remembered(time[r])
    /\ Cardinality(seen[r]) < Limit

HitWritten == \A r \in Requests : at[r] = "release" => <<r, time[r]>> \in hits

WithinLimit == \A m \in Nat : Cardinality(From(m)) <= Limit

InTime == Alone /\ Remembered(moment) /\ PutFits /\ HitWritten /\ WithinLimit
RatesInv == RatesTyped /\ (~late => InTime)

LEMMA SameRateCounts == ASSUME NEW S PROVE R!Cardinality(S) = Cardinality(S)
  BY DEF R!Cardinality, Cardinality

LEMMA RateNumbers ==
  ASSUME R!RatesAssumption
  PROVE  /\ Limit \in Nat /\ Limit > 0 /\ Window \in Nat /\ Window > 0
         /\ LockTtl \in Nat /\ LockTtl > 0 /\ MaxTime \in Nat
BY DEF R!RatesAssumption

LEMMA RatesInitially ==
  ASSUME R!RatesAssumption, R!Init PROVE RatesInv
<1>1. RatesTyped
  <2>1. rateLock \in 0..LockTtl /\ held \in [Requests -> 0..LockTtl]
    BY RateNumbers DEF R!Init
  <2>2. IsFiniteSet({})
    BY FS_EmptySet
  <2>3. \A r \in Requests : IsFiniteSet(seen[r])
    BY <2>2 DEF R!Init
  <2>4. IsFiniteSet(admitted) /\ IsFiniteSet(hits)
    BY <2>2 DEF R!Init
  <2>5. at \in [Requests -> {"new", "read", "put", "release", "in", "over", "out", "failed"}]
    BY DEF R!Init
  <2>6. seen \in [Requests -> SUBSET (Requests \X Nat)]
    BY DEF R!Init
  <2>7. time \in [Requests -> Nat] /\ moment \in Nat /\ \A r \in Requests : time[r] <= moment
    BY DEF R!Init
  <2>8. admitted \subseteq Requests \X Nat /\ hits \subseteq Requests \X Nat /\ late \in BOOLEAN
    BY DEF R!Init
  <2> QED BY <2>1, <2>3, <2>4, <2>5, <2>6, <2>7, <2>8 DEF RatesTyped
<1>2. Alone /\ PutFits /\ HitWritten /\ Remembered(moment)
  BY DEF R!Init, Alone, PutFits, HitWritten, Remembered, R!Working
<1>3. WithinLimit
  <2>1. \A m \in Nat : From(m) = {}
    BY DEF R!Init, From
  <2> QED BY <2>1, FS_EmptySet DEF WithinLimit, R!RatesAssumption
<1> QED BY <1>1, <1>2, <1>3 DEF RatesInv, InTime

LEMMA BlockKeeps ==
  ASSUME R!RatesAssumption, RatesInv, NEW r \in Requests, R!Block(r)
  PROVE  RatesInv'
<1>1. RatesTyped'
  BY DEF RatesInv, RatesTyped, R!Block, R!LockFree, R!RatesAssumption
<1>2. ASSUME ~late PROVE InTime'
  <2>1. Alone' 
    BY <1>2 DEF RatesInv, RatesTyped, InTime, Alone, R!Block, R!LockFree, R!Working, R!RatesAssumption
  <2>2. Remembered(moment)' /\ WithinLimit'
    BY <1>2 DEF RatesInv, InTime, Remembered, WithinLimit, From, R!Block
  <2>3. PutFits' /\ HitWritten'
    BY <1>2 DEF RatesInv, RatesTyped, InTime, PutFits, HitWritten, Remembered, R!Recent, R!Block
  <2> QED BY <2>1, <2>2, <2>3 DEF InTime
<1> QED BY <1>1, <1>2 DEF RatesInv, R!Block

LEMMA ReadHitsKeeps ==
  ASSUME R!RatesAssumption, RatesInv, NEW r \in Requests, R!ReadHits(r)
  PROVE  RatesInv'
<1>1. RatesTyped'
  <2>1. IsFiniteSet(R!Recent(hits, moment)) /\ R!Recent(hits, moment) \subseteq hits
    BY FS_Subset DEF RatesInv, RatesTyped, R!Recent
  <2> QED BY <2>1 DEF RatesInv, RatesTyped, R!ReadHits
<1>2. ASSUME ~late PROVE InTime'
  <2>1. Alone'
    BY <1>2 DEF RatesInv, RatesTyped, InTime, Alone, R!ReadHits, R!Working
  <2>2. Remembered(moment)' /\ WithinLimit'
    BY <1>2 DEF RatesInv, InTime, Remembered, WithinLimit, From, R!ReadHits
  <2>3. PutFits'
    <3>1. SUFFICES ASSUME NEW q \in Requests, at'[q] = "put"
                   PROVE  /\ seen'[q] = R!Recent(hits, time'[q]) /\ Remembered(time'[q])
                          /\ Cardinality(seen'[q]) < Limit
      BY DEF PutFits, Remembered, R!ReadHits, R!Recent
    <3>2. q = r
      BY <1>2, <3>1 DEF RatesInv, RatesTyped, InTime, Alone, R!ReadHits, R!Working
    <3>3. /\ time' = [time EXCEPT ![r] = moment] /\ seen' = [seen EXCEPT ![r] = R!Recent(hits, moment)]
          /\ ~(R!Cardinality(R!Recent(hits, moment)) >= Limit)
      BY <3>1, <3>2 DEF RatesInv, RatesTyped, R!ReadHits
    <3>4. IsFiniteSet(R!Recent(hits, moment))
      BY FS_Subset DEF RatesInv, RatesTyped, R!Recent
    <3>5. Cardinality(R!Recent(hits, moment)) < Limit
      BY <3>3, <3>4, FS_CardinalityType, SameRateCounts DEF R!RatesAssumption
    <3>6. Remembered(moment)
      BY <1>2 DEF RatesInv, InTime
    <3>7. time'[q] = moment /\ seen'[q] = R!Recent(hits, moment)
      BY <3>2, <3>3, <3>5, SameRateCounts DEF RatesInv, RatesTyped, R!ReadHits
    <3> QED BY <3>5, <3>6, <3>7
  <2>4. HitWritten'
    BY <1>2 DEF RatesInv, RatesTyped, InTime, HitWritten, R!ReadHits
  <2> QED BY <2>1, <2>2, <2>3, <2>4 DEF InTime
<1> QED BY <1>1, <1>2 DEF RatesInv, R!ReadHits

LEMMA PutHitsKeeps ==
  ASSUME R!RatesAssumption, RatesInv, NEW r \in Requests, R!PutHits(r)
  PROVE  RatesInv'
<1> DEFINE hit == <<r, time[r]>>
<1>1. RatesTyped'
  <2>1. IsFiniteSet(seen[r] \union {hit}) /\ hit \in Requests \X Nat
    BY FS_AddElement DEF RatesInv, RatesTyped
  <2> QED BY <2>1, FS_EmptySet DEF RatesInv, RatesTyped, R!PutHits
<1>2. ASSUME ~late PROVE InTime'
  <2>1. Alone' /\ \A q \in Requests : at'[q] \in R!Working => q = r
    BY <1>2 DEF RatesInv, RatesTyped, InTime, Alone, R!PutHits, R!Working
  <2>2. PutFits'
    BY <2>1 DEF RatesInv, RatesTyped, PutFits, R!PutHits, R!Working
  <2>3. CASE hits' = hits
    <3>1. Remembered(moment)' /\ WithinLimit'
      BY <1>2, <2>3 DEF RatesInv, InTime, Remembered, WithinLimit, From, R!PutHits
    <3>2. HitWritten'
      BY <1>2, <2>1, <2>3 DEF RatesInv, RatesTyped, InTime, HitWritten, R!PutHits, R!Working
    <3> QED BY <2>1, <2>2, <3>1, <3>2 DEF InTime
  <2>4. CASE hits' = seen[r] \union {hit}
    <3>1. /\ seen[r] = R!Recent(hits, time[r]) /\ Remembered(time[r])
          /\ Cardinality(seen[r]) < Limit /\ time[r] \in Nat /\ time[r] <= moment
      BY <1>2 DEF RatesInv, RatesTyped, InTime, PutFits, R!PutHits
    <3>2. Remembered(moment)'
      BY <2>4, <3>1 DEF RatesInv, RatesTyped, Remembered, R!PutHits, R!Recent, R!RatesAssumption
    <3>3. HitWritten'
      BY <1>2, <2>1, <2>4 DEF RatesInv, RatesTyped, InTime, HitWritten, R!PutHits, R!Working
    <3>4. WithinLimit'
      <4> SUFFICES ASSUME NEW m \in Nat PROVE Cardinality(From(m)') <= Limit
        BY DEF WithinLimit
      <4>1. CASE m <= time[r] /\ time[r] < m + Window
        <5>1. From(m)' \subseteq seen[r] \union {hit}
          BY <2>4, <3>1, <4>1
             DEF RatesInv, RatesTyped, From, Remembered, R!PutHits, R!Recent, R!RatesAssumption
        <5>2. IsFiniteSet(seen[r]) /\ Cardinality(seen[r] \union {hit}) <= Cardinality(seen[r]) + 1
          <6>1. IsFiniteSet(seen[r])
            BY DEF RatesInv, RatesTyped
          <6>2. Cardinality(seen[r]) \in Nat
            BY <6>1, FS_CardinalityType
          <6>3. Cardinality(seen[r] \union {hit}) \in {Cardinality(seen[r]), Cardinality(seen[r]) + 1}
            BY <6>1, FS_AddElement
          <6> QED BY <6>1, <6>2, <6>3
        <5>3. IsFiniteSet(seen[r] \union {hit})
          BY <5>2, FS_AddElement
        <5>4. /\ Cardinality(From(m)') <= Cardinality(seen[r] \union {hit})
              /\ Cardinality(From(m)') \in Nat
          BY <5>1, <5>3, FS_Subset, FS_CardinalityType
        <5> QED BY <3>1, <5>2, <5>3, <5>4, FS_CardinalityType DEF R!RatesAssumption
      <4>2. CASE ~(m <= time[r] /\ time[r] < m + Window)
        <5>1. From(m)' \subseteq From(m)
          BY <2>4, <3>1, <4>2 DEF From, R!PutHits, R!Recent
        <5>2. IsFiniteSet(From(m))
          BY FS_Subset, FS_Union DEF RatesInv, RatesTyped, From
        <5>3. Cardinality(From(m)') <= Cardinality(From(m)) /\ Cardinality(From(m)) <= Limit
          BY <1>2, <5>1, <5>2, FS_Subset DEF RatesInv, InTime, WithinLimit
        <5>4. Cardinality(From(m)') \in Nat /\ Cardinality(From(m)) \in Nat
          BY <5>1, <5>2, FS_Subset, FS_CardinalityType
        <5> QED BY <5>3, <5>4 DEF R!RatesAssumption
      <4> QED BY <4>1, <4>2
    <3> QED BY <2>1, <2>2, <3>2, <3>3, <3>4 DEF InTime
  <2> QED BY <2>3, <2>4 DEF R!PutHits
<1> QED BY <1>1, <1>2 DEF RatesInv, R!PutHits

LEMMA ReleaseKeeps ==
  ASSUME R!RatesAssumption, RatesInv, NEW r \in Requests, R!Release(r)
  PROVE  RatesInv'
<1> DEFINE hit == <<r, time[r]>>
<1>1. RatesTyped'
  <2>1. IsFiniteSet(admitted \union {hit}) /\ hit \in Requests \X Nat
    BY FS_AddElement DEF RatesInv, RatesTyped
  <2>2. rateLock' \in 0..LockTtl /\ held' \in [Requests -> 0..LockTtl]
    BY RateNumbers DEF RatesInv, RatesTyped, R!Release
  <2> QED BY <2>1, <2>2 DEF RatesInv, RatesTyped, R!Release
<1>2. ASSUME ~late PROVE InTime'
  <2>1. \A q \in Requests : at'[q] \notin R!Working
    BY <1>2 DEF RatesInv, RatesTyped, InTime, Alone, R!Release, R!Working
  <2>2. Alone' /\ PutFits' /\ HitWritten'
    BY <2>1 DEF Alone, PutFits, HitWritten, R!Working
  <2>3. admitted' \subseteq admitted \union hits /\ admitted \subseteq admitted' /\ hits' = hits
    BY <1>2 DEF RatesInv, InTime, HitWritten, R!Release
  <2>4. Remembered(moment)'
    BY <1>2, <2>3 DEF RatesInv, InTime, Remembered, R!Release
  <2>5. \A m \in Nat : From(m)' = From(m)
    BY <2>3 DEF From
  <2>6. WithinLimit'
    BY <1>2, <2>5 DEF RatesInv, InTime, WithinLimit
  <2> QED BY <2>2, <2>4, <2>6 DEF InTime
<1> QED BY <1>1, <1>2 DEF RatesInv, R!Release

LEMMA CrashKeeps ==
  ASSUME R!RatesAssumption, RatesInv, NEW r \in Requests, R!Crash(r)
  PROVE  RatesInv'
<1>1. RatesTyped'
  BY FS_EmptySet DEF RatesInv, RatesTyped, R!Crash, R!RatesAssumption
<1>2. ASSUME ~late PROVE InTime'
  <2>1. \A q \in Requests : at'[q] \notin R!Working
    BY <1>2 DEF RatesInv, RatesTyped, InTime, Alone, R!Crash, R!Working
  <2>2. Alone' /\ PutFits' /\ HitWritten'
    BY <2>1 DEF Alone, PutFits, HitWritten, R!Working
  <2>3. Remembered(moment)' /\ WithinLimit'
    BY <1>2 DEF RatesInv, InTime, Remembered, WithinLimit, From, R!Crash
  <2> QED BY <2>2, <2>3 DEF InTime
<1> QED BY <1>1, <1>2 DEF RatesInv, R!Crash

LEMMA RateTickKeeps ==
  ASSUME R!RatesAssumption, RatesInv, R!Tick PROVE RatesInv'
<1> DEFINE Less(n) == IF n = 0 THEN 0 ELSE n - 1
<1>1. /\ moment' = moment + 1 /\ rateLock' = Less(rateLock)
      /\ held' = [r \in Requests |-> Less(held[r])]
      /\ late' = (late \/ \E r \in Requests : at[r] \in R!Working /\ held[r] = 1)
      /\ UNCHANGED <<hits, at, time, seen, admitted>>
  BY DEF R!Tick
<1>2. RatesTyped'
  BY <1>1 DEF RatesInv, RatesTyped, R!RatesAssumption
<1>3. ASSUME ~late' PROVE InTime'
  <2>1. ~late /\ InTime
    BY <1>1, <1>3 DEF RatesInv, RatesTyped
  <2>2. Alone'
    <3> SUFFICES ASSUME NEW r \in Requests, at[r] \in R!Working
                 PROVE  /\ held'[r] = rateLock' /\ rateLock' > 0
                        /\ \A q \in Requests : at[q] \in R!Working => q = r
      BY <1>1 DEF Alone, R!Working
    <3>1. held[r] = rateLock /\ rateLock > 0 /\ rateLock \in Nat
      BY <2>1, RateNumbers DEF InTime, Alone, RatesInv, RatesTyped
    <3>3. held[r] # 1
      BY <1>1, <1>3
    <3>2. held'[r] = held[r] - 1 /\ rateLock' = rateLock - 1
      BY <1>1, <3>1
    <3> QED BY <2>1, <3>3, <3>1, <3>2 DEF InTime, Alone
  <2>3. Remembered(moment)'
    BY <1>1, <2>1 DEF InTime, Remembered, RatesInv, RatesTyped, R!RatesAssumption
  <2>4. PutFits' /\ HitWritten' /\ WithinLimit'
    BY <1>1, <2>1 DEF InTime, PutFits, HitWritten, WithinLimit, From, Remembered, R!Recent
  <2> QED BY <2>2, <2>3, <2>4 DEF InTime
<1> QED BY <1>2, <1>3 DEF RatesInv

LEMMA RatesStep ==
  ASSUME R!RatesAssumption PROVE RatesInv /\ [R!Next]_R!vars => RatesInv'
<1>1. ASSUME RatesInv, UNCHANGED R!vars PROVE RatesInv'
  BY <1>1 DEF RatesInv, RatesTyped, InTime, Alone, Remembered, PutFits, HitWritten, WithinLimit,
              From, R!Recent, R!Working, R!vars
<1>2. ASSUME RatesInv, R!Next PROVE RatesInv'
  BY <1>2, BlockKeeps, ReadHitsKeeps, PutHitsKeeps, ReleaseKeeps, CrashKeeps, RateTickKeeps
     DEF R!Next
<1> QED BY <1>1, <1>2

\* No stretch of a window's length sees more requests let in than the limit, unless
\* one of them outlasted its lock, for any number of requests on any nodes, any limit,
\* window and lock, and through failures and crashes (RateLimiter.Allow).
THEOREM LimitKept == R!Spec => []LimitHolds
<1>1. RatesInv => LimitHolds
  <2> SUFFICES ASSUME RatesInv, ~late, NEW m \in R!Moments
               PROVE  R!Cardinality({h \in admitted : m <= h[2] /\ h[2] < m + Window}) <= Limit
    BY DEF LimitHolds, R!LimitHolds
  <2> DEFINE S == {h \in admitted : m <= h[2] /\ h[2] < m + Window}
  <2>1. m \in Nat /\ S \subseteq From(m)
    BY RatesAssumption DEF R!Moments, R!RatesAssumption, From
  <2>2. IsFiniteSet(From(m)) /\ Cardinality(From(m)) <= Limit
    BY <2>1, FS_Subset, FS_Union DEF RatesInv, RatesTyped, From, InTime, WithinLimit
  <2>3. Cardinality(S) <= Cardinality(From(m)) /\ Cardinality(S) \in Nat
    BY <2>1, <2>2, FS_Subset, FS_CardinalityType
  <2>4. Cardinality(S) <= Limit
    BY RatesAssumption, <2>2, <2>3, FS_CardinalityType DEF R!RatesAssumption
  <2> QED BY <2>4, SameRateCounts
<1>2. R!Init => RatesInv
  BY RatesInitially, RatesAssumption
<1>3. RatesInv /\ [R!Next]_R!vars => RatesInv'
  BY RatesStep, RatesAssumption
<1> QED BY <1>1, <1>2, <1>3, PTL DEF R!Spec

-----------------------------------------------------------------------------
(* The databases of tenants and the pools of a process. *)

SchemaUsers == D!Migrating \union D!Probing
SeederUsers == D!Seeding \union D!PlatformSeeding
Initializing == {"migration registers", "migration registered", "sync"} \union D!Migrating \union D!Seeding

\* Who serves a tenant knows it; who is inside a mutex holds it; who has not begun
\* to migrate has run no migration.
Serving == \A c \in Calls : stage[c] \notin {"idle", "platform seed", "done"} => tenant[c] \in Tenants
Ordered ==
  \A c \in Calls : /\ stage[c] \in D!Registered => registerMu = c
                   /\ stage[c] \in Initializing => initializeMu = c
Fresh == \A c \in Calls : stage[c] \notin {"migrate", "migrated"} => ups[c] = 0

\* What a call inside the mutex has read of the connections is what there is.
Budgeted ==
  /\ IsFiniteSet(pools) /\ Cardinality(pools) <= room
  /\ \A t \in Tenants : t \in pools <=> config[t] = "open"
  /\ \A c \in Calls : stage[c] \in D!Registered =>
       /\ saw[c].config = config
       /\ saw[c].fits <=> Cardinality(pools \union {tenant[c]}) <= room

\* Whoever uses a global is alone with it, and will put back the platform.
SchemaHome ==
  /\ \A c, d \in Calls : stage[c] \in SchemaUsers /\ stage[d] \in SchemaUsers => c = d
  /\ \A c \in Calls : stage[c] \in SchemaUsers => previous[c] = Platform
  /\ \A c \in Calls : stage[c] = "migrate" => schema = tenant[c]
  /\ (\A c \in Calls : stage[c] \notin SchemaUsers) => schema = Platform

SeederHome ==
  /\ \A c, d \in Calls : stage[c] \in D!Seeding /\ stage[d] \in SeederUsers => c = d
  /\ \A c \in Calls : stage[c] \in SeederUsers => previous[c] = Platform
  /\ \A c \in Calls : stage[c] = "seed" => seeder = tenant[c]
  /\ (\A c \in Calls : stage[c] \notin D!Seeding) => seeder = Platform

\* What is made so far, and where.
Filled(c) ==
  LET t == tenant[c] IN
  /\ stage[c] \in {"migrate", "migrated"} => ups[c] <= tables[t][t]
  /\ stage[c] \in {"sync"} \union D!Seeding => tables[t][t] = Ups
  /\ stage[c] = "seeded" => t \in seeds[t]
TablesHome ==
  /\ \A k \in D!Connections, t \in Tenants : k # t => tables[k][t] = 0 /\ t \notin seeds[k]
  /\ \A t \in made : tables[t][t] = Ups /\ t \in seeds[t]
  /\ \A c \in Calls : Filled(c)

Home == ~disturbed => SchemaHome /\ SeederHome /\ TablesHome
Orderly == Serving /\ Ordered /\ Fresh
DatabasesInv == D!TypeOK /\ Orderly /\ Budgeted /\ Home

LEMMA SamePoolCounts == ASSUME NEW S PROVE D!Cardinality(S) = Cardinality(S)
  BY DEF D!Cardinality, Cardinality

LEMMA DatabasesFirst == D!Init => DatabasesInv
<1> SUFFICES ASSUME D!Init PROVE DatabasesInv
  OBVIOUS
<1>1. D!TypeOK
  <2>1. /\ tables \in [D!Connections -> [Tenants -> 0..Ups]] /\ seeds \in [D!Connections -> SUBSET Tenants]
        /\ ups \in [Calls -> 0..Ups]
    BY DatabasesAssumption DEF D!Init, D!DatabasesAssumption
  <2>2. saw \in [Calls -> D!Verdict]
    BY DEF D!Init, D!Verdict, D!NoVerdict
  <2>3. stage \in [Calls -> D!Stages] /\ tenant \in [Calls -> Tenants \union {None}]
    BY DEF D!Init, D!Stages
  <2> QED BY <2>1, <2>2, <2>3 DEF D!Init, D!TypeOK, D!Connections
<1>2. Orderly
  BY DEF D!Init, Orderly, Serving, Ordered, Fresh, Initializing, D!Registered, D!Migrating, D!Seeding
<1>3. Budgeted
  BY DatabasesAssumption, FS_EmptySet DEF D!Init, Budgeted, D!DatabasesAssumption, D!Registered
<1>4. SchemaHome /\ SeederHome
  BY DEF D!Init, SchemaHome, SeederHome, SchemaUsers, SeederUsers, D!Migrating, D!Probing,
         D!Seeding, D!PlatformSeeding
<1>5. TablesHome
  BY DatabasesAssumption
     DEF D!Init, TablesHome, Filled, D!Connections, D!Seeding, D!DatabasesAssumption
<1> QED BY <1>1, <1>2, <1>3, <1>4, <1>5 DEF DatabasesInv, Home

\* A step of one call keeps order if it takes mutexes that are free and gives back its own.
LEMMA OneCallMoves ==
  ASSUME DatabasesInv, NEW c \in Calls, NEW s \in D!Stages, stage' = [stage EXCEPT ![c] = s],
         \A d \in Calls \ {c} : tenant'[d] = tenant[d] /\ ups'[d] = ups[d],
         s \in {"idle", "platform seed", "done"} \/ tenant'[c] \in Tenants,
         s \in {"migrate", "migrated"} \/ ups'[c] = 0,
         s \in D!Registered => registerMu' = c,
         s \in Initializing => initializeMu' = c,
         registerMu' = registerMu \/ stage[c] \in D!Registered \/ registerMu = None,
         initializeMu' = initializeMu \/ stage[c] \in Initializing \/ initializeMu = None
  PROVE  Orderly'
<1>1. stage \in [Calls -> D!Stages]
  BY DEF DatabasesInv, D!TypeOK
<1>2. Serving' /\ Fresh'
  BY <1>1 DEF DatabasesInv, Orderly, Serving, Fresh
<1>3. \A d \in Calls \ {c} : /\ stage[d] \in D!Registered => registerMu = d /\ registerMu' = d
                             /\ stage[d] \in Initializing => initializeMu = d /\ initializeMu' = d
  BY DatabasesAssumption DEF DatabasesInv, Orderly, Ordered, D!DatabasesAssumption
<1>4. Ordered'
  BY <1>1, <1>3 DEF Ordered
<1> QED BY <1>2, <1>4 DEF Orderly

\* Steps that leave the pools alone.
LEMMA PoolsStay ==
  ASSUME DatabasesInv, UNCHANGED <<room, pools, config>>,
         \A d \in Calls : stage'[d] \in D!Registered =>
           /\ stage[d] \in D!Registered /\ saw'[d] = saw[d] /\ tenant'[d] = tenant[d]
  PROVE  Budgeted'
BY DEF DatabasesInv, Budgeted

\* Steps of those who do not use the globals, or go on using them.
LEMMA SchemaStays ==
  ASSUME SchemaHome, UNCHANGED schema,
         \A d \in Calls : /\ stage'[d] \in SchemaUsers <=> stage[d] \in SchemaUsers
                          /\ stage[d] \in SchemaUsers => previous'[d] = previous[d] /\ tenant'[d] = tenant[d]
                          /\ stage'[d] = "migrate" => stage[d] = "migrate"
  PROVE  SchemaHome'
<1>1. \A d \in Calls : stage'[d] = "migrate" => schema' = tenant'[d]
  BY DEF SchemaHome, SchemaUsers, D!Migrating
<1> QED BY <1>1 DEF SchemaHome

LEMMA SeederStays ==
  ASSUME SeederHome, UNCHANGED seeder,
         \A d \in Calls : /\ stage'[d] \in SeederUsers <=> stage[d] \in SeederUsers
                          /\ stage'[d] \in D!Seeding <=> stage[d] \in D!Seeding
                          /\ stage[d] \in SeederUsers => previous'[d] = previous[d] /\ tenant'[d] = tenant[d]
                          /\ stage'[d] = "seed" => stage[d] = "seed"
  PROVE  SeederHome'
<1>1. \A d \in Calls : stage'[d] = "seed" => seeder' = tenant'[d]
  BY DEF SeederHome, SeederUsers, D!Seeding
<1> QED BY <1>1 DEF SeederHome

Making == {"migrate", "migrated", "sync"} \union D!Seeding
LEMMA TablesStay ==
  ASSUME TablesHome, UNCHANGED <<tables, seeds>>, made' \subseteq made,
         \A d \in Calls : stage'[d] \in Making =>
           /\ stage'[d] = stage[d] /\ tenant'[d] = tenant[d] /\ ups'[d] = ups[d]
  PROVE  TablesHome'
<1>1. ASSUME NEW d \in Calls PROVE Filled(d)'
  BY <1>1 DEF TablesHome, Filled, Making, D!Seeding
<1> QED BY <1>1 DEF TablesHome

Busy == SchemaUsers \union SeederUsers \union Making
LEMMA QuietStep ==
  ASSUME DatabasesInv, NEW c \in Calls, NEW s \in D!Stages, stage' = [stage EXCEPT ![c] = s],
         stage[c] \notin Busy, s \notin Busy,
         UNCHANGED <<schema, seeder, disturbed, tables, seeds, previous, ups>>, made' \subseteq made,
         \A d \in Calls \ {c} : tenant'[d] = tenant[d]
  PROVE  Home'
<1>1. \A d \in Calls : d # c => stage'[d] = stage[d] /\ tenant'[d] = tenant[d]
  BY DEF DatabasesInv, D!TypeOK
<1>2. stage'[c] = s
  BY DEF DatabasesInv, D!TypeOK
<1>3. SchemaHome => SchemaHome'
  <2>1. "migrate" \in Busy
    BY DEF Busy, Making
  <2> QED BY <1>1, <1>2, <2>1, SchemaStays DEF Busy
<1>4. SeederHome => SeederHome'
  <2>1. "seed" \in Busy /\ D!Seeding \subseteq Busy
    BY DEF Busy, Making, D!Seeding
  <2> QED BY <1>1, <1>2, <2>1, SeederStays DEF Busy
<1>5. TablesHome => TablesHome'
  BY <1>1, <1>2, TablesStay DEF Busy
<1> QED BY <1>3, <1>4, <1>5 DEF DatabasesInv, Home

\* Request, CreateRow, CreateDatabase, TenantStatements, BeginInitialize, and failures.
LEMMA Beginnings ==
  ASSUME DatabasesInv, NEW c \in Calls, NEW t \in Tenants,
         D!Request(c, t) \/ D!CreateRow(c, t)
  PROVE  DatabasesInv'
<1>1. PICK s \in {"request registers", "database"} :
        /\ stage[c] = "idle" /\ stage' = [stage EXCEPT ![c] = s] /\ tenant' = [tenant EXCEPT ![c] = t]
        /\ rows' \in {rows, rows \union {t}}
        /\ UNCHANGED <<databases, tables, seeds, made, registerMu, initializeMu>>
        /\ UNCHANGED <<room, pools, config, schema, seeder, disturbed, saw, previous, ups>>
  BY DEF D!Request, D!CreateRow, D!GoTo, D!rowVars, D!registryVars, D!globalVars, D!localVars, D!mutexes
<1>2. /\ s \in D!Stages /\ s \notin Busy /\ s \notin Initializing /\ s \notin D!Registered
      /\ stage[c] \notin Busy /\ s \notin {"idle", "platform seed", "done"}
  BY <1>1 DEF D!Stages, Busy, SchemaUsers, SeederUsers, Making, Initializing, D!Registered, D!Registering,
              D!Migrating, D!Probing, D!Seeding, D!PlatformSeeding
<1>3. \A d \in Calls : d # c => stage'[d] = stage[d] /\ tenant'[d] = tenant[d]
  BY <1>1 DEF DatabasesInv, D!TypeOK
<1>4. stage'[c] = s /\ tenant'[c] = t /\ ups[c] = 0
  BY <1>1 DEF DatabasesInv, D!TypeOK, Orderly, Fresh
<1>5. D!TypeOK'
  BY <1>1, <1>2 DEF DatabasesInv, D!TypeOK
<1>6. Orderly'
  BY <1>1, <1>2, <1>3, <1>4, OneCallMoves
<1>7. Budgeted'
  BY <1>1, <1>2, <1>3, <1>4, PoolsStay
<1>8. Home'
  BY <1>1, <1>2, <1>3, QuietStep
<1> QED BY <1>5, <1>6, <1>7, <1>8 DEF DatabasesInv

LEMMA Provisioning ==
  ASSUME DatabasesInv, NEW c \in Calls,
         D!CreateDatabase(c) \/ D!TenantStatements(c) \/ D!BeginInitialize(c)
  PROVE  DatabasesInv'
<1>1. D!TypeOK'
  <2>1. stage[c] \notin {"idle", "platform seed", "done"}
    BY DEF D!CreateDatabase, D!TenantStatements, D!BeginInitialize
  <2>2. tenant[c] \in Tenants
    BY <2>1 DEF DatabasesInv, Orderly, Serving
  <2> QED BY <2>2 DEF DatabasesInv, D!TypeOK, D!CreateDatabase, D!TenantStatements, D!BeginInitialize,
         D!Fail, D!GoTo, D!Stages, D!Registering,
         D!rowVars, D!registryVars, D!globalVars, D!localVars, D!mutexes
<1>2. PICK s \in {"row registers", "initialize", "migration registers", "done"} :
        /\ stage[c] \in {"database", "statements", "initialize"}
        /\ stage' = [stage EXCEPT ![c] = s]
        /\ UNCHANGED <<tables, seeds, made, registerMu, tenant>>
        /\ UNCHANGED <<room, pools, config, schema, seeder, disturbed, saw, previous, ups>>
        /\ IF s = "migration registers" THEN initializeMu = None /\ initializeMu' = c
                                        ELSE initializeMu' = initializeMu
  BY DEF D!CreateDatabase, D!TenantStatements, D!BeginInitialize, D!InitializeFree, D!Fail, D!GoTo,
         D!rowVars, D!registryVars, D!globalVars, D!localVars, D!mutexes
<1>3. /\ s \in D!Stages /\ s \notin Busy /\ s \notin D!Registered /\ stage[c] \notin Busy
      /\ s \in Initializing => s = "migration registers"
      /\ s \notin {"migrate", "migrated"}
  BY <1>2 DEF D!Stages, Busy, SchemaUsers, SeederUsers, Making, Initializing, D!Registered, D!Registering,
              D!Migrating, D!Probing, D!Seeding, D!PlatformSeeding
<1>4. \A d \in Calls : d # c => stage'[d] = stage[d]
  BY <1>2 DEF DatabasesInv, D!TypeOK
<1>5. stage'[c] = s /\ ups[c] = 0 /\ tenant[c] \in Tenants
  BY <1>2 DEF DatabasesInv, D!TypeOK, Orderly, Fresh, Serving
<1>6. Orderly'
  BY <1>2, <1>3, <1>4, <1>5, OneCallMoves
<1>7. Budgeted'
  BY <1>2, <1>3, <1>4, <1>5, PoolsStay
<1>8. Home'
  BY <1>2, <1>3, QuietStep
<1> QED BY <1>1, <1>6, <1>7, <1>8 DEF DatabasesInv

LEMMA Looking ==
  ASSUME DatabasesInv, NEW c \in Calls, D!ReadConnections(c) PROVE DatabasesInv'
<1>1. /\ stage[c] \in D!Registering /\ registerMu = None /\ registerMu' = c
      /\ UNCHANGED <<room, pools, config, rows, databases, tables, seeds, made>>
      /\ UNCHANGED <<schema, seeder, disturbed, previous, ups, initializeMu, tenant>>
      /\ saw' = [saw EXCEPT ![c] = [config |-> config,
                                    fits |-> D!Cardinality(pools \union {tenant[c]}) <= room]]
  BY DEF D!ReadConnections, D!RegisterFree, D!rowVars, D!registryVars, D!globalVars
<1>2. PICK s \in D!Registered :
        stage' = [stage EXCEPT ![c] = s] /\ (s = "migration registered" <=> stage[c] = "migration registers")
  BY <1>1 DEF D!ReadConnections, D!GoTo, D!Registering, D!Registered
<1>3. /\ s \in D!Stages /\ s \notin Busy /\ stage[c] \notin Busy
      /\ s \in Initializing => stage[c] \in Initializing
      /\ s \notin {"migrate", "migrated", "idle", "platform seed", "done"}
      /\ stage[c] \notin {"migrate", "migrated", "idle", "platform seed", "done"}
  BY <1>1, <1>2 DEF D!Stages, Busy, SchemaUsers, SeederUsers, Making, Initializing, D!Registered,
              D!Registering, D!Migrating, D!Probing, D!Seeding, D!PlatformSeeding
<1>4. ups[c] = 0 /\ tenant[c] \in Tenants /\ (stage[c] \in Initializing => initializeMu = c)
  BY <1>3 DEF DatabasesInv, Orderly, Fresh, Serving, Ordered
<1>5. D!TypeOK'
  <2>1. config \in [Tenants -> {"no", "open", "refused"}] /\ saw \in [Calls -> D!Verdict]
    BY DEF DatabasesInv, D!TypeOK
  <2>2. saw' \in [Calls -> D!Verdict]
    BY <1>1, <2>1 DEF D!Verdict
  <2> QED BY <1>1, <1>2, <1>3, <2>2 DEF DatabasesInv, D!TypeOK
<1>6. Orderly'
  BY <1>1, <1>2, <1>3, <1>4, OneCallMoves
<1>7. Budgeted'
  <2>1. \A d \in Calls \ {c} : stage'[d] = stage[d] /\ stage[d] \notin D!Registered
    BY <1>1, <1>2, DatabasesAssumption
       DEF DatabasesInv, D!TypeOK, Orderly, Ordered, D!DatabasesAssumption
  <2>2. /\ saw'[c].config = config
        /\ saw'[c].fits <=> Cardinality(pools \union {tenant[c]}) <= room
    BY <1>1, SamePoolCounts DEF DatabasesInv, D!TypeOK
  <2> QED BY <1>1, <2>1, <2>2 DEF DatabasesInv, Budgeted
<1>8. Home'
  BY <1>1, <1>2, <1>3, QuietStep
<1> QED BY <1>5, <1>6, <1>7, <1>8 DEF DatabasesInv

\* AddConnection, by whether the pool fits.
LEMMA PoolsGrow ==
  ASSUME DatabasesInv, NEW c \in Calls, D!AddConnection(c) PROVE Budgeted'
<1> DEFINE t == tenant[c]
<1>1. stage[c] \in D!Registered /\ t \in Tenants
  BY DEF D!AddConnection, D!Registered, DatabasesInv, Orderly, Serving
<1>2. /\ pools' = IF saw[c].fits THEN pools \union {t} ELSE pools
      /\ config' = [saw[c].config EXCEPT ![t] = IF saw[c].fits THEN "open" ELSE "refused"]
      /\ UNCHANGED room
  BY DEF D!AddConnection
<1>3. saw[c].config = config /\ (saw[c].fits <=> Cardinality(pools \union {t}) <= room)
  BY <1>1 DEF DatabasesInv, Budgeted
<1>4. config \in [Tenants -> {"no", "open", "refused"}]
  BY DEF DatabasesInv, D!TypeOK
<1>5. IsFiniteSet(pools) /\ Cardinality(pools) <= room /\ \A u \in Tenants : u \in pools <=> config[u] = "open"
  BY DEF DatabasesInv, Budgeted
<1>6. \A d \in Calls : stage'[d] \notin D!Registered
  <2>1. stage'[c] \notin D!Registered
    BY <1>1 DEF D!AddConnection, D!GoTo, D!Registered, DatabasesInv, D!TypeOK
  <2>2. \A d \in Calls \ {c} : stage'[d] = stage[d] /\ stage[d] \notin D!Registered
    BY <1>1 DEF D!AddConnection, D!GoTo, DatabasesInv, D!TypeOK, Orderly, Ordered
  <2> QED BY <2>1, <2>2
<1>7. CASE saw[c].fits
  <2>1. pools' = pools \union {t} /\ IsFiniteSet(pools') /\ Cardinality(pools') <= room'
    BY <1>2, <1>3, <1>5, <1>7, FS_AddElement
  <2>2. \A u \in Tenants : u \in pools' <=> config'[u] = "open"
    BY <1>1, <1>2, <1>3, <1>4, <1>5, <1>7
  <2> QED BY <1>6, <2>1, <2>2 DEF Budgeted
<1>8. CASE ~saw[c].fits
  <2>1. t \notin pools
    <3>1. t \in pools => pools \union {t} = pools
      OBVIOUS
    <3> QED BY <1>3, <1>5, <1>8, <3>1
  <2>2. \A u \in Tenants : u \in pools' <=> config'[u] = "open"
    BY <1>1, <1>2, <1>3, <1>4, <1>5, <1>8, <2>1
  <2> QED BY <1>2, <1>5, <1>6, <1>8, <2>2 DEF Budgeted
<1> QED BY <1>7, <1>8

LEMMA Registration ==
  ASSUME DatabasesInv, NEW c \in Calls, D!AddConnection(c) PROVE DatabasesInv'
<1>1. /\ stage[c] \in D!Registered /\ registerMu' = None
      /\ UNCHANGED <<room, rows, databases, tables, seeds, made>>
      /\ UNCHANGED <<schema, seeder, ups, initializeMu, tenant>>
  BY DEF D!AddConnection, D!rowVars
<1>2. stage[c] \notin {"idle", "platform seed", "done", "migrate", "migrated"}
  BY <1>1 DEF D!Registered
<1>3. tenant[c] \in Tenants /\ ups[c] = 0 /\ registerMu = c
      /\ (stage[c] = "migration registered" => initializeMu = c)
  BY <1>1, <1>2 DEF DatabasesInv, Orderly, Serving, Fresh, Ordered, Initializing
<1>4. PICK s \in {"statements", "done", "migrate set"} :
        /\ stage' = [stage EXCEPT ![c] = s] /\ (s = "migrate set" <=> stage[c] = "migration registered")
        /\ IF s = "migrate set" THEN previous' = [previous EXCEPT ![c] = schema] /\ D!Overlap(c, D!Probing)
                                ELSE UNCHANGED <<previous, disturbed>>
  BY <1>1 DEF D!AddConnection, D!GoTo, D!Registered
<1>5. /\ s \in D!Stages /\ s \notin D!Registered /\ s \notin {"migrate", "migrated"} /\ stage[c] \notin Busy
      /\ s \in Initializing => s = "migrate set"
      /\ s \in Busy => s = "migrate set"
  BY <1>1, <1>4 DEF D!Stages, Busy, SchemaUsers, SeederUsers, Making, Initializing, D!Registered,
              D!Registering, D!Migrating, D!Probing, D!Seeding, D!PlatformSeeding
<1>6. D!TypeOK'
  <2>1. saw[c] \in D!Verdict /\ D!NoVerdict \in D!Verdict
    BY DEF DatabasesInv, D!TypeOK, D!NoVerdict, D!Verdict
  <2>2. /\ pools' \subseteq Tenants /\ config' \in [Tenants -> {"no", "open", "refused"}]
        /\ saw' \in [Calls -> D!Verdict]
    BY <1>3, <2>1 DEF D!AddConnection, DatabasesInv, D!TypeOK, D!Verdict
  <2>3. disturbed' \in BOOLEAN /\ previous' \in [Calls -> D!Connections]
    BY <1>4 DEF DatabasesInv, D!TypeOK, D!Overlap
  <2> QED BY <1>1, <1>4, <1>5, <2>2, <2>3 DEF DatabasesInv, D!TypeOK
<1>7. Orderly'
  BY <1>1, <1>3, <1>4, <1>5, OneCallMoves
<1>8. Home'
  <2>1. CASE s # "migrate set"
    BY <1>1, <1>4, <1>5, <2>1, QuietStep
  <2>2. CASE s = "migrate set"
    <3>1. SUFFICES ASSUME ~disturbed' PROVE SchemaHome' /\ SeederHome' /\ TablesHome'
      BY DEF Home
    <3>2. ~disturbed /\ \A d \in Calls \ {c} : stage[d] \notin D!Probing
      BY <1>4, <2>2, <3>1 DEF D!Overlap
    <3>3. SchemaHome /\ SeederHome /\ TablesHome
      BY <3>2 DEF DatabasesInv, Home
    <3>4. \A d \in Calls \ {c} : stage'[d] = stage[d] /\ previous'[d] = previous[d]
      BY <1>4, <2>2 DEF DatabasesInv, D!TypeOK
    <3>5. stage'[c] = "migrate set" /\ previous'[c] = schema
      BY <1>4, <2>2 DEF DatabasesInv, D!TypeOK
    <3>6. \A d \in Calls : stage[d] \notin SchemaUsers
      <4>1. stage[c] \notin SchemaUsers
        BY <1>5 DEF Busy
      <4>2. \A d \in Calls : stage[d] \in D!Migrating => initializeMu = d
        BY DEF DatabasesInv, Orderly, Ordered, Initializing
      <4> QED BY <1>3, <1>4, <2>2, <3>2, <4>1, <4>2 DEF SchemaUsers
    <3>7. SchemaHome'
      BY <1>1, <3>3, <3>4, <3>5, <3>6 DEF SchemaHome, SchemaUsers, D!Migrating
    <3>8. SeederHome'
      <4>1. /\ {stage[c], "migrate set"} \cap SeederUsers = {} /\ D!Seeding \subseteq SeederUsers
            /\ "seed" \in SeederUsers
        BY <1>5 DEF Busy, SeederUsers, D!Seeding, D!PlatformSeeding
      <4> QED BY <1>1, <3>3, <3>4, <3>5, <4>1, SeederStays
    <3>9. TablesHome'
      <4>1. "migrate set" \notin Making
        BY DEF Making, D!Seeding
      <4> QED BY <1>1, <3>3, <3>4, <3>5, <4>1, TablesStay
    <3> QED BY <3>7, <3>8, <3>9
  <2> QED BY <2>1, <2>2
<1> QED BY <1>6, <1>7, <1>8, PoolsGrow DEF DatabasesInv

\* Probes: what they find, and what they put back.
LEMMA Probes ==
  ASSUME DatabasesInv, NEW c \in Calls, NEW t \in Tenants, D!ReadProbeConnection(c, t)
  PROVE  DatabasesInv'
<1>1. /\ stage[c] = "idle" /\ stage' = [stage EXCEPT ![c] = "probe set"]
      /\ tenant' = [tenant EXCEPT ![c] = t] /\ previous' = [previous EXCEPT ![c] = schema]
      /\ D!Overlap(c, D!Probing \union D!Migrating)
      /\ UNCHANGED <<rows, databases, tables, seeds, made, room, pools, config, schema, seeder>>
      /\ UNCHANGED <<saw, ups, registerMu, initializeMu>>
  BY DEF D!ReadProbeConnection, D!GoTo, D!rowVars, D!registryVars, D!mutexes
<1>2. /\ "probe set" \in D!Stages /\ "probe set" \notin D!Registered /\ "probe set" \notin Initializing
      /\ {"idle", "probe set"} \cap SeederUsers = {} /\ D!Seeding \subseteq SeederUsers
      /\ "seed" \in SeederUsers /\ "probe set" \notin Making /\ "idle" \notin SchemaUsers
      /\ SchemaUsers = D!Probing \union D!Migrating
  BY DEF D!Stages, SchemaUsers, SeederUsers, D!Registered, Initializing, Making,
         D!Migrating, D!Probing, D!Seeding, D!PlatformSeeding
<1>3. ups[c] = 0
  BY <1>1 DEF DatabasesInv, Orderly, Fresh
<1>4. /\ stage'[c] = "probe set" /\ previous'[c] = schema /\ tenant'[c] = t
      /\ \A d \in Calls \ {c} : /\ stage'[d] = stage[d] /\ previous'[d] = previous[d]
                                /\ tenant'[d] = tenant[d]
  BY <1>1 DEF DatabasesInv, D!TypeOK
<1>5. D!TypeOK'
  <2>1. disturbed' \in BOOLEAN
    BY <1>1 DEF D!Overlap, DatabasesInv, D!TypeOK
  <2> QED BY <1>1, <1>2, <2>1 DEF DatabasesInv, D!TypeOK
<1>6. Orderly'
  BY <1>1, <1>2, <1>3, <1>4, OneCallMoves
<1>7. Budgeted'
  BY <1>1, <1>2, <1>4, PoolsStay
<1>8. Home'
  <2>1. SUFFICES ASSUME ~disturbed' PROVE SchemaHome' /\ SeederHome' /\ TablesHome'
    BY DEF Home
  <2>2. ~disturbed /\ \A d \in Calls : stage[d] \notin SchemaUsers
    BY <1>1, <1>2, <2>1 DEF D!Overlap
  <2>3. SchemaHome /\ SeederHome /\ TablesHome
    BY <2>2 DEF DatabasesInv, Home
  <2>4. SchemaHome'
    BY <1>1, <1>2, <1>4, <2>2, <2>3 DEF SchemaHome, D!Probing
  <2>5. SeederHome'
    BY <1>1, <1>2, <1>4, <2>3, SeederStays
  <2>6. TablesHome'
    BY <1>1, <1>2, <1>4, <2>3, TablesStay
  <2> QED BY <2>4, <2>5, <2>6
<1> QED BY <1>5, <1>6, <1>7, <1>8 DEF DatabasesInv

\* The connection of a tenant is set, for its migrations or to ask for a table.
LEMMA SettingSchema ==
  ASSUME DatabasesInv, NEW c \in Calls, D!SetMigrationConnection(c) \/ D!SetProbeConnection(c)
  PROVE  DatabasesInv'
<1>1. PICK s \in {"migrate", "probe"} :
      /\ s = "migrate" => stage[c] = "migrate set"
      /\ s = "probe" => stage[c] = "probe set"
      /\ stage' = [stage EXCEPT ![c] = s] /\ schema' = tenant[c]
      /\ UNCHANGED <<rows, databases, tables, seeds, made, room, pools, config, seeder, disturbed>>
      /\ UNCHANGED <<saw, previous, ups, registerMu, initializeMu, tenant>>
  BY DEF D!SetMigrationConnection, D!SetProbeConnection, D!GoTo, D!rowVars, D!registryVars,
         D!localVars, D!mutexes
<1>2. /\ s \in D!Stages /\ s \notin D!Registered /\ s \in SchemaUsers /\ stage[c] \in SchemaUsers
      /\ s \in Initializing => stage[c] \in Initializing
      /\ {stage[c], s} \cap SeederUsers = {} /\ D!Seeding \subseteq SeederUsers /\ "seed" \in SeederUsers
      /\ s \in Making => s = "migrate"
      /\ stage[c] \notin {"idle", "platform seed", "done", "migrate", "migrated"}
  BY <1>1 DEF D!Stages, SchemaUsers, SeederUsers, D!Registered, Initializing, Making,
         D!Migrating, D!Probing, D!Seeding, D!PlatformSeeding
<1>3. ups[c] = 0 /\ tenant[c] \in Tenants /\ (stage[c] \in Initializing => initializeMu = c)
  BY <1>2 DEF DatabasesInv, Orderly, Fresh, Serving, Ordered
<1>4. stage'[c] = s /\ \A d \in Calls \ {c} : stage'[d] = stage[d]
  BY <1>1 DEF DatabasesInv, D!TypeOK
<1>5. D!TypeOK'
  BY <1>1, <1>2, <1>3 DEF DatabasesInv, D!TypeOK, D!Connections
<1>6. Orderly'
  BY <1>1, <1>2, <1>3, <1>4, OneCallMoves
<1>7. Budgeted'
  BY <1>1, <1>2, <1>4, PoolsStay
<1>8. Home'
  <2>1. SUFFICES ASSUME SchemaHome, SeederHome, TablesHome PROVE SchemaHome' /\ SeederHome' /\ TablesHome'
    BY <1>1 DEF DatabasesInv, Home
  <2>2. SchemaHome'
    <3>1. \A d \in Calls : stage'[d] \in SchemaUsers <=> stage[d] \in SchemaUsers
      BY <1>2, <1>4
    <3>2. \A d \in Calls : stage'[d] = "migrate" => schema' = tenant'[d]
      <4>1. \A d \in Calls \ {c} : stage[d] # "migrate"
        BY <1>2, <2>1 DEF SchemaHome, SchemaUsers, D!Migrating
      <4> QED BY <1>1, <1>4, <4>1
    <3> QED BY <1>1, <1>2, <2>1, <3>1, <3>2 DEF SchemaHome
  <2>3. SeederHome'
    BY <1>1, <1>2, <1>4, <2>1, SeederStays
  <2>4. TablesHome'
    <3>1. ASSUME NEW d \in Calls PROVE Filled(d)'
      <4>1. CASE d = c
        <5>1. tables[tenant[c]][tenant[c]] \in 0..Ups
          BY <1>3 DEF DatabasesInv, D!TypeOK, D!Connections
        <5>2. 0 <= tables[tenant[c]][tenant[c]]
          BY <5>1, DatabasesAssumption DEF D!DatabasesAssumption
        <5>3. stage'[c] \in {"migrate", "probe"} /\ ups'[c] = 0 /\ tables' = tables /\ tenant' = tenant
          BY <1>1, <1>3, <1>4
        <5> QED BY <4>1, <5>2, <5>3 DEF Filled, D!Seeding
      <4>2. CASE d # c
        BY <1>1, <1>4, <2>1, <4>2 DEF TablesHome, Filled
      <4> QED BY <4>1, <4>2
    <3> QED BY <1>1, <2>1, <3>1 DEF TablesHome
  <2> QED BY <2>2, <2>3, <2>4
<1> QED BY <1>5, <1>6, <1>7, <1>8 DEF DatabasesInv

\* One migration more, or the first that fails.
LEMMA MigrationSteps ==
  ASSUME DatabasesInv, NEW c \in Calls, D!Migrate(c) PROVE DatabasesInv'
<1>1. /\ stage[c] = "migrate"
      /\ UNCHANGED <<rows, databases, seeds, made, room, pools, config, schema, seeder, disturbed>>
      /\ UNCHANGED <<saw, previous, registerMu, initializeMu, tenant>>
  BY DEF D!Migrate, D!registryVars, D!globalVars, D!mutexes
<1>2. PICK s \in {"migrate", "migrated"} :
        /\ stage' = [stage EXCEPT ![c] = s]
        /\ \/ /\ s = "migrate" /\ ups[c] < Ups /\ ups' = [ups EXCEPT ![c] = @ + 1]
              /\ tables' = [tables EXCEPT ![schema][tenant[c]] = IF @ > ups[c] THEN @ ELSE ups[c] + 1]
           \/ UNCHANGED <<tables, ups>>
  BY <1>1 DEF D!Migrate, D!GoTo, DatabasesInv, D!TypeOK
<1>3. /\ s \in D!Stages /\ s \notin D!Registered /\ s \in SchemaUsers /\ stage[c] \in SchemaUsers
      /\ s \in Initializing /\ stage[c] \in Initializing
      /\ {stage[c], s} \cap SeederUsers = {} /\ D!Seeding \subseteq SeederUsers /\ "seed" \in SeederUsers
  BY <1>1 DEF D!Stages, SchemaUsers, SeederUsers, D!Registered, Initializing,
         D!Migrating, D!Probing, D!Seeding, D!PlatformSeeding
<1>4. tenant[c] \in Tenants /\ initializeMu = c
  BY <1>1, <1>3 DEF DatabasesInv, Orderly, Serving, Ordered
<1>5. stage'[c] = s /\ \A d \in Calls \ {c} : stage'[d] = stage[d] /\ ups'[d] = ups[d]
  BY <1>2 DEF DatabasesInv, D!TypeOK
<1>6. /\ tables \in [D!Connections -> [Tenants -> 0..Ups]] /\ schema \in D!Connections
      /\ ups \in [Calls -> 0..Ups] /\ Ups \in Nat
  BY DatabasesAssumption DEF DatabasesInv, D!TypeOK, D!DatabasesAssumption
<1>7. D!TypeOK'
  <2>1. ups' \in [Calls -> 0..Ups]
    BY <1>2, <1>6
  <2>2. tables' \in [D!Connections -> [Tenants -> 0..Ups]]
    <3>1. ups[c] < Ups => ups[c] + 1 \in 0..Ups
      BY <1>6
    <3> QED BY <1>2, <1>4, <1>6, <3>1
  <2> QED BY <1>1, <1>2, <1>3, <2>1, <2>2 DEF DatabasesInv, D!TypeOK
<1>8. Orderly'
  BY <1>1, <1>2, <1>3, <1>4, <1>5, OneCallMoves
<1>9. Budgeted'
  BY <1>1, <1>3, <1>5, PoolsStay
<1>10. Home'
  <2>1. SUFFICES ASSUME SchemaHome, SeederHome, TablesHome PROVE SchemaHome' /\ SeederHome' /\ TablesHome'
    BY <1>1 DEF DatabasesInv, Home
  <2>2. SchemaHome'
    <3>1. \A d \in Calls : stage'[d] = "migrate" => stage[d] = "migrate"
      BY <1>1, <1>5
    <3> QED BY <1>1, <1>3, <1>5, <2>1, <3>1, SchemaStays
  <2>3. SeederHome'
    BY <1>1, <1>3, <1>5, <2>1, SeederStays
  <2>4. TablesHome'
    <3> DEFINE t == tenant[c]
    <3>1. schema = t
      BY <1>1, <2>1 DEF SchemaHome
    <3>2. /\ \A k \in D!Connections, u \in Tenants : k # t \/ u # t => tables'[k][u] = tables[k][u]
          /\ tables'[t][t] >= tables[t][t] /\ tables'[t][t] \in 0..Ups
          /\ ups[c] <= tables[t][t] => ups'[c] <= tables'[t][t]
      <4>1. CASE UNCHANGED <<tables, ups>>
        BY <1>4, <1>6, <4>1 DEF D!Connections
      <4>2. CASE /\ ups[c] < Ups /\ ups' = [ups EXCEPT ![c] = @ + 1]
                 /\ tables' = [tables EXCEPT ![t][t] = IF @ > ups[c] THEN @ ELSE ups[c] + 1]
        <5>1. ups[c] \in 0..Ups /\ t \in D!Connections /\ tables[t][t] \in 0..Ups
          BY <1>4, <1>6 DEF D!Connections
        <5>2. /\ tables'[t][t] = IF tables[t][t] > ups[c] THEN tables[t][t] ELSE ups[c] + 1
              /\ ups'[c] = ups[c] + 1
              /\ \A k \in D!Connections, u \in Tenants : k # t \/ u # t => tables'[k][u] = tables[k][u]
          BY <1>4, <1>6, <4>2, <5>1
        <5> QED BY <1>6, <4>2, <5>1, <5>2
      <4> QED BY <1>2, <3>1, <4>1, <4>2
    <3>3. ASSUME NEW d \in Calls PROVE Filled(d)'
      <4>1. CASE d = c
        BY <1>1, <1>3, <1>5, <2>1, <3>2, <4>1 DEF TablesHome, Filled, D!Seeding
      <4>2. CASE d # c
        <5>1. stage[d] \notin Initializing
          BY <1>4, <4>2 DEF DatabasesInv, Orderly, Ordered
        <5> QED BY <1>5, <4>2, <5>1 DEF Filled, Initializing, D!Migrating, D!Seeding
      <4> QED BY <4>1, <4>2
    <3>4. \A k \in D!Connections, u \in Tenants : k # u => tables'[k][u] = 0 /\ u \notin seeds'[k]
      BY <1>1, <2>1, <3>2 DEF TablesHome
    <3>5. ASSUME NEW u \in made' PROVE tables'[u][u] = Ups /\ u \in seeds'[u]
      <4>1. u \in Tenants /\ u \in D!Connections /\ tables[u][u] = Ups /\ u \in seeds[u]
        BY <1>1, <2>1, <3>5 DEF TablesHome, DatabasesInv, D!TypeOK, D!Connections
      <4>2. CASE u = t
        <5>1. tables[t][t] = Ups /\ t \in seeds[t]
          BY <4>1, <4>2
        <5>2. tables'[t][t] \in 0..Ups /\ tables'[t][t] >= Ups
          BY <3>2, <5>1
        <5>3. tables'[t][t] = Ups
          <6>1. Ups \in Nat
            BY <1>6
          <6>2. \A x \in 0..Ups : x >= Ups => x = Ups
            BY <6>1
          <6> QED BY <5>2, <6>2
        <5> QED BY <1>1, <4>2, <5>1, <5>3
      <4>3. CASE u # t
        BY <1>1, <3>2, <4>1, <4>3
      <4> QED BY <4>2, <4>3
    <3> QED BY <3>3, <3>4, <3>5 DEF TablesHome
  <2> QED BY <2>2, <2>3, <2>4
<1> QED BY <1>7, <1>8, <1>9, <1>10 DEF DatabasesInv

\* The connection of the seeders is set, in the midst of an initialization.
LEMMA SettingSeeder ==
  ASSUME DatabasesInv, NEW c \in Calls, D!SetSeederConnection(c) PROVE DatabasesInv'
<1>1. /\ stage[c] = "sync" /\ stage' = [stage EXCEPT ![c] = "seed"]
      /\ previous' = [previous EXCEPT ![c] = seeder] /\ seeder' = tenant[c]
      /\ D!Overlap(c, D!PlatformSeeding)
      /\ UNCHANGED <<rows, databases, tables, seeds, made, room, pools, config, schema>>
      /\ UNCHANGED <<saw, ups, registerMu, initializeMu, tenant>>
  BY DEF D!SetSeederConnection, D!GoTo, D!rowVars, D!registryVars, D!mutexes
<1>2. /\ "seed" \in D!Stages /\ "seed" \notin D!Registered /\ "seed" \in Initializing
      /\ "sync" \in Initializing /\ D!Seeding \subseteq Initializing
      /\ {"sync", "seed"} \cap SchemaUsers = {} /\ "migrate" \in SchemaUsers
      /\ SeederUsers = D!Seeding \union D!PlatformSeeding /\ "seed" \in D!Seeding
      /\ "seed" \notin D!PlatformSeeding /\ "sync" \notin SeederUsers
  BY DEF D!Stages, SchemaUsers, SeederUsers, D!Registered, Initializing,
         D!Migrating, D!Probing, D!Seeding, D!PlatformSeeding
<1>3. ups[c] = 0 /\ tenant[c] \in Tenants /\ initializeMu = c
  BY <1>1, <1>2 DEF DatabasesInv, Orderly, Fresh, Serving, Ordered
<1>4. /\ stage'[c] = "seed" /\ previous'[c] = seeder
      /\ \A d \in Calls \ {c} : stage'[d] = stage[d] /\ previous'[d] = previous[d]
  BY <1>1 DEF DatabasesInv, D!TypeOK
<1>5. D!TypeOK'
  <2>1. disturbed' \in BOOLEAN
    BY <1>1 DEF D!Overlap, DatabasesInv, D!TypeOK
  <2> QED BY <1>1, <1>2, <1>3, <2>1 DEF DatabasesInv, D!TypeOK, D!Connections
<1>6. Orderly'
  BY <1>1, <1>2, <1>3, <1>4, OneCallMoves
<1>7. Budgeted'
  BY <1>1, <1>2, <1>4, PoolsStay
<1>8. Home'
  <2>1. SUFFICES ASSUME ~disturbed' PROVE SchemaHome' /\ SeederHome' /\ TablesHome'
    BY DEF Home
  <2>2. ~disturbed /\ \A d \in Calls \ {c} : stage[d] \notin D!PlatformSeeding
    BY <1>1, <2>1 DEF D!Overlap
  <2>3. SchemaHome /\ SeederHome /\ TablesHome
    BY <2>2 DEF DatabasesInv, Home
  <2>4. \A d \in Calls : stage[d] \notin SeederUsers
    <3>1. \A d \in Calls : stage[d] \in D!Seeding => initializeMu = d
      BY <1>2 DEF DatabasesInv, Orderly, Ordered
    <3> QED BY <1>1, <1>2, <1>3, <2>2, <3>1
  <2>5. SchemaHome'
    BY <1>1, <1>2, <1>4, <2>3, SchemaStays
  <2>6. SeederHome'
    BY <1>1, <1>2, <1>4, <2>3, <2>4 DEF SeederHome
  <2>7. TablesHome'
    <3>1. ASSUME NEW d \in Calls PROVE Filled(d)'
      BY <1>1, <1>4, <2>3 DEF TablesHome, Filled, D!Seeding
    <3> QED BY <1>1, <2>3, <3>1 DEF TablesHome
  <2> QED BY <2>5, <2>6, <2>7
<1> QED BY <1>5, <1>6, <1>7, <1>8 DEF DatabasesInv

LEMMA SeederRuns ==
  ASSUME DatabasesInv, NEW c \in Calls, D!Seed(c) PROVE DatabasesInv'
<1>1. /\ stage[c] = "seed"
      /\ UNCHANGED <<rows, databases, tables, made, room, pools, config, schema, seeder, disturbed>>
      /\ UNCHANGED <<saw, previous, ups, registerMu, initializeMu, tenant>>
  BY DEF D!Seed, D!registryVars, D!globalVars, D!localVars, D!mutexes
<1>2. PICK s \in {"seeded", "seed failed"} :
        /\ stage' = [stage EXCEPT ![c] = s]
        /\ \/ s = "seeded" /\ seeds' = [seeds EXCEPT ![seeder] = @ \union {tenant[c]}]
           \/ s = "seed failed" /\ UNCHANGED seeds
  BY <1>1 DEF D!Seed, D!GoTo
<1>3. /\ s \in D!Stages /\ s \notin D!Registered /\ s \in Initializing /\ s \in D!Seeding
      /\ {stage[c], s} \cap SchemaUsers = {} /\ "migrate" \in SchemaUsers
      /\ stage[c] \in D!Seeding /\ SeederUsers = D!Seeding \union D!PlatformSeeding
      /\ s \notin {"idle", "platform seed", "done", "migrate", "migrated", "seed"}
      /\ stage[c] \notin {"idle", "platform seed", "done", "migrate", "migrated"}
  BY <1>1 DEF D!Stages, SchemaUsers, SeederUsers, D!Registered, Initializing,
         D!Migrating, D!Probing, D!Seeding, D!PlatformSeeding
<1>4. ups[c] = 0 /\ tenant[c] \in Tenants /\ initializeMu = c
  BY <1>3 DEF DatabasesInv, Orderly, Fresh, Serving, Ordered, Initializing
<1>5. stage'[c] = s /\ \A d \in Calls \ {c} : stage'[d] = stage[d]
  BY <1>2 DEF DatabasesInv, D!TypeOK
<1>6. seeds \in [D!Connections -> SUBSET Tenants] /\ seeder \in D!Connections
  BY DEF DatabasesInv, D!TypeOK
<1>7. D!TypeOK'
  <2>1. seeds' \in [D!Connections -> SUBSET Tenants]
    BY <1>2, <1>4, <1>6
  <2> QED BY <1>1, <1>2, <1>3, <2>1 DEF DatabasesInv, D!TypeOK
<1>8. Orderly'
  BY <1>1, <1>2, <1>3, <1>4, <1>5, OneCallMoves
<1>9. Budgeted'
  BY <1>1, <1>3, <1>5, PoolsStay
<1>10. Home'
  <2>1. SUFFICES ASSUME SchemaHome, SeederHome, TablesHome
                 PROVE  SchemaHome' /\ SeederHome' /\ TablesHome'
    BY <1>1 DEF DatabasesInv, Home
  <2>2. SchemaHome'
    BY <1>1, <1>3, <1>5, <2>1, SchemaStays
  <2>3. SeederHome'
    BY <1>1, <1>3, <1>5, <2>1, SeederStays
  <2>4. TablesHome'
    <3>1. seeder = tenant[c]
      BY <1>1, <2>1 DEF SeederHome
    <3>2. \A k \in D!Connections : seeds'[k] = seeds[k] \/ (k = tenant[c] /\ seeds'[k] = seeds[k] \union {tenant[c]})
      BY <1>2, <1>6, <3>1
    <3>3. ASSUME NEW d \in Calls PROVE Filled(d)'
      <4>1. CASE d = c
        <5>1. s = "seeded" => tenant[c] \in seeds'[tenant[c]]
          BY <1>2, <1>6, <3>1
        <5>2. tables[tenant[c]][tenant[c]] = Ups
          BY <1>3, <2>1 DEF TablesHome, Filled
        <5> QED BY <1>1, <1>3, <1>5, <4>1, <5>1, <5>2 DEF Filled
      <4>2. CASE d # c
        <5>1. stage[d] \notin D!Seeding
          BY <1>1, <1>3, <2>1, <4>2 DEF SeederHome
        <5> QED BY <1>1, <1>5, <2>1, <4>2, <5>1 DEF TablesHome, Filled, D!Seeding
      <4> QED BY <4>1, <4>2
    <3>4. ASSUME NEW k \in D!Connections, NEW u \in Tenants, k # u
          PROVE  tables'[k][u] = 0 /\ u \notin seeds'[k]
      <4>1. tables[k][u] = 0 /\ u \notin seeds[k]
        BY <2>1, <3>4 DEF TablesHome
      <4>2. seeds'[k] = seeds[k] \/ (k = tenant[c] /\ seeds'[k] = seeds[k] \union {tenant[c]})
        BY <3>2
      <4>3. u \notin seeds'[k]
        BY <3>4, <4>1, <4>2
      <4> QED BY <1>1, <4>1, <4>3
    <3>5. \A u \in made' : tables'[u][u] = Ups /\ u \in seeds'[u]
      BY <1>1, <2>1, <3>2 DEF TablesHome, DatabasesInv, D!TypeOK, D!Connections
    <3> QED BY <3>3, <3>4, <3>5 DEF TablesHome
  <2> QED BY <2>2, <2>3, <2>4
<1> QED BY <1>7, <1>8, <1>9, <1>10 DEF DatabasesInv

\* The connection that was there is put back; what failed unlocks.
LEMMA RestoringSchema ==
  ASSUME DatabasesInv, NEW c \in Calls, D!RestoreMigrationConnection(c) \/ D!RestoreProbeConnection(c)
  PROVE  DatabasesInv'
<1>1. PICK s \in {"sync", "done"} :
      /\ stage[c] \in {"migrated", "probe"} /\ stage' = [stage EXCEPT ![c] = s]
      /\ s = "sync" => stage[c] = "migrated" /\ ups[c] = Ups
      /\ schema' = previous[c] /\ previous' = [previous EXCEPT ![c] = Platform]
      /\ initializeMu' = initializeMu \/ (s = "done" /\ stage[c] = "migrated" /\ initializeMu' = None)
      /\ ups' = [ups EXCEPT ![c] = 0] \/ (stage[c] = "probe" /\ ups' = ups)
      /\ UNCHANGED <<rows, databases, tables, seeds, made, room, pools, config, seeder, disturbed>>
      /\ UNCHANGED <<saw, registerMu, tenant>>
  BY DEF D!RestoreMigrationConnection, D!RestoreProbeConnection, D!GoTo, D!rowVars, D!registryVars, D!mutexes
<1>2. /\ s \in D!Stages /\ s \notin D!Registered /\ s \notin SchemaUsers /\ stage[c] \in SchemaUsers
      /\ s \in Initializing => s = "sync"
      /\ "migrated" \in Initializing
      /\ {stage[c], s} \cap SeederUsers = {} /\ D!Seeding \subseteq SeederUsers /\ "seed" \in SeederUsers
      /\ stage[c] \notin {"idle", "platform seed", "done"} /\ "migrate" \in SchemaUsers
  BY <1>1 DEF D!Stages, SchemaUsers, SeederUsers, D!Registered, Initializing,
         D!Migrating, D!Probing, D!Seeding, D!PlatformSeeding
<1>3. /\ tenant[c] \in Tenants
      /\ stage[c] = "migrated" => initializeMu = c
      /\ stage[c] = "probe" => ups[c] = 0
  BY <1>2 DEF DatabasesInv, Orderly, Fresh, Serving, Ordered
<1>4. /\ stage'[c] = s /\ ups'[c] = 0 /\ previous'[c] = Platform
      /\ \A d \in Calls \ {c} : stage'[d] = stage[d] /\ ups'[d] = ups[d] /\ previous'[d] = previous[d]
  BY <1>1, <1>3 DEF DatabasesInv, D!TypeOK
<1>5. D!TypeOK'
  <2>1. ups' \in [Calls -> 0..Ups]
    BY <1>1, DatabasesAssumption DEF DatabasesInv, D!TypeOK, D!DatabasesAssumption
  <2>2. previous' \in [Calls -> D!Connections] /\ schema' \in D!Connections
    BY <1>1 DEF DatabasesInv, D!TypeOK, D!Connections
  <2> QED BY <1>1, <1>2, <2>1, <2>2 DEF DatabasesInv, D!TypeOK
<1>6. Orderly'
  BY <1>1, <1>2, <1>3, <1>4, OneCallMoves
<1>7. Budgeted'
  BY <1>1, <1>2, <1>4, PoolsStay
<1>8. Home'
  <2>1. SUFFICES ASSUME SchemaHome, SeederHome, TablesHome PROVE SchemaHome' /\ SeederHome' /\ TablesHome'
    BY <1>1 DEF DatabasesInv, Home
  <2>2. SchemaHome'
    <3>1. schema' = Platform
      BY <1>1, <1>2, <2>1 DEF SchemaHome
    <3>2. \A d \in Calls : stage'[d] \notin SchemaUsers
      BY <1>2, <1>4, <2>1 DEF SchemaHome
    <3> QED BY <1>2, <3>1, <3>2 DEF SchemaHome
  <2>3. SeederHome'
    BY <1>1, <1>2, <1>4, <2>1, SeederStays
  <2>4. TablesHome'
    <3>1. ASSUME NEW d \in Calls PROVE Filled(d)'
      <4>1. CASE d = c
        <5>1. s = "sync" => tables[tenant[c]][tenant[c]] = Ups
          <6>1. tables[tenant[c]][tenant[c]] \in 0..Ups /\ Ups \in Nat
            BY <1>3, DatabasesAssumption DEF DatabasesInv, D!TypeOK, D!Connections, D!DatabasesAssumption
          <6>2. s = "sync" => ups[c] = Ups /\ ups[c] <= tables[tenant[c]][tenant[c]]
            BY <1>1, <2>1 DEF TablesHome, Filled
          <6> QED BY <6>1, <6>2
        <5> QED BY <1>1, <1>4, <4>1, <5>1 DEF Filled, D!Seeding
      <4>2. CASE d # c
        BY <1>1, <1>4, <2>1, <4>2 DEF TablesHome, Filled
      <4> QED BY <4>1, <4>2
    <3> QED BY <1>1, <2>1, <3>1 DEF TablesHome
  <2> QED BY <2>2, <2>3, <2>4
<1> QED BY <1>5, <1>6, <1>7, <1>8 DEF DatabasesInv

LEMMA InitializeEnds ==
  ASSUME DatabasesInv, NEW c \in Calls, D!EndInitialize(c) PROVE DatabasesInv'
<1>1. /\ stage[c] \in {"seeded", "seed failed"} /\ stage' = [stage EXCEPT ![c] = "done"]
      /\ seeder' = previous[c] /\ previous' = [previous EXCEPT ![c] = Platform]
      /\ initializeMu' = None
      /\ made' = made \/ (stage[c] = "seeded" /\ made' = made \union {tenant[c]})
      /\ UNCHANGED <<rows, databases, tables, seeds, room, pools, config, schema, disturbed>>
      /\ UNCHANGED <<saw, ups, registerMu, tenant>>
  BY DEF D!EndInitialize, D!GoTo, D!registryVars
<1>2. /\ "done" \in D!Stages /\ "done" \notin D!Registered /\ stage[c] \notin SchemaUsers
      /\ stage[c] \in D!Seeding /\ D!Seeding \subseteq Initializing
      /\ SeederUsers = D!Seeding \union D!PlatformSeeding /\ "migrate" \in SchemaUsers
      /\ "done" \notin SeederUsers /\ "done" \notin SchemaUsers /\ "done" \notin Initializing
      /\ "seed" \in D!Seeding /\ "done" \notin Making
  BY <1>1 DEF D!Stages, SchemaUsers, SeederUsers, D!Registered, Initializing, Making,
              D!Migrating, D!Probing, D!Seeding, D!PlatformSeeding
<1>3. ups[c] = 0 /\ tenant[c] \in Tenants /\ initializeMu = c
  BY <1>1, <1>2 DEF DatabasesInv, Orderly, Fresh, Serving, Ordered
<1>4. stage'[c] = "done"
      /\ \A d \in Calls \ {c} : stage'[d] = stage[d] /\ previous'[d] = previous[d]
  BY <1>1 DEF DatabasesInv, D!TypeOK
<1>5. D!TypeOK'
  BY <1>1, <1>2, <1>3 DEF DatabasesInv, D!TypeOK, D!Connections
<1>6. Orderly'
  BY <1>1, <1>2, <1>3, <1>4, OneCallMoves
<1>7. Budgeted'
  BY <1>1, <1>2, <1>4, PoolsStay
<1>8. Home'
  <2>1. SUFFICES ASSUME SchemaHome, SeederHome, TablesHome
                 PROVE  SchemaHome' /\ SeederHome' /\ TablesHome'
    BY <1>1 DEF DatabasesInv, Home
  <2>2. SchemaHome'
    BY <1>1, <1>2, <1>4, <2>1, SchemaStays
  <2>3. SeederHome'
    <3>1. seeder' = Platform
      BY <1>1, <1>2, <2>1 DEF SeederHome
    <3>2. \A d \in Calls : stage'[d] \notin D!Seeding
      BY <1>2, <1>4, <2>1 DEF SeederHome
    <3>3. \A d \in Calls : stage'[d] \in SeederUsers => previous'[d] = Platform
      BY <1>2, <1>4, <2>1 DEF SeederHome
    <3> QED BY <1>2, <3>1, <3>2, <3>3 DEF SeederHome
  <2>4. TablesHome'
    <3>1. \A d \in Calls : stage'[d] \in Making => stage'[d] = stage[d]
      BY <1>2, <1>4
    <3>2. ASSUME NEW d \in Calls PROVE Filled(d)'
      BY <1>1, <2>1, <3>1 DEF TablesHome, Filled, Making, D!Seeding
    <3>3. stage[c] = "seeded" => tables[tenant[c]][tenant[c]] = Ups /\ tenant[c] \in seeds[tenant[c]]
      BY <1>2, <2>1 DEF TablesHome, Filled
    <3> QED BY <1>1, <2>1, <3>2, <3>3 DEF TablesHome
  <2> QED BY <2>2, <2>3, <2>4
<1> QED BY <1>5, <1>6, <1>7, <1>8 DEF DatabasesInv

\* The platform's own seeds, which no mutex orders.
LEMMA PlatformSeeds ==
  ASSUME DatabasesInv, NEW c \in Calls, D!BeginPlatformSeeds(c) PROVE DatabasesInv'
<1>1. /\ stage[c] = "idle" /\ stage' = [stage EXCEPT ![c] = "platform seed"]
      /\ previous' = [previous EXCEPT ![c] = seeder] /\ seeder' = Platform
      /\ D!Overlap(c, D!Seeding)
      /\ UNCHANGED <<rows, databases, tables, seeds, made, room, pools, config, schema>>
      /\ UNCHANGED <<saw, ups, registerMu, initializeMu, tenant>>
  BY DEF D!BeginPlatformSeeds, D!GoTo, D!rowVars, D!registryVars, D!mutexes
<1>2. /\ "platform seed" \in D!Stages /\ "platform seed" \notin D!Registered
      /\ {"idle", "platform seed"} \cap SchemaUsers = {} /\ "platform seed" \notin Making
      /\ "platform seed" \notin D!Seeding /\ "idle" \notin D!Seeding /\ "platform seed" \notin Initializing
      /\ SeederUsers = D!Seeding \union D!PlatformSeeding /\ "migrate" \in SchemaUsers /\ "seed" \in D!Seeding
  BY DEF D!Stages, SchemaUsers, SeederUsers, D!Registered, Initializing, Making,
              D!Migrating, D!Probing, D!Seeding, D!PlatformSeeding
<1>3. ups[c] = 0
  BY <1>1 DEF DatabasesInv, Orderly, Fresh
<1>4. stage'[c] = "platform seed" /\ previous'[c] = seeder
      /\ \A d \in Calls \ {c} : stage'[d] = stage[d] /\ previous'[d] = previous[d]
  BY <1>1 DEF DatabasesInv, D!TypeOK
<1>5. D!TypeOK'
  <2>1. disturbed' \in BOOLEAN
    BY <1>1 DEF D!Overlap, DatabasesInv, D!TypeOK
  <2> QED BY <1>1, <1>2, <2>1 DEF DatabasesInv, D!TypeOK, D!Connections
<1>6. Orderly'
  BY <1>1, <1>2, <1>3, <1>4, OneCallMoves
<1>7. Budgeted'
  BY <1>1, <1>2, <1>4, PoolsStay
<1>8. Home'
  <2>1. SUFFICES ASSUME ~disturbed' PROVE SchemaHome' /\ SeederHome' /\ TablesHome'
    BY DEF Home
  <2>2. ~disturbed /\ \A d \in Calls : stage[d] \notin D!Seeding
    BY <1>1, <1>2, <2>1 DEF D!Overlap
  <2>3. SchemaHome /\ SeederHome /\ TablesHome
    BY <2>2 DEF DatabasesInv, Home
  <2>4. seeder = Platform
    BY <2>2, <2>3 DEF SeederHome
  <2>5. SeederHome'
    <3>1. \A d \in Calls : stage'[d] \notin D!Seeding
      BY <1>2, <1>4, <2>2
    <3>2. \A d \in Calls : stage'[d] \in SeederUsers => previous'[d] = Platform
      BY <1>4, <2>3, <2>4 DEF SeederHome
    <3> QED BY <1>1, <1>2, <3>1, <3>2 DEF SeederHome
  <2>6. SchemaHome'
    BY <1>1, <1>2, <1>4, <2>3, SchemaStays
  <2>7. TablesHome'
    BY <1>1, <1>2, <1>4, <2>3, TablesStay
  <2> QED BY <2>5, <2>6, <2>7
<1> QED BY <1>5, <1>6, <1>7, <1>8 DEF DatabasesInv

LEMMA PlatformSeedsEnd ==
  ASSUME DatabasesInv, NEW c \in Calls, D!EndPlatformSeeds(c) PROVE DatabasesInv'
<1>1. /\ stage[c] = "platform seed" /\ stage' = [stage EXCEPT ![c] = "done"]
      /\ seeder' = previous[c] /\ previous' = [previous EXCEPT ![c] = Platform]
      /\ UNCHANGED <<rows, databases, tables, seeds, made, room, pools, config, schema, disturbed>>
      /\ UNCHANGED <<saw, ups, registerMu, initializeMu, tenant>>
  BY DEF D!EndPlatformSeeds, D!GoTo, D!rowVars, D!registryVars, D!mutexes
<1>2. /\ "done" \in D!Stages /\ "done" \notin D!Registered /\ "platform seed" \in SeederUsers
      /\ {"done", "platform seed"} \cap SchemaUsers = {} /\ "done" \notin Making
      /\ "platform seed" \notin D!Seeding /\ "done" \notin D!Seeding /\ "done" \notin Initializing
      /\ SeederUsers = D!Seeding \union D!PlatformSeeding /\ "migrate" \in SchemaUsers /\ "seed" \in D!Seeding
      /\ "done" \notin SeederUsers
  BY <1>1 DEF D!Stages, SchemaUsers, SeederUsers, D!Registered, Initializing, Making,
              D!Migrating, D!Probing, D!Seeding, D!PlatformSeeding
<1>3. ups[c] = 0
  BY <1>1 DEF DatabasesInv, Orderly, Fresh
<1>4. stage'[c] = "done"
      /\ \A d \in Calls \ {c} : stage'[d] = stage[d] /\ previous'[d] = previous[d]
  BY <1>1 DEF DatabasesInv, D!TypeOK
<1>5. D!TypeOK'
  BY <1>1, <1>2 DEF DatabasesInv, D!TypeOK, D!Connections
<1>6. Orderly'
  BY <1>1, <1>2, <1>3, <1>4, OneCallMoves
<1>7. Budgeted'
  BY <1>1, <1>2, <1>4, PoolsStay
<1>8. Home'
  <2>1. SUFFICES ASSUME SchemaHome, SeederHome, TablesHome
                 PROVE  SchemaHome' /\ SeederHome' /\ TablesHome'
    BY <1>1 DEF DatabasesInv, Home
  <2>2. SchemaHome'
    BY <1>1, <1>2, <1>4, <2>1, SchemaStays
  <2>3. SeederHome'
    <3>1. seeder' = Platform
      BY <1>1, <1>2, <2>1 DEF SeederHome
    <3>2. \A d \in Calls : stage'[d] \notin D!Seeding
      BY <1>1, <1>2, <1>4, <2>1 DEF SeederHome
    <3>3. \A d \in Calls : stage'[d] \in SeederUsers => previous'[d] = Platform
      BY <1>2, <1>4, <2>1 DEF SeederHome
    <3> QED BY <1>2, <3>1, <3>2, <3>3 DEF SeederHome
  <2>4. TablesHome'
    BY <1>1, <1>2, <1>4, <2>1, TablesStay
  <2> QED BY <2>2, <2>3, <2>4
<1> QED BY <1>5, <1>6, <1>7, <1>8 DEF DatabasesInv

LEMMA Destruction ==
  ASSUME DatabasesInv, NEW t \in Tenants, D!Destroy(t) PROVE DatabasesInv'
<1>1. /\ rows' = rows \ {t} /\ made' = made \ {t}
      /\ UNCHANGED <<room, pools, config, schema, seeder, disturbed, saw, previous, ups>>
      /\ UNCHANGED <<registerMu, initializeMu, stage, tenant>>
      /\ \/ UNCHANGED <<databases, tables, seeds>>
         \/ /\ \A c \in Calls : tenant[c] = t => stage[c] = "done"
            /\ databases' = databases \ {t}
            /\ tables' = [tables EXCEPT ![t] = [u \in Tenants |-> 0]]
            /\ seeds' = [seeds EXCEPT ![t] = {}]
  BY DEF D!Destroy, D!registryVars, D!globalVars, D!localVars, D!mutexes
<1>2. /\ tables \in [D!Connections -> [Tenants -> 0..Ups]] /\ seeds \in [D!Connections -> SUBSET Tenants]
      /\ made \subseteq Tenants /\ Ups \in Nat /\ Tenants \subseteq D!Connections
  BY DatabasesAssumption DEF DatabasesInv, D!TypeOK, D!DatabasesAssumption, D!Connections
<1>3. D!TypeOK'
  <2>1. tables' \in [D!Connections -> [Tenants -> 0..Ups]]
    <3>1. [u \in Tenants |-> 0] \in [Tenants -> 0..Ups]
      BY <1>2
    <3> QED BY <1>1, <1>2, <3>1
  <2>2. seeds' \in [D!Connections -> SUBSET Tenants]
    BY <1>1, <1>2
  <2> QED BY <1>1, <2>1, <2>2 DEF DatabasesInv, D!TypeOK
<1>4. Orderly'
  BY <1>1 DEF DatabasesInv, Orderly, Serving, Ordered, Fresh
<1>5. Budgeted'
  BY <1>1, PoolsStay
<1>6. Home'
  <2>1. SUFFICES ASSUME SchemaHome, SeederHome, TablesHome
                 PROVE  SchemaHome' /\ SeederHome' /\ TablesHome'
    BY <1>1 DEF DatabasesInv, Home
  <2>2. SchemaHome' /\ SeederHome'
    BY <1>1, <2>1 DEF SchemaHome, SeederHome
  <2>3. TablesHome'
    <3>1. CASE UNCHANGED <<databases, tables, seeds>>
      BY <1>1, <2>1, <3>1, TablesStay
    <3>2. CASE /\ \A c \in Calls : tenant[c] = t => stage[c] = "done"
               /\ tables' = [tables EXCEPT ![t] = [u \in Tenants |-> 0]]
               /\ seeds' = [seeds EXCEPT ![t] = {}]
      <4>1. \A k \in D!Connections \ {t} : tables'[k] = tables[k] /\ seeds'[k] = seeds[k]
        BY <1>2, <3>2
      <4>2. (\A u \in Tenants : tables'[t][u] = 0) /\ seeds'[t] = {}
        BY <1>2, <3>2
      <4>3. ASSUME NEW d \in Calls PROVE Filled(d)'
        <5>1. CASE tenant[d] = t
          BY <1>1, <3>2, <5>1 DEF Filled, D!Seeding
        <5>2. CASE tenant[d] # t
          <6>1. stage[d] \in Making => tenant[d] \in Tenants
            BY DEF DatabasesInv, Orderly, Serving, Making, D!Seeding
          <6> QED BY <1>1, <1>2, <2>1, <4>1, <5>2, <6>1 DEF TablesHome, Filled, Making, D!Seeding
        <5> QED BY <5>1, <5>2
      <4>4. \A k \in D!Connections, u \in Tenants : k # u => tables'[k][u] = 0 /\ u \notin seeds'[k]
        BY <2>1, <4>1, <4>2 DEF TablesHome
      <4>5. \A u \in made' : tables'[u][u] = Ups /\ u \in seeds'[u]
        BY <1>1, <1>2, <2>1, <4>1 DEF TablesHome
      <4> QED BY <4>3, <4>4, <4>5 DEF TablesHome
    <3> QED BY <1>1, <3>1, <3>2
  <2> QED BY <2>2, <2>3
<1> QED BY <1>3, <1>4, <1>5, <1>6 DEF DatabasesInv

LEMMA DatabasesStep == DatabasesInv /\ [D!Next]_D!vars => DatabasesInv'
<1> SUFFICES ASSUME DatabasesInv, [D!Next]_D!vars PROVE DatabasesInv'
  OBVIOUS
<1>1. CASE UNCHANGED D!vars
  <2>1. UNCHANGED <<rows, databases, tables, seeds, made, room, pools, config, schema, seeder>>
        /\ UNCHANGED <<disturbed, saw, previous, ups, registerMu, initializeMu, stage, tenant>>
    BY <1>1 DEF D!vars, D!rowVars, D!registryVars, D!globalVars, D!localVars, D!mutexes
  <2>2. D!TypeOK' /\ Orderly' /\ Budgeted'
    BY <2>1 DEF DatabasesInv, D!TypeOK, Orderly, Serving, Ordered, Fresh, Budgeted
  <2>3. Home'
    BY <2>1 DEF DatabasesInv, Home, SchemaHome, SeederHome, TablesHome, Filled
  <2> QED BY <2>2, <2>3 DEF DatabasesInv
<1>2. ASSUME NEW c \in Calls, NEW t \in Tenants,
             D!Request(c, t) \/ D!CreateRow(c, t) \/ D!ReadProbeConnection(c, t)
      PROVE  DatabasesInv'
  BY <1>2, Beginnings, Probes
<1>3. ASSUME NEW c \in Calls,
             D!ReadConnections(c) \/ D!AddConnection(c) \/ D!CreateDatabase(c) \/ D!TenantStatements(c)
               \/ D!BeginInitialize(c)
      PROVE  DatabasesInv'
  BY <1>3, Looking, Registration, Provisioning
<1>4. ASSUME NEW c \in Calls,
             D!SetMigrationConnection(c) \/ D!Migrate(c) \/ D!RestoreMigrationConnection(c)
               \/ D!SetProbeConnection(c) \/ D!RestoreProbeConnection(c)
      PROVE  DatabasesInv'
  BY <1>4, SettingSchema, MigrationSteps, RestoringSchema
<1>5. ASSUME NEW c \in Calls,
             D!SetSeederConnection(c) \/ D!Seed(c) \/ D!EndInitialize(c) \/ D!BeginPlatformSeeds(c)
               \/ D!EndPlatformSeeds(c)
      PROVE  DatabasesInv'
  BY <1>5, SettingSeeder, SeederRuns, InitializeEnds, PlatformSeeds, PlatformSeedsEnd
<1>6. ASSUME NEW t \in Tenants, D!Destroy(t) PROVE DatabasesInv'
  BY <1>6, Destruction
<1> QED BY <1>1, <1>2, <1>3, <1>4, <1>5, <1>6 DEF D!Next

\* However many tenants meet in a process, its pools stay within the budget and no
\* registration undoes another, for any number of goroutines, tenants and pools
\* (tenantConnectionRegistry, RegisterTenantConnection).
THEOREM PoolsKept == D!Spec => []PoolsWithinBudget
<1>1. DatabasesInv => PoolsWithinBudget
  BY SamePoolCounts DEF DatabasesInv, Budgeted, PoolsWithinBudget, D!PoolsWithinBudget
<1> QED BY <1>1, DatabasesFirst, DatabasesStep, PTL DEF D!Spec

\* The tables and seeds of a tenant are made in its own database, and all of them by the
\* time its creation is answered, unless a probe or the platform's seeds fell into it, for
\* any number of goroutines, tenants and migrations (InitializeDatabase).
THEOREM HomeKept == D!Spec => []TenantsStayHome
<1>1. DatabasesInv => TenantsStayHome
  BY DEF DatabasesInv, Home, SchemaHome, TablesHome, SchemaUsers, TenantsStayHome,
         D!TenantsStayHome
<1> QED BY <1>1, DatabasesFirst, DatabasesStep, PTL DEF D!Spec

-----------------------------------------------------------------------------
(* The trail of a tenant's permissions. *)

\* The newest row of the trail tells the permissions the tenant has, for any number of
\* calls and plans: whoever else writes the column says so in the same step (Told).
THEOREM TrailTold == T!Spec => []TrailTellsPermissions
<1> DEFINE Inv == T!TrailTellsPermissions
<1>1. T!Init => Inv
  BY DEF T!Init, T!TrailTellsPermissions
<1>2. Inv /\ [T!Next]_T!vars => Inv'
  <2> SUFFICES ASSUME Inv, [T!Next]_T!vars PROVE Inv'
    OBVIOUS
  <2>1. CASE UNCHANGED <<features, told, writer>>
    BY <2>1 DEF T!TrailTellsPermissions, T!Effective
  <2>2. CASE \E c \in Calls : T!WriteFormJSON(c)
    BY <2>2 DEF T!WriteFormJSON, T!TrailTellsPermissions, T!Effective, T!trailVars
  <2>3. ASSUME NEW c \in Calls, T!CommitPermissions(c) \/ T!CommitPlan(c) \/ T!CommitSnapshot(c)
        PROVE  Inv'
    BY <2>3 DEF T!CommitPermissions, T!CommitPlan, T!CommitSnapshot, T!WriteFeatures, T!Told,
                T!trailVars, T!TrailTellsPermissions, T!Effective
  <2>4. CASE UNCHANGED T!vars
    BY <2>1, <2>4 DEF T!vars, T!trailVars
  <2>5. ASSUME NEW c \in Calls, NEW s, NEW p, NEW x, NEW o,
               \/ T!ReadForm(c, s, p) \/ T!PlanOfForm(c) \/ T!WriteForm(c) \/ T!UpdateStatus(c, s)
               \/ T!ReadPermissions(c, x) \/ T!ReadPlanChange(c, p, x) \/ T!CreatePlan(c, p, x)
               \/ T!PlanOfChange(c) \/ T!ReadLegacy(c) \/ T!ReadPlanRow(c, p, x, o)
               \/ T!WritePlanRow(c) \/ T!WritePlanJSON(c) \/ T!ReadCodes(c, p)
               \/ T!CountTenants(c) \/ T!DeletePlan(c)
        PROVE  Inv'
    BY <2>1, <2>5 DEF T!ReadForm, T!PlanOfForm, T!WriteForm, T!UpdateStatus, T!ReadPermissions,
       T!ReadPlanChange, T!CreatePlan, T!PlanOfChange, T!ReadLegacy, T!ReadPlanRow, T!WritePlanRow,
       T!WritePlanJSON, T!ReadCodes, T!CountTenants, T!DeletePlan, T!rowVars, T!trailVars
  <2> QED BY <2>2, <2>3, <2>4, <2>5 DEF T!Next
<1>3. Inv => TrailTellsPermissions
  BY DEF TrailTellsPermissions
<1> QED BY <1>1, <1>2, <1>3, PTL DEF T!Spec

-----------------------------------------------------------------------------
(* The users of a tenant. *)

Rows == [row : Nat, common : Nat]
UserTypes ==
  /\ records \in [U!Subjects -> Nat] /\ version \in [U!Subjects -> Nat]
  /\ lapsing \in [U!Subjects -> Nat] /\ shown \in [U!Subjects -> Nat]
  /\ deleted \subseteq Ids /\ signedOn \subseteq Ids
  /\ cache \subseteq [key : Nat \X Ids \X Nat, info : Rows, left : Nat, late : BOOLEAN]
  /\ act \in [Procs -> {"idle", "count", "insert", "commit", "invalidate"}]
  /\ of \in [Procs -> U!Subjects]
  /\ turn \in [Readers -> {"idle", "look", "build", "put"}]
  /\ who \in [Readers -> Ids \union {U!Someone}]
  /\ info \in [Readers -> Rows] /\ expected \in [Readers -> Rows]
  /\ crowded \in BOOLEAN /\ fellBack \in BOOLEAN

\* What was made by operators, and how the quota is kept while a call that has looked at
\* it is the only one that makes a user.
Members == U!Existing \ signedOn
QuotaKept ==
  /\ \A c \in Procs : act[c] = "commit" => records[of[c]] > 0
  /\ ~crowded /\ MaxUsers # 0 =>
       /\ Cardinality(Members) <= MaxUsers
       /\ \A c \in Procs : act[c] = "insert" => Cardinality(Members) + 1 <= MaxUsers

\* A request expects nothing that has not been shown yet, and has read nothing older.
Asked ==
  /\ \A s \in U!Subjects : shown[s] <= records[s]
  /\ \A q \in Readers : turn[q] # "idle" =>
       /\ who[q] \in Ids
       /\ expected[q].row <= shown[who[q]] /\ expected[q].common <= shown[Everyone]
       /\ expected[q].row <= info[q].row
       /\ turn[q] = "put" => expected[q].common <= info[q].common

\* While versions can be incremented, none is used twice: what is found under the newest
\* ones shows everything that has been shown, or was built across an invalidation.
FoundAt(e, a, u, b) == e.key = <<a, u, b>>
ShowsAll(e) ==
  \A u \in Ids, a, b \in Nat : FoundAt(e, a, u, b) =>
    /\ a <= version[Everyone] /\ b <= version[u]
    /\ a = version[Everyone] /\ b = version[u] /\ ~e.late =>
         shown[u] <= e.info.row /\ shown[Everyone] <= e.info.common
ToldAll ==
  ~fellBack =>
    /\ outdated = {} /\ \A s \in U!Subjects : lapsing[s] = 0
    /\ \A e \in cache : ShowsAll(e)

UsersInv == UserTypes /\ QuotaKept /\ Asked /\ ToldAll

LEMMA UserNumbers ==
  /\ IsFiniteSet(Ids) /\ Everyone \notin Ids /\ MaxUsers \in Nat /\ InfoTTL \in Nat
  /\ U!Subjects = Ids \union {Everyone} /\ \A S : U!Cardinality(S) = Cardinality(S)
<1>1. U!IsFiniteSet(Ids) => IsFiniteSet(Ids)
  BY DEF U!IsFiniteSet, IsFiniteSet
<1>2. \A S : U!Cardinality(S) = Cardinality(S)
  BY DEF U!Cardinality, Cardinality
<1> QED BY <1>1, <1>2, UsersAssumption DEF U!UsersAssumption, U!Subjects

LEMMA UserCount ==
  /\ IsFiniteSet(Members) /\ Cardinality(Members) \in Nat
  /\ U!Cardinality(U!Existing) = Cardinality(U!Existing) /\ Cardinality(U!Existing) \in Nat
  /\ Cardinality(Members) <= Cardinality(U!Existing)
<1>1. U!Existing \subseteq Ids /\ Members \subseteq U!Existing
  BY DEF U!Existing, Members
<1>2. IsFiniteSet(U!Existing)
  BY <1>1, UserNumbers, FS_Subset
<1> QED BY <1>1, <1>2, UserNumbers, FS_Subset, FS_CardinalityType

\* Nobody is added: the quota is kept as it was.
LEMMA QuotaStays ==
  ASSUME UsersInv, IsFiniteSet(Members), Members' \subseteq Members,
         ~crowded' => ~crowded,
         \A c \in Procs : act'[c] = "commit" => records'[of'[c]] > 0,
         \A c \in Procs : ~crowded' /\ MaxUsers # 0 /\ act'[c] = "insert" =>
           act[c] = "insert" \/ Cardinality(Members) + 1 <= MaxUsers
  PROVE  QuotaKept'
<1>1. Cardinality(Members') <= Cardinality(Members) /\ Cardinality(Members') \in Nat
      /\ Cardinality(Members) \in Nat /\ MaxUsers \in Nat
  BY FS_Subset, FS_CardinalityType, UserNumbers
<1> QED BY <1>1 DEF UsersInv, QuotaKept

LEMMA InfoStays ==
  ASSUME UsersInv, UserTypes', \A s \in U!Subjects : records[s] <= records'[s],
         UNCHANGED <<version, lapsing, cache, turn, who, info, expected, shown, fellBack, outdated>>
  PROVE  Asked' /\ ToldAll'
<1>1. Asked'
  BY DEF UsersInv, UserTypes, Asked
<1>2. ToldAll'
  BY DEF UsersInv, ToldAll, ShowsAll
<1> QED BY <1>1, <1>2

LEMMA UsersFirst == U!Init => UsersInv
<1> SUFFICES ASSUME U!Init PROVE UsersInv
  OBVIOUS
<1>1. UserTypes
  <2>1. records \in [U!Subjects -> Nat] /\ U!NoInfo \in Rows
    BY DEF U!Init, U!NoInfo, Rows
  <2>2. of \in [Procs -> U!Subjects]
    BY UserNumbers DEF U!Init
  <2>3. info \in [Readers -> Rows] /\ expected \in [Readers -> Rows]
    BY <2>1 DEF U!Init
  <2> QED BY <2>1, <2>2, <2>3 DEF UserTypes, U!Init
<1>2. QuotaKept
  <2>1. MaxUsers # 0 => Cardinality(Members) <= MaxUsers
    BY UserCount, UserNumbers DEF U!Init
  <2> QED BY <2>1 DEF QuotaKept, U!Init
<1>3. Asked
  BY <1>1 DEF Asked, U!Init, UserTypes
<1>4. ToldAll
  BY DEF ToldAll, U!Init
<1> QED BY <1>1, <1>2, <1>3, <1>4 DEF UsersInv

\* Operators: the steps before a call invalidates what is kept of its user.
OperatorActs(c) ==
  \/ \E u \in Ids : U!CreateUser(c, u) \/ U!DeleteUsers(c, u)
  \/ \E s \in U!Subjects : U!UpdateUser(c, s)
  \/ U!EnsureResourceQuota(c) \/ U!Commit(c) \/ U!TransactionFails(c)

LEMMA OperatorActsStep ==
  ASSUME UsersInv, NEW c \in Procs, OperatorActs(c)
  PROVE  UsersInv'
<1>1. /\ UNCHANGED <<version, lapsing, cache, turn, who, info, expected>>
      /\ UNCHANGED <<shown, signedOn, crowded, fellBack, outdated>>
  BY DEF OperatorActs, U!CreateUser, U!DeleteUsers, U!UpdateUser, U!EnsureResourceQuota, U!Commit,
         U!TransactionFails, U!rowVars, U!cacheVars, U!requestVars, U!quotaVars
<1>2. PICK a \in {"idle", "count", "insert", "commit", "invalidate"}, s \in U!Subjects :
        /\ act' = [act EXCEPT ![c] = a] /\ of' = [of EXCEPT ![c] = s]
        /\ a = "commit" => records'[s] > 0
        /\ a = "insert" => act[c] = "count" /\ U!WithinQuota
        /\ deleted \subseteq deleted' /\ deleted' \subseteq Ids
        /\ \/ UNCHANGED records
           \/ act[c] = "commit" /\ s = of[c] /\ records' = [records EXCEPT ![s] = @ + 1]
  <2>1. CASE \E u \in Ids : U!CreateUser(c, u)
    BY <2>1, UserNumbers DEF U!CreateUser, U!Begin, U!rowVars, UsersInv, UserTypes
  <2>2. CASE \E u \in Ids : U!DeleteUsers(c, u)
    <3>1. PICK u \in Ids : U!DeleteUsers(c, u)
      BY <2>2
    <3>2. /\ act' = [act EXCEPT ![c] = "invalidate"] /\ of' = [of EXCEPT ![c] = u]
          /\ deleted' = deleted \union {u} /\ UNCHANGED records
      BY <3>1 DEF U!DeleteUsers, U!Begin
    <3>3. u \in U!Subjects /\ deleted \subseteq Ids
      BY UserNumbers DEF UsersInv, UserTypes
    <3> QED BY <3>2, <3>3
  <2>3. CASE \E s \in U!Subjects : U!UpdateUser(c, s)
    BY <2>3 DEF U!UpdateUser, U!Begin, U!rowVars, UsersInv, UserTypes
  <2>4. of = [of EXCEPT ![c] = of[c]] /\ of[c] \in U!Subjects
    BY DEF UsersInv, UserTypes
  <2>5. CASE U!EnsureResourceQuota(c)
    BY <2>4, <2>5 DEF U!EnsureResourceQuota, U!Then, U!rowVars, UsersInv, UserTypes
  <2>6. CASE U!Commit(c)
    BY <2>4, <2>6 DEF U!Commit, U!Then, UsersInv, UserTypes
  <2>7. CASE U!TransactionFails(c)
    BY <2>4, <2>7 DEF U!TransactionFails, U!Then, U!rowVars, UsersInv, UserTypes
  <2> QED BY <2>1, <2>2, <2>3, <2>5, <2>6, <2>7 DEF OperatorActs
<1>3. /\ records' \in [U!Subjects -> Nat]
      /\ \A x \in U!Subjects : /\ records[x] <= records'[x]
                               /\ records'[x] > 0 => records[x] > 0
  BY <1>2 DEF UsersInv, UserTypes, QuotaKept
<1>4. UserTypes'
  BY <1>1, <1>2, <1>3 DEF UsersInv, UserTypes
<1>5. Members' \subseteq Members
  BY <1>1, <1>2, <1>3, UserNumbers DEF Members, U!Existing
<1>6. QuotaKept'
  <2>1. U!WithinQuota /\ MaxUsers # 0 => Cardinality(Members) + 1 <= MaxUsers
    BY UserCount, UserNumbers DEF U!WithinQuota
  <2>2. \A d \in Procs : act'[d] = "commit" => records'[of'[d]] > 0
    BY <1>2, <1>3 DEF UsersInv, UserTypes, QuotaKept
  <2>3. \A d \in Procs : ~crowded' /\ MaxUsers # 0 /\ act'[d] = "insert" =>
          act[d] = "insert" \/ Cardinality(Members) + 1 <= MaxUsers
    BY <1>2, <2>1 DEF UsersInv, UserTypes
  <2> QED BY <1>1, <1>5, <2>2, <2>3, UserCount, QuotaStays
<1>7. Asked' /\ ToldAll'
  BY <1>1, <1>3, <1>4, InfoStays
<1> QED BY <1>4, <1>6, <1>7 DEF UsersInv

LEMMA InsertUserStep ==
  ASSUME UsersInv, NEW c \in Procs, U!InsertUser(c)
  PROVE  UsersInv'
<1> DEFINE s == of[c]
<1>1. /\ act[c] = "insert" /\ act' = [act EXCEPT ![c] = "invalidate"]
      /\ records[s] = 0 /\ records' = [records EXCEPT ![s] = 1]
      /\ crowded' = (crowded \/ \E d \in Procs \ {c} : act[d] = "insert")
      /\ UNCHANGED <<deleted, version, lapsing, cache, turn, who, info, expected>>
      /\ UNCHANGED <<of, shown, signedOn, fellBack, outdated>>
  BY DEF U!InsertUser, U!Then, U!cacheVars, U!requestVars
<1>2. s \in U!Subjects /\ \A x \in U!Subjects : records[x] <= records'[x]
  BY <1>1 DEF UsersInv, UserTypes
<1>3. UserTypes'
  BY <1>1, <1>2 DEF UsersInv, UserTypes
<1>4. Asked' /\ ToldAll'
  BY <1>1, <1>2, <1>3, InfoStays
<1>5. QuotaKept'
  <2>1. \A d \in Procs : act'[d] = "commit" => records'[of'[d]] > 0
    BY <1>1, <1>2 DEF UsersInv, UserTypes, QuotaKept
  <2>2. SUFFICES ASSUME ~crowded', MaxUsers # 0
                 PROVE  /\ Cardinality(Members') <= MaxUsers
                        /\ \A d \in Procs : act'[d] # "insert"
    BY <2>1 DEF QuotaKept
  <2>3. ~crowded /\ Cardinality(Members) + 1 <= MaxUsers /\ \A d \in Procs \ {c} : act[d] # "insert"
    BY <1>1, <2>2 DEF UsersInv, QuotaKept
  <2>4. Members' \subseteq Members \union {s}
    BY <1>1, <1>2, UserNumbers DEF Members, U!Existing, UsersInv, UserTypes
  <2>5. /\ IsFiniteSet(Members \union {s}) /\ Cardinality(Members \union {s}) \in Nat
        /\ Cardinality(Members \union {s}) <= Cardinality(Members) + 1
    BY UserCount, FS_AddElement, FS_CardinalityType
  <2>6. Cardinality(Members') <= Cardinality(Members \union {s}) /\ Cardinality(Members') \in Nat
    BY <2>4, <2>5, FS_Subset, FS_CardinalityType
  <2> QED BY <1>1, <2>3, <2>5, <2>6, UserCount, UserNumbers DEF UsersInv, UserTypes
<1> QED BY <1>3, <1>4, <1>5 DEF UsersInv

LEMMA SignOnStep ==
  ASSUME UsersInv, NEW u \in Ids, U!SignOnCreates(u)
  PROVE  UsersInv'
<1>1. /\ records[u] = 0 /\ records' = [records EXCEPT ![u] = 1] /\ signedOn' = signedOn \union {u}
      /\ crowded' = (crowded \/ \E d \in Procs : act[d] = "insert")
      /\ UNCHANGED <<deleted, version, lapsing, cache, act, of, turn, who, info, expected>>
      /\ UNCHANGED <<shown, fellBack, outdated>>
  BY DEF U!SignOnCreates, U!cacheVars, U!callVars, U!requestVars
<1>2. u \in U!Subjects /\ \A x \in U!Subjects : records[x] <= records'[x]
  BY <1>1, UserNumbers DEF UsersInv, UserTypes
<1>3. UserTypes'
  BY <1>1, <1>2 DEF UsersInv, UserTypes
<1>4. Asked' /\ ToldAll'
  BY <1>1, <1>2, <1>3, InfoStays
<1>5. Members' \subseteq Members
  BY <1>1, UserNumbers DEF Members, U!Existing, UsersInv, UserTypes
<1>6. QuotaKept'
  <2>1. \A d \in Procs : act'[d] = "commit" => records'[of'[d]] > 0
    BY <1>1, <1>2 DEF UsersInv, UserTypes, QuotaKept
  <2>2. ~crowded' => ~crowded
    BY <1>1
  <2> QED BY <1>1, <1>5, <2>1, <2>2, UserCount, QuotaStays
<1> QED BY <1>3, <1>4, <1>6 DEF UsersInv

\* An invalidation: nothing that is kept is under the newest versions any more.
LEMMA InvalidationStep ==
  ASSUME UsersInv, NEW c \in Procs, U!InvalidateCurrentUserInfo(c)
  PROVE  UsersInv'
<1> DEFINE s == of[c]
<1>1. /\ act[c] = "invalidate" /\ act' = [act EXCEPT ![c] = "idle"]
      /\ shown' = [shown EXCEPT ![s] = records[s]]
      /\ \/ /\ version' = [version EXCEPT ![s] = version[s] + 1] /\ UNCHANGED <<lapsing, fellBack>>
         \/ /\ version' = [version EXCEPT ![s] = 2] /\ fellBack' = TRUE
            /\ lapsing' = [lapsing EXCEPT ![s] = InfoTTL]
      /\ UNCHANGED <<records, deleted, cache, of, turn, who, info, expected>>
      /\ UNCHANGED <<signedOn, crowded, outdated>>
  BY DEF U!InvalidateCurrentUserInfo, U!Then, U!NextVersion, U!rowVars, U!requestVars, U!quotaVars
<1>2. s \in U!Subjects
  BY DEF UsersInv, UserTypes
<1>3. UserTypes'
  <2>1. version' \in [U!Subjects -> Nat] /\ lapsing' \in [U!Subjects -> Nat] /\ fellBack' \in BOOLEAN
    <3>1. /\ version \in [U!Subjects -> Nat] /\ lapsing \in [U!Subjects -> Nat] /\ fellBack \in BOOLEAN
          /\ version[s] + 1 \in Nat /\ InfoTTL \in Nat
      BY <1>2, UserNumbers DEF UsersInv, UserTypes
    <3>2. version' \in [U!Subjects -> Nat]
      BY <1>1, <3>1
    <3>3. lapsing' \in [U!Subjects -> Nat]
      BY <1>1, <3>1
    <3>4. fellBack' \in BOOLEAN
      BY <1>1, <3>1
    <3> QED BY <3>2, <3>3, <3>4
  <2> QED BY <1>1, <1>2, <2>1 DEF UsersInv, UserTypes
<1>4. Members' = Members
  BY <1>1 DEF Members, U!Existing
<1>5. QuotaKept'
  <2>1. \A d \in Procs : act'[d] \in {"commit", "insert"} => act[d] = act'[d]
    BY <1>1 DEF UsersInv, UserTypes
  <2> QED BY <1>1, <1>4, <2>1 DEF UsersInv, QuotaKept
<1>6. \A x \in U!Subjects : shown[x] <= shown'[x] /\ shown'[x] <= records'[x]
  BY <1>1, <1>2 DEF UsersInv, UserTypes, Asked
<1>7. Asked'
  <2>1. \A q \in Readers : turn[q] # "idle" => who[q] \in U!Subjects
    BY UserNumbers DEF UsersInv, Asked
  <2>2. \A q \in Readers : expected[q].row \in Nat /\ expected[q].common \in Nat
    BY DEF UsersInv, UserTypes, Rows
  <2> QED BY <1>1, <1>3, <1>6, <2>1, <2>2, UserNumbers DEF UsersInv, UserTypes, Asked
<1>8. ToldAll'
  <2> SUFFICES ASSUME ~fellBack' PROVE ToldAll'
    BY DEF ToldAll
  <2>1. /\ ~fellBack /\ lapsing' = lapsing
        /\ version'[s] = version[s] + 1
        /\ \A x \in U!Subjects \ {s} : version'[x] = version[x] /\ shown'[x] = shown[x]
    BY <1>1, <1>2 DEF UsersInv, UserTypes
  <2>2. \A e \in cache : ShowsAll(e)
    BY <2>1 DEF UsersInv, ToldAll
  <2>3. \A x \in U!Subjects : version[x] \in Nat /\ version'[x] \in Nat
    BY <1>3 DEF UsersInv, UserTypes
  <2>4. \A e \in cache : ShowsAll(e)'
    <3> SUFFICES ASSUME NEW e \in cache, NEW u \in Ids, NEW a \in Nat, NEW b \in Nat, FoundAt(e, a, u, b)
                 PROVE  /\ a <= version'[Everyone] /\ b <= version'[u]
                        /\ a = version'[Everyone] /\ b = version'[u] /\ ~e.late =>
                             shown'[u] <= e.info.row /\ shown'[Everyone] <= e.info.common
      BY DEF ShowsAll, FoundAt
    <3>1. /\ a <= version[Everyone] /\ b <= version[u]
          /\ a = version[Everyone] /\ b = version[u] /\ ~e.late =>
               shown[u] <= e.info.row /\ shown[Everyone] <= e.info.common
      BY <2>2 DEF ShowsAll
    <3> QED BY <1>2, <2>1, <2>3, <3>1, UserNumbers
  <2> QED BY <1>1, <2>1, <2>4 DEF UsersInv, ToldAll
<1> QED BY <1>3, <1>5, <1>7, <1>8 DEF UsersInv

\* Requests, and time, leave what operators made as it is.
LEMMA RequestKeepsQuota ==
  ASSUME UsersInv, UNCHANGED <<records, deleted, signedOn, crowded, act, of>>
  PROVE  QuotaKept'
<1>1. Members' = Members
  BY DEF Members, U!Existing
<1> QED BY <1>1 DEF UsersInv, QuotaKept

LEMMA RequestBegins ==
  ASSUME UsersInv, NEW q \in Readers, NEW u \in Ids, U!Request(q, u)
  PROVE  UsersInv'
<1>1. /\ turn' = [turn EXCEPT ![q] = "look"] /\ who' = [who EXCEPT ![q] = u]
      /\ info' = [info EXCEPT ![q].row = records[u]]
      /\ expected' = [expected EXCEPT ![q] = [row |-> shown[u], common |-> shown[Everyone]]]
      /\ UNCHANGED <<records, deleted, version, lapsing, cache, act, of>>
      /\ UNCHANGED <<signedOn, crowded, shown, fellBack, outdated>>
  BY DEF U!Request, U!rowVars, U!cacheVars, U!callVars, U!quotaVars
<1>2. /\ records[u] \in Nat /\ shown[u] \in Nat /\ shown[Everyone] \in Nat /\ shown[u] <= records[u]
  BY UserNumbers DEF UsersInv, UserTypes, Asked
<1>3. info' \in [Readers -> Rows] /\ expected' \in [Readers -> Rows]
  BY <1>1, <1>2 DEF UsersInv, UserTypes, Rows
<1>4. UserTypes'
  BY <1>1, <1>3 DEF UsersInv, UserTypes
<1>5. Asked'
  <2>1. /\ turn'[q] = "look" /\ who'[q] = u /\ info'[q].row = records[u]
        /\ expected'[q].row = shown[u] /\ expected'[q].common = shown[Everyone]
    BY <1>1 DEF UsersInv, UserTypes, Rows
  <2>2. \A r \in Readers \ {q} : /\ turn'[r] = turn[r] /\ who'[r] = who[r]
                                 /\ info'[r] = info[r] /\ expected'[r] = expected[r]
    BY <1>1 DEF UsersInv, UserTypes
  <2> QED BY <1>1, <1>2, <2>1, <2>2 DEF UsersInv, Asked
<1>6. ToldAll'
  BY <1>1 DEF UsersInv, ToldAll, ShowsAll
<1> QED BY <1>1, <1>4, <1>5, <1>6, RequestKeepsQuota DEF UsersInv

\* A request is answered with what it was due.
LEMMA Answers ==
  ASSUME UsersInv, NEW q \in Readers, NEW t \in Rows, NEW excused \in BOOLEAN, U!Answer(q, t, excused)
  PROVE  /\ turn' \in [Readers -> {"idle", "look", "build", "put"}]
         /\ who' \in [Readers -> Ids \union {U!Someone}]
         /\ info' \in [Readers -> Rows] /\ expected' \in [Readers -> Rows]
         /\ turn'[q] = "idle"
         /\ \A r \in Readers \ {q} : /\ turn'[r] = turn[r] /\ who'[r] = who[r]
                                     /\ info'[r] = info[r] /\ expected'[r] = expected[r]
         /\ excused \/ (expected[q].row <= t.row /\ expected[q].common <= t.common) =>
              outdated' = outdated
<1>1. /\ turn' = [turn EXCEPT ![q] = "idle"] /\ who' = [who EXCEPT ![q] = U!Someone]
      /\ info' = [info EXCEPT ![q] = U!NoInfo] /\ expected' = [expected EXCEPT ![q] = U!NoInfo]
      /\ outdated' = outdated \union
           (IF U!Behind(t, expected[q]) /\ ~excused THEN {who[q]} ELSE {})
  BY DEF U!Answer
<1>2. U!NoInfo \in Rows
  BY DEF U!NoInfo, Rows
<1>3. /\ turn' \in [Readers -> {"idle", "look", "build", "put"}]
      /\ who' \in [Readers -> Ids \union {U!Someone}]
      /\ info' \in [Readers -> Rows] /\ expected' \in [Readers -> Rows]
  BY <1>1, <1>2 DEF UsersInv, UserTypes
<1>4. turn'[q] = "idle" /\ \A r \in Readers \ {q} :
        turn'[r] = turn[r] /\ who'[r] = who[r] /\ info'[r] = info[r] /\ expected'[r] = expected[r]
  BY <1>1 DEF UsersInv, UserTypes
<1>5. excused \/ (expected[q].row <= t.row /\ expected[q].common <= t.common) =>
        ~(U!Behind(t, expected[q]) /\ ~excused)
  <2>1. /\ t.row \in Nat /\ t.common \in Nat
        /\ expected[q].row \in Nat /\ expected[q].common \in Nat
    BY DEF UsersInv, UserTypes, Rows
  <2> QED BY <2>1 DEF U!Behind
<1> QED BY <1>1, <1>3, <1>4, <1>5

LEMMA RequestLooks ==
  ASSUME UsersInv, NEW q \in Readers, U!Look(q)
  PROVE  UsersInv'
<1>1. /\ turn[q] = "look"
      /\ UNCHANGED <<records, deleted, version, lapsing, cache, act, of>>
      /\ UNCHANGED <<signedOn, crowded, shown, fellBack>>
  BY DEF U!Look, U!rowVars, U!cacheVars, U!callVars, U!quotaVars
<1>2. CASE \E e \in cache : e.key = U!KeyOf(who[q]) /\ U!Answer(q, e.info, e.late)
  <2>1. PICK e \in cache : e.key = U!KeyOf(who[q]) /\ U!Answer(q, e.info, e.late)
    BY <1>2
  <2>2. e.info \in Rows /\ e.late \in BOOLEAN
    BY DEF UsersInv, UserTypes
  <2>3. ~fellBack => e.late \/ (expected[q].row <= e.info.row /\ expected[q].common <= e.info.common)
    <3> SUFFICES ASSUME ~fellBack, ~e.late
                 PROVE  expected[q].row <= e.info.row /\ expected[q].common <= e.info.common
      OBVIOUS
    <3> DEFINE u == who[q]
    <3>1. /\ u \in Ids /\ expected[q].row <= shown[u] /\ expected[q].common <= shown[Everyone]
      BY <1>1 DEF UsersInv, Asked
    <3>2. FoundAt(e, version[Everyone], u, version[u])
      BY <2>1 DEF FoundAt, U!KeyOf
    <3>3. /\ version[Everyone] \in Nat /\ version[u] \in Nat /\ shown[u] \in Nat
          /\ shown[Everyone] \in Nat /\ expected[q] \in Rows
      BY <3>1, UserNumbers DEF UsersInv, UserTypes
    <3>4. shown[u] <= e.info.row /\ shown[Everyone] <= e.info.common
      BY <3>1, <3>2, <3>3 DEF UsersInv, ToldAll, ShowsAll
    <3> QED BY <2>2, <3>1, <3>3, <3>4 DEF Rows
  <2>4. /\ turn' \in [Readers -> {"idle", "look", "build", "put"}]
        /\ who' \in [Readers -> Ids \union {U!Someone}]
        /\ info' \in [Readers -> Rows] /\ expected' \in [Readers -> Rows]
        /\ turn'[q] = "idle"
        /\ \A r \in Readers \ {q} : /\ turn'[r] = turn[r] /\ who'[r] = who[r]
                                    /\ info'[r] = info[r] /\ expected'[r] = expected[r]
        /\ ~fellBack => outdated' = outdated
    BY <2>1, <2>2, <2>3, Answers
  <2>5. UserTypes'
    BY <1>1, <2>4 DEF UsersInv, UserTypes
  <2>6. Asked'
    BY <1>1, <2>4 DEF UsersInv, Asked
  <2>7. ToldAll'
    BY <1>1, <2>4 DEF UsersInv, ToldAll, ShowsAll
  <2> QED BY <1>1, <2>5, <2>6, <2>7, RequestKeepsQuota DEF UsersInv
<1>3. CASE turn' = [turn EXCEPT ![q] = "build"] /\ UNCHANGED <<who, info, expected, outdated>>
  <2>1. UserTypes'
    BY <1>1, <1>3 DEF UsersInv, UserTypes
  <2>2. Asked'
    BY <1>1, <1>3 DEF UsersInv, UserTypes, Asked
  <2>3. ToldAll'
    BY <1>1, <1>3 DEF UsersInv, ToldAll, ShowsAll
  <2> QED BY <1>1, <2>1, <2>2, <2>3, RequestKeepsQuota DEF UsersInv
<1> QED BY <1>2, <1>3 DEF U!Look

LEMMA RequestBuilds ==
  ASSUME UsersInv, NEW q \in Readers, U!Build(q)
  PROVE  UsersInv'
<1>1. /\ turn[q] = "build" /\ turn' = [turn EXCEPT ![q] = "put"]
      /\ info' = [info EXCEPT ![q].common = records[Everyone]]
      /\ UNCHANGED <<records, deleted, version, lapsing, cache, act, of>>
      /\ UNCHANGED <<signedOn, crowded, who, expected, shown, fellBack, outdated>>
  BY DEF U!Build, U!rowVars, U!cacheVars, U!callVars, U!quotaVars
<1>2. records[Everyone] \in Nat /\ shown[Everyone] \in Nat /\ shown[Everyone] <= records[Everyone]
  BY UserNumbers DEF UsersInv, UserTypes, Asked
<1>3. info' \in [Readers -> Rows] /\ info'[q].common = records[Everyone] /\ info'[q].row = info[q].row
      /\ \A r \in Readers \ {q} : info'[r] = info[r] /\ turn'[r] = turn[r]
  BY <1>1, <1>2 DEF UsersInv, UserTypes, Rows
<1>4. UserTypes'
  BY <1>1, <1>3 DEF UsersInv, UserTypes
<1>5. Asked'
  <2>1. expected[q].common \in Nat /\ expected[q].common <= shown[Everyone]
    BY <1>1 DEF UsersInv, UserTypes, Asked, Rows
  <2> QED BY <1>1, <1>2, <1>3, <2>1 DEF UsersInv, Asked
<1>6. ToldAll'
  BY <1>1 DEF UsersInv, ToldAll, ShowsAll
<1> QED BY <1>1, <1>4, <1>5, <1>6, RequestKeepsQuota DEF UsersInv

LEMMA RequestPuts ==
  ASSUME UsersInv, NEW q \in Readers, U!CacheCurrentUserInfo(q)
  PROVE  UsersInv'
<1> DEFINE v == who[q]
           isLate == U!Behind(info[q], [row |-> shown[v], common |-> shown[Everyone]])
           new == [key |-> U!KeyOf(v), info |-> info[q], left |-> InfoTTL, late |-> isLate]
<1>1. /\ turn[q] = "put" /\ cache' = {e \in cache : e.key # U!KeyOf(v)} \union {new}
      /\ U!Answer(q, info[q], FALSE)
      /\ UNCHANGED <<records, deleted, version, lapsing, act, of>>
      /\ UNCHANGED <<signedOn, crowded, shown, fellBack>>
  BY DEF U!CacheCurrentUserInfo, U!rowVars, U!callVars, U!quotaVars
<1>2. v \in Ids /\ expected[q].row <= info[q].row /\ expected[q].common <= info[q].common
  BY <1>1 DEF UsersInv, Asked
<1>3. /\ version[Everyone] \in Nat /\ version[v] \in Nat /\ shown[v] \in Nat
      /\ shown[Everyone] \in Nat /\ info[q] \in Rows /\ InfoTTL \in Nat
  BY <1>2, UserNumbers DEF UsersInv, UserTypes
<1>4. /\ turn' \in [Readers -> {"idle", "look", "build", "put"}]
      /\ who' \in [Readers -> Ids \union {U!Someone}]
      /\ info' \in [Readers -> Rows] /\ expected' \in [Readers -> Rows]
      /\ turn'[q] = "idle"
      /\ \A r \in Readers \ {q} : /\ turn'[r] = turn[r] /\ who'[r] = who[r]
                                  /\ info'[r] = info[r] /\ expected'[r] = expected[r]
      /\ outdated' = outdated
  BY <1>1, <1>2, <1>3, Answers
<1>5. new \in [key : Nat \X Ids \X Nat, info : Rows, left : Nat, late : BOOLEAN]
  BY <1>2, <1>3 DEF U!KeyOf, U!Behind
<1>6. UserTypes'
  BY <1>1, <1>4, <1>5 DEF UsersInv, UserTypes
<1>7. Asked'
  BY <1>1, <1>4 DEF UsersInv, Asked
<1>8. ToldAll'
  <2> SUFFICES ASSUME ~fellBack' PROVE ToldAll'
    BY DEF ToldAll
  <2>1. ~fellBack /\ outdated' = {} /\ \A s \in U!Subjects : lapsing'[s] = 0
    BY <1>1, <1>4 DEF UsersInv, ToldAll
  <2>2. ASSUME NEW u \in Ids, NEW a \in Nat, NEW b \in Nat, FoundAt(new, a, u, b)
        PROVE  /\ a <= version[Everyone] /\ b <= version[u]
               /\ ~new.late => shown[u] <= new.info.row /\ shown[Everyone] <= new.info.common
    <3>1. u = v /\ a = version[Everyone] /\ b = version[u]
      BY <2>2 DEF FoundAt, U!KeyOf
    <3>2. ~isLate => shown[v] <= info[q].row /\ shown[Everyone] <= info[q].common
      BY <1>3 DEF U!Behind, Rows
    <3> QED BY <1>3, <3>1, <3>2
  <2>3. ShowsAll(new)
    BY <2>2 DEF ShowsAll
  <2>4. \A e \in cache' : ShowsAll(e)
    BY <1>1, <2>1, <2>3 DEF UsersInv, ToldAll
  <2>5. \A e \in cache' : ShowsAll(e)'
    BY <1>1, <2>4 DEF ShowsAll
  <2> QED BY <2>1, <2>5 DEF ToldAll
<1> QED BY <1>1, <1>6, <1>7, <1>8, RequestKeepsQuota DEF UsersInv

LEMMA UsersTick == ASSUME UsersInv, U!Tick PROVE UsersInv'
<1>1. /\ cache' = {[e EXCEPT !.left = @ - 1] : e \in {e \in cache : e.left > 1}}
      /\ lapsing' = [s \in U!Subjects |-> IF lapsing[s] > 0 THEN lapsing[s] - 1 ELSE 0]
      /\ version' = [s \in U!Subjects |-> IF lapsing[s] = 1 THEN 0 ELSE version[s]]
      /\ UNCHANGED <<records, deleted, act, of, turn, who, info, expected>>
      /\ UNCHANGED <<signedOn, crowded, shown, fellBack, outdated>>
  BY DEF U!Tick, U!rowVars, U!callVars, U!requestVars, U!quotaVars
<1> DEFINE Entries == [key : Nat \X Ids \X Nat, info : Rows, left : Nat, late : BOOLEAN]
<1>2. \A f \in cache' : \E e \in cache : e \in Entries /\ e.left > 1 /\ f = [e EXCEPT !.left = @ - 1]
  BY <1>1 DEF UsersInv, UserTypes
<1>3. \A f \in cache' : f \in Entries /\ \E e \in cache :
        f.key = e.key /\ f.info = e.info /\ f.late = e.late
  <2> SUFFICES ASSUME NEW f \in cache'
               PROVE  f \in Entries /\ \E e \in cache :
                        f.key = e.key /\ f.info = e.info /\ f.late = e.late
    OBVIOUS
  <2>1. PICK e \in cache : e \in Entries /\ e.left > 1 /\ f = [e EXCEPT !.left = @ - 1]
    BY <1>2
  <2>2. e.left - 1 \in Nat
    BY <2>1
  <2> QED BY <2>1, <2>2
<1>4. UserTypes'
  <2>1. lapsing' \in [U!Subjects -> Nat] /\ version' \in [U!Subjects -> Nat]
    BY <1>1 DEF UsersInv, UserTypes
  <2> QED BY <1>1, <1>3, <2>1 DEF UsersInv, UserTypes
<1>5. Asked'
  BY <1>1 DEF UsersInv, Asked
<1>6. ToldAll'
  <2> SUFFICES ASSUME ~fellBack' PROVE ToldAll'
    BY DEF ToldAll
  <2>1. outdated = {} /\ (\A s \in U!Subjects : lapsing[s] = 0) /\ \A e \in cache : ShowsAll(e)
    BY <1>1 DEF UsersInv, ToldAll
  <2>2. version' = version /\ \A s \in U!Subjects : lapsing'[s] = 0
    BY <1>1, <2>1 DEF UsersInv, UserTypes
  <2>3. \A f \in cache' : ShowsAll(f)
    BY <1>3, <2>1 DEF ShowsAll, FoundAt
  <2>4. \A f \in cache' : ShowsAll(f)'
    BY <1>1, <2>2, <2>3 DEF ShowsAll
  <2> QED BY <1>1, <2>1, <2>2, <2>4 DEF ToldAll
<1> QED BY <1>1, <1>4, <1>5, <1>6, RequestKeepsQuota DEF UsersInv

LEMMA UsersStep == UsersInv /\ [U!Next]_U!vars => UsersInv'
<1> SUFFICES ASSUME UsersInv, [U!Next]_U!vars PROVE UsersInv'
  OBVIOUS
<1>1. CASE UNCHANGED U!vars
  <2>1. /\ UNCHANGED <<records, deleted, version, lapsing, cache, act, of, turn, who, info, expected>>
        /\ UNCHANGED <<signedOn, crowded, shown, fellBack, outdated>>
    BY <1>1 DEF U!vars, U!rowVars, U!cacheVars, U!callVars, U!requestVars, U!quotaVars
  <2>2. UserTypes'
    BY <2>1 DEF UsersInv, UserTypes
  <2>3. Asked' /\ ToldAll'
    BY <2>1 DEF UsersInv, Asked, ToldAll, ShowsAll
  <2> QED BY <2>1, <2>2, <2>3, RequestKeepsQuota DEF UsersInv
<1>2. CASE \E c \in Procs : U!OperatorStep(c)
  BY <1>2, OperatorActsStep, InsertUserStep, InvalidationStep DEF U!OperatorStep, OperatorActs
<1>3. CASE \E q \in Readers : U!RequestStep(q)
  BY <1>3, RequestBegins, RequestLooks, RequestBuilds, RequestPuts DEF U!RequestStep
<1> QED BY <1>1, <1>2, <1>3, SignOnStep, UsersTick DEF U!Next

\* For any number of operators, requests and users and any quota: a request shows every
\* change whose invalidation was over when it began, unless it was built across one or a
\* version could not be incremented, and operators exceed the quota only by two at a time
\* (InvalidateCurrentUserInfoForConnection, EnsureResourceQuota).
THEOREM UsersKept == U!Spec => []UsersAreKept
<1>1. UsersInv => UsersAreKept
  <2> SUFFICES ASSUME UsersInv PROVE U!ChangesShow /\ U!QuotaHolds
    BY DEF UsersAreKept, U!UsersAreKept
  <2>1. U!Cardinality(U!Existing \ signedOn) = Cardinality(Members)
    BY UserNumbers DEF Members
  <2> QED BY <2>1, UserCount, UserNumbers DEF UsersInv, QuotaKept, ToldAll, U!ChangesShow, U!QuotaHolds
<1> QED BY <1>1, UsersFirst, UsersStep, PTL DEF U!Spec

-----------------------------------------------------------------------------
(* The rule sets of the protection engine. *)

\* A call that works on a rule set: it has a form, and has not published anything yet.
Engaged == {"open", "version", "check", "commit", "count"}

RuleTypes ==
  /\ row \in [RuleSets -> [version : Nat, content : Patterns, enabled : BOOLEAN]]
  /\ published \in [RuleSets -> Seq(G!Content)] /\ meant = published
  /\ loaded \in [RuleSets -> Nat] /\ found \in [RuleSets -> Nat]
  /\ loader \in Calls \union {None}
  /\ doing \in [Calls -> Engaged \union {"idle", "reload", "replace", "done", "over"}]
  /\ op \in [Calls -> G!Ops \union {"none", "evaluate"}]
  /\ target \in [Calls -> RuleSets \union {None}] /\ number \in [Calls -> Nat]
  /\ wish \in [Calls -> G!Content \union {G!NoContent}]
  /\ pick \in [Calls -> G!Content \union {G!NoContent}]
  /\ raced \in BOOLEAN

\* A set that was published is not deleted.
Undeleted == \A i \in RuleSets : published[i] # <<>> => row[i].version > 0

\* What a call at work knows, whatever becomes of the set: the version of its form is
\* not ahead of the row's, and what it has read for a publication it has read whole.
Form(c) ==
  /\ op[c] \in G!Ops /\ target[c] \in RuleSets /\ number[c] > 0 /\ wish[c] \in G!Content
  /\ row[target[c]].version > 0 => number[c] <= row[target[c]].version
  /\ doing[c] = "version" => op[c] \in {"enable", "disable", "rollback"}
  /\ doing[c] = "check" => op[c] \in {"publish", "enable", "rollback"}
  /\ doing[c] = "count" => op[c] = "delete"
  /\ op[c] = "rollback" => wish[c] = Head(published[target[c]])
  /\ doing[c] = "version" \/ op[c] = "rollback" => published[target[c]] # <<>>
  /\ doing[c] = "check" \/ (doing[c] = "commit" /\ G!Publishes(c)) => pick[c] \in G!Content
  /\ op[c] = "disable" => ~pick[c].enabled

\* While the row has the version of its form, its operator still sees what he saw: what
\* the call publishes is what he wants, and what it deletes was never published.
Fitting(c) ==
  row[target[c]].version = number[c] =>
    /\ op[c] = "publish" => wish[c] = G!Draft(target[c])
    /\ op[c] \in {"enable", "disable"} /\ published[target[c]] # <<>> =>
         wish[c] = [content |-> G!Newest(target[c]).content, enabled |-> op[c] = "enable"]
    /\ op[c] = "delete" /\ doing[c] = "commit" => published[target[c]] = <<>>
    /\ doing[c] = "check" \/ (doing[c] = "commit" /\ G!Publishes(c)) => pick[c] = wish[c]

AtWork(c) ==
  /\ doing[c] \in {"idle", "open"} => pick[c] = G!NoContent
  /\ doing[c] \in Engaged => Form(c) /\ Fitting(c)

\* What was checked for conflicts still has none, unless it raced another check.
Checked ==
  \A c \in Calls :
    doing[c] = "commit" /\ G!Publishes(c) /\ pick[c].enabled => G!NoConflict(c)
Conflictless == ~raced => G!Loadable /\ Checked

\* Who holds the mutex is about to replace the rules; nothing it has read is older than
\* what is loaded, and what a publication adds is there to be read.
Served(c) ==
  /\ doing[c] = "replace" <=> loader = c
  /\ doing[c] \in {"reload", "replace"} /\ G!Publishes(c) =>
       target[c] \in RuleSets /\ number[c] <= Len(published[target[c]])
  /\ doing[c] = "replace" /\ G!Publishes(c) => number[c] <= found[target[c]]
  /\ doing[c] = "done" => target[c] \in RuleSets /\ number[c] <= loaded[target[c]]
Loading ==
  \A i \in RuleSets :
    /\ loaded[i] <= Len(published[i])
    /\ loader # None => loaded[i] <= found[i] /\ found[i] <= Len(published[i])

RulesInv ==
  /\ RuleTypes /\ Undeleted /\ Conflictless /\ Loading
  /\ \A c \in Calls : AtWork(c) /\ Served(c)

LEMMA RuleNumbers == MaxVersion \in Nat /\ None \notin Calls /\ G!NoContent \notin G!Content
BY RulesAssumption DEF G!RulesAssumption, G!NoContent, G!Content

LEMMA HistoriesAreSequences == G!Histories \subseteq Seq(G!Content)
<1>1. \A n \in 0..2 : [1..n -> G!Content] \subseteq Seq(G!Content)
  OBVIOUS
<1> QED BY <1>1 DEF G!Histories

LEMMA RulesFirst == G!Init => RulesInv
<1> SUFFICES ASSUME G!Init PROVE RulesInv
  OBVIOUS
<1>1. published \in [RuleSets -> Seq(G!Content)]
  BY HistoriesAreSequences DEF G!Init
<1>2. \A i \in RuleSets : published[i] # <<>> => Len(published[i]) > 0 /\ G!Newest(i) \in G!Content
  BY <1>1 DEF G!Newest
<1>3. row \in [RuleSets -> [version : Nat, content : Patterns, enabled : BOOLEAN]]
  <2>1. PICK drafted \in [RuleSets -> Patterns] :
          row = [i \in RuleSets |->
                   IF published[i] = <<>>
                     THEN [version |-> 1, content |-> drafted[i], enabled |-> TRUE]
                     ELSE [version |-> Len(published[i]) + 1,
                           content |-> G!Newest(i).content, enabled |-> G!Newest(i).enabled]]
    BY DEF G!Init
  <2>2. \A i \in RuleSets : row[i] \in [version : Nat, content : Patterns, enabled : BOOLEAN]
    <3> SUFFICES ASSUME NEW i \in RuleSets PROVE row[i] \in [version : Nat, content : Patterns, enabled : BOOLEAN]
      OBVIOUS
    <3>1. CASE published[i] = <<>>
      BY <2>1, <3>1
    <3>2. CASE published[i] # <<>>
      <4>1. Len(published[i]) + 1 \in Nat /\ G!Newest(i) \in G!Content
        BY <1>1, <1>2, <3>2
      <4> QED BY <2>1, <3>2, <4>1 DEF G!Content
    <3> QED BY <3>1, <3>2
  <2> QED BY <2>1, <2>2
<1>4. RuleTypes
  <2>1. loaded \in [RuleSets -> Nat]
    BY <1>1 DEF G!Init
  <2>2. wish \in [Calls -> G!Content \union {G!NoContent}] /\ pick = wish
    BY DEF G!Init
  <2> QED BY <1>1, <1>3, <2>1, <2>2 DEF RuleTypes, G!Init, Engaged
<1>5. Undeleted
  BY <1>1, <1>2 DEF Undeleted, G!Init
<1>6. Conflictless
  BY DEF Conflictless, Checked, G!Init
<1>7. Loading
  BY <1>1 DEF Loading, G!Init
<1>8. \A c \in Calls : AtWork(c) /\ Served(c)
  BY RuleNumbers DEF AtWork, Served, Engaged, G!Init
<1> QED BY <1>4, <1>5, <1>6, <1>7, <1>8 DEF RulesInv

\* A step of one call that leaves the sets and the engine alone: what it has to show.
SameCall(d) ==
  /\ doing'[d] = doing[d] /\ op'[d] = op[d] /\ target'[d] = target[d]
  /\ number'[d] = number[d] /\ wish'[d] = wish[d] /\ pick'[d] = pick[d]
CallMoves(c) ==
  /\ \A d \in Calls \ {c} : SameCall(d)
  /\ UNCHANGED <<row, published, meant, loaded, loader, found, raced>>
CallTypes ==
  /\ doing \in [Calls -> Engaged \union {"idle", "reload", "replace", "done", "over"}]
  /\ op \in [Calls -> G!Ops \union {"none", "evaluate"}]
  /\ target \in [Calls -> RuleSets \union {None}] /\ number \in [Calls -> Nat]
  /\ wish \in [Calls -> G!Content \union {G!NoContent}]
  /\ pick \in [Calls -> G!Content \union {G!NoContent}]

LEMMA OneCallStep ==
  ASSUME RulesInv, NEW c \in Calls, CallMoves(c), CallTypes', AtWork(c)', Served(c)',
         doing'[c] = "commit" /\ G!Publishes(c)' /\ pick'[c].enabled => G!NoConflict(c)'
  PROVE  RulesInv'
<1>1. RuleTypes' /\ Undeleted' /\ Loading'
  BY DEF RulesInv, RuleTypes, CallTypes, CallMoves, Undeleted, Loading
<1>2. \A d \in Calls : AtWork(d)' /\ Served(d)'
  BY DEF RulesInv, CallMoves, SameCall, AtWork, Served, Form, Fitting, G!Publishes, G!Draft, G!Newest
<1>3. Conflictless'
  <2> SUFFICES ASSUME ~raced' PROVE G!Loadable' /\ Checked'
    BY DEF Conflictless
  <2>1. G!Loadable /\ Checked
    BY DEF RulesInv, Conflictless, CallMoves
  <2>2. G!Loadable'
    BY <2>1 DEF G!Loadable, CallMoves, G!Live, G!Newest
  <2>3. Checked'
    BY <2>1 DEF Checked, CallMoves, SameCall, G!Publishes, G!NoConflict, G!Live, G!Newest
  <2> QED BY <2>2, <2>3
<1> QED BY <1>1, <1>2, <1>3 DEF RulesInv

LEMMA RuleFailure ==
  ASSUME RulesInv, NEW c \in Calls, doing[c] # "replace", G!Fail(c)
  PROVE  RulesInv'
<1>1. doing' = [doing EXCEPT ![c] = "over"] /\ G!Forget(c) /\ UNCHANGED <<row, published, meant>>
      /\ UNCHANGED <<loaded, loader, found, raced>>
  BY DEF G!Fail, G!GoTo, G!rowVars, G!engineVars
<1>2. CallTypes' /\ CallMoves(c)
  BY <1>1 DEF RulesInv, RuleTypes, CallTypes, CallMoves, SameCall, G!Forget
<1>3. doing'[c] = "over" /\ loader # c
  BY <1>1 DEF RulesInv, RuleTypes, Served
<1>4. AtWork(c)' /\ Served(c)'
  BY <1>1, <1>3 DEF AtWork, Served, Engaged
<1> QED BY <1>2, <1>3, <1>4, OneCallStep

LEMMA RuleOpening ==
  ASSUME RulesInv, NEW c \in Calls, NEW i \in RuleSets, G!Open(c, i)
  PROVE  RulesInv'
<1>1. PICK o \in G!Ops, new \in G!Content :
        /\ o = "publish" => new = G!Draft(i)
        /\ o = "rollback" => published[i] # <<>> /\ new = Head(published[i])
        /\ o \in {"enable", "disable"} =>
             /\ new.enabled = (o = "enable")
             /\ new.content = IF published[i] = <<>> THEN row[i].content ELSE G!Newest(i).content
        /\ op' = [op EXCEPT ![c] = o] /\ wish' = [wish EXCEPT ![c] = new]
  BY DEF G!Open
<1>2. /\ doing[c] = "idle" /\ row[i].version \in Nat \ {0}
      /\ doing' = [doing EXCEPT ![c] = "open"] /\ target' = [target EXCEPT ![c] = i]
      /\ number' = [number EXCEPT ![c] = row[i].version]
      /\ UNCHANGED <<row, published, meant, loaded, loader, found, pick, raced>>
  BY RuleNumbers DEF G!Open, G!GoTo, G!rowVars, G!engineVars, RulesInv, RuleTypes
<1>3. CallTypes' /\ CallMoves(c)
  BY <1>1, <1>2 DEF RulesInv, RuleTypes, CallTypes, CallMoves, SameCall, Engaged
<1>4. /\ doing'[c] = "open" /\ op'[c] = o /\ target'[c] = i /\ number'[c] = row[i].version
      /\ wish'[c] = new /\ pick'[c] = G!NoContent /\ loader # c
  BY <1>1, <1>2 DEF RulesInv, RuleTypes, AtWork, Served
<1>5. Form(c)'
  BY <1>1, <1>2, <1>4 DEF Form, G!NoContent, G!Ops
<1>6. Fitting(c)'
  <2>1. o \in {"enable", "disable"} /\ published[i] # <<>> =>
          new = [content |-> G!Newest(i).content, enabled |-> o = "enable"]
    BY <1>1 DEF G!Content
  <2>2. o = "publish" => new = G!Draft(i)'
    BY <1>1, <1>2 DEF G!Draft
  <2> QED BY <1>2, <1>4, <2>1, <2>2 DEF Fitting, G!Newest
<1>7. AtWork(c)' /\ Served(c)'
  BY <1>2, <1>4, <1>5, <1>6 DEF AtWork, Served
<1> QED BY <1>3, <1>4, <1>7, OneCallStep

LEMMA RuleFinding ==
  ASSUME RulesInv, NEW c \in Calls, G!Find(c)
  PROVE  RulesInv'
<1>1. doing[c] = "open" /\ Form(c) /\ Fitting(c) /\ pick[c] = G!NoContent
  BY DEF G!Find, RulesInv, AtWork, Engaged
<1>2. CASE G!Fail(c)
  BY <1>1, <1>2, RuleFailure
<1>3. CASE ~G!Fail(c)
  <2> DEFINE i == target[c]
  <2>1. PICK s \in {"version", "check", "commit", "count"} :
          /\ row[i].version = number[c] /\ doing' = [doing EXCEPT ![c] = s]
          /\ s = CASE op[c] = "update" -> "commit"
                   [] op[c] = "delete" -> "count"
                   [] op[c] = "publish" -> IF row[i].enabled THEN "check" ELSE "commit"
                   [] op[c] = "rollback" -> "version"
                   [] OTHER -> IF published[i] = <<>> THEN "commit" ELSE "version"
          /\ pick' = IF op[c] = "publish" THEN [pick EXCEPT ![c] = G!Draft(i)] ELSE pick
          /\ UNCHANGED <<row, published, meant, loaded, loader, found, op, target, number, wish, raced>>
    BY <1>3 DEF G!Find, G!GoTo, G!rowVars, G!engineVars
  <2>2. i \in RuleSets /\ op[c] \in G!Ops /\ G!Draft(i) \in G!Content
    BY <1>1 DEF Form, RulesInv, RuleTypes, G!Draft, G!Content
  <2>3. CallTypes' /\ CallMoves(c)
    BY <2>1, <2>2 DEF RulesInv, RuleTypes, CallTypes, CallMoves, SameCall, Engaged
  <2>4. /\ doing'[c] = s /\ loader # c
        /\ pick'[c] = IF op[c] = "publish" THEN G!Draft(i) ELSE G!NoContent
    BY <1>1, <2>1 DEF RulesInv, RuleTypes, Served
  <2>5. /\ s = "version" => op[c] \in {"enable", "disable", "rollback"} /\ published[i] # <<>>
        /\ s = "check" => op[c] = "publish" /\ row[i].enabled
        /\ s = "count" => op[c] = "delete"
        /\ s = "commit" => op[c] # "delete" /\ op[c] # "rollback"
        /\ s = "commit" /\ op[c] = "publish" => ~row[i].enabled
    BY <1>1, <2>1, <2>2 DEF Form, G!Ops
  <2>6. Form(c)'
    BY <1>1, <2>1, <2>2, <2>4, <2>5 DEF Form, G!Publishes, G!NoContent
  <2>7. Fitting(c)'
    BY <1>1, <2>1, <2>2, <2>4, <2>5 DEF Fitting, G!Publishes, G!Draft, G!Newest
  <2>8. AtWork(c)' /\ Served(c)'
    BY <2>1, <2>4, <2>6, <2>7 DEF AtWork, Served
  <2>9. s = "commit" /\ G!Publishes(c)' => ~pick'[c].enabled
    BY <2>1, <2>2, <2>4, <2>5 DEF G!Publishes, G!Draft, G!NoContent
  <2> QED BY <2>3, <2>4, <2>8, <2>9, OneCallStep
<1> QED BY <1>2, <1>3

LEMMA RuleReading ==
  ASSUME RulesInv, NEW c \in Calls, G!ReadVersion(c)
  PROVE  RulesInv'
<1> DEFINE i == target[c]
           read == IF op[c] = "rollback" THEN Head(published[i])
                   ELSE [content |-> G!Newest(i).content, enabled |-> op[c] = "enable"]
           s == IF op[c] = "disable" THEN "commit" ELSE "check"
<1>1. /\ doing[c] = "version" /\ doing' = [doing EXCEPT ![c] = s]
      /\ pick' = [pick EXCEPT ![c] = read]
      /\ UNCHANGED <<row, published, meant, loaded, loader, found, op, target, number, wish, raced>>
  BY DEF G!ReadVersion, G!GoTo, G!rowVars, G!engineVars
<1>2. Form(c) /\ Fitting(c)
  BY <1>1 DEF RulesInv, AtWork, Engaged
<1>3. i \in RuleSets /\ published[i] # <<>> /\ op[c] \in {"enable", "disable", "rollback"}
  BY <1>1, <1>2 DEF Form
<1>4. read \in G!Content
  <2>1. Head(published[i]) \in G!Content /\ G!Newest(i) \in G!Content
    BY <1>3 DEF RulesInv, RuleTypes, G!Newest
  <2> QED BY <2>1 DEF G!Content
<1>5. CallTypes' /\ CallMoves(c)
  BY <1>1, <1>4 DEF RulesInv, RuleTypes, CallTypes, CallMoves, SameCall, Engaged
<1>6. doing'[c] = s /\ pick'[c] = read /\ loader # c
  BY <1>1 DEF RulesInv, RuleTypes, Served
<1>7. Form(c)'
  <2>1. s \in {"commit", "check"} /\ (s = "check" => op[c] # "disable")
        /\ (op[c] = "disable" => ~read.enabled)
    BY <1>3
  <2> HIDE DEF s, read
  <2> QED BY <1>1, <1>2, <1>3, <1>4, <1>6, <2>1 DEF Form
<1>8. Fitting(c)'
  BY <1>1, <1>2, <1>3, <1>6 DEF Fitting, Form, G!Newest
<1>9. AtWork(c)' /\ Served(c)'
  BY <1>6, <1>7, <1>8, <1>1 DEF AtWork, Served
<1>10. s = "commit" => ~read.enabled
  OBVIOUS
<1> QED BY <1>5, <1>6, <1>9, <1>10, OneCallStep

LEMMA RuleChecking ==
  ASSUME RulesInv, NEW c \in Calls, G!Check(c)
  PROVE  RulesInv'
<1>1. doing[c] = "check" /\ Form(c) /\ Fitting(c)
  BY DEF G!Check, RulesInv, AtWork, Engaged
<1>2. CASE G!Fail(c)
  BY <1>1, <1>2, RuleFailure
<1>3. CASE ~G!Fail(c)
  <2>1. /\ G!NoConflict(c) /\ doing' = [doing EXCEPT ![c] = "commit"]
        /\ UNCHANGED <<row, published, meant, loaded, loader, found>>
        /\ UNCHANGED <<op, target, number, wish, pick, raced>>
    BY <1>3 DEF G!Check, G!GoTo, G!rowVars, G!engineVars
  <2>2. CallTypes' /\ CallMoves(c) /\ doing'[c] = "commit" /\ loader # c
    BY <1>1, <2>1 DEF RulesInv, RuleTypes, CallTypes, CallMoves, SameCall, Engaged, Served
  <2>3. Form(c)' /\ Fitting(c)'
    BY <1>1, <2>1, <2>2 DEF Form, Fitting, G!Publishes, G!Draft, G!Newest
  <2>4. AtWork(c)' /\ Served(c)'
    BY <2>1, <2>2, <2>3 DEF AtWork, Served
  <2>5. G!NoConflict(c)'
    BY <2>1 DEF G!NoConflict, G!Live, G!Newest
  <2> QED BY <2>2, <2>4, <2>5, OneCallStep
<1> QED BY <1>2, <1>3

LEMMA RuleCounting ==
  ASSUME RulesInv, NEW c \in Calls, G!Count(c)
  PROVE  RulesInv'
<1>1. doing[c] = "count" /\ Form(c) /\ Fitting(c)
  BY DEF G!Count, RulesInv, AtWork, Engaged
<1>2. CASE G!Fail(c)
  BY <1>1, <1>2, RuleFailure
<1>3. CASE ~G!Fail(c)
  <2>1. /\ published[target[c]] = <<>> /\ doing' = [doing EXCEPT ![c] = "commit"]
        /\ UNCHANGED <<row, published, meant, loaded, loader, found>>
        /\ UNCHANGED <<op, target, number, wish, pick, raced>>
    BY <1>3 DEF G!Count, G!GoTo, G!rowVars, G!engineVars
  <2>2. CallTypes' /\ CallMoves(c) /\ doing'[c] = "commit" /\ loader # c
    BY <1>1, <2>1 DEF RulesInv, RuleTypes, CallTypes, CallMoves, SameCall, Engaged, Served
  <2>3. op[c] = "delete" /\ ~G!Publishes(c)'
    BY <1>1, <2>1 DEF Form, G!Publishes
  <2>4. Form(c)' /\ Fitting(c)'
    BY <1>1, <2>1, <2>2, <2>3 DEF Form, Fitting
  <2>5. AtWork(c)' /\ Served(c)'
    BY <2>1, <2>2, <2>4 DEF AtWork, Served
  <2> QED BY <2>2, <2>3, <2>5, OneCallStep
<1> QED BY <1>2, <1>3

\* Whoever has published, or wants an answer, loads the rules.
LEMMA RuleEvaluation ==
  ASSUME RulesInv, NEW c \in Calls, G!Evaluate(c)
  PROVE  RulesInv'
<1>1. /\ doing[c] = "idle" /\ doing' = [doing EXCEPT ![c] = "reload"]
      /\ op' = [op EXCEPT ![c] = "evaluate"]
      /\ UNCHANGED <<row, published, meant, loaded, loader, found, target, number, wish, pick, raced>>
  BY DEF G!Evaluate, G!GoTo, G!rowVars, G!engineVars
<1>2. CallTypes' /\ CallMoves(c)
  BY <1>1 DEF RulesInv, RuleTypes, CallTypes, CallMoves, SameCall
<1>3. doing'[c] = "reload" /\ loader # c /\ ~G!Publishes(c)'
  BY <1>1 DEF RulesInv, RuleTypes, Served, G!Publishes
<1>4. AtWork(c)' /\ Served(c)'
  BY <1>1, <1>3 DEF AtWork, Served, Engaged
<1> QED BY <1>2, <1>3, <1>4, OneCallStep

\* A step of the engine: the sets, and what was checked of them, stay.
LEMMA EngineStep ==
  ASSUME RulesInv, NEW c \in Calls, doing'[c] \notin Engaged \union {"idle"}, CallTypes',
         \A d \in Calls \ {c} : SameCall(d), UNCHANGED <<row, published, meant, raced>>
  PROVE  Undeleted' /\ Conflictless' /\ \A d \in Calls : AtWork(d)'
<1>1. Undeleted'
  BY DEF RulesInv, Undeleted
<1>2. \A d \in Calls : AtWork(d)'
  BY DEF RulesInv, SameCall, AtWork, Form, Fitting, Engaged, G!Publishes, G!Draft, G!Newest
<1>3. Conflictless'
  <2> SUFFICES ASSUME ~raced' PROVE G!Loadable' /\ Checked'
    BY DEF Conflictless
  <2>1. G!Loadable /\ Checked
    BY DEF RulesInv, Conflictless
  <2>2. G!Loadable'
    BY <2>1 DEF G!Loadable, G!Live, G!Newest
  <2>3. Checked'
    BY <2>1 DEF Checked, SameCall, Engaged, G!Publishes, G!NoConflict, G!Live, G!Newest
  <2> QED BY <2>2, <2>3
<1> QED BY <1>1, <1>2, <1>3

LEMMA RuleLoading ==
  ASSUME RulesInv, NEW c \in Calls, G!ReadDefinitions(c)
  PROVE  RulesInv'
<1>1. doing[c] = "reload" /\ loader = None
  BY DEF G!ReadDefinitions, G!LoaderFree
<1>2. CASE G!Fail(c)
  BY <1>1, <1>2, RuleFailure
<1>3. CASE ~G!Fail(c)
  <2>1. /\ loader' = c /\ found' = [i \in RuleSets |-> Len(published[i])]
        /\ doing' = [doing EXCEPT ![c] = "replace"]
        /\ UNCHANGED <<row, published, meant, loaded, op, target, number, wish, pick, raced>>
    BY <1>3 DEF G!ReadDefinitions, G!GoTo, G!rowVars
  <2>2. CallTypes' /\ doing'[c] = "replace" /\ \A d \in Calls \ {c} : SameCall(d)
    BY <2>1 DEF RulesInv, RuleTypes, CallTypes, SameCall
  <2>3. found' \in [RuleSets -> Nat]
    BY <2>1 DEF RulesInv, RuleTypes
  <2>4. RuleTypes'
    BY <2>1, <2>2, <2>3 DEF RulesInv, RuleTypes, CallTypes
  <2>5. Loading'
    BY <2>1 DEF RulesInv, RuleTypes, Loading
  <2>6. \A d \in Calls \ {c} : Served(d)'
    BY <1>1, <2>1, <2>2, RuleNumbers DEF RulesInv, SameCall, Served, G!Publishes
  <2>7. Served(c)'
    BY <1>1, <2>1, <2>2 DEF RulesInv, Served, G!Publishes
  <2>8. doing'[c] \notin Engaged \union {"idle"}
    BY <2>2 DEF Engaged
  <2> QED BY <2>1, <2>2, <2>4, <2>5, <2>6, <2>7, <2>8, EngineStep DEF RulesInv
<1> QED BY <1>2, <1>3

LEMMA RuleReplacing ==
  ASSUME RulesInv, NEW c \in Calls, G!ReplaceRules(c)
  PROVE  RulesInv'
<1>1. /\ doing[c] = "replace" /\ loaded' = found /\ found' = [i \in RuleSets |-> 0] /\ loader' = None
      /\ IF G!Publishes(c)
           THEN doing' = [doing EXCEPT ![c] = "done"] /\ UNCHANGED <<op, target, number, wish, pick>>
           ELSE doing' = [doing EXCEPT ![c] = "over"] /\ G!Forget(c)
      /\ UNCHANGED <<row, published, meant, raced>>
  BY DEF G!ReplaceRules, G!GoTo, G!rowVars
<1>2. loader = c /\ (G!Publishes(c) =>
        target[c] \in RuleSets /\ number[c] <= Len(published[target[c]]) /\ number[c] <= found[target[c]])
  BY <1>1 DEF RulesInv, Served
<1>3. /\ CallTypes' /\ \A d \in Calls \ {c} : SameCall(d)
      /\ doing'[c] = IF G!Publishes(c) THEN "done" ELSE "over"
  <2>1. CASE G!Publishes(c)
    BY <1>1, <2>1 DEF RulesInv, RuleTypes, CallTypes, SameCall
  <2>2. CASE ~G!Publishes(c)
    <3>1. doing' = [doing EXCEPT ![c] = "over"] /\ G!Forget(c)
      BY <1>1, <2>2
    <3> QED BY <2>2, <3>1 DEF RulesInv, RuleTypes, CallTypes, SameCall, G!Forget
  <2> QED BY <2>1, <2>2
<1>4. RuleTypes'
  BY <1>1, <1>3 DEF RulesInv, RuleTypes, CallTypes
<1>5. Loading'
  BY <1>1, <1>2, RuleNumbers DEF RulesInv, RuleTypes, Loading
<1>6. \A d \in Calls \ {c} : Served(d)'
  <2> SUFFICES ASSUME NEW d \in Calls \ {c} PROVE Served(d)'
    OBVIOUS
  <2>1. doing'[d] = doing[d] /\ doing[d] # "replace" /\ SameCall(d) /\ Served(d)
    BY <1>2, <1>3 DEF RulesInv, Served, SameCall
  <2>2. target[d] \in RuleSets => loaded[target[d]] <= loaded'[target[d]]
    BY <1>1, <1>2, RuleNumbers DEF RulesInv, Loading
  <2>3. /\ loaded \in [RuleSets -> Nat] /\ loaded' \in [RuleSets -> Nat] /\ number[d] \in Nat
        /\ loader' # d
    BY <1>1, <1>4, RuleNumbers DEF RulesInv, RuleTypes
  <2> QED BY <1>1, <2>1, <2>2, <2>3 DEF Served, SameCall, G!Publishes
<1>7. Served(c)'
  BY <1>1, <1>2, <1>3, RuleNumbers DEF Served
<1>8. doing'[c] \notin Engaged \union {"idle"}
  BY <1>3 DEF Engaged
<1> QED BY <1>1, <1>3, <1>4, <1>5, <1>6, <1>7, <1>8, EngineStep DEF RulesInv

LEMMA Appended ==
  ASSUME NEW S, NEW s \in Seq(S), NEW x \in S
  PROVE  /\ Append(s, x) \in Seq(S) /\ Append(s, x) # <<>> /\ Len(Append(s, x)) = Len(s) + 1
         /\ Append(s, x)[Len(Append(s, x))] = x /\ Len(s) \in Nat
         /\ s # <<>> => Head(Append(s, x)) = Head(s)
OBVIOUS

\* A row moves on, or goes: whoever has a form of it has an outdated one.
LEMMA RowMoves ==
  ASSUME RulesInv, NEW c \in Calls, NEW i \in RuleSets, RuleTypes',
         \A d \in Calls \ {c} : SameCall(d), row[i].version > 0,
         row'[i].version = 0 \/ row'[i].version = row[i].version + 1,
         \A j \in RuleSets \ {i} : row'[j] = row[j] /\ published'[j] = published[j],
         published'[i] = published[i] \/ \E x \in G!Content : published'[i] = Append(published[i], x)
  PROVE  /\ \A d \in Calls \ {c} : AtWork(d)'
         /\ \A j \in RuleSets : Len(published[j]) <= Len(published'[j])
<1> DEFINE Longer(j) == /\ Len(published[j]) <= Len(published'[j])
                        /\ published[j] # <<>> =>
                             published'[j] # <<>> /\ Head(published'[j]) = Head(published[j])
<1>1. \A j \in RuleSets : Longer(j)
  <2>1. \A j \in RuleSets : published[j] \in Seq(G!Content) /\ Len(published[j]) \in Nat
    BY DEF RulesInv, RuleTypes
  <2>2. CASE published'[i] = published[i]
    BY <2>1, <2>2
  <2>3. CASE \E x \in G!Content : published'[i] = Append(published[i], x)
    <3>1. Longer(i)
      <4>1. PICK x \in G!Content : published'[i] = Append(published[i], x)
        BY <2>3
      <4> QED BY <2>1, <4>1, Appended
    <3> QED BY <2>1, <3>1
  <2> QED BY <2>2, <2>3
<1>2. \A j \in RuleSets : published[j] # <<>> =>
        published'[j] # <<>> /\ Head(published'[j]) = Head(published[j])
  BY <1>1
<1>3. SUFFICES ASSUME NEW d \in Calls \ {c} PROVE AtWork(d)'
  BY <1>1
<1>4. SameCall(d) /\ AtWork(d)
  BY DEF RulesInv
<1>5. CASE doing[d] \notin Engaged
  BY <1>4, <1>5 DEF SameCall, AtWork, Engaged
<1>6. CASE doing[d] \in Engaged
  <2>1. Form(d) /\ Fitting(d) /\ target[d] \in RuleSets
    BY <1>4, <1>6 DEF AtWork, Form
  <2>2. /\ row[target[d]].version \in Nat /\ row'[target[d]].version \in Nat /\ number[d] \in Nat
    BY <2>1 DEF RulesInv, RuleTypes
  <2>3. Form(d)'
    BY <1>2, <1>4, <2>1, <2>2 DEF Form, SameCall, G!Publishes
  <2>4. Fitting(d)'
    <3>1. CASE target[d] = i
      BY <1>4, <2>1, <2>2, <3>1 DEF Form, Fitting, SameCall
    <3>2. CASE target[d] # i
      BY <1>4, <2>1, <3>2 DEF Fitting, SameCall, G!Publishes, G!Draft, G!Newest
    <3> QED BY <3>1, <3>2
  <2> QED BY <1>4, <1>6, <2>3, <2>4 DEF AtWork, SameCall
<1> QED BY <1>5, <1>6

\* Nothing that is published or loaded goes back when a row moves on.
LEMMA LoadingStays ==
  ASSUME RulesInv, NEW c \in Calls, doing[c] # "replace",
         \A d \in Calls \ {c} : SameCall(d), UNCHANGED <<loaded, loader, found>>,
         published' \in [RuleSets -> Seq(G!Content)],
         \A j \in RuleSets : Len(published[j]) <= Len(published'[j])
  PROVE  Loading' /\ \A d \in Calls \ {c} : Served(d)'
<1>1. Loading'
  BY DEF RulesInv, RuleTypes, Loading
<1>2. \A d \in Calls \ {c} : Served(d)'
  BY DEF RulesInv, RuleTypes, SameCall, Served, G!Publishes
<1> QED BY <1>1, <1>2

LEMMA RuleDeletion ==
  ASSUME RulesInv, NEW c \in Calls, G!Delete(c)
  PROVE  RulesInv'
<1> DEFINE i == target[c]
<1>1. /\ doing[c] = "commit" /\ op[c] = "delete" /\ row[i].version = number[c]
      /\ row' = [row EXCEPT ![i].version = 0] /\ doing' = [doing EXCEPT ![c] = "over"] /\ G!Forget(c)
      /\ UNCHANGED <<published, meant, loaded, loader, found, raced>>
  BY DEF G!Delete, G!StillFits, G!GoTo, G!engineVars
<1>2. Form(c) /\ Fitting(c) /\ i \in RuleSets /\ published[i] = <<>> /\ row[i].version > 0
  BY <1>1 DEF RulesInv, AtWork, Engaged, Form, Fitting
<1>3. /\ CallTypes' /\ doing'[c] = "over" /\ \A d \in Calls \ {c} : SameCall(d)
  BY <1>1 DEF RulesInv, RuleTypes, CallTypes, SameCall, G!Forget
<1>4. /\ row' \in [RuleSets -> [version : Nat, content : Patterns, enabled : BOOLEAN]]
      /\ row'[i].version = 0 /\ \A j \in RuleSets \ {i} : row'[j] = row[j]
  BY <1>1, <1>2 DEF RulesInv, RuleTypes
<1>5. RuleTypes'
  BY <1>1, <1>3, <1>4 DEF RulesInv, RuleTypes, CallTypes
<1>6. Undeleted'
  BY <1>1, <1>2, <1>4 DEF RulesInv, Undeleted
<1>7. \A d \in Calls \ {c} : AtWork(d)'
  BY <1>1, <1>2, <1>3, <1>4, <1>5, RowMoves
<1>8. Loading' /\ \A d \in Calls \ {c} : Served(d)'
  <2>1. /\ published' \in [RuleSets -> Seq(G!Content)]
        /\ \A j \in RuleSets : Len(published[j]) <= Len(published'[j])
    BY <1>1, <1>5 DEF RuleTypes
  <2> QED BY <1>1, <1>3, <2>1, LoadingStays
<1>9. AtWork(c)' /\ Served(c)'
  BY <1>1, <1>3 DEF RulesInv, AtWork, Served, Engaged
<1>10. Conflictless'
  <2> SUFFICES ASSUME ~raced' PROVE G!Loadable' /\ Checked'
    BY DEF Conflictless
  <2>1. G!Loadable /\ Checked
    BY <1>1 DEF RulesInv, Conflictless
  <2>2. G!Loadable'
    BY <1>1, <2>1 DEF G!Loadable, G!Live, G!Newest
  <2>3. Checked'
    BY <1>1, <1>3, <2>1 DEF Checked, SameCall, G!Publishes, G!NoConflict, G!Live, G!Newest
  <2> QED BY <2>2, <2>3
<1> QED BY <1>5, <1>6, <1>7, <1>8, <1>9, <1>10 DEF RulesInv

\* The transaction of an UPDATE, without a row of protection_rule_version or with one.
LEMMA RuleCommit ==
  ASSUME RulesInv, NEW c \in Calls, op[c] # "delete", G!Commit(c)
  PROVE  RulesInv'
<1> DEFINE i == target[c]
           new == [content |-> CASE op[c] = "update" -> wish[c].content
                                 [] op[c] = "rollback" -> pick[c].content
                                 [] OTHER -> row[i].content,
                   enabled |-> CASE op[c] = "publish" -> row[i].enabled
                                 [] op[c] = "rollback" -> pick[c].enabled
                                 [] OTHER -> wish[c].enabled,
                   version |-> row[i].version + 1]
<1>1. doing[c] = "commit" /\ Form(c) /\ Fitting(c) /\ i \in RuleSets
  BY DEF G!Commit, RulesInv, AtWork, Engaged, Form
<1>2. CASE G!Fail(c)
  BY <1>1, <1>2, RuleFailure
<1>3. CASE ~G!Fail(c)
  <2>1. /\ row[i].version = number[c] /\ row' = [row EXCEPT ![i] = new]
        /\ UNCHANGED <<loaded, loader, found>>
        /\ \/ /\ G!Publishes(c)
              /\ published' = [published EXCEPT ![i] = Append(@, pick[c])]
              /\ meant' = [meant EXCEPT ![i] = Append(@, wish[c])]
              /\ number' = [number EXCEPT ![c] = Len(published[i]) + 1]
              /\ raced' = (raced \/ (\E d \in Calls \ {c} :
                   doing[d] = "commit" /\ target[d] # i /\ pick[d] = pick[c] /\ pick[c].enabled))
              /\ doing' = [doing EXCEPT ![c] = "reload"] /\ UNCHANGED <<op, target, wish, pick>>
           \/ /\ ~G!Publishes(c) /\ doing' = [doing EXCEPT ![c] = "over"] /\ G!Forget(c)
              /\ UNCHANGED <<published, meant, raced>>
    BY <1>3, Zenon DEF G!Commit, G!StillFits, G!GoTo, G!engineVars
  <2>2. new \in [version : Nat, content : Patterns, enabled : BOOLEAN]
    <3>1. wish[c] \in G!Content /\ (op[c] = "rollback" => pick[c] \in G!Content)
      BY <1>1 DEF Form, G!Publishes
    <3>2. row[i] \in [version : Nat, content : Patterns, enabled : BOOLEAN]
      BY <1>1 DEF RulesInv, RuleTypes
    <3> QED BY <3>1, <3>2 DEF G!Content
  <2>3. /\ row' \in [RuleSets -> [version : Nat, content : Patterns, enabled : BOOLEAN]]
        /\ row[i].version > 0 /\ row'[i].version = row[i].version + 1
        /\ \A j \in RuleSets \ {i} : row'[j] = row[j]
    <3>1. new.version = row[i].version + 1 /\ row[i].version > 0
      BY <1>1, <2>1 DEF Form
    <3> HIDE DEF new
    <3> QED BY <1>1, <2>1, <2>2, <3>1 DEF RulesInv, RuleTypes
  <2> HIDE DEF new
  <2>4. CASE ~G!Publishes(c)
    <3>1. /\ CallTypes' /\ doing'[c] = "over" /\ \A d \in Calls \ {c} : SameCall(d)
          /\ UNCHANGED <<published, meant, raced>>
      <4>1. doing' = [doing EXCEPT ![c] = "over"] /\ G!Forget(c) /\ UNCHANGED <<published, meant, raced>>
        BY <2>1, <2>4
      <4> QED BY <4>1 DEF RulesInv, RuleTypes, CallTypes, SameCall, G!Forget
    <3>2. RuleTypes'
      BY <2>1, <2>3, <3>1 DEF RulesInv, RuleTypes, CallTypes
    <3>3. Undeleted'
      <4>1. row[i].version \in Nat
        BY <1>1 DEF RulesInv, RuleTypes
      <4>2. row'[i].version > 0
        BY <2>3, <4>1
      <4> QED BY <2>3, <3>1, <4>2 DEF RulesInv, Undeleted
    <3>4. \A d \in Calls \ {c} : AtWork(d)'
      BY <1>1, <2>3, <3>1, <3>2, RowMoves
    <3>5. Loading' /\ \A d \in Calls \ {c} : Served(d)'
      <4>1. /\ published' \in [RuleSets -> Seq(G!Content)]
            /\ \A j \in RuleSets : Len(published[j]) <= Len(published'[j])
        BY <3>1, <3>2 DEF RuleTypes
      <4> QED BY <1>1, <2>1, <3>1, <4>1, LoadingStays
    <3>6. AtWork(c)' /\ Served(c)'
      BY <1>1, <2>1, <3>1 DEF RulesInv, AtWork, Served, Engaged
    <3>7. Conflictless'
      <4> SUFFICES ASSUME ~raced' PROVE G!Loadable' /\ Checked'
        BY DEF Conflictless
      <4>1. G!Loadable /\ Checked
        BY <3>1 DEF RulesInv, Conflictless
      <4>2. G!Loadable'
        BY <3>1, <4>1 DEF G!Loadable, G!Live, G!Newest
      <4>3. Checked'
        BY <3>1, <4>1 DEF Checked, SameCall, G!Publishes, G!NoConflict, G!Live, G!Newest
      <4> QED BY <4>2, <4>3
    <3> QED BY <3>2, <3>3, <3>4, <3>5, <3>6, <3>7 DEF RulesInv
  <2>5. CASE G!Publishes(c)
    <3>1. /\ published' = [published EXCEPT ![i] = Append(@, pick[c])]
          /\ meant' = [meant EXCEPT ![i] = Append(@, wish[c])]
          /\ number' = [number EXCEPT ![c] = Len(published[i]) + 1]
          /\ raced' = (raced \/ (\E d \in Calls \ {c} :
               doing[d] = "commit" /\ target[d] # i /\ pick[d] = pick[c] /\ pick[c].enabled))
          /\ doing' = [doing EXCEPT ![c] = "reload"] /\ UNCHANGED <<op, target, wish, pick>>
      BY <2>1, <2>5
    <3>2. pick[c] = wish[c] /\ pick[c] \in G!Content
      BY <1>1, <2>1, <2>5 DEF Form, Fitting
    <3>3. /\ published \in [RuleSets -> Seq(G!Content)] /\ meant = published
      BY DEF RulesInv, RuleTypes
    <3>4. /\ published' \in [RuleSets -> Seq(G!Content)] /\ meant' = published'
          /\ published'[i] = Append(published[i], pick[c])
          /\ \A j \in RuleSets \ {i} : published'[j] = published[j]
      BY <1>1, <3>1, <3>2, <3>3
    <3>5. Len(published'[i]) = Len(published[i]) + 1 /\ published'[i][Len(published'[i])] = pick[c]
      BY <1>1, <3>2, <3>3, <3>4, Appended
    <3>6. /\ CallTypes' /\ doing'[c] = "reload" /\ \A d \in Calls \ {c} : SameCall(d)
          /\ number'[c] = Len(published[i]) + 1
      <4>1. Len(published[i]) + 1 \in Nat
        BY <1>1, <3>3
      <4> QED BY <3>1, <4>1 DEF RulesInv, RuleTypes, CallTypes, SameCall
    <3>7. RuleTypes'
      <4>1. raced' \in BOOLEAN
        BY <3>1 DEF RulesInv, RuleTypes
      <4> QED BY <2>1, <2>3, <3>4, <3>6, <4>1 DEF RulesInv, RuleTypes, CallTypes
    <3>8. Undeleted'
      <4>1. row[i].version \in Nat
        BY <1>1 DEF RulesInv, RuleTypes
      <4>2. row'[i].version > 0
        BY <2>3, <4>1
      <4> QED BY <2>3, <3>4, <4>2 DEF RulesInv, Undeleted
    <3>9. /\ \A d \in Calls \ {c} : AtWork(d)'
          /\ \A j \in RuleSets : Len(published[j]) <= Len(published'[j])
      BY <1>1, <2>3, <3>2, <3>4, <3>6, <3>7, RowMoves
    <3>10. Loading' /\ \A d \in Calls \ {c} : Served(d)'
      BY <1>1, <2>1, <3>4, <3>6, <3>9, LoadingStays
    <3>11. AtWork(c)'
      BY <3>6 DEF AtWork, Engaged
    <3>12. Served(c)'
      BY <1>1, <2>1, <3>1, <3>5, <3>6, RuleNumbers DEF RulesInv, Served
    <3>13. Conflictless'
      <4> SUFFICES ASSUME ~raced' PROVE G!Loadable' /\ Checked'
        BY DEF Conflictless
      <4>1. G!Loadable /\ Checked /\ ~\E d \in Calls \ {c} :
              doing[d] = "commit" /\ target[d] # i /\ pick[d] = pick[c] /\ pick[c].enabled
        BY <3>1 DEF RulesInv, Conflictless
      <4> PICK t \in RuleSets : t = i
        BY <1>1
      <4>2. /\ pick[c].enabled => G!NoConflict(c)
            /\ G!Live(t)' <=> pick[c].enabled
            /\ G!Newest(t)' = pick[c]
        <5>1. published'[t] # <<>>
          BY <1>1, <3>2, <3>3, <3>4, Appended
        <5>2. pick[c].enabled => G!NoConflict(c)
          BY <1>1, <2>5, <4>1 DEF Checked
        <5> QED BY <3>5, <5>1, <5>2 DEF G!Live, G!Newest
      <4>3. \A j \in RuleSets \ {t} : (G!Live(j)' <=> G!Live(j)) /\ G!Newest(j)' = G!Newest(j)
        BY <3>4 DEF G!Live, G!Newest
      <4>4. G!Loadable'
        BY <1>1, <4>1, <4>2, <4>3 DEF G!Loadable, G!NoConflict
      <4>5. Checked'
        <5> SUFFICES ASSUME NEW d \in Calls, doing'[d] = "commit", G!Publishes(d)', pick'[d].enabled
                     PROVE  G!NoConflict(d)'
          BY DEF Checked
        <5>1. d # c /\ doing[d] = "commit" /\ G!Publishes(d) /\ pick[d].enabled /\ SameCall(d)
          BY <3>6 DEF SameCall, G!Publishes
        <5>2. G!NoConflict(d) /\ target[d] \in RuleSets /\ pick[d] \in G!Content
          BY <4>1, <5>1 DEF Checked, RulesInv, AtWork, Engaged, Form
        <5>3. target[d] # i /\ pick[c].enabled => pick[d].content # pick[c].content
          BY <3>2, <4>1, <5>1, <5>2 DEF G!Content
        <5> QED BY <4>2, <4>3, <5>1, <5>2, <5>3 DEF G!NoConflict, SameCall
      <4> QED BY <4>4, <4>5
    <3> QED BY <3>7, <3>8, <3>9, <3>10, <3>11, <3>12, <3>13 DEF RulesInv
  <2> QED BY <2>4, <2>5
<1> QED BY <1>2, <1>3

LEMMA RulesStep == RulesInv /\ [G!Next]_G!vars => RulesInv'
<1> SUFFICES ASSUME RulesInv, [G!Next]_G!vars PROVE RulesInv'
  OBVIOUS
<1>1. CASE UNCHANGED G!vars
  <2>1. /\ UNCHANGED <<row, published, meant, loaded, loader, found>>
        /\ UNCHANGED <<doing, op, target, number, wish, pick, raced>>
    BY <1>1 DEF G!vars, G!rowVars, G!engineVars, G!callVars
  <2> QED BY <2>1 DEF RulesInv, RuleTypes, Undeleted, Conflictless, Checked, Loading, AtWork, Served,
             Form, Fitting, G!Publishes, G!Draft, G!Newest, G!Live, G!Loadable, G!NoConflict
<1>2. CASE G!Next
  <2>1. PICK c \in Calls :
          \/ \E i \in RuleSets : G!Open(c, i)
          \/ G!Find(c) \/ G!ReadVersion(c) \/ G!Check(c) \/ (op[c] # "delete" /\ G!Commit(c))
          \/ G!Count(c) \/ G!Delete(c)
          \/ G!Evaluate(c) \/ G!ReadDefinitions(c) \/ G!ReplaceRules(c)
    BY <1>2 DEF G!Next
  <2> QED BY <2>1, RuleOpening, RuleFinding, RuleReading, RuleChecking, RuleCommit, RuleCounting,
             RuleDeletion, RuleEvaluation, RuleLoading, RuleReplacing
<1> QED BY <1>1, <1>2

\* What is published is what its operator had before him, whoever changes the set
\* meanwhile, for any number of calls, sets and patterns (Publish, SetEnabled, Rollback).
THEOREM PublicationsSeen == G!Spec => []PublishedAsSeen
<1>1. RulesInv => PublishedAsSeen
  BY DEF RulesInv, RuleTypes, Undeleted, PublishedAsSeen, G!PublishedAsSeen
<1> QED BY <1>1, RulesFirst, RulesStep, PTL DEF G!Spec

\* Unless two sets of one pattern are checked at a time, what is published and enabled can
\* be loaded; and once a publication is answered the engine works with it or a later one
\* (validatePublishConflicts, reloadRuntime).
THEOREM RulesServed == G!Spec => []RulesAreServed
<1>1. RulesInv => RulesAreServed
  BY DEF RulesInv, Conflictless, Served, RulesAreServed, G!RulesAreServed, G!RulesCanBeLoaded,
         G!EngineIsCurrent
<1> QED BY <1>1, RulesFirst, RulesStep, PTL DEF G!Spec
=============================================================================
