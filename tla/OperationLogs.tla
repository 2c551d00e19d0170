---------------------------- MODULE OperationLogs ----------------------------
(***************************************************************************)
(* The log of operations (app/services/platform/logadmin/dispatcher.go): a *)
(* record goes to the queue, or to a channel that one goroutine of the     *)
(* process empties, or is written by the request itself.  The goroutine is *)
(* started by whoever needs it first and stopped with the process, by a    *)
(* runner that exists only where there is no queue.                        *)
(***************************************************************************)
EXTENDS Naturals, Sequences

CONSTANTS
  Records,      \* each dispatched by a request of its own
  Stoppers,     \* calls of Shutdown
  Size          \* of the channel, positive

\* What the goroutine is doing is no record.
LogAssumption == Size \in Nat \ {0} /\ {"none", "idle", "done"} \intersect Records = {}

VARIABLES
  configured,   \* shouldUseConfiguredQueue
  started, stopping,
  channel, closed,
  worker,       \* the goroutine: "none", "idle", the record it writes, "done"
  at,           \* where the dispatch of a record is
  stopper,      \* where a call of Shutdown is
  written,      \* history: how often a record was written
  panicked      \* history: a record was sent to the closed channel

vars == <<configured, started, stopping, channel, closed, worker, at, stopper, written, panicked>>

TypeOK ==
  /\ {configured, started, stopping, closed, panicked} \subseteq BOOLEAN
  /\ channel \in Seq(Records) /\ Len(channel) <= Size
  /\ worker \in Records \union {"none", "idle", "done"}
  /\ at \in [Records -> {"new", "start", "send", "write", "queued", "returned"}]
  /\ stopper \in [Stoppers -> {"new", "waiting", "returned"}]
  /\ written \in [Records -> 0..2]

Init ==
  /\ configured \in BOOLEAN
  /\ started = FALSE /\ stopping = FALSE /\ closed = FALSE /\ panicked = FALSE
  /\ channel = <<>> /\ worker = "none"
  /\ at = [r \in Records |-> "new"] /\ stopper = [s \in Stoppers |-> "new"]
  /\ written = [r \in Records |-> 0]

GoTo(r, s) == at' = [at EXCEPT ![r] = s]
Write(r) == written' = [written EXCEPT ![r] = IF @ < 2 THEN @ + 1 ELSE @]
workerVars == <<started, stopping, channel, closed, worker>>

\* Start, under the mutex; where it returns an error nothing is started.
StartWorker ==
  /\ started' = TRUE
  /\ worker' = IF started THEN worker ELSE "idle"

-----------------------------------------------------------------------------

\* DispatchOperationLog: a queue may refuse the job.
DispatchOperationLog(r) ==
  /\ at[r] = "new"
  /\ (configured /\ GoTo(r, "queued")) \/ GoTo(r, "start")
  /\ UNCHANGED <<configured, workerVars, stopper, written, panicked>>

DispatchStarts(r) ==
  /\ at[r] = "start"
  /\ IF stopping
       THEN GoTo(r, "write") /\ UNCHANGED <<started, worker>>
       ELSE GoTo(r, "send") /\ StartWorker
  /\ UNCHANGED <<configured, stopping, channel, closed, stopper, written, panicked>>

\* The mutex is taken a second time.  Variant: without a second look.
StoppingAsBefore == FALSE
StoppingNow == stopping
Dispatch(r) ==
  /\ at[r] = "send"
  /\ \/ StoppingNow /\ GoTo(r, "write") /\ UNCHANGED <<channel, panicked>>
     \/ ~StoppingNow /\ closed /\ panicked' = TRUE /\ GoTo(r, "returned") /\ UNCHANGED channel
     \/ /\ ~StoppingNow /\ ~closed /\ Len(channel) < Size
        /\ channel' = Append(channel, r) /\ GoTo(r, "returned") /\ UNCHANGED panicked
     \/ /\ ~StoppingNow /\ ~closed /\ Len(channel) = Size
        /\ GoTo(r, "write") /\ UNCHANGED <<channel, panicked>>
  /\ UNCHANGED <<configured, started, stopping, closed, worker, stopper, written>>

\* WriteOperationLog by the request; its error is dropped.
WriteHere(r) ==
  /\ at[r] = "write" /\ Write(r) /\ GoTo(r, "returned")
  /\ UNCHANGED <<configured, workerVars, stopper, panicked>>

\* OperationLogRunner.Run, where ShouldRun says so, as long as nothing stops it.
RunRunner ==
  /\ ~configured /\ ~stopping /\ ~started
  /\ StartWorker
  /\ UNCHANGED <<configured, stopping, channel, closed, at, stopper, written, panicked>>

\* run, over the channel until that is closed and empty.
Take ==
  /\ worker = "idle" /\ channel # <<>>
  /\ worker' = Head(channel) /\ channel' = Tail(channel)
  /\ UNCHANGED <<configured, started, stopping, closed, at, stopper, written, panicked>>

WriteTaken ==
  /\ worker \in Records /\ Write(worker) /\ worker' = "idle"
  /\ UNCHANGED <<configured, started, stopping, channel, closed, at, stopper, panicked>>

Finish ==
  /\ worker = "idle" /\ channel = <<>> /\ closed /\ worker' = "done"
  /\ UNCHANGED <<configured, started, stopping, channel, closed, at, stopper, written, panicked>>

\* Shutdown, under the mutex.
Shutdown(s) ==
  /\ ~configured /\ stopper[s] = "new"
  /\ stopping' = TRUE
  /\ closed' = (closed \/ (~stopping /\ started))
  /\ worker' = IF ~stopping /\ ~started THEN "done" ELSE worker
  /\ stopper' = [stopper EXCEPT ![s] = "waiting"]
  /\ UNCHANGED <<configured, started, channel, at, written, panicked>>

ShutdownReturns(s) ==
  /\ stopper[s] = "waiting" /\ worker = "done"
  /\ stopper' = [stopper EXCEPT ![s] = "returned"]
  /\ UNCHANGED <<configured, workerVars, at, written, panicked>>

Next ==
  \/ \E r \in Records :
       DispatchOperationLog(r) \/ DispatchStarts(r) \/ Dispatch(r) \/ WriteHere(r)
  \/ RunRunner \/ Take \/ WriteTaken \/ Finish
  \/ \E s \in Stoppers : Shutdown(s) \/ ShutdownReturns(s)

Spec == Init /\ [][Next]_vars

-----------------------------------------------------------------------------

\* Wherever a shutdown falls, a record is written once: it never meets the closed
\* channel, and when the shutdown is over whatever had been accepted is written.
RecordsAreWritten ==
  /\ ~panicked
  /\ \A r \in Records : written[r] <= 1
  /\ worker = "done" => \A r \in Records : at[r] = "returned" => written[r] = 1
=============================================================================
