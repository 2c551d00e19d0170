---------------------------- MODULE MCRuntimeGuards ----------------------------
(***************************************************************************)
(* The migration lock and the protection engine.  They share no state, so  *)
(* it is enough to let one of them move in each behaviour: its focus.      *)
(*                                                                         *)
(* Three processes of any scopes migrate: with two rounds each, a process  *)
(* comes back to keys that others have taken, or left, in between.  Three  *)
(* callers, as interchangeable as the processes, meet limits of two, both  *)
(* circuits, and times short enough that outages, windows and samples      *)
(* expire under running calls.                                             *)
(***************************************************************************)
EXTENDS MigrationLock, TLC

CONSTANTS
  Circuits, SlowCircuit, MinimumRequests, ThresholdPercent, StatisticalWindow, OpenDuration,
  HalfOpenProbes, HalfOpenSuccesses, Limit, RateWindow, MaxConcurrency, Toggled,
  MaxVersion

VARIABLES
  focus,
  published, loaded, circuit, window, concurrency, held, admits, disabled

MCCircuits == <<"SLOW_CALL", "FAILURE_RATE">>
MCOrder == <<"tenants", "platform">>
MCSymmetry == Permutations(Procs)

E == INSTANCE ProtectionEngine WITH Calls <- Procs

ASSUME EngineAssumption == E!EngineAssumption

engineVars ==
  <<published, loaded, circuit, window, concurrency, held, admits, disabled>>

MCInit ==
  /\ focus \in {"lock", "engine"}
  /\ Init /\ E!Init
  /\ focus = "engine" => \A p \in Procs : scope[p] = "all" /\ remaining[p] = 0

MCNext ==
  \/ focus = "lock" /\ Next /\ UNCHANGED <<focus, engineVars>>
  \/ focus = "engine" /\ E!Next /\ UNCHANGED <<focus, vars>>

MCSpec == MCInit /\ [][MCNext]_<<focus, vars, engineVars>>

CountsAreTrue == E!CountsAreTrue
OutageNotProlonged == E!OutageNotProlonged
===============================================================================
