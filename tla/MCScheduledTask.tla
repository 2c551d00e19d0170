---------------------------- MODULE MCScheduledTask ----------------------------
(***************************************************************************)
(* The task fires every second tick, and a handler may take a tick or two: *)
(* with one attempt it is back before its lock lapses, with a retry or a   *)
(* late start it may not be.                                               *)
(***************************************************************************)
EXTENDS ScheduledTask, TLC

Task(policy, misfire, attempts, prompt) ==
    [policy |-> policy, misfire |-> misfire, attempts |-> attempts, prompt |-> prompt]

\* A task that is retried.
MCRetried == {Task("FORBID", "SCHEDULER_DEFAULT", 2, TRUE)}

MCSymmetry == Permutations(Nodes) \union Permutations(Runs)
===============================================================================
