----------------------------- MODULE MCScheduling -----------------------------
(***************************************************************************)
(* A task that nodes run, and a task that operators touch: one of the two  *)
(* instances moves in each behaviour, its focus.                           *)
(*                                                                         *)
(* nodes      Two nodes run one task: one that is retried, one that is     *)
(*            skipped when late, or a prompt one.  Every second tick it is *)
(*            due, and five ticks let a late start outlive its lock.       *)
(* operators  An editor and manual runs under one key meet the runner of   *)
(*            one node, for a task that replaces its runs and one that     *)
(*            forbids them.                                                *)
(***************************************************************************)
EXTENDS ScheduledTask, TLC

CONSTANTS OneNode, AKey, AnEditor

VARIABLE focus

MCTask(policy, misfire, attempts, prompt) ==
    [policy |-> policy, misfire |-> misfire, attempts |-> attempts, prompt |-> prompt]
MCNodesSettings ==
    {MCTask("FORBID", "SCHEDULER_DEFAULT", 2, FALSE),
     MCTask("FORBID", "IGNORE", 1, FALSE),
     MCTask("FORBID", "FIRE_ONCE_NOW", 1, TRUE)}
MCOperatorsSettings ==
    {MCTask("FORBID", "FIRE_ONCE_NOW", 1, FALSE),
     MCTask("REPLACE", "IGNORE", 1, FALSE)}

MCSymmetry == Permutations(Nodes) \union Permutations(Runs)

O == INSTANCE ScheduledTask
       WITH Nodes <- OneNode, Keys <- AKey, Editors <- AnEditor,
            Settings <- MCOperatorsSettings, Timeout <- 1, Horizon <- 2

MCInit ==
  \/ focus = "nodes" /\ Init
  \/ focus = "operators" /\ O!Init

MCNext ==
  \/ focus = "nodes" /\ Next /\ UNCHANGED focus
  \/ focus = "operators" /\ O!Next /\ UNCHANGED focus

MCSpec == MCInit /\ [][MCNext]_<<focus, vars>>
===============================================================================
