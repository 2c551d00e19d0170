----------------------------- MODULE MCQueueOutbox -----------------------------
(***************************************************************************)
(* Two runners and two events in one batch; a lock of one tick lapses      *)
(* under a slow batch, two attempts reach the end of the retries, and two  *)
(* faults - crash, shutdown, failed statement, cycle outlasting its lock - *)
(* can hit one event or both.                                              *)
(***************************************************************************)
EXTENDS QueueOutbox

MCNumEvents == 2
MCBatch == 2
MCLease == 1
MCMaxAttempts == 2
MCMaxFaults == 2
===============================================================================
