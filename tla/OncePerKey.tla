------------------------------ MODULE OncePerKey ------------------------------
(***************************************************************************)
(* What queue.QueueIdempotencyStore promises its callers, with the table,  *)
(* the claim tokens and the leases left out: per key, work is undertaken,  *)
(* given up or completed, and completion is final - the first completed    *)
(* result is the answer for good.                                          *)
(***************************************************************************)
CONSTANTS
    Keys,       \* idempotency keys
    Results,    \* what completed work may return
    NoResult    \* no answer yet

VARIABLES
    phase,      \* phase[k]: "free", "held" or "done"
    answer      \* answer[k]: the result of the completed work

vars == <<phase, answer>>

Init ==
    /\ phase = [k \in Keys |-> "free"]
    /\ answer = [k \in Keys |-> NoResult]

\* Somebody undertakes the work of a key nobody has completed.
Undertake(k) ==
    /\ phase[k] = "free"
    /\ phase' = [phase EXCEPT ![k] = "held"]
    /\ UNCHANGED answer

\* The undertaken work failed: the key may be undertaken again.
GiveUp(k) ==
    /\ phase[k] = "held"
    /\ phase' = [phase EXCEPT ![k] = "free"]
    /\ UNCHANGED answer

\* The undertaken work is completed, once and for all.
Complete(k, r) ==
    /\ phase[k] = "held"
    /\ phase' = [phase EXCEPT ![k] = "done"]
    /\ answer' = [answer EXCEPT ![k] = r]

Next == \E k \in Keys :
    \/ Undertake(k)
    \/ GiveUp(k)
    \/ \E r \in Results : Complete(k, r)

Spec == Init /\ [][Next]_vars
===============================================================================
