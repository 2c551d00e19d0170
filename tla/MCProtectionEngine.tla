-------------------------- MODULE MCProtectionEngine --------------------------
(***************************************************************************)
(* The engine by itself, for what its documentation says and the code does *)
(* not do: two callers, one circuit with one probe, and versions enough to *)
(* disable the set and to enable it again.                                 *)
(***************************************************************************)
EXTENDS ProtectionEngine

MCFailureCircuit == <<"FAILURE_RATE">>
===============================================================================
