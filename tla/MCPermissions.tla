---------------------------- MODULE MCPermissions ----------------------------
(***************************************************************************)
(* The roles of a tenant by themselves, for what their documentation says  *)
(* and the code does not do.  The instance is that of MCAccess.            *)
(***************************************************************************)
EXTENDS Permissions, TLC

MCSymmetry == Permutations(Calls) \union Permutations(Readers)
==============================================================================
