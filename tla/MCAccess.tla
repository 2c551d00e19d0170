------------------------------- MODULE MCAccess -------------------------------
(*****************************************************************************)
(* The tokens that the people of a tenant are given, and its roles with the  *)
(* enforcers that answer by them.  They share no state here, so it is enough *)
(* to let one of them move in each behaviour: its focus.  Rows and rules do  *)
(* not depend on the requests: where roles and menus are made and menus are  *)
(* renamed nobody asks, and where requests are answered there is one role,   *)
(* given the permission at first, and menus only go.                         *)
(*                                                                           *)
(* Four tokens, two of which may be the successors of a refresh token, and   *)
(* lifetimes that are shortened or prolonged, and over before the clock      *)
(* stops.  Two calls change two roles, two codes and the menu of the         *)
(* permission, which may be renamed and made anew; two requests meet the     *)
(* enforcer, one of which waits for the load of the other, and an entry is   *)
(* good for two ticks after a load of one at most.                           *)
(*****************************************************************************)
EXTENDS Tokens, TLC

CONSTANTS Roles, Codes, Menus, Readers, TTL, MaxLoad, None

VARIABLES
  focus,
  born, code, menu, drawn, others, grants, members, prules, grules, call, entry, left, load,
  age, reader, since, adrift, torn, step

Longer == [access |-> 1, refresh |-> 2]
Shorter == [access |-> 0, refresh |-> 1]
MCLifetimes == {Longer, Shorter}
MCSymmetry == Permutations(Workers) \union Permutations(Readers)

P == INSTANCE Permissions WITH Calls <- Workers, stage <- step

ASSUME RolesAssumption == P!RolesAssumption

roleVars ==
  <<born, code, menu, drawn, others, grants, members, prules, grules, call, entry, left, load,
    age, reader, since, adrift, torn, step>>

MCInit ==
  /\ focus \in {"tokens", "roles", "answers"} /\ Init /\ P!Init
  /\ focus # "tokens" => lifetimes = Longer
  /\ focus = "answers" => grants # {}
  /\ focus = "tokens" => others = {} /\ grants = {} /\ members = {}

MCNext ==
  \/ focus = "tokens" /\ Next /\ UNCHANGED <<focus, roleVars>>
  \/ focus = "roles" /\ P!Next /\ load' = "none" /\ UNCHANGED <<focus, vars>>
  \/ focus = "answers" /\ P!Next /\ UNCHANGED <<focus, vars, born, drawn, others>>

MCSpec == MCInit /\ [][MCNext]_<<focus, vars, roleVars>>

AnswerIsRecent == P!AnswerIsRecent
RulesFollowRows == P!RulesFollowRows
===============================================================================
