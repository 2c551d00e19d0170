--------------------------- MODULE MCAdministration ---------------------------
(*****************************************************************************)
(* What administrators do with evidence and sensitive operations; how an     *)
(* account logs in, enrols a factor and changes its password; and how people *)
(* sign on through a provider.  They share no state here, so it is enough to *)
(* let one of them move in each behaviour, its focus, and to leave the last  *)
(* two out of it where they are not.                                         *)
(*                                                                           *)
(* Two calls of two users, with two tokens and one approval, ask for two     *)
(* changes.  Three requests of one account with two passwords: enough for a  *)
(* login, its challenge, and one that crosses them.  Two transactions of one *)
(* person, two callbacks at a time, and a lock that lapses before its        *)
(* transaction does.                                                         *)
(*****************************************************************************)
EXTENDS SensitiveOperations, TLC

CONSTANTS
  u1,
  Passwords, InitialPassword, HistoryLimit, MaxFailures, RecoveryCodes, MaxRequests,
  MaxDrawn,
  Names, SubjectFits, Lifetime, LockTtl

VARIABLES
  focus,
  password, standing, history, expired, secret, codes, enrolled, failures, perpetual, lockout,
  challenges, work, requests, drawn, spent, spentAgain, excused, confirmed, crossed, slips,
  left, awaiting, verified, callbackLock, code, accounts, binding, leg, of, account, held,
  logins, late, doubled

MCRequests == {<<u1, "delete">>, <<u1, "export">>}
MCSymmetry == Permutations(Tokens) \union Permutations(Calls)

L == INSTANCE Sessions WITH Workers <- Calls, status <- standing, locked <- lockout, call <- work
S == INSTANCE SignOn WITH
       Transactions <- Tokens, cached <- awaiting, locked <- callbackLock, stage <- leg,
       crossed <- doubled

ASSUME SessionsAssumption == L!SessionsAssumption
ASSUME SignOnAssumption == S!SignOnAssumption

accountVars ==
  <<password, standing, history, expired, secret, codes, enrolled, failures, perpetual,
  lockout, challenges, work, requests, drawn, spent, spentAgain, excused, confirmed, crossed,
  slips>>
signOnVars ==
  <<left, awaiting, verified, callbackLock, code, accounts, binding, leg, of, account, held,
  logins, late, doubled>>

NoAccount ==
  /\ password = 0 /\ standing = 0 /\ history = 0 /\ expired = 0 /\ secret = 0 /\ codes = 0
  /\ enrolled = 0 /\ failures = 0 /\ perpetual = 0 /\ lockout = 0 /\ challenges = 0 /\ work = 0
  /\ requests = 0 /\ drawn = 0 /\ spent = 0 /\ spentAgain = 0 /\ excused = 0 /\ confirmed = 0
  /\ crossed = 0 /\ slips = 0
NoSignOn ==
  /\ left = 0 /\ awaiting = 0 /\ verified = 0 /\ callbackLock = 0 /\ code = 0 /\ accounts = 0
  /\ binding = 0 /\ leg = 0 /\ of = 0 /\ account = 0 /\ held = 0 /\ logins = 0 /\ late = 0
  /\ doubled = 0

MCInit ==
  /\ focus \in {"evidence", "sessions", "sign-on"}
  /\ Init
  /\ IF focus = "sessions" THEN L!Init ELSE NoAccount
  /\ IF focus = "sign-on" THEN S!Init ELSE NoSignOn

\* With the last request at work, nothing reads the status, the lock or a challenge that
\* nobody brought any more; when it is served, nothing at all.
Matters ==
  requests = MaxRequests /\ work' = work =>
    /\ UNCHANGED <<standing, lockout>>
    /\ \A t \in DOMAIN challenges \ DOMAIN challenges' : ~(\A c \in Calls : work[c].bring # t)
    /\ ~(\A c \in Calls : work[c].step = "idle")

MCNext ==
  /\ UNCHANGED focus
  /\ \/ focus = "evidence" /\ Next /\ UNCHANGED <<accountVars, signOnVars>>
     \/ focus = "sessions" /\ L!Next /\ Matters /\ UNCHANGED <<vars, signOnVars>>
     \/ focus = "sign-on" /\ S!Next /\ UNCHANGED <<vars, accountVars>>

MCSpec == MCInit /\ [][MCNext]_<<focus, vars, accountVars, signOnVars>>

AdmittedInFull == focus = "sessions" => L!AdmittedInFull
FactorsAreSpentOnce == focus = "sessions" => L!FactorsAreSpentOnce
RecordsAreKept == focus = "sessions" => L!RecordsAreKept
SignOnIsRepeatable == focus = "sign-on" => S!SignOnIsRepeatable
===============================================================================
