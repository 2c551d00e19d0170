-------------------------------- MODULE SignOn --------------------------------
(***************************************************************************)
(* Single sign-on by authorization code (app/services/application/sso.go   *)
(* and tenant.go).  A transaction lives in the cache for five minutes; the *)
(* callback of the browser is worked on under a lock of thirty seconds     *)
(* that nobody extends: the code is exchanged, the claims are kept for a   *)
(* retry, an account is found or made, bound, and only then is the         *)
(* transaction used up.                                                    *)
(*                                                                         *)
(* All transactions are one person's, who may have several tabs open and   *)
(* may repeat a callback.  The provider is external: it takes a code once. *)
(***************************************************************************)
EXTENDS Naturals, FiniteSets

CONSTANTS
  Transactions,
  Calls,        \* workers; each serves one callback after another
  Names,        \* 1..n: the usernames ssoAutoCreateUsername tries in turn
  SubjectFits,  \* the subject is short enough to be a username: the first
  Lifetime,     \* ssoAuthorizationTransactionMaxTTL
  LockTtl,      \* ssoAuthorizationTransactionLockTTL
  None

\* As the code's constants are; the first name is the one made of the subject.
SignOnAssumption ==
  /\ None \notin Transactions
  /\ Names \subseteq Nat \ {0} /\ 1 \in Names
  /\ LockTtl \in Nat \ {0} /\ Lifetime \in Nat \ {0}

VARIABLES
  left,         \* how long a transaction and what is kept with it still last
  cached,       \* transactions that are in the cache,
  verified,     \* and those whose claims are
  locked,       \* how long the lock of a transaction still lasts
  code,         \* unused, spent, or lost: spent, and the claims with it
  accounts,     \* usernames of the person's accounts
  binding,      \* the account the subject is bound to
  stage, of, account, \* of a call: where it is, its transaction and account
  held,         \* how long the lock that a call took still lasts
  logins,       \* how many callbacks of a transaction were answered by tokens
  late,         \* transactions a callback of which outlasted its lock
  crossed       \* an account was made while another call had found none, or looked
                \* for once more because the query for it had failed

cacheVars == <<left, cached, verified, locked>>
accountVars == <<accounts, binding, crossed>>
callVars == <<stage, of, account, held>>
vars == <<cacheVars, code, accountVars, callVars, logins, late>>

Working == {"load", "claims", "exchange", "store", "find", "by name", "name", "create",
            "bind", "insert", "update", "consume", "grant", "forget"}
Stages == Working \union {"idle"}

TypeOK ==
  /\ left \in [Transactions -> 0..Lifetime] /\ locked \in [Transactions -> 0..LockTtl]
  /\ cached \subseteq Transactions /\ verified \subseteq Transactions
  /\ late \subseteq Transactions
  /\ code \in [Transactions -> {"none", "unused", "spent", "lost"}]
  /\ accounts \subseteq Names /\ binding \in Names \union {None} /\ crossed \in BOOLEAN
  /\ stage \in [Calls -> Stages] /\ of \in [Calls -> Transactions \union {None}]
  /\ account \in [Calls -> Names \union {None}] /\ held \in [Calls -> 0..LockTtl]
  /\ logins \in [Transactions -> 0..2]

Init ==
  /\ left = [t \in Transactions |-> 0] /\ locked = [t \in Transactions |-> 0]
  /\ cached = {} /\ verified = {} /\ late = {}
  /\ code = [t \in Transactions |-> "none"]
  /\ accounts = {} /\ binding = None /\ crossed = FALSE
  /\ stage = [c \in Calls |-> "idle"] /\ of = [c \in Calls |-> None]
  /\ account = [c \in Calls |-> None] /\ held = [c \in Calls |-> 0]
  /\ logins = [t \in Transactions |-> 0]

GoTo(c, s) == stage' = [stage EXCEPT ![c] = s]

\* The call is over, one way or the other.
End(c) ==
  /\ GoTo(c, "idle") /\ of' = [of EXCEPT ![c] = None]
  /\ account' = [account EXCEPT ![c] = None] /\ held' = [held EXCEPT ![c] = 0]

\* A step that moves the call and nothing else.
Move(c, s) ==
  /\ GoTo(c, s)
  /\ UNCHANGED <<cacheVars, code, accountVars, of, account, held, logins, late>>

\* The deferred release, whoever has the lock by now.
Unlocked(c) == [locked EXCEPT ![of[c]] = 0]

\* Whatever a call does under the lock may fail, which ends it.  A step that fails
\* after it has had its effect is the step, and a failure of the next.  Variant:
\* claims are forgotten with it, as a deferred ForgetVerified would do.
ForgottenOnRefusal(c) == verified \ {of[c]}
KeptOnRefusal(c) == verified
Refuse(c) ==
  /\ locked' = Unlocked(c) /\ verified' = KeptOnRefusal(c)
  /\ End(c)
  /\ UNCHANGED <<left, cached, accountVars, logins, late>>
Refuses(c) == Refuse(c) /\ UNCHANGED code

-----------------------------------------------------------------------------
(* SSOAuthorizationTransactionService. *)

Create(t) ==
  /\ code[t] = "none"
  /\ code' = [code EXCEPT ![t] = "unused"]
  /\ cached' = cached \union {t} /\ left' = [left EXCEPT ![t] = Lifetime]
  /\ UNCHANGED <<verified, locked, accountVars, callVars, logins, late>>

\* VerifyAndConsumeCallback up to the lock; who does not get it is refused and
\* leaves no trace.  Variant: callbacks do not exclude each other.
LockFreeAlways(t) == TRUE
LockFree(t) == locked[t] = 0
TakeLock(c, t) ==
  /\ stage[c] = "idle" /\ code[t] # "none"
  /\ LockFree(t)
  /\ of' = [of EXCEPT ![c] = t] /\ GoTo(c, "load")
  /\ locked' = [locked EXCEPT ![t] = LockTtl] /\ held' = [held EXCEPT ![c] = LockTtl]
  /\ UNCHANGED <<left, cached, verified, code, accountVars, account, logins, late>>

\* Load, and the comparison of the states.  Whether the transaction is used or
\* unknown makes a difference to the message only.
Load(c) ==
  /\ stage[c] = "load"
  /\ (of[c] \in cached /\ Move(c, "claims")) \/ Refuses(c)

\* LoadVerified, and the provider as it is now.
LoadVerified(c) ==
  /\ stage[c] = "claims"
  /\ \/ of[c] \in verified /\ (Move(c, "find") \/ Refuses(c))
     \/ of[c] \notin verified /\ Move(c, "exchange")

\* verifySSOAuthorizationCallback.  The provider may not be asked at all, and
\* what it answers may be lost or found wanting.
Exchange(c) ==
  /\ stage[c] = "exchange"
  /\ \/ Refuses(c)
     \/ /\ code[of[c]] = "unused"
        /\ \/ /\ code' = [code EXCEPT ![of[c]] = "spent"] /\ GoTo(c, "store")
              /\ UNCHANGED <<cacheVars, accountVars, of, account, held, logins, late>>
           \/ code' = [code EXCEPT ![of[c]] = "lost"] /\ Refuse(c)

StoreVerified(c) ==
  /\ stage[c] = "store"
  /\ \/ /\ left[of[c]] > 0
        /\ verified' = verified \union {of[c]} /\ GoTo(c, "find")
        /\ UNCHANGED <<left, cached, locked, code, accountVars, of, account, held>>
        /\ UNCHANGED <<logins, late>>
     \/ code' = [code EXCEPT ![of[c]] = "lost"] /\ Refuse(c)

\* The transaction is forgotten once the login is complete.  The answer of the
\* cache need not tell whether it was still there.  (The mark that it was used
\* makes a difference to messages only.)
Consume(c) ==
  /\ stage[c] = "consume"
  /\ \/ /\ cached' = cached \ {of[c]} /\ GoTo(c, "grant")
        /\ UNCHANGED <<left, verified, locked, code, accountVars, of, account, held>>
        /\ UNCHANGED <<logins, late>>
     \/ Refuses(c)

Release(c) ==
  /\ stage[c] = "grant" /\ GoTo(c, "forget")
  /\ locked' = Unlocked(c)
  /\ UNCHANGED <<left, cached, verified, code, accountVars, of, account, held, logins, late>>

\* ForgetVerified, and the tokens are out.
ForgetVerified(c) ==
  /\ stage[c] = "forget"
  /\ verified' = verified \ {of[c]}
  /\ logins' = [logins EXCEPT ![of[c]] = IF @ < 2 THEN @ + 1 ELSE @]
  /\ End(c)
  /\ UNCHANGED <<left, cached, locked, code, accountVars, late>>

-----------------------------------------------------------------------------
(* completeSSOLogin. *)

Choose(c, n, s) ==
  /\ account' = [account EXCEPT ![c] = n] /\ GoTo(c, s)
  /\ UNCHANGED <<cacheVars, code, accountVars, of, held, logins, late>>

BoundUser(c) ==
  /\ stage[c] = "find"
  /\ \/ binding # None /\ Choose(c, binding, "bind")
     \/ binding = None /\ Move(c, "by name")
     \/ Refuses(c)

\* findOrCreateSSOUser looks for an account with the subject for its name.  It
\* takes an error of the query for the answer that there is none.
\* Variant: it does not look.
NamedAfterNobody == FALSE
NamedAfterSubject == SubjectFits /\ 1 \in accounts
FindByName(c) ==
  /\ stage[c] = "by name"
  /\ \/ NamedAfterSubject /\ Choose(c, 1, "bind")
     \/ ~NamedAfterSubject /\ Move(c, "name")
     \/ Refuses(c)

FindByNameFails(c) ==
  /\ stage[c] = "by name" /\ 1 \in accounts
  /\ crossed' = TRUE /\ GoTo(c, "name")
  /\ UNCHANGED <<cacheVars, code, accounts, binding, of, account, held, logins, late>>

\* ssoAutoCreateUsername: one query a name, but names are only ever taken.
AutoCreateUsername(c) ==
  /\ stage[c] = "name"
  /\ \/ \E n \in Names \ accounts :
          (\A k \in Names \ accounts : n <= k) /\ Choose(c, n, "create")
     \/ Refuses(c)

\* The username is unique.  The update that completes the new row may fail.
CreateUser(c) ==
  /\ stage[c] = "create"
  /\ \/ Refuses(c)
     \/ /\ account[c] \notin accounts
        /\ accounts' = accounts \union {account[c]}
        /\ crossed' = (crossed \/ \E d \in Calls \ {c} : stage[d] = "name")
        /\ GoTo(c, "bind")
        /\ UNCHANGED <<cacheVars, code, binding, of, account, held, logins, late>>

\* applySSOMappings, a transaction that changes roles only (see Permissions), and
\* the query of UpsertBinding.
ReadBinding(c) ==
  /\ stage[c] = "bind"
  /\ Move(c, IF binding = None THEN "insert" ELSE "update") \/ Refuses(c)

\* The subject of a provider is bound once; an update goes to the row that was
\* read, which may be gone, or gone and another in its place.  The log row that
\* follows may fail the login.
WriteBinding(c) ==
  /\ stage[c] \in {"insert", "update"}
  /\ \/ Refuses(c)
     \/ /\ \/ stage[c] = "insert" /\ binding = None /\ binding' = account[c]
           \/ stage[c] = "update" /\ binding # None /\ binding' = account[c]
           \/ stage[c] = "update" /\ binding' = binding
        /\ GoTo(c, "consume")
        /\ UNCHANGED <<cacheVars, code, accounts, crossed, of, account, held, logins, late>>

\* DeleteBinding, by an operator.
DeleteBinding ==
  /\ binding # None /\ binding' = None
  /\ UNCHANGED <<cacheVars, code, accounts, crossed, callVars, logins, late>>

-----------------------------------------------------------------------------

\* The process dies; its lock stays until it lapses.
Crash(c) ==
  /\ stage[c] \in Working
  /\ code' = IF stage[c] = "store" THEN [code EXCEPT ![of[c]] = "lost"] ELSE code
  /\ End(c)
  /\ UNCHANGED <<cacheVars, accountVars, logins, late>>

Tick ==
  LET Less(f) == [x \in DOMAIN f |-> IF f[x] = 0 THEN 0 ELSE f[x] - 1]
      Ended == {t \in Transactions : left'[t] = 0} IN
  /\ \E t \in Transactions : left[t] > 0
  /\ left' = Less(left) /\ locked' = Less(locked) /\ held' = Less(held)
  /\ cached' = cached \ Ended /\ verified' = verified \ Ended
  /\ late' = late \union {of[c] : c \in {c \in Calls : stage[c] \in Working /\ held'[c] = 0}}
  /\ UNCHANGED <<code, accountVars, stage, of, account, logins>>

CallStep(c) ==
  \/ Load(c) \/ LoadVerified(c) \/ Exchange(c) \/ StoreVerified(c) \/ Consume(c)
  \/ Release(c) \/ ForgetVerified(c)
  \/ BoundUser(c) \/ FindByName(c) \/ FindByNameFails(c) \/ AutoCreateUsername(c)
  \/ CreateUser(c) \/ ReadBinding(c) \/ WriteBinding(c)

Next ==
  \/ \E t \in Transactions : Create(t)
  \/ \E c \in Calls, t \in Transactions : TakeLock(c, t)
  \/ \E c \in Calls : CallStep(c) \/ Crash(c)
  \/ DeleteBinding \/ Tick

Spec == Init /\ [][Next]_vars

-----------------------------------------------------------------------------
(* What holds. *)

\* A transaction signs somebody on once, however often and fast its callback is
\* repeated, as long as no callback takes longer than its lock.
OneLoginPerTransaction ==
  \A t \in Transactions : logins[t] > 1 => t \in late

\* A code can be spent only once, so what it was exchanged for stays at hand until
\* the transaction is used up or over: a login that fails can be repeated.
SpentCodeIsRemembered ==
  \A t \in cached : code[t] = "spent" =>
     t \in verified \/ \E c \in Calls : of[c] = t /\ stage[c] = "store"

\* A callback that is repeated after success gains nothing, one that is repeated
\* after a failure loses nothing.
CallbackIsRepeatable == OneLoginPerTransaction /\ SpentCodeIsRemembered

\* Failures, crashes and lost bindings in the middle of a first login leave no
\* second account behind, unless one was made just as another call looked for it,
\* or a query that failed was taken for the answer that there is none.
OneAccountPerSubject ==
  SubjectFits /\ Cardinality(accounts) > 1 => crossed

\* A sign-on may fail, be repeated and be lost half way, and leaves one login and one
\* account.
SignOnIsRepeatable == CallbackIsRepeatable /\ OneAccountPerSubject
=============================================================================
