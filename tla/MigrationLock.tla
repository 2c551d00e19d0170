---------------------------- MODULE MigrationLock ----------------------------
(***************************************************************************)
(* migration:safe and tenant:migrate (app/console/commands/migration) and  *)
(* their lock (services/runtime/migrationlock): processes that migrate the *)
(* platform database, the tenants' databases or both, under session-level  *)
(* advisory locks of PostgreSQL. The lock of `all' is the two others, tried *)
(* in the order of their hashes.                                           *)
(*                                                                         *)
(* Each process runs the command once. A session may hold a lock several   *)
(* times over, and gives all of them up when it ends; that part is         *)
(* PostgreSQL's.                                                           *)
(***************************************************************************)
EXTENDS Naturals, Sequences

CONSTANTS
  Procs,        \* processes that run one of the commands
  Order,        \* the advisory keys of the two parts, smaller hash first
  Patience      \* the most retry intervals a lock-timeout is worth

Parts == {"platform", "tenants"}
Scopes == Parts \union {"all"}

ASSUME MigrationAssumption ==
  /\ Order \in {<<"platform", "tenants">>, <<"tenants", "platform">>}
  /\ Patience \in Nat

VARIABLES
  locks,     \* locks[<<p, k>>]: how often p's session holds key k
  broken,    \* the processes whose session has broken
  scope,     \* scope[p]: its --scope
  remaining, \* remaining[p]: what is left of its lock-timeout
  pc,        \* pc[p]: where p is
  got,       \* got[p]: the keys of this round (acquired), or left to release
  leaky      \* history: the processes whose unlock failed

vars == <<locks, broken, scope, remaining, pc, got, leaky>>

Stages == {"try", "busy", "error", "wait", "platform", "tenants", "release",
           "close", "done"}

TypeOK ==
  /\ locks \in [Procs \X Parts -> 0..(Patience + 1)]
  /\ broken \subseteq Procs /\ leaky \subseteq Procs
  /\ scope \in [Procs -> Scopes]
  /\ remaining \in [Procs -> 0..Patience]
  /\ pc \in [Procs -> Stages]
  /\ \A p \in Procs : got[p] \in 0..(IF scope[p] = "all" THEN 2 ELSE 1)

Init ==
  /\ locks = [h \in Procs \X Parts |-> 0]
  /\ broken = {}
  /\ scope \in [Procs -> Scopes]
  /\ remaining \in [Procs -> {0, Patience}]
  /\ pc = [p \in Procs |-> "try"]
  /\ got = [p \in Procs |-> 0]
  /\ leaky = {}

\* migrationLockKeys. Variant: `all' has a key of its own, the platform's.
KeysOfOneEach(s) == IF s = "all" THEN <<"platform">> ELSE <<s>>
KeysOf(s) == IF s = "all" THEN Order ELSE <<s>>

Goto(p, stage) == pc' = [pc EXCEPT ![p] = stage]

\* What a process migrates first: platform before tenants.
FirstPart(s) == IF s = "tenants" THEN "tenants" ELSE "platform"

-----------------------------------------------------------------------------
(* acquireAll *)

Free(p, k) == \A q \in Procs \ {p} : locks[<<q, k>>] = 0

\* pg_try_advisory_lock on the next key; with the last one the lock is
\* acquired.
TryLock(p) ==
  LET keys == KeysOf(scope[p])
      k == keys[got[p] + 1]
  IN
  /\ pc[p] = "try" /\ p \notin broken
  /\ Free(p, k)
  /\ locks' = [locks EXCEPT ![<<p, k>>] = @ + 1]
  /\ got' = [got EXCEPT ![p] = @ + 1]
  /\ IF got[p] + 1 = Len(keys) THEN Goto(p, FirstPart(scope[p])) ELSE UNCHANGED pc
  /\ UNCHANGED <<broken, scope, remaining, leaky>>

TryFails(p) ==
  /\ pc[p] = "try" /\ p \notin broken
  /\ ~Free(p, KeysOf(scope[p])[got[p] + 1])
  /\ Goto(p, "busy")
  /\ UNCHANGED <<locks, broken, scope, remaining, got, leaky>>

TryError(p) ==
  /\ pc[p] = "try"
  /\ Goto(p, "error")
  /\ UNCHANGED <<locks, broken, scope, remaining, got, leaky>>

\* pg_advisory_unlock of the last key p got; it may fail, which is ignored.
Unlock(p) ==
  LET k == KeysOf(scope[p])[got[p]] IN
  /\ got[p] > 0
  /\ got' = [got EXCEPT ![p] = @ - 1]
  /\ \/ p \notin broken /\ locks[<<p, k>>] > 0 /\ locks' = [locks EXCEPT ![<<p, k>>] = @ - 1]
        /\ UNCHANGED leaky
     \/ UNCHANGED locks /\ leaky' = leaky \union {p}

\* releaseKeys, after a busy key or an error.
ReleaseKeys(p) ==
  /\ pc[p] \in {"busy", "error"}
  /\ Unlock(p)
  /\ UNCHANGED <<broken, scope, remaining, pc>>

\* Variant: the keys of a failed round are kept for the next one.
GiveUpRoundKeepsKeys(p) ==
  /\ pc[p] = "busy"
  /\ Goto(p, IF remaining[p] = 0 THEN "close" ELSE "wait")
  /\ got' = [got EXCEPT ![p] = 0]
  /\ UNCHANGED <<locks, broken, scope, remaining, leaky>>
\* ErrMigrationLockTimeout, or the wait for the next round.
GiveUpRound(p) ==
  /\ pc[p] = "busy" /\ got[p] = 0
  /\ Goto(p, IF remaining[p] = 0 THEN "close" ELSE "wait")
  /\ UNCHANGED <<locks, broken, scope, remaining, got, leaky>>

GiveUpError(p) ==
  /\ pc[p] = "error" /\ got[p] = 0
  /\ Goto(p, "close")
  /\ UNCHANGED <<locks, broken, scope, remaining, got, leaky>>

\* Variant: the deadline starts again with every round.
WaitForever(p) ==
  /\ pc[p] = "wait"
  /\ Goto(p, "try")
  /\ UNCHANGED <<locks, broken, scope, remaining, got, leaky>>
\* waitForMigrationLock: a retry interval, or what is left until the deadline.
Wait(p) ==
  /\ pc[p] = "wait"
  /\ Goto(p, "try")
  /\ \E left \in 0..Patience :
        left < remaining[p] /\ remaining' = [remaining EXCEPT ![p] = left]
  /\ UNCHANGED <<locks, broken, scope, got, leaky>>

-----------------------------------------------------------------------------
(* SafeMigrateCore.Run and Release *)

\* The platform migration is over; unless it failed, `all' goes on.
MigratePlatform(p) ==
  /\ pc[p] = "platform"
  /\ \/ scope[p] = "all" /\ Goto(p, "tenants")
     \/ Goto(p, "release")
  /\ UNCHANGED <<locks, broken, scope, remaining, got, leaky>>

MigrateTenants(p) ==
  /\ pc[p] = "tenants"
  /\ Goto(p, "release")
  /\ UNCHANGED <<locks, broken, scope, remaining, got, leaky>>

Release(p) ==
  /\ pc[p] = "release"
  /\ \/ Unlock(p) /\ UNCHANGED pc
     \/ got[p] = 0 /\ Goto(p, "close") /\ UNCHANGED <<locks, got, leaky>>
  /\ UNCHANGED <<broken, scope, remaining>>

SessionOver(p) == locks' = [h \in Procs \X Parts |-> IF h[1] = p THEN 0 ELSE locks[h]]

\* Close gives the connection back to the pool; the session is over with the
\* process.
Exit(p) ==
  /\ pc[p] = "close"
  /\ SessionOver(p)
  /\ Goto(p, "done")
  /\ UNCHANGED <<broken, scope, remaining, got, leaky>>

\* The process dies.
Crash(p) ==
  /\ pc[p] # "done"
  /\ SessionOver(p)
  /\ got' = [got EXCEPT ![p] = 0]
  /\ Goto(p, "done")
  /\ UNCHANGED <<broken, scope, remaining, leaky>>

\* The connection breaks, and the process does not notice until it uses it.
Break(p) ==
  /\ pc[p] # "done" /\ p \notin broken
  /\ broken' = broken \union {p}
  /\ SessionOver(p)
  /\ UNCHANGED <<scope, remaining, pc, got, leaky>>

Next ==
  \E p \in Procs :
    \/ TryLock(p) \/ TryFails(p) \/ TryError(p)
    \/ ReleaseKeys(p) \/ GiveUpRound(p) \/ GiveUpError(p) \/ Wait(p)
    \/ MigratePlatform(p) \/ MigrateTenants(p) \/ Release(p) \/ Exit(p)
    \/ Crash(p) \/ Break(p)

Spec == Init /\ [][Next]_vars

-----------------------------------------------------------------------------
(* Properties *)

PartsOf(s) == IF s = "all" THEN Parts ELSE {s}

\* Two processes whose scopes overlap migrate together only if the session of
\* one has broken, whatever the order of the keys, the back-offs, the unlocks
\* that failed and the processes that died.
MigrationsExclude ==
  \A p, q \in Procs :
    (p # q /\ pc[p] \in Parts /\ pc[q] \in Parts /\ PartsOf(scope[p]) \cap PartsOf(scope[q]) # {})
       => p \in broken \/ q \in broken

\* A process that waits, or has given up, keeps no key from anyone, unless an
\* unlock failed.
WaitersHoldNothing ==
  \A p \in Procs \ leaky : pc[p] \in {"wait", "close", "done"} =>
     \A k \in Parts : locks[<<p, k>>] = 0
=============================================================================
