------------------------- MODULE RuntimeGuardsProofs -------------------------
(***************************************************************************)
(* The migration lock, for any number of processes and any patience:       *)
(* migrations whose scopes overlap exclude each other unless a session     *)
(* breaks, and a process that waits or gave up holds no key unless an      *)
(* unlock of it failed.                                                    *)
(*                                                                         *)
(* MigrationsExclude rests on three facts: a key is with one session at a  *)
(* time; a process with an unbroken session holds the keys it counts; and  *)
(* whoever migrates counts all the keys of its scope. WaitersHoldNothing   *)
(* needs the converse: what a session holds has been counted, once.        *)
(*                                                                         *)
(* The protection engine, for any calls, circuits, limits and durations:   *)
(* what it counts is true of the calls that run, and no outage is          *)
(* prolonged. CountsAreTrue rests on three facts: no call runs under a     *)
(* version that is still to be loaded, so that a reload starts from calls  *)
(* it need not count; only a half-open circuit has probes; and the         *)
(* admissions remembered have places of their own in the window now or the *)
(* one before.                                                             *)
(***************************************************************************)
EXTENDS MCRuntimeGuards, FiniteSetTheorems, FunctionTheorems, TLAPS

(***************************************************************************)
(* The migration lock                                                      *)
(***************************************************************************)


Types ==
  /\ locks \in [Procs \X Parts -> Nat]
  /\ scope \in [Procs -> Scopes]
  /\ pc \in [Procs -> Stages]
  /\ got \in [Procs -> Nat]

\* The j-th key of a process and how many it needs.
Key(p, j) == KeysOf(scope[p])[j]
Needed(p) == Len(KeysOf(scope[p]))

OneHolder ==
  \A p, q \in Procs : \A k \in Parts :
     (p # q /\ locks[<<p, k>>] > 0) => locks[<<q, k>>] = 0

Counted(p) ==
  /\ got[p] <= Needed(p)
  /\ pc[p] = "try" => got[p] < Needed(p)
  /\ pc[p] \in {"wait", "close", "done"} => got[p] = 0
  /\ pc[p] \in Parts => got[p] = Needed(p)

\* p's session holds the keys p has counted.
Holds(p) == p \notin broken => \A j \in 1..Needed(p) : j <= got[p] => locks[<<p, Key(p, j)>>] > 0

LockInv == Types /\ OneHolder /\ (\A p \in Procs : Counted(p)) /\ (\A p \in Procs : Holds(p))

\* A scope needs one key or two, different ones, and all those of its parts.
LEMMA KeysFacts ==
  ASSUME NEW s \in Scopes
  PROVE  /\ Len(KeysOf(s)) \in {1, 2}
         /\ \A j \in 1..Len(KeysOf(s)) : KeysOf(s)[j] \in Parts
         /\ \A i, j \in 1..Len(KeysOf(s)) : i # j => KeysOf(s)[i] # KeysOf(s)[j]
         /\ \A k \in PartsOf(s) : \E j \in 1..Len(KeysOf(s)) : KeysOf(s)[j] = k
<1>1. CASE s = "all"
  <2>1. Order = <<"platform", "tenants">> \/ Order = <<"tenants", "platform">>
    BY MigrationAssumption
  <2> QED BY <1>1, <2>1 DEF KeysOf, PartsOf, Parts
<1>2. CASE s # "all"
  BY <1>2 DEF KeysOf, PartsOf, Parts, Scopes
<1> QED BY <1>1, <1>2

\* The same of a process.
LEMMA NeededFacts ==
  ASSUME Types, NEW p \in Procs
  PROVE  /\ Needed(p) \in {1, 2}
         /\ \A j \in 1..Needed(p) : Key(p, j) \in Parts
         /\ \A i, j \in 1..Needed(p) : i # j => Key(p, i) # Key(p, j)
         /\ \A k \in PartsOf(scope[p]) : \E j \in 1..Needed(p) : Key(p, j) = k
<1>1. scope[p] \in Scopes
  BY DEF Types
<1> QED BY <1>1, KeysFacts DEF Needed, Key

\* No process has a key, and each needs at least one.
LEMMA InitInvariant == Init => LockInv
<1> SUFFICES ASSUME Init PROVE LockInv
  OBVIOUS
<1>1. Types
  BY DEF Init, Types, Stages
<1>2. OneHolder
  BY DEF Init, OneHolder
<1>3. ASSUME NEW p \in Procs PROVE Counted(p) /\ Holds(p)
  <2>1. pc[p] = "try" /\ got[p] = 0
    BY DEF Init
  <2> QED BY <1>1, <2>1, NeededFacts DEF Counted, Holds, Parts
<1> QED BY <1>1, <1>2, <1>3 DEF LockInv

\* A step of p that leaves keys and sessions alone.
LEMMA StageKept ==
  ASSUME LockInv, UNCHANGED <<locks, scope, got>>, broken \subseteq broken',
         NEW p \in Procs, NEW s \in Stages, Goto(p, s),
         s = "try" => got[p] = 0,
         s \in {"wait", "close", "done"} => got[p] = 0,
         s \in Parts => pc[p] \in Parts
  PROVE  LockInv'
<1>1. Types'
  BY DEF LockInv, Types, Goto
<1>2. OneHolder'
  BY DEF LockInv, OneHolder
<1>3. ASSUME NEW q \in Procs PROVE Counted(q)' /\ Holds(q)'
  <2>1. Needed(q)' = Needed(q) /\ (\A j \in 1..Needed(q) : Key(q, j)' = Key(q, j)) /\ Counted(q) /\ Holds(q)
    BY DEF Needed, Key, LockInv
  <2>2. Needed(q) \in {1, 2}
    BY NeededFacts DEF LockInv
  <2>3. Counted(q)'
    <3>1. CASE q = p
      <4>1. pc'[q] = s
        BY <3>1 DEF Goto, LockInv, Types
      <4> QED BY <3>1, <4>1, <2>1, <2>2 DEF Counted, Parts
    <3>2. CASE q # p
      <4>1. pc'[q] = pc[q]
        BY <3>2 DEF Goto, LockInv, Types
      <4> QED BY <4>1, <2>1 DEF Counted
    <3> QED BY <3>1, <3>2
  <2>4. Holds(q)'
    BY <2>1 DEF Holds
  <2> QED BY <2>3, <2>4
<1> QED BY <1>1, <1>2, <1>3 DEF LockInv

\* p takes its next key, which nobody else has; with the last it migrates.
LEMMA TryLockInvariant == ASSUME LockInv, NEW p \in Procs, TryLock(p) PROVE LockInv'
<1> DEFINE k == Key(p, got[p] + 1)
<1>1. Needed(p) \in {1, 2} /\ got[p] \in Nat /\ got[p] < Needed(p) /\ k \in Parts
  BY NeededFacts DEF LockInv, Types, TryLock, Counted
<1>2. /\ locks' = [locks EXCEPT ![<<p, k>>] = @ + 1]
      /\ got' = [got EXCEPT ![p] = @ + 1]
      /\ Free(p, k) /\ p \notin broken
      /\ UNCHANGED <<broken, scope>>
  BY DEF TryLock, Key
<1>3. \/ got[p] + 1 = Needed(p) /\ Goto(p, FirstPart(scope[p]))
      \/ got[p] + 1 # Needed(p) /\ pc' = pc /\ pc[p] = "try"
  BY DEF TryLock, Needed
<1>4. FirstPart(scope[p]) \in Parts
  BY DEF FirstPart, Parts
<1>5. Types'
  BY <1>1, <1>2, <1>3, <1>4 DEF LockInv, Types, Goto, Stages, Parts
<1>6. OneHolder'
  BY <1>1, <1>2 DEF LockInv, Types, OneHolder, Free
<1>7. ASSUME NEW q \in Procs PROVE Counted(q)' /\ Holds(q)'
  <2>1. Needed(q)' = Needed(q) /\ (\A j \in 1..Needed(q) : Key(q, j)' = Key(q, j)) /\ Counted(q) /\ Holds(q)
    BY <1>2 DEF Needed, Key, LockInv
  <2>2. \A j \in 1..Needed(q) : Key(q, j) \in Parts
    BY NeededFacts DEF LockInv
  <2>3. CASE q = p
    <3>1. got'[q] = got[q] + 1 /\ got[q] \in Nat
      BY <2>3, <1>2 DEF LockInv, Types
    <3>2. Counted(q)'
      BY <1>1, <1>3, <1>4, <2>1, <2>3, <3>1 DEF Counted, Goto, LockInv, Types, Parts
    <3>3. \A j \in 1..Needed(q) : j <= got'[q] => locks'[<<q, Key(q, j)>>] > 0
      BY <1>1, <1>2, <2>1, <2>2, <2>3, <3>1 DEF Holds, LockInv, Types
    <3> QED BY <3>2, <3>3, <2>1 DEF Holds
  <2>4. CASE q # p
    <3>1. got'[q] = got[q] /\ pc'[q] = pc[q]
      BY <2>4, <1>2, <1>3 DEF LockInv, Types, Goto
    <3>2. \A j \in 1..Needed(q) : locks'[<<q, Key(q, j)>>] = locks[<<q, Key(q, j)>>]
      BY <2>2, <2>4, <1>1, <1>2 DEF LockInv, Types
    <3> QED BY <2>1, <3>1, <3>2, <1>2 DEF Counted, Holds
  <2> QED BY <2>3, <2>4
<1> QED BY <1>5, <1>6, <1>7 DEF LockInv

\* p counts one key less; the lock is gone, or leaks.
LEMMA UnlockInvariant ==
  ASSUME LockInv, NEW p \in Procs, Unlock(p), UNCHANGED <<broken, scope, pc>>,
         pc[p] \in {"busy", "error", "release"}
  PROVE  LockInv'
<1> DEFINE k == Key(p, got[p])
<1>1. Needed(p) \in {1, 2} /\ got[p] \in Nat /\ got[p] > 0 /\ got[p] <= Needed(p) /\ k \in Parts
  BY NeededFacts DEF LockInv, Types, Unlock, Counted
<1>2. got' = [got EXCEPT ![p] = @ - 1]
  BY DEF Unlock
<1>3. \/ locks[<<p, k>>] > 0 /\ locks' = [locks EXCEPT ![<<p, k>>] = @ - 1]
      \/ locks' = locks
  BY DEF Unlock, Key
<1>4. Types'
  BY <1>1, <1>2, <1>3 DEF LockInv, Types
<1>5. OneHolder'
  BY <1>1, <1>3 DEF LockInv, Types, OneHolder
<1>6. ASSUME NEW q \in Procs PROVE Counted(q)' /\ Holds(q)'
  <2>1. Needed(q)' = Needed(q) /\ (\A j \in 1..Needed(q) : Key(q, j)' = Key(q, j)) /\ Counted(q) /\ Holds(q)
    BY DEF Needed, Key, LockInv
  <2>2. /\ \A j \in 1..Needed(q) : Key(q, j) \in Parts
        /\ \A i, j \in 1..Needed(q) : i # j => Key(q, i) # Key(q, j)
    BY NeededFacts DEF LockInv
  <2>3. CASE q = p
    <3>1. got'[q] = got[q] - 1 /\ got[q] \in Nat
      BY <2>3, <1>2 DEF LockInv, Types
    <3>2. Counted(q)'
      BY <1>1, <2>1, <2>3, <3>1 DEF Counted, Parts
    <3>3. \A j \in 1..Needed(q) : j <= got'[q] => locks'[<<q, Key(q, j)>>] = locks[<<q, Key(q, j)>>]
      BY <1>1, <1>3, <2>2, <2>3, <3>1 DEF LockInv, Types
    <3> QED BY <2>1, <3>1, <3>2, <3>3 DEF Holds
  <2>4. CASE q # p
    <3>1. got'[q] = got[q]
      BY <2>4, <1>2 DEF LockInv, Types
    <3>2. \A j \in 1..Needed(q) : locks'[<<q, Key(q, j)>>] = locks[<<q, Key(q, j)>>]
      BY <2>2, <2>4, <1>1, <1>3 DEF LockInv, Types
    <3> QED BY <2>1, <3>1, <3>2 DEF Counted, Holds
  <2> QED BY <2>3, <2>4
<1> QED BY <1>4, <1>5, <1>6 DEF LockInv

\* p's session is over: p no longer counts on its keys, or counts none.
LEMMA SessionOverInvariant ==
  ASSUME LockInv, NEW p \in Procs, SessionOver(p), UNCHANGED scope,
         broken \subseteq broken', (p \in broken') \/ (got'[p] = 0),
         \/ pc' = pc /\ got' = got
         \/ Goto(p, "done") /\ got' = [got EXCEPT ![p] = 0]
  PROVE  LockInv'
<1>1. \A q \in Procs : \A k \in Parts : locks'[<<q, k>>] = IF q = p THEN 0 ELSE locks[<<q, k>>]
  BY DEF SessionOver
<1>2. Types'
  BY DEF LockInv, Types, SessionOver, Goto, Stages
<1>3. OneHolder'
  BY <1>1 DEF LockInv, OneHolder
<1>4. ASSUME NEW q \in Procs PROVE Counted(q)' /\ Holds(q)'
  <2>1. Needed(q)' = Needed(q) /\ (\A j \in 1..Needed(q) : Key(q, j)' = Key(q, j)) /\ Counted(q) /\ Holds(q)
    BY DEF Needed, Key, LockInv
  <2>2. Needed(q) \in {1, 2} /\ \A j \in 1..Needed(q) : Key(q, j) \in Parts
    BY NeededFacts DEF LockInv
  <2>3. CASE q = p
    <3>1. (pc'[q] = pc[q] /\ got'[q] = got[q]) \/ (pc'[q] = "done" /\ got'[q] = 0)
      BY <2>3 DEF LockInv, Types, Goto
    <3>2. Counted(q)'
      BY <3>1, <2>1, <2>2 DEF Counted, Parts
    <3> QED BY <3>2, <2>1, <2>3 DEF Holds
  <2>4. CASE q # p
    <3>1. pc'[q] = pc[q] /\ got'[q] = got[q]
      BY <2>4 DEF LockInv, Types, Goto
    <3> QED BY <1>1, <2>1, <2>2, <2>4, <3>1 DEF Counted, Holds
  <2> QED BY <2>3, <2>4
<1> QED BY <1>2, <1>3, <1>4 DEF LockInv

\* Every step preserves the invariant.
LEMMA StepInvariant == LockInv /\ [Next]_vars => LockInv'
<1> SUFFICES ASSUME LockInv, [Next]_vars PROVE LockInv'
  OBVIOUS
<1> USE DEF Stages, Parts
<1>1. ASSUME NEW p \in Procs, TryLock(p) PROVE LockInv'
  BY <1>1, TryLockInvariant
<1>2. ASSUME NEW p \in Procs, TryFails(p) \/ TryError(p) PROVE LockInv'
  BY <1>2, StageKept DEF TryFails, TryError
<1>3. ASSUME NEW p \in Procs, ReleaseKeys(p) PROVE LockInv'
  BY <1>3, UnlockInvariant DEF ReleaseKeys
<1>4. ASSUME NEW p \in Procs, GiveUpRound(p) \/ GiveUpError(p) PROVE LockInv'
  BY <1>4, StageKept DEF GiveUpRound, GiveUpError
<1>5. ASSUME NEW p \in Procs, Wait(p) PROVE LockInv'
  <2>1. got[p] = 0
    BY <1>5 DEF Wait, LockInv, Counted
  <2> QED BY <1>5, <2>1, StageKept DEF Wait
<1>6. ASSUME NEW p \in Procs, MigratePlatform(p) \/ MigrateTenants(p) PROVE LockInv'
  BY <1>6, StageKept DEF MigratePlatform, MigrateTenants
<1>7. ASSUME NEW p \in Procs, Release(p) PROVE LockInv'
  <2>1. CASE Unlock(p) /\ UNCHANGED pc
    BY <1>7, <2>1, UnlockInvariant DEF Release
  <2>2. CASE got[p] = 0 /\ Goto(p, "close") /\ UNCHANGED <<locks, got, leaky>>
    BY <1>7, <2>2, StageKept DEF Release
  <2> QED BY <1>7, <2>1, <2>2 DEF Release
<1>8. ASSUME NEW p \in Procs, Exit(p) PROVE LockInv'
  <2>1. got[p] = 0 /\ got' = [got EXCEPT ![p] = 0]
    BY <1>8 DEF Exit, LockInv, Counted, Types
  <2>2. got'[p] = 0
    BY <2>1 DEF LockInv, Types
  <2> QED BY <1>8, <2>1, <2>2, SessionOverInvariant DEF Exit
<1>9. ASSUME NEW p \in Procs, Crash(p) PROVE LockInv'
  <2>1. got'[p] = 0
    BY <1>9 DEF Crash, LockInv, Types
  <2> QED BY <1>9, <2>1, SessionOverInvariant DEF Crash
<1>10. ASSUME NEW p \in Procs, Break(p) PROVE LockInv'
  BY <1>10, SessionOverInvariant DEF Break
<1>11. CASE UNCHANGED vars
  BY <1>11 DEF vars, LockInv, Types, OneHolder, Counted, Holds, Needed, Key
<1> QED BY <1>1, <1>2, <1>3, <1>4, <1>5, <1>6, <1>7, <1>8, <1>9, <1>10, <1>11 DEF Next

\* Two migrations of one part would both hold its key.
LEMMA InvariantExcludes == LockInv => MigrationsExclude
<1> SUFFICES ASSUME LockInv, NEW p \in Procs, NEW q \in Procs, p # q,
                    pc[p] \in Parts, pc[q] \in Parts, p \notin broken, q \notin broken,
                    NEW k \in PartsOf(scope[p]) \cap PartsOf(scope[q])
             PROVE  FALSE
  BY DEF MigrationsExclude
<1>1. ASSUME NEW r \in {p, q} PROVE locks[<<r, k>>] > 0
  <2>1. r \in Procs /\ r \notin broken /\ k \in PartsOf(scope[r]) /\ got[r] = Needed(r) /\ Holds(r)
    BY <1>1 DEF LockInv, Counted
  <2>2. PICK j \in 1..Needed(r) : Key(r, j) = k
    BY <2>1, NeededFacts DEF LockInv
  <2>3. Needed(r) \in {1, 2}
    BY <2>1, NeededFacts DEF LockInv
  <2> QED BY <2>1, <2>2, <2>3 DEF Holds
<1>2. k \in Parts
  <2>1. scope[p] \in Scopes
    BY DEF LockInv, Types
  <2> QED BY <2>1 DEF PartsOf, Scopes
<1> QED BY <1>1, <1>2 DEF LockInv, OneHolder

\* A key never has two sessions, and migrating processes whose sessions have
\* not broken hold every key of their scope, whatever was tried, given back,
\* leaked or lost before.
THEOREM KeysHeld == Spec => []LockInv
<1> QED BY InitInvariant, StepInvariant, PTL DEF Spec

\* Two processes migrate overlapping parts together only if the session of one
\* has broken.
THEOREM MigrationsApart == Spec => []MigrationsExclude
<1> QED BY KeysHeld, InvariantExcludes, PTL

-----------------------------------------------------------------------------
(* What a waiting process holds. *)

\* p's session holds no key but those p has counted, and each of them once, as long as
\* every unlock of p worked.
Exact(p) ==
  p \notin leaky => \A k \in Parts :
     locks[<<p, k>>] = 0 \/ (locks[<<p, k>>] = 1 /\ \E j \in 1..Needed(p) : j <= got[p] /\ Key(p, j) = k)

\* What others do leaves the keys of q alone.
LEMMA ExactApart ==
  ASSUME LockInv, LockInv', NEW q \in Procs, Exact(q), UNCHANGED scope, leaky \subseteq leaky',
         got'[q] = got[q], \A k \in Parts : locks'[<<q, k>>] = locks[<<q, k>>]
  PROVE  Exact(q)'
<1>1. Needed(q)' = Needed(q) /\ (\A j \in 1..Needed(q) : Key(q, j)' = Key(q, j))
  BY DEF Needed, Key
<1> QED BY <1>1 DEF Exact

\* The next key was not counted, so it was not held.
LEMMA ExactTry ==
  ASSUME LockInv, LockInv', NEW p \in Procs, TryLock(p), Exact(p)
  PROVE  Exact(p)'
<1> DEFINE k == Key(p, got[p] + 1)
<1>1. Needed(p) \in {1, 2} /\ got[p] \in Nat /\ got[p] < Needed(p) /\ k \in Parts
  BY NeededFacts DEF LockInv, Types, TryLock, Counted
<1>2. /\ \A h \in Parts : locks'[<<p, h>>] = IF h = k THEN locks[<<p, h>>] + 1 ELSE locks[<<p, h>>]
      /\ got'[p] = got[p] + 1
  BY <1>1 DEF TryLock, Key, LockInv, Types
<1>3. Needed(p)' = Needed(p) /\ (\A j \in 1..Needed(p) : Key(p, j)' = Key(p, j))
  BY DEF Needed, Key, TryLock
<1>4. \A i, j \in 1..Needed(p) : i # j => Key(p, i) # Key(p, j)
  BY NeededFacts DEF LockInv
<1>5. leaky' = leaky
  BY DEF TryLock
<1>6. ASSUME p \notin leaky, NEW h \in Parts
      PROVE  \/ locks'[<<p, h>>] = 0
             \/ locks'[<<p, h>>] = 1 /\ \E j \in 1..Needed(p) : j <= got'[p] /\ Key(p, j) = h
  <2>1. CASE h = k
    <3>1. ~ \E j \in 1..Needed(p) : j <= got[p] /\ Key(p, j) = k
      BY <1>1, <1>4
    <3>2. locks[<<p, k>>] = 0
      BY <1>1, <1>6, <3>1 DEF Exact
    <3>3. got[p] + 1 \in 1..Needed(p)
      BY <1>1
    <3> QED BY <1>1, <1>2, <2>1, <3>2, <3>3
  <2>2. CASE h # k
    BY <1>1, <1>2, <1>6, <2>2 DEF Exact
  <2> QED BY <2>1, <2>2
<1> QED BY <1>3, <1>5, <1>6 DEF Exact

\* An unlock that works gives the last key back for good.
LEMMA ExactUnlock ==
  ASSUME LockInv, LockInv', NEW p \in Procs, Unlock(p), UNCHANGED scope, Exact(p)
  PROVE  Exact(p)'
<1> DEFINE k == Key(p, got[p])
<1>1. Needed(p) \in {1, 2} /\ got[p] \in Nat /\ got[p] > 0 /\ got[p] <= Needed(p) /\ k \in Parts
  BY NeededFacts DEF LockInv, Types, Unlock, Counted
<1>2. got'[p] = got[p] - 1
  BY DEF Unlock, LockInv, Types
<1>3. Needed(p)' = Needed(p) /\ (\A j \in 1..Needed(p) : Key(p, j)' = Key(p, j))
  BY DEF Needed, Key
<1>4. CASE leaky' = leaky \union {p}
  BY <1>4 DEF Exact
<1>5. CASE locks[<<p, k>>] > 0 /\ locks' = [locks EXCEPT ![<<p, k>>] = @ - 1] /\ leaky' = leaky
  <2>1. \A h \in Parts : locks'[<<p, h>>] = IF h = k THEN locks[<<p, h>>] - 1 ELSE locks[<<p, h>>]
    BY <1>1, <1>5 DEF LockInv, Types
  <2>2. ASSUME p \notin leaky, NEW h \in Parts
        PROVE  \/ locks'[<<p, h>>] = 0
               \/ locks'[<<p, h>>] = 1 /\ \E j \in 1..Needed(p) : j <= got'[p] /\ Key(p, j) = h
    <3>1. CASE h = k
      <4>1. locks[<<p, h>>] = 0 \/ locks[<<p, h>>] = 1
        BY <2>2 DEF Exact
      <4> QED BY <1>5, <2>1, <3>1, <4>1
    <3>2. CASE h # k
      <4>1. locks[<<p, h>>] = 0 \/ (locks[<<p, h>>] = 1 /\ \E j \in 1..Needed(p) : j <= got[p] /\ Key(p, j) = h)
        BY <2>2 DEF Exact
      <4>2. \A j \in 1..Needed(p) : (j <= got[p] /\ Key(p, j) = h) => j <= got[p] - 1
        BY <1>1, <3>2
      <4> QED BY <1>2, <2>1, <3>2, <4>1, <4>2
    <3> QED BY <3>1, <3>2
  <2> QED BY <1>3, <1>5, <2>2 DEF Exact
<1> QED BY <1>4, <1>5 DEF Unlock, Key

\* A step of p that leaves its keys alone or gives them all up.
LEMMA ExactOtherwise ==
  ASSUME LockInv, LockInv', NEW p \in Procs, Exact(p), UNCHANGED scope, leaky \subseteq leaky',
         (locks' = locks /\ got' = got) \/ SessionOver(p)
  PROVE  Exact(p)'
<1>1. CASE locks' = locks /\ got' = got
  BY <1>1, ExactApart
<1>2. CASE SessionOver(p)
  BY <1>2 DEF SessionOver, Exact
<1> QED BY <1>1, <1>2

LEMMA ExactStep ==
  ASSUME LockInv, LockInv', \A p \in Procs : Exact(p), [Next]_vars
  PROVE  \A p \in Procs : Exact(p)'
<1>1. ASSUME NEW q \in Procs, UNCHANGED vars PROVE Exact(q)'
  BY <1>1, ExactApart DEF vars
<1>2. ASSUME NEW p \in Procs, NEW q \in Procs,
             \/ TryLock(p) \/ TryFails(p) \/ TryError(p)
             \/ ReleaseKeys(p) \/ GiveUpRound(p) \/ GiveUpError(p) \/ Wait(p)
             \/ MigratePlatform(p) \/ MigrateTenants(p) \/ Release(p) \/ Exit(p)
             \/ Crash(p) \/ Break(p)
      PROVE  Exact(q)'
  <2>1. scope' = scope /\ leaky \subseteq leaky'
    BY <1>2 DEF TryLock, TryFails, TryError, ReleaseKeys, GiveUpRound, GiveUpError, Wait,
                MigratePlatform, MigrateTenants, Release, Exit, Crash, Break, Unlock
  <2>2. \/ TryLock(p) \/ Unlock(p)
        \/ (locks' = locks /\ got' = got) \/ SessionOver(p)
    BY <1>2 DEF TryFails, TryError, ReleaseKeys, GiveUpRound, GiveUpError, Wait,
                MigratePlatform, MigrateTenants, Release, Exit, Crash, Break
  <2>3. CASE q = p
    BY <2>1, <2>2, <2>3, ExactTry, ExactUnlock, ExactOtherwise
  <2>4. CASE q # p
    <3>1. got'[q] = got[q]
      BY <1>2, <2>4 DEF TryLock, TryFails, TryError, ReleaseKeys, GiveUpRound, GiveUpError, Wait,
                MigratePlatform, MigrateTenants, Release, Exit, Crash, Break, Unlock, LockInv, Types
    <3>2. ASSUME NEW k \in Parts PROVE locks'[<<q, k>>] = locks[<<q, k>>]
      BY <2>2, <2>4 DEF TryLock, Unlock, SessionOver, LockInv, Types
    <3> QED BY <2>1, <3>1, <3>2, ExactApart
  <2> QED BY <2>3, <2>4
<1> QED BY <1>1, <1>2 DEF Next

\* A process that waits, has given up or is done has counted no key, so that its session
\* holds none, unless an unlock of it failed.
THEOREM WaitersHold == Spec => []WaitersHoldNothing
<1> DEFINE EInv == LockInv /\ \A p \in Procs : Exact(p)
<1>1. Init => EInv
  BY InitInvariant DEF Init, Exact
<1>2. EInv /\ [Next]_vars => EInv'
  BY StepInvariant, ExactStep
<1>3. EInv => WaitersHoldNothing
  <2> SUFFICES ASSUME EInv, NEW p \in Procs, p \notin leaky, pc[p] \in {"wait", "close", "done"},
                      NEW k \in Parts
               PROVE  locks[<<p, k>>] = 0
    BY DEF WaitersHoldNothing
  <2>1. got[p] = 0 /\ Needed(p) \in {1, 2}
    BY NeededFacts DEF LockInv, Counted
  <2> QED BY <2>1 DEF Exact
<1> QED BY <1>1, <1>2, <1>3, PTL DEF Spec

-----------------------------------------------------------------------------
(***************************************************************************)
(* The protection engine                                                   *)
(***************************************************************************)

\* A circuit, whatever it has sampled.
CircuitTyped(r) ==
  /\ r = [state |-> r.state, openAge |-> r.openAge, samples |-> r.samples,
          inFlight |-> r.inFlight, successes |-> r.successes]
  /\ r.state \in {"CLOSED", "OPEN", "HALF_OPEN"}
  /\ r.openAge \in Nat /\ r.openAge <= OpenDuration
  /\ r.inFlight \in Nat /\ r.successes \in Nat
  \* Only a circuit that is half open has probes.
  /\ r.state # "HALF_OPEN" => r.inFlight = 0
CircuitsTyped ==
  /\ circuit = [k \in E!Kinds |-> circuit[k]]
  /\ \A k \in E!Kinds : CircuitTyped(circuit[k])

EngineTyped ==
  /\ published \in [version : Nat, enabled : BOOLEAN]
  /\ loaded \in Nat /\ loaded <= published.version
  /\ window \in [age : 0..RateWindow, count : 0..Limit]
  /\ concurrency \in Nat
  /\ held \in [Procs -> [version : Nat, probes : SUBSET E!Kinds]]
  /\ disabled \in BOOLEAN

\* No call runs under a version that is still to be loaded, and a set that has
\* never been disabled is there.
VersionsFit ==
  /\ \A c \in Procs : held[c].version <= published.version
  /\ published.enabled /\ loaded # published.version =>
       \A c \in Procs : held[c].version # published.version
  /\ ~disabled => published.enabled /\ loaded # 0
  /\ published.version # 0

\* Admissions older than the window were counted in the one before, whose first
\* place is too old to be remembered; each window gives a place once.
Older(a, now) == a.age > now
AdmitsFit ==
  /\ window.age # RateWindow => window.count # 0
  /\ admits \subseteq [age : 0..(RateWindow - 1), place : 1..Limit]
  /\ \A a \in admits :
       /\ Older(a, window.age) => a.place # 1
       /\ ~Older(a, window.age) => a.place <= window.count /\ (a.place = 1 => a.age = window.age)
       /\ window.age = RateWindow => a.age # 0
  /\ \A a, b \in admits : a.place = b.place /\ (Older(a, window.age) <=> Older(b, window.age)) => a = b

Holders(k) == {c \in E!Current : k \in held[c].probes}
PlacesHeld == concurrency = Cardinality(E!Current)
SlotsHeld == ~disabled => \A k \in E!Kinds : circuit[k].inFlight <= Cardinality(Holders(k))

EngineInv ==
  EngineTyped /\ CircuitsTyped /\ VersionsFit /\ AdmitsFit /\ PlacesHeld /\ SlotsHeld

LEMMA SameCounts ==
  ASSUME NEW S
  PROVE  E!Cardinality(S) = Cardinality(S) /\ E!IsFiniteSet(S) = IsFiniteSet(S)
<1>1. E!Cardinality(S) = Cardinality(S)
  BY DEF E!Cardinality, Cardinality
<1>2. E!IsFiniteSet(S) = IsFiniteSet(S)
  BY Zenon DEF E!IsFiniteSet, IsFiniteSet
<1> QED BY <1>1, <1>2

LEMMA Numbers ==
  /\ IsFiniteSet(Procs)
  /\ OpenDuration \in Nat /\ OpenDuration > 0 /\ HalfOpenProbes \in Nat /\ HalfOpenProbes > 0
  /\ HalfOpenSuccesses \in Nat /\ HalfOpenSuccesses > 0
  /\ Limit \in Nat /\ Limit > 0 /\ RateWindow \in Nat /\ RateWindow > 0
  /\ MaxConcurrency \in Nat /\ MaxConcurrency > 0
BY EngineAssumption, SameCounts DEF E!EngineAssumption

LEMMA ClosedTyped == CircuitTyped(E!Closed)
BY Numbers DEF CircuitTyped, E!Closed

LEMMA EngineInitially == E!Init => EngineInv
<1> SUFFICES ASSUME E!Init PROVE EngineInv
  OBVIOUS
<1> USE Numbers DEF E!Init
<1>1. EngineTyped
  <2>1. held \in [Procs -> [version : Nat, probes : SUBSET E!Kinds]]
    BY DEF E!Idle
  <2>2. published \in [version : Nat, enabled : BOOLEAN] /\ published.version = 1
    OBVIOUS
  <2>3. window \in [age : 0..RateWindow, count : 0..Limit]
    OBVIOUS
  <2>4. loaded \in Nat /\ loaded <= published.version /\ concurrency \in Nat
    BY <2>2
  <2>5. disabled \in BOOLEAN
    OBVIOUS
  <2> HIDE DEF E!Init
  <2> QED BY <2>1, <2>2, <2>3, <2>4, <2>5 DEF EngineTyped
<1>2. CircuitsTyped
  BY ClosedTyped DEF CircuitsTyped
<1>3. VersionsFit /\ AdmitsFit
  BY DEF VersionsFit, AdmitsFit, E!Idle
<1>4. E!Current = {}
  BY DEF E!Current, E!Idle
<1>5. PlacesHeld
  BY <1>4, FS_EmptySet DEF PlacesHeld
<1>6. SlotsHeld
  <2> SUFFICES ASSUME NEW k \in E!Kinds PROVE circuit[k].inFlight <= Cardinality(Holders(k))
    BY DEF SlotsHeld
  <2>1. Holders(k) = {}
    BY <1>4 DEF Holders
  <2>2. circuit[k].inFlight = 0
    BY DEF E!Closed
  <2> QED BY <2>1, <2>2, FS_EmptySet
<1> QED BY <1>1, <1>2, <1>3, <1>5, <1>6 DEF EngineInv

\* What an evaluation leaves in a circuit.
LEMMA LooksAt ==
  ASSUME CircuitsTyped, NEW taken \in SUBSET E!Probes, E!LookAt(taken)
  PROVE  /\ CircuitsTyped'
         /\ \A k \in E!Kinds :
              /\ circuit'[k].openAge = circuit[k].openAge
              /\ circuit'[k].inFlight <= circuit[k].inFlight + (IF k \in taken THEN 1 ELSE 0)
<1>1. circuit' = [k \in E!Kinds |->
        IF k \in E!Reached
          THEN [circuit[k] EXCEPT
                  !.state = E!StateSeen(k),
                  !.successes = IF E!Recovers(k) THEN 0 ELSE @,
                  !.inFlight = E!ProbesSeen(k) + (IF k \in taken THEN 1 ELSE 0)]
          ELSE circuit[k]]
  BY DEF E!LookAt
<1>2. \A k \in taken : k \in E!Reached /\ E!StateSeen(k) = "HALF_OPEN"
  BY DEF E!Probes
<1>3. ASSUME NEW k \in E!Kinds
      PROVE  /\ CircuitTyped(circuit'[k])
             /\ circuit'[k].openAge = circuit[k].openAge
             /\ circuit'[k].inFlight <= circuit[k].inFlight + (IF k \in taken THEN 1 ELSE 0)
  <2>1. CircuitTyped(circuit[k])
    BY DEF CircuitsTyped
  <2>2. /\ E!ProbesSeen(k) \in Nat /\ E!ProbesSeen(k) <= circuit[k].inFlight
        /\ E!StateSeen(k) \in {"CLOSED", "OPEN", "HALF_OPEN"}
        /\ E!StateSeen(k) # "HALF_OPEN" => E!ProbesSeen(k) = 0 /\ k \notin taken
    BY <1>2, <2>1 DEF CircuitTyped, E!ProbesSeen, E!StateSeen, E!Recovers
  <2>3. CASE k \in E!Reached
    <3>1. circuit'[k] = [circuit[k] EXCEPT
                  !.state = E!StateSeen(k),
                  !.successes = IF E!Recovers(k) THEN 0 ELSE @,
                  !.inFlight = E!ProbesSeen(k) + (IF k \in taken THEN 1 ELSE 0)]
      BY <1>1, <2>3
    <3>2. circuit'[k] = [state |-> E!StateSeen(k), openAge |-> circuit[k].openAge,
                         samples |-> circuit[k].samples,
                         inFlight |-> E!ProbesSeen(k) + (IF k \in taken THEN 1 ELSE 0),
                         successes |-> IF E!Recovers(k) THEN 0 ELSE circuit[k].successes]
      BY <2>1, <3>1 DEF CircuitTyped
    <3> QED BY <2>1, <2>2, <3>2 DEF CircuitTyped
  <2>4. CASE k \notin E!Reached
    <3>1. circuit'[k] = circuit[k] /\ k \notin taken
      BY <1>1, <1>2, <2>4
    <3> QED BY <2>1, <3>1 DEF CircuitTyped
  <2> QED BY <2>3, <2>4
<1>4. circuit' = [k \in E!Kinds |-> circuit'[k]]
  BY <1>1
<1> QED BY <1>3, <1>4 DEF CircuitsTyped

LEMMA FiniteCounts ==
  ASSUME NEW S \in SUBSET Procs, NEW c \in Procs
  PROVE  /\ Cardinality(S) \in Nat
         /\ c \notin S => Cardinality(S \union {c}) = Cardinality(S) + 1
         /\ c \in S => Cardinality(S \ {c}) = Cardinality(S) - 1 /\ Cardinality(S) > 0
<1>1. IsFiniteSet(S)
  BY Numbers, FS_Subset
<1>2. c \in S => Cardinality(S) # 0
  BY <1>1, FS_EmptySet
<1> QED BY <1>1, <1>2, FS_CardinalityType, FS_AddElement, FS_RemoveElement

\* Steps that only look at the circuits, or let time pass: who runs stays the same.
LEMMA CountsStay ==
  ASSUME PlacesHeld, SlotsHeld, EngineTyped,
         UNCHANGED <<loaded, concurrency, held, disabled>>, CircuitsTyped, CircuitsTyped',
         \A k \in E!Kinds : circuit'[k].inFlight <= circuit[k].inFlight
  PROVE  PlacesHeld' /\ SlotsHeld'
<1>1. E!Current' = E!Current
  BY DEF E!Current
<1>2. PlacesHeld'
  BY <1>1 DEF PlacesHeld
<1>3. SlotsHeld'
  <2> SUFFICES ASSUME ~disabled, NEW k \in E!Kinds
               PROVE  circuit'[k].inFlight <= Cardinality(Holders(k))
    BY <1>1 DEF SlotsHeld, Holders
  <2>1. Cardinality(Holders(k)) \in Nat
    <3>1. Holders(k) \in SUBSET Procs
      BY DEF Holders, E!Current
    <3> QED BY <3>1, Numbers, FS_Subset, FS_CardinalityType
  <2>2. circuit[k].inFlight \in Nat /\ circuit'[k].inFlight \in Nat
    BY DEF CircuitsTyped, CircuitTyped
  <2>3. circuit[k].inFlight <= Cardinality(Holders(k))
    BY DEF SlotsHeld
  <2> QED BY <2>1, <2>2, <2>3
<1> QED BY <1>2, <1>3

\* The window that an evaluation uses up a place of.
LEMMA WindowUsed ==
  ASSUME EngineTyped, ~E!WindowFull, window' = [E!CurrentWindow EXCEPT !.count = @ + 1]
  PROVE  /\ window' \in [age : 0..RateWindow, count : 0..Limit]
         /\ \/ /\ window'.age = window.age /\ window'.count = window.count + 1
               /\ window.age < RateWindow
            \/ window.age = RateWindow /\ window'.age = 0 /\ window'.count = 1
<1>1. /\ window.age \in 0..RateWindow /\ window.count \in 0..Limit
      /\ window = [age |-> window.age, count |-> window.count]
  BY DEF EngineTyped
<1>2. CASE window.age >= RateWindow
  <2>1. E!CurrentWindow = [age |-> 0, count |-> 0]
    BY <1>2 DEF E!CurrentWindow
  <2>2. window' = [age |-> 0, count |-> 1]
    BY <2>1
  <2>3. window' \in [age : 0..RateWindow, count : 0..Limit]
    <3>1. [age |-> 0, count |-> 1] \in [age : 0..RateWindow, count : 0..Limit]
      BY Numbers
    <3> QED BY ONLY <2>2, <3>1
  <2>4. window'.age = 0 /\ window'.count = 1
    BY <2>2
  <2>5. window.age = RateWindow
    BY <1>1, <1>2, Numbers
  <2> QED BY <2>3, <2>4, <2>5
<1>3. CASE window.age < RateWindow
  <2>1. E!CurrentWindow = window
    BY <1>1, <1>3, Numbers DEF E!CurrentWindow
  <2>2. window.count < Limit
    BY <1>1, <2>1, Numbers DEF E!WindowFull
  <2>3. window' = [age |-> window.age, count |-> window.count + 1]
    BY <1>1, <2>1
  <2>4. window' \in [age : 0..RateWindow, count : 0..Limit]
    <3>1. window.age \in 0..RateWindow /\ window.count + 1 \in 0..Limit
      BY <1>1, <2>2, Numbers
    <3> QED BY ONLY <2>3, <3>1
  <2>5. window'.age = window.age /\ window'.count = window.count + 1
    BY <2>3
  <2> QED BY <1>3, <2>4, <2>5
<1> QED BY <1>1, <1>2, <1>3, Numbers

\* A place is used: by an admission, or by a call that the next limit rejects.
LEMMA PlaceUsed ==
  ASSUME EngineTyped, AdmitsFit, ~E!WindowFull,
         window' = [E!CurrentWindow EXCEPT !.count = @ + 1],
         \/ admits' = admits
         \/ admits' = admits \union {[age |-> 0, place |-> window'.count]}
  PROVE  AdmitsFit'
<1> DEFINE one == [age |-> 0, place |-> window'.count]
<1>1. /\ window' \in [age : 0..RateWindow, count : 0..Limit]
      /\ \/ /\ window'.age = window.age /\ window'.count = window.count + 1
            /\ window.age < RateWindow
         \/ window.age = RateWindow /\ window'.age = 0 /\ window'.count = 1
  BY WindowUsed
<1>2. /\ window'.age \in Nat /\ window'.count \in 1..Limit /\ window'.age < RateWindow
      /\ window.age \in 0..RateWindow /\ window.count \in 0..Limit
  BY <1>1, Numbers DEF EngineTyped
<1>3. one \in [age : 0..(RateWindow - 1), place : 1..Limit]
  BY <1>2, Numbers
<1>4. \A a \in admits : a.age \in 0..(RateWindow - 1) /\ a.place \in 1..Limit
  BY DEF AdmitsFit
<1>5. admits' \subseteq admits \union {one}
  OBVIOUS
<1>6. one.age = 0 /\ one.place = window'.count
  OBVIOUS
<1> HIDE DEF one
<1>7. CASE window.age < RateWindow
  <2>1. /\ window'.age = window.age /\ window'.count = window.count + 1
        /\ window.count # 0
    BY <1>1, <1>2, <1>7 DEF AdmitsFit
  <2>2. /\ \A a \in admits : (Older(a, window'.age) <=> Older(a, window.age)) /\ a.place \in Nat /\ a.age \in Nat
        /\ ~Older(one, window'.age)
    BY <1>2, <1>4, <1>6, <2>1 DEF Older
  <2>3. \A a \in admits : ~Older(a, window.age) => a.place <= window.count /\ a.place # window'.count
    BY <1>2, <2>1, <2>2 DEF AdmitsFit
  <2>4. \A a \in admits' :
          /\ Older(a, window'.age) => a.place # 1
          /\ ~Older(a, window'.age) => a.place <= window'.count /\ (a.place = 1 => a.age = window'.age)
    BY <1>2, <1>5, <1>6, <2>1, <2>2, <2>3 DEF AdmitsFit
  <2>5. \A a, b \in admits' : a.place = b.place /\ (Older(a, window'.age) <=> Older(b, window'.age)) => a = b
    BY <1>5, <1>6, <2>2, <2>3 DEF AdmitsFit
  <2>6. admits' \subseteq [age : 0..(RateWindow - 1), place : 1..Limit]
    BY <1>3, <1>5 DEF AdmitsFit
  <2> QED BY <1>2, <2>4, <2>5, <2>6 DEF AdmitsFit
<1>8. CASE window.age = RateWindow
  <2>1. window'.age = 0 /\ window'.count = 1
    BY <1>1, <1>8, Numbers
  <2>2. \A a \in admits : ~Older(a, window.age) /\ a.place # 1 /\ a.age # 0
    BY <1>4, <1>8, Numbers DEF Older, AdmitsFit
  <2>3. (\A a \in admits : Older(a, window'.age)) /\ ~Older(one, window'.age)
    BY <1>4, <1>6, <2>1, <2>2 DEF Older
  <2>4. \A a \in admits' :
          /\ Older(a, window'.age) => a.place # 1
          /\ ~Older(a, window'.age) => a.place <= window'.count /\ (a.place = 1 => a.age = window'.age)
    BY <1>5, <1>6, <2>1, <2>2, <2>3
  <2>5. \A a, b \in admits' : a.place = b.place /\ (Older(a, window'.age) <=> Older(b, window'.age)) => a = b
    BY <1>5, <2>2, <2>3 DEF AdmitsFit
  <2>6. admits' \subseteq [age : 0..(RateWindow - 1), place : 1..Limit]
    BY <1>3, <1>5 DEF AdmitsFit
  <2> QED BY <1>2, <2>4, <2>5, <2>6 DEF AdmitsFit
<1> QED BY <1>2, <1>7, <1>8, Numbers


-----------------------------------------------------------------------------
\* Evaluations that reject.
LEMMA RejectsKeep ==
  ASSUME EngineInv, UNCHANGED <<published, loaded, disabled>>,
         E!RejectByCircuit \/ E!RejectByRate \/ E!RejectByConcurrency
  PROVE  EngineInv'
<1>1. /\ E!LookAt({}) /\ UNCHANGED <<concurrency, held, admits>>
      /\ \/ window' = window
         \/ ~E!WindowFull /\ window' = [E!CurrentWindow EXCEPT !.count = @ + 1]
  BY DEF E!RejectByCircuit, E!RejectByRate, E!RejectByConcurrency
<1>2. CircuitsTyped' /\ \A k \in E!Kinds : circuit'[k].inFlight <= circuit[k].inFlight + 0
  BY <1>1, LooksAt DEF EngineInv
<1>3. PlacesHeld' /\ SlotsHeld'
  <2>1. \A k \in E!Kinds : circuit'[k].inFlight <= circuit[k].inFlight
    BY <1>2 DEF EngineInv, CircuitsTyped, CircuitTyped
  <2> QED BY <1>1, <1>2, <2>1, CountsStay DEF EngineInv
<1>4. window' \in [age : 0..RateWindow, count : 0..Limit] /\ AdmitsFit'
  <2>1. CASE window' = window
    BY <1>1, <2>1 DEF EngineInv, EngineTyped, AdmitsFit
  <2>2. CASE ~E!WindowFull /\ window' = [E!CurrentWindow EXCEPT !.count = @ + 1]
    BY <1>1, <2>2, WindowUsed, PlaceUsed DEF EngineInv
  <2> QED BY <1>1, <2>1, <2>2
<1>5. EngineTyped'
  BY <1>1, <1>4 DEF EngineInv, EngineTyped
<1>6. VersionsFit'
  BY <1>1 DEF EngineInv, VersionsFit
<1> QED BY <1>2, <1>3, <1>4, <1>5, <1>6 DEF EngineInv

LEMMA AdmitKeeps ==
  ASSUME EngineInv, NEW c \in Procs, ~E!Running(c), loaded # 0,
         UNCHANGED <<published, loaded, disabled>>, E!Admit(c)
  PROVE  EngineInv'
<1>1. /\ ~E!WindowFull /\ E!LookAt(E!Probes)
      /\ window' = [E!CurrentWindow EXCEPT !.count = @ + 1]
      /\ concurrency' = concurrency + 1
      /\ held' = [held EXCEPT ![c] = [version |-> loaded, probes |-> E!Probes]]
      /\ admits' = admits \union {[age |-> 0, place |-> window'.count]}
  BY DEF E!Admit
<1>2. /\ CircuitsTyped'
      /\ \A k \in E!Kinds :
           circuit'[k].inFlight <= circuit[k].inFlight + (IF k \in E!Probes THEN 1 ELSE 0)
  BY <1>1, LooksAt DEF EngineInv
<1>3. window' \in [age : 0..RateWindow, count : 0..Limit] /\ AdmitsFit'
  BY <1>1, WindowUsed, PlaceUsed DEF EngineInv
<1>4. /\ held'[c].version = loaded /\ held'[c].probes = E!Probes /\ held[c].version = 0
      /\ \A d \in Procs \ {c} : held'[d] = held[d]
  BY <1>1 DEF EngineInv, EngineTyped, E!Running
<1>5. E!Probes \in SUBSET E!Kinds
  BY DEF E!Probes, E!Reached, E!Kinds, E!ToSet
<1>6. EngineTyped'
  <2>1. held' \in [Procs -> [version : Nat, probes : SUBSET E!Kinds]]
    BY <1>1, <1>5 DEF EngineInv, EngineTyped
  <2>2. concurrency' \in Nat
    BY <1>1 DEF EngineInv, EngineTyped
  <2> QED BY <1>3, <2>1, <2>2 DEF EngineInv, EngineTyped
<1>7. VersionsFit'
  BY <1>4 DEF EngineInv, EngineTyped, VersionsFit
<1>8. E!Current' = E!Current \union {c} /\ c \notin E!Current /\ E!Current \in SUBSET Procs
  BY <1>4 DEF E!Current
<1>9. PlacesHeld'
  BY <1>1, <1>8, FiniteCounts DEF EngineInv, PlacesHeld
<1>10. SlotsHeld'
  <2> SUFFICES ASSUME ~disabled, NEW k \in E!Kinds
               PROVE  circuit'[k].inFlight <= Cardinality(Holders(k)')
    BY DEF SlotsHeld
  <2>1. Holders(k) \in SUBSET Procs /\ c \notin Holders(k)
    BY <1>8 DEF Holders
  <2>2. Holders(k)' = IF k \in E!Probes THEN Holders(k) \union {c} ELSE Holders(k)
    BY <1>4, <1>8 DEF Holders
  <2>3. /\ Cardinality(Holders(k)) \in Nat
        /\ Cardinality(Holders(k) \union {c}) = Cardinality(Holders(k)) + 1
    BY <2>1, FiniteCounts
  <2>4. circuit[k].inFlight \in Nat /\ circuit'[k].inFlight \in Nat
        /\ circuit[k].inFlight <= Cardinality(Holders(k))
    BY <1>2 DEF EngineInv, CircuitsTyped, CircuitTyped, SlotsHeld
  <2>5. circuit'[k].inFlight <= circuit[k].inFlight + (IF k \in E!Probes THEN 1 ELSE 0)
    BY <1>2
  <2>6. CASE k \in E!Probes
    BY <2>2, <2>3, <2>4, <2>5, <2>6
  <2>7. CASE k \notin E!Probes
    BY <2>2, <2>3, <2>4, <2>5, <2>7
  <2> QED BY <2>6, <2>7
<1> QED BY <1>2, <1>3, <1>6, <1>7, <1>9, <1>10 DEF EngineInv

\* What a result makes of a circuit.
ResultFits(k, r) ==
  /\ CircuitTyped(r)
  /\ r.inFlight = 0 \/ r.inFlight = circuit[k].inFlight - 1
  /\ circuit[k].state = "OPEN" => r = circuit[k]

LEMMA Changed ==
  ASSUME NEW r, CircuitTyped(r), NEW s, NEW i, NEW n, NEW q
  PROVE  /\ q = [r EXCEPT !.samples = s] =>
              q = [state |-> r.state, openAge |-> r.openAge, samples |-> s,
                   inFlight |-> r.inFlight, successes |-> r.successes]
         /\ q = [r EXCEPT !.inFlight = i, !.successes = n] =>
              q = [state |-> r.state, openAge |-> r.openAge, samples |-> r.samples,
                   inFlight |-> i, successes |-> n]
<1>1. r = [state |-> r.state, openAge |-> r.openAge, samples |-> r.samples,
           inFlight |-> r.inFlight, successes |-> r.successes]
  BY DEF CircuitTyped
<1>2. ASSUME q = [r EXCEPT !.samples = s]
      PROVE  q = [state |-> r.state, openAge |-> r.openAge, samples |-> s,
                  inFlight |-> r.inFlight, successes |-> r.successes]
  BY ONLY <1>1, <1>2
<1>3. ASSUME q = [r EXCEPT !.inFlight = i, !.successes = n]
      PROVE  q = [state |-> r.state, openAge |-> r.openAge, samples |-> r.samples,
                  inFlight |-> i, successes |-> n]
  BY ONLY <1>1, <1>3
<1> QED BY <1>2, <1>3

LEMMA ResultsFit ==
  ASSUME CircuitsTyped, NEW k \in E!Kinds, NEW failure, NEW slow
  PROVE  ResultFits(k, E!AfterResult(k, failure, slow))
<1> DEFINE r == E!AfterResult(k, failure, slow)
           i == circuit[k].inFlight
           n == circuit[k].successes
<1>1. CircuitTyped(circuit[k]) /\ i \in Nat /\ n \in Nat
  BY DEF CircuitsTyped, CircuitTyped
<1>2. \A recent : CircuitTyped(E!Opened(recent)) /\ E!Opened(recent).inFlight = 0
  BY Numbers DEF CircuitTyped, E!Opened
<1>3. CircuitTyped(E!Closed) /\ E!Closed.inFlight = 0
  BY ClosedTyped DEF E!Closed
<1>4. CASE circuit[k].state = "HALF_OPEN"
  <2> DEFINE j == IF i > 0 THEN i - 1 ELSE 0
             x == [circuit[k] EXCEPT !.inFlight = j, !.successes = n + 1]
  <2>1. r = E!HalfOpenResult(k, failure)
    BY <1>4 DEF E!AfterResult
  <2>2. r \in {E!Opened(circuit[k].samples), E!Closed, x}
    BY <2>1 DEF E!HalfOpenResult
  <2>3. j \in Nat /\ (j = 0 \/ j = i - 1)
    BY <1>1
  <2>4. x = [circuit[k] EXCEPT !.inFlight = j, !.successes = n + 1]
    OBVIOUS
  <2> HIDE DEF r, x, j
  <2>5. x = [state |-> circuit[k].state, openAge |-> circuit[k].openAge,
             samples |-> circuit[k].samples, inFlight |-> j, successes |-> n + 1]
    <3>1. circuit[k] = [state |-> circuit[k].state, openAge |-> circuit[k].openAge,
             samples |-> circuit[k].samples, inFlight |-> i, successes |-> n]
      BY <1>1 DEF CircuitTyped
    <3> HIDE DEF i, n
    <3> QED BY ONLY <2>4, <3>1
  <2>6. CircuitTyped(x) /\ x.inFlight = j
    BY <1>1, <1>4, <2>3, <2>5 DEF CircuitTyped
  <2>7. CircuitTyped(r) /\ (r.inFlight = 0 \/ r.inFlight = i - 1)
    BY <1>2, <1>3, <2>2, <2>3, <2>6
  <2> QED BY <1>4, <2>7 DEF ResultFits, r
<1>5. CASE circuit[k].state = "OPEN"
  <2>1. r = circuit[k]
    BY <1>5 DEF E!AfterResult
  <2>2. i = 0
    BY <1>1, <1>5 DEF CircuitTyped
  <2> QED BY <1>1, <2>1, <2>2 DEF ResultFits
<1>6. CASE circuit[k].state = "CLOSED"
  <2> DEFINE recent == E!Recent(k, failure, slow)
             x == [state |-> circuit[k].state, openAge |-> circuit[k].openAge,
                   samples |-> recent, inFlight |-> i, successes |-> n]
  <2>1. r = E!ClosedResult(k, recent)
    BY <1>6 DEF E!AfterResult
  <2>2. [circuit[k] EXCEPT !.samples = recent] = x
    BY <1>1, Changed
  <2>3. r \in {E!Opened(recent), x}
    BY <2>1, <2>2 DEF E!ClosedResult
  <2>4. i = 0
    BY <1>1, <1>6 DEF CircuitTyped
  <2> HIDE DEF recent
  <2>5. CircuitTyped(x) /\ x.inFlight = 0
    BY <1>1, <1>6, <2>4 DEF CircuitTyped
  <2> HIDE DEF r, x
  <2>6. CircuitTyped(r) /\ r.inFlight = 0
    BY <1>2, <2>3, <2>5
  <2> QED BY <1>6, <2>6 DEF ResultFits, r
<1> QED BY <1>1, <1>4, <1>5, <1>6 DEF CircuitTyped


-----------------------------------------------------------------------------
\* A call that ends leaves the counts, and takes what it holds with it; the
\* completion of an older version's call takes nothing.
LEMMA RecordKeeps ==
  ASSUME EngineInv, NEW c \in Procs, NEW failure, NEW slow, E!Record(c, failure, slow)
  PROVE  EngineInv'
<1>1. /\ held[c].version # 0 /\ held' = [held EXCEPT ![c] = E!Idle]
      /\ UNCHANGED <<published, loaded, window, admits, disabled>>
  BY DEF E!Record, E!Running
<1>2. /\ held'[c].version = 0 /\ \A d \in Procs \ {c} : held'[d] = held[d]
      /\ held' \in [Procs -> [version : Nat, probes : SUBSET E!Kinds]]
  BY <1>1 DEF EngineInv, EngineTyped, E!Idle
<1>3. E!Current' = E!Current \ {c} /\ E!Current \in SUBSET Procs
  BY <1>1, <1>2 DEF E!Current
<1>4. VersionsFit'
  BY <1>1, <1>2 DEF EngineInv, EngineTyped, VersionsFit
<1>5. AdmitsFit'
  BY <1>1 DEF EngineInv, AdmitsFit
<1>6. ASSUME NEW k \in E!Kinds
      PROVE  /\ Holders(k)' = Holders(k) \ {c} /\ Holders(k) \in SUBSET Procs
             /\ Cardinality(Holders(k)) \in Nat /\ Cardinality(Holders(k)') \in Nat
             /\ c \notin Holders(k) => Holders(k)' = Holders(k)
             /\ c \in Holders(k) => Cardinality(Holders(k)') = Cardinality(Holders(k)) - 1
  <2>1. Holders(k)' = Holders(k) \ {c} /\ Holders(k) \in SUBSET Procs
    BY <1>2, <1>3 DEF Holders
  <2>2. c \notin Holders(k) => Holders(k)' = Holders(k)
    BY <2>1
  <2> QED BY <2>1, <2>2, FiniteCounts
<1>7. CASE E!Accounted(c)
  <2>1. /\ circuit' = [k \in E!Kinds |-> E!AfterResult(k, failure, slow)]
        /\ concurrency' = IF concurrency > 0 THEN concurrency - 1 ELSE 0
    BY <1>7 DEF E!Record
  <2>2. \A k \in E!Kinds : ResultFits(k, circuit'[k])
    BY <2>1, ResultsFit DEF EngineInv
  <2>3. CircuitsTyped'
    BY <2>1, <2>2 DEF CircuitsTyped, ResultFits
  <2>4. c \in E!Current
    BY <1>1, <1>7 DEF E!Accounted, E!Current
  <2>5. concurrency' \in Nat /\ PlacesHeld'
    BY <1>3, <2>1, <2>4, FiniteCounts DEF EngineInv, PlacesHeld
  <2>6. SlotsHeld'
    <3> SUFFICES ASSUME ~disabled, NEW k \in E!Kinds
                 PROVE  circuit'[k].inFlight <= Cardinality(Holders(k)')
      BY <1>1 DEF SlotsHeld
    <3>1. /\ circuit[k].inFlight \in Nat /\ circuit'[k].inFlight \in Nat
          /\ circuit[k].inFlight <= Cardinality(Holders(k))
      BY <2>3 DEF EngineInv, CircuitsTyped, CircuitTyped, SlotsHeld
    <3>2. circuit'[k].inFlight = 0 \/ circuit'[k].inFlight = circuit[k].inFlight - 1
      BY <2>2 DEF ResultFits
    <3> QED BY <1>6, <3>1, <3>2
  <2>7. EngineTyped'
    BY <1>1, <1>2, <2>5 DEF EngineInv, EngineTyped
  <2> QED BY <1>4, <1>5, <2>3, <2>5, <2>6, <2>7 DEF EngineInv
<1>8. CASE ~E!Accounted(c)
  <2>1. UNCHANGED <<concurrency, circuit>>
    BY <1>8 DEF E!Record
  <2>2. c \notin E!Current
    BY <1>8 DEF E!Accounted, E!Current
  <2>3. PlacesHeld'
    BY <1>3, <2>1, <2>2 DEF EngineInv, PlacesHeld
  <2>4. SlotsHeld'
    <3>1. \A k \in E!Kinds : Holders(k)' = Holders(k)
      BY <1>6, <2>2 DEF Holders
    <3> QED BY <1>1, <2>1, <3>1 DEF EngineInv, SlotsHeld
  <2>5. EngineTyped' /\ CircuitsTyped'
    BY <1>1, <1>2, <2>1 DEF EngineInv, EngineTyped, CircuitsTyped
  <2> QED BY <1>4, <1>5, <2>3, <2>4, <2>5 DEF EngineInv
<1> QED BY <1>7, <1>8

\* Publications: the new version is one that no call runs under.
LEMMA PublicationsKeep ==
  ASSUME EngineInv, E!Publish \/ E!SetEnabled
  PROVE  EngineInv'
<1>1. /\ published' \in [version : Nat, enabled : BOOLEAN]
      /\ published'.version = published.version + 1 /\ published.version \in Nat
      /\ (published'.enabled = published.enabled /\ disabled' = disabled) \/ disabled' = TRUE
      /\ UNCHANGED <<loaded, circuit, window, concurrency, held, admits>>
  <2>1. CASE E!Publish
    BY <2>1 DEF E!Publish, EngineInv, EngineTyped
  <2>2. CASE E!SetEnabled
    <3>1. published' = [version |-> published.version + 1, enabled |-> ~published.enabled]
      BY <2>2 DEF E!SetEnabled
    <3>2. published.version + 1 \in Nat /\ (~published.enabled) \in BOOLEAN
      BY DEF EngineInv, EngineTyped
    <3>3. published' \in [version : Nat, enabled : BOOLEAN]
      BY <3>1, <3>2
    <3> QED BY <2>2, <3>1, <3>3 DEF E!SetEnabled, EngineInv, EngineTyped
  <2> QED BY <2>1, <2>2
<1>2. E!Current' = E!Current
  BY <1>1 DEF E!Current
<1>3. PlacesHeld' /\ SlotsHeld'
  <2>1. disabled' = FALSE => ~disabled
    BY <1>1 DEF EngineInv, EngineTyped
  <2> QED BY <1>1, <1>2, <2>1 DEF EngineInv, EngineTyped, PlacesHeld, SlotsHeld, Holders
<1>4. EngineTyped' /\ CircuitsTyped'
  <2>1. disabled' \in BOOLEAN
    BY <1>1 DEF EngineInv, EngineTyped
  <2> QED BY <1>1, <2>1 DEF EngineInv, EngineTyped, CircuitsTyped
<1>5. VersionsFit'
  <2>1. \A c \in Procs : held'[c].version \in Nat /\ held'[c].version <= published.version
    BY <1>1 DEF EngineInv, EngineTyped, VersionsFit
  <2>2. ~disabled' => published'.enabled /\ loaded' # 0
    BY <1>1 DEF EngineInv, EngineTyped, VersionsFit
  <2> QED BY <1>1, <2>1, <2>2 DEF VersionsFit
<1>6. AdmitsFit'
  BY <1>1 DEF EngineInv, AdmitsFit
<1> QED BY <1>3, <1>4, <1>5, <1>6 DEF EngineInv

\* A reload starts with no running call of its version.
LEMMA ReplaceRulesKeeps ==
  ASSUME EngineInv, E!ReplaceRules
  PROVE  EngineInv'
<1> DEFINE version == IF published.enabled THEN published.version ELSE 0
           reset == E!ResetNeeded(version)
<1>1. /\ version # loaded /\ loaded' = version /\ admits' = {}
      /\ concurrency' = IF reset \/ version = 0 THEN 0 ELSE concurrency
      /\ UNCHANGED <<published, held, disabled>>
      /\ reset => /\ circuit' = [k \in E!Kinds |-> E!Closed]
                  /\ window' = [age |-> RateWindow, count |-> 0]
      /\ ~reset => UNCHANGED <<circuit, window>>
  BY DEF E!ReplaceRules
<1>2. /\ published.version \in Nat /\ published.enabled \in BOOLEAN /\ published.version # 0
      /\ loaded \in Nat /\ concurrency \in Nat /\ version \in Nat /\ version <= published.version
  BY DEF EngineInv, EngineTyped, VersionsFit
<1>3. E!Current' = {}
  BY <1>1 DEF E!Current, EngineInv, VersionsFit
<1>4. loaded = 0 => concurrency = 0
  <2>1. loaded = 0 => E!Current = {}
    BY DEF E!Current
  <2> QED BY <2>1, FS_EmptySet DEF EngineInv, PlacesHeld
<1>5. concurrency' = 0
  BY <1>1, <1>2, <1>4 DEF E!ResetNeeded
<1>6. PlacesHeld'
  BY <1>3, <1>5, FS_EmptySet DEF PlacesHeld
<1>7. ~disabled => reset
  BY <1>1, <1>2 DEF EngineInv, VersionsFit, E!ResetNeeded
<1>8. SlotsHeld'
  <2> SUFFICES ASSUME ~disabled, NEW k \in E!Kinds
               PROVE  circuit'[k].inFlight <= Cardinality(Holders(k)')
    BY <1>1 DEF SlotsHeld
  <2>1. circuit'[k].inFlight = 0
    BY <1>1, <1>7 DEF E!Closed
  <2>2. Holders(k)' = {}
    BY <1>3 DEF Holders
  <2> QED BY <2>1, <2>2, FS_EmptySet
<1>9. CircuitsTyped'
  BY <1>1, ClosedTyped DEF EngineInv, CircuitsTyped
<1>10. window' \in [age : 0..RateWindow, count : 0..Limit] /\ (window'.age # RateWindow => window'.count # 0)
  <2>1. CASE reset
    <3>1. [age |-> RateWindow, count |-> 0] \in [age : 0..RateWindow, count : 0..Limit]
      BY Numbers
    <3>2. window' = [age |-> RateWindow, count |-> 0]
      BY <1>1, <2>1
    <3> QED BY ONLY <3>1, <3>2
  <2>2. CASE ~reset
    BY <1>1, <2>2 DEF EngineInv, EngineTyped, AdmitsFit
  <2> QED BY <2>1, <2>2
<1>11. AdmitsFit'
  BY <1>1, <1>10 DEF AdmitsFit
<1>12. EngineTyped'
  BY <1>1, <1>2, <1>5, <1>10 DEF EngineInv, EngineTyped
<1>13. VersionsFit'
  BY <1>1, <1>2 DEF EngineInv, VersionsFit
<1> QED BY <1>6, <1>8, <1>9, <1>11, <1>12, <1>13 DEF EngineInv


LEMMA TickKeeps ==
  ASSUME EngineInv, E!Tick
  PROVE  EngineInv'
<1> DEFINE aged(a) == [a EXCEPT !.age = @ + 1]
           w == window.age
           u == window'.age
<1>1. /\ window' = [window EXCEPT !.age = E!Capped(@ + 1, RateWindow)]
      /\ admits' = {aged(a) : a \in {b \in admits : b.age + 1 < RateWindow}}
      /\ UNCHANGED <<published, loaded, concurrency, held, disabled>>
  BY DEF E!Tick
<1>2. /\ w \in 0..RateWindow /\ window.count \in 0..Limit
      /\ window = [age |-> w, count |-> window.count]
  BY DEF EngineInv, EngineTyped
<1>3. /\ u = IF w < RateWindow THEN w + 1 ELSE RateWindow
      /\ window'.count = window.count
      /\ window' \in [age : 0..RateWindow, count : 0..Limit]
  <2>1. window' = [age |-> E!Capped(w + 1, RateWindow), count |-> window.count]
    BY <1>1, <1>2
  <2>2. E!Capped(w + 1, RateWindow) = IF w < RateWindow THEN w + 1 ELSE RateWindow
    BY <1>2, Numbers DEF E!Capped
  <2>3. E!Capped(w + 1, RateWindow) \in 0..RateWindow
    BY <1>2, <2>2, Numbers
  <2>4. [age |-> E!Capped(w + 1, RateWindow), count |-> window.count]
          \in [age : 0..RateWindow, count : 0..Limit]
    BY <1>2, <2>3
  <2>5. window' \in [age : 0..RateWindow, count : 0..Limit]
    BY ONLY <2>1, <2>4
  <2> QED BY <2>1, <2>2, <2>5
<1>4. \A a \in admits :
        /\ a.age \in 0..(RateWindow - 1) /\ a.place \in 1..Limit
        /\ aged(a).age = a.age + 1 /\ aged(a).place = a.place
        /\ aged(a) = [age |-> a.age + 1, place |-> a.place]
  BY DEF EngineInv, AdmitsFit
<1> HIDE DEF aged
<1>5. AdmitsFit'
  <2>1. ASSUME NEW a \in admits, a.age + 1 < RateWindow
        PROVE  Older(aged(a), u) <=> Older(a, w)
    <3>1. a.age \in 0..(RateWindow - 1) /\ aged(a).age = a.age + 1
      BY <1>4
    <3> HIDE DEF u, w
    <3> QED BY <1>2, <1>3, <2>1, <3>1, Numbers DEF Older
  <2>2. \A x \in admits' : \E a \in admits : x = aged(a) /\ a.age + 1 < RateWindow
    BY <1>1
  <2>3. admits' \subseteq [age : 0..(RateWindow - 1), place : 1..Limit]
    <3> SUFFICES ASSUME NEW x \in admits'
                 PROVE  x \in [age : 0..(RateWindow - 1), place : 1..Limit]
      OBVIOUS
    <3>1. PICK a \in admits : x = aged(a) /\ a.age + 1 < RateWindow
      BY <2>2
    <3>2. a.age + 1 \in 0..(RateWindow - 1) /\ a.place \in 1..Limit
      <4>1. a.age \in 0..(RateWindow - 1) /\ a.place \in 1..Limit /\ a.age + 1 < RateWindow
        BY <1>4, <3>1
      <4> QED BY ONLY <4>1, Numbers
    <3>3. [age |-> a.age + 1, place |-> a.place] \in [age : 0..(RateWindow - 1), place : 1..Limit]
      BY <3>2
    <3>4. x = [age |-> a.age + 1, place |-> a.place]
      BY <1>4, <3>1
    <3> QED BY ONLY <3>3, <3>4
  <2>4. ASSUME NEW x \in admits'
        PROVE  /\ Older(x, u) => x.place # 1
               /\ ~Older(x, u) => x.place <= window'.count /\ (x.place = 1 => x.age = u)
               /\ u = RateWindow => x.age # 0
    <3>1. PICK a \in admits : x = aged(a) /\ a.age + 1 < RateWindow
      BY <2>2
    <3>2. /\ Older(a, w) => a.place # 1
          /\ ~Older(a, w) => a.place <= window.count /\ (a.place = 1 => a.age = w)
      BY DEF EngineInv, AdmitsFit
    <3>3. x.age = a.age + 1 /\ x.place = a.place /\ (Older(x, u) <=> Older(a, w)) /\ a.age \in Nat
      BY <1>4, <2>1, <3>1
    <3>4. CASE Older(a, w)
      BY <3>2, <3>3, <3>4
    <3>5. CASE ~Older(a, w)
      <4>1. a.place = 1 => x.age = u
        BY <1>2, <1>3, <3>1, <3>2, <3>3, <3>5, Numbers
      <4> QED BY <1>3, <3>2, <3>3, <3>5, <4>1
    <3> QED BY <3>4, <3>5
  <2>5. ASSUME NEW x \in admits', NEW y \in admits', x.place = y.place, Older(x, u) <=> Older(y, u)
        PROVE  x = y
    <3>1. PICK a \in admits : x = aged(a) /\ a.age + 1 < RateWindow
      BY <2>2
    <3>2. PICK b \in admits : y = aged(b) /\ b.age + 1 < RateWindow
      BY <2>2
    <3>3. a.place = b.place
      BY <1>4, <2>5, <3>1, <3>2
    <3>4. Older(a, w) <=> Older(b, w)
      BY <2>1, <2>5, <3>1, <3>2
    <3>5. a = b
      BY <3>3, <3>4 DEF EngineInv, AdmitsFit
    <3> QED BY <3>1, <3>2, <3>5
  <2>6. u # RateWindow => window'.count # 0
    BY <1>2, <1>3 DEF EngineInv, AdmitsFit
  <2> QED BY <2>3, <2>4, <2>5, <2>6 DEF AdmitsFit
<1>6. /\ CircuitsTyped'
      /\ \A k \in E!Kinds : circuit'[k].inFlight = circuit[k].inFlight
  <2>1. ASSUME NEW k \in E!Kinds
        PROVE  CircuitTyped(circuit'[k]) /\ circuit'[k].inFlight = circuit[k].inFlight
    <3> DEFINE s == E!Aged(circuit[k].samples)
               g == IF circuit[k].state = "OPEN" THEN E!Capped(circuit[k].openAge + 1, OpenDuration)
                                                 ELSE circuit[k].openAge
    <3>1. circuit'[k] = [circuit[k] EXCEPT !.openAge = g, !.samples = s]
      BY DEF E!Tick
    <3>2. CircuitTyped(circuit[k])
      BY DEF EngineInv, CircuitsTyped
    <3>3. g \in Nat /\ g <= OpenDuration
      BY <3>2, Numbers DEF CircuitTyped, E!Capped
    <3> HIDE DEF s, g
    <3>4. circuit'[k] = [state |-> circuit[k].state, openAge |-> g, samples |-> s,
                         inFlight |-> circuit[k].inFlight, successes |-> circuit[k].successes]
      BY <3>1, <3>2 DEF CircuitTyped
    <3> QED BY <3>2, <3>3, <3>4 DEF CircuitTyped
  <2>2. circuit' = [k \in E!Kinds |-> circuit'[k]]
    BY DEF E!Tick
  <2> QED BY <2>1, <2>2 DEF CircuitsTyped
<1>7. PlacesHeld' /\ SlotsHeld'
  <2>1. \A k \in E!Kinds : circuit'[k].inFlight <= circuit[k].inFlight
    BY <1>6 DEF EngineInv, CircuitsTyped, CircuitTyped
  <2> QED BY <1>1, <1>6, <2>1, CountsStay DEF EngineInv
<1>8. EngineTyped' /\ VersionsFit'
  BY <1>1, <1>3 DEF EngineInv, EngineTyped, VersionsFit
<1> QED BY <1>5, <1>6, <1>7, <1>8 DEF EngineInv

LEMMA EngineStep == EngineInv /\ [E!Next]_E!vars => EngineInv'
<1> SUFFICES ASSUME EngineInv, [E!Next]_E!vars PROVE EngineInv'
  OBVIOUS
<1>1. ASSUME NEW c \in Procs, E!Evaluate(c) PROVE EngineInv'
  <2>1. UNCHANGED <<published, loaded, disabled>> /\ ~E!Running(c) /\ loaded # 0
    BY <1>1 DEF E!Evaluate
  <2>2. CASE E!RejectByCircuit \/ E!RejectByRate \/ E!RejectByConcurrency
    BY <2>1, <2>2, RejectsKeep
  <2>3. CASE E!Admit(c)
    BY <2>1, <2>3, AdmitKeeps
  <2> QED BY <1>1, <2>2, <2>3 DEF E!Evaluate
<1>2. ASSUME NEW c \in Procs, E!Complete(c) PROVE EngineInv'
  BY <1>2, RecordKeeps DEF E!Complete
<1>3. CASE E!Publish \/ E!SetEnabled
  BY <1>3, PublicationsKeep
<1>4. CASE E!ReplaceRules
  BY <1>4, ReplaceRulesKeeps
<1>5. CASE E!Tick
  BY <1>5, TickKeeps
<1>6. CASE UNCHANGED E!vars
  BY <1>6 DEF E!vars, EngineInv, EngineTyped, CircuitsTyped, VersionsFit, AdmitsFit, PlacesHeld,
              SlotsHeld, Holders, E!Current
<1> QED BY <1>1, <1>2, <1>3, <1>4, <1>5, <1>6 DEF E!Next

\* The admissions of a window have their places in the one now and, but for its
\* first place, in the one before.
LEMMA PlacesBound == ASSUME EngineInv PROVE Cardinality(admits) <= 2 * Limit - 1
<1> DEFINE T == 1..(2 * Limit - 1)
           f == [a \in admits |-> IF Older(a, window.age) THEN Limit + a.place - 1 ELSE a.place]
<1>1. Limit \in Nat /\ Limit > 0
  BY Numbers
<1>2. \A a \in admits : a.place \in 1..Limit /\ (Older(a, window.age) => a.place # 1)
  BY DEF EngineInv, AdmitsFit
<1>3. \A a \in admits : f[a] \in T
  BY <1>1, <1>2
<1>4. ASSUME NEW a \in admits, NEW b \in admits, f[a] = f[b] PROVE a = b
  <2>1. a.place = b.place /\ (Older(a, window.age) <=> Older(b, window.age))
    BY <1>1, <1>2, <1>4
  <2> QED BY <2>1 DEF EngineInv, AdmitsFit
<1>5. f \in Injection(admits, T)
  <2>1. f \in [admits -> T]
    BY <1>3
  <2> HIDE DEF f, T
  <2> QED BY <1>4, <2>1, Fun_IsInj
<1>6. IsFiniteSet(T) /\ Cardinality(T) = 2 * Limit - 1
  BY <1>1, FS_Interval
<1> HIDE DEF f, T
<1> QED BY <1>5, <1>6, FS_Injection


\* What the engine counts is true of the calls that run: through every reload, the
\* places taken and the probe slots are those of the calls the loaded version
\* admitted, and no window's length sees more than its bound.
THEOREM CountsTrue == E!Spec => []CountsAreTrue
<1>1. EngineInv => CountsAreTrue
  <2> SUFFICES ASSUME EngineInv PROVE CountsAreTrue
    OBVIOUS
  <2>1. E!ConcurrencyIsLive
    <3>1. E!Cardinality(E!Current) = Cardinality(E!Current)
      BY SameCounts
    <3> QED BY <3>1 DEF E!ConcurrencyIsLive, EngineInv, PlacesHeld
  <2>2. E!SlotsHeldWhileEnabled
    <3> SUFFICES ASSUME ~disabled, NEW k \in E!Kinds
                 PROVE  circuit[k].inFlight
                          <= E!Cardinality({c \in E!Current : k \in held[c].probes})
      BY DEF E!SlotsHeldWhileEnabled, E!SlotsHeld
    <3>1. E!Cardinality(Holders(k)) = Cardinality(Holders(k))
      BY SameCounts
    <3>2. circuit[k].inFlight <= Cardinality(Holders(k))
      BY DEF EngineInv, SlotsHeld
    <3> QED BY <3>1, <3>2 DEF Holders
  <2>3. E!RateBounded
    <3>1. E!Cardinality(admits) = Cardinality(admits)
      BY SameCounts
    <3> QED BY <3>1, PlacesBound DEF E!RateBounded
  <2> QED BY <2>1, <2>2, <2>3 DEF CountsAreTrue, E!CountsAreTrue
<1> QED BY <1>1, EngineInitially, EngineStep, PTL DEF E!Spec

\* No step moves the clock of a circuit that stays open back: calls that end late
\* do not prolong the outage.
THEOREM OutagesEnd == E!Spec => OutageNotProlonged
<1> DEFINE Forward == \A k \in E!Kinds :
             circuit[k].state = "OPEN" /\ circuit'[k].state = "OPEN"
             => circuit'[k].openAge >= circuit[k].openAge
<1>1. ASSUME EngineInv, [E!Next]_E!vars PROVE [Forward]_E!vars
  <2>1. SUFFICES ASSUME E!Next PROVE Forward
    BY <1>1
  <2>2. \A k \in E!Kinds : CircuitTyped(circuit[k]) /\ circuit[k].openAge \in Nat
    BY <1>1 DEF EngineInv, CircuitsTyped, CircuitTyped
  <2>3. circuit' = circuit => Forward
    BY <2>2
  <2>4. ASSUME NEW c \in Procs, E!Evaluate(c) PROVE Forward
    <3>1. PICK taken \in SUBSET E!Probes : E!LookAt(taken)
      BY <2>4 DEF E!Evaluate, E!RejectByCircuit, E!RejectByRate, E!RejectByConcurrency, E!Admit
    <3>2. \A k \in E!Kinds : circuit'[k].openAge = circuit[k].openAge
      BY <1>1, <3>1, LooksAt DEF EngineInv
    <3> QED BY <2>2, <3>2
  <2>5. ASSUME NEW c \in Procs, NEW failure, NEW slow, E!Record(c, failure, slow) PROVE Forward
    <3>1. CASE circuit' = [k \in E!Kinds |-> E!AfterResult(k, failure, slow)]
      <4>1. \A k \in E!Kinds : ResultFits(k, circuit'[k])
        BY <1>1, <3>1, ResultsFit DEF EngineInv
      <4>2. \A k \in E!Kinds : circuit[k].state = "OPEN" => circuit'[k] = circuit[k]
        BY <4>1 DEF ResultFits
      <4> QED BY <2>2, <4>2
    <3>2. CASE circuit' = circuit
      BY <2>3, <3>2
    <3> QED BY <2>5, <3>1, <3>2 DEF E!Record
  <2>6. CASE E!ReplaceRules
    <3>1. circuit' = circuit \/ circuit' = [k \in E!Kinds |-> E!Closed]
      BY <2>6 DEF E!ReplaceRules
    <3>2. E!Closed.state # "OPEN"
      BY DEF E!Closed
    <3> QED BY <2>3, <3>1, <3>2
  <2>7. CASE E!Tick
    <3> SUFFICES ASSUME NEW k \in E!Kinds, circuit[k].state = "OPEN"
                 PROVE  circuit'[k].openAge >= circuit[k].openAge
      OBVIOUS
    <3>1. circuit[k] = [state |-> circuit[k].state, openAge |-> circuit[k].openAge,
                        samples |-> circuit[k].samples, inFlight |-> circuit[k].inFlight,
                        successes |-> circuit[k].successes]
          /\ circuit[k].openAge \in Nat /\ circuit[k].openAge <= OpenDuration
      BY <2>2 DEF CircuitTyped
    <3>2. circuit'[k].openAge = E!Capped(circuit[k].openAge + 1, OpenDuration)
      BY <2>7, <3>1 DEF E!Tick
    <3> QED BY <3>1, <3>2, Numbers DEF E!Capped
  <2>8. CASE E!Publish \/ E!SetEnabled
    BY <2>3, <2>8 DEF E!Publish, E!SetEnabled
  <2> QED BY <2>1, <2>4, <2>5, <2>6, <2>7, <2>8 DEF E!Next, E!Complete
<1> QED BY <1>1, EngineInitially, EngineStep, PTL DEF E!Spec, OutageNotProlonged, E!OutageNotProlonged

=============================================================================
