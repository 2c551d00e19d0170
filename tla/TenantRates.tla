----------------------------- MODULE TenantRates -----------------------------
(***************************************************************************)
(* The limit on the requests of a tenant in any sixty seconds              *)
(* (app/services/tenancy/tenant/rate_limiter.go): the hits of the window   *)
(* are one entry of the cache, which every node reads, extends and writes  *)
(* back under a lock that lapses after five seconds and is waited for one. *)
(***************************************************************************)
EXTENDS Naturals, FiniteSets

CONSTANTS
  Requests,     \* requests of one tenant, on any node
  Limit,        \* api_rate_per_minute
  Window,       \* rateWindowSeconds
  LockTtl,      \* rateLockTTL
  MaxTime       \* bound: the clock stops here

\* As the code's constants are, and the configuration if there is a limit.
RatesAssumption == {Limit, Window, LockTtl} \subseteq Nat \ {0} /\ MaxTime \in Nat

VARIABLES
  now,
  hits,         \* the entry: when the requests in it were let in
  lock,         \* how long the lock still lasts
  at,           \* where a request is
  time, seen,   \* the now it works with, and the hits it has read
  held,         \* how long the lock it took still lasts
  admitted,     \* history: when requests were let in,
  late          \* and whether one outlasted its lock

vars == <<now, hits, lock, at, time, seen, held, admitted, late>>

Moments == 0..MaxTime
\* The entry is a list in the code; requests of one second are told apart here.
Hits == SUBSET (Requests \X Moments)

TypeOK ==
  /\ now \in Moments /\ hits \in Hits /\ lock \in 0..LockTtl
  /\ at \in [Requests -> {"new", "read", "put", "release", "in", "over", "out", "failed"}]
  /\ time \in [Requests -> Moments] /\ seen \in [Requests -> Hits]
  /\ held \in [Requests -> 0..LockTtl] /\ admitted \in Hits /\ late \in BOOLEAN

Init ==
  /\ now = 0 /\ hits = {} /\ lock = 0
  /\ at = [r \in Requests |-> "new"] /\ time = [r \in Requests |-> 0]
  /\ seen = [r \in Requests |-> {}] /\ held = [r \in Requests |-> 0]
  /\ admitted = {} /\ late = FALSE

\* Variant: requests do not exclude each other.
LockFreeAlways == TRUE
LockFree == lock = 0

\* Allow: the lock, or no answer of it within a second.
Block(r) ==
  /\ at[r] = "new"
  /\ \/ /\ LockFree /\ lock' = LockTtl
        /\ held' = [held EXCEPT ![r] = LockTtl] /\ at' = [at EXCEPT ![r] = "read"]
     \/ /\ lock > 0 /\ at' = [at EXCEPT ![r] = "out"]
        /\ UNCHANGED <<lock, held>>
  /\ UNCHANGED <<now, hits, time, seen, admitted, late>>

\* recentRateHits.
Recent(entry, moment) == {h \in entry : h[2] + Window > moment}

\* incrementAndSum up to the Put; "over" when the window is full.
ReadHits(r) ==
  LET recent == Recent(hits, now) IN
  /\ at[r] = "read"
  /\ IF Cardinality(recent) >= Limit
       THEN at' = [at EXCEPT ![r] = "over"] /\ UNCHANGED <<time, seen>>
       ELSE /\ at' = [at EXCEPT ![r] = "put"]
            /\ time' = [time EXCEPT ![r] = now] /\ seen' = [seen EXCEPT ![r] = recent]
  /\ UNCHANGED <<now, hits, lock, held, admitted, late>>

\* The Put, or its failure, which refuses the request.
PutHits(r) ==
  /\ at[r] = "put"
  /\ \/ /\ hits' = seen[r] \union {<<r, time[r]>>} /\ at' = [at EXCEPT ![r] = "release"]
     \/ at' = [at EXCEPT ![r] = "failed"] /\ UNCHANGED hits
  /\ seen' = [seen EXCEPT ![r] = {}]
  /\ UNCHANGED <<now, lock, time, held, admitted, late>>

\* The lock is released, whoever has it by now, and the request is let in or not.
Release(r) ==
  /\ at[r] \in {"over", "release", "failed"}
  /\ lock' = 0 /\ held' = [held EXCEPT ![r] = 0]
  /\ IF at[r] = "release"
       THEN at' = [at EXCEPT ![r] = "in"] /\ admitted' = admitted \union {<<r, time[r]>>}
       ELSE at' = [at EXCEPT ![r] = "out"] /\ UNCHANGED admitted
  /\ UNCHANGED <<now, hits, time, seen, late>>

Working == {"read", "put", "release", "over", "failed"}
Crash(r) ==
  /\ at[r] \in Working
  /\ at' = [at EXCEPT ![r] = "out"] /\ held' = [held EXCEPT ![r] = 0]
  /\ seen' = [seen EXCEPT ![r] = {}]
  /\ UNCHANGED <<now, hits, lock, time, admitted, late>>

Tick ==
  LET Less(n) == IF n = 0 THEN 0 ELSE n - 1 IN
  /\ now < MaxTime /\ now' = now + 1
  /\ lock' = Less(lock) /\ held' = [r \in Requests |-> Less(held[r])]
  /\ late' = (late \/ \E r \in Requests : at[r] \in Working /\ held[r] = 1)
  /\ UNCHANGED <<hits, at, time, seen, admitted>>

Next ==
  \/ \E r \in Requests :
       Block(r) \/ ReadHits(r) \/ PutHits(r) \/ Release(r) \/ Crash(r)
  \/ Tick

Spec == Init /\ [][Next]_vars

\* No stretch of a window's length, wherever it starts, sees more requests of the
\* tenant let in than the limit, unless one of them outlasted its lock.
LimitHolds ==
  ~late => \A m \in Moments :
     Cardinality({h \in admitted : m <= h[2] /\ h[2] < m + Window}) <= Limit
=============================================================================
