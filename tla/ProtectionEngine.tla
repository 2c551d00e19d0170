-------------------------- MODULE ProtectionEngine --------------------------
(***************************************************************************)
(* The in-process protection engine (services/runtime/protection): circuit *)
(* breakers, the fixed rate window and the concurrency limit of one rule   *)
(* set, with the calls it admits, their completions, and the reloads that  *)
(* replace the rule set's published version under running calls.           *)
(*                                                                         *)
(* Every method of Engine runs under one mutex, so each is one action. No  *)
(* method of one rule set reads the state of another, so the module has    *)
(* one. It has the four kinds of rule: circuits in the order Circuits, one *)
(* rate window, one concurrency limit; and one rate-limit key. Clocks are  *)
(* ages, counted up to the duration that reads them.                       *)
(***************************************************************************)
EXTENDS Integers, Sequences, FiniteSets, SequencesExt

CONSTANTS
  Calls,               \* the callers of Evaluate, one decision at a time each
  Circuits,            \* the circuit rules of the set, in their order, each once
  SlowCircuit,         \* the circuit that judges slowness; others judge failure
  MinimumRequests, ThresholdPercent, StatisticalWindow,
  OpenDuration, HalfOpenProbes, HalfOpenSuccesses,
  Limit, RateWindow,   \* the rate rule
  MaxConcurrency,      \* the concurrency rule
  Toggled,             \* whether operators disable and enable the set
  MaxVersion           \* bound: published versions

\* As validation demands; percentages reach 100.
EngineAssumption ==
  /\ IsFiniteSet(Calls)
  /\ {MinimumRequests, ThresholdPercent, StatisticalWindow, OpenDuration, HalfOpenProbes,
      HalfOpenSuccesses, Limit, RateWindow, MaxConcurrency, MaxVersion} \subseteq Nat \ {0}
  /\ HalfOpenSuccesses <= HalfOpenProbes

VARIABLES
  published,   \* protection_rule_version: the latest version and whether enabled
  loaded,      \* the version in e.ruleSets; 0 when the set is not there
  circuit,     \* circuitRuntime of each circuit: its state, the age of openedAt,
               \* the samples, oldest first, halfOpenInFlight, halfOpenSuccesses
  window,      \* rateWindow: the age of its start and its count
  concurrency, \* e.concurrency of the set
  held,        \* e.completions: the version and probes each running call holds
  admits,      \* history: the loaded version's admissions no older than a window:
               \* their age, and their place in the window they were counted in
  disabled     \* history: an operator has disabled the set

vars == <<published, loaded, circuit, window, concurrency, held, admits, disabled>>

Kinds == ToSet(Circuits)
Idle == [version |-> 0, probes |-> {}]
Running(c) == held[c].version # 0
\* The running calls whose completion the engine will still account for.
Current == {c \in Calls : loaded # 0 /\ held[c].version = loaded}
Capped(n, max) == IF n < max THEN n ELSE max

Closed == [state |-> "CLOSED", openAge |-> 0, samples |-> <<>>,
           inFlight |-> 0, successes |-> 0]

Init ==
  /\ published = [version |-> 1, enabled |-> TRUE]
  /\ loaded = 1
  /\ circuit = [k \in Kinds |-> Closed]
  /\ window = [age |-> RateWindow, count |-> 0]
  /\ concurrency = 0
  /\ held = [c \in Calls |-> Idle]
  /\ admits = {}
  /\ disabled = FALSE

TypeOK ==
  /\ published \in [version : 1..MaxVersion, enabled : BOOLEAN]
  /\ loaded \in 0..published.version
  /\ DOMAIN circuit = Kinds
  /\ \A k \in Kinds :
       /\ circuit[k].state \in {"CLOSED", "OPEN", "HALF_OPEN"}
       /\ circuit[k].openAge \in 0..OpenDuration
       /\ circuit[k].samples \in
            Seq([age : 0..StatisticalWindow, failure : BOOLEAN, slow : BOOLEAN])
       /\ circuit[k].inFlight \in 0..HalfOpenProbes
       /\ circuit[k].successes \in 0..(HalfOpenSuccesses - 1)
  /\ window \in [age : 0..RateWindow, count : 0..Limit]
  /\ concurrency \in 0..MaxConcurrency
  /\ held \in [Calls -> [version : 0..MaxVersion, probes : SUBSET Kinds]]
  /\ admits \subseteq [age : 0..(RateWindow - 1), place : 1..Limit]
  /\ disabled \in BOOLEAN

-----------------------------------------------------------------------------
(***************************************************************************)
(* Evaluate                                                                *)
(***************************************************************************)

\* A circuit the evaluation moves from OPEN to HALF_OPEN when it looks at it.
Recovers(k) == circuit[k].state = "OPEN" /\ circuit[k].openAge >= OpenDuration
StateSeen(k) == IF Recovers(k) THEN "HALF_OPEN" ELSE circuit[k].state
ProbesSeen(k) == IF Recovers(k) THEN 0 ELSE circuit[k].inFlight
Blocks(k) == \/ StateSeen(k) = "OPEN"
             \/ StateSeen(k) = "HALF_OPEN" /\ ProbesSeen(k) >= HalfOpenProbes

\* The circuits an evaluation reaches: up to the first that blocks it.
Reached == {Circuits[i] : i \in {j \in DOMAIN Circuits :
              \A h \in 1..(j - 1) : ~Blocks(Circuits[h])}}
\* The half-open slots the evaluation takes, in circuits that do not block.
Probes == {k \in Reached : ~Blocks(k) /\ StateSeen(k) = "HALF_OPEN"}

\* What the evaluation leaves in the circuits it reached; `taken' are the slots
\* it keeps: none when it rejects (releaseHalfOpen), Probes when it admits.
LookAt(taken) ==
  circuit' = [k \in Kinds |->
    IF k \in Reached
      THEN [circuit[k] EXCEPT
              !.state = StateSeen(k),
              !.successes = IF Recovers(k) THEN 0 ELSE @,
              !.inFlight = ProbesSeen(k) + (IF k \in taken THEN 1 ELSE 0)]
      ELSE circuit[k]]

\* The rate window as the evaluation uses it: a new one when its time is over.
CurrentWindow == IF window.age >= RateWindow THEN [age |-> 0, count |-> 0]
                                             ELSE window

\* Variant: the window admits one call too many.
WindowFullOneLate == CurrentWindow.count > Limit
WindowFull == CurrentWindow.count >= Limit

RejectByCircuit ==
  /\ \E k \in Kinds : Blocks(k)
  /\ LookAt({})
  /\ UNCHANGED <<window, concurrency, held, admits>>

\* Variant: the slots it took are not released.
RejectByRateKeepsSlots ==
  /\ \A k \in Kinds : ~Blocks(k)
  /\ WindowFull
  /\ LookAt(Probes)
  /\ UNCHANGED <<window, concurrency, held, admits>>

RejectByRate ==
  /\ \A k \in Kinds : ~Blocks(k)
  /\ WindowFull
  /\ LookAt({})
  /\ UNCHANGED <<window, concurrency, held, admits>>

\* A call the concurrency limit rejects has used up a place in the window.
RejectByConcurrency ==
  /\ \A k \in Kinds : ~Blocks(k)
  /\ ~WindowFull
  /\ concurrency >= MaxConcurrency
  /\ LookAt({})
  /\ window' = [CurrentWindow EXCEPT !.count = @ + 1]
  /\ UNCHANGED <<concurrency, held, admits>>

Admit(c) ==
  /\ \A k \in Kinds : ~Blocks(k)
  /\ ~WindowFull
  /\ concurrency < MaxConcurrency
  /\ LookAt(Probes)
  /\ window' = [CurrentWindow EXCEPT !.count = @ + 1]
  /\ concurrency' = concurrency + 1
  /\ held' = [held EXCEPT ![c] = [version |-> loaded, probes |-> Probes]]
  /\ admits' = admits \union {[age |-> 0, place |-> window'.count]}

Evaluate(c) ==
  /\ ~Running(c) /\ loaded # 0
  /\ RejectByCircuit \/ RejectByRate \/ RejectByConcurrency \/ Admit(c)
  /\ UNCHANGED <<published, loaded, disabled>>

-----------------------------------------------------------------------------
(***************************************************************************)
(* RecordDecisionSuccess and RecordDecisionFailure                         *)
(***************************************************************************)

Counts(k, s) == IF k = SlowCircuit THEN s.slow ELSE s.failure

\* The samples of a closed circuit once a result is added, and whether they
\* trip it.
Recent(k, failure, slow) ==
  Append(SelectSeq(circuit[k].samples, LAMBDA s : s.age < StatisticalWindow),
         [age |-> 0, failure |-> failure, slow |-> slow])
Trips(k, recent) ==
  /\ Len(recent) >= MinimumRequests
  /\ Cardinality({i \in DOMAIN recent : Counts(k, recent[i])}) * 100
       >= ThresholdPercent * Len(recent)

Opened(recent) == [state |-> "OPEN", openAge |-> 0, samples |-> recent,
                   inFlight |-> 0, successes |-> 0]

\* What one result makes of one circuit. A half-open circuit judges every
\* circuit kind by failure alone, and takes any result as one of its probes'.
HalfOpenResult(k, failure) ==
  IF failure THEN Opened(circuit[k].samples)
  ELSE IF circuit[k].successes + 1 >= HalfOpenSuccesses THEN Closed
  ELSE [circuit[k] EXCEPT !.inFlight = IF @ > 0 THEN @ - 1 ELSE 0, !.successes = @ + 1]
ClosedResult(k, recent) ==
  IF Trips(k, recent) THEN Opened(recent) ELSE [circuit[k] EXCEPT !.samples = recent]

\* Variant: an open circuit samples late results too.
AfterResultWhileOpen(k, failure, slow) ==
  IF circuit[k].state = "HALF_OPEN" THEN HalfOpenResult(k, failure)
                            ELSE ClosedResult(k, Recent(k, failure, slow))
AfterResult(k, failure, slow) ==
  CASE circuit[k].state = "HALF_OPEN" -> HalfOpenResult(k, failure)
    [] circuit[k].state = "OPEN" -> circuit[k]
    [] circuit[k].state = "CLOSED" -> ClosedResult(k, Recent(k, failure, slow))

\* ruleSetVersionActive: a completion of a version no longer loaded is dropped.
\* Variant: it counts.
AccountedAlways(c) == TRUE
Accounted(c) == held[c].version = loaded

\* recordRuleSet
Record(c, failure, slow) ==
  /\ Running(c)
  /\ held' = [held EXCEPT ![c] = Idle]
  /\ IF Accounted(c)
     THEN /\ circuit' = [k \in Kinds |-> AfterResult(k, failure, slow)]
          /\ concurrency' = IF concurrency > 0 THEN concurrency - 1 ELSE 0
     ELSE UNCHANGED <<concurrency, circuit>>
  /\ UNCHANGED <<published, loaded, window, admits, disabled>>

Complete(c) == \E failure, slow \in BOOLEAN : Record(c, failure, slow)

-----------------------------------------------------------------------------
(***************************************************************************)
(* Publication and ReplaceRules                                            *)
(***************************************************************************)

\* Publish, Rollback: the set's next version, enabled as it was.
Publish ==
  /\ published.version < MaxVersion
  /\ published' = [published EXCEPT !.version = @ + 1]
  /\ UNCHANGED <<loaded, circuit, window, concurrency, held, admits, disabled>>

\* SetEnabled writes a new version too.
SetEnabled ==
  /\ Toggled
  /\ published.version < MaxVersion
  /\ published' = [version |-> published.version + 1, enabled |-> ~published.enabled]
  /\ disabled' = TRUE
  /\ UNCHANGED <<loaded, circuit, window, concurrency, held, admits>>

\* resetRuleSetRuntime, only when the set was loaded with another version.
ResetNeeded(version) == loaded # 0 /\ version # 0 /\ version # loaded

ReplaceRules ==
  LET version == IF published.enabled THEN published.version ELSE 0
      reset == ResetNeeded(version)
  IN
  /\ version # loaded
  /\ loaded' = version
  /\ concurrency' = IF reset \/ version = 0 THEN 0 ELSE concurrency
  /\ IF reset
     THEN /\ circuit' = [k \in Kinds |-> Closed]
          /\ window' = [age |-> RateWindow, count |-> 0]
     ELSE UNCHANGED <<circuit, window>>
  /\ admits' = {}
  /\ UNCHANGED <<published, held, disabled>>

Aged(samples) ==
  [i \in DOMAIN samples |-> [samples[i] EXCEPT !.age = Capped(@ + 1, StatisticalWindow)]]

Tick ==
  /\ circuit' = [k \in Kinds |-> [circuit[k] EXCEPT
       !.openAge = IF circuit[k].state = "OPEN" THEN Capped(@ + 1, OpenDuration) ELSE @,
       !.samples = Aged(@)]]
  /\ window' = [window EXCEPT !.age = Capped(@ + 1, RateWindow)]
  /\ admits' = {[a EXCEPT !.age = @ + 1] : a \in {b \in admits : b.age + 1 < RateWindow}}
  /\ UNCHANGED <<published, loaded, concurrency, held, disabled>>

Next ==
  \/ \E c \in Calls : Evaluate(c) \/ Complete(c)
  \/ Publish \/ SetEnabled \/ ReplaceRules \/ Tick

Spec == Init /\ [][Next]_vars

\* Time passes, traffic keeps arriving, admitted calls end, and an evaluation
\* older than five seconds reloads the rules.
Fairness ==
  /\ WF_vars(Tick) /\ WF_vars(ReplaceRules)
  /\ \A c \in Calls : WF_vars(Evaluate(c)) /\ WF_vars(Complete(c))
LiveSpec == Spec /\ Fairness

-----------------------------------------------------------------------------
(***************************************************************************)
(* Properties                                                              *)
(***************************************************************************)

\* The concurrency counter is the number of running calls the loaded version
\* admitted, through every reload: a call admitted by an older version neither
\* holds a place nor gives one back.
ConcurrencyIsLive == concurrency = Cardinality(Current)

\* No stretch of a window's length, wherever it starts, sees more than twice
\* the limit less one admission of one version.
RateBounded == Cardinality(admits) <= 2 * Limit - 1

\* Calls that end late do not prolong an outage: an open circuit's clock never
\* goes back while the circuit is open.
OutageNotProlonged ==
  [][\A k \in Kinds :
       circuit[k].state = "OPEN" /\ circuit'[k].state = "OPEN"
       => circuit'[k].openAge >= circuit[k].openAge]_vars

\* Every occupied probe slot is held by a running call that will give it back.
SlotsHeld ==
  \A k \in Kinds :
    circuit[k].inFlight <= Cardinality({c \in Current : k \in held[c].probes})

\* SlotsHeld, for a set that has never been disabled, however often it has been
\* published again under running probes.
SlotsHeldWhileEnabled == ~disabled => SlotsHeld

\* What the engine counts is true of the calls that run: places, probe slots, and
\* the admissions of a window.
CountsAreTrue == ConcurrencyIsLive /\ SlotsHeldWhileEnabled /\ RateBounded

\* A set that is enabled from some time on leaves HALF_OPEN again and again:
\* the cycle CLOSED, OPEN, HALF_OPEN does not end in HALF_OPEN.
HalfOpenIsLeft ==
  \A k \in Kinds : <>[](loaded # 0) => []<>(circuit[k].state # "HALF_OPEN")

=============================================================================
