---------------------------- MODULE ProviderHealth ----------------------------
(***************************************************************************)
(* Provider health: the circuit breaker and observation store of           *)
(* src/src/health.rs, together with everything in src/src/server.rs that   *)
(* writes to it concurrently: the background sampler, any number of        *)
(* /v1/router/providers handlers (both run check_providers_concurrently)   *)
(* and the outcome of live dispatches.                                     *)
(*                                                                         *)
(* Clock.  The store keeps unix seconds.  Every comparison it makes is of  *)
(* "now" with a stored second plus a constant, so the model keeps the age  *)
(* of each stored second instead, and stops counting once the comparison   *)
(* can no longer change: sinceOpened at OpenSecs, sinceObserved at Ttl+1.  *)
(* consecutiveFailures is likewise capped at Threshold, the only value it  *)
(* is compared with (the code's counter saturates at 2^32-1).              *)
(***************************************************************************)
EXTENDS Integers, FiniteSets

CONSTANTS
  Providers,   \* configured providers
  Checkers,    \* the sampler and the concurrent status requests
  Sampler,     \* the one checker that is never cancelled and always restarts
  Routed,      \* the providers that live dispatches reach
  Unprobed,    \* the providers whose adapter has no health_path to ask
  Threshold,   \* circuit_failure_threshold
  OpenSecs,    \* circuit_open_ms, rounded up to seconds
  Ttl,         \* observation_ttl_ms, rounded up to seconds
  ProbeSecs,   \* check_timeout_ms: second boundaries one probe can span
  MaxChecks    \* max_concurrent_checks

\* ProviderHealthSamplerConfig::validate requires each number to be positive
\* and relates none of them to another.
ASSUME ConfigAssumption ==
  /\ Sampler \in Checkers
  /\ IsFiniteSet(Providers)
  /\ Routed \subseteq Providers
  /\ Unprobed \subseteq Providers
  /\ Threshold \in Nat \ {0}
  /\ OpenSecs \in Nat \ {0}
  /\ Ttl \in Nat \ {0}
  /\ ProbeSecs \in Nat \ {0}
  /\ MaxChecks \in Nat \ {0}

VARIABLES
  circuitState,         \* Closed, Open or HalfOpen, per provider
  consecutiveFailures,
  probeInFlight,
  sinceOpened,          \* age of opened_unix_seconds
  observed,             \* status and penalty of the last observation
  sinceObserved,        \* age of observed_unix_seconds
  rested,               \* rested[c]: c may begin a run in the current second
  phase,                \* phase[c][p]: where checker c is with provider p
  probeAge              \* probeAge[c][p]: seconds c's probe of p has lasted

circuitVars == <<circuitState, consecutiveFailures, probeInFlight, sinceOpened>>
storeVars == <<circuitVars, observed, sinceObserved>>
vars == <<storeVars, rested, phase, probeAge>>

Never == -1
States == {"closed", "open", "half_open"}
Statuses == {"ok", "unknown", "error"}
\* "idle": not part of a run, or already reported; "queued": waiting for one of
\* the max_concurrent_checks slots; "probing": in check_provider.  The others are
\* the synchronous stretches between two acquisitions of the store's lock: after
\* a denial, and before the record that follows it or follows an Unknown result.
Phases == {"idle", "queued", "probing", "denied", "record_denied", "record_unknown"}

Lesser(a, b) == IF a <= b THEN a ELSE b

BasePenalty(s) == CASE s = "ok" -> 0 [] s = "unknown" -> 35 [] s = "error" -> 100

Fresh(p) == sinceObserved[p] # Never /\ sinceObserved[p] <= Ttl

Init ==
  /\ circuitState = [p \in Providers |-> "closed"]
  /\ consecutiveFailures = [p \in Providers |-> 0]
  /\ probeInFlight = [p \in Providers |-> FALSE]
  /\ sinceOpened = [p \in Providers |-> Never]
  /\ observed = [p \in Providers |-> [status |-> "unknown", penalty |-> 0]]
  /\ sinceObserved = [p \in Providers |-> Never]
  /\ rested = [c \in Checkers |-> TRUE]
  /\ phase = [c \in Checkers |-> [p \in Providers |-> "idle"]]
  /\ probeAge = [c \in Checkers |-> [p \in Providers |-> 0]]
-----------------------------------------------------------------------------
(* The store's two writers, each under one acquisition of its lock.         *)

Failures(p, s) ==
  IF s = "ok" THEN 0 ELSE Lesser(consecutiveFailures[p] + 1, Threshold)

Opens(p, s) ==
  /\ s # "ok"
  /\ circuitState[p] = "half_open" \/ Failures(p, s) >= Threshold

StateAfter(p, s) ==
  IF s = "ok" THEN "closed" ELSE IF Opens(p, s) THEN "open" ELSE circuitState[p]

OpenedAfter(p, s) ==
  IF s = "ok" THEN Never ELSE IF Opens(p, s) THEN 0 ELSE sinceOpened[p]

\* Mutant: the penalty is chosen before the circuit is updated.
Record_PenaltyFirst(p, s) ==
  /\ circuitState' = [circuitState EXCEPT ![p] = StateAfter(p, s)]
  /\ consecutiveFailures' = [consecutiveFailures EXCEPT ![p] = Failures(p, s)]
  /\ probeInFlight' = [probeInFlight EXCEPT ![p] = FALSE]
  /\ sinceOpened' = [sinceOpened EXCEPT ![p] = OpenedAfter(p, s)]
  /\ observed' = [observed EXCEPT ![p] =
       [status |-> s,
        penalty |-> IF circuitState[p] = "open" THEN 100 ELSE BasePenalty(s)]]
  /\ sinceObserved' = [sinceObserved EXCEPT ![p] = 0]

\* record_at: note that it clears probe_in_flight whoever the caller is.
Record(p, s) ==
  /\ circuitState' = [circuitState EXCEPT ![p] = StateAfter(p, s)]
  /\ consecutiveFailures' = [consecutiveFailures EXCEPT ![p] = Failures(p, s)]
  /\ probeInFlight' = [probeInFlight EXCEPT ![p] = FALSE]
  /\ sinceOpened' = [sinceOpened EXCEPT ![p] = OpenedAfter(p, s)]
  /\ observed' = [observed EXCEPT ![p] =
       [status |-> s,
        penalty |-> IF StateAfter(p, s) = "open" THEN 100 ELSE BasePenalty(s)]]
  /\ sinceObserved' = [sinceObserved EXCEPT ![p] = 0]

\* Mutant: a half-open circuit admits whoever asks.
Admits_IgnoresFlag(p) ==
  \/ circuitState[p] # "open"
  \/ sinceOpened[p] >= OpenSecs

\* should_probe_at: whether it admits a probe, and what admitting one changes.
Admits(p) ==
  \/ circuitState[p] = "closed"
  \/ circuitState[p] = "open" /\ sinceOpened[p] >= OpenSecs
  \/ circuitState[p] = "half_open" /\ ~probeInFlight[p]

Admit(p) ==
  /\ Admits(p)
  /\ IF circuitState[p] = "closed"
       THEN UNCHANGED <<circuitState, probeInFlight>>
       ELSE /\ circuitState' = [circuitState EXCEPT ![p] = "half_open"]
            /\ probeInFlight' = [probeInFlight EXCEPT ![p] = TRUE]
  /\ UNCHANGED <<consecutiveFailures, sinceOpened, observed, sinceObserved>>
-----------------------------------------------------------------------------
(* check_providers_concurrently.  All providers of one run are futures of   *)
(* one task: a step of one of them begins only while the others await.      *)

MoveTo(c, p, f) ==
  /\ phase' = [phase EXCEPT ![c][p] = f]
  /\ UNCHANGED rested

Yielded(c) ==
  \A p \in Providers :
    \/ phase[c][p] \in {"idle", "queued"}
    \/ phase[c][p] = "probing" /\ p \notin Unprobed

HasSlot(c) == Cardinality({p \in Providers : phase[c][p] = "probing"}) < MaxChecks

\* The sampler sleeps interval_ms between runs, taken to be a second or more.
\* The bound of a run a second is applied to the status requests too.
StartChecks(c) ==
  /\ rested[c]
  /\ \A p \in Providers : phase[c][p] = "idle"
  /\ rested' = [rested EXCEPT ![c] = FALSE]
  /\ phase' = [phase EXCEPT ![c] = [p \in Providers |-> "queued"]]
  /\ UNCHANGED <<storeVars, probeAge>>

BeginProbe(c, p) ==
  /\ phase[c][p] = "queued" /\ Yielded(c) /\ HasSlot(c)
  /\ Admit(p)
  /\ MoveTo(c, p, "probing")
  /\ probeAge' = [probeAge EXCEPT ![c][p] = 0]

Deny(c, p) ==
  /\ phase[c][p] = "queued" /\ Yielded(c) /\ HasSlot(c)
  /\ ~Admits(p)
  /\ MoveTo(c, p, "denied")
  /\ UNCHANGED <<storeVars, probeAge>>

\* Mutant: every denial is recorded as a failure.
AnswerDenied_AlwaysRecords(c, p) ==
  /\ phase[c][p] = "denied"
  /\ MoveTo(c, p, "record_denied")
  /\ UNCHANGED <<storeVars, probeAge>>

\* Mutant: a denial is answered from the last observation, however old.
AnswerDenied_ServesStale(c, p) ==
  /\ phase[c][p] = "denied"
  /\ MoveTo(c, p, IF sinceObserved[p] # Never THEN "idle" ELSE "record_denied")
  /\ UNCHANGED <<storeVars, probeAge>>

\* observation(): a fresh one is the answer, otherwise an Error is recorded.
AnswerDenied(c, p) ==
  /\ phase[c][p] = "denied"
  /\ MoveTo(c, p, IF Fresh(p) THEN "idle" ELSE "record_denied")
  /\ UNCHANGED <<storeVars, probeAge>>

RecordDenied(c, p) ==
  /\ phase[c][p] = "record_denied"
  /\ Record(p, "error")
  /\ MoveTo(c, p, "idle")
  /\ UNCHANGED probeAge

\* The provider answers Ok or Error, or the probe times out (also Error).
EndProbe(c, p, s) ==
  /\ phase[c][p] = "probing" /\ p \notin Unprobed /\ Yielded(c)
  /\ s \in {"ok", "error"}
  /\ Record(p, s)
  /\ MoveTo(c, p, "idle")
  /\ probeAge' = [probeAge EXCEPT ![c][p] = 0]

\* Unknown, at once (no health_path): a fresh observation is returned unrecorded.
EndProbeUnknown(c, p) ==
  /\ phase[c][p] = "probing" /\ p \in Unprobed
  /\ MoveTo(c, p, IF Fresh(p) THEN "idle" ELSE "record_unknown")
  /\ probeAge' = [probeAge EXCEPT ![c][p] = 0]
  /\ UNCHANGED storeVars

RecordUnknown(c, p) ==
  /\ phase[c][p] = "record_unknown"
  /\ Record(p, "unknown")
  /\ MoveTo(c, p, "idle")
  /\ UNCHANGED probeAge

\* A status request's client goes away: its handler is dropped at an await,
\* taking its probes with it and telling the store nothing.
Cancel(c) ==
  /\ c # Sampler /\ Yielded(c)
  /\ \E p \in Providers : phase[c][p] # "idle"
  /\ phase' = [phase EXCEPT ![c] = [p \in Providers |-> "idle"]]
  /\ probeAge' = [probeAge EXCEPT ![c] = [p \in Providers |-> 0]]
  /\ UNCHANGED <<storeVars, rested>>
-----------------------------------------------------------------------------
\* A live dispatch (or the body or stream it returned) succeeds or fails.
\* Dispatches are not gated by the circuit.
Dispatched(p, s) ==
  /\ p \in Routed
  /\ s \in {"ok", "error"}
  /\ Record(p, s)
  /\ UNCHANGED <<rested, phase, probeAge>>

Older(age, cap) == IF age = Never THEN Never ELSE Lesser(age + 1, cap)

\* A second passes, during no synchronous stretch.  No probe outlives
\* check_timeout: one that has lasted ProbeSecs has timed out by then.
Tick ==
  /\ \A c \in Checkers : Yielded(c)
  /\ \A c \in Checkers, p \in Providers :
       phase[c][p] = "probing" => probeAge[c][p] < ProbeSecs
  /\ sinceOpened' = [p \in Providers |-> Older(sinceOpened[p], OpenSecs)]
  /\ sinceObserved' = [p \in Providers |-> Older(sinceObserved[p], Ttl + 1)]
  /\ rested' = [c \in Checkers |-> TRUE]
  /\ probeAge' = [c \in Checkers |-> [p \in Providers |->
       IF phase[c][p] = "probing" THEN probeAge[c][p] + 1 ELSE probeAge[c][p]]]
  /\ UNCHANGED <<circuitState, consecutiveFailures, probeInFlight, observed, phase>>

CheckStep(c, p) ==
  \/ BeginProbe(c, p)
  \/ Deny(c, p)
  \/ AnswerDenied(c, p)
  \/ RecordDenied(c, p)
  \/ \E s \in Statuses : EndProbe(c, p, s)
  \/ EndProbeUnknown(c, p)
  \/ RecordUnknown(c, p)

Next ==
  \/ \E c \in Checkers : StartChecks(c) \/ Cancel(c)
  \/ \E c \in Checkers, p \in Providers : CheckStep(c, p)
  \/ \E p \in Providers, s \in Statuses : Dispatched(p, s)
  \/ Tick

Spec == Init /\ [][Next]_vars

\* The clock runs, the runtime polls every future that is ready, and the
\* sampler loops for ever.  Nothing makes a status request arrive or a
\* dispatch happen.
Fairness ==
  /\ WF_vars(Tick)
  /\ WF_vars(StartChecks(Sampler))
  /\ \A c \in Checkers, p \in Providers : WF_vars(CheckStep(c, p))

FairSpec == Spec /\ Fairness
-----------------------------------------------------------------------------
(* Properties.                                                              *)

\* Every variable keeps to its type and every count to its bound.
TypeOK ==
  /\ circuitState \in [Providers -> States]
  /\ consecutiveFailures \in [Providers -> 0 .. Threshold]
  /\ probeInFlight \in [Providers -> BOOLEAN]
  /\ sinceOpened \in [Providers -> Never .. OpenSecs]
  /\ observed \in [Providers -> [status : Statuses, penalty : {0, 35, 100}]]
  /\ sinceObserved \in [Providers -> Never .. Ttl + 1]
  /\ rested \in [Checkers -> BOOLEAN]
  /\ phase \in [Checkers -> [Providers -> Phases]]
  /\ probeAge \in [Checkers -> [Providers -> 0 .. ProbeSecs]]

\* While a circuit is half open at most one checker is asking the provider,
\* counting probes that began before it opened.  The flag alone does not give
\* this, since any record clears it; it holds only when check_timeout is shorter
\* than circuit_open (the defaults are 5 s and 30 s; nothing requires it).
SoleProbe ==
  ProbeSecs < OpenSecs =>
    \A p \in Providers, c, d \in Checkers :
      /\ circuitState[p] = "half_open"
      /\ phase[c][p] = "probing"
      /\ phase[d][p] = "probing"
      => c = d

\* The four fields of a circuit agree, whatever order probes, cancellations and
\* dispatches record in.  In particular a half-open circuit always has its flag
\* set, so the HalfOpen arm of should_probe that admits never runs and only a
\* record leaves that state.
CircuitCoherent ==
  \A p \in Providers :
    /\ circuitState[p] = "half_open" <=> probeInFlight[p]
    /\ circuitState[p] = "closed" <=> sinceOpened[p] = Never
    /\ circuitState[p] = "closed" <=> consecutiveFailures[p] < Threshold

\* The penalty the router reads is that of the circuit the checkers see: 100
\* until the circuit closes, the status's own penalty afterwards.
PenaltyMatchesCircuit ==
  \A p \in Providers :
    sinceObserved[p] # Never =>
      observed[p].penalty = IF circuitState[p] = "closed"
                              THEN BasePenalty(observed[p].status) ELSE 100

\* While an open circuit refuses probes, routing still sees a fresh observation
\* with the full penalty, if observation_ttl does not run out a full
\* second before circuit_open does.
OpenIsPenalized ==
  Ttl + 1 >= OpenSecs =>
    \A p \in Providers :
      circuitState[p] = "open" /\ ~Admits(p) => Fresh(p) /\ observed[p].penalty = 100

DispatchedTo(p) == \E s \in Statuses : Dispatched(p, s)

\* An open circuit is half-opened or closed again, once no dispatch records into
\* it (each failure recorded restarts circuit_open).
Recovers ==
  \A p \in Providers :
    (<>[][~DispatchedTo(p)]_vars) =>
      (circuitState[p] = "open" ~> circuitState[p] # "open")

\* A half-open circuit does not stay so, even when the probe it admitted was
\* cancelled or answered Unknown and nothing was recorded for it.
HalfOpenResolves ==
  \A p \in Providers :
    circuitState[p] = "half_open" ~> circuitState[p] # "half_open"
=============================================================================
