--------------------------- MODULE OperationProofs ---------------------------
(***************************************************************************)
(* What a router in operation relies on, for every value of the constants:  *)
(* the health of its providers (ProviderHealth), the evidence it was         *)
(* promoted with (Promotion) and the gate its deployment passed (Deployment). *)
(*                                                                         *)
(* ProviderHealth.  SoleProbe is not inductive: a probe that outlives a      *)
(* reopening could meet the next half-open one.  The missing fact is about   *)
(* time (ProbesPredateOpening): a probe still running while the circuit is   *)
(* open is at least as old as the opening, so when the circuit may half-open *)
(* every such probe has passed its timeout.                                  *)
(*                                                                         *)
(* Promotion.  Whatever is edited, cut or pasted, each report in an artifact *)
(* is that of live probes under the configuration of its fingerprint, made   *)
(* since its matrix began (Grounded); the checks of a gate turn that into    *)
(* what the pair promises.                                                   *)
(*                                                                         *)
(* Deployment.  A slot is with one worker or executed (Shared); the counters *)
(* of a window tell its rejections unless a restart reset them (Window); a   *)
(* ledger that lost an update holds less than it granted, for good           *)
(* (Reckoned).                                                               *)
(***************************************************************************)
EXTENDS ProviderHealth, Promotion, Deployment, FiniteSetTheorems, WellFoundedInduction, TLAPS

StoreTypeOK ==
  /\ circuitState \in [Providers -> States]
  /\ consecutiveFailures \in [Providers -> 0 .. Threshold]
  /\ probeInFlight \in [Providers -> BOOLEAN]
  /\ sinceOpened \in [Providers -> Never .. OpenSecs]
  /\ observed \in [Providers -> [status : Statuses, penalty : {0, 35, 100}]]
  /\ sinceObserved \in [Providers -> Never .. Ttl + 1]

\* A probe running while its circuit is open began before the circuit opened.
ProbesPredateOpening ==
  \A p \in Providers, c \in Checkers :
    circuitState[p] = "open" /\ phase[c][p] = "probing"
      => sinceOpened[p] <= probeAge[c][p]

\* An open circuit's observation is no older than its opening.
ObservedSinceOpening ==
  \A p \in Providers :
    circuitState[p] = "open" /\ sinceOpened[p] < OpenSecs
      => sinceObserved[p] \in 0 .. sinceOpened[p]

IInv ==
  /\ TypeOK
  /\ CircuitCoherent
  /\ PenaltyMatchesCircuit
  /\ ObservedSinceOpening
  /\ ProbesPredateOpening
  /\ SoleProbe
-----------------------------------------------------------------------------
(* What the store's operations preserve, whoever calls them.                *)

\* record_at keeps the store's types.
LEMMA RecordTypes ==
  ASSUME TypeOK, NEW p \in Providers, NEW s \in Statuses, Record(p, s)
  PROVE  StoreTypeOK'
<1> USE ConfigAssumption DEF TypeOK, StoreTypeOK, Record, States, Statuses, Never
<1>1. Failures(p, s) \in 0 .. Threshold
  BY DEF Failures, Lesser
<1>2. StateAfter(p, s) \in States
  BY DEF StateAfter
<1>3. OpenedAfter(p, s) \in Never .. OpenSecs
  BY DEF OpenedAfter
<1>4. BasePenalty(s) \in {0, 35, 100}
  BY DEF BasePenalty
<1>5. QED
  BY <1>1, <1>2, <1>3, <1>4

\* record_at leaves the circuit's fields agreeing, the penalty matching them,
\* and an open circuit observed no earlier than it opened.
LEMMA RecordCoheres ==
  ASSUME IInv, NEW p \in Providers, NEW s \in Statuses, Record(p, s)
  PROVE  (CircuitCoherent /\ PenaltyMatchesCircuit /\ ObservedSinceOpening)'
<1> USE ConfigAssumption DEF IInv, TypeOK, Record, States, Statuses, Never,
        Failures, Opens, StateAfter, OpenedAfter, Lesser
<1>1. CircuitCoherent'
  BY DEF CircuitCoherent
<1>2. PenaltyMatchesCircuit'
  BY DEF CircuitCoherent, PenaltyMatchesCircuit, BasePenalty
<1>3. ObservedSinceOpening'
  BY DEF CircuitCoherent, ObservedSinceOpening
<1>4. QED
  BY <1>1, <1>2, <1>3

\* A record by anybody, with no new probe, keeps the whole invariant: a circuit
\* it opens is younger than any probe, and it never half-opens one.
LEMMA RecordKeepsIInv ==
  ASSUME IInv, NEW p \in Providers, NEW s \in Statuses, Record(p, s),
         TypeOK',
         \A c \in Checkers, q \in Providers :
           phase'[c][q] = "probing"
             => phase[c][q] = "probing" /\ probeAge'[c][q] = probeAge[c][q]
  PROVE  IInv'
<1>1. (CircuitCoherent /\ PenaltyMatchesCircuit /\ ObservedSinceOpening)'
  BY RecordCoheres
<1>2. \A q \in Providers :
        /\ circuitState'[q] = "half_open" => circuitState[q] = "half_open"
        /\ circuitState'[q] = "open" =>
             \/ sinceOpened'[q] = 0
             \/ circuitState[q] = "open" /\ sinceOpened'[q] = sinceOpened[q]
  BY DEF IInv, TypeOK, CircuitCoherent, Record, StateAfter, OpenedAfter, Opens
<1>3. ProbesPredateOpening'
  <2> SUFFICES ASSUME NEW q \in Providers, NEW c \in Checkers,
                      circuitState'[q] = "open", phase'[c][q] = "probing"
               PROVE  sinceOpened'[q] <= probeAge'[c][q]
    BY DEF ProbesPredateOpening
  <2>1. probeAge'[c][q] \in 0 .. ProbeSecs
    BY DEF TypeOK
  <2>2. phase[c][q] = "probing" /\ probeAge'[c][q] = probeAge[c][q]
    OBVIOUS
  <2>3. CASE sinceOpened'[q] = 0
    BY <2>1, <2>3, ConfigAssumption
  <2>4. CASE circuitState[q] = "open" /\ sinceOpened'[q] = sinceOpened[q]
    BY <2>2, <2>4 DEF IInv, ProbesPredateOpening
  <2>5. QED
    BY <1>2, <2>3, <2>4
<1>4. SoleProbe'
  BY <1>2 DEF IInv, SoleProbe
<1>5. QED
  BY <1>1, <1>3, <1>4 DEF IInv
-----------------------------------------------------------------------------
\* The types: one step per action.
LEMMA TypeStep == TypeOK /\ [Next]_vars => TypeOK'
<1> SUFFICES ASSUME TypeOK, [Next]_vars PROVE TypeOK'
  OBVIOUS
<1> USE ConfigAssumption
<1>1. ASSUME NEW c \in Checkers, StartChecks(c) PROVE TypeOK'
  BY <1>1 DEF TypeOK, StartChecks, storeVars, circuitVars, Phases
<1>2. ASSUME NEW c \in Checkers, Cancel(c) PROVE TypeOK'
  BY <1>2 DEF TypeOK, Cancel, storeVars, circuitVars, Phases
<1>3. ASSUME NEW c \in Checkers, NEW p \in Providers, CheckStep(c, p) PROVE TypeOK'
  <2>1. CASE BeginProbe(c, p)
    <3>1. /\ circuitState' \in [Providers -> States]
          /\ probeInFlight' \in [Providers -> BOOLEAN]
      <4>1. CASE circuitState[p] = "closed"
        BY <2>1, <4>1 DEF TypeOK, BeginProbe, Admit
      <4>2. CASE circuitState[p] # "closed"
        <5>1. /\ circuitState' = [circuitState EXCEPT ![p] = "half_open"]
              /\ probeInFlight' = [probeInFlight EXCEPT ![p] = TRUE]
          BY <2>1, <4>2 DEF BeginProbe, Admit
        <5>2. QED
          BY <5>1 DEF TypeOK, States
      <4>3. QED
        BY <4>1, <4>2
    <3>2. phase' \in [Checkers -> [Providers -> Phases]] /\ UNCHANGED rested
      BY <2>1 DEF TypeOK, BeginProbe, MoveTo, Phases
    <3>3. probeAge' \in [Checkers -> [Providers -> 0 .. ProbeSecs]]
      BY <2>1 DEF TypeOK, BeginProbe
    <3>4. QED
      BY <2>1, <3>1, <3>2, <3>3 DEF TypeOK, BeginProbe, Admit
  <2>2. CASE Deny(c, p)
    BY <2>2 DEF TypeOK, Deny, MoveTo, Phases, storeVars, circuitVars
  <2>3. CASE AnswerDenied(c, p)
    BY <2>3 DEF TypeOK, AnswerDenied, MoveTo, Phases, storeVars, circuitVars
  <2>4. CASE RecordDenied(c, p)
    <3>1. StoreTypeOK'
      BY <2>4, RecordTypes DEF RecordDenied, Statuses
    <3>2. QED
      BY <2>4, <3>1 DEF TypeOK, StoreTypeOK, RecordDenied, MoveTo, Phases
  <2>5. ASSUME NEW s \in Statuses, EndProbe(c, p, s) PROVE TypeOK'
    <3>1. StoreTypeOK'
      BY <2>5, RecordTypes DEF EndProbe
    <3>2. QED
      BY <2>5, <3>1 DEF TypeOK, StoreTypeOK, EndProbe, MoveTo, Phases
  <2>6. CASE EndProbeUnknown(c, p)
    BY <2>6 DEF TypeOK, EndProbeUnknown, MoveTo, Phases, storeVars, circuitVars
  <2>7. CASE RecordUnknown(c, p)
    <3>1. StoreTypeOK'
      BY <2>7, RecordTypes DEF RecordUnknown, Statuses
    <3>2. QED
      BY <2>7, <3>1 DEF TypeOK, StoreTypeOK, RecordUnknown, MoveTo, Phases
  <2>8. QED
    BY <1>3, <2>1, <2>2, <2>3, <2>4, <2>5, <2>6, <2>7 DEF CheckStep
<1>4. ASSUME NEW p \in Providers, NEW s \in Statuses, Dispatched(p, s) PROVE TypeOK'
  <2>1. StoreTypeOK'
    BY <1>4, RecordTypes DEF Dispatched
  <2>2. QED
    BY <1>4, <2>1 DEF TypeOK, StoreTypeOK, Dispatched
<1>5. CASE Tick
  BY <1>5 DEF TypeOK, Tick, Older, Lesser, Never
<1>6. CASE UNCHANGED vars
  BY <1>6 DEF TypeOK, vars, storeVars, circuitVars
<1>7. QED
  BY <1>1, <1>2, <1>3, <1>4, <1>5, <1>6 DEF Next

\* Init satisfies the invariant.
LEMMA InitIInv == Init => IInv
<1> SUFFICES ASSUME Init PROVE IInv
  OBVIOUS
<1> USE ConfigAssumption DEF Init, Never, States, Statuses, Phases
<1>1. TypeOK
  BY DEF TypeOK
<1>2. CircuitCoherent /\ PenaltyMatchesCircuit /\ ObservedSinceOpening
  BY DEF CircuitCoherent, PenaltyMatchesCircuit, ObservedSinceOpening
<1>3. ProbesPredateOpening /\ SoleProbe
  BY DEF ProbesPredateOpening, SoleProbe
<1>4. QED
  BY <1>1, <1>2, <1>3 DEF IInv

\* Admitting a probe: the circuit is closed and stays so, or it half-opens when
\* every probe of the provider has had time to end.
LEMMA AdmitKeepsIInv ==
  ASSUME IInv, TypeOK', NEW c \in Checkers, NEW p \in Providers, BeginProbe(c, p)
  PROVE  IInv'
<1> USE ConfigAssumption
<1>1. \/ circuitState[p] = "closed" /\ UNCHANGED <<circuitState, probeInFlight>>
      \/ /\ circuitState[p] = "open" /\ sinceOpened[p] >= OpenSecs
         /\ circuitState' = [circuitState EXCEPT ![p] = "half_open"]
         /\ probeInFlight' = [probeInFlight EXCEPT ![p] = TRUE]
  BY DEF IInv, CircuitCoherent, BeginProbe, Admit, Admits
<1>2. (CircuitCoherent /\ PenaltyMatchesCircuit /\ ObservedSinceOpening)'
  <2> USE DEF IInv, CircuitCoherent, PenaltyMatchesCircuit, ObservedSinceOpening
  <2>1. UNCHANGED <<consecutiveFailures, sinceOpened, observed, sinceObserved>>
    BY DEF BeginProbe, Admit
  <2>2. CASE circuitState[p] = "closed" /\ UNCHANGED <<circuitState, probeInFlight>>
    BY <2>1, <2>2
  <2>3. CASE /\ circuitState[p] = "open"
             /\ circuitState' = [circuitState EXCEPT ![p] = "half_open"]
             /\ probeInFlight' = [probeInFlight EXCEPT ![p] = TRUE]
    <3>1. /\ circuitState'[p] = "half_open" /\ probeInFlight'[p]
          /\ \A q \in Providers : q # p =>
               circuitState'[q] = circuitState[q] /\ probeInFlight'[q] = probeInFlight[q]
      BY <2>3 DEF TypeOK
    <3>2. CircuitCoherent'
      BY <2>1, <2>3, <3>1
    <3>3. PenaltyMatchesCircuit' /\ ObservedSinceOpening'
      BY <2>1, <2>3, <3>1
    <3>4. QED
      BY <3>2, <3>3
  <2>4. QED
    BY <1>1, <2>2, <2>3
<1>3. /\ \A d \in Checkers, q \in Providers : <<d, q>> # <<c, p>> =>
           phase'[d][q] = phase[d][q] /\ probeAge'[d][q] = probeAge[d][q]
      /\ sinceOpened' = sinceOpened
      /\ \A q \in Providers : q # p => circuitState'[q] = circuitState[q]
      /\ circuitState'[p] # "open"
  BY <1>1 DEF IInv, TypeOK, BeginProbe, Admit, MoveTo
<1>4. ProbesPredateOpening'
  BY <1>3 DEF IInv, ProbesPredateOpening
<1>5. SoleProbe'
  <2>1. CASE circuitState[p] = "closed"
    BY <1>1, <1>3, <2>1 DEF IInv, SoleProbe
  <2>2. CASE circuitState[p] = "open" /\ sinceOpened[p] >= OpenSecs
    <3>1. ProbeSecs < OpenSecs => \A d \in Checkers : phase[d][p] # "probing"
      BY <2>2 DEF IInv, TypeOK, ProbesPredateOpening, Never
    <3>2. QED
      BY <1>3, <3>1 DEF IInv, SoleProbe
  <2>3. QED
    BY <1>1, <2>1, <2>2
<1>6. QED
  BY <1>2, <1>4, <1>5 DEF IInv

\* A step that leaves the store alone and begins no probe.
LEMMA StoreUntouched ==
  ASSUME IInv, TypeOK', UNCHANGED storeVars,
         \A c \in Checkers, q \in Providers :
           phase'[c][q] = "probing"
             => phase[c][q] = "probing" /\ probeAge'[c][q] = probeAge[c][q]
  PROVE  IInv'
BY DEF IInv, CircuitCoherent, PenaltyMatchesCircuit, ObservedSinceOpening,
       ProbesPredateOpening, SoleProbe, storeVars, circuitVars

\* A second passing ages an opening and the probes that predate it alike.
LEMMA TickKeepsIInv ==
  ASSUME IInv, TypeOK', Tick
  PROVE  IInv'
<1> USE ConfigAssumption DEF IInv, TypeOK, Tick, Older, Lesser, Never
<1>1. CircuitCoherent' /\ PenaltyMatchesCircuit'
  BY DEF CircuitCoherent, PenaltyMatchesCircuit
<1>2. ObservedSinceOpening'
  <2> SUFFICES ASSUME NEW p \in Providers,
                      circuitState'[p] = "open", sinceOpened'[p] < OpenSecs
               PROVE  sinceObserved'[p] \in 0 .. sinceOpened'[p]
    BY DEF ObservedSinceOpening
  <2>1. sinceOpened[p] \in 0 .. OpenSecs - 1 /\ sinceOpened'[p] = sinceOpened[p] + 1
    BY DEF CircuitCoherent
  <2>2. sinceObserved[p] \in 0 .. sinceOpened[p]
    BY <2>1 DEF ObservedSinceOpening
  <2>3. QED
    BY <2>1, <2>2
<1>3. ProbesPredateOpening'
  BY DEF ProbesPredateOpening, CircuitCoherent
<1>4. SoleProbe'
  BY DEF SoleProbe
<1>5. QED
  BY <1>1, <1>2, <1>3, <1>4

\* The invariant is inductive: one step per action.
LEMMA IInvStep == IInv /\ [Next]_vars => IInv'
<1> SUFFICES ASSUME IInv, [Next]_vars PROVE IInv'
  OBVIOUS
<1>0. TypeOK'
  BY TypeStep DEF IInv
<1>1. ASSUME NEW c \in Checkers, StartChecks(c) PROVE IInv'
  BY <1>0, <1>1, StoreUntouched DEF StartChecks, IInv, TypeOK
<1>2. ASSUME NEW c \in Checkers, Cancel(c) PROVE IInv'
  BY <1>0, <1>2, StoreUntouched DEF Cancel, IInv, TypeOK
<1>3. ASSUME NEW c \in Checkers, NEW p \in Providers, CheckStep(c, p) PROVE IInv'
  <2>1. CASE BeginProbe(c, p)
    BY <1>0, <2>1, AdmitKeepsIInv
  <2>2. CASE Deny(c, p)
    BY <1>0, <2>2, StoreUntouched DEF Deny, MoveTo, IInv, TypeOK
  <2>3. CASE AnswerDenied(c, p)
    BY <1>0, <2>3, StoreUntouched DEF AnswerDenied, MoveTo, IInv, TypeOK
  <2>4. CASE RecordDenied(c, p)
    BY <1>0, <2>4, RecordKeepsIInv DEF RecordDenied, MoveTo, IInv, TypeOK, Statuses
  <2>5. ASSUME NEW s \in Statuses, EndProbe(c, p, s) PROVE IInv'
    BY <1>0, <2>5, RecordKeepsIInv DEF EndProbe, MoveTo, IInv, TypeOK
  <2>6. CASE EndProbeUnknown(c, p)
    BY <1>0, <2>6, StoreUntouched DEF EndProbeUnknown, MoveTo, IInv, TypeOK
  <2>7. CASE RecordUnknown(c, p)
    BY <1>0, <2>7, RecordKeepsIInv DEF RecordUnknown, MoveTo, IInv, TypeOK, Statuses
  <2>8. QED
    BY <1>3, <2>1, <2>2, <2>3, <2>4, <2>5, <2>6, <2>7 DEF CheckStep
<1>4. ASSUME NEW p \in Providers, NEW s \in Statuses, Dispatched(p, s) PROVE IInv'
  BY <1>0, <1>4, RecordKeepsIInv DEF Dispatched
<1>5. CASE Tick
  BY <1>0, <1>5, TickKeepsIInv
<1>6. CASE UNCHANGED vars
  BY <1>0, <1>6, StoreUntouched DEF vars
<1>7. QED
  BY <1>1, <1>2, <1>3, <1>4, <1>5, <1>6 DEF Next
-----------------------------------------------------------------------------
\* Every reachable state has the types.
THEOREM TypeCorrect == Spec => []TypeOK
<1>1. Init => TypeOK
  BY InitIInv DEF IInv
<1>2. QED
  BY <1>1, TypeStep, PTL DEF Spec

LEMMA Invariance == Spec => []IInv
BY InitIInv, IInvStep, PTL DEF Spec

\* For every number of checkers and providers, and every configuration whose
\* probe timeout is shorter than its open window: a half-open circuit has at
\* most one probe running.
THEOREM SoleProbeHolds == Spec => []SoleProbe
<1>1. IInv => SoleProbe
  BY DEF IInv
<1>2. QED
  BY <1>1, Invariance, PTL

\* The circuit's fields agree in every reachable state: the HalfOpen arm of
\* should_probe that admits a second probe is dead code.
THEOREM CircuitCoherence == Spec => []CircuitCoherent
<1>1. IInv => CircuitCoherent
  BY DEF IInv
<1>2. QED
  BY <1>1, Invariance, PTL

\* The penalty read by routing is that of the circuit.
THEOREM PenaltyAgreement == Spec => []PenaltyMatchesCircuit
<1>1. IInv => PenaltyMatchesCircuit
  BY DEF IInv
<1>2. QED
  BY <1>1, Invariance, PTL

\* A circuit that refuses probes is penalised by a fresh observation.
THEOREM OpenPenalized == Spec => []OpenIsPenalized
<1>1. IInv => OpenIsPenalized
  BY ConfigAssumption DEF IInv, TypeOK, CircuitCoherent, PenaltyMatchesCircuit,
     ObservedSinceOpening, OpenIsPenalized, Admits, Fresh, Never
<1>2. QED
  BY <1>1, Invariance, PTL
-----------------------------------------------------------------------------
(* Promotion                                                                *)

\* The fingerprints of configurations, and of no artifact; and artifact files.
Prints == {<<>>} \cup UNION {{<<c, o>> : o \in Order[c]} : c \in Configs}
File == [schema : {1, 2}, at : Nat, print : Prints, reports : Seq(Report)]

\* The good probes of pair m of c at time t are in the log.
Logged(c, m, good, flaws, t, log) == \A g \in good : <<c, m, g, Had(g, flaws), t>> \in log

\* The log has the good probes of a report of a pair of c, of one time in span.
Shown(r, c, span, log) ==
  \E m \in c.models : \E good \in SUBSET Probes(c, m), flaws \in SUBSET Flaws :
    \E versions \in BOOLEAN, t \in span :
      /\ r = PairReport(c, m, good, flaws, versions)
      /\ Logged(c, m, good, flaws, t, log)

\* An artifact, or a part of one, of a matrix of c that began before time t.
Earned(file, c, t, log) ==
  /\ \E o \in Order[c] : file.print = <<c, o>>
  /\ file.at <= t
  /\ \A i \in DOMAIN file.reports : Shown(file.reports[i], c, file.at .. t, log)

\* Whatever is edited, cut or pasted: every report in the artifact, and in the one
\* under way, is of live probes since its matrix began.
Grounded ==
  /\ now \in Nat /\ config \in Configs
  /\ run \in [busy : BOOLEAN, config : Configs, todo : SUBSET Models, file : File]
  /\ artifact \in File
  /\ run.todo \subseteq run.config.models
  /\ run.busy => Earned(run.file, run.config, now, shown)
  /\ artifact # None => \E c \in Configs : Earned(artifact, c, now, shown)

\* Every report of a probed pair is a report.
LEMMA ReportTyped ==
  ASSUME NEW c \in Configs, NEW m \in c.models,
         NEW good \in SUBSET Probes(c, m), NEW flaws \in SUBSET Flaws, NEW versions \in BOOLEAN
  PROVE  PairReport(c, m, good, flaws, versions) \in Report
<1>1. m \in Models /\ c.paths[m] \subseteq Endpoints /\ c.declares[m] \subseteq Endpoints
      /\ c.supports[m] \subseteq Features /\ c.adapter[m] \subseteq Features
  BY ConformanceAssumption DEF ConformanceAssumption, Config
<1>2. Configured(c, m) \subseteq Endpoints
  BY <1>1 DEF Configured
<1>3. DeclaredFeatures(c, m) \subseteq Features
      /\ AttemptedFeatures(c, m) \subseteq Features
  BY <1>1 DEF DeclaredFeatures, AttemptedFeatures, Features,
    ChatFeatures
<1>4. PassingFeatures(c, m, good) \subseteq Features
  BY DEF PassingFeatures
<1>5. (versions /\ "chat" \in Configured(c, m)) \in BOOLEAN
  BY Zenon
<1>6. (/\ ChatPasses(Configured(c, m), good, flaws)
       /\ \A e \in Endpoints : EndpointPasses(e, Configured(c, m), good)
       /\ AttemptedFeatures(c, m) \subseteq PassingFeatures(c, m, good)) \in BOOLEAN
  BY Zenon
<1>7. Configured(c, m) \cap good \subseteq Endpoints
      /\ (Configured(c, m) \cap good) \ {e \in {"chat"} : "usage" \in flaws} \subseteq Endpoints
  BY <1>2
<1> HIDE DEF Report
<1> QED
  BY <1>1, <1>2, <1>3, <1>4, <1>5, <1>6, <1>7 DEF PairReport, Report

\* What was shown stays shown.
LEMMA EarnedLater ==
  ASSUME NEW c, NEW file \in File, NEW t \in Nat, NEW u \in Nat, t <= u, NEW log, NEW more,
         log \subseteq more, Earned(file, c, t, log)
  PROVE  Earned(file, c, u, more)
<1>1. file.at \in Nat /\ file.at <= t /\ file.at <= u
  BY DEF File, Earned
<1>2. file.at .. t \subseteq file.at .. u
  BY <1>1
<1>3. ASSUME NEW r, Shown(r, c, file.at .. t, log) PROVE Shown(r, c, file.at .. u, more)
  <2>1. PICK m \in c.models : \E good \in SUBSET Probes(c, m), flaws \in SUBSET Flaws :
          \E versions \in BOOLEAN, s \in file.at .. t :
            /\ r = PairReport(c, m, good, flaws, versions)
            /\ Logged(c, m, good, flaws, s, log)
    BY <1>3 DEF Shown
  <2>2. PICK good \in SUBSET Probes(c, m), flaws \in SUBSET Flaws,
             versions \in BOOLEAN, s \in file.at .. t :
          /\ r = PairReport(c, m, good, flaws, versions)
          /\ Logged(c, m, good, flaws, s, log)
    BY <2>1
  <2>3. s \in file.at .. u /\ Logged(c, m, good, flaws, s, more)
    BY <1>2, <2>2 DEF Logged
  <2> QED
    BY <2>2, <2>3 DEF Shown
<1> QED
  BY <1>1, <1>3 DEF Earned

\* Matrices, edits and gates keep the reports of live probes.
LEMMA GroundedInvariant == PromotionSpec => []Grounded
<1>1. PromotionInit => Grounded
  <2> SUFFICES ASSUME PromotionInit PROVE Grounded
    OBVIOUS
  <2>1. Any \in Configs
    BY DEF PromotionInit, Any
  <2>2. None \in File
    BY DEF None, File, Prints
  <2> QED
    BY <2>1, <2>2 DEF PromotionInit, Grounded, Idle
<1>2. Grounded /\ [PromotionNext]_promotionVars => Grounded'
  <2> SUFFICES ASSUME Grounded, [PromotionNext]_promotionVars PROVE Grounded'
    OBVIOUS
  <2>t. now \in Nat /\ config \in Configs /\ artifact \in File
        /\ run \in [busy : BOOLEAN, config : Configs, todo : SUBSET Models, file : File]
        /\ run.todo \subseteq run.config.models
    BY DEF Grounded
  <2>0. ASSUME now' \in Nat, now <= now', shown \subseteq shown'
        PROVE  /\ run.busy => Earned(run.file, run.config, now', shown')
               /\ artifact # None => \E c \in Configs : Earned(artifact, c, now', shown')
    <3>1. run.file \in File
      BY <2>t
    <3>2. ASSUME run.busy PROVE Earned(run.file, run.config, now', shown')
      <4>1. Earned(run.file, run.config, now, shown)
        BY <3>2 DEF Grounded
      <4> QED
        BY <4>1, <3>1, <2>0, <2>t, EarnedLater
    <3>3. ASSUME artifact # None PROVE \E c \in Configs : Earned(artifact, c, now', shown')
      <4>1. PICK c \in Configs : Earned(artifact, c, now, shown)
        BY <3>3 DEF Grounded
      <4>2. Earned(artifact, c, now', shown')
        BY <4>1, <2>0, <2>t, EarnedLater
      <4> QED
        BY <4>2
    <3> QED
      BY <3>2, <3>3
  <2>1. CASE UNCHANGED promotionVars
    BY <2>1 DEF promotionVars, Grounded
  <2>2. CASE Gate \/ Start
    BY <2>2 DEF Gate, Start, Grounded
  <2>3. CASE TimePasses
    <3>1. now' = now + 1 /\ UNCHANGED <<config, run, artifact, shown>>
      BY <2>3 DEF TimePasses
    <3> QED
      BY <2>0, <2>t, <3>1 DEF Grounded
  <2>4. CASE BeginMatrix
    <3>1. PICK order \in Order[config] :
            run' = [busy |-> TRUE, config |-> config, todo |-> config.models,
                    file |-> [schema |-> 2, at |-> now, print |-> <<config, order>>, reports |-> <<>>]]
      BY <2>4 DEF BeginMatrix, Fingerprint
    <3>2. UNCHANGED <<now, config, artifact, shown>>
      BY <2>4 DEF BeginMatrix
    <3>3. <<config, order>> \in Prints
      BY <2>t DEF Prints
    <3>4. [schema |-> 2, at |-> now, print |-> <<config, order>>, reports |-> <<>>] \in File
      BY <2>t, <3>3 DEF File
    <3>5. config.models \subseteq Models
      BY <2>t, ConformanceAssumption DEF ConformanceAssumption, Config
    <3>6. run' \in [busy : BOOLEAN, config : Configs, todo : SUBSET Models, file : File]
      BY <2>t, <3>1, <3>4, <3>5
    <3>7. run'.file.print = <<config, order>> /\ run'.file.at = now /\ run'.file.reports = <<>>
          /\ run'.config = config /\ run'.todo = config.models
      BY <3>1
    <3>8. Earned(run'.file, run'.config, now', shown')
      BY <2>t, <3>2, <3>7 DEF Earned
    <3> QED
      BY <2>t, <3>2, <3>6, <3>7, <3>8 DEF Grounded
  <2>5. CASE ProbePair
    <3> DEFINE m == CHOOSE n \in run.todo : TRUE
    <3>1. PICK good \in SUBSET Probes(run.config, m), versions \in BOOLEAN, flaws \in SUBSET Flaws :
            /\ run' = [run EXCEPT
                         !.todo = @ \ {m},
                         !.file.reports = Append(@, PairReport(run.config, m, good, flaws, versions))]
            /\ shown' = shown \cup {<<run.config, m, g, Had(g, flaws), now>> : g \in good}
      BY <2>5 DEF ProbePair
    <3> DEFINE r == PairReport(run.config, m, good, flaws, versions)
               c == run.config
               f == run.file
    <3>2. UNCHANGED <<now, config, artifact>> /\ run.busy /\ m \in run.todo
      BY <2>5 DEF ProbePair
    <3>3. m \in c.models
      BY <2>t, <3>2
    <3>4. r \in Report /\ c \in Configs /\ f \in File
      BY <2>t, <3>3, ReportTyped
    <3>5. shown \subseteq shown' /\ Logged(c, m, good, flaws, now, shown')
      BY <3>1 DEF Logged
    <3>6. Earned(f, c, now, shown')
      BY <2>0, <2>t, <3>2, <3>5
    <3>7. f.at \in Nat /\ f.reports \in Seq(Report) /\ f.at <= now
      BY <3>4, <3>6 DEF File, Earned
    <3>8. Shown(r, c, f.at .. now, shown')
      <4>1. now \in f.at .. now
        BY <3>7, <2>t
      <4> QED
        BY <4>1, <3>3, <3>5 DEF Shown
    <3> HIDE DEF m, r
    <3>9. /\ run'.busy = run.busy /\ run'.config = c /\ run'.todo = run.todo \ {m}
          /\ run'.file = [f EXCEPT !.reports = Append(f.reports, r)]
          /\ run' \in [busy : BOOLEAN, config : Configs, todo : SUBSET Models, file : File]
      <4> DEFINE one == [run EXCEPT !.todo = run.todo \ {m}]
                 g == [f EXCEPT !.reports = Append(f.reports, r)]
      <4>1. one.busy = run.busy /\ one.config = c /\ one.todo = run.todo \ {m} /\ one.file = f
            /\ one \in [busy : BOOLEAN, config : Configs, todo : SUBSET Models, file : File]
        BY <2>t
      <4>2. g \in File
        <5>1. Append(f.reports, r) \in Seq(Report)
          BY <3>4, <3>7
        <5>2. ASSUME NEW h \in File, NEW q \in Seq(Report) PROVE [h EXCEPT !.reports = q] \in File
          BY DEF File
        <5> QED
          BY <3>4, <5>1, <5>2
      <4>3. run' = [one EXCEPT !.file = g]
        BY <3>1, <4>1 DEF r
      <4> HIDE DEF one, g
      <4>4. /\ run'.busy = one.busy /\ run'.config = one.config /\ run'.todo = one.todo
            /\ run'.file = g
            /\ run' \in [busy : BOOLEAN, config : Configs, todo : SUBSET Models, file : File]
        BY <4>1, <4>2, <4>3
      <4> QED
        BY <4>1, <4>4 DEF g
    <3>10. /\ run'.file.at = f.at /\ run'.file.print = f.print
           /\ run'.file.reports = Append(f.reports, r)
      BY <3>9, <3>4 DEF File
    <3>11. \A i \in DOMAIN run'.file.reports : Shown(run'.file.reports[i], c, f.at .. now, shown')
      <4>1. \A i \in DOMAIN f.reports : Shown(f.reports[i], c, f.at .. now, shown')
        BY <3>6 DEF Earned
      <4> HIDE DEF c, f
      <4>2. DOMAIN run'.file.reports = 1 .. Len(f.reports) + 1 /\ DOMAIN f.reports = 1 .. Len(f.reports)
        BY <3>4, <3>7, <3>10
      <4>3. \A i \in 1 .. Len(f.reports) : run'.file.reports[i] = f.reports[i]
        BY <3>4, <3>7, <3>10
      <4>4. run'.file.reports[Len(f.reports) + 1] = r /\ Len(f.reports) \in Nat
        BY <3>4, <3>7, <3>10
      <4>5. \A i \in 1 .. Len(f.reports) + 1 : i \in 1 .. Len(f.reports) \/ i = Len(f.reports) + 1
        BY <4>4
      <4> QED
        BY <4>1, <4>2, <4>3, <4>4, <4>5, <3>8
    <3>12. Earned(run'.file, run'.config, now', shown')
      BY <3>2, <3>6, <3>7, <3>9, <3>10, <3>11 DEF Earned
    <3>13. artifact' # None => \E d \in Configs : Earned(artifact', d, now', shown')
      BY <2>0, <2>t, <3>2, <3>5
    <3> QED
      BY <2>t, <3>2, <3>9, <3>12, <3>13 DEF Grounded
  <2>6. CASE EndMatrix
    <3>1. artifact' = run.file /\ run' = Idle /\ run.busy /\ UNCHANGED <<now, config, shown>>
      BY <2>6 DEF EndMatrix
    <3>2. Idle \in [busy : BOOLEAN, config : Configs, todo : SUBSET Models, file : File]
      <4>1. Any \in Configs
        BY <2>t DEF Any
      <4>2. None \in File
        BY DEF None, File, Prints
      <4> QED
        BY <4>1, <4>2 DEF Idle
    <3>3. Idle.todo = {} /\ ~Idle.busy
      BY DEF Idle
    <3>4. Earned(artifact', run.config, now, shown)
      BY <3>1 DEF Grounded
    <3> QED
      BY <2>t, <3>1, <3>2, <3>3, <3>4 DEF Grounded
  <2>7. CASE Edit
    <3>1. UNCHANGED <<now, run, shown>>
      BY <2>7 DEF Edit
    <3>2. CASE config' \in Configs /\ UNCHANGED artifact
      BY <2>t, <3>1, <3>2 DEF Grounded
    <3>3. ASSUME UNCHANGED config, artifact.reports # <<>>,
                 NEW rest \in Seq(Report), artifact' = [artifact EXCEPT !.reports = rest],
                 \A i \in DOMAIN rest : \E j \in DOMAIN artifact.reports : rest[i] = artifact.reports[j]
          PROVE  Grounded'
      <4>1. artifact # None
        BY <3>3 DEF None
      <4>2. PICK c \in Configs : Earned(artifact, c, now, shown)
        BY <4>1 DEF Grounded
      <4>3. artifact' \in File /\ artifact'.at = artifact.at /\ artifact'.print = artifact.print
            /\ artifact'.reports = rest
        BY <2>t, <3>3 DEF File
      <4>4. Earned(artifact', c, now, shown)
        BY <3>3, <4>2, <4>3 DEF Earned
      <4> QED
        BY <2>t, <3>1, <3>3, <4>3, <4>4 DEF Grounded
    <3>4. artifact.reports \in Seq(Report)
      BY <2>t DEF File
    <3> DEFINE q == artifact.reports
    <3>5. CASE UNCHANGED config /\ q # <<>> /\ artifact' = [artifact EXCEPT !.reports = Tail(q)]
      <4>1. /\ Tail(q) \in Seq(Report)
            /\ \A i \in DOMAIN Tail(q) : i + 1 \in DOMAIN q /\ Tail(q)[i] = q[i + 1]
        BY <3>4, <3>5
      <4> QED
        BY <3>3, <3>5, <4>1
    <3>6. CASE UNCHANGED config /\ q # <<>> /\ artifact' = [artifact EXCEPT !.reports = Append(q, Head(q))]
      <4>1. Append(q, Head(q)) \in Seq(Report) /\ 1 \in DOMAIN q /\ Head(q) = q[1]
        BY <3>4, <3>6
      <4>2. \A i \in DOMAIN Append(q, Head(q)) : i \in DOMAIN q \/ i = Len(q) + 1
        BY <3>4, <4>1
      <4>3. \A i \in DOMAIN Append(q, Head(q)) : \E j \in DOMAIN q : Append(q, Head(q))[i] = q[j]
        BY <3>4, <4>1, <4>2
      <4> QED
        BY <3>3, <3>6, <4>1, <4>3
    <3>7. CASE UNCHANGED config /\ q # <<>> /\ artifact' = [artifact EXCEPT !.schema = 1]
      <4>1. artifact # None
        BY <3>7 DEF None
      <4>2. PICK c \in Configs : Earned(artifact, c, now, shown)
        BY <4>1 DEF Grounded
      <4>3. artifact' \in File /\ artifact'.at = artifact.at /\ artifact'.print = artifact.print
            /\ artifact'.reports = artifact.reports
        BY <2>t, <3>7 DEF File
      <4>4. Earned(artifact', c, now, shown)
        BY <4>2, <4>3 DEF Earned
      <4> QED
        BY <2>t, <3>1, <3>7, <4>3, <4>4 DEF Grounded
    <3> QED
      BY <2>7, <3>2, <3>5, <3>6, <3>7 DEF Edit
  <2> QED
    BY <2>1, <2>2, <2>3, <2>4, <2>5, <2>6, <2>7 DEF PromotionNext
<1> QED
  BY <1>1, <1>2, PTL DEF PromotionSpec
-----------------------------------------------------------------------------
\* Every set of numbers that is not empty has a least one.
LEMMA HasLeast ==
  ASSUME NEW S, S \subseteq Nat, S # {}
  PROVE  \E i \in S : \A j \in S : i <= j
<1> DEFINE Less == {ss \in Nat \X Nat : ss[1] < ss[2]}
<1>1. IsWellFoundedOn(Less, Nat)
  BY NatLessThanWellFounded DEF OpToRel
<1> HIDE DEF Less
<1>2. \E i \in S : \A j \in S : <<j, i>> \notin Less
  BY <1>1, WFMin
<1>3. ASSUME NEW i \in S, NEW j \in S, <<j, i>> \notin Less
      PROVE  i <= j
  <2>1. <<j, i>> \in Nat \X Nat /\ <<j, i>>[1] = j /\ <<j, i>>[2] = i
    OBVIOUS
  <2>2. ~(<<j, i>>[1] < <<j, i>>[2])
    BY <1>3, <2>1 DEF Less
  <2> QED BY <2>1, <2>2
<1> QED BY <1>2, <1>3

\* The last report of a pair is one of its reports.
LEMMA ReportFound ==
  ASSUME NEW reports \in Seq(Report), NEW m \in Pairs(reports)
  PROVE  \E i \in DOMAIN reports : ReportOf(reports, m) = reports[i] /\ reports[i].model = m
<1> DEFINE own == {i \in DOMAIN reports : reports[i].model = m}
           back == {n \in Nat : Len(reports) - n \in own}
           last(i) == /\ reports[i].model = m
                      /\ \A j \in DOMAIN reports : reports[j].model = m => j <= i
<1>1. DOMAIN reports = 1 .. Len(reports) /\ Len(reports) \in Nat
  OBVIOUS
<1>2. PICK i \in DOMAIN reports : reports[i].model = m
  BY DEF Pairs
<1>3. Len(reports) - i \in back
  BY <1>1, <1>2
<1>4. PICK n \in back : \A k \in back : n <= k
  BY <1>3, HasLeast
<1>5. last(Len(reports) - n) /\ Len(reports) - n \in DOMAIN reports
  <2>1. \A j \in own : Len(reports) - j \in back
    BY <1>1
  <2>2. \A j \in own : n <= Len(reports) - j
    BY <2>1, <1>4
  <2>3. \A j \in own : j <= Len(reports) - n
    BY <2>2, <1>1
  <2> QED
    BY <2>3, <1>4
<1>6. \E k \in DOMAIN reports : last(k)
  BY <1>5
<1>7. last(CHOOSE k \in DOMAIN reports : last(k)) /\ (CHOOSE k \in DOMAIN reports : last(k)) \in DOMAIN reports
  <2> HIDE DEF last
  <2> QED
    BY <1>6
<1>8. ReportOf(reports, m) = reports[CHOOSE k \in DOMAIN reports : last(k)]
  BY DEF ReportOf
<1> QED
  BY <1>7, <1>8

\* The report of a pair in an artifact that was earned.
LEMMA ReportShown ==
  ASSUME NEW file \in File, NEW c, NEW t, NEW log, Earned(file, c, t, log),
         NEW m \in Pairs(file.reports)
  PROVE  \E good \in SUBSET Probes(c, m), flaws \in SUBSET Flaws :
           \E versions \in BOOLEAN, s \in file.at .. t :
             /\ ReportOf(file.reports, m) = PairReport(c, m, good, flaws, versions)
             /\ ReportOf(file.reports, m) \in {file.reports[i] : i \in DOMAIN file.reports}
             /\ Logged(c, m, good, flaws, s, log)
<1>1. file.reports \in Seq(Report)
  BY DEF File
<1>2. PICK i \in DOMAIN file.reports : ReportOf(file.reports, m) = file.reports[i]
                                       /\ file.reports[i].model = m
  BY <1>1, ReportFound
<1>3. Shown(file.reports[i], c, file.at .. t, log)
  BY DEF Earned
<1>4. PICK n \in c.models : \E good \in SUBSET Probes(c, n), flaws \in SUBSET Flaws :
        \E versions \in BOOLEAN, s \in file.at .. t :
          /\ file.reports[i] = PairReport(c, n, good, flaws, versions)
          /\ Logged(c, n, good, flaws, s, log)
  BY <1>3 DEF Shown
<1>5. file.reports[i].model = n
  BY <1>4 DEF PairReport
<1> QED
  BY <1>2, <1>4, <1>5

\* An artifact that a gate passes shows what every pair of its configuration promises.
LEMMA GateVouches ==
  ASSUME NEW file \in File, NEW c \in Configs, NEW d \in Configs,
         NEW t \in Nat, NEW log, NEW order, NEW versions,
         Earned(file, d, t, log), Passes(c, Fingerprint(c, order), file, t, versions),
         NEW m \in c.models, NEW p \in Promises(c, m)
  PROVE  \E s \in 0 .. t : <<c, m, p, {}, s>> \in log /\ t - s <= MaxAge
<1>1. c = d
  BY DEF Passes, FreshEvidence, Fingerprint, Earned
<1>2. m \in Pairs(file.reports)
  BY DEF Passes
<1>3. PICK good \in SUBSET Probes(c, m), flaws \in SUBSET Flaws :
        \E v \in BOOLEAN, s \in file.at .. t :
          /\ ReportOf(file.reports, m) = PairReport(c, m, good, flaws, v)
          /\ Logged(c, m, good, flaws, s, log)
  BY <1>1, <1>2, ReportShown
<1>v. PICK v \in BOOLEAN, s \in file.at .. t :
        /\ ReportOf(file.reports, m) = PairReport(c, m, good, flaws, v)
        /\ Logged(c, m, good, flaws, s, log)
  BY <1>3
<1> DEFINE r == PairReport(c, m, good, flaws, v)
<1>4. r.pass /\ EndpointChecks(c, m, r) /\ FeatureChecks(c, m, r)
  BY <1>v DEF Passes, PairPasses
<1>5. p \in good
  <2>1. CASE p \in Configured(c, m)
    BY <2>1, <1>4 DEF EndpointChecks, PairReport
  <2>2. CASE p \in Advertised(c, m) /\ p # "audio"
    <3>1. p \in AttemptedFeatures(c, m) /\ p \in PassingFeatures(c, m, good)
      BY <2>2, <1>4 DEF FeatureChecks, PairReport
    <3> QED
      BY <3>1, <2>2 DEF PassingFeatures
  <2> QED
    BY <2>1, <2>2 DEF Promises
<1>6. Had(p, flaws) = {}
  <2>1. CASE p # "chat"
    BY <2>1 DEF Had
  <2>2. CASE p = "chat"
    <3>1. p \in Configured(c, m)
      BY <2>2 DEF Promises, Advertised, ChatFeatures
    <3>2. ChatPasses(Configured(c, m), good, flaws)
      BY <1>4 DEF PairReport
    <3> QED
      BY <2>2, <3>1, <3>2 DEF ChatPasses, Had
  <2> QED
    BY <2>1, <2>2
<1>7. file.at \in Nat /\ t - file.at <= MaxAge /\ MaxAge \in Nat
  BY PromotionAssumption DEF PromotionAssumption, File, Passes, FreshEvidence
<1>8. s \in 0 .. t /\ t - s <= MaxAge
  BY <1>v, <1>7
<1>9. <<c, m, p, Had(p, flaws), s>> \in log
  BY <1>v, <1>5 DEF Logged
<1> QED
  BY <1>6, <1>8, <1>9

\* What a router loads was shown, but for the flaws that the loader overlooks.
LEMMA LoadsShown ==
  ASSUME NEW file \in File, NEW c \in Configs, NEW d \in Configs, NEW t \in Nat, NEW log,
         Earned(file, d, t, log), Loads(c, file.schema, file.reports),
         NEW m \in c.models, NEW e \in c.declares[m]
  PROVE  \E s \in 0 .. t, had \in SUBSET Overlooked(file.schema) : <<d, m, e, had, s>> \in log
<1>1. m \in Pairs(file.reports)
  BY DEF Loads
<1>2. PICK good \in SUBSET Probes(d, m), flaws \in SUBSET Flaws :
        \E v \in BOOLEAN, s \in file.at .. t :
          /\ ReportOf(file.reports, m) = PairReport(d, m, good, flaws, v)
          /\ Logged(d, m, good, flaws, s, log)
  BY <1>1, ReportShown
<1>3. PICK v \in BOOLEAN, s \in file.at .. t :
        /\ ReportOf(file.reports, m) = PairReport(d, m, good, flaws, v)
        /\ Logged(d, m, good, flaws, s, log)
  BY <1>2
<1> DEFINE r == PairReport(d, m, good, flaws, v)
<1>4. e \in Verified(file.schema, r)
  BY <1>3 DEF Loads
<1>5. e \in good
  BY <1>4 DEF Verified, PairReport
<1>6. <<d, m, e, Had(e, flaws), s>> \in log
  BY <1>3, <1>5 DEF Logged
<1>7. Had(e, flaws) \in SUBSET Overlooked(file.schema)
  <2>1. CASE e # "chat" \/ file.schema = 1
    BY <2>1 DEF Had, Overlooked
  <2>2. CASE e = "chat" /\ file.schema # 1
    <3>1. "usage" \notin flaws
      BY <2>2, <1>4 DEF Verified, PairReport
    <3> QED
      BY <2>2, <3>1 DEF Had, Overlooked, Flaws
  <2> QED
    BY <2>1, <2>2
<1>8. s \in 0 .. t
  BY <1>3 DEF File
<1> QED
  BY <1>6, <1>7, <1>8

\* For any pairs, configurations, edits and clock, a gate of promotion.rs that passes
\* vouches for live probes: each thing a pair advertises was asked of its provider
\* under the configuration judged, no longer ago than MaxAge, with a good answer.
THEOREM PromotionIsLive == PromotionSpec => []PromotedIsLive
<1>1. PromotionInit => PromotedIsLive
  BY DEF PromotionInit, NoVerdict, PromotedIsLive
<1>2. Grounded /\ PromotedIsLive /\ [PromotionNext]_promotionVars => PromotedIsLive'
  <2> SUFFICES ASSUME Grounded, PromotedIsLive, [PromotionNext]_promotionVars
               PROVE  PromotedIsLive'
    OBVIOUS
  <2>1. CASE Gate
    <3>1. PICK order \in Order[config], versions \in BOOLEAN :
            verdict' = [by |-> "gate", config |-> config, print |-> Fingerprint(config, order),
                        at |-> now, versions |-> versions,
                        pass |-> Passes(config, Fingerprint(config, order), artifact, now, versions),
                        artifact |-> artifact]
      BY <2>1 DEF Gate
    <3>2. shown' = shown /\ artifact # None
      BY <2>1 DEF Gate
    <3>3. PICK d \in Configs : Earned(artifact, d, now, shown)
      BY <3>2 DEF Grounded
    <3>4. verdict'.config = config /\ verdict'.at = now
      BY <3>1
    <3>5. ASSUME verdict'.pass, NEW m \in config.models, NEW p \in Promises(config, m)
          PROVE  \E t \in 0 .. now : <<config, m, p, {}, t>> \in shown /\ now - t <= MaxAge
      <4>1. Passes(config, Fingerprint(config, order), artifact, now, versions)
        BY <3>1, <3>5
      <4> QED
        BY <4>1, <3>3, <3>5, GateVouches DEF Grounded
    <3> QED
      BY <3>2, <3>4, <3>5 DEF PromotedIsLive
  <2>2. CASE Start
    BY <2>2 DEF Start, PromotedIsLive
  <2>3. CASE UNCHANGED verdict /\ shown \subseteq shown'
    BY <2>3 DEF PromotedIsLive
  <2> QED
    BY <2>1, <2>2, <2>3 DEF PromotionNext, promotionVars, BeginMatrix, ProbePair,
      EndMatrix, Edit, TimePasses
<1> QED
  BY <1>1, <1>2, GroundedInvariant, PTL DEF PromotionSpec

\* What was shown stays so.
LEMMA ShownStays ==
  ASSUME now \in Nat, now' \in Nat, now <= now', shown \subseteq shown', NEW m, NEW e, NEW flaws,
         \E old \in Configs, t \in 0 .. now, had \in SUBSET flaws : <<old, m, e, had, t>> \in shown
  PROVE  \E old \in Configs, t \in 0 .. now', had \in SUBSET flaws : <<old, m, e, had, t>> \in shown'
<1>1. PICK old \in Configs, t \in 0 .. now, had \in SUBSET flaws : <<old, m, e, had, t>> \in shown
  OBVIOUS
<1>2. t \in 0 .. now' /\ <<old, m, e, had, t>> \in shown'
  BY <1>1
<1> QED
  BY <1>2

\* A router that starts with a conformance artifact (config.rs) declares no endpoint
\* that a live probe did not show good, whatever was edited or pasted since; only
\* the content type of chat may have been wrong, or its usage missing in schema 1.
THEOREM StartIsShown == PromotionSpec => []StartedIsShown
<1>1. PromotionInit => StartedIsShown
  BY DEF PromotionInit, NoVerdict, StartedIsShown
<1>2. Grounded /\ StartedIsShown /\ [PromotionNext]_promotionVars => StartedIsShown'
  <2> SUFFICES ASSUME Grounded, StartedIsShown, [PromotionNext]_promotionVars
               PROVE  StartedIsShown'
    OBVIOUS
  <2>1. CASE Start
    <3>1. /\ verdict'.config = config /\ verdict'.artifact = artifact
          /\ verdict'.pass = Loads(config, artifact.schema, artifact.reports)
          /\ shown' = shown /\ now' = now /\ artifact # None
      BY <2>1 DEF Start
    <3>2. PICK d \in Configs : Earned(artifact, d, now, shown)
      BY <3>1 DEF Grounded
    <3>3. ASSUME verdict'.pass, NEW m \in config.models, NEW e \in config.declares[m]
          PROVE  \E old \in Configs, t \in 0 .. now, had \in SUBSET Overlooked(artifact.schema) :
                   <<old, m, e, had, t>> \in shown
      <4>1. /\ artifact \in File /\ config \in Configs /\ now \in Nat
            /\ Loads(config, artifact.schema, artifact.reports)
        BY <3>1, <3>3 DEF Grounded
      <4>2. \E t \in 0 .. now, had \in SUBSET Overlooked(artifact.schema) : <<d, m, e, had, t>> \in shown
        BY <3>2, <3>3, <4>1, LoadsShown
      <4> QED
        BY <4>2
    <3> QED
      BY <3>1, <3>3 DEF StartedIsShown, ShownBut
  <2>2. CASE Gate
    BY <2>2 DEF Gate, StartedIsShown
  <2>3. CASE UNCHANGED verdict /\ shown \subseteq shown' /\ now \in Nat /\ now' \in Nat /\ now <= now'
    <3> SUFFICES ASSUME verdict'.by = "start", verdict'.pass,
                        NEW m \in verdict'.config.models, NEW e \in verdict'.config.declares[m]
                 PROVE  \E old \in Configs, t \in 0 .. now', had \in SUBSET Overlooked(verdict.artifact.schema) :
                          <<old, m, e, had, t>> \in shown'
      BY <2>3 DEF StartedIsShown, ShownBut
    <3>1. \E old \in Configs, t \in 0 .. now, had \in SUBSET Overlooked(verdict.artifact.schema) :
            <<old, m, e, had, t>> \in shown
      BY <2>3 DEF StartedIsShown, ShownBut
    <3> QED
      BY <2>3, <3>1, ShownStays
  <2>4. CASE BeginMatrix \/ ProbePair \/ EndMatrix \/ Edit
             \/ UNCHANGED promotionVars
    <3>1. UNCHANGED <<verdict, now>> /\ shown \subseteq shown'
      BY <2>4 DEF BeginMatrix, ProbePair, EndMatrix, Edit,
        promotionVars
    <3> QED
      BY <2>3, <3>1 DEF Grounded
  <2>5. CASE TimePasses
    BY <2>3, <2>5 DEF TimePasses, Grounded
  <2> QED
    BY <2>1, <2>2, <2>4, <2>5 DEF PromotionNext
<1> QED
  BY <1>1, <1>2, GroundedInvariant, PTL DEF PromotionSpec

-----------------------------------------------------------------------------
\* A report of a pair of c that passes has all that a gate asks of it under c.
LEMMA PassingReportPasses ==
  ASSUME NEW c \in Configs, NEW m \in c.models,
         NEW good \in SUBSET Probes(c, m), NEW flaws \in SUBSET Flaws, NEW v \in BOOLEAN,
         PairReport(c, m, good, flaws, v).pass
  PROVE  /\ EndpointChecks(c, m, PairReport(c, m, good, flaws, v))
         /\ FeatureChecks(c, m, PairReport(c, m, good, flaws, v))
<1>1. m \in Models /\ c.paths[m] \subseteq Endpoints /\ c.supports[m] \subseteq c.adapter[m]
      /\ c.adapter[m] \subseteq Features
  BY ConformanceAssumption DEF ConformanceAssumption, Config
<1>2. /\ ChatPasses(Configured(c, m), good, flaws)
      /\ \A e \in Endpoints : EndpointPasses(e, Configured(c, m), good)
      /\ AttemptedFeatures(c, m) \subseteq PassingFeatures(c, m, good)
  BY DEF PairReport
<1>3. Configured(c, m) \subseteq Endpoints
  BY <1>1 DEF Configured
<1>4. Configured(c, m) \subseteq good
  BY <1>2, <1>3 DEF EndpointPasses
<1>5. Advertised(c, m) \subseteq DeclaredFeatures(c, m) \cap AttemptedFeatures(c, m)
  BY <1>1 DEF Advertised, DeclaredFeatures, AttemptedFeatures,
    ChatFeatures, Features
<1>6. Advertised(c, m) \subseteq PassingFeatures(c, m, good)
  BY <1>2, <1>5
<1>7. EndpointChecks(c, m, PairReport(c, m, good, flaws, v))
  BY <1>2, <1>4 DEF EndpointChecks, PairReport, ChatPasses
<1>8. FeatureChecks(c, m, PairReport(c, m, good, flaws, v))
  BY <1>5, <1>6 DEF FeatureChecks, PairReport
<1> QED
  BY <1>7, <1>8

\* For any pairs, configurations, edits, clock and orders of the maps, a gate refuses
\* nothing that is fresh, complete, passing and of the fingerprint it computes.
THEOREM NothingFaultlessIsRefused == PromotionSpec => []SamePrintIsPromoted
<1>1. PromotionInit => SamePrintIsPromoted
  BY DEF PromotionInit, NoVerdict, SamePrintIsPromoted, Faultless
<1>2. Grounded /\ SamePrintIsPromoted /\ [PromotionNext]_promotionVars => SamePrintIsPromoted'
  <2> SUFFICES ASSUME Grounded, SamePrintIsPromoted, [PromotionNext]_promotionVars
               PROVE  SamePrintIsPromoted'
    OBVIOUS
  <2>1. CASE Gate
    <3>1. PICK order \in Order[config], versions \in BOOLEAN :
            verdict' = [by |-> "gate", config |-> config, print |-> Fingerprint(config, order),
                        at |-> now, versions |-> versions,
                        pass |-> Passes(config, Fingerprint(config, order), artifact, now, versions),
                        artifact |-> artifact]
      BY <2>1 DEF Gate
    <3>2. artifact # None
      BY <2>1 DEF Gate
    <3>3. /\ verdict'.config = config /\ verdict'.at = now /\ verdict'.versions = versions
          /\ verdict'.artifact = artifact /\ verdict'.print = Fingerprint(config, order)
          /\ verdict'.pass = Passes(config, Fingerprint(config, order), artifact, now, versions)
      BY <3>1
    <3>4. PICK d \in Configs : Earned(artifact, d, now, shown)
      BY <3>2 DEF Grounded
    <3>5. ASSUME Faultless(verdict'), verdict'.artifact.print = verdict'.print
          PROVE  Passes(config, Fingerprint(config, order), artifact, now, versions)
      <4>1. /\ artifact.schema = 2 /\ artifact.print = <<config, order>>
            /\ now - artifact.at <= MaxAge
            /\ ~Duplicated(artifact.reports) /\ Pairs(artifact.reports) = config.models
            /\ \A i \in DOMAIN artifact.reports :
                 artifact.reports[i].pass /\ (versions => artifact.reports[i].versions)
        BY <3>3, <3>5 DEF Faultless, Fingerprint
      <4>2. d = config
        BY <3>4, <4>1 DEF Earned
      <4>3. FreshEvidence(artifact, Fingerprint(config, order), now)
        BY <3>4, <4>1, <4>2 DEF FreshEvidence, Fingerprint, Earned
      <4>4. ASSUME NEW m \in config.models
            PROVE  PairPasses(config, m, ReportOf(artifact.reports, m), versions)
        <5> DEFINE r == ReportOf(artifact.reports, m)
        <5>0. artifact \in File /\ Earned(artifact, config, now, shown) /\ m \in Pairs(artifact.reports)
          BY <3>4, <4>1, <4>2, <4>4 DEF Grounded
        <5>1. PICK good \in SUBSET Probes(config, m), flaws \in SUBSET Flaws, v \in BOOLEAN :
                /\ r = PairReport(config, m, good, flaws, v)
                /\ r \in {artifact.reports[i] : i \in DOMAIN artifact.reports}
          <6>1. PICK good \in SUBSET Probes(config, m), flaws \in SUBSET Flaws :
                  \E v \in BOOLEAN, s \in artifact.at .. now :
                    /\ ReportOf(artifact.reports, m) = PairReport(config, m, good, flaws, v)
                    /\ ReportOf(artifact.reports, m) \in {artifact.reports[i] : i \in DOMAIN artifact.reports}
                    /\ Logged(config, m, good, flaws, s, shown)
            BY <5>0, ReportShown
          <6> QED
            BY <6>1
        <5>2. r.pass /\ (versions => r.versions)
          BY <4>1, <5>1
        <5>3. EndpointChecks(config, m, r) /\ FeatureChecks(config, m, r)
          BY <4>4, <5>1, <5>2, PassingReportPasses DEF Grounded
        <5> QED
          BY <5>2, <5>3 DEF PairPasses
      <4> QED
        BY <4>1, <4>3, <4>4 DEF Passes
    <3> QED
      BY <3>3, <3>5 DEF SamePrintIsPromoted
  <2>2. CASE Start
    BY <2>2 DEF Start, SamePrintIsPromoted, Faultless
  <2>3. CASE UNCHANGED verdict
    BY <2>3 DEF SamePrintIsPromoted
  <2> QED
    BY <2>1, <2>2, <2>3 DEF PromotionNext, promotionVars, BeginMatrix, ProbePair,
      EndMatrix, Edit, TimePasses
<1> QED
  BY <1>1, <1>2, GroundedInvariant, PTL DEF PromotionSpec
-----------------------------------------------------------------------------
(* Deployment                                                               *)

\* As long as the window is open and the target was not restarted in it, its counter
\* of rejections tells whether there was one; what the gate concluded from it stays.
Window ==
  /\ target \in [candidate : BOOLEAN, queue : [admitted : Nat, rejected : Nat]]
  /\ scrape \in [admitted : Nat, rejected : Nat]
  /\ pc \in {"preflight", "before"} => ~rejected /\ ~reset
  /\ InWindow /\ ~reset =>
       /\ scrape.rejected <= target.queue.rejected
       /\ rejected <=> (scrape.rejected < target.queue.rejected)
  /\ pc \in {"preflight", "before", "warmup", "workload", "after"} => "queue" \notin report
  /\ "queue" \in report /\ ~reset => ~rejected

\* Every step of the gate, its target and the clients keeps what the counters tell.
LEMMA WindowInvariant == DeploymentSpec => []Window
<1>1. DeploymentInit => Window
  BY DEF DeploymentInit, Window, Counters, Zero,
    InWindow
<1>2. Window /\ [DeploymentNext]_deploymentVars => Window'
  <2> SUFFICES ASSUME Window, [DeploymentNext]_deploymentVars PROVE Window'
    OBVIOUS
  <2> USE DEF Window, InWindow
  <2>1. CASE UNCHANGED deploymentVars
    BY <2>1 DEF deploymentVars, targets
  <2>2. CASE Queue
    <3>1. target'.candidate = target.candidate
          /\ target' \in [candidate : BOOLEAN, queue : [admitted : Nat, rejected : Nat]]
      BY <2>2 DEF Queue, Scraped
    <3>2. \/ target'.queue.rejected = target.queue.rejected /\ UNCHANGED rejected
          \/ target'.queue.rejected = target.queue.rejected + 1 /\ rejected' = (rejected \/ InWindow)
      BY <2>2 DEF Queue, Scraped
    <3>3. pc' = pc /\ scrape' = scrape /\ report' = report /\ reset' = reset
      BY <2>2 DEF Queue, Scraped
    <3>4. target.queue.rejected \in Nat /\ scrape.rejected \in Nat
      OBVIOUS
    <3>5. pc \in {"preflight", "before", "warmup", "workload", "after"}
      BY <2>2 DEF Queue, Scraped
    <3>6. pc \in {"preflight", "before"} => ~rejected' /\ ~reset'
      BY <3>2, <3>3
    <3>7. InWindow /\ ~reset =>
            /\ scrape.rejected <= target'.queue.rejected
            /\ rejected' <=> (scrape.rejected < target'.queue.rejected)
      <4>1. CASE target'.queue.rejected = target.queue.rejected /\ UNCHANGED rejected
        BY <4>1
      <4>2. CASE target'.queue.rejected = target.queue.rejected + 1 /\ rejected' = (rejected \/ InWindow)
        <5>1. InWindow => rejected'
          BY <4>2
        <5>2. InWindow /\ ~reset => scrape.rejected < target'.queue.rejected
          BY <4>2, <3>4
        <5>3. InWindow /\ ~reset => scrape.rejected <= target'.queue.rejected
          BY <4>2, <3>4
        <5> QED
          BY <5>1, <5>2, <5>3
      <4> QED
        BY <3>2, <4>1, <4>2
    <3>8. "queue" \notin report
      BY <3>5
    <3>10. target' \in [candidate : BOOLEAN, queue : [admitted : Nat, rejected : Nat]]
           /\ scrape' \in [admitted : Nat, rejected : Nat]
      BY <3>1, <3>3
    <3>11. pc' \in {"preflight", "before"} => ~rejected' /\ ~reset'
      BY <3>3, <3>6
    <3>12. InWindow' /\ ~reset' =>
            /\ scrape'.rejected <= target'.queue.rejected
            /\ rejected' <=> (scrape'.rejected < target'.queue.rejected)
      BY <3>3, <3>7
    <3>13. "queue" \notin report'
      BY <3>3, <3>8
    <3> QED
      BY <3>10, <3>11, <3>12, <3>13
  <2>3. CASE Restart
    <3>1. /\ pc' = pc /\ scrape' = scrape /\ report' = report /\ rejected' = rejected
          /\ reset' = (reset \/ InWindow)
      BY <2>3 DEF Restart
    <3>2. target' \in [candidate : BOOLEAN, queue : [admitted : Nat, rejected : Nat]]
      BY <2>3 DEF Restart, Zero
    <3>3. reset' <=> (reset \/ InWindow)
      BY <3>1
    <3>4. /\ pc' \in {"preflight", "before"} => ~rejected' /\ ~reset'
          /\ "queue" \in report' /\ ~reset' => ~rejected'
          /\ ~(InWindow' /\ ~reset')
      BY <3>1, <3>3
    <3> QED
      BY <3>1, <3>2, <3>4
  <2>4. CASE Preflight \/ Warmup \/ Boundary \/ EndAccounting
             \/ RollingRestart \/ EndWorkload
    BY <2>4 DEF Preflight, Warmup, Boundary, EndAccounting,
      RollingRestart, EndWorkload, targets
  <2>9. CASE EndContention \/ CorruptWorker \/ FreshWorker
    BY <2>9 DEF EndContention, CorruptWorker, FreshWorker, others, targets
  <2>10. CASE WorkerFails
    BY <2>10 DEF WorkerFails, others, targets
  <2>5. CASE ScrapeBefore
    BY <2>5 DEF ScrapeBefore, targets
  <2>6. CASE ScrapeAfter
    BY <2>6 DEF ScrapeAfter, targets, QueuePasses, Since
  <2>7. CASE \E w \in Workers : TakeSlot(w) \/ Sample(w)
    BY <2>7 DEF TakeSlot, Sample, targets
  <2>8. CASE \E p \in Processes : Reserve(p) \/ StorageError(p)
                           \/ LossyRead(p) \/ LossyWrite(p)
    <3>1. pc = "accounting" /\ UNCHANGED <<pc, scrape, report, targets>>
      BY <2>8 DEF Reserve, StorageError, LossyRead, LossyWrite, Contending, others
    <3> QED
      BY <3>1 DEF targets
  <2> QED
    BY <2>1, <2>2, <2>3, <2>4, <2>5, <2>6, <2>7, <2>8, <2>9, <2>10 DEF DeploymentNext
<1> QED
  BY <1>1, <1>2, PTL DEF DeploymentSpec

\* However many clients use the queue: when deployment-live-gate passes and the target
\* was not restarted between its two scrapes, nothing was rejected between them.
THEOREM NoRejectionHidden == DeploymentSpec => []RejectionsSeen
<1>1. Window => RejectionsSeen
  BY DEF Window, RejectionsSeen, GatePasses, Parts
<1> QED
  BY <1>1, WindowInvariant, PTL

-----------------------------------------------------------------------------
\* How often slot s was executed, by a count like served.
Total(count, s) == count[s].good + count[s].bad
Busy(w) == worker[w].at = "busy"

\* Every slot that was taken is with one worker or was executed once, and no other
\* slot was executed; a worker that is done found none left.
Shared ==
  /\ next \in Nat
  /\ worker \in [Workers -> [at : {"free", "busy", "done"}, slot : Nat]]
  /\ served \in [Slots -> [good : Nat, bad : Nat]]
  /\ \A w \in Workers : Busy(w) =>
       worker[w].slot \in Slots /\ worker[w].slot < next /\ Total(served, worker[w].slot) = 0
  /\ \A v, w \in Workers : Busy(v) /\ Busy(w) /\ worker[v].slot = worker[w].slot => v = w
  /\ \A w \in Workers : worker[w].at = "done" => TotalSlots <= next
  /\ \A s \in Slots : s < next => Total(served, s) = 1 \/ \E w \in Workers : Busy(w) /\ worker[w].slot = s
  /\ \A s \in Slots : next <= s => Total(served, s) = 0
  /\ SlotsOnce

\* Taking a slot and sampling it keep the workers apart.
LEMMA SharedInvariant == DeploymentSpec => []Shared
<1> USE DeploymentAssumption DEF DeploymentAssumption
<1>1. DeploymentInit => Shared
  BY DEF DeploymentInit, Shared, Free, Slots, Busy, Total, SlotsOnce, AfterWorkload
<1>2. Shared /\ [DeploymentNext]_deploymentVars => Shared'
  <2> SUFFICES ASSUME Shared, [DeploymentNext]_deploymentVars PROVE Shared'
    OBVIOUS
  <2>0. ASSUME UNCHANGED workload, pc \notin AfterWorkload => pc' \notin AfterWorkload
        PROVE  Shared'
    BY <2>0 DEF Shared, workload, Busy, Total, Slots, SlotsOnce
  <2>1. CASE UNCHANGED deploymentVars
    BY <2>0, <2>1 DEF deploymentVars
  <2>2. CASE Queue \/ Restart \/ Preflight \/ ScrapeBefore
             \/ Warmup \/ ScrapeAfter
             \/ Boundary \/ EndAccounting \/ RollingRestart
    BY <2>0, <2>2 DEF Queue, Restart, Preflight, ScrapeBefore,
      Warmup, ScrapeAfter, Boundary, EndAccounting,
      RollingRestart, AfterWorkload
  <2>7. CASE EndContention \/ CorruptWorker \/ FreshWorker \/ WorkerFails
    BY <2>0, <2>7 DEF EndContention, CorruptWorker, FreshWorker, WorkerFails, others, AfterWorkload
  <2>3. CASE EndWorkload
    <3>1. UNCHANGED workload /\ \A w \in Workers : worker[w].at = "done"
      BY <2>3 DEF EndWorkload
    <3>2. TotalSlots <= next
      BY <3>1 DEF Shared
    <3>3. \A s \in Slots : Total(served, s) = 1
      BY <3>1, <3>2 DEF Shared, Busy, Slots
    <3>4. \A s \in Slots : served'[s].good + served'[s].bad = 1
      BY <3>1, <3>3 DEF Total, workload
    <3>5. SlotsOnce'
      BY <3>4 DEF SlotsOnce, Slots
    <3> QED
      BY <3>1, <3>5 DEF Shared, workload, Busy, Total, Slots
  <2>4. ASSUME NEW u \in Workers, TakeSlot(u) PROVE Shared'
    <3> DEFINE new == Taken(next)
    <3>1. pc = "workload" /\ pc' = "workload" /\ UNCHANGED served /\ next' = next + 1 /\ next \in Nat
      BY <2>4 DEF TakeSlot, Shared
    <3>2. new \in [at : {"free", "busy", "done"}, slot : Nat] /\ new.slot = next
          /\ (new.at = "busy" <=> next \in Slots) /\ (new.at = "done" <=> next >= TotalSlots)
      BY <3>1 DEF Taken, Slots
    <3>3. worker' = [worker EXCEPT ![u] = new] /\ worker[u].at = "free"
      BY <2>4 DEF TakeSlot
    <3> HIDE DEF new
    <3>4. worker' \in [Workers -> [at : {"free", "busy", "done"}, slot : Nat]]
      BY <3>2, <3>3 DEF Shared
    <3>5. worker'[u] = new /\ \A w \in Workers \ {u} : worker'[w] = worker[w]
      BY <3>3 DEF Shared
    <3>6. \A s \in Slots : Total(served', s) = Total(served, s) /\ s \in Nat
      BY <3>1 DEF Total, Slots
    <3>7. \A w \in Workers \ {u} : (Busy(w)' <=> Busy(w)) /\ worker'[w].slot = worker[w].slot
      BY <3>5 DEF Busy
    <3>8. ~Busy(u) /\ (Busy(u)' <=> next \in Slots) /\ worker'[u].slot = next
      BY <3>2, <3>3, <3>5 DEF Busy
    <3>9. \A w \in Workers : Busy(w)' =>
            worker'[w].slot \in Slots /\ worker'[w].slot < next' /\ Total(served', worker'[w].slot) = 0
      <4> SUFFICES ASSUME NEW w \in Workers, Busy(w)'
                   PROVE worker'[w].slot \in Slots /\ worker'[w].slot < next' /\ Total(served', worker'[w].slot) = 0
        OBVIOUS
      <4>1. CASE w = u
        <5>1. next \in Slots /\ Total(served, next) = 0
          BY <4>1, <3>1, <3>8 DEF Shared
        <5> QED
          BY <5>1, <4>1, <3>1, <3>6, <3>8
      <4>2. CASE w # u
        <5>1. worker[w].slot \in Slots /\ worker[w].slot < next /\ Total(served, worker[w].slot) = 0
          BY <4>2, <3>7 DEF Shared
        <5> QED
          BY <5>1, <4>2, <3>1, <3>6, <3>7
      <4> QED
        BY <4>1, <4>2
    <3>10. \A v, w \in Workers : Busy(v)' /\ Busy(w)' /\ worker'[v].slot = worker'[w].slot => v = w
      <4>1. \A w \in Workers \ {u} : Busy(w)' => worker'[w].slot # next
        <5>1. \A w \in Workers : Busy(w) => worker[w].slot \in Nat /\ worker[w].slot < next
          BY <3>6 DEF Shared
        <5> QED
          BY <5>1, <3>1, <3>7
      <4>2. \A v, w \in Workers : Busy(v) /\ Busy(w) /\ worker[v].slot = worker[w].slot => v = w
        BY DEF Shared
      <4> QED
        BY <4>1, <4>2, <3>7, <3>8
    <3>11. \A w \in Workers : worker'[w].at = "done" => TotalSlots <= next'
      <4>1. \A w \in Workers : worker[w].at = "done" => TotalSlots <= next
        BY DEF Shared
      <4> QED
        BY <4>1, <3>1, <3>2, <3>5
    <3>12. \A s \in Slots : s < next' =>
                              (Total(served', s) = 1 \/ \E w \in Workers : Busy(w)' /\ worker'[w].slot = s)
      <4> SUFFICES ASSUME NEW s \in Slots, s < next'
                   PROVE Total(served', s) = 1 \/ \E w \in Workers : Busy(w)' /\ worker'[w].slot = s
        OBVIOUS
      <4>1. CASE s = next
        BY <4>1, <3>8
      <4>2. CASE s # next
        <5>1. s < next
          BY <4>2, <3>1, <3>6
        <5>2. Total(served, s) = 1 \/ \E w \in Workers : Busy(w) /\ worker[w].slot = s
          BY <5>1 DEF Shared
        <5> QED
          BY <5>2, <3>6, <3>7, <3>8
      <4> QED
        BY <4>1, <4>2
    <3>13. \A s \in Slots : next' <= s => Total(served', s) = 0
      <4>1. \A s \in Slots : next' <= s => next <= s
        BY <3>1, <3>6
      <4>2. \A s \in Slots : next <= s => Total(served, s) = 0
        BY DEF Shared
      <4> QED
        BY <4>1, <4>2, <3>6
    <3>14. SlotsOnce'
      BY <3>1 DEF SlotsOnce, AfterWorkload
    <3>15. served' \in [Slots -> [good : Nat, bad : Nat]] /\ next' \in Nat
      BY <3>1 DEF Shared
    <3> QED
      BY <3>4, <3>9, <3>10, <3>11, <3>12, <3>13, <3>14, <3>15 DEF Shared, Busy, Total, Slots
  <2>5. ASSUME NEW u \in Workers, Sample(u) PROVE Shared'
    <3> DEFINE t == worker[u].slot
    <3>1. pc = "workload" /\ pc' = "workload" /\ UNCHANGED next /\ next \in Nat
      BY <2>5 DEF Sample, Shared
    <3>2. Busy(u) /\ t \in Slots /\ t < next /\ Total(served, t) = 0
      BY <2>5 DEF Sample, Shared, Busy
    <3>3. served' \in [Slots -> [good : Nat, bad : Nat]]
          /\ (\A s \in Slots \ {t} : served'[s] = served[s])
          /\ served'[t].good + served'[t].bad = served[t].good + served[t].bad + 1
      <4>1. PICK result \in {"good", "bad"} : served' = [served EXCEPT ![t][result] = @ + 1]
        BY <2>5 DEF Sample
      <4>2. served[t] \in [good : Nat, bad : Nat] /\ served \in [Slots -> [good : Nat, bad : Nat]]
        BY <3>2 DEF Shared
      <4>3. CASE result = "good"
        BY <4>1, <4>2, <4>3, <3>2
      <4>4. CASE result = "bad"
        BY <4>1, <4>2, <4>4, <3>2
      <4> QED
        BY <4>3, <4>4
    <3>4. worker' = [worker EXCEPT ![u] = Free]
      BY <2>5 DEF Sample
    <3>5. worker' \in [Workers -> [at : {"free", "busy", "done"}, slot : Nat]]
          /\ worker'[u].at = "free" /\ \A w \in Workers \ {u} : worker'[w] = worker[w]
      BY <3>4 DEF Shared, Free
    <3>6. Total(served', t) = 1 /\ \A s \in Slots \ {t} : Total(served', s) = Total(served, s)
      BY <3>2, <3>3 DEF Total
    <3>7. \A w \in Workers \ {u} : (Busy(w)' <=> Busy(w)) /\ worker'[w].slot = worker[w].slot
      BY <3>5 DEF Busy
    <3>8. ~Busy(u)'
      BY <3>5 DEF Busy
    <3>9. \A w \in Workers : Busy(w)' =>
            worker'[w].slot \in Slots /\ worker'[w].slot < next' /\ Total(served', worker'[w].slot) = 0
      <4>1. \A w \in Workers \ {u} : Busy(w) => (worker[w].slot \in Slots \ {t}
                /\ worker[w].slot < next /\ Total(served, worker[w].slot) = 0)
        BY <3>2 DEF Shared
      <4> HIDE DEF t
      <4> QED
        BY <4>1, <3>1, <3>6, <3>7, <3>8
    <3>10. \A v, w \in Workers : Busy(v)' /\ Busy(w)' /\ worker'[v].slot = worker'[w].slot => v = w
      <4>2. \A v, w \in Workers : Busy(v) /\ Busy(w) /\ worker[v].slot = worker[w].slot => v = w
        BY DEF Shared
      <4> QED
        BY <4>2, <3>7, <3>8
    <3>11. \A w \in Workers : worker'[w].at = "done" => TotalSlots <= next'
      BY <3>1, <3>5 DEF Shared
    <3>12. \A s \in Slots : s < next' =>
                              (Total(served', s) = 1 \/ \E w \in Workers : Busy(w)' /\ worker'[w].slot = s)
      <4> SUFFICES ASSUME NEW s \in Slots, s < next, s # t
                   PROVE Total(served', s) = 1 \/ \E w \in Workers : Busy(w)' /\ worker'[w].slot = s
        BY <3>1, <3>6
      <4>2. Total(served, s) = 1 \/ \E w \in Workers : Busy(w) /\ worker[w].slot = s
        BY DEF Shared
      <4> QED
        BY <4>2, <3>6, <3>7
    <3>13. \A s \in Slots : next' <= s => Total(served', s) = 0
      <4>1. \A s \in Slots : next <= s => Total(served, s) = 0 /\ s # t
        BY <3>1, <3>2 DEF Shared, Slots
      <4> QED
        BY <4>1, <3>1, <3>6
    <3>14. SlotsOnce'
      BY <3>1 DEF SlotsOnce, AfterWorkload
    <3> QED
      BY <3>1, <3>3, <3>5, <3>9, <3>10, <3>11, <3>12, <3>13, <3>14 DEF Shared, Busy, Total,
        Slots
  <2>6. CASE \E p \in Processes : Reserve(p) \/ StorageError(p)
                           \/ LossyRead(p) \/ LossyWrite(p)
    BY <2>0, <2>6 DEF Reserve, StorageError, LossyRead, LossyWrite, Contending, others
  <2> QED
    BY <2>1, <2>2, <2>3, <2>4, <2>5, <2>6, <2>7 DEF DeploymentNext
<1> QED
  BY <1>1, <1>2, PTL DEF DeploymentSpec

\* For any number of workers and slots: when the workload is over each slot was
\* executed exactly once, whichever workers took them from the shared counter.
THEOREM EverySlotOnce == DeploymentSpec => []SlotsOnce
<1>1. Shared => SlotsOnce
  BY DEF Shared
<1> QED
  BY <1>1, SharedInvariant, PTL
-----------------------------------------------------------------------------
\* The attempts that are still to be made, one pair for each.
Ahead(left) == {u \in Processes \X (1 .. Attempts) : u[2] <= left[u[1]].left}
Budgeted == Cardinality(Processes) * Attempts
Made == tally.ok + tally.over + tally.error

\* As long as no reservation failed: a ledger that lost nothing holds what was granted,
\* and refused only when it was full; one that lost an update holds less.  A count that
\* was read and is no longer in the ledger is less than what was granted since.
Kept ==
  /\ \A p \in Processes : process[p].read < Limit =>
       /\ process[p].left > 0 /\ process[p].read <= tally.ok
       /\ process[p].read # ledger => process[p].read < tally.ok
  /\ ~lost => ledger = tally.ok
  /\ lost => ledger < tally.ok
  /\ tally.over > 0 /\ ~lost => ledger = Limit
Reckoned ==
  /\ ledger \in 0 .. Limit
  /\ tally \in [ok : Nat, over : Nat, error : Nat]
  /\ process \in [Processes -> [left : 0 .. Attempts, read : 0 .. Limit]]
  /\ Made + Cardinality(Ahead(process)) = Budgeted
  /\ tally.error = 0 => Kept

\* What the workers on the corrupted and on the restored ledger found, and what the
\* probe concluded, when it has.
Concluded ==
  /\ pc \in {"corrupted", "restored", "judge"} => \A p \in Processes : process[p].left = 0
  /\ fresh.outcome = "over" =>
       pc \in {"judge", "restart", "report"} /\ fresh = [outcome |-> "over", count |-> ledger]
  /\ IF pc \in {"restart", "report"} THEN ProbeFindsLoss ELSE "accounting" \notin report

\* What is assumed of the processes, with their cardinality.
LEMMA ProcessesFinite ==
  /\ IsFiniteSet(Processes) /\ Cardinality(Processes) \in Nat
  /\ Cardinality(Processes) >= 2
  /\ Limit \in Nat /\ Limit >= Cardinality(Processes)
BY DeploymentAssumption, FS_CardinalityType DEF DeploymentAssumption

\* The attempts are at least twice the limit.
LEMMA AttemptsEnough ==
  Attempts \in Nat /\ Budgeted \in Nat /\ 2 * Limit <= Budgeted
<1> DEFINE P == Cardinality(Processes)
           n == 2 * Limit + P - 1
<1>1. P \in Nat /\ P >= 2 /\ Limit \in Nat
  BY ProcessesFinite
<1>2. n \in Nat /\ Attempts = n \div P
  BY <1>1, ProcessesFinite DEF Attempts
<1>3. Budgeted = P * Attempts
  BY DEF Budgeted
<1> HIDE DEF P, n
<1>4. n = P * (n \div P) + (n % P) /\ n \div P \in Nat /\ n % P \in 0 .. P - 1
  BY <1>1, <1>2
<1>5. P * (n \div P) \in Nat
  BY <1>1, <1>4
<1>6. n < P * (n \div P) + P
  BY <1>1, <1>2, <1>4, <1>5
<1>7. 2 * Limit <= P * (n \div P)
  BY <1>1, <1>2, <1>5, <1>6 DEF n
<1> QED
  BY <1>2, <1>3, <1>4, <1>5, <1>7

\* The attempts ahead are finitely many.
LEMMA AheadFinite ==
  ASSUME NEW left
  PROVE  IsFiniteSet(Ahead(left)) /\ Cardinality(Ahead(left)) \in Nat
<1>1. IsFiniteSet(1 .. Attempts)
  BY AttemptsEnough, FS_Interval
<1>2. IsFiniteSet(Processes \X (1 .. Attempts))
  BY <1>1, ProcessesFinite, FS_Product
<1>3. Ahead(left) \subseteq Processes \X (1 .. Attempts)
  BY DEF Ahead
<1> QED
  BY <1>2, <1>3, FS_Subset, FS_CardinalityType

\* An attempt is one less ahead and one more made.
LEMMA OneAttempt ==
  ASSUME Reckoned, NEW p \in Processes, NEW outcome \in {"ok", "over",
         "error"},
         process[p].left > 0, Attempt(p, outcome)
  PROVE  /\ process' \in [Processes -> [left : 0 .. Attempts, read : 0 .. Limit]]
         /\ process'[p].read = Limit
         /\ \A q \in Processes \ {p} : process'[q] = process[q]
         /\ tally' = [tally EXCEPT ![outcome] = @ + 1]
         /\ tally' \in [ok : Nat, over : Nat, error : Nat]
         /\ Made' + Cardinality(Ahead(process')) = Budgeted
<1> DEFINE L == process[p].left
<1>1. L \in 1 .. Attempts /\ Attempts \in Nat /\ Limit \in Nat
  BY AttemptsEnough, ProcessesFinite DEF Reckoned
<1>2. process' = [process EXCEPT ![p].left = @ - 1, ![p].read = Limit]
  BY DEF Attempt
<1>3. process[p] \in [left : 0 .. Attempts, read : 0 .. Limit]
      /\ process \in [Processes -> [left : 0 .. Attempts, read : 0 .. Limit]]
  BY DEF Reckoned
<1>4. process' \in [Processes -> [left : 0 .. Attempts, read : 0 .. Limit]]
  <2> DEFINE one == [process EXCEPT ![p].left = L - 1]
  <2>1. one = [process EXCEPT ![p] = [process[p] EXCEPT !.left = L - 1]]
    OBVIOUS
  <2>2. [process[p] EXCEPT !.left = L - 1] \in [left : 0 .. Attempts, read : 0 .. Limit]
    BY <1>1, <1>3
  <2>3. one \in [Processes -> [left : 0 .. Attempts, read : 0 .. Limit]]
    BY <2>1, <2>2, <1>3
  <2>4. process' = [one EXCEPT ![p].read = Limit]
    BY <1>2
  <2> HIDE DEF one
  <2>5. process' = [one EXCEPT ![p] = [one[p] EXCEPT !.read = Limit]]
    BY <2>4
  <2>6. [one[p] EXCEPT !.read = Limit] \in [left : 0 .. Attempts, read : 0 .. Limit]
    BY <1>1, <2>3
  <2> QED
    BY <2>3, <2>5, <2>6
<1>5. \A q \in Processes \ {p} : process'[q] = process[q]
  BY <1>2, <1>3
<1>6. process'[p].read = Limit /\ process'[p].left = L - 1
  BY <1>2, <1>3
<1>7. tally' = [tally EXCEPT ![outcome] = @ + 1]
  BY DEF Attempt
<1>8. tally' \in [ok : Nat, over : Nat, error : Nat] /\ Made' = Made + 1 /\ Made \in Nat
  BY <1>7 DEF Reckoned, Made
<1>9. Ahead(process') = Ahead(process) \ {<<p, L>>}
  <2>1. ASSUME NEW u \in Processes \X (1 .. Attempts)
        PROVE  u[2] <= process'[u[1]].left <=> u[2] <= process[u[1]].left /\ u # <<p, L>>
    <3>1. u[1] \in Processes /\ u[2] \in 1 .. Attempts /\ u = <<u[1], u[2]>>
      OBVIOUS
    <3>2. CASE u[1] # p
      BY <3>1, <3>2, <1>5
    <3>3. CASE u[1] = p
      <4>1. u[2] <= L - 1 <=> u[2] <= L /\ u[2] # L
        BY <3>1, <1>1
      <4>2. u # <<p, L>> <=> u[2] # L
        BY <3>1, <3>3
      <4> QED
        BY <4>1, <4>2, <3>3, <1>6
    <3> QED
      BY <3>2, <3>3
  <2> QED
    BY <2>1 DEF Ahead
<1>10. <<p, L>> \in Ahead(process)
  BY <1>1 DEF Ahead
<1>11. Cardinality(Ahead(process')) = Cardinality(Ahead(process)) - 1
  <2>1. IsFiniteSet(Ahead(process))
    BY AheadFinite
  <2>2. Cardinality(Ahead(process) \ {<<p, L>>}) = Cardinality(Ahead(process)) - 1
    <3>1. ASSUME NEW S, IsFiniteSet(S), NEW x \in S PROVE Cardinality(S \ {x}) = Cardinality(S) - 1
      BY <3>1, FS_RemoveElement
    <3> QED
      BY <2>1, <1>10, <3>1
  <2> QED
    BY <2>2, <1>9
<1>12. Made' + Cardinality(Ahead(process')) = Budgeted
  <2>1. Made + Cardinality(Ahead(process)) = Budgeted /\ Cardinality(Ahead(process)) \in Nat
    BY AheadFinite DEF Reckoned
  <2> QED
    BY <2>1, <1>8, <1>11
<1> QED
  BY <1>4, <1>5, <1>6, <1>7, <1>8, <1>12

\* At first all of them are ahead.
LEMMA AllAhead ==
  Cardinality(Processes \X (1 .. Attempts)) = Budgeted
<1>1. ASSUME NEW n \in Nat PROVE IsFiniteSet(1 .. n) /\ Cardinality(1 .. n) = n
  <2>1. n \in Int /\ 1 \in Int /\ (1 > n => n = 0)
    OBVIOUS
  <2> QED
    BY <2>1, FS_Interval
<1>2. IsFiniteSet(1 .. Attempts) /\ Cardinality(1 .. Attempts) = Attempts
  BY <1>1, AttemptsEnough
<1>3. IsFiniteSet(Processes)
  BY ProcessesFinite
<1> QED
  BY <1>2, <1>3, FS_Product DEF Budgeted

\* Every attempt, on a ledger that loses updates or not, keeps the account.
LEMMA ReckonedInvariant == DeploymentSpec => []Reckoned
<1> USE ProcessesFinite
<1>1. DeploymentInit => Reckoned
  <2> SUFFICES ASSUME DeploymentInit PROVE Reckoned
    OBVIOUS
  <2>1. /\ ledger = 0 /\ tally = [ok |-> 0, over |-> 0, error |-> 0] /\ ~lost
        /\ process = [p \in Processes |-> [left |-> Attempts, read |-> Limit]]
    BY DEF DeploymentInit
  <2>2. Ahead(process) = Processes \X (1 .. Attempts)
    BY <2>1, AttemptsEnough DEF Ahead
  <2>4. Cardinality(Ahead(process)) = Budgeted
    BY <2>2, AllAhead
  <2>5. Made = 0
    BY <2>1 DEF Made
  <2> QED
    BY <2>1, <2>4, <2>5, AttemptsEnough DEF Reckoned, Kept
<1>2. Reckoned /\ [DeploymentNext]_deploymentVars => Reckoned'
  <2> SUFFICES ASSUME Reckoned, [DeploymentNext]_deploymentVars PROVE Reckoned'
    OBVIOUS
  <2>0. ASSUME UNCHANGED accounting PROVE Reckoned'
    BY <2>0 DEF Reckoned, Kept, accounting, Made, Ahead
  <2>1. CASE UNCHANGED deploymentVars
    BY <2>0, <2>1 DEF deploymentVars
  <2>8. CASE EndContention \/ WorkerFails
    BY <2>0, <2>8 DEF EndContention, WorkerFails
  <2>9. CASE CorruptWorker \/ FreshWorker
    <3>1. UNCHANGED <<ledger, process, tally, lost>>
      BY <2>9 DEF CorruptWorker, FreshWorker
    <3> QED
      BY <3>1 DEF Reckoned, Kept, Made, Ahead
  <2>2. CASE Queue \/ Restart \/ Preflight \/ ScrapeBefore
             \/ Warmup \/ EndWorkload \/ ScrapeAfter
             \/ Boundary \/ EndAccounting \/ RollingRestart
    BY <2>0, <2>2 DEF Queue, Restart, Preflight, ScrapeBefore,
      Warmup, EndWorkload, ScrapeAfter,
      Boundary, EndAccounting, RollingRestart
  <2>3. CASE \E w \in Workers : TakeSlot(w) \/ Sample(w)
    BY <2>0, <2>3 DEF TakeSlot, Sample
  <2>t. /\ ledger \in Nat /\ ledger <= Limit /\ Limit \in Nat
        /\ tally.ok \in Nat /\ tally.over \in Nat /\ tally.error \in Nat
        /\ \A q \in Processes : process[q].read \in 0 .. Limit
    BY DEF Reckoned, Kept
  <2>4. ASSUME NEW p \in Processes, Reserve(p) PROVE Reckoned'
    <3>1. process[p].left > 0 /\ UNCHANGED lost
      BY <2>4 DEF Reserve, Contending
    <3>2. CASE ledger < Limit
      <4>1. Attempt(p, "ok") /\ ledger' = ledger + 1
        BY <2>4, <3>2 DEF Reserve, Contending
      <4>2. /\ process' \in [Processes -> [left : 0 .. Attempts, read : 0 .. Limit]]
            /\ process'[p].read = Limit
            /\ \A q \in Processes \ {p} : process'[q] = process[q]
            /\ tally' \in [ok : Nat, over : Nat, error : Nat]
            /\ tally'.ok = tally.ok + 1 /\ tally'.over = tally.over /\ tally'.error = tally.error
            /\ Made' + Cardinality(Ahead(process')) = Budgeted
        BY <4>1, <3>1, OneAttempt DEF Reckoned, Kept
      <4>3. tally.error = 0 => \A q \in Processes : process'[q].read < Limit =>
              /\ process'[q].left > 0 /\ process'[q].read <= tally'.ok
              /\ process'[q].read # ledger' => process'[q].read < tally'.ok
        BY <4>1, <4>2, <2>t DEF Reckoned, Kept
      <4> QED
        BY <3>1, <3>2, <4>1, <4>2, <4>3, <2>t DEF Reckoned, Kept
    <3>3. CASE ~(ledger < Limit)
      <4>1. Attempt(p, "over") /\ ledger' = ledger
        BY <2>4, <3>3 DEF Reserve, Contending
      <4>2. /\ process' \in [Processes -> [left : 0 .. Attempts, read : 0 .. Limit]]
            /\ process'[p].read = Limit
            /\ \A q \in Processes \ {p} : process'[q] = process[q]
            /\ tally' \in [ok : Nat, over : Nat, error : Nat]
            /\ tally'.ok = tally.ok /\ tally'.error = tally.error
            /\ Made' + Cardinality(Ahead(process')) = Budgeted
        BY <4>1, <3>1, OneAttempt DEF Reckoned, Kept
      <4>3. tally.error = 0 => \A q \in Processes : process'[q].read < Limit =>
              /\ process'[q].left > 0 /\ process'[q].read <= tally'.ok
              /\ process'[q].read # ledger' => process'[q].read < tally'.ok
        BY <4>1, <4>2, <2>t DEF Reckoned, Kept
      <4> QED
        BY <3>1, <3>3, <4>1, <4>2, <4>3, <2>t DEF Reckoned, Kept
    <3> QED
      BY <3>2, <3>3
  <2>5. ASSUME NEW p \in Processes, StorageError(p) PROVE Reckoned'
    <3>1. process[p].left > 0 /\ Attempt(p, "error") /\ ledger' \in 0 .. Limit
      BY <2>5, <2>t DEF StorageError, Contending
    <3>2. /\ process' \in [Processes -> [left : 0 .. Attempts, read : 0 .. Limit]]
          /\ tally' \in [ok : Nat, over : Nat, error : Nat]
          /\ tally'.error = tally.error + 1
          /\ Made' + Cardinality(Ahead(process')) = Budgeted
      BY <3>1, OneAttempt DEF Reckoned
    <3> QED
      BY <3>1, <3>2, <2>t DEF Reckoned
  <2>6. ASSUME NEW p \in Processes, LossyRead(p) PROVE Reckoned'
    <3>1. process[p].left > 0 /\ UNCHANGED lost /\ ledger' = ledger /\ process[p].read = Limit
      BY <2>6 DEF LossyRead, Contending
    <3>2. CASE ledger < Limit
      <4>1. process' = [process EXCEPT ![p].read = ledger] /\ tally' = tally
        BY <2>6, <3>2 DEF LossyRead, Contending
      <4>2. /\ process' \in [Processes -> [left : 0 .. Attempts, read : 0 .. Limit]]
            /\ process'[p].read = ledger
            /\ \A q \in Processes \ {p} : process'[q] = process[q]
            /\ \A q \in Processes : process'[q].left = process[q].left
        BY <4>1, <2>t DEF Reckoned, Kept
      <4>3. Ahead(process') = Ahead(process)
        BY <4>2 DEF Ahead
      <4>4. Made' = Made /\ tally'.ok = tally.ok /\ tally'.error = tally.error
        BY <4>1 DEF Made
      <4>5. tally.error = 0 => ledger <= tally.ok
        BY <2>t DEF Reckoned, Kept
      <4>6. tally.error = 0 => \A q \in Processes : process'[q].read < Limit =>
              /\ process'[q].left > 0 /\ process'[q].read <= tally'.ok
              /\ process'[q].read # ledger' => process'[q].read < tally'.ok
        BY <3>1, <4>1, <4>2, <4>5 DEF Reckoned, Kept
      <4>7. Made' + Cardinality(Ahead(process')) = Budgeted
        BY <4>3, <4>4 DEF Reckoned, Kept
      <4> QED
        BY <3>1, <4>1, <4>2, <4>6, <4>7 DEF Reckoned, Kept
    <3>3. CASE ~(ledger < Limit)
      <4>1. Attempt(p, "over") /\ ledger = Limit
        BY <2>6, <3>3, <2>t DEF LossyRead, Contending
      <4>2. /\ process' \in [Processes -> [left : 0 .. Attempts, read : 0 .. Limit]]
            /\ process'[p].read = Limit
            /\ \A q \in Processes \ {p} : process'[q] = process[q]
            /\ tally' \in [ok : Nat, over : Nat, error : Nat]
            /\ tally'.ok = tally.ok /\ tally'.error = tally.error
            /\ Made' + Cardinality(Ahead(process')) = Budgeted
        BY <4>1, <3>1, OneAttempt DEF Reckoned, Kept
      <4>3. tally.error = 0 => \A q \in Processes : process'[q].read < Limit =>
              /\ process'[q].left > 0 /\ process'[q].read <= tally'.ok
              /\ process'[q].read # ledger' => process'[q].read < tally'.ok
        BY <3>1, <4>1, <4>2, <2>t DEF Reckoned, Kept
      <4> QED
        BY <3>1, <4>1, <4>2, <4>3, <2>t DEF Reckoned, Kept
    <3> QED
      BY <3>2, <3>3
  <2>7. ASSUME NEW p \in Processes, LossyWrite(p) PROVE Reckoned'
    <3> DEFINE r == process[p].read
    <3>1. /\ process[p].left > 0 /\ r < Limit
          /\ Attempt(p, "ok") /\ ledger' = r + 1 /\ lost' = (lost \/ r # ledger)
      BY <2>7 DEF LossyWrite, Contending
    <3>2. /\ process[p].left > 0 /\ r \in Nat
          /\ tally.error = 0 => r <= tally.ok /\ (r # ledger => r < tally.ok)
      BY <3>1, <2>t DEF Reckoned, Kept
    <3>3. /\ process' \in [Processes -> [left : 0 .. Attempts, read : 0 .. Limit]]
          /\ process'[p].read = Limit
          /\ \A q \in Processes \ {p} : process'[q] = process[q]
          /\ tally' \in [ok : Nat, over : Nat, error : Nat]
          /\ tally'.ok = tally.ok + 1 /\ tally'.over = tally.over /\ tally'.error = tally.error
          /\ Made' + Cardinality(Ahead(process')) = Budgeted
      BY <3>1, <3>2, OneAttempt DEF Reckoned, Kept
    <3> HIDE DEF r
    <3>4. ~lost' => ~lost /\ r = ledger
      BY <3>1
    <3>5. lost' => lost \/ r # ledger
      BY <3>1
    <3>6. tally.error = 0 => (~lost' => ledger' = tally'.ok)
      <4>1. tally.error = 0 => (~lost => ledger = tally.ok)
        BY DEF Reckoned, Kept
      <4> QED
        BY <4>1, <3>1, <3>3, <3>4
    <3>7. tally.error = 0 => (lost' => ledger' < tally'.ok)
      <4>1. tally.error = 0 => (lost => ledger < tally.ok)
        BY DEF Reckoned, Kept
      <4>2. tally.error = 0 => (lost' => r < tally.ok)
        BY <4>1, <3>2, <3>5
      <4> QED
        BY <4>2, <3>1, <3>2, <3>3, <2>t
    <3>8. tally.error = 0 => ~(tally'.over > 0 /\ ~lost')
      <4>1. tally.error = 0 => (tally.over > 0 /\ ~lost => ledger = Limit)
        BY DEF Reckoned, Kept
      <4>2. ~lost' => ledger # Limit
        BY <3>1, <3>2, <3>4, <2>t
      <4> QED
        BY <4>1, <4>2, <3>3, <3>4
    <3>9. tally.error = 0 => \A q \in Processes : process'[q].read < Limit =>
            /\ process'[q].left > 0 /\ process'[q].read <= tally'.ok
            /\ process'[q].read # ledger' => process'[q].read < tally'.ok
      <4>1. tally.error = 0 => \A q \in Processes \ {p} : process[q].read < Limit =>
              process[q].left > 0 /\ process[q].read <= tally.ok
        BY DEF Reckoned, Kept
      <4> QED
        BY <4>1, <3>3, <2>t
    <3>10. ledger' \in 0 .. Limit
      BY <3>1, <3>2, <2>t
    <3> QED
      BY <3>3, <3>6, <3>7, <3>8, <3>9, <3>10 DEF Reckoned, Kept
  <2> QED
    BY <2>1, <2>2, <2>3, <2>4, <2>5, <2>6, <2>7, <2>8, <2>9 DEF DeploymentNext
<1> QED
  BY <1>1, <1>2, PTL DEF DeploymentSpec

\* What the processes and the ledger must say to each other.
Even(t, count) ==
  /\ t.ok = Limit /\ t.over = Cardinality(Processes) * Attempts - Limit
  /\ t.error = 0 /\ count = Limit

\* When no attempt is ahead, the conditions of the probe say whether one was lost.
LEMMA ExactWhenKept ==
  ASSUME Reckoned, \A p \in Processes : process[p].left = 0
  PROVE  Even(tally, ledger) <=> ~lost /\ tally.error = 0
<1>1. Ahead(process) = {}
  BY DEF Ahead
<1>2. Made = Budgeted
  BY <1>1, FS_EmptySet, AttemptsEnough DEF Reckoned, Made
<1>3. /\ Limit \in Nat /\ Limit > 0 /\ Budgeted \in Nat /\ 2 * Limit <= Budgeted
      /\ tally.ok \in Nat /\ tally.over \in Nat /\ tally.error \in Nat /\ ledger \in 0 .. Limit
      /\ tally.ok + tally.over + tally.error = Budgeted
  BY <1>2, AttemptsEnough, ProcessesFinite DEF Reckoned, Made
<1>4. Even(tally, ledger) <=>
        tally.ok = Limit /\ tally.error = 0 /\ ledger = Limit /\ tally.over = Budgeted - Limit
  BY ProcessesFinite DEF Even, Budgeted
<1>5. tally.error = 0 =>
      (~lost => ledger = tally.ok) /\ (lost => ledger < tally.ok)
      /\ (tally.over > 0 /\ ~lost => ledger = Limit)
  BY DEF Reckoned, Kept
<1>6. CASE lost
  BY <1>3, <1>4, <1>5, <1>6
<1>7. CASE ~lost
  BY <1>3, <1>4, <1>5, <1>7
<1> QED
  BY <1>6, <1>7

\* And then the pass of the probe says what went right, when the worker that came
\* anew was refused only by a ledger as full as the one put aside.
LEMMA PassWhenRight ==
  ASSUME Reckoned, \A p \in Processes : process[p].left = 0,
         fresh.outcome = "over" => fresh = [outcome |-> "over", count |-> ledger]
  PROVE  Exact(tally, ledger) <=>
           ~lost /\ tally.error = 0 /\ lock /\ CorruptedFailedClosed /\ fresh.outcome = "over"
<1>1. Exact(tally, ledger) <=>
        Even(tally, ledger) /\ StaleLockRecovered /\ CorruptedFailedClosed /\ RestartPreserved
  BY DEF Exact, Even
<1>2. Even(tally, ledger) => tally.ok > 0 /\ ledger = Limit
  BY ProcessesFinite DEF Even
<1>3. Even(tally, ledger) => (RestartPreserved <=> fresh.outcome = "over")
  BY <1>2 DEF RestartPreserved
<1>4. Even(tally, ledger) => (StaleLockRecovered <=> lock)
  BY <1>2 DEF StaleLockRecovered
<1> QED
  BY <1>1, <1>3, <1>4, ExactWhenKept

\* For any number of processes, any limit and any number of failures: the accounting
\* probe passes exactly when the ledger lost no reservation, none failed, the lock file
\* is there, a corrupted ledger was refused and left alone, and a new process found the
\* ledger full.
THEOREM LossIsFound == DeploymentSpec => []ProbeFindsLoss
<1>1. DeploymentInit => Concluded
  BY DEF DeploymentInit, Concluded
<1>2. Reckoned /\ Concluded /\ [DeploymentNext]_deploymentVars => Concluded'
  <2> SUFFICES ASSUME Reckoned, Concluded, [DeploymentNext]_deploymentVars PROVE Concluded'
    OBVIOUS
  <2> USE DEF Concluded, ProbeFindsLoss
  <2> USE DEF CorruptedFailedClosed
  <2>1. CASE UNCHANGED deploymentVars
    BY <2>1 DEF deploymentVars, accounting
  <2>2. CASE Queue \/ Restart
    BY <2>2 DEF Queue, Restart, accounting
  <2>3. CASE Preflight \/ ScrapeBefore \/ Warmup \/ EndWorkload
             \/ ScrapeAfter \/ Boundary
    BY <2>3 DEF Preflight, ScrapeBefore, Warmup, EndWorkload,
      ScrapeAfter, Boundary, accounting
  <2>4. CASE \E w \in Workers : TakeSlot(w) \/ Sample(w)
    BY <2>4 DEF TakeSlot, Sample, accounting
  <2>5. CASE \E p \in Processes : Reserve(p) \/ StorageError(p)
                           \/ LossyRead(p) \/ LossyWrite(p)
    BY <2>5 DEF Reserve, StorageError, LossyRead, LossyWrite, Contending, others
  <2>6. CASE EndAccounting
    <3>1. /\ pc = "judge" /\ pc' = "restart" /\ UNCHANGED accounting
          /\ report' = report \cup (IF Exact(tally, ledger) THEN {"accounting"} ELSE {})
      BY <2>6 DEF EndAccounting
    <3>2. "accounting" \in report' <=> Exact(tally, ledger)
      BY <3>1
    <3>3. Exact(tally, ledger) <=>
            ~lost /\ tally.error = 0 /\ lock /\ CorruptedFailedClosed /\ fresh.outcome = "over"
      BY <3>1, PassWhenRight
    <3> QED
      BY <3>1, <3>2, <3>3 DEF accounting
  <2>8. CASE EndContention
    BY <2>8 DEF EndContention, others, accounting
  <2>9. CASE CorruptWorker
    BY <2>9 DEF CorruptWorker, others
  <2>10. CASE FreshWorker
    BY <2>10 DEF FreshWorker, others
  <2>11. CASE WorkerFails
    BY <2>11 DEF WorkerFails, others, accounting
  <2>7. CASE RollingRestart
    BY <2>7 DEF RollingRestart, accounting
  <2> QED
    BY <2>1, <2>2, <2>3, <2>4, <2>5, <2>6, <2>7, <2>8, <2>9, <2>10, <2>11 DEF DeploymentNext
<1>3. Concluded => ProbeFindsLoss
  BY DEF Concluded, ProbeFindsLoss
<1> QED
  BY <1>1, <1>2, <1>3, ReckonedInvariant, PTL DEF DeploymentSpec
=============================================================================
