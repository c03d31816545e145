--------------------------------- MODULE Scoring ---------------------------------
(***************************************************************************)
(* The score of a model in src/src/router.rs, of which Routing sees the       *)
(* merit (what classification, policy and configuration make of it), the       *)
(* penalty of its provider, and two exclusions.  Numbers are in 1/Unit, rounded  *)
(* down after each product.                                                  *)
(*                                                                         *)
(* x is a model (its names in order: id and aliases, provider, capability,      *)
(* cost, domains, local, supports), c its prompt's heads (Classification), s the  *)
(* scoring configuration and w the weights of the policy of the request.         *)
(***************************************************************************)
EXTENDS Classification, FiniteSetsExt

Times(a, b) == (a * b) \div Unit
If(condition) == IF condition THEN Unit ELSE 0
ValueOf(f, key) == IF key \in DOMAIN f THEN f[key] ELSE 0

\* The value of the first name that has one.
OfNames(f, names) ==
  LET given == {i \in DOMAIN names : names[i] \in DOMAIN f}
  IN IF given = {} THEN 0 ELSE f[names[Min(given)]]

\* PolicyWeights, in hundredths, and those that a policy has by default.
Weights(fit, domain, cost, overkill, raw, latency, health, local, remote, multimodal) ==
  [capability_fit |-> fit * Cent, domain_bonus |-> domain * Cent, cost |-> cost * Cent,
   overkill |-> overkill * Cent, raw_capability |-> raw * Cent, latency |-> latency * Cent,
   health |-> health * Cent, local_bonus |-> local * Cent, remote_penalty |-> remote * Cent,
   multimodal_capability |-> multimodal * Cent]
DefaultWeights ==
  LET floor == Weights(34, 10, 56, 180, 0, 4, 100, 0, 0, 0)
      nitro == Weights(44, 12, 12, 60, 8, 42, 125, 0, 0, 0)
      quality == Weights(16, 10, 2, 0, 82, 3, 100, 0, 0, 0)
  IN [balanced |-> Weights(60, 20, 20, 100, 0, 5, 100, 0, 0, 0),
      lowest_cost_acceptable |-> floor, floor |-> floor,
      fastest_healthy |-> nitro, nitro |-> nitro,
      highest_quality |-> quality, quality |-> quality,
      local_first |-> Weights(48, 14, 18, 80, 4, 5, 100, 34, 18, 0),
      privacy_first |-> Weights(42, 12, 12, 60, 6, 5, 100, 48, 36, 0),
      multimodal_first |-> Weights(42, 14, 10, 40, 8, 5, 100, 0, 0, 46),
      cost_efficient |-> Weights(42, 16, 42, 140, 0, 5, 100, 0, 0, 0),
      capability_heavy |-> Weights(20, 8, 5, 0, 72, 5, 100, 0, 0, 0),
      domain_skills |-> Weights(38, 48, 10, 0, 10, 5, 100, 0, 0, 0)]

\* A model that lacks a capability or the context loses ten points for each.
Exclusion == 10 * Unit

\* required_capability, required_capability_for_classifications
RequiredCapability(difficulty) ==
  Cent * CASE difficulty = "easy" -> 25 [] difficulty = "medium" -> 58
           [] difficulty = "hard" -> 84 [] difficulty = "needs_info" -> 55
RequiredFor(c) ==
  LET base == RequiredCapability(c.difficulty.label)
  IN CASE c.reasoning_depth.label = "shallow" -> AtLeast(base - 8 * Cent, 20 * Cent)
       [] c.reasoning_depth.label = "moderate" -> base
       [] c.reasoning_depth.label = "deep" -> AtMost(base + 10 * Cent, 95 * Cent)

\* normalized_cost, of a cost in dollars for a million tokens in and out.
NormalizedCost(x) == Clamped((x.cost * Unit) \div 60)

\* domain_bonus
DomainBonus(x, c) ==
  IF c.domain.label \in x.domains THEN Unit
  ELSE IF c.domain.label = "general" THEN 40 * Cent ELSE 0

\* model_multimodal_capability
MultimodalCapability(x) ==
  (Cardinality(x.supports \cap {"vision", "audio", "tools", "web_apps"}) * Unit) \div 4

\* score_model_components
ModelScore(x, c, w) ==
  LET required == RequiredFor(c) IN
  Times(Unit - AtLeast(required - x.capability, 0), w.capability_fit)
    + Times(DomainBonus(x, c), w.domain_bonus)
    + Times(x.capability, w.raw_capability)
    + (IF x.local THEN w.local_bonus ELSE -w.remote_penalty)
    + Times(MultimodalCapability(x), w.multimodal_capability)
    - Times(NormalizedCost(x), w.cost)
    - Times(Times(AtLeast(x.capability - required, 0), 12 * Cent), w.overkill)

\* routing_priority
RoutingPriority(x, s) ==
  Clamp(OfNames(s.model_priorities, x.names) + ValueOf(s.provider_priorities, x.provider),
        -Unit, Unit)

\* How much of a feature a model and a prompt have; ambiguity is no feature.
Extent(feature, x, c) ==
  LET kind == feature[1] IN
  CASE kind = "bias" -> Unit
    [] kind = "model" -> If(\E i \in DOMAIN x.names : x.names[i] = feature[2])
    [] kind = "provider" -> If(x.provider = feature[2])
    [] kind \in Heads \ {"ambiguity"} ->
         IF c[kind].label = feature[2] THEN c[kind].confidence ELSE 0
    [] kind = "domain_match" -> DomainBonus(x, c)
    [] kind = "capability" -> x.capability
    [] kind = "cost" -> NormalizedCost(x)
    [] kind = "local" -> If(x.local)
    [] kind = "supports" -> If(feature[2] \in x.supports)
    [] OTHER -> 0

\* learned_score_boost
LearnedBoost(x, c, s) ==
  LET weights == s.learned.feature_weights
      raw == s.learned.bias + OfNames(s.learned.model_biases, x.names)
               + MapThenSumSet(LAMBDA f : Times(weights[f], Extent(f, x, c)), DOMAIN weights)
  IN IF s.learned.enabled /\ s.learned.weight > 0
     THEN Times(s.learned.weight, Clamp(raw, -Unit, Unit)) ELSE 0

\* scored_candidates, what it adds.
Merit(x, c, s, w) ==
  ModelScore(x, c, w) + Times(RoutingPriority(x, s), s.priority_weight) + LearnedBoost(x, c, s)

\* latency_penalty, health_penalty: the worse of what is configured and observed.
LatencyShare(ms) == Clamped((ms * Unit) \div 5000)
LatencyPenalty(p, s, observed) ==
  Max({LatencyShare(ValueOf(s.provider_latency_p95_ms, p)), LatencyShare(observed)})
HealthPenalty(p, s, observed) ==
  Max({Clamped(ValueOf(s.provider_health_penalties, p)), Clamped(observed)})

\* latency_sensitivity_multiplier
LatencyMultiplier(label) ==
  Cent * CASE label = "low" -> 55 [] label = "medium" -> 100 [] label = "high" -> 165

\* scored_candidates, what it takes off for a provider with these observations.
ProviderPenalty(p, c, s, w, latency, health) ==
  Times(LatencyPenalty(p, s, latency), Times(w.latency, LatencyMultiplier(c.latency_sensitivity.label)))
    + Times(HealthPenalty(p, s, health), w.health)
==================================================================================
