----------------------------- MODULE Configuration -----------------------------
(***************************************************************************)
(* What src/src/config.rs accepts of a configuration, and how the rest of the *)
(* program looks its models up.  No state: validation is a predicate, made of *)
(* one part for each section, over a record with the fields that a rule is    *)
(* about.  Numbers that must only be positive are functions from their names.  *)
(*                                                                         *)
(* A name is a model value; Trimmed[x] is x without the white space around it, *)
(* Blank a name that is white space, Absent a field that is not given.        *)
(***************************************************************************)
EXTENDS Adapters, Integers, Sequences, FiniteSets

CONSTANTS Trimmed, Blank, LocalHash

Empty(x) == x = Absent \/ Trimmed[x] = Blank
Positive(numbers) == \A f \in DOMAIN numbers : numbers[f] # 0
Unique(s) == \A i, j \in DOMAIN s : s[i] = s[j] => i = j
Elements(s) == {s[i] : i \in DOMAIN s}

\* An interval of hundredths for the fractions of the file.
Fraction(x) == x \in 0 .. 100

\* RouterConfig::find_model: the first with that id or alias; Absent for none.
Handles(m) == {m.id} \cup Elements(m.aliases)
FindModel(c, name) ==
  LET found == {i \in DOMAIN c.models : name \in Handles(c.models[i])}
  IN IF found = {} THEN Absent ELSE c.models[CHOOSE i \in found : \A j \in found : i <= j]
IsKnown(c, name) == FindModel(c, name) # Absent

ProviderNames(c) == {c.providers[i].name : i \in DOMAIN c.providers}
ProviderNamed(c, name) == CHOOSE p \in Elements(c.providers) : p.name = name

\* validate_unique_providers
UniqueProviders(c) ==
  /\ \A p \in Elements(c.providers) : ~Empty(p.name)
  /\ Unique([i \in DOMAIN c.providers |-> c.providers[i].name])

\* Mutant: aliases are compared with the ids before them only.
UniqueHandles_AliasesApart(c) ==
  /\ \A m \in Elements(c.models) : \A h \in Handles(m) : ~Empty(h)
  /\ Unique([i \in DOMAIN c.models |-> c.models[i].id])
  /\ \A m \in Elements(c.models) : Unique(m.aliases) /\ m.id \notin Elements(m.aliases)

\* validate_unique_models_and_aliases
UniqueHandles(c) ==
  /\ \A m \in Elements(c.models) : \A h \in Handles(m) : ~Empty(h)
  /\ \A i, j \in DOMAIN c.models : i # j => Handles(c.models[i]) \cap Handles(c.models[j]) = {}
  /\ \A m \in Elements(c.models) : Unique(m.aliases) /\ m.id \notin Elements(m.aliases)

\* The models of validate_core.
ValidModel(c, m) ==
  /\ m.provider \in ProviderNames(c)
  /\ Fraction(m.capability)
  /\ LET p == ProviderNamed(c, m.provider) IN
     /\ m.endpoints # Absent => m.endpoints # {} /\ \A e \in m.endpoints : ProviderSupports(p, e)
     /\ \A x \in m.capabilities : AdapterSupports(p.kind, x)

\* validate_provider; a path that does not start with / is Bad.
ValidProvider(p) ==
  /\ p.base_url # Bad
  /\ p.kind \in Native => \A e \in Endpoints \ {"chat"} : p.paths[e] = Absent
  /\ p.paths["chat"] # Absent
  /\ \A e \in Endpoints : p.paths[e] # Bad
  /\ Positive(p.numbers)

\* The references of ScoringConfig, and of the names in LearnedScoringConfig.
ValidScoringHints(c) ==
  /\ \A h \in DOMAIN c.scoring.model_priorities : IsKnown(c, h)
  /\ DOMAIN c.scoring.provider_hints \subseteq ProviderNames(c)
ValidModelReferences(c) == \A h \in DOMAIN c.scoring.model_biases : IsKnown(c, h)
ValidScoring(c) ==
  /\ c.scoring.weights >= 0
  /\ \A h \in DOMAIN c.scoring.model_priorities : c.scoring.model_priorities[h] \in -100 .. 100
  /\ \A p \in DOMAIN c.scoring.provider_hints : Fraction(c.scoring.provider_hints[p])

\* ClassifierConfig::active_backend, active_adapter: the older setting still counts.
ActiveBackend(c) ==
  IF c.classifier.backend = "heuristic" /\ c.classifier.llm_judge_model # Absent
  THEN "llm_judge" ELSE c.classifier.backend
ActiveModel(c) ==
  LET own == c.classifier.adapter[ActiveBackend(c)] IN
  IF ActiveBackend(c) = "llm_judge" /\ own = Absent THEN c.classifier.llm_judge_model ELSE own
ValidClassifier(c) ==
  /\ Fraction(c.classifier.confidence)
  /\ c.classifier.easy < c.classifier.hard
  /\ c.classifier.llm_judge_model # Absent => IsKnown(c, c.classifier.llm_judge_model)
  /\ ActiveBackend(c) # "heuristic" =>
       ~Empty(ActiveModel(c)) /\ IsKnown(c, Trimmed[ActiveModel(c)])
  /\ Positive(c.classifier.numbers)

\* bind_is_loopback is c.auth.loopback.
ValidAuth(c) ==
  /\ Blank \notin c.auth.tokens
  /\ c.auth.loopback \/ c.auth.open \/ c.auth.tokens # {}

ValidBudget(c) ==
  Positive(c.budget.numbers) /\ (c.budget.backend = "file" => ~Empty(c.budget.path))

\* TelemetryConfig, RuntimeConfig with the sampler and ingress.
ValidTelemetry(c) == Positive(c.telemetry.numbers) /\ c.telemetry.path # Blank
ValidIngress(c) == Positive(c.runtime.ingress)
ValidSampler(c) == Positive(c.runtime.sampler)
ValidRuntime(c) == Positive(c.runtime.numbers) /\ ValidSampler(c) /\ ValidIngress(c)

\* SemanticCacheConfig::validate; the model is looked up with its white space.
ValidCache(c) ==
  LET s == c.cache IN
  /\ s.enabled => ~Empty(s.embedding_model)
  /\ s.enabled /\ Trimmed[s.embedding_model] # LocalHash =>
       /\ IsKnown(c, s.embedding_model)
       /\ LET m == FindModel(c, s.embedding_model) IN
          /\ m.provider \in ProviderNames(c)
          /\ ProviderNamed(c, m.provider).paths["embeddings"] # Absent
          /\ ModelSupports(m, "embeddings")
  /\ Fraction(s.threshold) /\ Positive(s.numbers)
  /\ s.enabled /\ s.backend = "file" => ~Empty(s.path)

ValidShadowEval(c) ==
  LET s == c.shadow_eval IN
  /\ Fraction(s.sample_rate)
  /\ s.enabled => ~Empty(s.path)
  /\ Positive(s.numbers) /\ s.numbers["max_concurrent_tasks"] <= s.numbers["max_pending_tasks"]
  /\ ~Empty(s.judge) => IsKnown(c, Trimmed[s.judge])

ForcesRoute(c) == c.safety.enabled /\ "force_route" \in {c.safety.unsafe, c.safety.sensitive}
ValidSafety(c) ==
  ForcesRoute(c) => ~Empty(c.safety.force_model) /\ IsKnown(c, Trimmed[c.safety.force_model])

ValidSticky(c) ==
  Positive(c.sticky.numbers) /\ (c.sticky.backend = "file" => ~Empty(c.sticky.path))

\* RouterConfig::validate_core
Valid(c) ==
  /\ c.models # <<>> /\ c.providers # <<>>
  /\ UniqueProviders(c) /\ UniqueHandles(c)
  /\ \A m \in Elements(c.models) : ValidModel(c, m)
  /\ \A p \in Elements(c.providers) : ValidProvider(p)
  /\ ValidScoringHints(c)
  /\ IsKnown(c, c.default_model)
  /\ ValidClassifier(c) /\ ValidAuth(c) /\ ValidScoring(c) /\ ValidBudget(c)
  /\ ValidTelemetry(c) /\ ValidRuntime(c) /\ ValidCache(c) /\ ValidShadowEval(c)
  /\ ValidSafety(c) /\ ValidSticky(c) /\ ValidModelReferences(c)
-----------------------------------------------------------------------------
(* How the parts of the program look up the model that a setting names.      *)

\* classify_with_adapter, apply_safety_preflight: as it is written.
ClassifierModel(c) == FindModel(c, ActiveModel(c))
ForceModel(c) == FindModel(c, c.safety.force_model)

\* semantic_cache_embedding_for_request, llm_shadow_eval_judgement: trimmed.
EmbeddingModel(c) == FindModel(c, Trimmed[c.cache.embedding_model])
JudgeModel(c) == FindModel(c, Trimmed[c.shadow_eval.judge])

\* eligible_route_models, supported_model_ids: model_supports_endpoint.
Supported(c, m, e) == ModelSupports(m, e) /\ ProviderSupports(ProviderNamed(c, m.provider), e)
=============================================================================
