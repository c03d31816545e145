-------------------------------- MODULE Routing --------------------------------
(***************************************************************************)
(* src/src/router.rs: which models a request may go to, which of them is    *)
(* routed to, and in what order the others follow.  No state: the health    *)
(* penalties and the outcome of classification are arguments.               *)
(*                                                                         *)
(* A request q says which models and providers it allows (sets; empty means *)
(* any), which capabilities it needs, and how many tokens of context.       *)
(* Scores are integers; every weight, label and cost that goes into one is  *)
(* in merit, the score before the penalties (module Scoring).               *)
(***************************************************************************)
EXTENDS Integers, FiniteSets, Sequences

CONSTANTS
  Models, Providers, NoModel,
  Rank,            \* Rank[m]: position of m in config.models
  ProviderOf,
  Handles, Find,   \* Find[h]: find_model of an id or alias
  Capabilities,
  Caps,            \* Caps[m]: capabilities the model declares
  AdapterCaps,     \* AdapterCaps[p]: those the adapter of p can express
  Window,          \* Window[m], for the models that declare context_window
  MaxTokens,       \* u32::MAX
  ExclusionPenalty \* what a model's score loses for each thing it cannot do

\* What validate_core guarantees: ids and aliases are unique, providers exist, a
\* model declares no capability that its adapter cannot express.
ASSUME RoutingAssumption ==
  /\ IsFiniteSet(Models) /\ NoModel \notin Models
  /\ Rank \in [Models -> Nat] /\ \A m, n \in Models : Rank[m] = Rank[n] => m = n
  /\ ProviderOf \in [Models -> Providers]
  /\ Models \subseteq Handles /\ Find \in [Handles -> Models \cup {NoModel}]
  /\ \A m \in Models : Find[m] = m
  /\ Caps \in [Models -> SUBSET Capabilities]
  /\ AdapterCaps \in [Providers -> SUBSET Capabilities]
  /\ \A m \in Models : Caps[m] \subseteq AdapterCaps[ProviderOf[m]]
  /\ DOMAIN Window \subseteq Models /\ MaxTokens \in Nat
  /\ Window \in [DOMAIN Window -> 0 .. MaxTokens]
  /\ ExclusionPenalty \in Nat

\* u32::saturating_add
ContextRequired(q) ==
  IF q.input + q.output > MaxTokens THEN MaxTokens ELSE q.input + q.output

\* context_eligible
ContextEligible(m, q) == m \in DOMAIN Window => ContextRequired(q) <= Window[m]

\* capability_eligible, effective_capability_support
CapabilityEligible(m, q) == q.needs \subseteq Caps[m] \cap AdapterCaps[ProviderOf[m]]

\* candidate_selectable
Selectable(m, q) == CapabilityEligible(m, q) /\ ContextEligible(m, q)

\* Mutant: either filter is enough.
AllowedByRequest_Either(m, q) ==
  \/ \E h \in q.models : Find[h] = m
  \/ ProviderOf[m] \in q.providers
  \/ q.models = {} /\ q.providers = {}

\* model_allowed_by_request: both filters bind, and an empty one does not.
AllowedByRequest(m, q) ==
  /\ q.models # {} => \E h \in q.models : Find[h] = m
  /\ q.providers # {} => ProviderOf[m] \in q.providers

\* allowed_fallback_model: one model or none.
AllowedFallback(q) == {m \in {Find[q.default]} \ {NoModel} : AllowedByRequest(m, q)}

\* RoutingEngine::candidates
RouteCandidates(q) ==
  LET allowed == {m \in Models : AllowedByRequest(m, q)}
  IN  IF allowed = {} THEN AllowedFallback(q) ELSE allowed

\* scored_candidates: what a model cannot do is a penalty, not an exclusion.
Score(q, merit, penalty) ==
  [m \in Models |-> merit[m] - penalty[ProviderOf[m]]
     - (IF CapabilityEligible(m, q) THEN 0 ELSE ExclusionPenalty)
     - (IF ContextEligible(m, q) THEN 0 ELSE ExclusionPenalty)]

\* Mutant: worst first.
Before_Ascending(m, n, score) ==
  \/ score[m] < score[n]
  \/ score[m] = score[n] /\ Rank[m] < Rank[n]

\* The order of scored_candidates: a stable sort by descending score.
Before(m, n, score) ==
  \/ score[m] > score[n]
  \/ score[m] = score[n] /\ Rank[m] < Rank[n]
Orderings(S, score) ==
  {s \in [1 .. Cardinality(S) -> S] : \A i, j \in DOMAIN s : i < j => Before(s[i], s[j], score)}

\* Mutant: the score alone decides.
NotBetter_ScoreOnly(n, m, q, score) ==
  \/ score[n] < score[m]
  \/ score[n] = score[m] /\ Rank[n] <= Rank[m]

\* max_by in route_internal: selectable first, then the score, and the last of equals.
NotBetter(n, m, q, score) ==
  \/ Selectable(m, q) /\ ~Selectable(n, q)
  \/ /\ Selectable(m, q) <=> Selectable(n, q)
     /\ \/ score[n] < score[m]
        \/ score[n] = score[m] /\ Rank[n] <= Rank[m]
IsBest(m, q, score) ==
  m \in RouteCandidates(q) /\ \A n \in RouteCandidates(q) : NotBetter(n, m, q, score)

\* response_for_model and response_for_unknown as fallbacks: no candidates, and
\* no model when there is none to fall back to.
FallbackTo(S, asking, score) ==
  [model |-> IF S = {} THEN NoModel ELSE CHOOSE m \in S : TRUE,
   fallback |-> TRUE, asking |-> asking, candidates |-> {}, score |-> score]

\* route_internal; asking: the prompt was classified as needing more information.
RoutesOf(q, asking, merit, penalty) ==
  LET score == Score(q, merit, penalty)
      eligibleDefault == {m \in AllowedFallback(q) : Selectable(m, q)}
      best == {m \in Models : IsBest(m, q, score)}
  IN  IF asking THEN {FallbackTo(eligibleDefault, TRUE, score)}
      ELSE IF RouteCandidates(q) = {} THEN {FallbackTo(AllowedFallback(q), FALSE, score)}
      ELSE {IF Selectable(m, q)
            THEN [model |-> m, fallback |-> FALSE, asking |-> FALSE,
                  candidates |-> RouteCandidates(q), score |-> score]
            ELSE FallbackTo(eligibleDefault, FALSE, score) : m \in best}
=============================================================================
