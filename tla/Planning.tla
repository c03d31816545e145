-------------------------------- MODULE Planning --------------------------------
(***************************************************************************)
(* From a parsed request to the models it will be tried on: the handlers of *)
(* src/src/server.rs up to their call of dispatch_*, over the routing engine *)
(* (module Routing).  The four program counters are the awaits: "idle", then *)
(* the classifier ("classify"), then telemetry ("settle"), and "planned",    *)
(* where Dispatch takes over with Plan[r] = plan, or "refused".              *)
(*                                                                         *)
(* Between the classifier and telemetry nothing is read but the health       *)
(* penalties; requests share nothing else here, so one request at a time is  *)
(* followed, and the penalties change at any moment.                        *)
(***************************************************************************)
EXTENDS Routing

CONSTANTS
  Inputs,            \* the requests that may arrive
  ModelEndpoints,    \* ModelEndpoints[m]: capabilities.supports_endpoint
  ProviderEndpoints, \* ProviderEndpoints[p]: ProviderConfig::supports_endpoint
  Features,          \* parts of a chat request that a strict adapter may not express
  Accepts,           \* Accepts[p]: the features the adapter of p preserves
  Prompts,           \* texts, as far as the classifier tells them apart
  Redacted,          \* Redacted[p]: p as redact_*_request leaves it
  SafetyLabel,       \* SafetyLabel[p]: classify_safety_deterministically
  Opinions,          \* Opinions[p]: whether p needs information, and the merit of the
                     \* models, as the classifier may come to see them (module Scoring)
  Action,            \* Action[label]: the safety action, "allow" if safety is off
  ForceModel, DefaultModel,   \* handles of the configuration
  Penalties          \* what latency and health may take off a provider's scores

Labels == {"safe", "sensitive", "unsafe"}
Inference == {"chat", "responses", "embeddings", "images", "speech",
              "audio_transcriptions", "audio_translations"}
Screened == {"chat", "responses"}            \* endpoints with a safety preflight
Audio == {"audio_transcriptions", "audio_translations"}
Automatic == {"auto"}
NoRoute == [model |-> NoModel, fallback |-> FALSE, asking |-> FALSE,
            candidates |-> {}, score |-> [m \in Models |-> 0]]

\* asks: "auto" (any router-* policy), "router-unknown", or a handle.
Requests ==
  [endpoint : Inference \cup {"multimodel", "provider"},
   asks : Handles \cup {"auto", "router-unknown"},
   valid : BOOLEAN, redactable : BOOLEAN, prompt : Prompts,
   needs : SUBSET Capabilities, uses : SUBSET Features,
   input : 0 .. MaxTokens, output : 0 .. MaxTokens,
   models : SUBSET Handles, providers : SUBSET Providers, default : Handles]

ASSUME PlanningAssumption ==
  /\ Inputs \subseteq Requests
  /\ \A q \in Inputs : q.endpoint \in Inference \ Screened =>
       q.output = 0 /\ q.needs = IF q.endpoint \in Audio THEN {"audio"} ELSE {}
  /\ "auto" \notin Handles /\ "router-unknown" \notin Handles
  /\ ProviderEndpoints \in [Providers -> SUBSET Inference]
  /\ ModelEndpoints \in [Models -> SUBSET Inference]
  /\ \A m \in Models : ModelEndpoints[m] \subseteq ProviderEndpoints[ProviderOf[m]] \cup {"chat"}
  /\ Accepts \in [Providers -> SUBSET Features]
  /\ Action \in [Labels -> {"allow", "reject", "redact", "force_route"}]
  /\ Action["safe"] = "allow"
  /\ ForceModel \in Handles /\ DefaultModel \in Handles
  /\ \A l \in Labels : Action[l] = "force_route" => Find[ForceModel] \in Models
  /\ Redacted \in [Prompts -> Prompts] /\ SafetyLabel \in [Prompts -> Labels]
  /\ Opinions \in [Prompts -> SUBSET [asking : BOOLEAN, merit : [Models -> Int]]]
  /\ \A p \in Prompts : Opinions[p] # {}
  /\ Penalties \subseteq Nat /\ 0 \in Penalties

VARIABLES pc, req, penalty, route, plan, reply
vars == <<pc, req, penalty, route, plan, reply>>

Replies == {"none", "planned", "answered", "invalid", "unknown_policy", "rejected",
            "unredactable", "unsupported", "unsupported_adapter", "unknown_model",
            "ineligible", "force_missing", "force_ineligible", "no_model", "unknown_provider"}
-----------------------------------------------------------------------------
IsAutomatic(q) == q.asks \in Automatic

\* model_supports_endpoint
SupportsEndpoint(m, q) ==
  q.endpoint \in ModelEndpoints[m] \cap ProviderEndpoints[ProviderOf[m]]

\* Mutant: the exclusions of a model are not looked at.
Preserves_Anything(m, q) == TRUE

\* model_chat_adapter_exclusions is empty; only chat asks for it.
Preserves(m, q) == q.endpoint = "chat" => q.uses \subseteq Accepts[ProviderOf[m]]

\* model_ineligibility_reason finds none
Eligible(m, q) == SupportsEndpoint(m, q) /\ Selectable(m, q)

\* supported_model_ids, filtered by the chat adapters, and supported_provider_names
EndpointModels(q) == {m \in Models : SupportsEndpoint(m, q)}
AllowedModels(q) == {m \in EndpointModels(q) : Preserves(m, q)}
AllowedProviders(q) == {p \in Providers : q.endpoint \in ProviderEndpoints[p]}

\* The MultimodelRequest a handler makes of a request; /v1/router/multimodel
\* passes the client's own, /v1/router/{provider} only the provider.
Routed(q) ==
  IF q.endpoint \in Inference
  THEN [q EXCEPT !.models = AllowedModels(q), !.providers = AllowedProviders(q),
                 !.default = DefaultModel]
  ELSE q

SafetyAction(q) ==
  IF q.endpoint \in Screened /\ IsAutomatic(q) THEN Action[SafetyLabel[q.prompt]] ELSE "allow"
Forced(q) == SafetyAction(q) = "force_route"

\* route_input: the text the classifier is given, which may send it to a judge.
RouteInput(q) ==
  IF SafetyAction(q) \in {"redact", "force_route"} THEN Redacted[q.prompt] ELSE q.prompt

Refuse(why) == pc' = "refused" /\ reply' = why

Init ==
  /\ pc = "idle" /\ reply = "none"
  /\ req \in Inputs
  /\ penalty = [p \in Providers |-> 0]
  /\ route = NoRoute /\ plan = <<>>

\* prepare_chat_safety, prepare_responses_safety: why a request stops there, if it does.
Unsafe(q) ==
  CASE SafetyAction(q) = "reject" -> "rejected"
    [] SafetyAction(q) \in {"redact", "force_route"} /\ ~q.redactable -> "unredactable"
    [] OTHER -> "none"

\* What an automatic request meets before the classifier is asked; unsafe is
\* why its safety preflight refuses it, if it does.
AdmitAutomatic(q, unsafe, allowed) ==
  \/ unsafe # "none" /\ Refuse(unsafe)
  \/ /\ unsafe = "none"
     /\ AllowedProviders(q) = {} \/ allowed = {}
     /\ Refuse(IF EndpointModels(q) # {} /\ allowed = {} THEN "unsupported_adapter"
                                                         ELSE "unsupported")
  \/ /\ unsafe = "none"
     /\ AllowedProviders(q) # {} /\ allowed # {}
     /\ pc' = "classify" /\ UNCHANGED reply

\* configured_model_for_request, and the exclusions chat looks at first.
AdmitExplicit(q) ==
  LET m == Find[q.asks] IN
  \/ /\ m = NoModel
     /\ Refuse("unknown_model") /\ UNCHANGED plan
  \/ /\ m # NoModel /\ ~Preserves(m, q)
     /\ Refuse("unsupported_adapter") /\ UNCHANGED plan
  \/ /\ m # NoModel /\ Preserves(m, q) /\ ~Eligible(m, q)
     /\ Refuse("ineligible") /\ UNCHANGED plan
  \/ /\ m # NoModel /\ Preserves(m, q) /\ Eligible(m, q)
     /\ pc' = "planned" /\ reply' = "planned" /\ plan' = <<m>>

\* What the inference handlers have in common.
Admit(unsafe, allowed) ==
  /\ pc = "idle"
  /\ \/ ~req.valid /\ Refuse("invalid") /\ UNCHANGED plan
     \/ /\ req.valid /\ req.asks = "router-unknown"
        /\ Refuse("unknown_policy") /\ UNCHANGED plan
     \/ /\ req.valid /\ IsAutomatic(req)
        /\ AdmitAutomatic(req, unsafe, allowed) /\ UNCHANGED plan
     \/ req.valid /\ req.asks \in Handles /\ AdmitExplicit(req)
  /\ UNCHANGED <<req, penalty, route>>

\* The handlers up to their first await.
ChatCompletions ==
  req.endpoint = "chat" /\ Admit(Unsafe(req), {m \in EndpointModels(req) : Preserves(m, req)})
Responses == req.endpoint = "responses" /\ Admit(Unsafe(req), EndpointModels(req))
Embeddings == req.endpoint = "embeddings" /\ Admit("none", EndpointModels(req))
ImagesGenerations == req.endpoint = "images" /\ Admit("none", EndpointModels(req))
AudioSpeech == req.endpoint = "speech" /\ Admit("none", EndpointModels(req))
AudioMultipart == req.endpoint \in Audio /\ Admit("none", EndpointModels(req))

\* provider_router knows no provider of that name, or routes among its models.
ProviderRouter ==
  /\ pc = "idle" /\ req.endpoint = "provider"
  /\ IF req.providers = {} THEN Refuse("unknown_provider") ELSE pc' = "classify" /\ UNCHANGED reply
  /\ UNCHANGED <<req, penalty, route, plan>>

Multimodel ==
  /\ pc = "idle" /\ req.endpoint = "multimodel"
  /\ pc' = "classify"
  /\ UNCHANGED <<req, penalty, route, plan, reply>>

\* The classifier has answered: route_internal, with the penalties of this moment.
Classified ==
  /\ pc = "classify"
  /\ \E opinion \in Opinions[RouteInput(req)] :
       route' \in RoutesOf(Routed(req), opinion.asking, opinion.merit, penalty)
  /\ IF req.endpoint \in Inference
     THEN pc' = "settle" /\ UNCHANGED reply
     ELSE pc' = "refused" /\ reply' = "answered"
  /\ UNCHANGED <<req, penalty, plan>>

\* apply_safety_preflight: the model that is to come first.
First(q, r) == IF Forced(q) THEN Find[ForceModel] ELSE r.model

\* eligible_route_models, the first: a configured model for the endpoint, and
\* eligible if it is among the candidates.
Leads(first, q, r) ==
  /\ first # NoModel
  /\ SupportsEndpoint(first, q)
  /\ first \in r.candidates => Selectable(first, q)

\* eligible_route_models, the models after the first.
Followers(q, r, first) ==
  {m \in r.candidates \ {first} : Selectable(m, q) /\ SupportsEndpoint(m, q)}

\* eligible_route_models, and in chat retain.
Settle ==
  /\ pc = "settle"
  /\ LET first == First(req, route) IN
     \/ /\ Forced(req) /\ first = NoModel
        /\ Refuse("force_missing") /\ UNCHANGED plan
     \/ /\ Forced(req) /\ first # NoModel /\ ~Eligible(first, req)
        /\ Refuse("force_ineligible") /\ UNCHANGED plan
     \/ /\ ~Forced(req) /\ ~Leads(first, req, route)
        /\ Refuse("no_model") /\ UNCHANGED plan
     \/ /\ Leads(first, req, route) /\ (Forced(req) => Eligible(first, req))
        /\ \E rest \in Orderings({m \in Followers(req, route, first) : Preserves(m, req)},
                                 route.score) :
             plan' = (IF Preserves(first, req) THEN <<first>> ELSE <<>>) \o rest
        /\ IF plan' = <<>> THEN Refuse("unsupported_adapter")
                           ELSE pc' = "planned" /\ reply' = "planned"
  /\ UNCHANGED <<req, penalty, route>>

\* Dispatches and probes change what health makes of a provider (ProviderHealth).
HealthChanges ==
  /\ \E p \in Providers, v \in Penalties : penalty' = [penalty EXCEPT ![p] = v]
  /\ UNCHANGED <<pc, req, route, plan, reply>>

Arrive ==
  \/ ChatCompletions \/ Responses \/ Embeddings \/ ImagesGenerations
  \/ AudioSpeech \/ AudioMultipart \/ ProviderRouter \/ Multimodel

Next == Arrive \/ Classified \/ Settle \/ HealthChanges
Spec == Init /\ [][Next]_vars
-----------------------------------------------------------------------------
\* The types of the variables, and that a plan has no model twice: Dispatch
\* takes it as a list of distinct candidates.
TypeOK ==
  /\ pc \in {"idle", "classify", "settle", "planned", "refused"}
  /\ req \in Inputs /\ reply \in Replies
  /\ penalty \in [Providers -> Penalties]
  /\ route.model \in Models \cup {NoModel} /\ route.candidates \subseteq Models
  /\ \A i, j \in DOMAIN plan : plan[i] \in Models /\ (plan[i] = plan[j] => i = j)

\* What a model must have to be sent a request, said without the code's helpers.
Serves(m, q) ==
  /\ q.endpoint \in ModelEndpoints[m] /\ q.endpoint \in ProviderEndpoints[ProviderOf[m]]
  /\ \A c \in q.needs : c \in Caps[m] /\ c \in AdapterCaps[ProviderOf[m]]
  /\ m \in DOMAIN Window => \/ q.input + q.output <= Window[m]
                            \/ Window[m] = MaxTokens
  /\ q.endpoint = "chat" => \A f \in q.uses : f \in Accepts[ProviderOf[m]]

\* No model is ever in a plan that cannot serve the request: not as the first,
\* not by failover, neither when it was named, forced, routed to nor the default.
\* Five separate filters (server.rs, router.rs, provider.rs) must agree on this.
PlanServes == \A i \in DOMAIN plan : Serves(plan[i], req)

\* And none is forgotten: an automatic request that is planned by score has every
\* model that can serve it in its plan, and one that is refused had none, unless
\* its prompt asks for information or safety forced its route.
NoneForgotten ==
  IsAutomatic(req) /\ req.endpoint \in Inference /\ ~route.asking /\ ~Forced(req) =>
    /\ pc = "planned" => \A m \in Models : Serves(m, req) => \E i \in DOMAIN plan : plan[i] = m
    /\ reply \in {"unsupported", "unsupported_adapter", "no_model"} =>
         \A m \in Models : ~Serves(m, req)

\* The plan is best first by the scores of its own routing, penalties included:
\* whatever health does later, and wherever ties put the first, nothing that
\* follows is better than what it follows.
BestFirst ==
  pc = "planned" /\ ~Forced(req) =>
    \A i, j \in DOMAIN plan : i < j => route.score[plan[i]] >= route.score[plan[j]]

\* A request that names a model is planned for that model alone (docs/usage.md:
\* explicit requests never fail over) or refused.
ExplicitAlone ==
  pc = "planned" /\ req.asks \in Handles => plan = <<Find[req.asks]>>

\* The default model is only ever the answer to a prompt that needs more
\* information: the two other fallbacks of route_internal find no default that
\* passes, because a default that passes would have been a candidate.
FallbackAsks == route.fallback /\ route.model # NoModel => route.asking

\* What /v1/router/multimodel and /v1/router/{provider} answer obeys the
\* client's filters, and has the capabilities and the context asked for.
AnswerWithinFilters ==
  reply = "answered" /\ route.model # NoModel =>
    /\ req.models # {} => \E h \in req.models : Find[h] = route.model
    /\ req.providers # {} => ProviderOf[route.model] \in req.providers
    /\ req.needs \subseteq Caps[route.model]

\* Whoever asked gets what it asked for and nothing besides: the model it names,
\* the default only for more information, an answer within its own filters.
AsAsked == ExplicitAlone /\ FallbackAsks /\ AnswerWithinFilters
=============================================================================
