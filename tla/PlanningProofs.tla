----------------------------- MODULE PlanningProofs -----------------------------
(***************************************************************************)
(* What module Planning promises of every request, for any models,          *)
(* providers, filters, scores and health penalties.                         *)
(***************************************************************************)
EXTENDS Planning, FiniteSetTheorems, TLAPS

\* What a route that waits to be settled is made of.
RouteFits(r, q) ==
  /\ r.model \in Models \cup {NoModel} /\ r.candidates \subseteq Models
  /\ r.score \in [Models -> Int]
  /\ r.model # NoModel => Selectable(r.model, q)
  /\ r.fallback /\ r.model # NoModel => r.asking
  /\ \A n \in r.candidates :
       r.model \in Models /\ (Selectable(n, q) => r.score[n] <= r.score[r.model])

Waiting(q) ==
  /\ pc \in {"classify", "settle"} /\ q.endpoint \in Inference => IsAutomatic(q)
  /\ q.endpoint \notin Inference => pc \in {"idle", "classify", "refused"}

IInv ==
  /\ TypeOK
  /\ Waiting(req)
  /\ RouteFits(route, req)
  /\ PlanServes /\ ExplicitAlone /\ AnswerWithinFilters /\ BestFirst
  /\ reply = "answered" => req.endpoint \notin Inference /\ pc = "refused"
  /\ pc # "planned" => plan = <<>>
-----------------------------------------------------------------------------
(* The routing engine.                                                      *)

LEMMA CandidatesAreModels ==
  ASSUME NEW q, q.default \in Handles
  PROVE  /\ RouteCandidates(q) \subseteq Models
         /\ AllowedFallback(q) \subseteq RouteCandidates(q)
         /\ \A m \in RouteCandidates(q) : AllowedByRequest(m, q)
BY RoutingAssumption DEF RoutingAssumption, RouteCandidates, AllowedFallback

LEMMA ScoreType ==
  ASSUME NEW q, NEW merit \in [Models -> Int], NEW pen \in [Providers -> Penalties]
  PROVE  Score(q, merit, pen) \in [Models -> Int]
<1> SUFFICES ASSUME NEW m \in Models
             PROVE  merit[m] - pen[ProviderOf[m]]
                      - (IF CapabilityEligible(m, q) THEN 0 ELSE ExclusionPenalty)
                      - (IF ContextEligible(m, q) THEN 0 ELSE ExclusionPenalty) \in Int
  BY DEF Score
<1>1. merit[m] \in Int OBVIOUS
<1>2. pen[ProviderOf[m]] \in Int
  BY RoutingAssumption, PlanningAssumption DEF RoutingAssumption, PlanningAssumption
<1>3. ExclusionPenalty \in Int BY RoutingAssumption DEF RoutingAssumption
<1> QED BY <1>1, <1>2, <1>3

\* A route to a model is to one that can take the request and that it allows;
\* only a prompt that needs information falls back to one; and nothing that is
\* selectable among the candidates scores better.
LEMMA RouteFound ==
  ASSUME NEW q, q.default \in Handles, NEW asking \in BOOLEAN, NEW merit \in [Models -> Int],
         NEW pen \in [Providers -> Penalties], NEW r \in RoutesOf(q, asking, merit, pen)
  PROVE  /\ RouteFits(r, q)
         /\ r.model # NoModel => AllowedByRequest(r.model, q)
         /\ r.candidates \subseteq RouteCandidates(q)
<1> DEFINE score == Score(q, merit, pen)
           eligibleDefault == {m \in AllowedFallback(q) : Selectable(m, q)}
           best == {m \in Models : IsBest(m, q, score)}
<1>1. score \in [Models -> Int] BY ScoreType
<1>2. /\ RouteCandidates(q) \subseteq Models
      /\ AllowedFallback(q) \subseteq RouteCandidates(q)
      /\ \A m \in RouteCandidates(q) : AllowedByRequest(m, q)
  BY CandidatesAreModels
<1>3. NoModel \notin Models BY RoutingAssumption DEF RoutingAssumption
<1>4. \A S, a : FallbackTo(S, a, score).model = NoModel <=> S = {} \/ (CHOOSE m \in S : TRUE) = NoModel
  BY DEF FallbackTo
<1> HIDE DEF score
<1>5. CASE asking
  <2>1. r = FallbackTo(eligibleDefault, TRUE, score) BY <1>5 DEF RoutesOf, score
  <2>2. eligibleDefault # {} => (CHOOSE m \in eligibleDefault : TRUE) \in eligibleDefault OBVIOUS
  <2> HIDE DEF eligibleDefault
  <2>3. /\ r.model = IF eligibleDefault = {} THEN NoModel ELSE CHOOSE m \in eligibleDefault : TRUE
        /\ r.fallback = TRUE /\ r.asking = TRUE /\ r.candidates = {} /\ r.score = score
    BY <2>1 DEF FallbackTo
  <2>4. r.model # NoModel => r.model \in eligibleDefault BY <2>2, <2>3
  <2>5. r.model # NoModel => r.model \in RouteCandidates(q) /\ Selectable(r.model, q)
    BY <2>4, <1>2 DEF eligibleDefault
  <2> QED BY <1>1, <1>2, <2>3, <2>5 DEF RouteFits
<1>6. CASE ~asking /\ RouteCandidates(q) = {}
  <2>1. r = FallbackTo({}, FALSE, score) BY <1>6, <1>2 DEF RoutesOf, score
  <2> QED BY <2>1, <1>1 DEF FallbackTo, RouteFits
<1>7. CASE ~asking /\ RouteCandidates(q) # {}
  <2>1. PICK m \in best : r = IF Selectable(m, q)
                             THEN [model |-> m, fallback |-> FALSE, asking |-> FALSE,
                                   candidates |-> RouteCandidates(q), score |-> score]
                             ELSE FallbackTo(eligibleDefault, FALSE, score)
    BY <1>7 DEF RoutesOf, score
  <2>2. m \in RouteCandidates(q) /\ \A n \in RouteCandidates(q) : NotBetter(n, m, q, score)
    BY <2>1 DEF IsBest
  <2>3. CASE Selectable(m, q)
    <3>1. \A n \in RouteCandidates(q) : Selectable(n, q) => score[n] <= score[m]
      <4> SUFFICES ASSUME NEW n \in RouteCandidates(q), Selectable(n, q) PROVE score[n] <= score[m]
        OBVIOUS
      <4>1. score[n] < score[m] \/ score[n] = score[m] BY <2>2, <2>3 DEF NotBetter
      <4>2. score[n] \in Int /\ score[m] \in Int BY <1>1, <1>2, <2>2
      <4> QED BY <4>1, <4>2
    <3>2. /\ r.model = m /\ r.fallback = FALSE /\ r.candidates = RouteCandidates(q)
          /\ r.score = score
      BY <2>1, <2>3
    <3> QED BY <1>1, <1>2, <2>2, <2>3, <3>1, <3>2 DEF RouteFits
  <2>4. CASE ~Selectable(m, q)
    <3>1. eligibleDefault = {} BY <1>2, <2>2, <2>4 DEF NotBetter
    <3>2. r.model = NoModel /\ r.candidates = {} /\ r.score = score
      BY <2>1, <2>4, <3>1 DEF FallbackTo
    <3> QED BY <1>1, <3>2 DEF RouteFits
  <2> QED BY <2>3, <2>4
<1> QED BY <1>5, <1>6, <1>7

\* An ordering lists members of its set, each at most once, best first.
LEMMA OrderingSound ==
  ASSUME NEW S, S \subseteq Models, NEW score \in [Models -> Int], NEW s \in Orderings(S, score)
  PROVE  /\ s \in Seq(S)
         /\ \A i, j \in DOMAIN s : s[i] = s[j] => i = j
         /\ \A i, j \in DOMAIN s : i < j => score[s[i]] >= score[s[j]]
<1>1. s \in [1 .. Cardinality(S) -> S] BY DEF Orderings
<1>2. Cardinality(S) \in Nat
  BY RoutingAssumption, FS_Subset, FS_CardinalityType DEF RoutingAssumption
<1>3. s \in Seq(S) BY <1>1, <1>2
<1>4. \A m \in Models : score[m] \in Int OBVIOUS
<1>5. \A m \in Models : Rank[m] \in Nat BY RoutingAssumption DEF RoutingAssumption
<1>6. \A i, j \in DOMAIN s : i < j =>
        s[i] \in Models /\ s[j] \in Models /\ s[i] # s[j] /\ score[s[i]] >= score[s[j]]
  BY <1>1, <1>4, <1>5 DEF Orderings, Before
<1>7. DOMAIN s \subseteq Nat BY <1>1, <1>2
<1> QED BY <1>3, <1>6, <1>7
-----------------------------------------------------------------------------
(* The handlers.                                                            *)

\* Beyond chat no adapter is asked what it preserves.
LEMMA AllAllowed ==
  ASSUME NEW q, q.endpoint # "chat"
  PROVE  EndpointModels(q) = AllowedModels(q)
BY DEF EndpointModels, AllowedModels, Preserves

\* The filters of the code are what Serves asks for.
LEMMA FiltersServe ==
  ASSUME NEW q \in Inputs, NEW m \in Models, SupportsEndpoint(m, q), Selectable(m, q),
         Preserves(m, q)
  PROVE  Serves(m, q)
<1>1. q.input \in Nat /\ q.output \in Nat /\ MaxTokens \in Nat
  BY RoutingAssumption, PlanningAssumption DEF RoutingAssumption, PlanningAssumption, Requests
<1>2. ASSUME m \in DOMAIN Window
      PROVE  q.input + q.output <= Window[m] \/ Window[m] = MaxTokens
  <2>1. Window[m] \in 0 .. MaxTokens BY <1>2, RoutingAssumption DEF RoutingAssumption
  <2>2. ContextRequired(q) <= Window[m] BY <1>2 DEF Selectable, ContextEligible
  <2> QED BY <1>1, <2>1, <2>2 DEF ContextRequired
<1>3. q.needs \subseteq Caps[m] /\ q.needs \subseteq AdapterCaps[ProviderOf[m]]
  BY DEF Selectable, CapabilityEligible
<1>4. q.endpoint = "chat" => q.uses \subseteq Accepts[ProviderOf[m]] BY DEF Preserves
<1> QED BY <1>2, <1>3, <1>4 DEF Serves, SupportsEndpoint

\* What the filters of an inference handler make of a request is its own needs.
LEMMA RoutedKeeps ==
  ASSUME NEW q \in Requests
  PROVE  /\ Routed(q) \in Requests
         /\ \A m : Selectable(m, Routed(q)) <=> Selectable(m, q)
         /\ q.endpoint \in Inference => Routed(q).models = AllowedModels(q)
         /\ q.endpoint \notin Inference => Routed(q) = q
<1>1. AllowedModels(q) \subseteq Handles /\ AllowedProviders(q) \subseteq Providers
      /\ DefaultModel \in Handles
  BY RoutingAssumption, PlanningAssumption
     DEF RoutingAssumption, PlanningAssumption, AllowedModels, EndpointModels, AllowedProviders
<1>2. Routed(q) \in Requests BY <1>1 DEF Routed, Requests
<1>3. /\ Routed(q).needs = q.needs /\ Routed(q).input = q.input /\ Routed(q).output = q.output
      /\ q.endpoint \in Inference => Routed(q).models = AllowedModels(q)
      /\ q.endpoint \notin Inference => Routed(q) = q
  BY DEF Routed, Requests
<1> HIDE DEF Routed
<1> QED BY <1>2, <1>3 DEF Selectable, CapabilityEligible, ContextEligible, ContextRequired

LEMMA InputTypes == \A q \in Inputs : q \in Requests /\ q.default \in Handles
BY PlanningAssumption DEF PlanningAssumption, Requests

\* Initially nothing is planned.
LEMMA InitIInv == ASSUME Init PROVE IInv
<1>1. TypeOK BY PlanningAssumption DEF PlanningAssumption, Init, TypeOK, NoRoute, Replies
<1>2. RouteFits(route, req) BY DEF Init, NoRoute, RouteFits
<1> QED BY <1>1, <1>2 DEF Init, IInv, Waiting, PlanServes, ExplicitAlone, AnswerWithinFilters, BestFirst

\* The frame of an action that leaves request, route and plan alone and plans nothing.
LEMMA Keeps ==
  ASSUME IInv, UNCHANGED <<req, route, plan>>, pc # "planned", pc' # "planned", pc' \in {"classify", "refused"},
         reply' \in Replies, reply' # "answered", penalty' \in [Providers -> Penalties],
         Waiting(req)'
  PROVE  IInv'
<1>1. plan' = <<>> BY DEF IInv
<1>2. TypeOK' BY <1>1 DEF IInv, TypeOK
<1>3. RouteFits(route, req)' BY DEF IInv
<1> QED BY <1>1, <1>2, <1>3 DEF IInv, PlanServes, ExplicitAlone, AnswerWithinFilters, BestFirst

\* An explicit request is planned for its own model or refused.
LEMMA ExplicitStep ==
  ASSUME IInv, pc = "idle", req.endpoint \in Inference, req.asks \in Handles, AdmitExplicit(req),
         UNCHANGED <<req, penalty, route>>
  PROVE  IInv'
<1> DEFINE m == Find[req.asks]
<1>1. req \in Inputs /\ plan = <<>> BY DEF IInv, TypeOK
<1>2. m \in Models \cup {NoModel} BY RoutingAssumption DEF RoutingAssumption
<1>3. CASE pc' = "refused" /\ UNCHANGED plan
  <2>1. reply' \in Replies /\ reply' # "answered" BY <1>3, <1>1 DEF AdmitExplicit, Refuse, Replies
  <2>2. penalty' \in [Providers -> Penalties] BY DEF IInv, TypeOK
  <2>3. Waiting(req)' BY <1>3 DEF Waiting
  <2> QED BY <1>3, <2>1, <2>2, <2>3, Keeps
<1>4. CASE /\ m # NoModel /\ Preserves(m, req) /\ Eligible(m, req)
           /\ pc' = "planned" /\ reply' = "planned" /\ plan' = <<m>>
  <2>1. m \in Models BY <1>2, <1>4
  <2>2. Serves(m, req) BY <2>1, <1>1, <1>4, FiltersServe DEF Eligible
  <2> HIDE DEF m
  <2>3. DOMAIN plan' = {1} /\ plan'[1] = m BY <1>4
  <2>4. TypeOK' BY <1>4, <2>1, <2>3 DEF IInv, TypeOK, Replies
  <2>5. PlanServes' BY <2>2, <2>3 DEF PlanServes
  <2>6. ExplicitAlone' BY <1>4 DEF ExplicitAlone, m
  <2>7. BestFirst' BY <2>3 DEF BestFirst
  <2>8. RouteFits(route, req)' BY DEF IInv
  <2> QED BY <1>4, <2>4, <2>5, <2>6, <2>7, <2>8 DEF IInv, AnswerWithinFilters, Waiting
<1> QED BY <1>3, <1>4 DEF AdmitExplicit, Refuse

\* What the inference handlers share keeps the invariant.
LEMMA AdmitStep ==
  ASSUME IInv, NEW unsafe \in {"none", "rejected", "unredactable"}, req.endpoint \in Inference,
         Admit(unsafe, AllowedModels(req))
  PROVE  IInv'
<1>1. UNCHANGED <<req, penalty, route>> /\ pc = "idle" BY DEF Admit
<1>2. penalty' \in [Providers -> Penalties] BY <1>1 DEF IInv, TypeOK
<1>3. CASE req.valid /\ req.asks \in Handles /\ AdmitExplicit(req)
  BY <1>1, <1>3, ExplicitStep
<1>4. CASE \/ ~req.valid /\ Refuse("invalid") /\ UNCHANGED plan
           \/ req.valid /\ req.asks = "router-unknown" /\ Refuse("unknown_policy") /\ UNCHANGED plan
  <2>1. pc' = "refused" /\ reply' \in Replies /\ reply' # "answered" /\ UNCHANGED plan
    BY <1>4 DEF Refuse, Replies
  <2>2. Waiting(req)' BY <1>1, <2>1 DEF Waiting
  <2> QED BY <1>1, <1>2, <2>1, <2>2, Keeps
<1>5. CASE /\ req.valid /\ IsAutomatic(req)
           /\ AdmitAutomatic(req, unsafe, AllowedModels(req)) /\ UNCHANGED plan
  <2>1. \/ pc' = "refused" /\ reply' \in Replies /\ reply' # "answered"
        \/ pc' = "classify" /\ reply' = reply
    BY <1>5 DEF AdmitAutomatic, Refuse, Replies
  <2>2. reply \in Replies /\ reply # "answered" BY <1>1 DEF IInv, TypeOK
  <2>3. Waiting(req)' BY <1>1, <1>5, <2>1 DEF Waiting, IsAutomatic
  <2> QED BY <1>1, <1>2, <1>5, <2>1, <2>2, <2>3, Keeps
<1> QED BY <1>3, <1>4, <1>5 DEF Admit

LEMMA ArriveStep == ASSUME IInv, Arrive PROVE IInv'
<1>1. Unsafe(req) \in {"none", "rejected", "unredactable"} BY DEF Unsafe
<1>2. CASE ChatCompletions
  BY <1>1, <1>2, AdmitStep DEF ChatCompletions, AllowedModels, Inference
<1>3. CASE Responses
  BY <1>1, <1>3, AdmitStep, AllAllowed DEF Responses, Inference
<1>4. CASE Embeddings \/ ImagesGenerations \/ AudioSpeech \/ AudioMultipart
  BY <1>4, AdmitStep, AllAllowed
     DEF Embeddings, ImagesGenerations, AudioSpeech, AudioMultipart, Audio, Inference
<1>5. CASE ProviderRouter \/ Multimodel
  <2>1. /\ UNCHANGED <<req, penalty, route, plan>> /\ req.endpoint \in {"provider", "multimodel"}
        /\ pc = "idle"
        /\ \/ pc' = "classify" /\ reply' = reply
           \/ pc' = "refused" /\ reply' = "unknown_provider"
    BY <1>5 DEF ProviderRouter, Multimodel, Refuse
  <2>2. /\ reply' \in Replies /\ reply' # "answered"
        /\ penalty' \in [Providers -> Penalties]
    BY <2>1 DEF IInv, TypeOK, Replies, Inference
  <2>3. Waiting(req)' BY <2>1 DEF Waiting, Inference
  <2> QED BY <2>1, <2>2, <2>3, Keeps
<1> QED BY <1>2, <1>3, <1>4, <1>5 DEF Arrive

\* What the classifier's answer is routed to can take the request.
LEMMA ClassifiedStep == ASSUME IInv, Classified PROVE IInv'
<1>1. PICK opinion \in Opinions[RouteInput(req)] :
        route' \in RoutesOf(Routed(req), opinion.asking, opinion.merit, penalty)
  BY DEF Classified
<1>2. req \in Requests /\ req \in Inputs /\ penalty \in [Providers -> Penalties]
  BY InputTypes DEF IInv, TypeOK
<1>3. opinion.asking \in BOOLEAN /\ opinion.merit \in [Models -> Int]
  <2>1. RouteInput(req) \in Prompts
    BY <1>2, PlanningAssumption DEF PlanningAssumption, Requests, RouteInput
  <2> QED BY <2>1, PlanningAssumption DEF PlanningAssumption
<1>4. Routed(req).default \in Handles BY <1>2, RoutedKeeps DEF Requests
<1>5. /\ RouteFits(route', Routed(req))
      /\ route'.model # NoModel => AllowedByRequest(route'.model, Routed(req))
  <2> HIDE DEF Routed
  <2> QED BY <1>1, <1>2, <1>3, <1>4, RouteFound
<1>6. RouteFits(route', req)
  BY <1>2, <1>5, RoutedKeeps DEF RouteFits
<1>7. /\ pc = "classify" /\ UNCHANGED <<req, penalty, plan>> /\ pc' \in {"settle", "refused"}
      /\ req.endpoint \in Inference => pc' = "settle" /\ reply' = reply
      /\ req.endpoint \notin Inference => pc' = "refused" /\ reply' = "answered"
  BY DEF Classified
<1>8. plan' = <<>> BY <1>7 DEF IInv
<1>9. TypeOK' BY <1>6, <1>7, <1>8 DEF IInv, TypeOK, RouteFits, Replies
<1>10. AnswerWithinFilters'
  <2>1. CASE req.endpoint \in Inference BY <1>7, <2>1 DEF IInv, AnswerWithinFilters
  <2>2. CASE req.endpoint \notin Inference
    <3>1. Routed(req) = req BY <1>2, <2>2, RoutedKeeps
    <3>2. route'.model # NoModel =>
            AllowedByRequest(route'.model, req) /\ Selectable(route'.model, req)
      BY <1>5, <1>6, <3>1 DEF RouteFits
    <3> QED BY <1>7, <3>2
            DEF AnswerWithinFilters, AllowedByRequest, Selectable, CapabilityEligible
  <2> QED BY <2>1, <2>2
<1>11. Waiting(req)' BY <1>7 DEF IInv, Waiting
<1>12. (reply = "answered" => req.endpoint \notin Inference /\ pc = "refused")'
  BY <1>7 DEF IInv
<1> QED BY <1>6, <1>7, <1>8, <1>9, <1>10, <1>11, <1>12
        DEF IInv, PlanServes, ExplicitAlone, BestFirst

\* The members of a plan, and their order, when its first is followed by rest.
LEMMA Concatenated ==
  \A S, m : \A rest \in Seq(S) :
    /\ (<<m>> \o rest) \in Seq(S \cup {m}) /\ Len(<<m>> \o rest) = Len(rest) + 1
    /\ (<<m>> \o rest)[1] = m
    /\ \A i \in 2 .. Len(rest) + 1 : i - 1 \in DOMAIN rest /\ (<<m>> \o rest)[i] = rest[i - 1]
OBVIOUS

\* What the plan of an automatic request is made of.
LEMMA Planned ==
  ASSUME IInv, pc = "settle", NEW rest, NEW first, first = First(req, route),
         Leads(first, req, route), Forced(req) => Eligible(first, req),
         rest \in Orderings({m \in Followers(req, route, first) : Preserves(m, req)}, route.score),
         NEW p, p = (IF Preserves(first, req) THEN <<first>> ELSE <<>>) \o rest
  PROVE  /\ \A i \in DOMAIN p : p[i] \in Models /\ Serves(p[i], req)
         /\ \A i, j \in DOMAIN p : p[i] = p[j] => i = j
         /\ ~Forced(req) =>
              \A i, j \in DOMAIN p : i < j => route.score[p[i]] >= route.score[p[j]]
<1> DEFINE F == {m \in Followers(req, route, first) : Preserves(m, req)}
<1>1. /\ req \in Inputs /\ route.score \in [Models -> Int] /\ route.candidates \subseteq Models
      /\ route.model \in Models \cup {NoModel}
  BY DEF IInv, TypeOK, RouteFits
<1>2. /\ F \subseteq Models /\ first \notin F /\ F \subseteq route.candidates
      /\ \A m \in F : Selectable(m, req) /\ SupportsEndpoint(m, req) /\ Preserves(m, req)
  BY <1>1 DEF Followers
<1>3. /\ rest \in Seq(F)
      /\ \A i, j \in DOMAIN rest : rest[i] = rest[j] => i = j
      /\ \A i, j \in DOMAIN rest : i < j => route.score[rest[i]] >= route.score[rest[j]]
  <2> HIDE DEF F
  <2>1. rest \in Orderings(F, route.score) BY DEF F
  <2> QED BY <1>1, <1>2, <2>1, OrderingSound
<1>4. \A m \in F : Serves(m, req) BY <1>1, <1>2, FiltersServe
<1>5. first \in Models
  BY <1>1, RoutingAssumption, PlanningAssumption
     DEF Leads, First, RoutingAssumption, PlanningAssumption
<1>6. Selectable(first, req)
  BY DEF Leads, First, Eligible, IInv, RouteFits
<1>7. Preserves(first, req) => Serves(first, req)
  BY <1>1, <1>5, <1>6, FiltersServe DEF Leads
<1>8. ~Forced(req) => \A m \in F : route.score[first] >= route.score[m]
  BY <1>1, <1>2, <1>5 DEF IInv, RouteFits, First
<1> HIDE DEF F
<1>9. CASE Preserves(first, req)
  <2>1. p = <<first>> \o rest BY <1>9
  <2>2. /\ p \in Seq(F \cup {first}) /\ Len(p) = Len(rest) + 1 /\ p[1] = first
        /\ \A i \in 2 .. Len(p) : i - 1 \in DOMAIN rest /\ p[i] = rest[i - 1]
    <3>1. rest \in Seq(F) BY <1>3
    <3>2. /\ (<<first>> \o rest) \in Seq(F \cup {first}) /\ Len(<<first>> \o rest) = Len(rest) + 1
          /\ (<<first>> \o rest)[1] = first
          /\ \A i \in 2 .. Len(rest) + 1 :
               i - 1 \in DOMAIN rest /\ (<<first>> \o rest)[i] = rest[i - 1]
      BY <3>1, Concatenated
    <3> QED BY <2>1, <3>2
  <2>3. DOMAIN p = 1 .. Len(p) /\ Len(p) \in Nat BY <2>2
  <2>4. \A i \in DOMAIN p : i = 1 \/ (i \in 2 .. Len(p) /\ p[i] \in F)
    BY <2>2, <2>3, <1>3
  <2>5. \A i \in DOMAIN p : p[i] \in Models /\ Serves(p[i], req)
    BY <1>2, <1>4, <1>5, <1>7, <1>9, <2>2, <2>4
  <2>6. ASSUME NEW i \in DOMAIN p, NEW j \in DOMAIN p, p[i] = p[j] PROVE i = j
    <3>1. CASE i = 1 BY <1>2, <2>2, <2>4, <2>6, <3>1
    <3>2. CASE j = 1 BY <1>2, <2>2, <2>4, <2>6, <3>2
    <3>3. CASE i \in 2 .. Len(p) /\ j \in 2 .. Len(p)
      <4>1. i - 1 = j - 1 BY <1>3, <2>2, <2>6, <3>3
      <4> QED BY <4>1, <3>3
    <3> QED BY <2>4, <3>1, <3>2, <3>3
  <2>7. ASSUME ~Forced(req), NEW i \in DOMAIN p, NEW j \in DOMAIN p, i < j
        PROVE  route.score[p[i]] >= route.score[p[j]]
    <3>1. j \in 2 .. Len(p) /\ p[j] \in F BY <2>3, <2>4, <2>7
    <3>2. CASE i = 1 BY <1>8, <2>2, <2>7, <3>1, <3>2
    <3>3. CASE i \in 2 .. Len(p)
      <4>1. i - 1 \in DOMAIN rest /\ j - 1 \in DOMAIN rest /\ i - 1 < j - 1
        BY <2>2, <2>7, <3>1, <3>3
      <4>2. p[i] = rest[i - 1] /\ p[j] = rest[j - 1] BY <2>2, <3>1, <3>3
      <4> QED BY <1>3, <4>1, <4>2
    <3> QED BY <2>4, <3>2, <3>3
  <2> QED BY <2>5, <2>6, <2>7
<1>10. CASE ~Preserves(first, req)
  <2>1. p = rest BY <1>3, <1>10
  <2>2. \A i \in DOMAIN rest : rest[i] \in F BY <1>3
  <2> QED BY <1>2, <1>3, <1>4, <2>1, <2>2
<1> QED BY <1>9, <1>10

LEMMA SettleStep == ASSUME IInv, Settle PROVE IInv'
<1> DEFINE first == First(req, route)
<1>1. pc = "settle" /\ UNCHANGED <<req, penalty, route>> BY DEF Settle
<1>2. penalty' \in [Providers -> Penalties] BY <1>1 DEF IInv, TypeOK
<1>3. plan = <<>> /\ req.endpoint \in Inference /\ IsAutomatic(req) /\ reply # "answered"
  BY <1>1 DEF IInv, Waiting
<1>4. CASE pc' = "refused" /\ UNCHANGED plan
           /\ reply' \in {"force_missing", "force_ineligible", "no_model"}
  <2>1. Waiting(req)' BY <1>1, <1>3, <1>4 DEF Waiting
  <2>2. reply' \in Replies BY <1>4 DEF Replies
  <2> QED BY <1>1, <1>2, <1>4, <2>1, <2>2, Keeps
<1>5. CASE /\ Leads(first, req, route) /\ (Forced(req) => Eligible(first, req))
           /\ \E rest \in Orderings({m \in Followers(req, route, first) : Preserves(m, req)},
                                    route.score) :
                plan' = (IF Preserves(first, req) THEN <<first>> ELSE <<>>) \o rest
           /\ IF plan' = <<>> THEN Refuse("unsupported_adapter")
                              ELSE pc' = "planned" /\ reply' = "planned"
  <2>1. /\ \A i \in DOMAIN plan' : plan'[i] \in Models /\ Serves(plan'[i], req)
        /\ \A i, j \in DOMAIN plan' : plan'[i] = plan'[j] => i = j
        /\ ~Forced(req) => \A i, j \in DOMAIN plan' :
                             i < j => route.score[plan'[i]] >= route.score[plan'[j]]
    BY <1>1, <1>5, Planned
  <2>2. /\ pc' \in {"refused", "planned"} /\ (pc' # "planned" => plan' = <<>>)
        /\ reply' \in {"unsupported_adapter", "planned"}
    BY <1>5 DEF Refuse
  <2>3. TypeOK' BY <1>1, <2>1, <2>2 DEF IInv, TypeOK, Replies
  <2>4. PlanServes' BY <1>1, <2>1 DEF PlanServes, Serves
  <2>5. BestFirst' BY <1>1, <2>1 DEF BestFirst, Forced, SafetyAction, IsAutomatic
  <2>6. ExplicitAlone'
    BY <1>1, <1>3, PlanningAssumption DEF ExplicitAlone, IsAutomatic, Automatic, PlanningAssumption
  <2>7. RouteFits(route, req)' BY <1>1 DEF IInv
  <2> QED BY <1>1, <1>3, <2>2, <2>3, <2>4, <2>5, <2>6, <2>7 DEF IInv, Waiting, AnswerWithinFilters
<1> QED BY <1>4, <1>5 DEF Settle, Refuse

LEMMA HealthStep == ASSUME IInv, HealthChanges \/ UNCHANGED vars PROVE IInv'
<1>1. UNCHANGED <<pc, req, route, plan, reply>> BY DEF HealthChanges, vars
<1>2. penalty' \in [Providers -> Penalties]
  BY DEF IInv, TypeOK, HealthChanges, vars
<1>3. TypeOK' BY <1>1, <1>2 DEF IInv, TypeOK
<1>4. (PlanServes /\ ExplicitAlone /\ AnswerWithinFilters /\ BestFirst)'
  BY <1>1 DEF IInv, PlanServes, Serves, ExplicitAlone, AnswerWithinFilters, BestFirst,
              Forced, SafetyAction, IsAutomatic
<1> QED BY <1>1, <1>3, <1>4 DEF IInv, Waiting, RouteFits

\* The invariant holds of every step that a handler or provider health takes.
THEOREM Invariance == Spec => []IInv
<1>1. Init => IInv BY InitIInv
<1>2. IInv /\ [Next]_vars => IInv'
  BY ArriveStep, ClassifiedStep, SettleStep, HealthStep DEF Next
<1> QED BY <1>1, <1>2, PTL DEF Spec

\* Every variable keeps its type and no plan has a model twice.
THEOREM TypeCorrect == Spec => []TypeOK
<1>1. IInv => TypeOK BY DEF IInv
<1> QED BY <1>1, Invariance, PTL

\* Whatever is routed to, forced or named, and whatever health does meanwhile,
\* every model of a plan can serve the request.
THEOREM PlansServe == Spec => []PlanServes
<1>1. IInv => PlanServes BY DEF IInv
<1> QED BY <1>1, Invariance, PTL

\* A plan never goes from a model to a better one.
THEOREM PlansBestFirst == Spec => []BestFirst
<1>1. IInv => BestFirst BY DEF IInv
<1> QED BY <1>1, Invariance, PTL

\* A named model is never substituted.
THEOREM NamedModelAlone == Spec => []ExplicitAlone
<1>1. IInv => ExplicitAlone BY DEF IInv
<1> QED BY <1>1, Invariance, PTL

\* The default model only ever answers a prompt that needs more information.
THEOREM DefaultOnlyAsks == Spec => []FallbackAsks
<1>1. IInv => FallbackAsks BY DEF IInv, RouteFits, FallbackAsks
<1> QED BY <1>1, Invariance, PTL

\* What the routing endpoints answer obeys the filters of the client.
THEOREM AnswersObeyFilters == Spec => []AnswerWithinFilters
<1>1. IInv => AnswerWithinFilters BY DEF IInv
<1> QED BY <1>1, Invariance, PTL

\* Whoever asked gets what it asked for and nothing besides.
THEOREM AskedFor == Spec => []AsAsked
<1>1. IInv => AsAsked BY DEF IInv, RouteFits, AsAsked, FallbackAsks
<1> QED BY <1>1, Invariance, PTL
-----------------------------------------------------------------------------
(* That no model is forgotten.                                              *)

\* The filters of the code keep every model that can serve the request.
LEMMA ServesPasses ==
  ASSUME NEW q \in Inputs, NEW m \in Models, Serves(m, q)
  PROVE  SupportsEndpoint(m, q) /\ Selectable(m, q) /\ Preserves(m, q)
<1>1. q.input \in Nat /\ q.output \in Nat /\ MaxTokens \in Nat
  BY RoutingAssumption, PlanningAssumption DEF RoutingAssumption, PlanningAssumption, Requests
<1>2. ASSUME m \in DOMAIN Window PROVE ContextRequired(q) <= Window[m]
  <2>1. Window[m] \in 0 .. MaxTokens BY <1>2, RoutingAssumption DEF RoutingAssumption
  <2>2. q.input + q.output <= Window[m] \/ Window[m] = MaxTokens BY <1>2 DEF Serves
  <2> QED BY <1>1, <2>1, <2>2 DEF ContextRequired
<1>3. Selectable(m, q)
  BY <1>2 DEF Serves, Selectable, CapabilityEligible, ContextEligible
<1>4. SupportsEndpoint(m, q) BY DEF Serves, SupportsEndpoint
<1> QED BY <1>3, <1>4 DEF Serves, Preserves

\* Some model can serve an automatic request, which is not asked about.
Servable == IsAutomatic(req) /\ req.endpoint \in Inference /\ \E m \in Models : Serves(m, req)

\* The route that waits to be settled is to a model that may lead the plan, and has
\* every model that can serve the request among its candidates.
RouteComplete ==
  pc = "settle" /\ Servable /\ ~route.asking =>
    /\ Leads(route.model, req, route) /\ Preserves(route.model, req)
    /\ \A m \in Models : Serves(m, req) => m \in route.candidates

\* Nothing was replied before there is a plan or a refusal.
Undecided == pc \in {"idle", "classify", "settle"} => reply = "none"

CompleteInv == Undecided /\ RouteComplete /\ NoneForgotten

\* When some model can serve the request, every candidate of its routing is one that
\* the handler allows, and those that can serve it are all candidates.
LEMMA CandidatesComplete ==
  ASSUME NEW q \in Inputs, q.endpoint \in Inference, NEW s \in Models, Serves(s, q)
  PROVE  /\ \A m \in Models : Serves(m, q) => m \in RouteCandidates(Routed(q))
         /\ RouteCandidates(Routed(q)) \subseteq AllowedModels(q)
<1> DEFINE w == Routed(q)
<1>1. /\ w.models = AllowedModels(q) /\ w.providers = AllowedProviders(q)
      /\ AllowedModels(q) \subseteq Models
  <2>1. q \in Requests BY InputTypes
  <2> QED BY <2>1 DEF Routed, Requests, AllowedModels, EndpointModels
<1> HIDE DEF w
<1>2. ASSUME NEW m \in Models, Serves(m, q)
      PROVE  m \in AllowedModels(q) /\ AllowedByRequest(m, w)
  <2>1. SupportsEndpoint(m, q) /\ Preserves(m, q) BY <1>2, ServesPasses
  <2>2. m \in AllowedModels(q) BY <2>1 DEF AllowedModels, EndpointModels
  <2>3. ProviderOf[m] \in AllowedProviders(q)
    BY <2>1, RoutingAssumption DEF RoutingAssumption, AllowedProviders, SupportsEndpoint
  <2>4. Find[m] = m BY RoutingAssumption DEF RoutingAssumption
  <2> QED BY <1>1, <2>2, <2>3, <2>4 DEF AllowedByRequest
<1>3. s \in {m \in Models : AllowedByRequest(m, w)} BY <1>2
<1>4. RouteCandidates(w) = {m \in Models : AllowedByRequest(m, w)} BY <1>3 DEF RouteCandidates
<1>5. ASSUME NEW m \in Models, AllowedByRequest(m, w) PROVE m \in AllowedModels(q)
  <2>1. AllowedModels(q) # {} BY <1>2
  <2>2. PICK h \in AllowedModels(q) : Find[h] = m BY <1>1, <1>5, <2>1 DEF AllowedByRequest
  <2>3. Find[h] = h BY <1>1, <2>2, RoutingAssumption DEF RoutingAssumption
  <2> QED BY <2>2, <2>3
<1> QED BY <1>2, <1>4, <1>5 DEF w

\* What route_internal makes of that.
LEMMA RouteIsComplete ==
  ASSUME NEW q \in Inputs, q.endpoint \in Inference, NEW s \in Models, Serves(s, q),
         NEW merit \in [Models -> Int], NEW pen \in [Providers -> Penalties],
         NEW r \in RoutesOf(Routed(q), FALSE, merit, pen)
  PROVE  /\ r.model \in AllowedModels(q) /\ Selectable(r.model, q)
         /\ \A m \in Models : Serves(m, q) => m \in r.candidates
<1> DEFINE w == Routed(q)
           score == Score(w, merit, pen)
           eligibleDefault == {m \in AllowedFallback(w) : Selectable(m, w)}
<1>1. \A m : Selectable(m, w) <=> Selectable(m, q) BY InputTypes, RoutedKeeps
<1>2. /\ \A m \in Models : Serves(m, q) => m \in RouteCandidates(w)
      /\ RouteCandidates(w) \subseteq AllowedModels(q)
  BY CandidatesComplete
<1> HIDE DEF w, score
<1>3. s \in RouteCandidates(w) /\ Selectable(s, w) BY <1>1, <1>2, ServesPasses
<1>4. PICK m \in Models :
        /\ IsBest(m, w, score)
        /\ r = IF Selectable(m, w)
               THEN [model |-> m, fallback |-> FALSE, asking |-> FALSE,
                     candidates |-> RouteCandidates(w), score |-> score]
               ELSE FallbackTo(eligibleDefault, FALSE, score)
  <2>1. r \in RoutesOf(w, FALSE, merit, pen) BY DEF w
  <2>2. RouteCandidates(w) # {} BY <1>3
  <2> QED BY <2>1, <2>2 DEF RoutesOf, score
<1>5. m \in RouteCandidates(w) /\ NotBetter(s, m, w, score) BY <1>3, <1>4 DEF IsBest
<1>6. Selectable(m, w) BY <1>3, <1>5 DEF NotBetter
<1>7. r.model = m /\ r.candidates = RouteCandidates(w) BY <1>4, <1>6
<1> QED BY <1>1, <1>2, <1>5, <1>6, <1>7

\* An ordering lists every member of its set.
LEMMA OrderingComplete ==
  ASSUME NEW S, S \subseteq Models, NEW score \in [Models -> Int], NEW s \in Orderings(S, score),
         NEW m \in S
  PROVE  \E i \in DOMAIN s : s[i] = m
<1>1. SUFFICES ASSUME \A i \in DOMAIN s : s[i] # m PROVE FALSE OBVIOUS
<1> DEFINE n == Cardinality(S)
<1>2. IsFiniteSet(S) /\ n \in Nat
  BY RoutingAssumption, FS_Subset, FS_CardinalityType DEF RoutingAssumption
<1>3. IsFiniteSet(S \ {m}) /\ Cardinality(S \ {m}) = n - 1 BY <1>2, FS_RemoveElement
<1>4. IsFiniteSet(1 .. n) /\ Cardinality(1 .. n) = n BY <1>2, FS_Interval
<1>5. s \in [1 .. n -> S \ {m}]
  <2>1. s \in [1 .. n -> S] BY DEF Orderings
  <2> QED BY <1>1, <2>1
<1> HIDE DEF n
<1>6. Cardinality(S \ {m}) < Cardinality(1 .. n) BY <1>2, <1>3, <1>4
<1>7. \E i, j \in 1 .. n : i # j /\ s[i] = s[j]
  BY <1>3, <1>4, <1>5, <1>6, FS_PigeonHole
<1>8. DOMAIN s = 1 .. n BY <1>5
<1> QED BY <1>7, <1>8, OrderingSound

\* A handler that refuses an automatic request before it is classified has no model for it.
LEMMA AdmitComplete ==
  ASSUME IInv, CompleteInv, req.endpoint \in Inference,
         NEW unsafe \in {"none", "rejected", "unredactable"}, NEW allowed, Admit(unsafe, allowed),
         \A m \in Models : Serves(m, req) => m \in allowed
  PROVE  CompleteInv'
<1>1. pc = "idle" /\ req \in Inputs /\ UNCHANGED <<req, penalty, route>>
  BY DEF Admit, IInv, TypeOK
<1>2. RouteComplete' BY DEF Admit, AdmitAutomatic, AdmitExplicit, Refuse, RouteComplete
<1>3. Undecided'
  BY <1>1 DEF Admit, AdmitAutomatic, AdmitExplicit, Refuse, CompleteInv, Undecided
<1>4. CASE IsAutomatic(req)
  <2>1. \A m \in Models : Serves(m, req) => ProviderOf[m] \in AllowedProviders(req)
    BY RoutingAssumption DEF RoutingAssumption, Serves, AllowedProviders
  <2>2. req.asks \notin Handles
    BY <1>4, PlanningAssumption DEF IsAutomatic, Automatic, PlanningAssumption
  <2>3. pc' # "planned"
    BY <1>1, <2>2 DEF Admit, AdmitAutomatic, Refuse
  <2>4. CASE reply' \in {"unsupported", "unsupported_adapter"}
    <3>1. AllowedProviders(req) = {} \/ allowed = {}
      BY <1>1, <2>2, <2>4 DEF Admit, AdmitAutomatic, Refuse, CompleteInv, Undecided
    <3>2. \A m \in Models : ~Serves(m, req) BY <2>1, <3>1
    <3> QED BY <1>1, <1>2, <1>3, <2>3, <3>2 DEF CompleteInv, NoneForgotten, Serves
  <2>5. CASE reply' \notin {"unsupported", "unsupported_adapter"}
    <3>1. reply' # "no_model"
      BY <1>1, <2>2 DEF Admit, AdmitAutomatic, Refuse, CompleteInv, Undecided
    <3> QED BY <1>2, <1>3, <2>3, <2>5, <3>1 DEF CompleteInv, NoneForgotten
  <2> QED BY <2>4, <2>5
<1>5. CASE ~IsAutomatic(req)
  BY <1>1, <1>2, <1>3, <1>5 DEF CompleteInv, NoneForgotten, IsAutomatic
<1> QED BY <1>4, <1>5

LEMMA ArriveComplete == ASSUME IInv, CompleteInv, Arrive PROVE CompleteInv'
<1>1. req \in Inputs BY DEF IInv, TypeOK
<1>2. \A m \in Models : Serves(m, req) => m \in AllowedModels(req) /\ m \in EndpointModels(req)
  BY <1>1, ServesPasses DEF AllowedModels, EndpointModels
<1>3. Unsafe(req) \in {"none", "rejected", "unredactable"} BY DEF Unsafe
<1>4. CASE ChatCompletions
  BY <1>2, <1>3, <1>4, AdmitComplete DEF ChatCompletions, AllowedModels, Inference
<1>5. CASE Responses BY <1>2, <1>3, <1>5, AdmitComplete DEF Responses, Inference
<1>6. CASE Embeddings \/ ImagesGenerations \/ AudioSpeech \/ AudioMultipart
  BY <1>2, <1>6, AdmitComplete
     DEF Embeddings, ImagesGenerations, AudioSpeech, AudioMultipart, Audio, Inference
<1>7. CASE ProviderRouter \/ Multimodel
  <2>1. req.endpoint \notin Inference BY <1>7 DEF ProviderRouter, Multimodel, Inference
  <2>2. UNCHANGED req /\ pc' \in {"classify", "refused"} /\ pc = "idle"
        /\ (pc' = "classify" => UNCHANGED reply)
    BY <1>7 DEF ProviderRouter, Multimodel, Refuse
  <2> QED BY <2>1, <2>2 DEF CompleteInv, Undecided, RouteComplete, Servable, NoneForgotten
<1> QED BY <1>4, <1>5, <1>6, <1>7 DEF Arrive

LEMMA ClassifiedComplete == ASSUME IInv, CompleteInv, Classified PROVE CompleteInv'
<1>1. pc = "classify" /\ req \in Inputs /\ UNCHANGED <<req, penalty, plan>> /\ reply = "none"
  BY DEF Classified, IInv, TypeOK, CompleteInv, Undecided
<1>2. CASE req.endpoint \notin Inference
  <2>1. pc' = "refused" BY <1>2 DEF Classified
  <2> QED BY <1>1, <1>2, <2>1 DEF CompleteInv, Undecided, RouteComplete, NoneForgotten
<1>3. CASE req.endpoint \in Inference
  <2>1. pc' = "settle" /\ reply' = "none" BY <1>1, <1>3 DEF Classified
  <2>2. PICK opinion \in Opinions[RouteInput(req)] :
          route' \in RoutesOf(Routed(req), opinion.asking, opinion.merit, penalty)
    BY DEF Classified
  <2>3. req.prompt \in Prompts /\ RouteInput(req) \in Prompts
    BY <1>1, PlanningAssumption DEF PlanningAssumption, Requests, RouteInput
  <2>4. opinion.asking \in BOOLEAN /\ opinion.merit \in [Models -> Int]
    BY <2>2, <2>3, PlanningAssumption DEF PlanningAssumption
  <2>5. penalty \in [Providers -> Penalties] BY DEF IInv, TypeOK
  <2>6. ~route'.asking => opinion.asking = FALSE
    BY <2>2, <2>4 DEF RoutesOf, FallbackTo
  <2>7. ASSUME Servable, ~route'.asking
        PROVE  /\ Leads(route'.model, req, route') /\ Preserves(route'.model, req)
               /\ \A m \in Models : Serves(m, req) => m \in route'.candidates
    <3>1. PICK s \in Models : Serves(s, req) BY <2>7 DEF Servable
    <3>2. /\ route'.model \in AllowedModels(req) /\ Selectable(route'.model, req)
          /\ \A m \in Models : Serves(m, req) => m \in route'.candidates
      BY <1>1, <1>3, <2>2, <2>4, <2>5, <2>6, <2>7, <3>1, RouteIsComplete
    <3> QED BY <3>2, RoutingAssumption DEF RoutingAssumption, Leads, AllowedModels, EndpointModels
  <2>8. RouteComplete' BY <1>1, <2>7 DEF RouteComplete, Servable, Serves
  <2> QED BY <2>1, <2>8 DEF CompleteInv, Undecided, NoneForgotten
<1> QED BY <1>2, <1>3

\* Planned by score, a request has every model that can serve it in its plan.
LEMMA SettleComplete == ASSUME IInv, CompleteInv, Settle PROVE CompleteInv'
<1> DEFINE first == First(req, route)
           F == {m \in Followers(req, route, first) : Preserves(m, req)}
<1>1. /\ pc = "settle" /\ pc' \in {"planned", "refused"} /\ UNCHANGED <<req, penalty, route>>
      /\ req \in Inputs
  BY DEF Settle, Refuse, IInv, TypeOK
<1>2. SUFFICES ASSUME IsAutomatic(req), req.endpoint \in Inference, ~route.asking, ~Forced(req)
               PROVE  NoneForgotten'
  BY <1>1 DEF CompleteInv, Undecided, RouteComplete, NoneForgotten, IsAutomatic, Forced, SafetyAction
<1>3. CASE \A m \in Models : ~Serves(m, req)
  BY <1>1, <1>3 DEF NoneForgotten, Serves
<1>4. CASE \E m \in Models : Serves(m, req)
  <2>1. /\ Leads(first, req, route) /\ Preserves(first, req) /\ first = route.model
        /\ \A m \in Models : Serves(m, req) => m \in route.candidates
    BY <1>1, <1>2, <1>4 DEF CompleteInv, RouteComplete, Servable, First
  <2>2. PICK rest \in Orderings(F, route.score) : plan' = <<first>> \o rest
    BY <1>2, <2>1 DEF Settle
  <2>3. /\ route.score \in [Models -> Int] /\ route.candidates \subseteq Models
    BY DEF IInv, TypeOK, RouteFits
  <2>4. F \subseteq Models BY <2>3 DEF Followers
  <2>5. rest \in Seq(F)
    <3> HIDE DEF F
    <3> QED BY <2>2, <2>3, <2>4, OrderingSound
  <2>6. ASSUME NEW m \in Models, Serves(m, req) PROVE \E i \in DOMAIN plan' : plan'[i] = m
    <3>1. /\ plan' \in Seq(F \cup {first}) /\ Len(plan') = Len(rest) + 1 /\ plan'[1] = first
          /\ \A i \in 2 .. Len(rest) + 1 : plan'[i] = rest[i - 1]
      <4> HIDE DEF F, first
      <4> QED BY <2>2, <2>5, Concatenated
    <3>2. CASE m = first BY <3>1, <3>2, <2>5
    <3>3. CASE m # first
      <4>1. m \in F BY <1>1, <2>1, <2>6, <3>3, ServesPasses DEF Followers
      <4> HIDE DEF F
      <4>2. PICK i \in DOMAIN rest : rest[i] = m BY <2>2, <2>3, <2>4, <4>1, OrderingComplete
      <4>3. i + 1 \in 2 .. Len(rest) + 1 /\ plan'[i + 1] = m BY <2>5, <3>1, <4>2
      <4> QED BY <3>1, <4>3, <2>5
    <3> QED BY <3>2, <3>3
  <2>7. plan' # <<>> BY <1>4, <2>6
  <2>8. pc' = "planned" /\ reply' = "planned"
    BY <1>2, <2>1, <2>7 DEF Settle
  <2> QED BY <1>1, <2>6, <2>8 DEF NoneForgotten, Serves
<1> QED BY <1>3, <1>4

\* An automatic request that is planned by score has every model that can serve it
\* in its plan, and one that is refused for want of a model had none: the five
\* filters of server.rs, router.rs and provider.rs drop nothing that would do.
THEOREM NoModelForgotten == Spec => []NoneForgotten
<1>1. Init => CompleteInv
  BY DEF Init, NoRoute, CompleteInv, Undecided, RouteComplete, NoneForgotten
<1>2. IInv /\ CompleteInv /\ [Next]_vars => CompleteInv'
  <2>1. CASE IInv /\ CompleteInv /\ (HealthChanges \/ UNCHANGED vars)
    <3>1. UNCHANGED <<pc, req, route, plan, reply>> BY <2>1 DEF HealthChanges, vars
    <3> QED BY <2>1, <3>1
            DEF CompleteInv, Undecided, RouteComplete, NoneForgotten, Servable, Leads,
                Preserves, SupportsEndpoint, Selectable, CapabilityEligible, ContextEligible, ContextRequired,
                Serves, Forced, SafetyAction, IsAutomatic
  <2> QED BY <2>1, ArriveComplete, ClassifiedComplete, SettleComplete DEF Next
<1>3. CompleteInv => NoneForgotten BY DEF CompleteInv
<1> QED BY <1>1, <1>2, <1>3, Invariance, PTL DEF Spec
=============================================================================
