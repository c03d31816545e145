------------------------------- MODULE MCPlanning -------------------------------
(***************************************************************************)
(* A local model behind a strict native adapter, which takes chat without   *)
(* tools and without logprobs, and two models of a provider that preserves  *)
(* everything.  Sensitive prompts are forced to the local model.            *)
(***************************************************************************)
EXTENDS Planning, Scoring, TLC

CONSTANTS Local, Large, Mini, LocalAlias, Gone, Native, Remote

MCModels == {Local, Large, Mini}
MCProviders == {Native, Remote}
MCHandles == MCModels \cup {LocalAlias, Gone}
MCFind == Local :> Local @@ Large :> Large @@ Mini :> Mini @@ LocalAlias :> Local @@ Gone :> NoModel
MCRank == Local :> 0 @@ Large :> 1 @@ Mini :> 2
MCProviderOf == Local :> Native @@ Large :> Remote @@ Mini :> Remote
MCCapabilities == {"tools", "json", "audio"}
MCCaps == Local :> {"json"} @@ Large :> {"tools", "json"} @@ Mini :> {"json", "audio"}
MCAdapterCaps == Native :> {"json"} @@ Remote :> MCCapabilities
MCWindow == Local :> 2 @@ Mini :> 3
MCModelEndpoints ==
  Local :> {"chat"} @@ Large :> {"chat", "responses", "embeddings"} @@ Mini :> {"chat", "responses", "audio_translations"}
MCProviderEndpoints == Native :> {"chat"} @@ Remote :> {"chat", "responses", "embeddings", "audio_translations"}
MCFeatures == {"logprobs"}
MCAccepts == Native :> {} @@ Remote :> {"logprobs"}
MCAction == "safe" :> "allow" @@ "sensitive" :> "force_route" @@ "unsafe" :> "reject"

\* A prompt too short to route, one for each domain of interest, one with a
\* secret in it and what redaction leaves of that, and one that is unsafe.
MCText ==
  "short" :> [NoTerms EXCEPT !.words = 2]
  @@ "summary" :> [NoTerms EXCEPT !.words = 12, !.easy = 1, !.summary = 1, !.fast = 2]
  @@ "coding" :> [NoTerms EXCEPT !.words = 60, !.hard = 3, !.coding = 2, !.design = 2, !.code = 1, !.patient = 2]
  @@ "secret" :> [NoTerms EXCEPT !.words = 20, !.sensitive = 2, !.data = 1]
  @@ "redacted" :> [NoTerms EXCEPT !.words = 20, !.data = 1]
  @@ "harmful" :> [NoTerms EXCEPT !.words = 9, !.unsafe = 1, !.sensitive = 1, !.vague = 3]
MCPrompts == DOMAIN MCText
MCRedacted == [p \in MCPrompts |-> IF p = "secret" THEN "redacted" ELSE p]
MCSafetyLabel == [p \in MCPrompts |-> SafetyLabelOf(MCText[p])]

\* What a judge may say of any prompt: two outputs that parse, the second without
\* a word on safety, and two that do not.
MCAnswers ==
  LET hard == [difficulty |-> Label("hard", Unit), ambiguity |-> Label("low", Unit),
               domain |-> Label("design", 80 * Cent), safety |-> Label("unsafe", Unit),
               reasoning_depth |-> Label("deep", 90 * Cent)]
      asks == [difficulty |-> Label("needs_info", 10 * Cent), ambiguity |-> Label("high", Unit),
               domain |-> Label("general", Unit)]
  IN {hard, asks, [hard EXCEPT !.domain = Label("design", 2 * Unit)],
      [difficulty |-> Label("easy", Unit)]}

\* Two policies by default, and weights that make nothing of any difference.
MCWeights == DefaultWeights @@ "indifferent" :> Weights(0, 0, 0, 0, 0, 0, 0, 0, 0, 0)

\* What was learned of Local outweighs an exclusion.
MCLearned(enabled) ==
  [enabled |-> enabled, weight |-> 20 * Unit, bias |-> 0, model_biases |-> Large :> (-10 * Cent),
   feature_weights |-> <<"model", LocalAlias>> :> Unit @@ <<"provider", Remote>> :> 30 * Cent
                         @@ <<"domain", "coding">> :> 20 * Cent @@ <<"supports", "json">> :> 5 * Cent]
MCScoring(enabled) ==
  [model_priorities |-> Mini :> Unit, provider_priorities |-> Remote :> 10 * Cent,
   provider_latency_p95_ms |-> Remote :> 800, provider_health_penalties |-> Native :> 0,
   priority_weight |-> IF enabled THEN 8 * Cent ELSE 0, learned |-> MCLearned(enabled)]
MCProfile ==
  LET Of(m, names, capability, cost, domains, local) ==
        [names |-> names, provider |-> MCProviderOf[m], capability |-> capability * Cent,
         cost |-> cost, domains |-> domains, local |-> local, supports |-> MCCaps[m]]
  IN Local :> Of(Local, <<Local, LocalAlias>>, 45, 0, {"summary"}, TRUE)
     @@ Large :> Of(Large, <<Large>>, 95, 30, {"coding", "design"}, FALSE)
     @@ Mini :> Of(Mini, <<Mini>>, 60, 2, {"coding", "data"}, FALSE)

MCThresholds == [easy |-> 28 * Cent, hard |-> 62 * Cent]
MCViews(p) == Classify(MCText[p], MCAnswers, MCThresholds)
MCPoints(c, policy, learned) ==
  [m \in MCModels |-> Merit(MCProfile[m], c, MCScoring(learned), MCWeights[policy])]
MCOpinions ==
  [p \in MCPrompts |->
     {[asking |-> c.difficulty.label = "needs_info", merit |-> MCPoints(c, policy, policy = "floor")] :
        c \in MCViews(p), policy \in {"floor", "privacy_first", "indifferent"}}]

\* A healthy provider, and one that is slow and whose circuit is open.
MCPenalties ==
  {0} \cup {ProviderPenalty(p, c, MCScoring(FALSE), MCWeights["balanced"], 6000, Unit) :
             p \in MCProviders, c \in MCViews("summary")}

Asked(endpoint, asks, needs, uses, input, output, prompt) ==
  [endpoint |-> endpoint, asks |-> asks, valid |-> TRUE, redactable |-> TRUE, needs |-> needs,
   uses |-> uses, input |-> input, output |-> output, prompt |-> prompt,
   models |-> {}, providers |-> {}, default |-> Large]
Screening ==
  {Asked(e, a, n, u, i, o, l) : e \in {"chat", "responses"}, a \in {"auto", LocalAlias, Large, Gone},
     n \in {{}, {"tools"}}, u \in {{}, {"logprobs"}}, i \in {1, 3}, o \in {0, 1}, l \in MCPrompts}
Plain ==
  {Asked(e, a, IF e \in Audio THEN {"audio"} ELSE {}, {}, i, 0, "summary") :
     e \in {"embeddings", "images", "speech", "audio_translations"},
     a \in {"auto", "router-unknown", LocalAlias, Large}, i \in {1, 4}}
Malformed ==
  {[Asked("chat", "auto", {}, {}, 1, 0, l) EXCEPT !.valid = v, !.redactable = FALSE] :
     v \in BOOLEAN, l \in {"summary", "secret", "harmful"}}
Filtered ==
  {[Asked("multimodel", Large, n, {}, i, 0, "coding") EXCEPT !.models = m, !.providers = p, !.default = d] :
     n \in {{}, {"tools"}}, i \in {1, 3}, m \in {{}, {LocalAlias}, {Gone}, {Large, Mini}},
     p \in {{}, {Remote}}, d \in {LocalAlias, Gone, Large}}
Provided ==
  {[Asked("provider", Large, {}, {}, 1, 1, "short") EXCEPT !.providers = p, !.default = Local] :
     p \in {{}, {Native}, {Remote}}}
MCInputs == Screening \cup Plain \cup Malformed \cup Filtered \cup Provided
=============================================================================
