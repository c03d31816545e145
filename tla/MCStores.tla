-------------------------------- MODULE MCStores --------------------------------
(* Two models of two providers and an embedding model.  The configuration file   *)
(* is edited among ones that validation refuses, ones with a reference that has   *)
(* white space around it, and ones that change the embedding model, the backends   *)
(* or the limits of the stores under the entries that are in them.              *)
EXTENDS Stores, TLC

CONSTANTS m1, m2, em, a1, padded, blank, hash, pa, pb

MCTrimmed == [x \in {m1, m2, em, a1, blank, hash, pa, pb, "path"} |-> x] @@ padded :> m2
Path == [e \in Endpoints |-> e]
NoPath == [e \in Endpoints |-> Absent]
Paths(S) == [e \in Endpoints |-> IF e \in S THEN e ELSE Absent]
MCProvider(name, kind, endpoints) ==
  [name |-> name, kind |-> kind, base_url |-> "http", paths |-> Paths(endpoints), numbers |-> <<1>>]
MCModel(id, aliases, provider, endpoints) ==
  [id |-> id, aliases |-> aliases, provider |-> provider, capability |-> 50, endpoints |-> endpoints,
   capabilities |-> {}]
Stored(enabled, backend, path, ttl) ==
  [enabled |-> enabled, backend |-> backend, path |-> path, numbers |-> "ttl_seconds" :> ttl @@ "max_entries" :> 1]

MCBase ==
  [models |-> <<MCModel(m1, <<a1>>, pa, {"chat", "responses"}), MCModel(m2, <<>>, pb, Absent),
                MCModel(em, <<>>, pa, {"embeddings"})>>,
   providers |-> <<MCProvider(pa, "openai", {"chat", "responses", "embeddings"}),
                   MCProvider(pb, "ollama_native", {"chat"})>>,
   default_model |-> a1,
   scoring |-> [model_priorities |-> a1 :> -5, provider_hints |-> pa :> 10, model_biases |-> <<>>, weights |-> 1],
   classifier |-> [confidence |-> 60, easy |-> 1, hard |-> 2, backend |-> "heuristic", llm_judge_model |-> Absent,
                   adapter |-> [b \in {"heuristic", "llm_judge", "route_llm"} |-> Absent], numbers |-> <<1>>],
   auth |-> [tokens |-> {}, loopback |-> TRUE, open |-> FALSE],
   budget |-> [numbers |-> <<1>>, backend |-> "process", path |-> Absent],
   telemetry |-> [numbers |-> <<1>>, path |-> Absent],
   runtime |-> [numbers |-> <<1>>, ingress |-> <<1>>, sampler |-> <<1>>],
   cache |-> Stored(TRUE, "memory", Absent, 2) @@ [threshold |-> 80, embedding_model |-> hash],
   shadow_eval |-> [enabled |-> FALSE, sample_rate |-> 0, path |-> Absent, judge |-> Absent,
                    numbers |-> [f \in {"max_concurrent_tasks", "max_pending_tasks"} |-> 1]],
   safety |-> [enabled |-> TRUE, unsafe |-> "reject", sensitive |-> "force_route", force_model |-> m2],
   sticky |-> Stored(TRUE, "file", "path", 2) @@ [prefer_model |-> TRUE]]

\* The other backends, another life for entries and for routes.
MCFiles ==
  [MCBase EXCEPT !.cache = Stored(TRUE, "file", "path", 1) @@ [threshold |-> 80, embedding_model |-> hash],
                 !.sticky = Stored(TRUE, "memory", Absent, 1) @@ [prefer_model |-> FALSE]]
MCEmbedded == [MCFiles EXCEPT !.cache.embedding_model = em, !.sticky.enabled = FALSE]
MCJudged ==
  [MCBase EXCEPT !.classifier.llm_judge_model = m2, !.shadow_eval.judge = padded, !.cache.enabled = FALSE]
MCPadded ==
  [MCBase EXCEPT !.safety.force_model = padded, !.classifier.backend = "route_llm",
                 !.classifier.adapter["route_llm"] = padded]
MCInvalid ==
  <<[MCBase EXCEPT !.cache.embedding_model = m1], [MCBase EXCEPT !.cache.embedding_model = padded],
   [MCBase EXCEPT !.models[2].aliases = <<m1>>], [MCBase EXCEPT !.models[1].aliases = <<a1, m2>>],
   [MCBase EXCEPT !.models[2].endpoints = {"chat", "responses"}],
   [MCBase EXCEPT !.safety.force_model = Absent],
   [MCBase EXCEPT !.cache.enabled = FALSE, !.cache.backend = "file"]>>
MCConfigurations == <<MCBase, MCFiles, MCEmbedded, MCJudged, MCPadded>> \o MCInvalid

MCTurn(role, content) == [role |-> role, content |-> content]

\* The heuristics are sure of "high" for a prompt that asks to explain and to
\* convert, and of "low" for one that asks for the latest of something private.
Classifier == INSTANCE Classification
MCLabel(stable, volatile) ==
  LET head == Classifier!Cacheability([stable |-> stable, json |-> 0, volatile |-> volatile, code |-> 0])
  IN IF Classifier!MeetsThreshold(head, 60 * Classifier!Cent) THEN head.label ELSE Absent
MCChat(turns, ids) ==
  [endpoint |-> "chat", automatic |-> TRUE, turns |-> turns, options |-> {}, ids |-> ids, stream |-> FALSE,
   label |-> MCLabel(2, 0)]
MCInputs ==
  {MCChat(<<MCTurn("user", "x")>>, <<>>),
   MCChat(<<MCTurn("user", "y"), MCTurn("assistant", "z"), MCTurn("user", "x")>>, <<>>),
   MCChat(<<MCTurn("user", "parts")>>, "user" :> "k" @@ "session_id" :> "l"),
   [MCChat(<<MCTurn("user", "y")>>, "user" :> "blank" @@ "thread_id" :> "k") EXCEPT !.label = MCLabel(0, 2)],
   [MCChat(<<>>, <<>>) EXCEPT !.endpoint = "responses"] @@ [input |-> "y"]}

MCSimilar ==
  LET same(near) == [x \in {"x", "y"} |-> [y \in {"x", "y"} |-> IF x = y THEN 100 ELSE near]]
  IN hash :> same(90) @@ em :> same(10)
=============================================================================
