--------------------------------- MODULE Stores ---------------------------------
(***************************************************************************)
(* The two stores that outlive a request: the semantic cache                 *)
(* (src/src/semantic_cache.rs) and the sticky routes (src/src/sticky.rs), in   *)
(* memory or in a file, under automatic requests, the passage of time, and a  *)
(* process that is stopped and started on another configuration.  Permits,    *)
(* budgets and attempts are in Dispatch; the file operations, each atomic or   *)
(* failed here, are in FileStore.                                            *)
(*                                                                         *)
(* The body of an answer is the request that it answers and its status.       *)
(***************************************************************************)
EXTENDS Requests

CONSTANTS
  Configurations,  \* what the configuration file may say, in some order
  Inputs,          \* automatic chat and Responses requests
  Slots,           \* places for concurrent requests
  Similar,         \* Similar[embedding model][x][y]: cosine similarity of two prompts
  Wordless,        \* prompts for which there is no local-hash vector
  MaxTime          \* bound on the seconds that pass

ASSUME StoresAssumption ==
  /\ MaxTime \in Nat
  /\ \A n \in DOMAIN Configurations :
       /\ DOMAIN Configurations[n].models \subseteq Nat
       /\ Configurations[n].sticky.numbers["ttl_seconds"] \in Nat
       /\ Configurations[n].sticky.backend \in {"memory", "file"}

\* A chat message has a role and a content, and prompts can be compared.
ASSUME CacheAssumption ==
  /\ \A q \in Inputs : q.endpoint = "chat" =>
       \A i \in DOMAIN q.turns : {"role", "content"} \subseteq DOMAIN q.turns[i]
  /\ \A n \in DOMAIN Configurations :
       LET cache == Configurations[n].cache
           prompts == {Prompt(q) : q \in Inputs} \ {Absent}
       IN /\ cache.numbers["ttl_seconds"] \in Nat
          /\ cache.backend \in {"memory", "file"}
          /\ cache.enabled /\ Valid(Configurations[n]) =>
               \A x, y \in prompts : Similar[Trimmed[cache.embedding_model]][x][y] \in Int

Backends == {"memory", "file"}
Keys == {StickyKey(q) : q \in Inputs} \ {Absent}
Nowhere == [model |-> Absent, provider |-> Absent, expires |-> 0, backend |-> "memory"]

\* A handler's locals: order is its plan, embedding that of the current prompt,
\* asked the clock as lookup or record read it, chosen the position in order of
\* the model that answers; hit and prior are history.
Idle == [pc |-> "idle", req |-> Absent, order |-> <<>>, embedding |-> Absent, asked |-> 0,
         chosen |-> 0, success |-> FALSE, hit |-> Absent, prior |-> Nowhere]

VARIABLES
  running,         \* position of the process's configuration, 0 when there is none
  now,
  cached,          \* cached[b]: the entries of the semantic cache, in order
  routes,          \* routes[b]: the sticky routes, by key
  job,             \* job[s]: the request in slot s
  turn             \* history: turn[k], the route of the last undisturbed answer of k

vars == <<running, now, cached, routes, job, turn>>
config == Configurations[running]
Ttl == config.sticky.numbers["ttl_seconds"]

Init ==
  /\ running = 0 /\ now = 0
  /\ cached = [b \in Backends |-> <<>>] /\ routes = [b \in Backends |-> <<>>]
  /\ job = [s \in Slots |-> Idle] /\ turn = [k \in Keys |-> Nowhere]

At(s, pc) == job[s].pc = pc
Goto(s, to) == job' = [job EXCEPT ![s].pc = to]
Finish(s) == job' = [job EXCEPT ![s] = Idle]
-----------------------------------------------------------------------------
(* The process.                                                              *)

\* SemanticCache::from_config: a file needs a path also when the cache is disabled,
\* which validation does not ask for.
CacheOpens(c) == c.cache.backend = "file" => c.cache.path # Absent

\* RouterConfig::from_path, then AppState::from_config, which makes the stores.
Start ==
  /\ running = 0
  /\ running' \in {n \in DOMAIN Configurations :
                     Valid(Configurations[n]) /\ CacheOpens(Configurations[n])}
  /\ UNCHANGED <<now, cached, routes, job, turn>>

\* A stop or a crash takes the stores in memory, and every request, with it.
Stop ==
  /\ running # 0 /\ running' = 0
  /\ cached' = [cached EXCEPT !["memory"] = <<>>]
  /\ routes' = [routes EXCEPT !["memory"] = <<>>]
  /\ job' = [s \in Slots |-> Idle]
  /\ turn' = [k \in Keys |-> IF turn[k].backend = "memory" THEN Nowhere ELSE turn[k]]
  /\ UNCHANGED now

Tick ==
  /\ now < MaxTime /\ now' = now + 1
  /\ UNCHANGED <<running, cached, routes, job, turn>>
-----------------------------------------------------------------------------
(* The sticky routes.                                                        *)

\* purge_expired
Unexpired(r) == [k \in {x \in DOMAIN r : r[x].expires > now} |-> r[k]]

\* apply_sticky_routing: the exact model, or the first of the provider, changes
\* places with the first.
Preferred(models, route) ==
  LET provider == {i \in DOMAIN models : FindModel(config, models[i]).provider = route.provider}
      exact == {i \in provider : config.sticky.prefer_model /\ models[i] = route.model}
      best == IF exact # {} THEN exact ELSE provider
  IN IF provider = {} THEN models
     ELSE [models EXCEPT ![1] = models[Min(best)], ![Min(best)] = models[1]]

\* What may be planned: models that support the endpoint, in the order that the
\* scores of the moment give them.
Plans(q) ==
  LET able == {m.id : m \in {x \in Elements(config.models) : Supported(config, x, q.endpoint)}}
  IN {s \in UNION {[1 .. n -> able] : n \in 1 .. Cardinality(able)} : Unique(s)}

Conversing(k) == {s \in Slots : ~At(s, "idle") /\ StickyKey(job[s].req) = k}

\* The handler has its plan.
Arrive(s) ==
  /\ running # 0 /\ At(s, "idle")
  /\ \E q \in Inputs :
       /\ \E plan \in Plans(q) :
            job' = [job EXCEPT ![s].req = q, ![s].order = plan,
                      ![s].pc = IF config.sticky.enabled /\ Len(plan) > 1 /\ StickyKey(q) # Absent
                                THEN "sticky" ELSE "embed"]
       /\ turn' = [k \in Keys |-> IF k = StickyKey(q) /\ Conversing(k) # {} THEN Nowhere ELSE turn[k]]
  /\ UNCHANGED <<running, now, cached, routes>>

\* StickyRoutingStore::get; a file that cannot be locked, read or written has no
\* route, and a store in memory forgets the one that it finds expired.
FollowRoute(s) ==
  LET b == config.sticky.backend
      k == StickyKey(job[s].req)
      live == Unexpired(routes[b])
      kept == IF b = "file" THEN live
              ELSE [x \in {y \in DOMAIN routes[b] : y # k \/ y \in DOMAIN live} |-> routes[b][x]]
  IN
  /\ At(s, "sticky")
  /\ \/ /\ routes' = [routes EXCEPT ![b] = kept]
        /\ job' = [job EXCEPT ![s].pc = "embed",
                     ![s].order = IF k \in DOMAIN live THEN Preferred(@, live[k]) ELSE @,
                     ![s].prior = IF turn[k].backend = b THEN turn[k] ELSE @]
     \/ /\ b = "file" /\ routes' \in {routes, [routes EXCEPT ![b] = kept]}
        /\ Goto(s, "embed")
  /\ UNCHANGED <<running, now, cached, turn>>

\* Mutant: a route that is there stays, as with HashMap::entry and or_insert.
Recorded_First(r, k, route) ==
  [x \in DOMAIN r \cup {k} |-> IF x \in DOMAIN r THEN r[x] ELSE route]

\* FileStickyRoutingStore::record_blocking after its purge, HashMap::insert
Recorded(r, k, route) ==
  [x \in DOMAIN r \cup {k} |-> IF x = k THEN route ELSE r[x]]

\* record_sticky_routing for the model that answered, whatever its status.
RecordRoute(s) ==
  LET b == config.sticky.backend
      k == StickyKey(job[s].req)
      model == FindModel(config, job[s].order[job[s].chosen])
      route == [model |-> model.id, provider |-> model.provider, expires |-> now + Ttl, backend |-> b]
      written == Recorded(IF b = "file" THEN Unexpired(routes[b]) ELSE routes[b], k, route)
  IN
  /\ At(s, "record")
  /\ \/ /\ routes' = [routes EXCEPT ![b] = written]
        /\ turn' = [turn EXCEPT ![k] = IF Conversing(k) = {s} THEN route ELSE Nowhere]
     \/ /\ b = "file" /\ routes' \in {routes, [routes EXCEPT ![b] = written]}
        /\ turn' = [turn EXCEPT ![k] = Nowhere]
  /\ Goto(s, "body")
  /\ UNCHANGED <<running, now, cached>>
-----------------------------------------------------------------------------
(* The semantic cache.                                                       *)

\* semantic_cache_embedding_for_request, and the clock as lookup reads it.
Embed(s) ==
  LET name == Trimmed[config.cache.embedding_model]
      prompt == Prompt(job[s].req)
  IN
  /\ At(s, "embed")
  /\ \/ /\ Cacheable(config, job[s].req)
        /\ IF name = LocalHash THEN prompt \notin Wordless ELSE EmbeddingModel(config) # Absent
        /\ job' = [job EXCEPT ![s].pc = "lookup", ![s].asked = now,
                              ![s].embedding = [model |-> name, prompt |-> prompt]]
     \/ /\ ~Cacheable(config, job[s].req) \/ name # LocalHash \/ prompt \in Wordless
        /\ Goto(s, "send")
  /\ UNCHANGED <<running, now, cached, routes, turn>>

Age(e, t) == IF t < e.inserted THEN 0 ELSE t - e.inserted

\* Mutant: an entry lives one second longer.
Lives_TooLong(e, t) == Age(e, t) <= config.cache.numbers["ttl_seconds"]
Lives(e, t) == Age(e, t) < config.cache.numbers["ttl_seconds"]

\* Places in a sequence, from the first to the last.
InOrder(K) ==
  CHOOSE f \in [1 .. Cardinality(K) -> K] : \A i, j \in DOMAIN f : i < j => f[i] < f[j]

\* prune_entries: the last of those that live.
Pruned(entries, t) ==
  LET live == {i \in DOMAIN entries : Lives(entries[i], t)}
      later(i) == {k \in live : k > i}
      kept == {i \in live : Cardinality(later(i)) < config.cache.numbers["max_entries"]}
  IN [n \in 1 .. Cardinality(kept) |-> entries[InOrder(kept)[n]]]

\* cosine_similarity
Similarity(x, y) == IF x.model = y.model THEN Similar[x.model][x.prompt][y.prompt] ELSE 0

\* best_hit; the last of the most similar.
Matches(j, e) ==
  /\ e.endpoint = j.req.endpoint
  /\ e.scope = Scope(j.req)
  /\ e.embedding.model = j.embedding.model
  /\ e.model \in Elements(j.order)
  /\ Similarity(j.embedding, e.embedding) >= config.cache.threshold
BestHit(j, entries) ==
  LET found == {i \in DOMAIN entries : Matches(j, entries[i])}
      closeness(i) == Similarity(j.embedding, entries[i].embedding)
  IN IF found = {} THEN Absent
     ELSE entries[CHOOSE i \in found : \A k \in found :
                    closeness(k) < closeness(i) \/ (closeness(k) = closeness(i) /\ k <= i)]

\* SemanticCache::lookup; a file that fails is a miss.
Lookup(s) ==
  LET b == config.cache.backend
      kept == Pruned(cached[b], job[s].asked)
      best == BestHit(job[s], kept)
  IN
  /\ At(s, "lookup")
  /\ \/ /\ cached' = [cached EXCEPT ![b] = kept]
        /\ job' = [job EXCEPT ![s].hit = best, ![s].pc = IF best = Absent THEN "send" ELSE "served"]
     \/ /\ b = "file" /\ cached' \in {cached, [cached EXCEPT ![b] = kept]}
        /\ Goto(s, "send")
  /\ UNCHANGED <<running, now, routes, turn>>

\* The entry that upstream_response has recorded.
Entry(j) ==
  [endpoint |-> j.req.endpoint, scope |-> Scope(j.req), model |-> j.order[j.chosen],
   embedding |-> j.embedding, inserted |-> j.asked,
   body |-> [answers |-> j.req, success |-> j.success]]

\* SemanticCache::record
Record(s) ==
  LET b == config.cache.backend
      kept == Pruned(Append(cached[b], Entry(job[s])), now)
  IN
  /\ At(s, "store")
  /\ \/ cached' = [cached EXCEPT ![b] = kept]
     \/ b = "file" /\ UNCHANGED cached
  /\ Finish(s)
  /\ UNCHANGED <<running, now, routes, turn>>
-----------------------------------------------------------------------------
(* The upstream.                                                             *)

\* Some model of the order answers, the earlier ones having failed, or none does.
Dispatched(s) ==
  /\ At(s, "send")
  /\ \/ \E i \in DOMAIN job[s].order, ok \in BOOLEAN :
          job' = [job EXCEPT ![s].chosen = i, ![s].success = ok,
                    ![s].pc = IF config.sticky.enabled /\ StickyKey(job[s].req) # Absent THEN "record" ELSE "body"]
     \/ Finish(s)
  /\ UNCHANGED <<running, now, cached, routes, turn>>

\* The body is read: a successful one for an embedded prompt goes to the cache,
\* unless it is empty.
BodyRead(s) ==
  /\ At(s, "body")
  /\ \/ /\ job[s].success /\ job[s].embedding # Absent
        /\ job' = [job EXCEPT ![s].pc = "store", ![s].asked = now]
     \/ Finish(s)
  /\ UNCHANGED <<running, now, cached, routes, turn>>

\* cached_upstream_response
Serve(s) ==
  /\ At(s, "served") /\ Finish(s)
  /\ UNCHANGED <<running, now, cached, routes, turn>>

Next ==
  \/ Start \/ Stop \/ Tick
  \/ \E s \in Slots :
       \/ Arrive(s) \/ FollowRoute(s) \/ Embed(s) \/ Lookup(s) \/ Serve(s)
       \/ Dispatched(s) \/ RecordRoute(s) \/ BodyRead(s) \/ Record(s)

Spec == Init /\ [][Next]_vars
-----------------------------------------------------------------------------
\* The types of the variables.
TypeOK ==
  /\ running \in 0 .. Len(Configurations) /\ now \in 0 .. MaxTime
  /\ \A b \in Backends : DOMAIN routes[b] \subseteq Keys
  /\ \A s \in Slots :
       /\ job[s].pc \in {"idle", "sticky", "embed", "lookup", "served", "send", "record", "body", "store"}
       /\ job[s].req \in Inputs \cup {Absent} /\ job[s].asked \in 0 .. MaxTime

\* p and q ask the same, word for word, up to the last prompt.
SameBut(p, q) ==
  /\ p.endpoint = q.endpoint /\ p.options = q.options
  /\ q.endpoint = "chat" =>
       /\ DOMAIN p.turns = DOMAIN q.turns
       /\ \A i \in DOMAIN q.turns :
            /\ p.turns[i].role = q.turns[i].role
            /\ p.turns[i].content = q.turns[i].content \/ (i = Current(q) /\ i = Current(p))

\* docs/router-improvements-audit.md:136 (D1): an answer from the cache was made for
\* the same conversation up to its last prompt, and for a prompt as similar as the
\* running configuration asks, by a successful answer of a model that the request
\* may go to; also when the entry is from an earlier process.
ServedAlike ==
  \A s \in Slots : At(s, "served") =>
    LET e == job[s].hit
        q == job[s].req
    IN /\ e.body.success /\ e.model \in Elements(job[s].order)
       /\ SameBut(e.body.answers, q)
       /\ Similar[Trimmed[config.cache.embedding_model]][Prompt(q)][Prompt(e.body.answers)]
            >= config.cache.threshold

\* An answer from the cache was not older than the time to live when it was looked
\* for, whatever that was when it was stored.
ServedFresh ==
  \A s \in Slots : At(s, "served") =>
    job[s].asked < job[s].hit.inserted + config.cache.numbers["ttl_seconds"]

\* docs/usage.md:245: the next request of a conversation is tried first on the
\* model, or else the provider, that answered the last one, if that is not too long
\* ago, no other request of the conversation came between, and the store could be
\* read and written; also after a restart, when the store is a file.
StickyFollows ==
  \A s \in Slots : At(s, "embed") /\ job[s].prior.expires > now =>
    LET order == job[s].order
        prior == job[s].prior
        provider(m) == FindModel(config, m).provider
    IN (\E m \in Elements(order) : provider(m) = prior.provider) =>
         /\ provider(order[1]) = prior.provider
         /\ config.sticky.prefer_model /\ prior.model \in Elements(order)
              /\ provider(prior.model) = prior.provider => order[1] = prior.model

\* A process that starts finds at run time every model that its configuration
\* names, and the adapters can send what they will be asked for: nothing but a
\* reference with white space around it, which validation looks up trimmed and the
\* code as it is written, or the other way round, fails when it is used.
Padded(x) == Trimmed[x] # x
StartedResolves ==
  running # 0 =>
    /\ \A m \in Elements(config.models) :
         /\ FindModel(config, m.id) = m
         /\ \A e \in Endpoints :
              Supported(config, m, e) => Sends(ProviderNamed(config, m.provider), e)
    /\ FindModel(config, config.default_model) # Absent
    /\ ActiveBackend(config) # "heuristic" /\ ~Padded(ActiveModel(config)) =>
         ClassifierModel(config) # Absent
    /\ ForcesRoute(config) /\ ~Padded(config.safety.force_model) => ForceModel(config) # Absent
    /\ ~Empty(config.shadow_eval.judge) => JudgeModel(config) # Absent
    /\ config.cache.enabled /\ ~Padded(config.cache.embedding_model)
         /\ config.cache.embedding_model # LocalHash =>
         LET m == EmbeddingModel(config) IN
         m # Absent /\ Supported(config, m, "embeddings") /\ Sends(ProviderNamed(config, m.provider), "embeddings")
=============================================================================
