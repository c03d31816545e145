------------------------------ MODULE StoresProofs ------------------------------
(***************************************************************************)
(* Theorems about Stores and the configurations it runs on, for any number   *)
(* of requests at once: what validation lets start resolves, a conversation  *)
(* stays with its model, and an answer from the cache is alike and fresh.    *)
(* The cache needs to know how its entries lie: in the order in which they    *)
(* were inserted, each made by a successful answer to a request of its scope  *)
(* (CacheInv); pruning and looking up only ever leave some of them out.       *)
(*                                                                         *)
(* At the end, what the native adapters send of a request, and what the        *)
(* parser of a streamed answer finds in it (Exchange): by an invariant over    *)
(* the positions of the stream it was given, as far as it was (Reads).         *)
(***************************************************************************)
EXTENDS Stores, Exchange, FiniteSetTheorems, WellFoundedInduction, TLAPS

\* Only a valid configuration runs.
RunsValid == running # 0 => running \in DOMAIN Configurations /\ Valid(config)
-----------------------------------------------------------------------------
(* The least position *)

LEMMA HasLeast ==
  ASSUME NEW S, S \subseteq Nat, S # {}
  PROVE  \E i \in S : \A j \in S : i <= j
<1> DEFINE Less == {ss \in Nat \X Nat : ss[1] < ss[2]}
<1>1. IsWellFoundedOn(Less, Nat)
  BY NatLessThanWellFounded DEF OpToRel
<1> HIDE DEF Less
<1>2. \E i \in S : \A j \in S : <<j, i>> \notin Less
  BY <1>1, WFMin
<1>3. ASSUME NEW i \in S, NEW j \in S, <<j, i>> \notin Less
      PROVE  i <= j
  <2>1. <<j, i>> \in Nat \X Nat /\ <<j, i>>[1] = j /\ <<j, i>>[2] = i
    OBVIOUS
  <2>2. ~(<<j, i>>[1] < <<j, i>>[2])
    BY <1>3, <2>1 DEF Less
  <2> QED BY <2>1, <2>2
<1> QED BY <1>2, <1>3

\* What holds of 0, and with each number of the next, holds of n.
LEMMA Climbs ==
  ASSUME NEW n \in Nat, NEW G, 0 \in G, \A m \in 1 .. n : m - 1 \in G => m \in G
  PROVE  n \in G
<1> DEFINE Not == {m \in 0 .. n : m \notin G}
<1>1. SUFFICES ASSUME n \notin G PROVE FALSE
  OBVIOUS
<1>2. Not \subseteq Nat /\ Not # {}
  BY <1>1
<1>3. PICK m \in Not : \A k \in Not : m <= k
  BY <1>2, HasLeast
<1>4. m \in 1 .. n /\ m - 1 \in 0 .. n /\ ~(m <= m - 1)
  BY <1>3
<1> QED BY <1>3, <1>4

LEMMA Least ==
  ASSUME NEW S, S \subseteq Nat, S # {}
  PROVE  Min(S) \in S /\ \A j \in S : Min(S) <= j
BY HasLeast DEF Min
-----------------------------------------------------------------------------
(* Configurations *)

\* Handles are of one model only, so that the first with its id is the model.
LEMMA FindsById ==
  ASSUME NEW c, DOMAIN c.models \subseteq Nat, UniqueHandles(c), NEW m \in Elements(c.models)
  PROVE  FindModel(c, m.id) = m
<1> DEFINE found == {i \in DOMAIN c.models : m.id \in Handles(c.models[i])}
<1>1. PICK i \in DOMAIN c.models : c.models[i] = m
  BY DEF Elements
<1>2. m.id \in Handles(m)
  BY DEF Handles
<1>3. \A j \in DOMAIN c.models : j # i => m.id \notin Handles(c.models[j])
  BY <1>1, <1>2 DEF UniqueHandles
<1>4. found = {i}
  BY <1>1, <1>2, <1>3
<1>5. (CHOOSE x \in found : \A j \in found : x <= j) = i
  BY <1>4
<1>6. found # {}
  BY <1>4
<1> QED BY <1>1, <1>5, <1>6 DEF FindModel

\* What Valid asks of the names in a configuration is what finds them.
LEMMA ValidResolves == RunsValid => StartedResolves
<1> SUFFICES ASSUME RunsValid, running # 0 PROVE StartedResolves
  BY DEF StartedResolves
<1>1. running \in DOMAIN Configurations /\ Valid(config)
  BY DEF RunsValid
<1>2. DOMAIN config.models \subseteq Nat
  BY <1>1, StoresAssumption DEF config, StoresAssumption
<1> HIDE DEF config
<1>3. ASSUME NEW m \in Elements(config.models)
      PROVE  /\ FindModel(config, m.id) = m
             /\ \A e \in Endpoints :
                  Supported(config, m, e) => Sends(ProviderNamed(config, m.provider), e)
  <2>1. FindModel(config, m.id) = m
    BY <1>1, <1>2, FindsById DEF Valid
  <2>2. ASSUME NEW e, NEW p, ProviderSupports(p, e) PROVE Sends(p, e)
    BY <2>2 DEF ProviderSupports, Sends, NativeSends, CompatibleSends
  <2> QED BY <2>1, <2>2 DEF Supported
<1>4. FindModel(config, config.default_model) # Absent
  BY <1>1 DEF Valid, IsKnown
<1>5. ActiveBackend(config) # "heuristic" /\ ~Padded(ActiveModel(config)) => ClassifierModel(config) # Absent
  BY <1>1 DEF Valid, ValidClassifier, IsKnown, Padded, ClassifierModel
<1>6. ForcesRoute(config) /\ ~Padded(config.safety.force_model) => ForceModel(config) # Absent
  BY <1>1 DEF Valid, ValidSafety, IsKnown, Padded, ForceModel
<1>7. ~Empty(config.shadow_eval.judge) => JudgeModel(config) # Absent
  BY <1>1 DEF Valid, ValidShadowEval, IsKnown, JudgeModel
<1>8. ASSUME config.cache.enabled, ~Padded(config.cache.embedding_model),
             config.cache.embedding_model # LocalHash
      PROVE  LET m == EmbeddingModel(config) IN
             /\ m # Absent /\ Supported(config, m, "embeddings")
             /\ Sends(ProviderNamed(config, m.provider), "embeddings")
  <2> DEFINE m == EmbeddingModel(config)
             p == ProviderNamed(config, m.provider)
  <2>1. Trimmed[config.cache.embedding_model] = config.cache.embedding_model
    BY <1>8 DEF Padded
  <2>2. /\ m # Absent /\ m.provider \in ProviderNames(config)
        /\ p.paths["embeddings"] # Absent /\ ModelSupports(m, "embeddings")
    BY <1>1, <1>8, <2>1 DEF Valid, ValidCache, IsKnown, EmbeddingModel
  <2>3. p \in Elements(config.providers)
    BY <2>2 DEF ProviderNames, ProviderNamed, Elements
  <2>4. ValidProvider(p) /\ "embeddings" \in Endpoints \ {"chat"}
    BY <1>1, <2>3 DEF Valid, Endpoints
  <2>5. p.kind \notin Native
    BY <2>2, <2>4 DEF ValidProvider
  <2> HIDE DEF p
  <2>6. Supported(config, m, "embeddings") /\ Sends(p, "embeddings")
    <3>1. ProviderSupports(p, "embeddings") /\ Sends(p, "embeddings")
      BY <2>2, <2>4, <2>5 DEF ProviderSupports, Sends, CompatibleSends
    <3> QED BY <2>2, <3>1 DEF Supported, p
  <2> QED BY <2>2, <2>6 DEF p
<1> QED BY <1>3, <1>4, <1>5, <1>6, <1>7, <1>8 DEF StartedResolves

\* A process has a configuration that validation accepts.
LEMMA ValidRuns == Spec => []RunsValid
<1>1. Init => RunsValid
  BY DEF Init, RunsValid
<1>2. RunsValid /\ [Next]_vars => RunsValid'
  <2> SUFFICES ASSUME RunsValid, [Next]_vars PROVE RunsValid'
    OBVIOUS
  <2>1. CASE running' = running
    BY <2>1 DEF RunsValid, config
  <2>2. CASE Start \/ Stop
    BY <2>2 DEF Start, Stop, RunsValid, config
  <2> QED BY <2>1, <2>2 DEF Next, vars, Tick, Arrive, FollowRoute, Embed, Lookup, Serve,
                            Dispatched, RecordRoute, BodyRead, Record
<1> QED BY <1>1, <1>2, PTL DEF Spec

\* A process that starts can use every name in its configuration (config.rs).
THEOREM WhatStartsResolves == Spec => []StartedResolves
BY ValidResolves, ValidRuns, PTL
-----------------------------------------------------------------------------
(* Sticky routes *)

provider(m) == FindModel(config, m).provider

\* order begins with the model of the route, or else one of its provider.
Heads(order, route) ==
  (\E m \in Elements(order) : provider(m) = route.provider) =>
    /\ provider(order[1]) = route.provider
    /\ config.sticky.prefer_model /\ route.model \in Elements(order)
         /\ provider(route.model) = route.provider => order[1] = route.model

\* What Preferred does, whatever the route: it changes two places.
LEMMA PreferredHeads ==
  ASSUME NEW order, NEW n \in Nat, DOMAIN order = 1 .. n, NEW route
  PROVE  Heads(Preferred(order, route), route)
<1> DEFINE of == {i \in DOMAIN order : provider(order[i]) = route.provider}
           exact == {i \in of : config.sticky.prefer_model /\ order[i] = route.model}
           best == IF exact # {} THEN exact ELSE of
           new == Preferred(order, route)
           old == order
<1>1. /\ of = {} => new = old
      /\ of # {} => new = [old EXCEPT ![1] = old[Min(best)], ![Min(best)] = old[1]]
  BY DEF Preferred, provider
<1>2. CASE of = {}
  BY <1>1, <1>2 DEF Heads, Elements
<1>3. CASE of # {}
  <2>1. best # {} /\ best \subseteq of /\ of \subseteq 1 .. n
    BY <1>3
  <2>2. Min(best) \in best /\ Min(best) \in 1 .. n /\ 1 \in 1 .. n
    BY <2>1, Least
  <2>3. new[1] = old[Min(best)] /\ DOMAIN new = 1 .. n
    BY <1>1, <1>3, <2>2
  <2>4. provider(new[1]) = route.provider
    BY <2>1, <2>2, <2>3
  <2>5. ASSUME config.sticky.prefer_model, route.model \in Elements(new),
               provider(route.model) = route.provider
        PROVE  new[1] = route.model
    <3>1. PICK i \in 1 .. n : new[i] = route.model
      BY <2>3, <2>5 DEF Elements
    <3>2. \E k \in 1 .. n : old[k] = new[i]
      BY <1>1, <1>3, <2>2
    <3>3. exact # {}
      BY <2>5, <3>1, <3>2
    <3> QED BY <2>2, <2>3, <3>3
  <2> QED BY <2>4, <2>5 DEF Heads
<1> QED BY <1>2, <1>3

\* A route that was recorded last and undisturbed is in its store until it expires.
Kept(k) ==
  turn[k].expires > now =>
    k \in DOMAIN routes[turn[k].backend] /\ routes[turn[k].backend][k] = turn[k]

\* What a handler knows of its conversation: nothing before it has asked for it.
Knows(s) ==
  /\ DOMAIN job[s] = DOMAIN Idle
  /\ At(s, "idle") => job[s] = Idle
  /\ ~At(s, "idle") => job[s].req \in Inputs
  /\ At(s, "sticky") => /\ StickyKey(job[s].req) # Absent /\ job[s].prior = Nowhere
                        /\ \E n \in Nat : DOMAIN job[s].order = 1 .. n
  /\ At(s, "record") => StickyKey(job[s].req) # Absent
  /\ At(s, "embed") /\ job[s].prior.expires > now => Heads(job[s].order, job[s].prior)
  /\ At(s, "embed") => job[s].prior.expires \in Nat

StickyInv ==
  /\ now \in Nat
  /\ running # 0 => running \in DOMAIN Configurations
  /\ DOMAIN routes = Backends
  /\ DOMAIN turn = Keys /\ DOMAIN job = Slots
  /\ \A k \in Keys : turn[k].backend \in Backends /\ turn[k].expires \in Nat /\ Kept(k)
  /\ running = 0 => \A s \in Slots : At(s, "idle")
  /\ \A s \in Slots : Knows(s)

LEMMA StickyEnough == StickyInv => StickyFollows
BY DEF StickyInv, StickyFollows, Knows, Heads, provider

LEMMA StickyInit == Init => StickyInv
<1> SUFFICES ASSUME Init PROVE StickyInv
  OBVIOUS
<1>1. \A s \in Slots : job[s] = Idle /\ Idle.pc = "idle"
  BY DEF Init, Idle
<1>2. \A s \in Slots : Knows(s) /\ At(s, "idle")
  BY <1>1 DEF Knows, At
<1>3. \A k \in Keys : turn[k] = Nowhere /\ Nowhere.expires = 0 /\ Nowhere.backend \in Backends
  BY DEF Init, Nowhere, Backends
<1>4. \A k \in Keys : Kept(k)
  BY <1>3 DEF Kept, Init
<1> QED BY <1>2, <1>3, <1>4 DEF StickyInv, Init

\* A request that is not before its call to the sticky store, nor just after it.
Elsewhere(j) ==
  /\ DOMAIN j = DOMAIN Idle
  /\ j.req \in Inputs
  /\ j.pc \notin {"idle", "sticky", "embed"}
  /\ j.pc = "record" => StickyKey(j.req) # Absent

\* The others' requests are as they were.
LEMMA OtherSlots ==
  ASSUME StickyInv, NEW s \in Slots, running' = running, now' = now,
         NEW j, job' = [job EXCEPT ![s] = j], NEW q \in Slots \ {s}
  PROVE  Knows(q)'
<1>1. job'[q] = job[q]
  BY DEF StickyInv
<1>2. Knows(q)
  BY DEF StickyInv
<1> QED BY <1>1, <1>2 DEF Knows, At, Heads, provider, config

LEMMA ElsewhereKnows ==
  ASSUME NEW s, NEW j, job'[s] = j, Elsewhere(j) \/ j = Idle
  PROVE  Knows(s)'
<1>1. CASE j = Idle
  <2>1. Idle.pc = "idle"
    BY DEF Idle
  <2> QED BY <1>1, <2>1 DEF Knows, At
<1>2. CASE Elsewhere(j)
  BY <1>2 DEF Elsewhere, Knows, At
<1> QED BY <1>1, <1>2

LEMMA Runs ==
  ASSUME StickyInv, NEW s \in Slots, ~At(s, "idle")
  PROVE  running # 0 /\ running \in DOMAIN Configurations
BY DEF StickyInv

\* A step of one request that leaves the sticky store alone.
LEMMA JobStep ==
  ASSUME StickyInv, NEW s \in Slots, running # 0,
         running' = running, now' = now, routes' = routes, turn' = turn,
         NEW j, job' = [job EXCEPT ![s] = j], Elsewhere(j) \/ j = Idle
  PROVE  StickyInv'
<1>1. job'[s] = j /\ DOMAIN job' = Slots
  BY DEF StickyInv
<1>2. \A q \in Slots : Knows(q)'
  BY <1>1, OtherSlots, ElsewhereKnows
<1>3. \A k \in Keys : turn'[k].backend \in Backends /\ turn'[k].expires \in Nat /\ Kept(k)'
  BY DEF StickyInv, Kept
<1> QED BY <1>1, <1>2, <1>3 DEF StickyInv

LEMMA EmbedLike ==
  ASSUME StickyInv, NEW s \in Slots,
         Embed(s) \/ Lookup(s) \/ Serve(s) \/ Dispatched(s) \/ BodyRead(s) \/ Record(s)
  PROVE  StickyInv'
<1>1. /\ running' = running /\ now' = now /\ routes' = routes /\ turn' = turn
      /\ ~At(s, "idle")
  BY DEF Embed, Lookup, Serve, Dispatched, BodyRead, Record, At
<1>2. running # 0 /\ DOMAIN job[s] = DOMAIN Idle /\ job[s].req \in Inputs /\ DOMAIN job = Slots
  BY <1>1, Runs DEF StickyInv, Knows
<1> DEFINE Later == {"lookup", "send", "served", "body", "store"}
<1>3. DOMAIN Idle = {"pc", "req", "order", "embedding", "asked", "chosen", "success", "hit", "prior"}
  BY DEF Idle
<1>4. CASE job' = [job EXCEPT ![s] = Idle]
  BY <1>1, <1>2, <1>4, JobStep
<1>5. CASE Embed(s)
  <2>1. \E j : /\ job' = [job EXCEPT ![s] = j] /\ DOMAIN j = DOMAIN Idle
               /\ j.req = job[s].req /\ j.pc \in Later
    BY <1>2, <1>3, <1>5 DEF Embed, Goto
  <2> QED BY <1>1, <1>2, <2>1, JobStep DEF Elsewhere
<1>6. CASE Lookup(s)
  <2>1. \E j : /\ job' = [job EXCEPT ![s] = j] /\ DOMAIN j = DOMAIN Idle
               /\ j.req = job[s].req /\ j.pc \in Later
    BY <1>2, <1>3, <1>6 DEF Lookup, Goto
  <2> QED BY <1>1, <1>2, <2>1, JobStep DEF Elsewhere
<1>7. CASE BodyRead(s) /\ ~(job' = [job EXCEPT ![s] = Idle])
  <2>1. \E j : /\ job' = [job EXCEPT ![s] = j] /\ DOMAIN j = DOMAIN Idle
               /\ j.req = job[s].req /\ j.pc \in Later
    BY <1>2, <1>3, <1>7 DEF BodyRead, Finish
  <2> QED BY <1>1, <1>2, <2>1, JobStep DEF Elsewhere
<1>8. CASE Dispatched(s) /\ ~(job' = [job EXCEPT ![s] = Idle])
  <2>1. \E j : /\ job' = [job EXCEPT ![s] = j] /\ DOMAIN j = DOMAIN Idle
               /\ j.req = job[s].req
               /\ j.pc = "body" \/ (j.pc = "record" /\ StickyKey(j.req) # Absent)
    <3> DEFINE to == IF config.sticky.enabled /\ StickyKey(job[s].req) # Absent
                     THEN "record" ELSE "body"
    <3>1. PICK i, ok : job' = [job EXCEPT ![s].chosen = i, ![s].success = ok, ![s].pc = to]
      BY <1>8 DEF Dispatched, Finish
    <3>2. to = "body" \/ (to = "record" /\ StickyKey(job[s].req) # Absent)
      OBVIOUS
    <3> HIDE DEF to
    <3> DEFINE j == [job[s] EXCEPT !.chosen = i, !.success = ok, !.pc = to]
    <3>3. job' = [job EXCEPT ![s] = j]
      BY <1>2, <3>1
    <3>4. DOMAIN j = DOMAIN Idle /\ j.req = job[s].req /\ j.pc = to
      BY <1>2, <1>3
    <3> QED BY <3>2, <3>3, <3>4
  <2> QED BY <1>1, <1>2, <2>1, JobStep DEF Elsewhere
<1>9. Serve(s) \/ Record(s) => job' = [job EXCEPT ![s] = Idle]
  BY DEF Serve, Record, Finish
<1> QED BY <1>4, <1>5, <1>6, <1>7, <1>8, <1>9

LEMMA ArriveSticks == ASSUME StickyInv, NEW s \in Slots, Arrive(s) PROVE StickyInv'
<1>1. /\ running' = running /\ now' = now /\ routes' = routes /\ running # 0
      /\ job[s] = Idle /\ DOMAIN job = Slots
  BY DEF Arrive, StickyInv, Knows
<1>2. PICK q \in Inputs : \E plan \in Plans(q) :
        /\ job' = [job EXCEPT ![s].req = q, ![s].order = plan,
                     ![s].pc = IF config.sticky.enabled /\ Len(plan) > 1 /\ StickyKey(q) # Absent
                               THEN "sticky" ELSE "embed"]
        /\ turn' = [k \in Keys |-> IF k = StickyKey(q) /\ Conversing(k) # {} THEN Nowhere ELSE turn[k]]
  BY DEF Arrive
<1>3. PICK plan \in Plans(q) :
        /\ job' = [job EXCEPT ![s].req = q, ![s].order = plan,
                     ![s].pc = IF config.sticky.enabled /\ Len(plan) > 1 /\ StickyKey(q) # Absent
                               THEN "sticky" ELSE "embed"]
        /\ turn' = [k \in Keys |-> IF k = StickyKey(q) /\ Conversing(k) # {} THEN Nowhere ELSE turn[k]]
  BY <1>2
<1> DEFINE to == IF config.sticky.enabled /\ Len(plan) > 1 /\ StickyKey(q) # Absent
                 THEN "sticky" ELSE "embed"
           j == [Idle EXCEPT !.req = q, !.order = plan, !.pc = to]
<1>4. to = "embed" \/ (to = "sticky" /\ StickyKey(q) # Absent)
  OBVIOUS
<1>5. \E n \in Nat : DOMAIN plan = 1 .. n
  <2> DEFINE able == {m.id : m \in {x \in Elements(config.models) : Supported(config, x, q.endpoint)}}
             card == Cardinality(able)
  <2>1. plan \in UNION {[1 .. n -> able] : n \in 1 .. card}
    BY DEF Plans
  <2> HIDE DEF able, card
  <2>2. PICK n \in 1 .. card : plan \in [1 .. n -> able]
    BY <2>1
  <2> QED BY <2>2
<1> HIDE DEF to
<1>6. job' = [job EXCEPT ![s] = j] /\ job'[s] = j /\ DOMAIN job' = Slots
  BY <1>1, <1>3 DEF to
<1>7. /\ DOMAIN j = DOMAIN Idle /\ j.req = q /\ j.order = plan /\ j.pc = to
      /\ j.prior = Nowhere /\ Nowhere.expires = 0 /\ Nowhere.backend \in Backends
  BY DEF Idle, Nowhere, Backends
<1> HIDE DEF j
<1>8. Knows(s)'
  <2>1. job'[s].pc = to /\ job'[s].req = q /\ job'[s].order = plan /\ job'[s].prior.expires = 0
    BY <1>6, <1>7
  <2>2. DOMAIN job'[s] = DOMAIN Idle /\ job'[s].prior = Nowhere
    BY <1>6, <1>7
  <2>3. ~(0 > now)
    BY DEF StickyInv
  <2> QED BY <1>1, <1>4, <1>5, <2>1, <2>2, <2>3 DEF Knows, At
<1>9. \A x \in Slots : Knows(x)'
  BY <1>1, <1>6, <1>8, OtherSlots
<1>10. ASSUME NEW k \in Keys PROVE turn'[k].backend \in Backends /\ turn'[k].expires \in Nat /\ Kept(k)'
  <2>1. turn'[k] \in {turn[k], Nowhere}
    BY <1>3
  <2> QED BY <1>1, <1>7, <2>1 DEF StickyInv, Kept
<1> QED BY <1>1, <1>3, <1>6, <1>9, <1>10 DEF StickyInv

LEMMA TickSticks == ASSUME StickyInv, Tick PROVE StickyInv'
<1>1. /\ running' = running /\ now' = now + 1 /\ now \in Nat
      /\ routes' = routes /\ job' = job /\ turn' = turn
  BY DEF Tick, StickyInv
<1>2. ASSUME NEW s \in Slots PROVE Knows(s)'
  <2>1. Knows(s)
    BY DEF StickyInv
  <2>2. At(s, "embed") /\ job[s].prior.expires > now + 1 => job[s].prior.expires > now
    BY <1>1, <2>1 DEF Knows
  <2> QED BY <1>1, <2>1, <2>2 DEF Knows, At, Heads, provider, config
<1>3. ASSUME NEW k \in Keys PROVE turn'[k].backend \in Backends /\ turn'[k].expires \in Nat /\ Kept(k)'
  <2>1. turn[k].expires \in Nat /\ Kept(k)
    BY DEF StickyInv
  <2>2. turn[k].expires > now + 1 => turn[k].expires > now
    BY <1>1, <2>1
  <2> QED BY <1>1, <2>1, <2>2 DEF StickyInv, Kept
<1> QED BY <1>1, <1>2, <1>3 DEF StickyInv, At

LEMMA StartStopSticks == ASSUME StickyInv, Start \/ Stop PROVE StickyInv'
<1>1. CASE Start
  <2>1. /\ now' = now /\ routes' = routes /\ job' = job /\ turn' = turn
        /\ running = 0 /\ running' \in DOMAIN Configurations
    BY <1>1 DEF Start
  <2>2. \A s \in Slots : At(s, "idle") /\ Knows(s)
    BY <2>1 DEF StickyInv
  <2>3. \A s \in Slots : At(s, "idle")' /\ Knows(s)'
    BY <2>1, <2>2 DEF Knows, At
  <2> QED BY <2>1, <2>3 DEF StickyInv, Kept
<1>2. CASE Stop
  <2>1. /\ now' = now /\ running' = 0 /\ job' = [s \in Slots |-> Idle] /\ now \in Nat
        /\ routes' = [routes EXCEPT !["memory"] = <<>>]
        /\ turn' = [k \in Keys |-> IF turn[k].backend = "memory" THEN Nowhere ELSE turn[k]]
    BY <1>2 DEF Stop, StickyInv
  <2>2. Nowhere.expires = 0 /\ Nowhere.backend \in Backends /\ Idle.pc = "idle"
    BY DEF Nowhere, Backends, Idle
  <2>3. \A s \in Slots : At(s, "idle")' /\ Knows(s)'
    BY <2>1, <2>2 DEF Knows, At
  <2>4. ASSUME NEW k \in Keys PROVE turn'[k].backend \in Backends /\ turn'[k].expires \in Nat /\ Kept(k)'
    <3>1. CASE turn[k].backend = "memory"
      BY <2>1, <2>2, <3>1 DEF Kept
    <3>2. CASE turn[k].backend # "memory"
      BY <2>1, <3>2 DEF Kept, StickyInv
    <3> QED BY <3>1, <3>2
  <2> QED BY <2>1, <2>3, <2>4 DEF StickyInv
<1> QED BY <1>1, <1>2

\* FollowRoute or RecordRoute: the request goes on, other keys keep their live
\* routes, and its own key has the route that turn says, or turn says none.
LEMMA RoutesStep ==
  ASSUME StickyInv, NEW s \in Slots, running' = running, now' = now, DOMAIN routes' = Backends,
         NEW j, job' = [job EXCEPT ![s] = j], running # 0, Knows(s)',
         DOMAIN turn' = Keys,
         \A k \in Keys : turn'[k].backend \in Backends /\ turn'[k].expires \in Nat /\ Kept(k)'
  PROVE  StickyInv'
<1>1. \A q \in Slots : Knows(q)'
  BY OtherSlots
<1> QED BY <1>1 DEF StickyInv

\* A purge keeps what has not expired.
LEMMA PurgeKeeps ==
  ASSUME NEW r, NEW k \in DOMAIN r, r[k].expires > now
  PROVE  k \in DOMAIN Unexpired(r) /\ Unexpired(r)[k] = r[k]
BY DEF Unexpired

LEMMA FollowSticks == ASSUME StickyInv, NEW s \in Slots, FollowRoute(s) PROVE StickyInv'
<1> DEFINE b == config.sticky.backend
           key == StickyKey(job[s].req)
           live == Unexpired(routes[b])
           kept == IF b = "file" THEN live
                   ELSE [x \in {y \in DOMAIN routes[b] : y # key \/ y \in DOMAIN live} |-> routes[b][x]]
<1>1. /\ running' = running /\ now' = now /\ turn' = turn /\ At(s, "sticky") /\ ~At(s, "idle")
      /\ now \in Nat /\ DOMAIN job = Slots /\ DOMAIN turn = Keys /\ DOMAIN routes = Backends
  BY DEF FollowRoute, StickyInv, At
<1>2. /\ running # 0 /\ DOMAIN job[s] = DOMAIN Idle /\ job[s].req \in Inputs
      /\ key # Absent /\ job[s].prior = Nowhere
  BY <1>1, Runs DEF StickyInv, Knows
<1>3. PICK n \in Nat : DOMAIN job[s].order = 1 .. n
  BY <1>1 DEF StickyInv, Knows
<1>4. key \in Keys
  BY <1>2 DEF Keys
<1>5. DOMAIN Idle = {"pc", "req", "order", "embedding", "asked", "chosen", "success", "hit", "prior"}
  BY DEF Idle
<1>6. Nowhere.expires = 0
  BY DEF Nowhere
<1>7. \A k \in DOMAIN live : k \in DOMAIN routes[b] /\ live[k] = routes[b][k]
  BY DEF Unexpired
<1>8. \A k \in DOMAIN routes[b] : routes[b][k].expires > now =>
        k \in DOMAIN kept /\ kept[k] = routes[b][k]
  BY PurgeKeeps, <1>7
<1>9. routes' \in {routes, [routes EXCEPT ![b] = kept]}
  BY DEF FollowRoute
<1>10. ASSUME NEW k \in Keys PROVE turn'[k].backend \in Backends /\ turn'[k].expires \in Nat /\ Kept(k)'
  <2>1. turn[k].backend \in Backends /\ turn[k].expires \in Nat /\ Kept(k)
    BY DEF StickyInv
  <2> HIDE DEF b, kept
  <2>2. ASSUME turn[k].expires > now
        PROVE  k \in DOMAIN routes'[turn[k].backend] /\ routes'[turn[k].backend][k] = turn[k]
    <3>1. k \in DOMAIN routes[turn[k].backend] /\ routes[turn[k].backend][k] = turn[k]
      BY <2>1, <2>2 DEF Kept
    <3>2. CASE routes' = [routes EXCEPT ![b] = kept] /\ turn[k].backend = b
      <4>1. routes'[b] = kept
        BY <1>1, <2>1, <3>2
      <4>2. k \in DOMAIN kept /\ kept[k] = routes[b][k]
        BY <1>8, <2>2, <3>1, <3>2
      <4> QED BY <3>1, <3>2, <4>1, <4>2
    <3>3. CASE routes' = [routes EXCEPT ![b] = kept] /\ turn[k].backend # b
      BY <3>1, <3>3
    <3> QED BY <1>9, <3>1, <3>2, <3>3
  <2> QED BY <1>1, <2>1, <2>2 DEF Kept
<1>11. DOMAIN routes' = Backends
  BY <1>1, <1>9
<1> DEFINE order == IF key \in DOMAIN live THEN Preferred(job[s].order, live[key]) ELSE job[s].order
           prior == IF turn[key].backend = b THEN turn[key] ELSE job[s].prior
<1>12. CASE job' = [job EXCEPT ![s].pc = "embed", ![s].order = order, ![s].prior = prior]
  <2>1. ASSUME prior.expires > now PROVE Heads(order, prior)
    <3>1. prior = turn[key] /\ turn[key].backend = b
      BY <1>1, <1>2, <1>6, <2>1
    <3>2. key \in DOMAIN routes[b] /\ routes[b][key] = turn[key]
      BY <1>4, <2>1, <3>1 DEF StickyInv, Kept
    <3>3. key \in DOMAIN live /\ live[key] = turn[key]
      BY <2>1, <3>1, <3>2, PurgeKeeps
    <3> HIDE DEF live, b, key
    <3> QED BY <1>3, <3>1, <3>3, PreferredHeads
  <2>2. prior.expires \in Nat
    BY <1>2, <1>4, <1>6 DEF StickyInv
  <2> HIDE DEF order, prior
  <2> DEFINE j == [job[s] EXCEPT !.pc = "embed", !.order = order, !.prior = prior]
  <2>3. job' = [job EXCEPT ![s] = j] /\ job'[s] = j
    BY <1>1, <1>12
  <2>4. /\ DOMAIN j = DOMAIN Idle /\ j.req \in Inputs /\ j.pc = "embed"
        /\ j.order = order /\ j.prior = prior
    BY <1>2, <1>5
  <2> HIDE DEF j
  <2>6. Knows(s)'
    BY <1>1, <2>1, <2>2, <2>3, <2>4 DEF Knows, At, Heads, provider, config
  <2> QED BY <1>1, <1>2, <1>10, <1>11, <2>3, <2>6, RoutesStep
<1>13. CASE Goto(s, "embed")
  <2> DEFINE j == [job[s] EXCEPT !.pc = "embed"]
  <2>1. job' = [job EXCEPT ![s] = j] /\ job'[s] = j
    BY <1>1, <1>13 DEF Goto
  <2>2. /\ DOMAIN j = DOMAIN Idle /\ j.req \in Inputs /\ j.pc = "embed"
        /\ j.prior = Nowhere
    BY <1>2, <1>5
  <2> HIDE DEF j
  <2>3. ~(Nowhere.expires > now) /\ Nowhere.expires \in Nat
    BY <1>1, <1>6
  <2>4. Knows(s)'
    BY <1>1, <2>1, <2>2, <2>3 DEF Knows, At
  <2> QED BY <1>1, <1>2, <1>10, <1>11, <2>1, <2>4, RoutesStep
<1> QED BY <1>12, <1>13 DEF FollowRoute

LEMMA RecordSticks == ASSUME StickyInv, NEW s \in Slots, RecordRoute(s) PROVE StickyInv'
<1> DEFINE b == config.sticky.backend
           key == StickyKey(job[s].req)
           model == FindModel(config, job[s].order[job[s].chosen])
           route == [model |-> model.id, provider |-> model.provider, expires |-> now + Ttl, backend |-> b]
           old == IF b = "file" THEN Unexpired(routes[b]) ELSE routes[b]
           written == Recorded(old, key, route)
<1>1. /\ running' = running /\ now' = now /\ At(s, "record") /\ ~At(s, "idle") /\ Goto(s, "body")
      /\ now \in Nat /\ DOMAIN job = Slots /\ DOMAIN turn = Keys /\ DOMAIN routes = Backends
  BY DEF RecordRoute, StickyInv, At
<1>2. /\ running # 0 /\ running \in DOMAIN Configurations
      /\ DOMAIN job[s] = DOMAIN Idle /\ job[s].req \in Inputs /\ key # Absent
  BY <1>1, Runs DEF StickyInv, Knows
<1>3. key \in Keys
  BY <1>2 DEF Keys
<1>4. DOMAIN Idle = {"pc", "req", "order", "embedding", "asked", "chosen", "success", "hit", "prior"}
  BY DEF Idle
<1>5. Nowhere.expires = 0 /\ Nowhere.backend \in Backends
  BY DEF Nowhere, Backends
<1>6. Ttl \in Nat
  BY <1>2, StoresAssumption DEF Ttl, config, StoresAssumption
<1>7. \A k \in DOMAIN routes[b] : routes[b][k].expires > now => k \in DOMAIN old /\ old[k] = routes[b][k]
  BY PurgeKeeps
<1> HIDE DEF old
<1>8. /\ key \in DOMAIN written /\ written[key] = route
      /\ \A k \in DOMAIN old : k # key => k \in DOMAIN written /\ written[k] = old[k]
  BY DEF Recorded
<1>9. route.expires \in Nat /\ route.backend = b
  BY <1>1, <1>6
<1> HIDE DEF written, route
<1>10. \/ routes' = [routes EXCEPT ![b] = written] /\ turn' = [turn EXCEPT ![key] = route]
       \/ routes' \in {routes, [routes EXCEPT ![b] = written]} /\ turn' = [turn EXCEPT ![key] = Nowhere]
  <2>1. \/ /\ routes' = [routes EXCEPT ![b] = written]
           /\ turn' = [turn EXCEPT ![key] = IF Conversing(key) = {s} THEN route ELSE Nowhere]
        \/ /\ routes' \in {routes, [routes EXCEPT ![b] = written]}
           /\ turn' = [turn EXCEPT ![key] = Nowhere]
    BY DEF RecordRoute, written, old, route
  <2> QED BY <2>1
<1> HIDE DEF key, b
<1>11. DOMAIN routes' = Backends /\ DOMAIN turn' = Keys
  BY <1>1, <1>10
<1>12. ASSUME NEW k \in Keys \ {key}
       PROVE  turn'[k].backend \in Backends /\ turn'[k].expires \in Nat /\ Kept(k)'
  <2>1. turn'[k] = turn[k] /\ turn[k].backend \in Backends /\ turn[k].expires \in Nat /\ Kept(k)
    BY <1>10 DEF StickyInv
  <2>2. ASSUME turn[k].expires > now
        PROVE  k \in DOMAIN routes'[turn[k].backend] /\ routes'[turn[k].backend][k] = turn[k]
    <3>1. k \in DOMAIN routes[turn[k].backend] /\ routes[turn[k].backend][k] = turn[k]
      BY <2>1, <2>2 DEF Kept
    <3>2. CASE routes' = [routes EXCEPT ![b] = written] /\ turn[k].backend = b
      <4>1. routes'[b] = written
        BY <1>1, <2>1, <3>2
      <4>2. k \in DOMAIN written /\ written[k] = routes[b][k]
        BY <1>7, <1>8, <2>2, <3>1, <3>2
      <4> QED BY <3>1, <3>2, <4>1, <4>2
    <3>3. CASE routes' = [routes EXCEPT ![b] = written] /\ turn[k].backend # b
      BY <3>1, <3>3
    <3> QED BY <1>10, <3>1, <3>2, <3>3
  <2> QED BY <1>1, <2>1, <2>2 DEF Kept
<1>13. ASSUME NEW k \in Keys, k = key
       PROVE  turn'[k].backend \in Backends /\ turn'[k].expires \in Nat /\ Kept(k)'
  <2>1. CASE routes' = [routes EXCEPT ![b] = written] /\ turn' = [turn EXCEPT ![key] = route]
    <3>1. turn'[k] = route
      BY <1>1, <1>13, <2>1
    <3>2. b \in Backends
      BY <1>2, StoresAssumption DEF b, config, Backends, StoresAssumption
    <3>3. routes'[b] = written
      BY <1>1, <2>1, <3>2
    <3> QED BY <1>8, <1>9, <1>13, <3>1, <3>2, <3>3 DEF Kept
  <2>2. CASE turn' = [turn EXCEPT ![key] = Nowhere]
    <3>1. turn'[k] = Nowhere
      BY <1>1, <1>13, <2>2
    <3>2. ~(Nowhere.expires > now')
      BY <1>1, <1>5
    <3> QED BY <1>5, <3>1, <3>2 DEF Kept
  <2> QED BY <1>10, <2>1, <2>2
<1> DEFINE j == [job[s] EXCEPT !.pc = "body"]
<1>14. job' = [job EXCEPT ![s] = j] /\ job'[s] = j
  BY <1>1 DEF Goto
<1>15. Elsewhere(j)
  BY <1>2, <1>4 DEF Elsewhere
<1> HIDE DEF j
<1>16. Knows(s)'
  BY <1>14, <1>15, ElsewhereKnows
<1> QED BY <1>1, <1>2, <1>11, <1>12, <1>13, <1>14, <1>16, RoutesStep

LEMMA StickyStep == ASSUME StickyInv, [Next]_vars PROVE StickyInv'
<1>1. CASE UNCHANGED vars
  <2>1. \A s \in Slots : Knows(s)'
    BY <1>1 DEF vars, StickyInv, Knows, At, Heads, provider, config
  <2>2. \A k \in Keys : turn'[k].backend \in Backends /\ turn'[k].expires \in Nat /\ Kept(k)'
    BY <1>1 DEF vars, StickyInv, Kept
  <2> QED BY <1>1, <2>1, <2>2 DEF vars, StickyInv, At
<1>2. ASSUME NEW s \in Slots,
             \/ Arrive(s) \/ FollowRoute(s) \/ Embed(s) \/ Lookup(s) \/ Serve(s)
             \/ Dispatched(s) \/ RecordRoute(s) \/ BodyRead(s) \/ Record(s)
      PROVE  StickyInv'
  BY <1>2, ArriveSticks, FollowSticks, RecordSticks, EmbedLike
<1> QED BY <1>1, <1>2, TickSticks, StartStopSticks DEF Next

LEMMA StickyInvariant == Spec => []StickyInv
BY StickyInit, StickyStep, PTL DEF Spec

\* The next request of a conversation goes to the model that answered the last
\* one (apply_sticky_routing), however many are answered at once, whatever fails,
\* and after a restart when the routes are in a file.
THEOREM ConversationsStay == Spec => []StickyFollows
BY StickyInvariant, StickyEnough, PTL
-----------------------------------------------------------------------------
(* The semantic cache: sequences and their places.                           *)

IsSeq(s) == \E n \in Nat : s = [i \in 1 .. n |-> s[i]]

LEMMA Extends ==
  ASSUME NEW s, IsSeq(s), NEW e
  PROVE  IsSeq(Append(s, e)) /\ \A i \in DOMAIN Append(s, e) :
           Append(s, e)[i] = e \/ \E k \in DOMAIN s : Append(s, e)[i] = s[k]
<1>1. PICK n \in Nat : s = [i \in 1 .. n |-> s[i]]
  BY DEF IsSeq
<1> DEFINE T == {s[i] : i \in 1 .. n} \cup {e}
<1>2. s \in Seq(T) /\ Len(s) = n
  <2>1. [i \in 1 .. n |-> s[i]] \in [1 .. n -> T]
    OBVIOUS
  <2> QED BY <1>1, <2>1
<1> DEFINE a == Append(s, e)
<1>3. a \in Seq(T) /\ Len(a) = n + 1 /\ a[n + 1] = e /\ \A i \in 1 .. n : a[i] = s[i]
  BY <1>2
<1>4. DOMAIN a = 1 .. n + 1 /\ a = [i \in 1 .. n + 1 |-> a[i]] /\ DOMAIN s = 1 .. n
  BY <1>1, <1>3
<1> HIDE DEF a
<1>5. IsSeq(a)
  BY <1>4 DEF IsSeq
<1> QED BY <1>3, <1>4, <1>5 DEF a

\* Finitely many places can be put in order: those up to the first place where it
\* could not be done can.
LEMMA PlacesInOrder ==
  ASSUME NEW n \in Nat, NEW K \in SUBSET (1 .. n)
  PROVE  InOrder(K) \in [1 .. Cardinality(K) -> K] /\ Cardinality(K) \in Nat
<1> DEFINE Up(m) == K \cap (1 .. m)
           Rises(f) == \A i, j \in DOMAIN f : i < j => f[i] < f[j]
           Can(m) == \E f \in [1 .. Cardinality(Up(m)) -> Up(m)] : Rises(f)
           Good == {m \in 0 .. n : Can(m)}
<1>1. \A m \in 0 .. n : IsFiniteSet(Up(m)) /\ Cardinality(Up(m)) \in Nat
  <2>1. \A m \in 0 .. n : IsFiniteSet(1 .. m)
    BY FS_Interval
  <2> QED BY <2>1, FS_Subset, FS_CardinalityType
<1>2. Can(0)
  <2>1. Up(0) = {} /\ Cardinality(Up(0)) = 0
    BY FS_EmptySet
  <2>2. <<>> \in [1 .. 0 -> {}] /\ DOMAIN <<>> = {}
    OBVIOUS
  <2> QED BY <2>1, <2>2
<1>3. ASSUME NEW m \in 1 .. n, Can(m - 1) PROVE Can(m)
  <2> DEFINE T == Up(m - 1)
             c == Cardinality(T)
  <2>1. PICK f \in [1 .. c -> T] : Rises(f)
    BY <1>3
  <2>2. c \in Nat /\ IsFiniteSet(T) /\ \A i \in T : i < m /\ i \in Up(m)
    <3>1. m - 1 \in 0 .. n /\ m \in Nat
      OBVIOUS
    <3>2. \A i \in T : i < m /\ i \in Up(m)
      BY <3>1
    <3>3. c \in Nat /\ IsFiniteSet(T)
      BY <1>1, <3>1
    <3> QED BY <3>2, <3>3
  <2>3. CASE m \notin K
    <3>1. Up(m) = T
      BY <2>3
    <3> QED BY <2>1, <3>1
  <2>4. CASE m \in K
    <3>1. Up(m) = T \cup {m} /\ m \notin T
      BY <2>4
    <3> HIDE DEF T
    <3>2. Cardinality(Up(m)) = c + 1
      BY <2>2, <3>1, FS_AddElement
    <3> DEFINE g == [i \in 1 .. c + 1 |-> IF i = c + 1 THEN m ELSE f[i]]
    <3> HIDE DEF c
    <3>3. g \in [1 .. c + 1 -> Up(m)]
      BY <2>1, <2>2, <3>1
    <3>4. Rises(g)
      BY <2>1, <2>2
    <3> HIDE DEF g
    <3> QED BY <3>2, <3>3, <3>4
  <2> QED BY <2>3, <2>4
<1>4. Can(n)
  <2> HIDE DEF Can
  <2>1. 0 \in Good /\ \A m \in 1 .. n : m - 1 \in Good => m \in Good
    BY <1>2, <1>3
  <2> HIDE DEF Good
  <2>2. n \in Good
    BY <2>1, Climbs
  <2> QED BY <2>2 DEF Good
<1>5. Up(n) = K
  OBVIOUS
<1> HIDE DEF Up
<1>6. Cardinality(K) \in Nat /\ \E f \in [1 .. Cardinality(K) -> K] : Rises(f)
  BY <1>1, <1>4, <1>5
<1> QED BY <1>6 DEF InOrder

\* What a purge leaves was there, and lives.
LEMMA PrunedLives ==
  ASSUME NEW s, IsSeq(s), NEW t
  PROVE  /\ IsSeq(Pruned(s, t))
         /\ \A i \in DOMAIN Pruned(s, t) :
              \E k \in DOMAIN s : Pruned(s, t)[i] = s[k] /\ Lives(s[k], t)
<1>1. PICK n \in Nat : s = [i \in 1 .. n |-> s[i]]
  BY DEF IsSeq
<1> DEFINE live == {i \in DOMAIN s : Lives(s[i], t)}
           later(i) == {k \in live : k > i}
           kept == {i \in live : Cardinality(later(i)) < config.cache.numbers["max_entries"]}
           order == InOrder(kept)
           new == [i \in 1 .. Cardinality(kept) |-> s[order[i]]]
<1>2. Pruned(s, t) = new
  BY DEF Pruned
<1>3. kept \in SUBSET (1 .. n) /\ \A i \in kept : i \in DOMAIN s /\ Lives(s[i], t)
  BY <1>1
<1> HIDE DEF kept
<1>4. order \in [1 .. Cardinality(kept) -> kept] /\ Cardinality(kept) \in Nat
  BY <1>3, PlacesInOrder
<1> HIDE DEF order
<1>5. IsSeq(new)
  BY <1>4 DEF IsSeq
<1>6. \A i \in DOMAIN new : \E k \in DOMAIN s : new[i] = s[k] /\ Lives(s[k], t)
  BY <1>3, <1>4
<1> QED BY <1>2, <1>5, <1>6
-----------------------------------------------------------------------------
(* What is in the cache, and what a request finds in it.                      *)

\* An entry is an answer to a request that the cache may keep.
Made(e) ==
  LET q == e.body.answers IN
  /\ q \in Inputs /\ Options(q) = {} /\ Prompt(q) # Absent
  /\ e.endpoint = q.endpoint /\ e.scope = Scope(q) /\ e.embedding.prompt = Prompt(q)
  /\ e.body.success /\ e.inserted \in Nat

Embedded(j) ==
  /\ j.embedding = [model |-> Trimmed[config.cache.embedding_model], prompt |-> Prompt(j.req)]
  /\ Cacheable(config, j.req)

Fits(j) == Made(j.hit) /\ Matches(j, j.hit) /\ Lives(j.hit, j.asked)

\* What a handler knows of its embedding, until it has one, then, and at the end.
Looks(j) ==
  /\ j.asked \in Nat
  /\ j.pc \in {"sticky", "embed"} => j.embedding = Absent
  /\ j.pc \in {"send", "record", "body"} => (j.embedding # Absent => Embedded(j))
  /\ j.pc \in {"lookup", "served", "store"} => Embedded(j)
  /\ j.pc = "store" => j.success
  /\ j.pc = "served" => Fits(j)

AllMade(s) == IsSeq(s) /\ \A i \in DOMAIN s : Made(s[i])

\* The inductive invariant of the cache: every entry was made by an answer, and every
\* handler holds the embedding of its own prompt.
CacheInv ==
  /\ DOMAIN cached = Backends
  /\ \A b \in Backends : AllMade(cached[b])
  /\ \A s \in Slots : Looks(job[s])

\* Two requests of one scope differ in their last prompts at most.
LEMMA ScopeTells ==
  ASSUME NEW p \in Inputs, NEW q \in Inputs, Options(p) = {}, Options(q) = {},
         p.endpoint = q.endpoint, Scope(p) = Scope(q)
  PROVE  SameBut(p, q)
<1>1. p.options = {} /\ q.options = {}
  BY DEF Options
<1>2. ASSUME q.endpoint = "chat"
      PROVE  /\ DOMAIN p.turns = DOMAIN q.turns
             /\ \A i \in DOMAIN q.turns :
                  /\ p.turns[i].role = q.turns[i].role
                  /\ p.turns[i].content = q.turns[i].content \/ (i = Current(q) /\ i = Current(p))
  <2> DEFINE cp == Current(p)
             cq == Current(q)
             P == [p.turns EXCEPT ![cp].content = "query"]
             Q == [q.turns EXCEPT ![cq].content = "query"]
  <2>1. P = Q
    <3>1. ChatScope(p) = ChatScope(q)
      BY <1>2 DEF Scope
    <3> QED BY <3>1 DEF ChatScope
  <2>2. DOMAIN P = DOMAIN p.turns /\ DOMAIN Q = DOMAIN q.turns
    OBVIOUS
  <2>3. /\ \A i \in DOMAIN p.turns : {"role", "content"} \subseteq DOMAIN p.turns[i]
        /\ \A i \in DOMAIN q.turns : {"role", "content"} \subseteq DOMAIN q.turns[i]
    BY <1>2, CacheAssumption DEF CacheAssumption
  <2> HIDE DEF cp, cq
  <2>4. ASSUME NEW i \in DOMAIN p.turns
        PROVE  P[i].role = p.turns[i].role /\ (i # cp => P[i] = p.turns[i])
    BY <2>3
  <2>5. ASSUME NEW i \in DOMAIN q.turns
        PROVE  Q[i].role = q.turns[i].role /\ (i # cq => Q[i] = q.turns[i])
    BY <2>3
  <2>6. DOMAIN p.turns = DOMAIN q.turns
    BY <2>1, <2>2
  <2>7. ASSUME NEW i \in DOMAIN q.turns PROVE p.turns[i].role = q.turns[i].role
    <3>1. P[i].role = Q[i].role
      BY <2>1
    <3> HIDE DEF P, Q
    <3> QED BY <2>4, <2>5, <2>6, <3>1
  <2>8. cp = cq
    BY <2>6, <2>7 DEF cp, cq, Current, UserTurns
  <2>9. \A i \in DOMAIN q.turns : i # cq => p.turns[i] = q.turns[i]
    BY <2>1, <2>4, <2>5, <2>6, <2>8
  <2> QED BY <2>6, <2>7, <2>8, <2>9 DEF cp, cq
<1> QED BY <1>1, <1>2 DEF SameBut

\* Among finitely many places with a number each there is the last of those with
\* the greatest: as far as the first place where there would not be.
LEMMA LastOfGreatest ==
  ASSUME NEW n \in Nat, NEW F \in SUBSET (1 .. n), F # {},
         NEW near, \A i \in F : near[i] \in Int
  PROVE  \E i \in F : \A k \in F : near[k] < near[i] \/ (near[k] = near[i] /\ k <= i)
<1> DEFINE Up(m) == F \cap (1 .. m)
           Beats(i, k) == near[k] < near[i] \/ (near[k] = near[i] /\ k <= i)
           Has(m) == Up(m) # {} => \E i \in Up(m) : \A k \in Up(m) : Beats(i, k)
           Good == {m \in 0 .. n : Has(m)}
<1>1. Has(0)
  OBVIOUS
<1>2. ASSUME NEW m \in 1 .. n, Has(m - 1) PROVE Has(m)
  <2>1. CASE m \notin F
    <3>1. Up(m) = Up(m - 1)
      BY <2>1
    <3> QED BY <1>2, <3>1
  <2>2. CASE m \in F
    <3>1. Up(m) = Up(m - 1) \cup {m} /\ \A k \in Up(m - 1) : k \in F /\ k < m
      BY <2>2
    <3>2. CASE Up(m - 1) = {}
      <4>1. Beats(m, m)
        BY <2>2
      <4> QED BY <3>1, <3>2, <4>1
    <3>3. CASE Up(m - 1) # {}
      <4>1. PICK i \in Up(m - 1) : \A k \in Up(m - 1) : Beats(i, k)
        BY <1>2, <3>3
      <4>2. near[m] \in Int /\ near[i] \in Int /\ i < m /\ \A k \in Up(m - 1) : near[k] \in Int /\ k \in Int
        BY <2>2, <3>1, <4>1
      <4> HIDE DEF Up
      <4>3. CASE near[m] < near[i]
        <5>1. \A k \in Up(m - 1) \cup {m} : Beats(i, k)
          BY <4>1, <4>3
        <5> QED BY <3>1, <4>1, <5>1
      <4>4. CASE near[i] <= near[m]
        <5>1. \A k \in Up(m - 1) \cup {m} : Beats(m, k)
          BY <3>1, <4>1, <4>2, <4>4
        <5> QED BY <3>1, <5>1
      <4> QED BY <4>2, <4>3, <4>4
    <3> QED BY <3>2, <3>3
  <2> QED BY <2>1, <2>2
<1>3. Has(n)
  <2> HIDE DEF Has
  <2>1. 0 \in Good /\ \A m \in 1 .. n : m - 1 \in Good => m \in Good
    BY <1>1, <1>2
  <2> HIDE DEF Good
  <2>2. n \in Good
    BY <2>1, Climbs
  <2> QED BY <2>2 DEF Good
<1>4. Up(n) = F
  OBVIOUS
<1> QED BY <1>3, <1>4

\* The best hit is an entry that matches.
LEMMA HitMatches ==
  ASSUME NEW s, AllMade(s), NEW j, Embedded(j), j.req \in Inputs, RunsValid, running # 0,
         BestHit(j, s) # Absent
  PROVE  \E i \in DOMAIN s : BestHit(j, s) = s[i] /\ Matches(j, s[i])
<1> DEFINE found == {i \in DOMAIN s : Matches(j, s[i])}
           near == [i \in found |-> Similarity(j.embedding, s[i].embedding)]
           Beats(i, k) == near[k] < near[i] \/ (near[k] = near[i] /\ k <= i)
<1>1. PICK n \in Nat : DOMAIN s = 1 .. n
  BY DEF AllMade, IsSeq
<1>2. found # {}
  BY DEF BestHit
<1>3. ASSUME NEW i \in found PROVE near[i] \in Int
  <2>1. Made(s[i]) /\ s[i].embedding.model = j.embedding.model
    BY <1>3 DEF AllMade, Matches
  <2>2. near[i] = Similar[Trimmed[config.cache.embedding_model]][Prompt(j.req)][Prompt(s[i].body.answers)]
    BY <2>1 DEF Similarity, Embedded, Made
  <2>3. Prompt(j.req) # Absent /\ Prompt(s[i].body.answers) # Absent /\ s[i].body.answers \in Inputs
    BY <2>1 DEF Embedded, Cacheable, Made
  <2>4. config.cache.enabled /\ Valid(config) /\ running \in DOMAIN Configurations
    BY DEF Embedded, Cacheable, RunsValid
  <2> QED BY <2>2, <2>3, <2>4, CacheAssumption DEF config, CacheAssumption
<1>4. found \in SUBSET (1 .. n)
  BY <1>1
<1> HIDE DEF near
<1>5. \E i \in found : \A k \in found : Beats(i, k)
  <2> HIDE DEF found
  <2> QED BY <1>2, <1>3, <1>4, LastOfGreatest
<1> DEFINE best == CHOOSE i \in found : \A k \in found : Beats(i, k)
<1>6. best \in found
  BY <1>5
<1>7. BestHit(j, s) = s[best]
  BY <1>2 DEF BestHit, near
<1> HIDE DEF best
<1> QED BY <1>6, <1>7

LEMMA CacheEnough == StickyInv /\ RunsValid /\ CacheInv => ServedAlike /\ ServedFresh
<1> SUFFICES ASSUME StickyInv, RunsValid, CacheInv, NEW s \in Slots, At(s, "served")
             PROVE  LET e == job[s].hit
                        q == job[s].req
                    IN /\ e.body.success /\ e.model \in Elements(job[s].order)
                       /\ SameBut(e.body.answers, q)
                       /\ Similar[Trimmed[config.cache.embedding_model]][Prompt(q)][Prompt(e.body.answers)]
                            >= config.cache.threshold
                       /\ job[s].asked < e.inserted + config.cache.numbers["ttl_seconds"]
  BY DEF ServedAlike, ServedFresh
<1> DEFINE j == job[s]
           e == job[s].hit
           p == job[s].hit.body.answers
<1>1. Made(e) /\ Matches(j, e) /\ Lives(e, j.asked) /\ Embedded(j) /\ j.asked \in Nat
  BY DEF CacheInv, Looks, Fits, At
<1>2. running # 0 /\ running \in DOMAIN Configurations /\ j.req \in Inputs
  BY DEF StickyInv, At, Knows
<1>3. Options(j.req) = {}
  BY <1>1 DEF Embedded, Cacheable, SafeToCache
<1>4. SameBut(p, j.req)
  BY <1>1, <1>2, <1>3, ScopeTells DEF Made, Matches
<1>5. Similar[Trimmed[config.cache.embedding_model]][Prompt(j.req)][Prompt(p)] >= config.cache.threshold
  BY <1>1 DEF Made, Matches, Similarity, Embedded
<1>6. j.asked < e.inserted + config.cache.numbers["ttl_seconds"]
  <2>1. config.cache.numbers["ttl_seconds"] \in Nat /\ e.inserted \in Nat
    BY <1>1, <1>2, CacheAssumption DEF config, CacheAssumption, Made
  <2> QED BY <1>1, <2>1 DEF Lives, Age
<1> QED BY <1>1, <1>4, <1>5, <1>6 DEF Made, Matches
-----------------------------------------------------------------------------
(* Its steps.                                                                *)

LEMMA CacheInit == Init => CacheInv
<1> SUFFICES ASSUME Init PROVE CacheInv
  OBVIOUS
<1>1. \A s \in Slots : Looks(job[s])
  BY DEF Init, Idle, Looks
<1>2. \A b \in Backends : AllMade(cached[b])
  <2>1. IsSeq(<<>>)
    BY DEF IsSeq
  <2> QED BY <2>1 DEF Init, AllMade
<1> QED BY <1>1, <1>2 DEF Init, CacheInv

\* A step of one request: what it writes to a cache was made, and it knows what
\* it did.
LEMMA LookStep ==
  ASSUME StickyInv, CacheInv, NEW s \in Slots, running' = running,
         NEW j, job' = [job EXCEPT ![s] = j], Looks(j),
         cached' = cached \/ \E b, c : cached' = [cached EXCEPT ![b] = c] /\ AllMade(c)
  PROVE  CacheInv'
<1>1. config' = config
  BY DEF config
<1>3. ASSUME NEW b \in Backends PROVE AllMade(cached'[b])
  BY DEF CacheInv
<1>4. ASSUME NEW x \in Slots PROVE Looks(job'[x])
  BY DEF CacheInv, StickyInv
<1>5. (\A x \in Slots : Looks(job[x]))'
  BY <1>1, <1>4 DEF Looks, Embedded, Fits, Matches, Lives
<1> QED BY <1>3, <1>5 DEF CacheInv

\* An idle request knows nothing, on any configuration.
LEMMA IdleLooks == Looks(Idle) /\ Looks(Idle)'
BY DEF Idle, Looks

LEMMA ProcessCaches == ASSUME StickyInv, CacheInv, Start \/ Stop \/ Tick PROVE CacheInv'
<1>1. CASE Tick
  BY <1>1 DEF Tick, CacheInv, Looks, Embedded, Fits, Matches, Lives, config
<1>2. CASE Start
  <2>1. \A s \in Slots : job'[s] = Idle /\ Looks(Idle)'
    BY <1>2, IdleLooks DEF Start, StickyInv, Knows
  <2> QED BY <1>2, <2>1 DEF Start, CacheInv, Looks, Embedded, Fits, Matches, Lives
<1>3. CASE Stop
  <2>1. \A s \in Slots : job'[s] = Idle /\ Looks(Idle)'
    BY <1>3, IdleLooks DEF Stop
  <2>2. (\A s \in Slots : Looks(job[s]))'
    BY <2>1 DEF Looks, Embedded, Fits, Matches, Lives
  <2>3. AllMade(<<>>)
    BY DEF AllMade, IsSeq
  <2>4. cached' = [cached EXCEPT !["memory"] = <<>>]
    BY <1>3 DEF Stop
  <2> QED BY <2>2, <2>3, <2>4 DEF CacheInv
<1> QED BY <1>1, <1>2, <1>3

\* A step after which a request is done, or goes on with the embedding it has.
LEMMA GoesOn ==
  ASSUME StickyInv, CacheInv, NEW s \in Slots, running' = running, cached' = cached,
         NEW j, job' = [job EXCEPT ![s] = j],
         \/ j = Idle
         \/ /\ j.asked = job[s].asked /\ j.embedding = job[s].embedding /\ j.req = job[s].req
            /\ j.pc \in {"sticky", "embed"} => job[s].pc \in {"sticky", "embed"}
            /\ j.pc \in {"send", "record", "body"} =>
                 job[s].pc \in {"sticky", "embed", "lookup", "send", "record", "body"}
            /\ j.pc \notin {"lookup", "served", "store"}
  PROVE  CacheInv'
<1>1. Looks(job[s])
  BY DEF CacheInv
<1>2. Looks(j)
  BY <1>1, IdleLooks DEF Looks, Embedded
<1> QED BY <1>2, LookStep

LEMMA ArriveCaches == ASSUME StickyInv, CacheInv, NEW s \in Slots, Arrive(s) PROVE CacheInv'
<1>1. running' = running /\ cached' = cached /\ job[s] = Idle /\ DOMAIN job = Slots
  BY DEF Arrive, StickyInv, Knows
<1>2. PICK q, plan, to :
        /\ job' = [job EXCEPT ![s].req = q, ![s].order = plan, ![s].pc = to]
        /\ to \in {"sticky", "embed"}
  <2>1. PICK q \in Inputs : \E plan \in Plans(q) :
          job' = [job EXCEPT ![s].req = q, ![s].order = plan,
                    ![s].pc = IF config.sticky.enabled /\ Len(plan) > 1 /\ StickyKey(q) # Absent
                              THEN "sticky" ELSE "embed"]
    BY DEF Arrive
  <2>2. PICK plan \in Plans(q) :
          job' = [job EXCEPT ![s].req = q, ![s].order = plan,
                    ![s].pc = IF config.sticky.enabled /\ Len(plan) > 1 /\ StickyKey(q) # Absent
                              THEN "sticky" ELSE "embed"]
    BY <2>1
  <2> DEFINE to == IF config.sticky.enabled /\ Len(plan) > 1 /\ StickyKey(q) # Absent
                   THEN "sticky" ELSE "embed"
  <2>3. to \in {"sticky", "embed"} /\ job' = [job EXCEPT ![s].req = q, ![s].order = plan, ![s].pc = to]
    BY <2>2
  <2> HIDE DEF to
  <2> QED BY <2>3
<1> DEFINE j == [Idle EXCEPT !.req = q, !.order = plan, !.pc = to]
<1>3. job' = [job EXCEPT ![s] = j]
  BY <1>1, <1>2
<1>4. j.asked = 0 /\ j.embedding = Absent /\ j.pc \in {"sticky", "embed"}
  BY <1>2 DEF Idle
<1> HIDE DEF j
<1>5. Looks(j)
  BY <1>4 DEF Looks
<1> QED BY <1>1, <1>3, <1>5, LookStep

LEMMA EmbedCaches ==
  ASSUME StickyInv, CacheInv, NEW s \in Slots, Embed(s)
  PROVE  CacheInv'
<1>1. /\ running' = running /\ cached' = cached /\ now \in Nat /\ DOMAIN job = Slots
      /\ DOMAIN job[s] = DOMAIN Idle /\ job[s].pc = "embed"
  BY DEF Embed, StickyInv, Knows, At
<1>2. DOMAIN Idle = {"pc", "req", "order", "embedding", "asked", "chosen", "success", "hit", "prior"}
  BY DEF Idle
<1> DEFINE vector == [model |-> Trimmed[config.cache.embedding_model], prompt |-> Prompt(job[s].req)]
           j == [job[s] EXCEPT !.pc = "lookup", !.asked = now, !.embedding = vector]
<1>3. CASE Cacheable(config, job[s].req) /\ job' = [job EXCEPT ![s] = j]
  <2>1. /\ j.asked = now /\ j.embedding = vector /\ j.pc = "lookup" /\ j.req = job[s].req
    BY <1>1, <1>2
  <2> HIDE DEF j
  <2>2. Looks(j)
    BY <1>1, <1>3, <2>1 DEF Looks, Embedded
  <2> QED BY <1>1, <1>3, <2>2, LookStep
<1>4. CASE Goto(s, "send")
  <2> DEFINE k == [job[s] EXCEPT !.pc = "send"]
  <2>1. /\ job' = [job EXCEPT ![s] = k]
        /\ k.asked = job[s].asked /\ k.embedding = job[s].embedding /\ k.req = job[s].req
        /\ k.pc = "send"
    BY <1>1, <1>2, <1>4 DEF Goto
  <2> HIDE DEF k
  <2> QED BY <1>1, <2>1, GoesOn
<1>5. \/ /\ Cacheable(config, job[s].req)
         /\ job' = [job EXCEPT ![s].pc = "lookup", ![s].asked = now, ![s].embedding = vector]
      \/ Goto(s, "send")
  BY DEF Embed
<1>6. [job EXCEPT ![s].pc = "lookup", ![s].asked = now, ![s].embedding = vector] = [job EXCEPT ![s] = j]
  BY <1>1
<1> HIDE DEF vector, j
<1> QED BY <1>3, <1>4, <1>5, <1>6

LEMMA LookupCaches ==
  ASSUME StickyInv, RunsValid, CacheInv, NEW s \in Slots, Lookup(s)
  PROVE  CacheInv'
<1> DEFINE b == config.cache.backend
           kept == Pruned(cached[b], job[s].asked)
           best == BestHit(job[s], kept)
<1>1. /\ running' = running /\ DOMAIN job = Slots /\ DOMAIN job[s] = DOMAIN Idle
      /\ job[s].pc = "lookup" /\ running # 0 /\ running \in DOMAIN Configurations
      /\ job[s].req \in Inputs
  BY DEF Lookup, StickyInv, Knows, At
<1>2. b \in Backends
  BY <1>1, CacheAssumption DEF config, Backends, CacheAssumption
<1>3. /\ Looks(job[s]) /\ Embedded(job[s]) /\ AllMade(cached[b])
  BY <1>1, <1>2 DEF CacheInv, Looks
<1>4. AllMade(kept) /\ \A i \in DOMAIN kept : Lives(kept[i], job[s].asked)
  BY <1>3, PrunedLives DEF AllMade
<1>5. DOMAIN Idle = {"pc", "req", "order", "embedding", "asked", "chosen", "success", "hit", "prior"}
  BY DEF Idle
<1> HIDE DEF kept, b
<1>6. best # Absent => Made(best) /\ Matches(job[s], best) /\ Lives(best, job[s].asked)
  BY <1>1, <1>3, <1>4, HitMatches DEF AllMade
<1>7. cached' = cached \/ \E x, c : cached' = [cached EXCEPT ![x] = c] /\ AllMade(c)
  BY <1>4 DEF Lookup, kept, b
<1> HIDE DEF best
<1> DEFINE to == IF best = Absent THEN "send" ELSE "served"
           j == [job[s] EXCEPT !.hit = best, !.pc = to]
           k == [job[s] EXCEPT !.pc = "send"]
<1>8. job' = [job EXCEPT ![s] = j] \/ job' = [job EXCEPT ![s] = k]
  <2>1. job' = [job EXCEPT ![s].hit = best, ![s].pc = to] \/ Goto(s, "send")
    BY DEF Lookup, best, kept, b
  <2> QED BY <1>1, <2>1 DEF Goto
<1>9. Looks(j)
  <2>1. /\ j.asked = job[s].asked /\ j.embedding = job[s].embedding /\ j.req = job[s].req
        /\ j.order = job[s].order /\ j.hit = best /\ j.pc = to
    BY <1>1, <1>5
  <2> HIDE DEF j
  <2>2. Embedded(j)
    BY <1>3, <2>1 DEF Embedded
  <2>3. best # Absent => Fits(j)
    BY <1>6, <2>1 DEF Fits, Matches
  <2> QED BY <1>3, <2>1, <2>2, <2>3 DEF Looks
<1>10. Looks(k)
  <2>1. /\ k.asked = job[s].asked /\ k.embedding = job[s].embedding /\ k.req = job[s].req
        /\ k.pc = "send"
    BY <1>1, <1>5
  <2> HIDE DEF k
  <2> QED BY <1>3, <2>1 DEF Looks, Embedded
<1> HIDE DEF j, k
<1> QED BY <1>1, <1>7, <1>8, <1>9, <1>10, LookStep

LEMMA RecordCaches ==
  ASSUME StickyInv, CacheInv, NEW s \in Slots, Record(s)
  PROVE  CacheInv'
<1> DEFINE b == config.cache.backend
           e == Entry(job[s])
           added == Append(cached[b], e)
           kept == Pruned(added, now)
<1>1. /\ running' = running /\ job' = [job EXCEPT ![s] = Idle]
      /\ job[s].pc = "store" /\ running # 0 /\ running \in DOMAIN Configurations
      /\ job[s].req \in Inputs
  BY DEF Record, StickyInv, Knows, At, Finish
<1>2. b \in Backends
  BY <1>1, CacheAssumption DEF config, Backends, CacheAssumption
<1>3. Looks(job[s]) /\ Embedded(job[s]) /\ AllMade(cached[b]) /\ job[s].success
  BY <1>1, <1>2 DEF CacheInv, Looks
<1>4. Made(e)
  <2>1. /\ e.body.answers = job[s].req /\ e.endpoint = job[s].req.endpoint
        /\ e.scope = Scope(job[s].req) /\ e.embedding = job[s].embedding
        /\ e.inserted = job[s].asked /\ e.body.success
    BY <1>3 DEF Entry
  <2> HIDE DEF e
  <2>2. /\ job[s].embedding.prompt = Prompt(job[s].req) /\ job[s].asked \in Nat
        /\ Options(job[s].req) = {} /\ Prompt(job[s].req) # Absent
    BY <1>3 DEF Looks, Embedded, Cacheable, SafeToCache
  <2> QED BY <1>1, <2>1, <2>2 DEF Made
<1> HIDE DEF e
<1>5. AllMade(added)
  BY <1>3, <1>4, Extends DEF AllMade
<1> HIDE DEF added
<1>6. AllMade(kept)
  BY <1>5, PrunedLives DEF AllMade
<1>7. cached' = cached \/ \E x, c : cached' = [cached EXCEPT ![x] = c] /\ AllMade(c)
  BY <1>6 DEF Record, added, e
<1> QED BY <1>1, <1>7, IdleLooks, LookStep

LEMMA BodyCaches ==
  ASSUME StickyInv, CacheInv, NEW s \in Slots, BodyRead(s)
  PROVE  CacheInv'
<1>1. /\ running' = running /\ cached' = cached /\ now \in Nat /\ DOMAIN job = Slots
      /\ DOMAIN job[s] = DOMAIN Idle /\ job[s].pc = "body"
  BY DEF BodyRead, StickyInv, Knows, At
<1>2. DOMAIN Idle = {"pc", "req", "order", "embedding", "asked", "chosen", "success", "hit", "prior"}
  BY DEF Idle
<1>3. CASE job' = [job EXCEPT ![s] = Idle]
  BY <1>1, <1>3, GoesOn
<1>4. CASE /\ job[s].success /\ job[s].embedding # Absent
           /\ job' = [job EXCEPT ![s].pc = "store", ![s].asked = now]
  <2> DEFINE j == [job[s] EXCEPT !.pc = "store", !.asked = now]
  <2>1. /\ job' = [job EXCEPT ![s] = j]
        /\ j.asked = now /\ j.embedding = job[s].embedding /\ j.req = job[s].req
        /\ j.pc = "store" /\ j.success = job[s].success
    BY <1>1, <1>2, <1>4
  <2> HIDE DEF j
  <2>2. Embedded(job[s])
    BY <1>1, <1>4 DEF CacheInv, Looks
  <2>3. Looks(j)
    BY <1>1, <1>4, <2>1, <2>2 DEF Looks, Embedded
  <2> QED BY <1>1, <2>1, <2>3, LookStep
<1> QED BY <1>3, <1>4 DEF BodyRead, Finish

\* The steps that have to do with neither the cache nor the embedding.
LEMMA OtherCaches ==
  ASSUME StickyInv, CacheInv, NEW s \in Slots,
         Serve(s) \/ FollowRoute(s) \/ RecordRoute(s) \/ Dispatched(s)
  PROVE  CacheInv'
<1>1. /\ running' = running /\ cached' = cached /\ DOMAIN job = Slots
      /\ DOMAIN job[s] = DOMAIN Idle
  BY DEF Serve, FollowRoute, RecordRoute, Dispatched, StickyInv, Knows
<1>2. DOMAIN Idle = {"pc", "req", "order", "embedding", "asked", "chosen", "success", "hit", "prior"}
  BY DEF Idle
<1>3. CASE job' = [job EXCEPT ![s] = Idle]
  BY <1>1, <1>3, GoesOn
<1>4. ASSUME NEW order, NEW prior, job[s].pc = "sticky",
             job' = [job EXCEPT ![s].pc = "embed", ![s].order = order, ![s].prior = prior]
      PROVE  CacheInv'
  <2> DEFINE j == [job[s] EXCEPT !.pc = "embed", !.order = order, !.prior = prior]
  <2>1. /\ job' = [job EXCEPT ![s] = j] /\ j.pc = "embed"
        /\ j.asked = job[s].asked /\ j.embedding = job[s].embedding /\ j.req = job[s].req
    BY <1>1, <1>2, <1>4
  <2> HIDE DEF j
  <2> QED BY <1>1, <1>4, <2>1, GoesOn
<1>5. ASSUME NEW to, Goto(s, to), <<job[s].pc, to>> \in {<<"sticky", "embed">>, <<"record", "body">>}
      PROVE  CacheInv'
  <2> DEFINE j == [job[s] EXCEPT !.pc = to]
  <2>1. /\ job' = [job EXCEPT ![s] = j] /\ j.pc = to
        /\ j.asked = job[s].asked /\ j.embedding = job[s].embedding /\ j.req = job[s].req
    BY <1>1, <1>2, <1>5 DEF Goto
  <2> HIDE DEF j
  <2> QED BY <1>1, <1>5, <2>1, GoesOn
<1>6. ASSUME NEW i, NEW ok, NEW to, job[s].pc = "send", to \in {"record", "body"},
             job' = [job EXCEPT ![s].chosen = i, ![s].success = ok, ![s].pc = to]
      PROVE  CacheInv'
  <2> DEFINE j == [job[s] EXCEPT !.chosen = i, !.success = ok, !.pc = to]
  <2>1. /\ job' = [job EXCEPT ![s] = j] /\ j.pc = to
        /\ j.asked = job[s].asked /\ j.embedding = job[s].embedding /\ j.req = job[s].req
    BY <1>1, <1>2, <1>6
  <2> HIDE DEF j
  <2> QED BY <1>1, <1>6, <2>1, GoesOn
<1>7. CASE Serve(s)
  BY <1>3, <1>7 DEF Serve, Finish
<1>8. CASE FollowRoute(s)
  <2>1. job[s].pc = "sticky"
    BY <1>8 DEF FollowRoute, At
  <2>2. \/ \E order, prior :
             job' = [job EXCEPT ![s].pc = "embed", ![s].order = order, ![s].prior = prior]
        \/ Goto(s, "embed")
    BY <1>8 DEF FollowRoute
  <2> QED BY <1>4, <1>5, <2>1, <2>2
<1>9. CASE RecordRoute(s)
  BY <1>5, <1>9 DEF RecordRoute, At
<1>10. CASE Dispatched(s)
  <2>1. job[s].pc = "send"
    BY <1>10 DEF Dispatched, At
  <2> DEFINE to == IF config.sticky.enabled /\ StickyKey(job[s].req) # Absent THEN "record" ELSE "body"
  <2>2. \/ \E i, ok : job' = [job EXCEPT ![s].chosen = i, ![s].success = ok, ![s].pc = to]
        \/ job' = [job EXCEPT ![s] = Idle]
    BY <1>10 DEF Dispatched, Finish
  <2>3. to \in {"record", "body"}
    OBVIOUS
  <2> HIDE DEF to
  <2> QED BY <1>3, <1>6, <2>1, <2>2, <2>3
<1> QED BY <1>7, <1>8, <1>9, <1>10

LEMMA CacheStep == ASSUME StickyInv, RunsValid, CacheInv, [Next]_vars PROVE CacheInv'
<1>1. CASE UNCHANGED vars
  BY <1>1 DEF vars, CacheInv, Looks, Embedded, Fits, Matches, Lives, config
<1>2. ASSUME NEW s \in Slots,
             \/ Arrive(s) \/ FollowRoute(s) \/ Embed(s) \/ Lookup(s) \/ Serve(s)
             \/ Dispatched(s) \/ RecordRoute(s) \/ BodyRead(s) \/ Record(s)
      PROVE  CacheInv'
  BY <1>2, ArriveCaches, EmbedCaches, LookupCaches, RecordCaches, BodyCaches, OtherCaches
<1> QED BY <1>1, <1>2, ProcessCaches DEF Next

LEMMA CacheInvariant == Spec => [](StickyInv /\ RunsValid /\ CacheInv)
<1>1. Init => CacheInv
  BY CacheInit
<1>2. StickyInv /\ RunsValid /\ CacheInv /\ [Next]_vars => CacheInv'
  BY CacheStep
<1> QED BY <1>1, <1>2, StickyInvariant, ValidRuns, PTL DEF Spec

\* What is served from the cache was a successful answer of a model of the order
\* to the same conversation up to the last prompt, and to a prompt as similar as
\* the running configuration asks (SemanticCache::lookup), whatever configuration
\* it was stored under, for any entries, requests and similarities.
THEOREM HitsAreAlike == Spec => []ServedAlike
BY CacheEnough, CacheInvariant, PTL

\* It was not older than the time to live of the configuration that serves it.
THEOREM HitsAreFresh == Spec => []ServedFresh
BY CacheEnough, CacheInvariant, PTL
-----------------------------------------------------------------------------
(* Exchange: what the adapters that a configuration names send              *)

\* Nothing is sent but the converted body of a request that is not excluded.
Converted ==
  /\ caller \in Callers /\ req \in RequestsOf[caller]
  /\ body # Absent => ~Excluded(kind, req) /\ body = Body(kind, req)

\* No step after the conversion touches the body.
LEMMA ConvertedInvariant == ExchangeSpec => []Converted
<1>1. ExchangeInit => Converted
  BY DEF ExchangeInit, Converted
<1>2. Converted /\ [ExchangeNext]_exchangeVars => Converted'
  <2> SUFFICES ASSUME Converted, [ExchangeNext]_exchangeVars PROVE Converted'
    OBVIOUS
  <2>1. CASE Convert
    BY <2>1 DEF Convert, Converted, exchange
  <2>2. CASE UNCHANGED <<exchange, body>>
    BY <2>2 DEF Converted, exchange
  <2> QED
    BY <2>1, <2>2 DEF ExchangeNext, exchangeVars, exchange, HeadArrives, HeadFails,
      SendTimesOut, AnswerRead, BodyFails,
      Chunk, CommentArrives, TimePasses, ClientStalls, Observe, StreamEnds, StreamBreaks,
      IdleTimesOut, ClientLeaves
<1> QED
  BY <1>1, <1>2, PTL DEF ExchangeSpec

\* A limit that is given, under either name, is the one that is sent.
LEMMA LimitSent ==
  ASSUME NEW q, Known \subseteq DOMAIN q.extra, ~(Limits \subseteq Given(q)),
         NEW f \in Limits \cap Given(q)
  PROVE  OutputLimit(q) = q.extra[f] /\ q.extra[f] # Absent
BY DEF OutputLimit, Given, Limits, Known

\* Whatever fields a request has: a native adapter (provider.rs) refuses it or sends
\* all that it says, but for the parts of its format that ollama_format leaves out and
\* for a native option that it says twice.
THEOREM SentAsAsked == ExchangeSpec => []NothingElseLost
<1>1. Converted => NothingElseLost
  <2> DEFINE OptionsKept ==
        req.options # Absent =>
          \A o \in OptionNames : req.options[o] # Absent =>
            \/ body.options[o] = req.options[o]
            \/ o = "num_predict" /\ Limits \cap Given(req) # {}
            \/ o \in Given(req)
             FormatSent ==
        Format # Absent =>
          \/ Format.type = "json_object" /\ body.format = "json"
          \/ /\ Format.type = "json_schema" /\ body.format \notin {Absent, Bad}
             /\ body.format = Format.nested \/ (Format.nested = Absent /\ body.format = Format.beside)
  <2> SUFFICES ASSUME Converted, body # Absent, kind \in Native
               PROVE  /\ Given(req) \subseteq Known
                      /\ \A f \in Given(req) \ {"response_format"} : Asks(f) = req.extra[f]
                      /\ FormatSent /\ OptionsKept
    BY DEF NothingElseLost, Preserved
  <2>1. ~Excluded(kind, req) /\ body = Body(kind, req)
    BY DEF Converted
  <2>2. Known \subseteq DOMAIN req.extra /\ (req.options \notin {Absent, Bad} => DOMAIN req.options = OptionNames)
    BY ExchangeAssumption DEF ExchangeAssumption, Converted
  <2>3. /\ ~(Limits \subseteq Given(req)) /\ Given(req) \subseteq Contract(kind).fields
        /\ (req.options # Absent => Contract(kind).options) /\ req.options # Bad
    BY <2>1 DEF Excluded, Contract
  <2>4. Given(req) \subseteq Known
    BY <2>3 DEF Contract
  <2>5. Format # Absent => "response_format" \in Given(req)
    BY <2>2 DEF Format, Given, Known
  <2>6. CASE kind = "ollama_native"
    <3>1. body = OllamaBody(req)
      BY <2>1, <2>6 DEF Body
    <3>2. \A o \in OptionNames :
            body.options[o] = IF OverOption(req, o) # Absent THEN OverOption(req, o)
                              ELSE (IF req.options = Absent THEN NoOptions ELSE req.options)[o]
      BY <3>1 DEF OllamaBody
    <3>3. /\ body.stream = StreamField(req)
          /\ Format # Absent => body.format = OllamaFormat(Format)
      BY <3>1 DEF OllamaBody, Format
    <3>4. FormatSent
      <4>1. Format # Absent => ~FormatFails(Format)
        BY <2>1, <2>5, <2>6 DEF Excluded, Contract, Native, Format
      <4> QED
        BY <3>3, <4>1 DEF FormatFails, OllamaFormat, Schema
    <3>5. ASSUME NEW f \in Given(req) \ {"response_format"} PROVE Asks(f) = req.extra[f]
      <4>1. req.extra[f] # Absent
        BY DEF Given
      <4>2. CASE f \in Copied
        BY <2>6, <3>2, <4>1, <4>2 DEF Asks, OverOption, OptionNames, Copied,
          Limits
      <4>3. CASE f \in Limits
        <5>1. OutputLimit(req) = req.extra[f]
          BY <2>2, <2>3, <4>3, LimitSent
        <5>2. OverOption(req, "num_predict") = req.extra[f] /\ "num_predict" \in OptionNames
          BY <5>1 DEF OverOption, OptionNames, Copied
        <5>3. body.options["num_predict"] = req.extra[f]
          BY <3>2, <4>1, <5>2
        <5> QED
          BY <5>3, <2>6, <4>3 DEF Asks, Limits, Copied
      <4>4. CASE f = "stream"
        BY <2>6, <3>3, <4>1, <4>4 DEF Asks, Limits, Copied, StreamField
      <4> QED
        BY <2>4, <4>2, <4>3, <4>4 DEF Known
    <3>6. ASSUME req.options # Absent, NEW o \in OptionNames, req.options[o] # Absent,
                 body.options[o] # req.options[o]
          PROVE  \/ o = "num_predict" /\ Limits \cap Given(req) # {}
                 \/ o \in Given(req)
      <4>1. OverOption(req, o) # Absent
        BY <3>2, <3>6
      <4>2. CASE o \in Copied
        BY <2>2, <4>1, <4>2 DEF OverOption, Given, Known, Copied
      <4>3. CASE o = "num_predict"
        <5>1. OutputLimit(req) # Absent
          BY <4>1, <4>3 DEF OverOption, Copied
        <5> QED
          BY <2>2, <4>3, <5>1 DEF OutputLimit, Given, Limits, Known
      <4>4. CASE o = "num_ctx"
        BY <4>1, <4>4 DEF OverOption, Copied
      <4> QED
        BY <4>2, <4>3, <4>4 DEF OptionNames
    <3> QED
      BY <2>4, <3>4, <3>5, <3>6
  <2>7. CASE kind = "llama_cpp_native"
    <3>1. body = LlamaBody(req)
      BY <2>1, <2>7 DEF Body
    <3>2. body.n_predict = OutputLimit(req) /\ body.stream = StreamField(req)
          /\ \A f \in Copied : body.copied[f] = req.extra[f]
      BY <3>1 DEF LlamaBody
    <3>3. "response_format" \notin Given(req) /\ req.options = Absent
      BY <2>3, <2>7 DEF Contract, Native
    <3>4. ASSUME NEW f \in Given(req) PROVE Asks(f) = req.extra[f]
      <4>1. CASE f \in Copied
        BY <2>7, <3>2, <4>1 DEF Asks, Copied, Limits
      <4>2. CASE f \in Limits
        <5>1. OutputLimit(req) = req.extra[f]
          BY <2>2, <2>3, <4>2, LimitSent
        <5> QED
          BY <5>1, <2>7, <3>2, <4>2 DEF Asks, Limits, Copied
      <4>3. CASE f = "stream"
        BY <2>7, <3>2, <4>3 DEF Asks, Limits, Copied, StreamField, Given
      <4> QED
        BY <2>4, <3>3, <4>1, <4>2, <4>3 DEF Known
    <3> QED
      BY <2>4, <2>5, <3>3, <3>4
  <2> QED
    BY <2>6, <2>7 DEF Native
<1> QED
  BY <1>1, ConvertedInvariant, PTL
-----------------------------------------------------------------------------
(* Exchange: the usage of a stream, however it is cut into chunks            *)

\* The atoms of streams: strings.  (The provers do not know that "nl" is one.)
Symbols == STRING \cup {"nl"}

\* A bounded set of numbers has a greatest one.
LEMMA Greatest ==
  ASSUME NEW n \in Nat, NEW S, S \subseteq 0 .. n, S # {}
  PROVE  Max(S) \in S /\ \A j \in S : j <= Max(S)
<1> DEFINE T == {k \in 0 .. n : n - k \in S}
<1>1. PICK i \in S : TRUE
  OBVIOUS
<1>2. T \subseteq Nat /\ n - i \in T
  OBVIOUS
<1>3. PICK k \in T : \A j \in T : k <= j
  BY <1>2, HasLeast
<1>4. ASSUME NEW j \in S PROVE j <= n - k
  <2>1. j \in 0 .. n /\ n - j \in 0 .. n /\ n - (n - j) = j
    OBVIOUS
  <2>2. n - j \in T
    BY <2>1
  <2>3. k \in 0 .. n /\ k <= n - j
    BY <1>3, <2>2
  <2> QED
    BY <2>1, <2>3
<1>5. n - k \in S
  BY <1>3
<1> QED
  BY <1>4, <1>5 DEF Max

\* A map that keeps the order keeps the ends of a set.
LEMMA EndsKept ==
  ASSUME NEW n \in Nat, NEW Q, Q \subseteq 0 .. n, Q # {}, NEW m \in Nat,
         NEW f, \A i \in Q : f[i] \in 0 .. m, \A i, j \in Q : i < j => f[i] < f[j]
  PROVE  LET R == {f[i] : i \in Q} IN Max(R) = f[Max(Q)] /\ Min(R) = f[Min(Q)]
<1> DEFINE R == {f[i] : i \in Q}
<1>1. R \subseteq 0 .. m /\ R \subseteq Nat /\ R # {} /\ Q \subseteq Nat
  <2>1. \A r \in R : r \in 0 .. m
    OBVIOUS
  <2>2. \E i \in Q : f[i] \in R
    OBVIOUS
  <2> HIDE DEF R
  <2> QED
    BY <2>1, <2>2
<1>2. Max(Q) \in Q /\ \A j \in Q : j <= Max(Q)
  BY Greatest
<1>3. Min(Q) \in Q /\ \A j \in Q : Min(Q) <= j
  BY <1>1, Least
<1>4. Max(R) \in R /\ \A j \in R : j <= Max(R)
  <2> HIDE DEF R
  <2> QED
    BY <1>1, Greatest
<1>5. Min(R) \in R /\ \A j \in R : Min(R) <= j
  <2> HIDE DEF R
  <2> QED
    BY <1>1, Least
<1>6. PICK i \in Q : Max(R) = f[i]
  BY <1>4
<1>7. PICK j \in Q : Min(R) = f[j]
  BY <1>5
<1> DEFINE x == Max(Q)
           y == Min(Q)
           u == Max(R)
           v == Min(R)
<1>8. f[x] <= u /\ v <= f[y]
  BY <1>2, <1>3, <1>4, <1>5
<1>9. x \in Q /\ y \in Q /\ i <= x /\ y <= j /\ u = f[i] /\ v = f[j]
  BY <1>2, <1>3, <1>6, <1>7
<1> HIDE DEF x, y, u, v
<1>10. f[i] <= f[x] /\ f[y] <= f[j]
  <2>1. i = x \/ f[i] < f[x]
    BY <1>9
  <2>2. y = j \/ f[y] < f[j]
    BY <1>9
  <2> QED
    BY <2>1, <2>2, <1>9
<1>11. u = f[x] /\ v = f[y]
  <2>1. f[i] \in Nat /\ f[x] \in Nat /\ f[y] \in Nat /\ f[j] \in Nat
    BY <1>9
  <2> QED
    BY <2>1, <1>8, <1>9, <1>10
<1> QED
  BY <1>11 DEF x, y, u, v
-----------------------------------------------------------------------------
Solid(e) == {i \in DOMAIN e : e[i] # "nl"}

\* The data e, without its line ends, is what s has at P.
Spells(e, s, P) ==
  \E f \in [Solid(e) -> P] :
    /\ \A i \in Solid(e) : e[i] = s[f[i]]
    /\ \A k \in P : \E i \in Solid(e) : f[i] = k
    /\ \A i, j \in Solid(e) : i < j => f[i] < f[j]

LEMMA SameUsage ==
  ASSUME NEW e \in Seq(Symbols), NEW s, NEW m \in Nat, NEW P, P \subseteq 0 .. m, Spells(e, s, P)
  PROVE  UsageOf(e) = UsageAt(s, P)
<1> DEFINE E == Solid(e)
           here == {i \in E : e[i] \in DOMAIN UsageAtom}
           there == {k \in P : s[k] \in DOMAIN UsageAtom}
<1>1. PICK f \in [E -> P] :
        /\ \A i \in E : e[i] = s[f[i]]
        /\ \A k \in P : \E i \in E : f[i] = k
        /\ \A i, j \in E : i < j => f[i] < f[j]
  BY DEF Spells
<1>2. Len(e) \in Nat /\ E \subseteq 0 .. Len(e) /\ here \subseteq E
  BY DEF Solid
<1>3. P = {f[i] : i \in E} /\ there = {f[i] : i \in here}
  BY <1>1
<1>4. \A i \in E : f[i] \in 0 .. m
  BY <1>1
<1> HIDE DEF E
<1>5. E # {} => Max(P) = f[Max(E)] /\ Min(P) = f[Min(E)] /\ Max(E) \in E /\ Min(E) \in E
  <2>1. SUFFICES ASSUME E # {}
                 PROVE  Max(P) = f[Max(E)] /\ Min(P) = f[Min(E)] /\ Max(E) \in E /\ Min(E) \in E
    OBVIOUS
  <2>2. \A i, j \in E : i < j => f[i] < f[j]
    BY <1>1
  <2>3. LET R == {f[i] : i \in E} IN Max(R) = f[Max(E)] /\ Min(R) = f[Min(E)]
    BY <1>2, <1>4, <2>1, <2>2, EndsKept
  <2>4. Max(E) \in E
    BY <1>2, <2>1, Greatest
  <2>5. E \subseteq Nat
    BY <1>2
  <2>6. Min(E) \in E
    BY <2>1, <2>5, Least
  <2> QED
    BY <1>3, <2>3, <2>4, <2>6
<1>6. here # {} => Max(there) = f[Max(here)] /\ Max(here) \in here
  <2> HIDE DEF here, there
  <2>1. here \subseteq 0 .. Len(e)
    BY <1>2
  <2>2. \A i, j \in here : i < j => f[i] < f[j]
    BY <1>1, <1>2
  <2>3. \A i \in here : f[i] \in 0 .. m
    BY <1>2, <1>4
  <2> QED
    BY <1>2, <1>3, <2>1, <2>2, <2>3, EndsKept, Greatest
<1>7. (P = {} <=> E = {}) /\ (there = {} <=> here = {})
  <2> HIDE DEF here, there
  <2> QED
    BY <1>3
<1>8. UsageOf(e) = IF E # {} /\ e[Min(E)] = "{" /\ e[Max(E)] = "}" /\ here # {}
                   THEN UsageAtom[e[Max(here)]] ELSE Absent
  BY DEF UsageOf, UsageAt, E, Solid
<1>9. UsageAt(s, P) = IF P # {} /\ s[Min(P)] = "{" /\ s[Max(P)] = "}" /\ there # {}
                      THEN UsageAtom[s[Max(there)]] ELSE Absent
  BY DEF UsageAt
<1>10. E # {} => s[Min(P)] = e[Min(E)] /\ s[Max(P)] = e[Max(E)]
  BY <1>1, <1>5
<1>11. here # {} => s[Max(there)] = e[Max(here)]
  <2> HIDE DEF there
  <2>1. \A i \in here : i \in E
    OBVIOUS
  <2> HIDE DEF here
  <2> QED
    BY <1>1, <1>6, <2>1
<1> DEFINE value == UsageAtom[e[Max(here)]]
           result == IF E # {} /\ e[Min(E)] = "{" /\ e[Max(E)] = "}" /\ here # {} THEN value ELSE Absent
<1>12. UsageOf(e) = result
  BY <1>8
<1>13. UsageAt(s, P) = result
  <2> HIDE DEF here, there
  <2>1. CASE E = {} \/ here = {}
    BY <1>7, <1>9, <2>1
  <2>2. CASE E # {} /\ here # {}
    BY <1>7, <1>9, <1>10, <1>11, <2>2
  <2> QED
    BY <2>1, <2>2
<1> HIDE DEF result
<1> QED
  BY <1>12, <1>13

\* A line without its carriage return is the line up to a position of it.
LEMMA TrimmedLine ==
  ASSUME NEW l \in Seq(Symbols)
  PROVE  \E w \in 0 .. Len(l) : WithoutCr(l) = SubSeq(l, 1, w)
<1>1. CASE l # <<>> /\ Last(l) = "cr"
  <2>1. Len(l) - 1 \in 0 .. Len(l)
    BY <1>1
  <2> QED
    BY <1>1, <2>1 DEF WithoutCr, Front
<1>2. CASE ~(l # <<>> /\ Last(l) = "cr")
  <2>1. WithoutCr(l) = l
    BY <1>2 DEF WithoutCr
  <2>2. Len(l) \in 0 .. Len(l) /\ SubSeq(l, 1, Len(l)) = l
    OBVIOUS
  <2> QED
    BY <2>1, <2>2
<1> QED
  BY <1>1, <1>2

\* Where a line ends: at the first line end from its start, or with the stream.
LEMMA LineEnds ==
  ASSUME NEW s \in Seq(Symbols), NEW j \in Nat \ {0}, NEW n \in Nat, j <= n + 1,
         \A i \in j .. n : s[i] # "nl", n + 1 \in Breaks(s)
  PROVE  LineAt(s, j) = WithoutCr(SubSeq(s, j, n))
<1> DEFINE later == {i \in Breaks(s) : i >= j}
<1>1. later \subseteq Nat /\ n + 1 \in later
  BY DEF Breaks
<1>2. Min(later) \in later /\ \A i \in later : Min(later) <= i
  BY <1>1, Least
<1>3. \A i \in later : i >= n + 1
  BY DEF Breaks
<1>4. Min(later) = n + 1
  <2> HIDE DEF later
  <2>1. Min(later) \in Nat
    BY <1>1, <1>2
  <2> QED
    BY <1>1, <1>2, <1>3, <2>1
<1>5. LineAt(s, j) = IF later = {} THEN SubSeq(s, j, Len(s)) ELSE WithoutCr(SubSeq(s, j, Min(later) - 1))
  BY DEF LineAt
<1> HIDE DEF later
<1>6. later # {} /\ Min(later) - 1 = n
  BY <1>1, <1>4
<1> QED
  BY <1>5, <1>6

LEMMA LineOpen ==
  ASSUME NEW s \in Seq(Symbols), NEW j \in Nat \ {0}, \A i \in j .. Len(s) : s[i] # "nl"
  PROVE  LineAt(s, j) = SubSeq(s, j, Len(s))
<1>1. {i \in Breaks(s) : i >= j} = {}
  BY DEF Breaks
<1> QED
  BY <1>1 DEF LineAt

\* The stretch that a line takes up to the next line end.
LEMMA LineEnd ==
  ASSUME NEW s \in Seq(Symbols), NEW j \in Starts(s)
  PROVE  \E n \in Nat : /\ j <= n + 1 /\ n <= Len(s) /\ \A i \in j .. n : s[i] # "nl"
                        /\ \/ n + 1 \in Breaks(s) /\ LineAt(s, j) = WithoutCr(SubSeq(s, j, n))
                           \/ n = Len(s) /\ LineAt(s, j) = SubSeq(s, j, n)
<1> DEFINE later == {i \in Breaks(s) : i >= j}
<1>1. j \in Nat \ {0} /\ j <= Len(s) + 1
  BY DEF Starts, Breaks
<1>2. CASE later = {}
  <2>1. \A i \in j .. Len(s) : s[i] # "nl"
    BY <1>1, <1>2 DEF Breaks
  <2>2. LineAt(s, j) = SubSeq(s, j, Len(s))
    BY <1>1, <2>1, LineOpen
  <2> QED
    BY <1>1, <2>1, <2>2
<1>3. CASE later # {}
  <2>1. later \subseteq Nat
    BY DEF Breaks
  <2>2. PICK b \in later : \A i \in later : b <= i
    BY <1>3, <2>1, HasLeast
  <2>3. b \in Breaks(s) /\ b \in 1 .. Len(s) /\ b >= j
    BY DEF Breaks
  <2>4. b - 1 \in Nat /\ j <= (b - 1) + 1 /\ b - 1 <= Len(s) /\ (b - 1) + 1 = b
    BY <1>1, <2>3
  <2>5. \A i \in j .. b - 1 : s[i] # "nl"
    <3>1. SUFFICES ASSUME NEW i \in j .. b - 1, s[i] = "nl" PROVE FALSE
      OBVIOUS
    <3>2. i \in later
      BY <1>1, <2>3, <3>1 DEF Breaks
    <3> QED
      BY <1>1, <2>2, <2>3, <3>2
  <2>6. LineAt(s, j) = WithoutCr(SubSeq(s, j, b - 1))
    BY <1>1, <2>3, <2>4, <2>5, LineEnds
  <2> QED
    BY <2>3, <2>4, <2>5, <2>6
<1> QED
  BY <1>2, <1>3

\* What is in a line, and where.
LEMMA LineShape ==
  ASSUME NEW s \in Seq(Symbols), NEW j \in Starts(s)
  PROVE  LET l == LineAt(s, j) IN
         /\ l \in Seq(Symbols) /\ j + Len(l) <= Len(s) + 1
         /\ \A k \in 1 .. Len(l) : l[k] = s[j + k - 1] /\ l[k] # "nl"
         /\ \A b \in Breaks(s) : j <= b => j + Len(l) <= b
<1>1. j \in Nat \ {0} /\ j <= Len(s) + 1
  BY DEF Starts, Breaks
<1>2. PICK n \in Nat : /\ j <= n + 1 /\ n <= Len(s) /\ \A i \in j .. n : s[i] # "nl"
                       /\ \/ n + 1 \in Breaks(s) /\ LineAt(s, j) = WithoutCr(SubSeq(s, j, n))
                          \/ n = Len(s) /\ LineAt(s, j) = SubSeq(s, j, n)
  BY LineEnd
<1> DEFINE g == SubSeq(s, j, n)
<1>3. g \in Seq(Symbols) /\ Len(g) = n - j + 1 /\ \A k \in 1 .. Len(g) : g[k] = s[j + k - 1]
  BY <1>1, <1>2
<1> HIDE DEF g
<1>4. \E w \in 0 .. Len(g) : LineAt(s, j) = SubSeq(g, 1, w)
  <2>1. SubSeq(g, 1, Len(g)) = g /\ Len(g) \in 0 .. Len(g)
    BY <1>3
  <2>2. \E w \in 0 .. Len(g) : WithoutCr(g) = SubSeq(g, 1, w)
    BY <1>3, TrimmedLine
  <2> QED
    BY <1>2, <2>1, <2>2 DEF g
<1>5. PICK w \in 0 .. Len(g) : LineAt(s, j) = SubSeq(g, 1, w)
  BY <1>4
<1> DEFINE l == LineAt(s, j)
<1>6. l \in Seq(Symbols) /\ Len(l) = w /\ \A k \in 1 .. w : l[k] = g[k]
  BY <1>3, <1>5
<1> HIDE DEF l
<1>7. \A b \in Breaks(s) : j <= b => n + 1 <= b
  BY <1>1, <1>2 DEF Breaks
<1>8. \A k \in 1 .. Len(l) : l[k] = s[j + k - 1] /\ l[k] # "nl"
  <2>1. SUFFICES ASSUME NEW k \in 1 .. Len(l) PROVE l[k] = s[j + k - 1] /\ l[k] # "nl"
    OBVIOUS
  <2>2. k \in 1 .. w /\ k \in 1 .. Len(g) /\ j + k - 1 \in j .. n
    BY <1>1, <1>3, <1>6, <2>1
  <2> QED
    BY <1>2, <1>3, <1>6, <2>2
<1>9. j + Len(l) <= n + 1
  BY <1>1, <1>3, <1>6
<1>10. \A b \in Breaks(s) : j <= b => j + Len(l) <= b
  BY <1>1, <1>6, <1>7, <1>9 DEF Breaks
<1>11. j + Len(l) <= Len(s) + 1
  BY <1>1, <1>2, <1>6, <1>9
<1> QED
  BY <1>6, <1>8, <1>10, <1>11 DEF l

\* The positions of the data of the line at j.
PayloadAt(s, j) == j + 2 .. j + Len(LineAt(s, j)) - 1

\* The data lines of the event that ends at k.
DataLines(s, k) ==
  {j \in Starts(s) : /\ j < k /\ IsData(LineAt(s, j))
                     /\ \A i \in Starts(s) : j < i /\ i < k => LineAt(s, i) # <<>>}

LEMMA DataOfLines == ASSUME NEW s, NEW k PROVE DataOf(s, k) = UNION {PayloadAt(s, j) : j \in DataLines(s, k)}
BY DEF DataOf, DataLines, PayloadAt

LEMMA NoEmptyData == ~IsData(<<>>)
BY DEF IsData, IsPrefix

\* The data of an event is in the stream, and before the line that ends it.
LEMMA DataBefore ==
  ASSUME NEW s \in Seq(Symbols), NEW k
  PROVE  /\ DataOf(s, k) \subseteq 1 .. Len(s)
         /\ k \in Starts(s) => \A i \in DataOf(s, k) : i < k
<1>1. SUFFICES ASSUME NEW i \in DataOf(s, k)
               PROVE  i \in 1 .. Len(s) /\ (k \in Starts(s) => i < k)
  OBVIOUS
<1>2. PICK j \in DataLines(s, k) : i \in PayloadAt(s, j)
  BY DataOfLines
<1>3. j \in Starts(s) /\ j < k
  BY DEF DataLines
<1> DEFINE n == Len(LineAt(s, j))
<1>4. j \in Nat \ {0} /\ n \in Nat /\ j + n <= Len(s) + 1 /\ \A b \in Breaks(s) : j <= b => j + n <= b
  BY <1>3, LineShape DEF Starts, Breaks
<1>5. i \in j + 2 .. j + n - 1
  BY <1>2 DEF PayloadAt
<1> HIDE DEF n
<1>6. i \in 1 .. Len(s)
  BY <1>4, <1>5
<1>7. ASSUME k \in Starts(s) PROVE i < k
  <2>1. k - 1 \in Breaks(s) /\ j <= k - 1
    BY <1>3, <1>4, <1>7 DEF Starts, Breaks
  <2>2. j + n <= k - 1
    BY <1>4, <2>1
  <2>3. k \in Nat
    BY <1>7 DEF Starts, Breaks
  <2> QED
    BY <1>4, <1>5, <2>2, <2>3
<1> QED
  BY <1>6, <1>7

\* The data of the event at a place b after the line at a, when no line starts
\* between: nothing after an empty line, and one line more after a data line.
LEMMA NextData ==
  ASSUME NEW s \in Seq(Symbols), NEW a \in Starts(s), NEW b \in Nat, a < b,
         \A i \in Starts(s) : ~(a < i /\ i < b)
  PROVE  DataOf(s, b) = IF LineAt(s, a) = <<>> THEN {}
                        ELSE IF IsData(LineAt(s, a)) THEN DataOf(s, a) \cup PayloadAt(s, a)
                        ELSE DataOf(s, a)
<1>1. a \in Nat /\ \A i \in Starts(s) : i \in Nat /\ (i < b <=> (i < a \/ i = a))
  BY DEF Starts, Breaks
<1>2. CASE LineAt(s, a) = <<>>
  <2>1. DataLines(s, b) = {}
    <3>1. SUFFICES ASSUME NEW j \in DataLines(s, b) PROVE FALSE
      OBVIOUS
    <3>2. j \in Starts(s) /\ j < b /\ IsData(LineAt(s, j)) /\ (j < a /\ a < b => LineAt(s, a) # <<>>)
      BY <3>1 DEF DataLines
    <3>3. j # a
      BY <1>2, <3>2, NoEmptyData
    <3> QED
      BY <1>1, <1>2, <3>2, <3>3
  <2> QED
    BY <1>2, <2>1, DataOfLines
<1>3. CASE LineAt(s, a) # <<>>
  <2>1. DataLines(s, b) = DataLines(s, a) \cup {j \in {a} : IsData(LineAt(s, a))}
    <3>1. ASSUME NEW j \in Starts(s)
          PROVE  j \in DataLines(s, b) <=> (j \in DataLines(s, a) \/ (j = a /\ IsData(LineAt(s, a))))
      <4>1. CASE j < a
        <5>1. (\A i \in Starts(s) : j < i /\ i < b => LineAt(s, i) # <<>>)
                <=> (\A i \in Starts(s) : j < i /\ i < a => LineAt(s, i) # <<>>)
          BY <1>1, <1>3
        <5>2. j < b /\ j # a
          BY <1>1, <4>1
        <5> QED
          BY <4>1, <5>1, <5>2 DEF DataLines
      <4>2. CASE j = a
        <5>1. ~(j < a) /\ j < b /\ \A i \in Starts(s) : ~(j < i /\ i < b)
          BY <1>1, <4>2
        <5> QED
          BY <4>2, <5>1 DEF DataLines
      <4>3. CASE ~(j < a) /\ j # a
        <5>1. ~(j < b)
          BY <1>1, <4>3
        <5> QED
          BY <4>3, <5>1 DEF DataLines
      <4> QED
        BY <4>1, <4>2, <4>3
    <3>2. DataLines(s, b) \subseteq Starts(s) /\ DataLines(s, a) \subseteq Starts(s)
      BY DEF DataLines
    <3> QED
      BY <3>1, <3>2
  <2>2. CASE IsData(LineAt(s, a))
    <3>1. DataLines(s, b) = DataLines(s, a) \cup {a}
      BY <2>1, <2>2
    <3>2. UNION {PayloadAt(s, j) : j \in DataLines(s, b)}
            = (UNION {PayloadAt(s, j) : j \in DataLines(s, a)}) \cup PayloadAt(s, a)
      BY <3>1
    <3>3. DataOf(s, b) = DataOf(s, a) \cup PayloadAt(s, a)
      BY <3>2, DataOfLines
    <3> QED
      BY <1>3, <2>2, <3>3
  <2>3. CASE ~IsData(LineAt(s, a))
    <3>1. DataLines(s, b) = DataLines(s, a)
      BY <2>1, <2>3
    <3> QED
      BY <1>3, <2>3, <3>1, DataOfLines
  <2> QED
    BY <2>2, <2>3
<1> QED
  BY <1>2, <1>3

\* The usage with one more event, at the end.
LEMMA NextUsage ==
  ASSUME NEW s, NEW b \in Nat, NEW F, F \subseteq Nat, \A k \in F : k < b
  PROVE  LastUsage(s, F \cup {b}) =
           IF UsageAt(s, DataOf(s, b)) # Absent THEN UsageAt(s, DataOf(s, b)) ELSE LastUsage(s, F)
<1> DEFINE with == {k \in F : UsageAt(s, DataOf(s, k)) # Absent}
           more == {k \in F \cup {b} : UsageAt(s, DataOf(s, k)) # Absent}
<1>1. CASE UsageAt(s, DataOf(s, b)) = Absent
  <2>1. more = with
    BY <1>1
  <2> QED
    BY <1>1, <2>1 DEF LastUsage
<1>2. CASE UsageAt(s, DataOf(s, b)) # Absent
  <2>1. more \subseteq 0 .. b /\ b \in more
    <3>1. \A k \in F \cup {b} : k \in 0 .. b
      OBVIOUS
    <3> QED
      BY <1>2, <3>1
  <2>2. Max(more) \in more /\ \A j \in more : j <= Max(more)
    <3> HIDE DEF more
    <3> QED
      BY <2>1, Greatest
  <2>3. Max(more) = b
    <3>1. Max(more) \in 0 .. b /\ b <= Max(more)
      <4> HIDE DEF more
      <4> QED
        BY <2>1, <2>2
    <3> QED
      BY <3>1
  <2>4. LastUsage(s, F \cup {b}) = IF more = {} THEN Absent ELSE UsageAt(s, DataOf(s, Max(more)))
    BY DEF LastUsage
  <2> HIDE DEF more
  <2> QED
    BY <1>2, <2>1, <2>3, <2>4
<1> QED
  BY <1>1, <1>2

\* Data is spelled with the data of the next line after it.
LEMMA AddData ==
  ASSUME NEW s \in Seq(Symbols), NEW e \in Seq(Symbols), NEW a \in Nat, NEW P,
         P \subseteq Nat, \A k \in P : k < a, Spells(e, s, P),
         NEW l \in Seq(Symbols), \A k \in 1 .. Len(l) : l[k] = s[a + k - 1] /\ l[k] # "nl"
  PROVE  LET d == IF e = <<>> THEN Payload(l) ELSE e \o <<"nl">> \o Payload(l)
         IN d \in Seq(Symbols) /\ Spells(d, s, P \cup (a + 2 .. a + Len(l) - 1))
<1> DEFINE d == IF e = <<>> THEN Payload(l) ELSE e \o <<"nl">> \o Payload(l)
           m == Len(e)
           o == IF e = <<>> THEN 0 ELSE m + 1
           n == Len(Payload(l))
           Q == P \cup (a + 2 .. a + Len(l) - 1)
<1>1. PICK f \in [Solid(e) -> P] :
        /\ \A i \in Solid(e) : e[i] = s[f[i]]
        /\ \A k \in P : \E i \in Solid(e) : f[i] = k
        /\ \A i, j \in Solid(e) : i < j => f[i] < f[j]
  BY DEF Spells
<1>2. Payload(l) \in Seq(Symbols) /\ n \in Nat /\ m \in Nat /\ o \in Nat /\ m <= o /\ Len(l) \in Nat
      /\ (Len(l) >= 2 => n = Len(l) - 2) /\ (Len(l) < 2 => n = 0) /\ n <= Len(l)
      /\ \A k \in 1 .. n : Payload(l)[k] = l[k + 2]
  <2>1. n = IF 3 <= Len(l) THEN Len(l) - 2 ELSE 0
    BY DEF Payload
  <2>2. Payload(l) \in Seq(Symbols) /\ \A k \in 1 .. n : Payload(l)[k] = l[k + 2]
    BY DEF Payload
  <2>3. Len(l) \in Nat /\ m \in Nat
    OBVIOUS
  <2>4. o \in Nat /\ m <= o
    OBVIOUS
  <2> HIDE DEF n, m, o
  <2>5. n \in Nat /\ (Len(l) >= 2 => n = Len(l) - 2) /\ (Len(l) < 2 => n = 0) /\ n <= Len(l)
    <3> DEFINE w == Len(l)
    <3>1. w \in Nat /\ n = IF 3 <= w THEN w - 2 ELSE 0
      BY <2>1, <2>3
    <3> HIDE DEF w
    <3>2. CASE 3 <= w
      BY <3>1, <3>2 DEF w
    <3>3. CASE ~(3 <= w)
      <4>1. n = 0 /\ (w >= 2 => w = 2)
        BY <3>1, <3>3
      <4> QED
        BY <3>1, <4>1 DEF w
    <3> QED
      BY <3>2, <3>3
  <2> QED
    BY <2>2, <2>3, <2>4, <2>5
<1> DEFINE e1 == e \o <<"nl">>
<1>2a. /\ e1 \in Seq(Symbols) /\ Len(e1) = m + 1 /\ e1[m + 1] = "nl"
       /\ \A i \in 1 .. m : e1[i] = e[i]
  <2>1. "nl" \in Symbols
    BY DEF Symbols
  <2> QED
    BY <2>1
<1> HIDE DEF e1
<1>3. d \in Seq(Symbols) /\ Len(d) = o + n
  <2> HIDE DEF n
  <2>1. CASE e = <<>>
    BY <1>2, <2>1 DEF n
  <2>2. CASE e # <<>>
    <3>1. d = e1 \o Payload(l)
      BY <2>2 DEF e1
    <3> QED
      BY <1>2, <2>2, <3>1, <1>2a DEF n
  <2> QED
    BY <2>1, <2>2
<1>4. \A i \in 1 .. m : d[i] = e[i]
  <2>1. CASE e = <<>>
    BY <2>1
  <2>2. CASE e # <<>>
    <3>1. d = e1 \o Payload(l)
      BY <2>2 DEF e1
    <3> QED
      BY <1>2, <1>2a, <3>1
  <2> QED
    BY <2>1, <2>2
<1>5. \A i \in m + 1 .. o : d[i] = "nl"
  <2>1. CASE e = <<>>
    BY <2>1
  <2>2. CASE e # <<>>
    <3>1. d = e1 \o Payload(l)
      BY <2>2 DEF e1
    <3> QED
      BY <1>2, <1>2a, <2>2, <3>1
  <2> QED
    BY <2>1, <2>2
<1>6. \A i \in o + 1 .. o + n : d[i] = l[i - o + 2]
  <2>1. CASE e = <<>>
    BY <1>2, <2>1
  <2>2. CASE e # <<>>
    <3>1. d = e1 \o Payload(l)
      BY <2>2 DEF e1
    <3>3. \A i \in o + 1 .. o + n : d[i] = Payload(l)[i - o]
      BY <1>2, <1>2a, <2>2, <3>1
    <3>4. \A i \in o + 1 .. o + n : i - o \in 1 .. n
      BY <1>2
    <3> QED
      BY <1>2, <3>3, <3>4
  <2> QED
    BY <2>1, <2>2
<1> HIDE DEF d, m, o, n
<1> DEFINE here == {i \in 1 .. m : e[i] # "nl"}
           next == o + 1 .. o + n
           g == [i \in Solid(d) |-> IF i <= m THEN f[i] ELSE a + (i - o) + 1]
<1>7. Solid(e) = here /\ here \subseteq 1 .. m
  BY DEF Solid, m
<1>8. \A i \in next : /\ l[i - o + 2] = s[a + (i - o) + 1] /\ l[i - o + 2] # "nl"
                     /\ a + (i - o) + 1 \in a + 2 .. a + Len(l) - 1
  <2>1. SUFFICES ASSUME NEW i \in next
                 PROVE  /\ l[i - o + 2] = s[a + (i - o) + 1] /\ l[i - o + 2] # "nl"
                        /\ a + (i - o) + 1 \in a + 2 .. a + Len(l) - 1
    OBVIOUS
  <2>2. n = Len(l) - 2 /\ i - o \in 1 .. n
    BY <1>2, <2>1
  <2>3. /\ i - o + 2 \in 1 .. Len(l) /\ a + (i - o + 2) - 1 = a + (i - o) + 1
        /\ a + (i - o) + 1 \in a + 2 .. a + Len(l) - 1
    BY <1>2, <2>2
  <2> QED
    BY <2>3
<1>9. Solid(d) = here \cup next
  <2>1. ASSUME NEW i \in 1 .. o + n PROVE d[i] # "nl" <=> (i \in here \/ i \in next)
    <3>1. CASE i \in 1 .. m
      BY <1>2, <1>4, <3>1
    <3>2. CASE i \in m + 1 .. o
      BY <1>2, <1>5, <3>2
    <3>3. CASE i \in next
      BY <1>2, <1>6, <1>8, <3>3
    <3> QED
      BY <1>2, <3>1, <3>2, <3>3
  <2>2. DOMAIN d = 1 .. o + n
    BY <1>2, <1>3
  <2>3. here \subseteq 1 .. o + n /\ next \subseteq 1 .. o + n
    BY <1>2
  <2> QED
    BY <2>1, <2>2, <2>3 DEF Solid
<1>10. /\ \A i \in here : g[i] = f[i] /\ f[i] \in P /\ d[i] = e[i]
       /\ \A i \in next : g[i] = a + (i - o) + 1 /\ d[i] = s[g[i]] /\ g[i] \in a + 2 .. a + Len(l) - 1
  <2>1. \A i \in here : i \in Solid(d) /\ i <= m
    BY <1>9
  <2>2. \A i \in next : i \in Solid(d) /\ ~(i <= m)
    BY <1>2, <1>9
  <2>3. \A i \in here : g[i] = f[i] /\ f[i] \in P /\ d[i] = e[i]
    BY <1>1, <1>4, <1>7, <2>1
  <2>4. \A i \in next : g[i] = a + (i - o) + 1
    BY <2>2
  <2>5. \A i \in next : d[i] = s[a + (i - o) + 1] /\ a + (i - o) + 1 \in a + 2 .. a + Len(l) - 1
    BY <1>6, <1>8
  <2> HIDE DEF g, here, next
  <2> QED
    BY <2>3, <2>4, <2>5
<1>11. g \in [Solid(d) -> Q]
  <2>1. \A i \in Solid(d) : g[i] \in Q
    <3> HIDE DEF g, here, next
    <3> QED
      BY <1>9, <1>10
  <2> QED
    BY <2>1
<1>12. \A i \in Solid(d) : d[i] = s[g[i]]
  <2>1. \A i \in here : d[i] = s[g[i]]
    BY <1>1, <1>7, <1>10
  <2> HIDE DEF g, here, next
  <2> QED
    BY <1>9, <1>10, <2>1
<1>13. \A k \in Q : \E i \in Solid(d) : g[i] = k
  <2>1. ASSUME NEW k \in P PROVE \E i \in Solid(d) : g[i] = k
    <3>1. PICK i \in here : f[i] = k
      BY <1>1, <1>7
    <3> HIDE DEF g, here, next
    <3> QED
      BY <1>9, <1>10, <3>1
  <2>2. ASSUME NEW k \in a + 2 .. a + Len(l) - 1 PROVE \E i \in Solid(d) : g[i] = k
    <3> DEFINE x == k - a - 1 + o
    <3>1. x \in next /\ a + (x - o) + 1 = k
      BY <1>2, <2>2
    <3> HIDE DEF x, g, here, next
    <3>2. g[x] = k
      BY <1>10, <3>1
    <3> QED
      BY <1>9, <3>1, <3>2
  <2> QED
    BY <2>1, <2>2
<1>14. \A i, j \in Solid(d) : i < j => g[i] < g[j]
  <2>1. ASSUME NEW i \in here, NEW j \in here, i < j PROVE g[i] < g[j]
    BY <1>1, <1>7, <1>10, <2>1
  <2>2. ASSUME NEW i \in here, NEW j \in next PROVE g[i] < g[j]
    <3>1. g[i] \in Nat /\ g[i] < a /\ g[j] \in a + 2 .. a + Len(l) - 1
      BY <1>10
    <3> HIDE DEF g
    <3> QED
      BY <1>2, <3>1
  <2>3. ASSUME NEW i \in next, NEW j \in here PROVE ~(i < j)
    BY <1>2
  <2>4. ASSUME NEW i \in next, NEW j \in next, i < j PROVE g[i] < g[j]
    <3>1. g[i] = a + (i - o) + 1 /\ g[j] = a + (j - o) + 1
      BY <1>10
    <3> HIDE DEF g
    <3> QED
      BY <1>2, <2>4, <3>1
  <2> HIDE DEF g, here, next
  <2> QED
    BY <1>9, <2>1, <2>2, <2>3, <2>4
<1>15. Spells(d, s, Q)
  <2> HIDE DEF g, Q
  <2> QED
    BY <1>11, <1>12, <1>13, <1>14 DEF Spells
<1> QED
  BY <1>3, <1>15 DEF d

Parser(line, event, usage) == [line |-> line, event |-> event, usage |-> usage]
EmptyBefore(s, a) == {k \in EmptyLines(s) : k < a}

\* A parser p that was given the first n atoms of s has the line that starts at
\* some a in its buffer, the data of the event before it, and the usage of the last
\* event that is over.
ReadsFrom(s, n, p, a, e) ==
  /\ a <= n + 1 /\ \A i \in a .. n : s[i] # "nl"
  /\ Spells(e, s, DataOf(s, a))
  /\ p = Parser(SubSeq(s, a, n), e, LastUsage(s, EmptyBefore(s, a)))
Reads(s, n, p) == \E a \in Starts(s) : \E e \in Seq(Symbols) : ReadsFrom(s, n, p, a, e)

LEMMA StartPlace ==
  ASSUME NEW s \in Seq(Symbols), NEW a \in Starts(s)
  PROVE  a \in Nat \ {0} /\ a <= Len(s) + 1
BY DEF Starts, Breaks

LEMMA SpellsNone == ASSUME NEW s PROVE <<>> \in Seq(Symbols) /\ Spells(<<>>, s, {})
<1>1. Solid(<<>>) = {}
  BY DEF Solid
<1> DEFINE f == [i \in Solid(<<>>) |-> 0]
<1>2. f \in [Solid(<<>>) -> {}]
  BY <1>1
<1> HIDE DEF f
<1>3. \E g \in [Solid(<<>>) -> {}] : TRUE
  BY <1>2
<1>4. <<>> \in Seq(Symbols)
  OBVIOUS
<1>5. Spells(<<>>, s, {}) <=> \E g \in [Solid(<<>>) -> {}] : TRUE
  BY <1>1 DEF Spells
<1> QED
  BY <1>3, <1>4, <1>5

LEMMA EventOver ==
  ASSUME NEW s \in Seq(Symbols), NEW b \in Nat, NEW e \in Seq(Symbols), Spells(e, s, DataOf(s, b)),
         NEW F, F \subseteq Nat, \A k \in F : k < b, NEW l
  PROVE  FinishEvent(Parser(l, e, LastUsage(s, F)))
           = Parser(l, <<>>, LastUsage(s, F \cup {b}))
<1>1. UsageOf(e) = UsageAt(s, DataOf(s, b))
  <2>1. DataOf(s, b) \subseteq 0 .. Len(s) /\ Len(s) \in Nat
    BY DataBefore
  <2> QED
    BY <2>1, SameUsage
<1>2. LastUsage(s, F \cup {b}) = IF UsageOf(e) # Absent THEN UsageOf(e) ELSE LastUsage(s, F)
  BY <1>1, NextUsage
<1> DEFINE u == LastUsage(s, F)
           v == LastUsage(s, F \cup {b})
           q == Parser(l, e, u)
<1>3. FinishEvent(q) =
        [q EXCEPT !.event = <<>>,
                  !.usage = IF UsageOf(q.event) # Absent THEN UsageOf(q.event) ELSE q.usage]
  BY DEF FinishEvent, Parser
<1>4. q.event = e /\ q.usage = u /\ v = IF UsageOf(e) # Absent THEN UsageOf(e) ELSE u
  BY <1>2 DEF Parser
<1> HIDE DEF u, v
<1>5. FinishEvent(q) = [q EXCEPT !.event = <<>>, !.usage = v]
  BY <1>3, <1>4
<1>6. FinishEvent(q) = Parser(l, <<>>, v)
  BY <1>5 DEF Parser
<1> QED
  BY <1>6 DEF u, v

\* The line at a, taken by a parser that has read what is before it.
LEMMA LineTaken ==
  ASSUME NEW s \in Seq(Symbols), NEW a \in Starts(s), NEW b \in Nat, a < b,
         \A i \in Starts(s) : ~(a < i /\ i < b),
         NEW e \in Seq(Symbols), Spells(e, s, DataOf(s, a)), NEW l
  PROVE  \E d \in Seq(Symbols) :
           /\ Spells(d, s, DataOf(s, b))
           /\ ProcessLine(Parser(l, e, LastUsage(s, EmptyBefore(s, a))), LineAt(s, a))
                = Parser(<<>>, d, LastUsage(s, EmptyBefore(s, b)))
<1> DEFINE line == LineAt(s, a)
           p == Parser(l, e, LastUsage(s, EmptyBefore(s, a)))
<1>1. a \in Nat /\ EmptyBefore(s, a) \subseteq Nat /\ \A k \in EmptyBefore(s, a) : k < a
  BY StartPlace DEF EmptyBefore, EmptyLines
<1>2. EmptyBefore(s, b) = IF line = <<>> THEN EmptyBefore(s, a) \cup {a} ELSE EmptyBefore(s, a)
  <2>1. \A k \in Starts(s) : k \in Nat /\ (k < b <=> (k < a \/ k = a))
    BY <1>1, StartPlace
  <2> QED
    BY <2>1 DEF EmptyBefore, EmptyLines
<1>3. CASE line = <<>>
  <2>1. ProcessLine(p, line) = FinishEvent(Parser(<<>>, e, LastUsage(s, EmptyBefore(s, a))))
    BY <1>3 DEF ProcessLine, Parser
  <2>2. FinishEvent(Parser(<<>>, e, LastUsage(s, EmptyBefore(s, a))))
          = Parser(<<>>, <<>>, LastUsage(s, EmptyBefore(s, a) \cup {a}))
    BY <1>1, EventOver
  <2>3. DataOf(s, b) = {}
    BY <1>3, NextData
  <2> QED
    BY <1>2, <1>3, <2>1, <2>2, <2>3, SpellsNone
<1>4. CASE line # <<>> /\ IsData(line)
  <2> DEFINE d == IF e = <<>> THEN Payload(line) ELSE e \o <<"nl">> \o Payload(line)
  <2>1. ProcessLine(p, line) = Parser(<<>>, d, LastUsage(s, EmptyBefore(s, a)))
    BY <1>4 DEF ProcessLine, Parser
  <2>2. DataOf(s, b) = DataOf(s, a) \cup (a + 2 .. a + Len(line) - 1)
    BY <1>4, NextData DEF PayloadAt
  <2>3. DataOf(s, a) \subseteq Nat /\ \A k \in DataOf(s, a) : k < a
    BY DataBefore
  <2>4. line \in Seq(Symbols) /\ \A k \in 1 .. Len(line) : line[k] = s[a + k - 1] /\ line[k] # "nl"
    BY LineShape
  <2>5. d \in Seq(Symbols) /\ Spells(d, s, DataOf(s, a) \cup (a + 2 .. a + Len(line) - 1))
    <3> HIDE DEF line
    <3> QED
      BY <1>1, <2>3, <2>4, AddData
  <2> HIDE DEF d, p
  <2> QED
    BY <1>2, <1>4, <2>1, <2>2, <2>5 DEF p
<1>5. CASE line # <<>> /\ ~IsData(line)
  <2>1. ProcessLine(p, line) = Parser(<<>>, e, LastUsage(s, EmptyBefore(s, a)))
    BY <1>5 DEF ProcessLine, Parser
  <2>2. DataOf(s, b) = DataOf(s, a)
    BY <1>5, NextData
  <2> QED
    BY <1>2, <1>5, <2>1, <2>2
<1> QED
  BY <1>3, <1>4, <1>5

\* The next atom.
LEMMA AtomRead ==
  ASSUME NEW s \in Seq(Symbols), NEW n \in Nat, n < Len(s), NEW p, Reads(s, n, p)
  PROVE  Reads(s, n + 1, Take(p, s[n + 1]))
<1>1. PICK a \in Starts(s), e \in Seq(Symbols) : ReadsFrom(s, n, p, a, e)
  BY DEF Reads
<1>2. a \in Nat \ {0} /\ a <= n + 1
  BY <1>1, StartPlace DEF ReadsFrom
<1>3. CASE s[n + 1] # "nl"
  <2>1. Append(SubSeq(s, a, n), s[n + 1]) = SubSeq(s, a, n + 1)
    BY <1>2
  <2>2. Take(p, s[n + 1])
          = Parser(SubSeq(s, a, n + 1), e, LastUsage(s, EmptyBefore(s, a)))
    BY <1>1, <1>3, <2>1 DEF Take, ReadsFrom, Parser
  <2>3. a <= (n + 1) + 1 /\ \A i \in a .. n + 1 : s[i] # "nl"
    BY <1>1, <1>2, <1>3 DEF ReadsFrom
  <2>4. ReadsFrom(s, n + 1, Take(p, s[n + 1]), a, e)
    BY <1>1, <2>2, <2>3 DEF ReadsFrom
  <2> QED
    BY <2>4 DEF Reads
<1>4. CASE s[n + 1] = "nl"
  <2> DEFINE b == n + 2
  <2>1. n + 1 \in Breaks(s) /\ b \in Starts(s)
    BY <1>4 DEF Breaks, Starts
  <2>2. LineAt(s, a) = WithoutCr(SubSeq(s, a, n))
    BY <1>1, <1>2, <2>1, LineEnds DEF ReadsFrom
  <2>3. Take(p, s[n + 1]) = ProcessLine(p, LineAt(s, a))
    BY <1>1, <1>4, <2>2 DEF Take, ReadsFrom, Parser
  <2>4. \A i \in Starts(s) : ~(a < i /\ i < b)
    <3>1. SUFFICES ASSUME NEW i \in Starts(s), a < i, i < b PROVE FALSE
      OBVIOUS
    <3>2. i - 1 \in Breaks(s) /\ i \in Nat
      BY <1>2, <3>1 DEF Starts, Breaks
    <3>3. i - 1 \in a .. n
      BY <1>2, <3>1, <3>2
    <3> QED
      BY <1>1, <3>2, <3>3 DEF ReadsFrom, Breaks
  <2>5. b \in Nat /\ a < b
    BY <1>2
  <2>6. PICK d \in Seq(Symbols) :
          /\ Spells(d, s, DataOf(s, b))
          /\ ProcessLine(p, LineAt(s, a)) = Parser(<<>>, d, LastUsage(s, EmptyBefore(s, b)))
    <3>1. Spells(e, s, DataOf(s, a)) /\ p = Parser(SubSeq(s, a, n), e, LastUsage(s, EmptyBefore(s, a)))
      BY <1>1 DEF ReadsFrom
    <3> HIDE DEF b
    <3>2. \E d \in Seq(Symbols) :
           /\ Spells(d, s, DataOf(s, b))
           /\ ProcessLine(Parser(SubSeq(s, a, n), e, LastUsage(s, EmptyBefore(s, a))), LineAt(s, a))
                = Parser(<<>>, d, LastUsage(s, EmptyBefore(s, b)))
      BY <2>4, <2>5, <3>1, LineTaken
    <3> QED
      BY <3>1, <3>2
  <2>7. SubSeq(s, b, n + 1) = <<>> /\ b <= (n + 1) + 1 /\ b .. n + 1 = {}
    OBVIOUS
  <2>8. ReadsFrom(s, n + 1, Take(p, s[n + 1]), b, d)
    BY <2>3, <2>6, <2>7 DEF ReadsFrom
  <2> QED
    BY <2>1, <2>8 DEF Reads
<1> QED
  BY <1>3, <1>4

\* The end of the stream.
LEMMA EndRead ==
  ASSUME NEW s \in Seq(Symbols), NEW p, Reads(s, Len(s), p)
  PROVE  Found(p) = UsageOfStream(s)
<1> DEFINE n == Len(s)
<1>1. PICK a \in Starts(s), e \in Seq(Symbols) : ReadsFrom(s, n, p, a, e)
  BY DEF Reads
<1>2. a \in Nat \ {0} /\ n \in Nat /\ a <= n + 1
  BY StartPlace
<1>3. \A i \in Starts(s) : i \in Nat /\ i <= a
  <2>1. SUFFICES ASSUME NEW i \in Starts(s), ~(i <= a) PROVE FALSE
    BY StartPlace
  <2>2. i \in Nat /\ i > a /\ i - 1 \in Breaks(s)
    BY <1>2, <2>1 DEF Starts, Breaks
  <2>3. i - 1 \in a .. n
    BY <1>2, <2>2 DEF Breaks
  <2> QED
    BY <1>1, <2>2, <2>3 DEF ReadsFrom, Breaks
<1>4. LineAt(s, a) = SubSeq(s, a, n)
  BY <1>1, <1>2, LineOpen DEF ReadsFrom
<1>4a. \A k : EmptyBefore(s, k) = {i \in EmptyLines(s) : i < k}
  BY DEF EmptyBefore
<1>4b. \A k \in EmptyLines(s) : k \in Nat /\ k <= a
  BY <1>3 DEF EmptyLines
<1>5. CASE SubSeq(s, a, n) = <<>>
  <2>1. a = n + 1
    <3>1. Len(SubSeq(s, a, n)) = 0
      BY <1>5
    <3> QED
      BY <1>2, <3>1
  <2>2. EmptyLines(s) \cup {n + 1} = EmptyBefore(s, a) \cup {a}
    <3>1. \A k \in EmptyLines(s) : k < a \/ k = a
      BY <1>2, <1>4b
    <3>2. \A k : k \in EmptyLines(s) \cup {n + 1} <=> (k \in {i \in EmptyLines(s) : i < a} \/ k = a)
      BY <2>1, <3>1
    <3> QED
      BY <1>4a, <3>2
  <2>3. EmptyBefore(s, a) \subseteq Nat /\ \A k \in EmptyBefore(s, a) : k < a
    BY <1>3 DEF EmptyLines, EmptyBefore
  <2>4. FinishEvent(p) = Parser(<<>>, <<>>, LastUsage(s, EmptyBefore(s, a) \cup {a}))
    BY <1>1, <1>2, <1>5, <2>3, EventOver DEF ReadsFrom
  <2>5. p.line = <<>>
    BY <1>1, <1>5 DEF ReadsFrom, Parser
  <2>6. Found(p) = FinishEvent(p).usage
    BY <2>5 DEF Found
  <2> QED
    <3>1. UsageOfStream(s) = LastUsage(s, EmptyLines(s) \cup {n + 1})
      BY DEF UsageOfStream
    <3>2. Found(p) = LastUsage(s, EmptyBefore(s, a) \cup {a})
      BY <2>4, <2>6 DEF Parser
    <3> QED
      BY <2>2, <3>1, <3>2
<1>6. CASE SubSeq(s, a, n) # <<>>
  <2> DEFINE b == n + 1
  <2>1. a < b /\ b \in Nat
    BY <1>2, <1>6
  <2>2. \A i \in Starts(s) : ~(a < i /\ i < b)
    BY <1>2, <1>3
  <2>3. PICK d \in Seq(Symbols) :
          /\ Spells(d, s, DataOf(s, b))
          /\ ProcessLine(p, LineAt(s, a)) = Parser(<<>>, d, LastUsage(s, EmptyBefore(s, b)))
    <3>1. Spells(e, s, DataOf(s, a)) /\ p = Parser(SubSeq(s, a, n), e, LastUsage(s, EmptyBefore(s, a)))
      BY <1>1 DEF ReadsFrom
    <3> HIDE DEF b
    <3>2. \E d \in Seq(Symbols) :
           /\ Spells(d, s, DataOf(s, b))
           /\ ProcessLine(Parser(SubSeq(s, a, n), e, LastUsage(s, EmptyBefore(s, a))), LineAt(s, a))
                = Parser(<<>>, d, LastUsage(s, EmptyBefore(s, b)))
      BY <2>1, <2>2, <3>1, LineTaken
    <3> QED
      BY <3>1, <3>2
  <2>4. EmptyBefore(s, b) = EmptyLines(s)
    <3>1. \A k \in EmptyLines(s) : k < b
      BY <1>2, <1>4b, <2>1
    <3> HIDE DEF b
    <3> QED
      BY <1>4a, <3>1
  <2>5. EmptyBefore(s, b) \subseteq Nat /\ \A k \in EmptyBefore(s, b) : k < b
    BY <1>3 DEF EmptyLines, EmptyBefore
  <2>6. FinishEvent(ProcessLine(p, LineAt(s, a)))
          = Parser(<<>>, <<>>, LastUsage(s, EmptyBefore(s, b) \cup {b}))
    <3>1. Spells(d, s, DataOf(s, b)) /\ d \in Seq(Symbols) /\ b \in Nat
      BY <2>1, <2>3
    <3>2. FinishEvent(Parser(<<>>, d, LastUsage(s, EmptyBefore(s, b))))
            = Parser(<<>>, <<>>, LastUsage(s, EmptyBefore(s, b) \cup {b}))
      <4> HIDE DEF b
      <4> QED
        BY <2>5, <3>1, EventOver
    <3> QED
      BY <2>3, <3>2
  <2>7. p.line = LineAt(s, a) /\ p.line # <<>>
    BY <1>1, <1>4, <1>6 DEF ReadsFrom, Parser
  <2>8. Found(p) = FinishEvent(ProcessLine(p, LineAt(s, a))).usage
    BY <2>7 DEF Found
  <2> QED
    <3>1. UsageOfStream(s) = LastUsage(s, EmptyLines(s) \cup {b})
      BY DEF UsageOfStream
    <3>2. Found(p) = LastUsage(s, EmptyBefore(s, b) \cup {b})
      BY <2>6, <2>8 DEF Parser
    <3> QED
      BY <2>4, <3>1, <3>2
<1> QED
  BY <1>5, <1>6

\* The fold of Take over the atoms of c, by the sets of their positions.
FoldStep(p, c, f, S) ==
  [U \in SUBSET S |-> IF U = {} THEN p ELSE Take(f[U \ {Max(U)}], c[Max(U)])]
Folded(p, c, S) == CHOOSE f : f = FoldStep(p, c, f, S)

LEMMA FoldIs == ASSUME NEW p, NEW c PROVE FoldLeft(Take, p, c) = Folded(p, c, DOMAIN c)[DOMAIN c]
BY DEF FoldLeft, MapThenFoldSet, Folded, FoldStep

LEMMA MaxIs ==
  ASSUME NEW m \in Nat, NEW U, U \subseteq 0 .. m, m \in U
  PROVE  Max(U) = m
<1>1. Max(U) \in U /\ m <= Max(U)
  BY Greatest
<1>2. Max(U) \in 0 .. m
  BY <1>1
<1> QED
  BY <1>1, <1>2

LEMMA FoldExists ==
  ASSUME NEW p, NEW c, NEW n \in Nat
  PROVE  Folded(p, c, 1 .. n) = FoldStep(p, c, Folded(p, c, 1 .. n), 1 .. n)
<1> DEFINE G == {m \in 0 .. n : \E f : f = FoldStep(p, c, f, 1 .. m)}
<1>1. 0 \in G
  <2> DEFINE f == [U \in SUBSET (1 .. 0) |-> p]
  <2>1. \A U \in SUBSET (1 .. 0) : U = {}
    OBVIOUS
  <2>2. f = FoldStep(p, c, f, 1 .. 0)
    BY <2>1 DEF FoldStep
  <2> QED
    BY <2>2
<1>2. ASSUME NEW m \in 1 .. n, m - 1 \in G PROVE m \in G
  <2>1. PICK g : g = FoldStep(p, c, g, 1 .. m - 1)
    BY <1>2
  <2> DEFINE f == [U \in SUBSET (1 .. m) |-> IF m \in U THEN Take(g[U \ {m}], c[m]) ELSE g[U]]
             h == FoldStep(p, c, f, 1 .. m)
  <2>2. ASSUME NEW U \in SUBSET (1 .. m) PROVE f[U] = h[U]
    <3>1. h[U] = IF U = {} THEN p ELSE Take(f[U \ {Max(U)}], c[Max(U)])
      BY DEF FoldStep
    <3>2. CASE m \in U
      <4>1. Max(U) = m
        <5>1. U \subseteq 0 .. m /\ m \in Nat
          OBVIOUS
        <5> QED
          BY <3>2, <5>1, MaxIs
      <4>2. U \ {m} \in SUBSET (1 .. m) /\ m \notin U \ {m}
        OBVIOUS
      <4>3. f[U \ {m}] = g[U \ {m}] /\ f[U] = Take(g[U \ {m}], c[m])
        BY <3>2, <4>2
      <4> HIDE DEF f, h
      <4> QED
        BY <3>1, <3>2, <4>1, <4>3
    <3>3. CASE m \notin U
      <4>1. U \in SUBSET (1 .. m - 1)
        BY <3>3
      <4>2. g[U] = IF U = {} THEN p ELSE Take(g[U \ {Max(U)}], c[Max(U)])
        BY <2>1, <4>1 DEF FoldStep
      <4>3. U \ {Max(U)} \in SUBSET (1 .. m) /\ m \notin U \ {Max(U)}
        BY <3>3
      <4>4. f[U \ {Max(U)}] = g[U \ {Max(U)}] /\ f[U] = g[U]
        BY <3>3, <4>3
      <4> HIDE DEF f, h
      <4> QED
        BY <3>1, <4>2, <4>4
    <3> QED
      BY <3>2, <3>3
  <2>3. f = h
    <3>1. h = [U \in SUBSET (1 .. m) |-> h[U]]
      BY DEF FoldStep
    <3>2. f = [U \in SUBSET (1 .. m) |-> f[U]]
      OBVIOUS
    <3> HIDE DEF f, h
    <3> QED
      BY <2>2, <3>1, <3>2
  <2> QED
    BY <2>3
<1>3. n \in G
  <2> HIDE DEF G
  <2> QED
    BY <1>1, <1>2, Climbs
<1> QED
  BY <1>3 DEF Folded

\* A chunk.
LEMMA ChunkRead ==
  ASSUME NEW s \in Seq(Symbols), NEW n \in Nat, NEW k \in Nat, n + k <= Len(s), NEW p, Reads(s, n, p)
  PROVE  Reads(s, n + k, FoldLeft(Take, p, SubSeq(s, n + 1, n + k)))
<1> DEFINE c == SubSeq(s, n + 1, n + k)
           f == Folded(p, c, 1 .. k)
           G == {m \in 0 .. k : Reads(s, n + m, f[1 .. m])}
<1>1. Len(c) = k /\ DOMAIN c = 1 .. k /\ \A i \in 1 .. k : c[i] = s[n + i]
  <2>1. c = [i \in 1 .. k |-> s[n + i]]
    <3>1. (n + k) - (n + 1) + 1 = k /\ \A i \in 1 .. k : i + (n + 1) - 1 = n + i
      OBVIOUS
    <3> QED
      BY <3>1
  <2> HIDE DEF c
  <2> QED
    BY <2>1
<1> HIDE DEF c
<1>2. FoldLeft(Take, p, c) = f[1 .. k]
  BY <1>1, FoldIs
<1>3. f = FoldStep(p, c, f, 1 .. k)
  BY FoldExists
<1> HIDE DEF f
<1>4. \A U \in SUBSET (1 .. k) : f[U] = IF U = {} THEN p ELSE Take(f[U \ {Max(U)}], c[Max(U)])
  BY <1>3 DEF FoldStep
<1>5. 0 \in G
  <2>1. 1 .. 0 = {} /\ 1 .. 0 \in SUBSET (1 .. k) /\ n + 0 = n
    OBVIOUS
  <2>2. f[1 .. 0] = p
    BY <1>4, <2>1
  <2> QED
    BY <2>1, <2>2
<1>6. ASSUME NEW m \in 1 .. k, m - 1 \in G PROVE m \in G
  <2> DEFINE U == 1 .. m
  <2>1. U \in SUBSET (1 .. k) /\ U # {} /\ U \subseteq 0 .. m /\ m \in U /\ m \in Nat /\ U \ {m} = 1 .. m - 1
    <3>1. \A i : i \in U \ {m} <=> i \in 1 .. m - 1
      OBVIOUS
    <3>2. U \ {m} = 1 .. m - 1
      <4> HIDE DEF U
      <4> QED
        BY <3>1
    <3>3. U \in SUBSET (1 .. k) /\ U # {} /\ U \subseteq 0 .. m /\ m \in U /\ m \in Nat
      <4>1. m \in Nat /\ 1 <= m /\ m <= k
        OBVIOUS
      <4>2. \A i \in U : i \in 1 .. k /\ i \in 0 .. m
        BY <4>1
      <4>3. m \in U
        BY <4>1
      <4> HIDE DEF U
      <4> QED
        BY <4>1, <4>2, <4>3
    <3> HIDE DEF U
    <3> QED
      BY <3>2, <3>3
  <2>2. Max(U) = m
    <3> HIDE DEF U
    <3> QED
      BY <2>1, MaxIs
  <2>3. f[U] = Take(f[1 .. m - 1], c[m])
    <3> HIDE DEF U
    <3> QED
      BY <1>4, <2>1, <2>2
  <2>4. c[m] = s[(n + (m - 1)) + 1] /\ n + (m - 1) \in Nat /\ n + (m - 1) < Len(s) /\ (n + (m - 1)) + 1 = n + m
    BY <1>1
  <2>5. Reads(s, n + (m - 1), f[1 .. m - 1])
    BY <1>6
  <2>6. Reads(s, (n + (m - 1)) + 1, Take(f[1 .. m - 1], s[(n + (m - 1)) + 1]))
    BY <2>4, <2>5, AtomRead
  <2> QED
    BY <2>3, <2>4, <2>6
<1>7. k \in G
  <2> HIDE DEF G
  <2> QED
    BY <1>5, <1>6, Climbs
<1> QED
  BY <1>2, <1>7 DEF c

LEMMA NothingRead == ASSUME NEW s \in Seq(Symbols) PROVE Reads(s, 0, Fresh)
<1>1. 1 \in Starts(s) /\ \A k \in Starts(s) : ~(k < 1)
  BY StartPlace DEF Starts
<1>2. DataOf(s, 1) = {}
  <2>1. DataLines(s, 1) = {}
    BY <1>1 DEF DataLines
  <2> QED
    BY <2>1, DataOfLines
<1>3. EmptyBefore(s, 1) = {}
  BY <1>1 DEF EmptyBefore, EmptyLines
<1>4. LastUsage(s, {}) = Absent
  BY DEF LastUsage
<1>5. SubSeq(s, 1, 0) = <<>> /\ 1 <= 0 + 1 /\ 1 .. 0 = {}
  OBVIOUS
<1>6. Fresh = Parser(SubSeq(s, 1, 0), <<>>, LastUsage(s, EmptyBefore(s, 1)))
  BY <1>3, <1>4, <1>5 DEF Fresh, Parser
<1>7. ReadsFrom(s, 0, Fresh, 1, <<>>)
  BY <1>2, <1>5, <1>6, SpellsNone DEF ReadsFrom
<1> QED
  BY <1>1, <1>7, SpellsNone DEF Reads

\* What was read of a stream does not depend on what follows.
LEMMA PrefixRead ==
  ASSUME NEW s \in Seq(Symbols), NEW n \in Nat, n <= Len(s), NEW p, Reads(s, n, p)
  PROVE  SubSeq(s, 1, n) \in Seq(Symbols) /\ Len(SubSeq(s, 1, n)) = n /\ Reads(SubSeq(s, 1, n), n, p)
<1> DEFINE t == SubSeq(s, 1, n)
<1>1. t \in Seq(Symbols) /\ Len(t) = n /\ \A i \in 1 .. n : t[i] = s[i]
  OBVIOUS
<1> HIDE DEF t
<1>2. PICK a \in Starts(s), e \in Seq(Symbols) : ReadsFrom(s, n, p, a, e)
  BY DEF Reads
<1>3. a \in Nat \ {0} /\ a <= n + 1
  BY <1>2, StartPlace DEF ReadsFrom
<1>4. Breaks(t) = {i \in Breaks(s) : i <= n}
  BY <1>1 DEF Breaks
<1>5. Breaks(s) \subseteq Nat \ {0}
  BY DEF Breaks
<1>6. a \in Starts(t) /\ \A i : i < a => (i \in Starts(t) <=> i \in Starts(s))
  <2>1. a \in Starts(t)
    BY <1>3, <1>4, <1>5 DEF Starts
  <2>2. ASSUME NEW i \in Starts(s), i < a PROVE i \in Starts(t)
    BY <1>3, <1>4, <1>5, <2>2 DEF Starts
  <2>3. Starts(t) \subseteq Starts(s)
    BY <1>4 DEF Starts
  <2> QED
    BY <2>1, <2>2, <2>3
<1>7. ASSUME NEW i \in Starts(s), i < a PROVE LineAt(t, i) = LineAt(s, i)
  <2>1. i \in Nat \ {0} /\ i \in Starts(t)
    BY <1>6, <1>7, StartPlace
  <2>2. a - 1 \in Breaks(s) /\ i <= a - 1
    BY <1>3, <1>7, <2>1 DEF Starts, Breaks
  <2>3. PICK m \in Nat : /\ i <= m + 1 /\ m <= Len(s) /\ \A j \in i .. m : s[j] # "nl"
                         /\ \/ m + 1 \in Breaks(s) /\ LineAt(s, i) = WithoutCr(SubSeq(s, i, m))
                            \/ m = Len(s) /\ LineAt(s, i) = SubSeq(s, i, m)
    BY LineEnd
  <2>4. m + 1 <= a - 1
    <3>1. SUFFICES ASSUME ~(m + 1 <= a - 1) PROVE FALSE
      OBVIOUS
    <3>2. a - 1 \in i .. m
      BY <1>3, <2>1, <2>2, <3>1
    <3> QED
      BY <2>2, <2>3, <3>2 DEF Breaks
  <2>5. m + 1 \in Breaks(s) /\ m + 1 \in Breaks(t) /\ m < n
    BY <1>3, <1>4, <2>3, <2>4
  <2>6. LineAt(s, i) = WithoutCr(SubSeq(s, i, m))
    BY <2>1, <2>3, <2>5, LineEnds
  <2>7. \A j \in i .. m : t[j] = s[j] /\ t[j] # "nl"
    BY <1>1, <2>1, <2>3, <2>5
  <2>8. LineAt(t, i) = WithoutCr(SubSeq(t, i, m))
    BY <1>1, <2>1, <2>3, <2>5, <2>7, LineEnds
  <2>9. SubSeq(t, i, m) = SubSeq(s, i, m)
    BY <1>1, <2>1, <2>5, <2>7
  <2> QED
    BY <2>6, <2>8, <2>9
<1>8. ASSUME NEW k \in Nat, k <= a PROVE DataOf(t, k) = DataOf(s, k)
  <2>1. \A i \in Starts(s) : i < k => i \in Starts(t) /\ LineAt(t, i) = LineAt(s, i)
    <3>1. ASSUME NEW i \in Starts(s), i < k PROVE i < a
      BY <1>3, <1>8, <3>1, StartPlace
    <3> QED
      BY <1>6, <1>7, <3>1
  <2>2. \A i \in Starts(t) : i < k => i \in Starts(s)
    BY <1>4 DEF Starts
  <2>3. ASSUME NEW j PROVE j \in DataLines(t, k) <=> j \in DataLines(s, k)
    <3>1. j < k => ((j \in Starts(t) /\ IsData(LineAt(t, j))) <=> (j \in Starts(s) /\ IsData(LineAt(s, j))))
      BY <2>1, <2>2
    <3>2. (\A i \in Starts(t) : j < i /\ i < k => LineAt(t, i) # <<>>)
            <=> (\A i \in Starts(s) : j < i /\ i < k => LineAt(s, i) # <<>>)
      BY <2>1, <2>2
    <3> QED
      BY <3>1, <3>2 DEF DataLines
  <2>4. DataLines(t, k) = DataLines(s, k)
    BY <2>3
  <2>5. \A j \in DataLines(s, k) : PayloadAt(t, j) = PayloadAt(s, j)
    BY <2>1 DEF DataLines, PayloadAt
  <2>6. {PayloadAt(t, j) : j \in DataLines(t, k)} = {PayloadAt(s, j) : j \in DataLines(s, k)}
    BY <2>4, <2>5
  <2> QED
    BY <2>6, DataOfLines
<1>9. ASSUME NEW P, P \subseteq 1 .. n PROVE UsageAt(t, P) = UsageAt(s, P)
  <2> DEFINE found == {i \in P : s[i] \in DOMAIN UsageAtom}
  <2>1. found = {i \in P : t[i] \in DOMAIN UsageAtom}
    BY <1>1, <1>9
  <2>2. P # {} => s[Min(P)] = t[Min(P)] /\ s[Max(P)] = t[Max(P)]
    <3>1. P \subseteq Nat /\ P \subseteq 0 .. n
      BY <1>9
    <3>2. P # {} => Min(P) \in P /\ Max(P) \in P
      BY <3>1, Least, Greatest
    <3> QED
      BY <1>1, <1>9, <3>2
  <2>3. found # {} => s[Max(found)] = t[Max(found)]
    <3>1. found \subseteq 0 .. n /\ found \subseteq 1 .. n
      <4>1. found \subseteq P
        OBVIOUS
      <4>2. P \subseteq 0 .. n
        BY <1>9
      <4> HIDE DEF found
      <4> QED
        BY <1>9, <4>1, <4>2
    <3> HIDE DEF found
    <3>2. found # {} => Max(found) \in found
      BY <3>1, Greatest
    <3> QED
      BY <1>1, <3>1, <3>2
  <2>4. UsageAt(s, P) = IF P # {} /\ s[Min(P)] = "{" /\ s[Max(P)] = "}" /\ found # {}
                        THEN UsageAtom[s[Max(found)]] ELSE Absent
    BY DEF UsageAt
  <2>5. UsageAt(t, P) = IF P # {} /\ t[Min(P)] = "{" /\ t[Max(P)] = "}" /\ found # {}
                        THEN UsageAtom[t[Max(found)]] ELSE Absent
    BY <2>1 DEF UsageAt
  <2> HIDE DEF found
  <2>6. CASE P = {} \/ found = {}
    BY <2>4, <2>5, <2>6
  <2>7. CASE P # {} /\ found # {}
    <3> DEFINE value == UsageAtom[s[Max(found)]]
               whole == s[Min(P)] = "{" /\ s[Max(P)] = "}"
    <3>1. UsageAt(s, P) = IF whole THEN value ELSE Absent
      BY <2>4, <2>7
    <3>2. UsageAt(t, P) = IF whole THEN value ELSE Absent
      BY <2>2, <2>3, <2>5, <2>7
    <3> HIDE DEF whole, value
    <3> QED
      BY <3>1, <3>2
  <2> QED
    BY <2>6, <2>7
<1>10. ASSUME NEW k \in Nat, k <= a
       PROVE  UsageAt(t, DataOf(t, k)) = UsageAt(s, DataOf(s, k))
  <2>1. DataOf(t, k) \subseteq 1 .. n
    BY <1>1, DataBefore
  <2> QED
    BY <1>8, <1>9, <1>10, <2>1
<1>11. EmptyBefore(t, a) = EmptyBefore(s, a)
  BY <1>6, <1>7 DEF EmptyBefore, EmptyLines
<1>12. LastUsage(t, EmptyBefore(s, a)) = LastUsage(s, EmptyBefore(s, a))
  <2> DEFINE F == EmptyBefore(s, a)
             with == {k \in F : UsageAt(s, DataOf(s, k)) # Absent}
  <2>1. F \subseteq 0 .. a /\ \A k \in F : k \in Nat /\ k <= a
    <3>1. \A k \in F : k \in Starts(s) /\ k < a
      BY DEF EmptyBefore, EmptyLines
    <3>2. \A k \in F : k \in 0 .. a /\ k \in Nat /\ k <= a
      <4> HIDE DEF F
      <4>1. \A k \in F : k \in Nat
        BY <3>1, StartPlace
      <4> QED
        BY <1>3, <3>1, <4>1
    <3> HIDE DEF F
    <3> QED
      BY <3>2
  <2> HIDE DEF F
  <2>2. with = {k \in F : UsageAt(t, DataOf(t, k)) # Absent}
    BY <1>10, <2>1
  <2>3. with # {} => Max(with) \in F
    <3>1. with \subseteq 0 .. a /\ with \subseteq F
      BY <2>1
    <3> HIDE DEF with
    <3> QED
      BY <1>3, <3>1, Greatest
  <2>4. LastUsage(s, F) = IF with = {} THEN Absent ELSE UsageAt(s, DataOf(s, Max(with)))
    BY DEF LastUsage
  <2>5. LastUsage(t, F) = IF with = {} THEN Absent ELSE UsageAt(t, DataOf(t, Max(with)))
    BY <2>2 DEF LastUsage
  <2> HIDE DEF with
  <2>6. with # {} => UsageAt(t, DataOf(t, Max(with))) = UsageAt(s, DataOf(s, Max(with)))
    BY <1>10, <2>1, <2>3
  <2>7. LastUsage(t, F) = LastUsage(s, F)
    BY <2>4, <2>5, <2>6
  <2> QED
    BY <2>7 DEF F
<1>13. Spells(e, t, DataOf(t, a))
  <2>1. DataOf(t, a) = DataOf(s, a) /\ DataOf(s, a) \subseteq 1 .. n
    <3>1. DataOf(t, a) = DataOf(s, a)
      BY <1>3, <1>8
    <3>2. DataOf(t, a) \subseteq 1 .. n
      BY <1>1, DataBefore
    <3> QED
      BY <3>1, <3>2
  <2>2. PICK f \in [Solid(e) -> DataOf(s, a)] :
          /\ \A i \in Solid(e) : e[i] = s[f[i]]
          /\ \A k \in DataOf(s, a) : \E i \in Solid(e) : f[i] = k
          /\ \A i, j \in Solid(e) : i < j => f[i] < f[j]
    BY <1>2 DEF ReadsFrom, Spells
  <2>3. \A i \in Solid(e) : e[i] = t[f[i]]
    BY <1>1, <2>1, <2>2
  <2> QED
    BY <2>1, <2>2, <2>3 DEF Spells
<1>14. SubSeq(t, a, n) = SubSeq(s, a, n) /\ \A i \in a .. n : t[i] = s[i]
  BY <1>1, <1>3
<1>15. ReadsFrom(t, n, p, a, e)
  BY <1>2, <1>11, <1>12, <1>13, <1>14 DEF ReadsFrom
<1>16. Reads(t, n, p)
  BY <1>6, <1>15 DEF Reads
<1> QED
  BY <1>1, <1>16 DEF t

\* What the parser of an exchange has been given.  It is not given anything unless
\* the answer is a stream, and then all that was forwarded.
Observed ==
  /\ caller \in Callers /\ req \in RequestsOf[caller]
  /\ pc \in {"new", "sent"} => at = 0 /\ parser = Fresh
  /\ pc = "reading" => ~Streams(req)
  /\ pc = "streaming" =>
       /\ answer \in Streamed /\ at \in Nat /\ at <= Len(answer)
       /\ ~cleared => Reads(answer, at, parser)

LEMMA StreamSymbols == Streamed \subseteq Seq(Symbols)
<1>1. SUFFICES ASSUME NEW s \in Streamed PROVE s \in Seq(Symbols)
  OBVIOUS
<1>2. s \in Seq(STRING)
  BY ExchangeAssumption DEF ExchangeAssumption
<1>3. \A i \in 1 .. Len(s) : s[i] \in Symbols
  BY <1>2 DEF Symbols
<1> QED
  BY <1>2, <1>3

LEMMA ObservedInit == ExchangeInit => Observed /\ UsageOfWhole
BY DEF ExchangeInit, Observed, UsageOfWhole

LEMMA ChunkObserved == ASSUME Observed, Chunk PROVE Observed' /\ UsageOfWhole'
<1>1. pc = "streaming" /\ pc' = pc /\ UNCHANGED <<exchange, answer>>
  BY DEF Chunk, Polls
<1>2. PICK k \in 1 .. MaxChunk :
        /\ at + k <= Len(answer) /\ at' = at + k
        /\ parser' = Push(parser, SubSeq(answer, at + 1, at + k))
        /\ cleared' = (cleared \/ Overfull(parser, SubSeq(answer, at + 1, at + k)))
  BY DEF Chunk
<1>3. answer \in Seq(Symbols) /\ at \in Nat /\ k \in Nat /\ answer \in Streamed
  BY <1>1, StreamSymbols DEF Observed
<1>4. ASSUME ~cleared' PROVE Reads(answer, at + k, parser')
  <2>1. ~cleared /\ ~Overfull(parser, SubSeq(answer, at + 1, at + k))
    BY <1>2, <1>4, Zenon
  <2>2. parser' = FoldLeft(Take, parser, SubSeq(answer, at + 1, at + k))
    BY <1>2, <2>1 DEF Push
  <2>3. Reads(answer, at, parser)
    BY <1>1, <2>1 DEF Observed
  <2>4. Reads(answer, at + k, FoldLeft(Take, parser, SubSeq(answer, at + 1, at + k)))
    BY <1>2, <1>3, <2>3, ChunkRead
  <2> QED
    BY <2>2, <2>4
<1>5. ~cleared' => Reads(answer', at', parser')
  BY <1>1, <1>2, <1>4
<1>6. at' \in Nat /\ at' <= Len(answer')
  BY <1>1, <1>2, <1>3
<1> QED
  BY <1>1, <1>3, <1>5, <1>6 DEF Observed, UsageOfWhole, exchange

LEMMA EndObserved ==
  ASSUME Observed, StreamEnds \/ StreamBreaks \/ IdleTimesOut
  PROVE  Observed' /\ UsageOfWhole'
<1>1. /\ pc = "streaming" /\ pc' = "done" /\ recorded' = Found(parser)
      /\ UNCHANGED <<exchange, answer, at, cleared>>
  BY DEF StreamEnds, StreamBreaks, IdleTimesOut, Polls, Observe, Conclude
<1>2. answer \in Seq(Symbols) /\ at \in Nat /\ at <= Len(answer)
  BY <1>1, StreamSymbols DEF Observed
<1>3. ASSUME ~cleared PROVE Found(parser) = UsageOfStream(SubSeq(answer, 1, at))
  <2>1. Reads(answer, at, parser)
    BY <1>1, <1>3 DEF Observed
  <2> DEFINE t == SubSeq(answer, 1, at)
  <2>2. t \in Seq(Symbols) /\ Len(t) = at /\ Reads(t, at, parser)
    BY <1>2, <2>1, PrefixRead
  <2> HIDE DEF t
  <2>3. Found(parser) = UsageOfStream(t)
    BY <2>2, EndRead
  <2> QED
    BY <2>3 DEF t
<1>4. ~cleared' => recorded' = UsageOfStream(SubSeq(answer', 1, at'))
  BY <1>1, <1>3
<1> QED
  BY <1>1, <1>4 DEF Observed, UsageOfWhole, exchange

LEMMA ObservedStep ==
  ASSUME Observed, UsageOfWhole, [ExchangeNext]_exchangeVars
  PROVE  Observed' /\ UsageOfWhole'
<1>1. CASE Convert
  BY <1>1 DEF Convert, Conclude, Failed, Observed, UsageOfWhole, exchange
<1>2. CASE HeadArrives
  <2>1. Streams(req) => caller = "client"
    BY ExchangeAssumption DEF ExchangeAssumption, Observed
  <2>2. /\ pc = "sent" /\ UNCHANGED <<exchange, at, parser, cleared>>
        /\ \/ pc' = "streaming" /\ answer' \in Streamed
           \/ pc' = "reading" /\ ~Streams(req)
           \/ pc' = "done" /\ outcome' \in {"heuristic", "failed"}
    BY <1>2, <2>1 DEF HeadArrives, Conclude, Failed
  <2>3. at = 0 /\ parser = Fresh
    BY <2>2 DEF Observed
  <2>4. pc' = "streaming" =>
          Reads(answer', at', parser') /\ at' \in Nat /\ at' <= Len(answer') /\ answer' \in Streamed
    <3>1. SUFFICES ASSUME pc' = "streaming"
                   PROVE  Reads(answer', at', parser') /\ at' \in Nat /\ at' <= Len(answer') /\ answer' \in Streamed
      OBVIOUS
    <3>2. answer' \in Streamed /\ answer' \in Seq(Symbols)
      BY <2>2, <3>1, StreamSymbols
    <3> QED
      BY <2>2, <2>3, <3>2, NothingRead
  <2>5. Streams(req)' <=> Streams(req)
    BY <2>2 DEF exchange, Streams
  <2> QED
    BY <2>2, <2>3, <2>4, <2>5 DEF Observed, UsageOfWhole, exchange
<1>3. CASE HeadFails \/ SendTimesOut \/ BodyFails \/ ClientLeaves
  <2>1. /\ pc' = "done" /\ outcome' \notin {"answered", "broken"} /\ UNCHANGED exchange
    BY <1>3 DEF HeadFails, SendTimesOut, BodyFails, ClientLeaves, Conclude, Failed
  <2> QED
    BY <2>1 DEF Observed, UsageOfWhole, exchange
<1>4. CASE AnswerRead
  <2>1. pc = "reading" /\ pc' = "done" /\ UNCHANGED exchange
    BY <1>4 DEF AnswerRead, Conclude
  <2>2. ~Streams(req)'
    BY <2>1 DEF Observed, exchange, Streams
  <2> QED
    BY <2>1, <2>2 DEF Observed, UsageOfWhole, exchange
<1>5. CASE UNCHANGED exchangeVars
  BY <1>5 DEF exchangeVars, Observed, UsageOfWhole, exchange
<1>6. CASE CommentArrives \/ TimePasses \/ ClientStalls
  BY <1>6 DEF CommentArrives, TimePasses, ClientStalls, Observed, UsageOfWhole, exchange
<1> QED
  BY <1>1, <1>2, <1>3, <1>4, <1>5, <1>6, ChunkObserved, EndObserved DEF ExchangeNext

\* Wherever a provider's stream is cut into chunks, and whatever it holds: the usage
\* that is recorded of it when it ends or breaks (StreamingUsageParser, server.rs) is
\* that of all that was forwarded.
THEOREM UsageIsWhole == ExchangeSpec => []UsageOfWhole
<1>1. Observed /\ UsageOfWhole /\ [ExchangeNext]_exchangeVars => (Observed /\ UsageOfWhole)'
  BY ObservedStep
<1> QED
  BY <1>1, ObservedInit, PTL DEF ExchangeSpec
=============================================================================
