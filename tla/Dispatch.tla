------------------------------- MODULE Dispatch -------------------------------
(***************************************************************************)
(* How src/src/server.rs serves requests that are already routed:           *)
(* apply_sticky_routing, dispatch_chat (dispatch_responses is the same, and *)
(* the other endpoints are it without a cache, a sticky key or streaming),  *)
(* upstream_response and the stream it returns, over the permits and retries*)
(* of src/src/provider.rs.  Requests run concurrently; each name below for a*)
(* program counter is an await, where others run and where a client that     *)
(* leaves drops the handler.                                                *)
(*                                                                         *)
(* The call for a query's embedding is candidate 0: the same permits and    *)
(* retries, another provider.                                               *)
(***************************************************************************)
EXTENDS Naturals, Sequences, FiniteSets

CONSTANTS
  Requests, Models, Providers,
  ProviderOf,      \* ProviderOf[m]
  Embedder,        \* the provider of cache.semantic.embedding_model
  Plan,            \* Plan[r]: the eligible models, best first
  Automatic,       \* requests for auto or router-*, the others name a model
  Streaming,       \* requests with stream: true
  Cache,           \* Cache[r]: "none", "local" (local-hash) or "provider"
  Key,             \* Key[r]: the sticky key, or NoKey
  Keys, NoKey, NoModel, NoProvider,
  PreferModel,     \* sticky_routing.prefer_model
  MaxConcurrency,  \* MaxConcurrency[p], for the providers that have one
  Retries,         \* Retries[p]
  FileBackend,     \* the ledger is a file, and may fail
  Scopes, Global, Dims, Limit, Credential, Charge, MaxCount   \* as in Budget

Limited == DOMAIN MaxConcurrency

\* What the callers of dispatch_* pass: an explicit request has one model and no
\* cache, a stream is not cached, and neither is one with a sticky key, which
\* would be a request option.
ASSUME DispatchAssumption ==
  /\ IsFiniteSet(Requests)
  /\ ProviderOf \in [Models -> Providers] /\ Embedder \in Providers
  /\ Plan \in [Requests -> Seq(Models)] /\ \A r \in Requests : Plan[r] # <<>>
  /\ Automatic \subseteq Requests /\ Streaming \subseteq Requests
  /\ Cache \in [Requests -> {"none", "local", "provider"}]
  /\ Key \in [Requests -> Keys \cup {NoKey}] /\ NoKey \notin Keys
  /\ NoModel \notin Models /\ NoProvider \notin Providers
  /\ PreferModel \in BOOLEAN /\ FileBackend \in BOOLEAN
  /\ Limited \subseteq Providers
  /\ MaxConcurrency \in [Limited -> Nat \ {0}]
  /\ Retries \in [Providers -> Nat]
  /\ \A r \in Requests :
       /\ r \notin Automatic => Len(Plan[r]) = 1 /\ Cache[r] = "none" /\ Key[r] = NoKey
       /\ r \in Streaming \/ Key[r] # NoKey => Cache[r] = "none"
  /\ MaxCount \in Nat /\ DOMAIN Limit \subseteq Dims
  /\ Credential \in [Requests -> Scopes]
  /\ Charge \in [Requests \X Models -> [Dims -> 0 .. MaxCount]]

VARIABLES
  pc, order,       \* order[r]: the models to try
  at,              \* at[r]: which of them, 0 for the embedding call
  tries,           \* tries[r]: attempts made on it before the current one
  status,          \* status[r]: how the last attempt went
  embedded,        \* embedded[r]: the query has an embedding
  hit,             \* hit[r]: the model of the cached response, or NoModel
  permit,          \* permit[r]: the provider whose permit r holds, or NoProvider
  free,            \* free[p]: available permits
  ledger, cache,   \* cache: the models with a cached response
  sticky,          \* sticky[k]: the model last recorded, or NoModel
  streamsActive,
  finals,          \* finals[r]: final outcomes counted for r
  answer,          \* answer[r]: what r's client got
  sent,            \* history: <<r, i, n>>, attempt n on r's candidate i was made
  charged          \* history: charged[r], the models r was charged at the price of

request == <<order, embedded, hit>>
call == <<at, tries, status>>
shared == <<ledger, cache, sticky>>
outcome == <<finals, answer>>
permits == <<permit, free>>
vars == <<pc, request, call, permits, shared, streamsActive, outcome, sent, charged>>

INSTANCE Budget WITH Requests <- Requests \X Models,
                     Scope <- [x \in Requests \X Models |-> Credential[x[1]]]

Statuses == {"success", "client_error", "transient"}
Errors == {"timeout", "transport", "refused"}
Answers == Statuses \cup {"none", "hit", "over_budget", "transport_error", "body_error", "gone"}
PCs == {"new", "reserve", "lookup", "queue", "attempt", "backoff", "select", "body",
        "store", "stream", "done"}
Connected == {"attempt", "backoff", "select", "body", "stream"}

Target(r) == IF at[r] = 0 THEN Embedder ELSE ProviderOf[order[r][at[r]]]
LastAttempt(r) == tries[r] >= Retries[Target(r)]
Candidates(r) == {order[r][i] : i \in DOMAIN order[r]}
MayFailOver(r) == r \in Automatic /\ at[r] < Len(order[r])

Goto(r, to) == pc' = [pc EXCEPT ![r] = to]
Finish(r, a) == Goto(r, "done") /\ answer' = [answer EXCEPT ![r] = a]
CountFinal(r) == finals' = [finals EXCEPT ![r] = @ + 1]

Init ==
  /\ pc = [r \in Requests |-> "new"]
  /\ order = Plan
  /\ at = [r \in Requests |-> 0] /\ tries = [r \in Requests |-> 0]
  /\ status = [r \in Requests |-> "success"]
  /\ embedded = [r \in Requests |-> FALSE]
  /\ hit = [r \in Requests |-> NoModel]
  /\ permit = [r \in Requests |-> NoProvider]
  /\ free = MaxConcurrency
  /\ ledger = EmptyLedger /\ cache = {}
  /\ sticky = [k \in Keys |-> NoModel]
  /\ streamsActive = 0
  /\ finals = [r \in Requests |-> 0]
  /\ answer = [r \in Requests |-> "none"]
  /\ sent = {} /\ charged = [r \in Requests |-> <<>>]
-----------------------------------------------------------------------------
(* Before the first upstream call.                                          *)

\* Mutant: the preferred model comes first, and the first is lost.
Preferred_Overwrites(models, m) ==
  LET same == {i \in DOMAIN models : ProviderOf[models[i]] = ProviderOf[m]} IN
  IF m = NoModel \/ same = {} THEN models
  ELSE [models EXCEPT ![1] = models[CHOOSE i \in same : \A j \in same : i <= j]]

\* apply_sticky_routing: the remembered model, or else the first of its
\* provider, changes places with the first.
Preferred(models, m) ==
  LET exact == {i \in DOMAIN models : PreferModel /\ models[i] = m}
      sameProvider == {i \in DOMAIN models : ProviderOf[models[i]] = ProviderOf[m]}
      best == IF exact # {} THEN exact ELSE sameProvider
  IN  IF m = NoModel \/ sameProvider = {} THEN models
      ELSE LET i == CHOOSE i \in best : \A j \in best : i <= j
           IN  [models EXCEPT ![1] = models[i], ![i] = models[1]]

Arrive(r) ==
  /\ pc[r] = "new"
  /\ order' = [order EXCEPT ![r] = IF Key[r] = NoKey THEN @ ELSE Preferred(@, sticky[Key[r]])]
  /\ \E e \in BOOLEAN :   \* local_hash has no vector for a prompt without words
       /\ e => Cache[r] = "local"
       /\ embedded' = [embedded EXCEPT ![r] = e]
       /\ Goto(r, IF e THEN "lookup" ELSE "reserve")
  /\ UNCHANGED <<hit, call, permits, shared, streamsActive, outcome, sent, charged>>

\* Mutant: the attempts made on the last provider count for the next.
Try_KeepsTries(r, i) ==
  /\ Goto(r, "queue")
  /\ at' = [at EXCEPT ![r] = i]
  /\ UNCHANGED tries

\* The next call is for candidate i.
Try(r, i) ==
  /\ Goto(r, "queue")
  /\ at' = [at EXCEPT ![r] = i]
  /\ tries' = [tries EXCEPT ![r] = 0]

\* A hit is answered, anything else goes to the first candidate.
Serve(r, h) ==
  \/ /\ h # NoModel
     /\ Finish(r, "hit")
     /\ UNCHANGED <<at, tries>>
  \/ /\ h = NoModel
     /\ Try(r, 1)
     /\ UNCHANGED answer

\* The reservation is for the hit's model or the first.
Reservation(r) == <<r, IF hit[r] # NoModel THEN hit[r] ELSE order[r][1]>>

Accept(r) ==
  /\ WithinBudget(ledger, Reservation(r))
  /\ ledger' = Charged(ledger, Reservation(r))
  /\ charged' = [charged EXCEPT ![r] = Append(@, Reservation(r)[2])]

\* reserve_budget
Reserve(r) ==
  /\ pc[r] = "reserve"
  /\ \/ /\ Accept(r)
        /\ IF Cache[r] = "provider" THEN Try(r, 0) /\ UNCHANGED answer
                                    ELSE Serve(r, hit[r])
     \/ /\ ~WithinBudget(ledger, Reservation(r))
        /\ ledger' = IF FileBackend THEN ledger ELSE WithEntry(ledger, Reservation(r))
        /\ Finish(r, "over_budget")
        /\ UNCHANGED <<at, tries, charged>>
  /\ UNCHANGED <<request, status, permits, cache, sticky, streamsActive, finals, sent>>

\* Mutant: a failed reservation is made again.
ReserveFails_Retries(r) ==
  /\ FileBackend
  /\ pc[r] = "reserve"
  /\ Accept(r) \/ UNCHANGED <<ledger, charged>>
  /\ UNCHANGED <<pc, answer, request, call, permits, cache, sticky, streamsActive, finals, sent>>

\* A file ledger that cannot be locked, read or written refuses, and may have
\* charged when what failed is the sync after the rename.
ReserveFails(r) ==
  /\ FileBackend
  /\ pc[r] = "reserve"
  /\ Accept(r) \/ UNCHANGED <<ledger, charged>>
  /\ Finish(r, "over_budget")
  /\ UNCHANGED <<request, call, permits, cache, sticky, streamsActive, finals, sent>>

\* Mutant: a request already charged for its embedding is charged again.
Lookup_ChargesAgain(r) ==
  /\ pc[r] = "lookup"
  /\ \E h \in {NoModel} \cup (cache \cap Candidates(r)) : hit' = [hit EXCEPT ![r] = h]
  /\ Goto(r, "reserve")
  /\ UNCHANGED <<order, embedded, call, permits, shared, streamsActive, outcome, sent, charged>>

\* semantic_cache.lookup: some cached response of a candidate, or none close enough.
Lookup(r) ==
  /\ pc[r] = "lookup"
  /\ \E h \in {NoModel} \cup (cache \cap Candidates(r)) :
       /\ hit' = [hit EXCEPT ![r] = h]
       /\ IF Cache[r] = "provider" THEN Serve(r, h)
                                   ELSE Goto(r, "reserve") /\ UNCHANGED <<at, tries, answer>>
  /\ UNCHANGED <<order, embedded, status, permits, shared, streamsActive, finals, sent, charged>>
-----------------------------------------------------------------------------
(* ProviderClient::send_*: a permit, then attempts.                         *)

Release(r) ==
  /\ permit' = [permit EXCEPT ![r] = NoProvider]
  /\ free' = [p \in Limited |-> IF permit[r] = p THEN free[p] + 1 ELSE free[p]]

\* acquire_permit
Acquire(r) ==
  LET p == Target(r) IN
  /\ pc[r] = "queue"
  /\ IF p \in Limited
       THEN /\ free[p] > 0
            /\ free' = [free EXCEPT ![p] = @ - 1]
            /\ permit' = [permit EXCEPT ![r] = p]
       ELSE UNCHANGED permits
  /\ Goto(r, "attempt")
  /\ UNCHANGED <<request, call, shared, streamsActive, outcome, sent, charged>>

\* Mutant: the last candidate is never tried.
SendFails_SkipsLast(r, e) ==
  /\ status' = [status EXCEPT ![r] = e]
  /\ Release(r)
  /\ IF at[r] = 0 THEN Try(r, 1) /\ UNCHANGED outcome
     ELSE IF r \in Automatic /\ at[r] + 1 < Len(order[r])
            THEN Try(r, at[r] + 1) /\ UNCHANGED outcome
     ELSE /\ Finish(r, "transport_error")
          /\ CountFinal(r)
          /\ UNCHANGED <<at, tries>>

\* send_* returns an error: the next candidate, or a 502.
SendFails(r, e) ==
  /\ status' = [status EXCEPT ![r] = e]
  /\ Release(r)
  /\ IF at[r] = 0 THEN Try(r, 1) /\ UNCHANGED outcome
     ELSE IF MayFailOver(r) THEN Try(r, at[r] + 1) /\ UNCHANGED outcome
     ELSE /\ Finish(r, "transport_error")
          /\ CountFinal(r)
          /\ UNCHANGED <<at, tries>>

\* No permit, at once or within queue_timeout_ms.
Refuse(r) ==
  /\ pc[r] = "queue"
  /\ Target(r) \in Limited /\ free[Target(r)] = 0
  /\ SendFails(r, "refused")
  /\ UNCHANGED <<request, shared, streamsActive, sent, charged>>

Attempted(r) == sent' = sent \cup {<<r, at[r], tries[r]>>}

\* Mutant: an attempt that is retried is not counted.
Retry_Uncounted(r, o) ==
  /\ pc[r] = "attempt" /\ ~LastAttempt(r)
  /\ Attempted(r)
  /\ status' = [status EXCEPT ![r] = o]
  /\ Goto(r, "backoff")
  /\ UNCHANGED <<request, at, tries, permits, shared, streamsActive, outcome, charged>>

\* A transient status, or no headers or connection in time, with attempts left.
Retry(r, o) ==
  /\ pc[r] = "attempt" /\ ~LastAttempt(r)
  /\ Attempted(r)
  /\ status' = [status EXCEPT ![r] = o]
  /\ tries' = [tries EXCEPT ![r] = @ + 1]
  /\ Goto(r, "backoff")
  /\ UNCHANGED <<request, at, permits, shared, streamsActive, outcome, charged>>

Backoff(r) ==
  /\ pc[r] = "backoff"
  /\ Goto(r, "attempt")
  /\ UNCHANGED <<request, call, permits, shared, streamsActive, outcome, sent, charged>>

\* Any other error is returned at once, these after the last attempt.
SendErr(r, e) ==
  /\ pc[r] = "attempt" /\ (e = "timeout" => LastAttempt(r))
  /\ Attempted(r)
  /\ SendFails(r, e)
  /\ UNCHANGED <<request, shared, streamsActive, charged>>

\* A response: what an embedding call got is read whatever its status, a
\* transient status fails over, and any other or the last is the answer.
SendOk(r, s) ==
  /\ pc[r] = "attempt" /\ (s = "transient" => LastAttempt(r))
  /\ Attempted(r)
  /\ status' = [status EXCEPT ![r] = s]
  /\ IF at[r] = 0 THEN Goto(r, "body") /\ UNCHANGED <<at, tries, permits>>
     ELSE IF s = "transient" /\ MayFailOver(r) THEN Release(r) /\ Try(r, at[r] + 1)
     ELSE Goto(r, "select") /\ UNCHANGED <<at, tries, permits>>
  /\ UNCHANGED <<request, shared, streamsActive, outcome, charged>>
-----------------------------------------------------------------------------
(* The answer.                                                              *)

\* record_sticky_routing, before anything of the body is read; a store that
\* cannot be written keeps the route it had.
Remember(r) ==
  \/ sticky' = [k \in Keys |-> IF k = Key[r] THEN order[r][at[r]] ELSE sticky[k]]
  \/ UNCHANGED sticky

\* Mutant: the permit goes with the response's head.
Select_DropsPermit(r) ==
  /\ pc[r] = "select"
  /\ Remember(r)
  /\ Release(r)
  /\ IF r \in Streaming
       THEN /\ Goto(r, "stream")
            /\ streamsActive' = streamsActive + 1
            /\ IF status[r] = "success" THEN UNCHANGED finals ELSE CountFinal(r)
       ELSE Goto(r, "body") /\ UNCHANGED <<streamsActive, finals>>
  /\ UNCHANGED <<request, call, ledger, cache, answer, sent, charged>>

\* upstream_response: a failed status is final when its stream starts.
Select(r) ==
  /\ pc[r] = "select"
  /\ Remember(r)
  /\ IF r \in Streaming
       THEN /\ Goto(r, "stream")
            /\ streamsActive' = streamsActive + 1
            /\ IF status[r] = "success" THEN UNCHANGED finals ELSE CountFinal(r)
       ELSE Goto(r, "body") /\ UNCHANGED <<streamsActive, finals>>
  /\ UNCHANGED <<request, call, permits, ledger, cache, answer, sent, charged>>

\* An embedding is looked up, and anything else read instead of one forgotten.
EmbeddingDone(r) ==
  /\ pc[r] = "body" /\ at[r] = 0
  /\ Release(r)
  /\ \/ /\ status[r] = "success"
        /\ embedded' = [embedded EXCEPT ![r] = TRUE]
        /\ Goto(r, "lookup")
        /\ UNCHANGED <<at, tries>>
     \/ Try(r, 1) /\ UNCHANGED embedded
  /\ UNCHANGED <<order, hit, status, shared, streamsActive, outcome, sent, charged>>

\* A successful answer to an embedded query is stored before it is sent.
BodyDone(r) ==
  /\ pc[r] = "body" /\ at[r] > 0
  /\ Release(r)
  /\ CountFinal(r)
  /\ IF status[r] = "success" /\ embedded[r]
       THEN Goto(r, "store") /\ UNCHANGED answer
       ELSE Finish(r, status[r])
  /\ UNCHANGED <<request, call, shared, streamsActive, sent, charged>>

BodyFails(r) ==
  /\ pc[r] = "body" /\ at[r] > 0
  /\ Release(r)
  /\ CountFinal(r)
  /\ Finish(r, "body_error")
  /\ UNCHANGED <<request, call, shared, streamsActive, sent, charged>>

\* semantic_cache.record
Store(r) ==
  /\ pc[r] = "store"
  /\ cache' = cache \cup {order[r][at[r]]}
  /\ Finish(r, "success")
  /\ UNCHANGED <<request, call, permits, ledger, sticky, streamsActive, finals, sent, charged>>

\* Mutant: the end of a stream is counted whatever its status was.
StreamEnds_CountsAgain(r, a) ==
  /\ pc[r] = "stream"
  /\ Release(r)
  /\ streamsActive' = streamsActive - 1
  /\ CountFinal(r)
  /\ Finish(r, a)
  /\ UNCHANGED <<request, call, shared, sent, charged>>

\* The observer's on_end or on_error, and then its drop.
StreamEnds(r, a) ==
  /\ pc[r] = "stream"
  /\ Release(r)
  /\ streamsActive' = streamsActive - 1
  /\ IF status[r] = "success" THEN CountFinal(r) ELSE UNCHANGED finals
  /\ Finish(r, a)
  /\ UNCHANGED <<request, call, shared, sent, charged>>

\* The client leaves and everything the handler holds is dropped; the blocking
\* job a file ledger was given runs all the same.
Cancel(r) ==
  /\ pc[r] \notin {"new", "done"}
  /\ Release(r)
  /\ streamsActive' = IF pc[r] = "stream" THEN streamsActive - 1 ELSE streamsActive
  /\ \/ UNCHANGED <<ledger, charged>>
     \/ FileBackend /\ pc[r] = "reserve" /\ Accept(r)
  /\ Finish(r, "gone")
  /\ UNCHANGED <<request, call, cache, sticky, finals, sent>>

\* A cached response expires or is evicted.
Evict(m) ==
  /\ m \in cache
  /\ cache' = cache \ {m}
  /\ UNCHANGED <<pc, request, call, permits, ledger, sticky, streamsActive, outcome, sent, charged>>

\* A sticky route expires.
Forget(k) ==
  /\ sticky[k] # NoModel
  /\ sticky' = [sticky EXCEPT ![k] = NoModel]
  /\ UNCHANGED <<pc, request, call, permits, ledger, cache, streamsActive, outcome, sent, charged>>
-----------------------------------------------------------------------------
Progress(r) ==
  \/ Reserve(r) \/ ReserveFails(r) \/ Lookup(r)
  \/ Acquire(r) \/ Refuse(r)
  \/ \E o \in {"transient", "timeout"} : Retry(r, o)
  \/ Backoff(r)
  \/ \E e \in {"timeout", "transport"} : SendErr(r, e)
  \/ \E s \in Statuses : SendOk(r, s)
  \/ Select(r) \/ EmbeddingDone(r) \/ BodyDone(r) \/ BodyFails(r) \/ Store(r)
  \/ \E a \in {status[r], "body_error"} : StreamEnds(r, a)

Next ==
  \/ \E r \in Requests : Arrive(r) \/ Progress(r) \/ Cancel(r)
  \/ \E m \in Models : Evict(m)
  \/ \E k \in Keys : Forget(k)

Spec == Init /\ [][Next]_vars

\* Tokio polls every handler whose await is ready, each await before the body
\* has a deadline, and upstream bodies are assumed to end or break.
FairSpec == Spec /\ \A r \in Requests : WF_vars(Progress(r))
-----------------------------------------------------------------------------
(* What the handlers promise.                                               *)

\* Every variable has its type; no request counts more attempts than its
\* provider allows, and no semaphore has more permits than it was made with.
TypeOK ==
  /\ pc \in [Requests -> PCs]
  /\ \A r \in Requests :
       /\ order[r] \in Seq(Models) /\ Len(order[r]) = Len(Plan[r])
       /\ at[r] \in 0 .. Len(order[r])
       /\ tries[r] \in 0 .. Retries[Target(r)]
  /\ status \in [Requests -> Statuses \cup Errors]
  /\ embedded \in [Requests -> BOOLEAN]
  /\ hit \in [Requests -> Models \cup {NoModel}]
  /\ permit \in [Requests -> Limited \cup {NoProvider}]
  /\ free \in [Limited -> Nat] /\ \A p \in Limited : free[p] <= MaxConcurrency[p]
  /\ ledger \in Ledgers
  /\ cache \subseteq Models
  /\ sticky \in [Keys -> Models \cup {NoModel}]
  /\ streamsActive \in 0 .. Cardinality(Requests)
  /\ finals \in [Requests -> 0 .. 2]
  /\ answer \in [Requests -> Answers]

\* Whatever fails, is cancelled or fails over, a provider's permits are those
\* that are free and those that requests hold (acquire_permit, ProviderResponse).
PermitsConserved ==
  \A p \in Limited :
    free[p] + Cardinality({r \in Requests : permit[r] = p}) = MaxConcurrency[p]

\* A limited provider is never used without its permit, from the first attempt
\* through every retry to the last byte of the body, and a request never holds
\* the permit of a provider it is not using.
HeldThroughBody ==
  \A r \in Requests :
    permit[r] = IF pc[r] \in Connected /\ Target(r) \in Limited THEN Target(r) ELSE NoProvider

\* No permit is lost, doubled, kept too long or given back too soon.
PermitsSound == PermitsConserved /\ HeldThroughBody

\* The upstream is asked anything for a request, its query's embedding
\* included, only after one reservation, and nothing charges it a second time
\* (docs/usage.md: "exactly once before any upstream dispatch").
ReservedOnce ==
  \A r \in Requests :
    /\ Len(charged[r]) <= 1
    /\ (\E a \in sent : a[1] = r) => charged[r] # <<>>

\* A client of an automatic route is told of a transient status or of a
\* transport error only when every model of its plan has had its turn, also
\* when sticky routing changed their order.
ErrorIsFinal ==
  \A r \in Automatic :
    answer[r] \in {"transient", "transport_error"} =>
      /\ at[r] = Len(order[r])
      /\ \A i \in DOMAIN Plan[r] : Plan[r][i] \in Candidates(r)

\* A response that is read to its end, or fails, is one final outcome in the
\* metrics, one from the cache or refused by the budget is none, and one the
\* client did not wait for at most one.
FinalOnce ==
  \A r \in Requests :
    pc[r] = "done" =>
      CASE answer[r] \in {"hit", "over_budget"} -> finals[r] = 0
        [] answer[r] = "gone" -> finals[r] <= 1
        [] OTHER -> finals[r] = 1

\* streams_active is the number of streams that are open.
StreamGauge == streamsActive = Cardinality({r \in Requests : pc[r] = "stream"})

\* A request goes on to its next candidate after a timeout or a transient
\* status only when its provider has had every attempt its policy allows.
FailoverAfterPolicy ==
  [][\A r \in Requests :
       at[r] > 0 /\ at'[r] > at[r] /\ status'[r] \in {"timeout", "transient"} =>
         \A n \in 0 .. Retries[Target(r)] : <<r, at[r], n>> \in sent']_vars

\* Retries, queues and failover end: again and again no request is under way
\* (each arrives once, so every one that does is answered).
Answered == []<>(\A r \in Requests : pc[r] \in {"new", "done"})

=============================================================================
