# A verification of autohand-router

`autohand-router` is a proxy in front of several model providers.  It classifies
a request, scores the configured models, and sends the request to the best of
them, with retries, failover, budgets, caches and background evaluations around
that call.  This directory holds TLA+ models of the parts where concurrency,
failure and ordering decide whether it is right, the TLC runs that check them on
small instances, and the theorems that hold for every instance.

Paths below are relative to the crate: `health.rs` is `src/src/health.rs`.

    tlc -config Health.cfg ProviderHealth       # likewise for the runs listed below
    tlapm OperationProofs.tla

## 1. The system

| Component | State | Operations | What is hard, and what must hold |
|---|---|---|---|
| Ingress (`IngressController`, `request_context` in `server.rs`) | a rate window per credential, admission permits, a queue | `check_rate`, `acquire`, body limits and timeouts | a clock read before the mutex, permits that race timeouts, clients that leave. No permit is lost; the limit is neither passed nor applied too early; everybody gets an answer |
| Classification (`classifier.rs`) | counters | heuristics over term counts, a judge asked of a model, fallback | a judge that answers late, wrongly, or not; a model name with white space |
| Routing engine (`router.rs`) and the handlers before dispatch (`server.rs`) | none: configuration, the health penalties of the moment | score, filter, order, fall back; safety preflight; eligibility | five filters in three files that must agree; ties; exclusions as penalties. Every planned model can serve, none that can is forgotten, the best comes first |
| Dispatch (`dispatch_*`, `upstream_response`, stream observer in `server.rs`; `provider.rs`) | per request: candidates, attempt, permit, response; shared: budget, cache, sticky routes, permits, metrics | sticky order, reserve, embed, look up, send with retries, fail over, read or stream the body, store | cancellation at any await, permits that travel with responses, two places to reserve, final outcomes counted once, failover only after the policy is exhausted |
| Provider adapters and stream usage parser (`provider.rs`, `StreamingUsageParser`) | partial line and event | convert a request, convert an answer, `push`, `finish` | nothing asked for is lost in conversion; usage does not depend on how a stream is cut |
| Provider health (`health.rs`; sampler and `/v1/router/providers` in `server.rs`) | per provider: circuit (state, failures, opened at, probe flag) and last observation | `should_probe`, `record`, `observation`, `snapshot`; probes by a sampler and by any number of status requests; records by live dispatches | three kinds of writers between whose calls the lock is released; probes that time out or are cancelled. One half-open probe at a time; circuit, observation and penalty agree; circuits recover |
| File state (`file_state.rs`) | a file, its lock file, temporary files, a pool of blocking permits | `BlockingFileGate::run`, `FileLeaseLock::acquire`, `atomic_write` | several processes, callers that go away, I/O errors at each step, crashes, power loss. Every operation is one atomic read-modify-write; a write reported done is durable |
| Budget (`accounting.rs`) | use per scope and in total, in memory or in a file | `reserve_scoped`, `snapshot`, migration of files without scopes | lost updates, limits under concurrency, saturation |
| Semantic cache (`semantic_cache.rs`), sticky store (`sticky.rs`) | entries or routes with expiry, in memory or in a file | lookup, record, prune; get, record | entries outlive the process and the configuration that made them. An answer is served only for the same conversation, while it is fresh, from a model the request may go to; a conversation keeps its model |
| Configuration (`config.rs`) | none | validate, `find_model`, defaults | names that are trimmed here and not there; whatever passes validation must resolve at run time |
| Background evaluations (`BackgroundTasks`, `spawn_shadow_eval`) | two semaphores, an active count, a `Notify` | `try_start`, `enter`, drop, `drain` | lost wakeups, order in which permits are dropped |
| Shutdown (`serve`, `runtime_main` in `main.rs`) | stage, deadlines | signal, stop the server, drain, flush, return, drop the runtime | anything may hang; nothing recorded is lost; the process ends unless a blocking thread hangs |
| JSONL writer (`jsonl_writer.rs`; used by `telemetry.rs` and `shadow_eval.rs`) | bounded channel, worker, rotated files, counters | `try_write`, append and rotate, `flush` | full channel, a rotation that fails half way, flush behind records, counters read while they change |
| Conformance matrix and promotion gate (`conformance.rs`, `promotion.rs`, `config.rs` at start) | an artifact file | probe all pairs, write, judge against a configuration, load | evidence, configuration and time change between the steps: what is promoted was proved live |
| Deployment gate (`deployment_gate.rs`) | counters of a deployed router, a slot counter, a budget file | scrape, workload, scrape, contend on the ledger, rolling restart | another process may restart between scrapes; workers share a counter; lost updates must be found |
| Evaluation tools (`eval.rs`, `load.rs`, `evidence.rs`; the winner of `shadow_eval.rs`) | none: datasets and report files | evaluate, split, calibrate, optimize; load test; bundle and validate evidence | sequential, but arithmetic at its edges: an empty split, a missing sample, a file from another run. A gate must not pass on nothing, and a bundle that passes is whole |
| Metrics, status and OpenAPI endpoints; classifier, stream and runtime gates | counters, or none | render, replay, report | sequential; see section 5 |

How they meet: `request_context` admits a request; its handler screens it, has it
classified, asks the routing engine for candidates with the health penalties of
the moment, and filters them once more.  Dispatch then asks the sticky store and
the cache, reserves in the budget, and calls the provider client, whose adapters
convert request and answer.  Every outcome is recorded into provider health,
which routing reads at the next request.  The file-backed budget, cache and
sticky store go through file state and share its permits.  A finished answer may
start a background evaluation, which calls providers again and ends in the JSONL
writer; shutdown waits for both.  The gates run in processes of their own and see
the router through its configuration file, its artifact and its HTTP interface.

## 2. The modules

| Module | Models |
|---|---|
| `Ingress` | `request_context` and `IngressController` |
| `Classification`, `Scoring`, `Routing` | `classifier.rs` and `router.rs` as operators, without state |
| `Planning` | the handlers of all endpoints from a parsed request to the plan that dispatch follows; uses `Routing` |
| `Dispatch` | requests through `dispatch_chat`, `upstream_response`, `ProviderClient::send_*`; `Budget` for its ledger |
| `Adapters`, `Exchange` | one chat exchange: the request as an adapter converts it, the answer whole or in chunks, the usage found in it |
| `ProviderHealth` | `health.rs` with the sampler, status requests and dispatches as its concurrent writers |
| `AtomicStore` | what a file-backed store promises: one atomic read-modify-write per operation, and *ok* only for stable writes |
| `FileStore` | how `file_state.rs` does it: permits, lock, read, temporary file, sync, rename, directory sync, cleanup, crashes; refines `AtomicStore` |
| `Budget`, `FileLedger` | the arithmetic of `accounting.rs`, and `FileStore` with it as its operation |
| `Configuration` | validation of a configuration, and how the program looks up what it names; uses `Adapters` |
| `Requests` | what the handlers read in a request for cache, sticky routes and streaming; uses `Configuration` |
| `Stores` | semantic cache and sticky routes under requests, time, restarts and edits of the configuration; uses `Requests` |
| `Shutdown`, `Journal` | background evaluations, `serve` and the writer's channel; then the writer's files and counters over the steps of `Shutdown`, which it refines |
| `Conformance`, `Promotion` | what a matrix reports and what a start makes of it; matrix, gate, start, edits and time |
| `Deployment` | `deployment-live-gate` against a router that it does not control |
| `Evaluation`, `Evidence`, `ShadowEval` | `eval.rs`; `load.rs` and `evidence.rs`; what `shadow_eval.rs` makes of two answers; operators, without state |
| `FileStoreProofs`, `FileLedgerProofs`, `DispatchProofs`, `PlanningProofs`, `ShutdownProofs`, `IngressProofs` | the theorems about `FileStore`, `FileLedger`, `Dispatch`, `Planning`, `Shutdown` with `Journal`, `Ingress` |
| `OperationProofs` | the theorems about `ProviderHealth`, `Promotion` and `Deployment`, whose definitions have names of their own (`PromotionSpec`) |
| `StoresProofs` | the theorems about `Stores` and `Exchange` |
| `MCQuality` | the reference definitions that TLC compares the three modules of operators with, over all small inputs |
| `MCFileLedger`, `MCDispatch`, `MCPlanning`, `MCIngress`, `MCExchange`, `MCStores`, `MCPromotion`, `MCDeployment` | values for TLC |

Definitions named `X_Something` with a comment starting *Mutant* are not part of
any specification.  Each is `X` with a plausible mistake in it, next to the `X`
it spoils; replacing `X` by it makes the property it was written for fail, which
is how we know that the property can fail.  `PROJECT.json` pairs them.

### Ingress

`pc[r]` is where `request_context` is with a request: `rate` between reading the
clock and taking the mutex of the windows, then the waits for a permit (`queue`),
for the body (`body`) or for the rest of a body that is refused (`drain`).  The
permit goes with the frame of `request_context`, so `Respond` releases it also
when the response is still streamed.  Clients may leave at any wait; time is in
ticks, and a timer fires at its tick.

### Classification, Scoring, Routing, Planning

A prompt is the numbers that the classifier counts in a text: `PromptFeatures` and
the hits of each list of terms.  Matching text against those lists is left out,
all that is computed from the counts is there.  The scores are `f32` in the code
and integers here, in units of 1/9900 in which words, terms and hundredths are
exact; a product is rounded down.  So a property of the scores may compare them
but not rely on the last digit.

`Planning` follows one request: handlers of different requests share nothing
before dispatch but the health penalties, and those change at any step
(`HealthChanges`).  Its program counter names the awaits: the classifier
(`classify`), telemetry (`settle`).  `MCPlanning` composes all four modules: what
the classifier may come to see of a prompt (`Classify`: the heuristics' labels,
or those of a judge that parse) gives the merits, latency and circuit give the
penalties.

### Dispatch

`pc[r]` names the awaits of a request: `reserve` (ledger), `lookup` (cache),
`queue` (provider permit), `attempt`, `backoff`, `select` (sticky record),
`body`, `store`, `stream`.  Candidate 0 is the call for the query's embedding,
which goes through the same client.  `order[r]` is the plan after
`apply_sticky_routing`; the plan itself is a constant, which `Planning` produces.
`sent` and `charged` are history variables.  `MCDispatch` derives from `Requests`
which requests stream, look into the cache and have a sticky key.

### Adapters and Exchange

An answer in a stream is a sequence of atoms (the two halves of `data:`, line
ends, pieces of JSON, the two bytes of a character) and arrives in chunks cut
anywhere between two of them; `UsageOfStream` reads the same stream as a whole,
by the positions of its lines and events, without a state machine.  The four
callers of the provider client differ in what they do with an answer and in their
deadline.

The body of a stream is polled by the client's connection (`polled`), which stops when
the client reads nothing (`ClientStalls`).  Each poll for a chunk has an idle timer of
its own: a chunk, or a comment line that a provider may send for ever
(`CommentArrives`), begins another (`waited`), and there is no deadline over all.

A `response_format` is a record of what `ollama_format` looks at, its type and the two
places of a schema, and of the rest, which it leaves out.

### ProviderHealth

State: `circuitState`, `consecutiveFailures`, `probeInFlight` and `sinceOpened`
are the fields of `ProviderCircuit`; `observed` and `sinceObserved` those of the
observation that anything reads.  Every comparison the code makes is of *now*
with a stored second plus a constant, so the model stores ages, capped where the
comparison can no longer change.  `phase[c][p]` is where checker `c` is in
`check_providers_concurrently` with provider `p`: the futures of one run belong
to one task and interleave only where they await (`Yielded`), but different
checkers and dispatches interleave at each acquisition of the lock, so denial,
re-reading the observation and recording are three steps.

Actions: `StartChecks` (sampler loop, or a status request), `BeginProbe` and
`Deny` (`should_probe`), `AnswerDenied`, `RecordDenied`, `EndProbe`,
`EndProbeUnknown`, `RecordUnknown` (the rest of the future), `Cancel` (the client
of a status request leaves), `Dispatched` (`record_provider_dispatch_*`), `Tick`.

### FileStore, AtomicStore, FileLedger

An operation `r` goes new, queued (waits for a permit), locking, locked, owned
(owner record written), writing, written, synced, renamed, finished, returning,
done: the order of `acquire`, `reserve_blocking` and `atomic_write`.  `content`
is what processes see, `stable` what a power loss leaves.  `Fail` may replace any
step and does what unwinding does (`TempFileCleanup`, `Drop`); after the rename
it returns an error although the write has happened.  `Abandon` drops the caller:
a job that is already running goes on.  `Crash` and `PowerLoss` are the
environment's.  `remove_file` is assumed to work when it is called.

`applied`, `stableApplied` and `declined` are history variables with which
`AtomicStore` is stated; the refinement mapping is the identity on what the two
share.  `FileLedger` supplies the operation: `Grants` and `Written` are
`reserve_blocking` between lock and unlock, `Migrated` the reading of old files.

### Configuration, Requests, Stores

`Valid` has one part for each `validate` function, over a record with the fields
that a rule is about; numbers that must only be positive are functions from their
names.  A name is a model value, and `Trimmed[x]` what `trim` makes of it: the code
trims in some places and not in others, and so do the operators.

`Stores` has a handler's locals in `job[s]` and each store as what it holds.  A file
operation is atomic here, or it fails with or without its effect: that is what
`FileStore` provides.  `Stop` takes what is in memory, `Start` reads a
configuration that may be another one.  A cached body is the request that it
answers, so that serving it can be compared with the request it is served to.
`hit`, `prior` and `turn` are history.

### Shutdown and Journal

Each step is what happens between two awaits or, where threads share an atomic
or a semaphore, one operation on it: `TryStart` and `Count`, and
`Leave`, `Notify`, `ReleasePending`, `ReleaseSlot`, the order in which an
evaluation's permits drop.  `seen` is the number of `notify_waiters` calls when
`drain` made its `Notified`, which completes with the next one.  `Tick` counts
time from the signal and cannot pass the deadline of the wait that `serve` is in.
When `serve` has returned (`Return`), `runtime_main` drops the runtime, which waits
for the blocking threads: the worker's append, and the jobs of the file stores
(`jobs`, of which a handler may start one and be cancelled).  Only then the process
ends (`Exit`).

`Journal` conjoins to these steps what they do to the files and counters: rotation
is a sequence of renames of which any may fail, and the count of an accepted
record follows its `try_send`.

### Conformance, Promotion, Deployment

A pair of model and provider answers each probe well or not, and a chat answer that
is well may still have a flaw (`Flaws`): no JSON content type, no usage.  A report says
what was configured, attempted and passing, as `conformance.rs` fills it in.  Matrix,
gate and loader look at different flaws: `ChatPasses` at both, the gate at the pass of
the report, the loader (`Verified`) at usage only, and in schema 1 at none.  `Promotion`
runs matrix, gate and start as processes that read the configuration at their own
moments, while an editor changes it or pastes artifacts together.  `shown`
is the history of good answers with their flaws.  `Deployment` has the gate's stages
in order, the target with its other clients and restarts beside it, and a ledger that
works or is `defective`: it loses updates, drops the lock, accepts a corrupted file or
forgets what is in it.  The probe of the ledger is all that
`run_multi_process_file_probe_blocking` does: contention behind a stale lock
(`EndContention`), one worker on a corrupted file (`CorruptWorker`), one on the file
as it was (`FreshWorker`), each of which may fail (`WorkerFails`), and the seven
conjuncts of its `pass` (`Exact`).

### Evaluation, Evidence, ShadowEval

A routed example is what the reports count of it: which labels matched, what it
cost, whether it has the expected model.  A dataset, a run and a file of a bundle
are data; a file may be there, absent, torn or from another bundle.  What is
modelled is every decision: pass or fail, which side of a split, which candidate
of a grid is kept, which bundle validates, which answer won.  `MCQuality` states
what each must be as a named assumption, which TLC evaluates over every input of
a small set when the run `promotion` starts.

## 3. The runs

| Run | Instance | States | Shows |
|---|---|---|---|
| `ingress` (`Ingress.cfg`, `MCIngress`) | 4 requests of 2 credentials and of none, limit 2 per window of 2 ticks, 1 permit, bodies of up to 3 chunks against a limit of 1 | 541,598 | `AdmissionConserved`; `RateExact`: at most twice the limit less one in any window of time, and nobody is refused who has not used the limit up; `AllLeave` |
| `planning` (`Planning.cfg`, `MCPlanning`) | 3 models of a strict native and a permissive provider, 6 prompts, 4 answers of a judge, 3 sets of weights, about 300 shapes of requests | 293,634 | `PlanServes`, `NoneForgotten`, `BestFirst`, `AsAsked` |
| `dispatch` (`Dispatch.cfg`, `MCDispatch`) | 3 requests, 2 models of 2 providers, one of which takes one request at a time and retries once; a stream; 2 requests with one sticky key; embeddings by that same provider; the ledger a file that may fail after it was charged | 592,752 | `PermitsSound`, `ReservedOnce`, `ErrorIsFinal`, `FinalOnce`, `FailoverAfterPolicy`; `Answered`: every request that arrives is answered |
| `exchange` (`Exchange.cfg`, `MCExchange`) | 3 adapters, 4 callers, 24 requests, 9 of them with formats, 5 streams in chunks of up to 5 atoms against a buffer of 8, comments between lines for ever | 4,743 | `UsageOfWhole`, `NothingElseLost`, `Settles`; before it, `StrictIsDiscarded` (finding 9) |
| `health` (`Health.cfg`, `ProviderHealth`) | 2 providers, one that cannot be probed, one probe slot; sampler and a status request, live dispatches | 69,533 | `SoleProbe`, `PenaltyMatchesCircuit`; `Recovers`, `HalfOpenResolves` |
| `health_short_ttl` (`HealthShortTtl.cfg`) | 1 provider, TTL shorter than the window | 45 | **violates** `Recovers` (finding 1) |
| `file_ledger` (`FileLedger.cfg`, `MCFileLedger`) | 3 reservations from 2 processes, 1 permit each, 1 crash, an old file, one limited dimension and one that saturates | 46,592 | `Atomicity`: `FileStore` refines `AtomicStore`; `OkIsDurable`, `LedgerExact`, `LedgerWithinLimits`; `Returns` |
| `stores` (`Stores.cfg`, `MCStores`) | 12 configurations of which 7 are invalid, 5 requests, both backends of both stores, 2 s | 575,435 | `ServedAlike`, `ServedFresh`, `StickyFollows`, `StartedResolves` |
| `shutdown` (`Journal.cfg`, `Journal`) | 2 evaluations, channel of 1, 1 job on a store, files of 1 line, 1 retained | 207,976 | `TasksSound`, `NothingLost`, `JournalKeeps`, `StatsExact`; `Exits`: after the signal `serve` returns, and the process ends unless a blocking thread is at work |
| `promotion` (`Promotion.cfg`, `MCPromotion`) | 2 pairs, 5 configurations, 1 matrix, 2 edits, evidence of up to 1 tick, two orders of the maps of one configuration | 1,218,327 | `PromotedIsLive`, `StartedIsShown`, `SamePrintIsPromoted`; before it, the assumptions of `MCQuality`: splits and gates are sound, an optimum is the best of its grid, percentiles bound their samples, a bundle that passes is whole, a failed answer never wins; and `FailedEntryLoads` (finding 8) |
| `promotion_order` (`PromotionOrder.cfg`, `MCPromotion`) | the same | about 10,000 | **violates** `FaultlessIsPromoted` (finding 7) |
| `deployment` (`Deployment.cfg`, `MCDeployment`) | 2 workers, 2 slots, 1 restart, counters of up to 2; 2 processes with 2 attempts each, limit 2, 1 storage error, a ledger with and without defects | 3,505,080 | `SlotsOnce`, `RejectionsSeen`, `ProbeFindsLoss` |

*Bounds, and why they are enough.*  Two requests contend for the one permit and a
third is what takes it meanwhile; two models make one failover and one last
candidate; a retry count of one has a first, a last and, by off-by-one, a missing
or an extra attempt.  Four requests of one credential fill two windows of a limit
of two.  Windows of two seconds or ticks have an inside, a boundary and an after; ages
stop at a cap, so a longer run adds no state.  Two processes and one permit each
make both the lock and the permit contended, and one crash reaches every
intermediate state of one operation with the others at any of theirs.  Two
evaluations are enough for one to be cut off while another records, for one record to
find the channel full, and for the other to rotate a file of one line.  (A flush behind
records in a longer channel is left to the proofs: `NothingIsLost`.)
Three models give a first, a tie and a remainder; what was learned of one of them
outweighs an exclusion, and a set of weights ties all of them.  Chunks of five
atoms against a buffer of eight cut every line, event and character, and overfill
the buffer.  Two workers on two slots meet at the shared counter and leave it in either
order; one more, or a third process, would take its turn as they do.  All limits of
requests, slots and evaluations are those of the instance only: the invariants among
these properties are proved for every number of them.  `dispatch` has one setting of the
cache, embeddings by a provider, in which the call for the embedding competes for the
permit; the order of lookup and reservation of a local hash is left to the proofs.
One request at a time is enough for `stores`, where
restarts and edits come between requests; that several of one conversation do no harm
is proved.  The configurations of `stores` change one thing each under the
entries and routes that are there: embedding model, backend, time to live, limits,
a reference.  What depends on numbers rather than on order is proved instead.

*`MaxTokens` is 7*: the context arithmetic saturates as `u32` does, and a model
whose window is the top of the range is what `PlanServes` excepts.  `MaxCount`
plays the part of 2^64 - 1 in the ledger.

*Symmetry* is used for the workers and processes of `deployment`, which has no
liveness property.

*Deadlock* is checked except where requests, operations, runs or time are finite
and simply end; there, liveness says that they end well, or the stages of a gate
are over.

*Fairness, and why the code justifies it.*
`Ingress`: the clock runs, tokio polls what is ready, handlers answer (`Dispatch`);
nothing is assumed of clients.
`ProviderHealth`: the clock runs, tokio polls ready futures, and the sampler loops
for ever; nothing makes a status request or a dispatch happen.
`FileStore`: blocking threads run and freed permits reach their waiters (tokio
semaphores are FIFO); lock acquisition may lose every race, and then times out.
`Dispatch`: handlers whose await is ready are polled; every await before the body
has a deadline in the code; that an upstream ends the body of its answer, and that
its client reads it or leaves, is assumed there, because the code does not see to it.
`Exchange`: conversion, the timeout of the head and the deadline of the two callers
that have one; time passes while a body is polled, and an idle timer that ran out fires
unless a chunk comes first or the client keeps the body from being polled.  Providers
may be silent or keep sending, and nobody has to read.  So `Settles` excepts three
exchanges that the code does not end: a buffered body outside of a deadline, a stream
whose chunks keep coming, and a client that stops reading without leaving.
`Shutdown`: only `serve` is polled and only its timers fire, and the runtime is
dropped once its blocking threads are done; requests, evaluations, jobs and the disk may
hang for ever.  `Exits` says what follows: `serve` returns, and the process has ended or
a blocking thread is still at work, for which the code waits without limit.

### Findings

Findings 1, 7, 8 and 9 have a run; the others were met while reading the code for the
models, which have the behaviour of the code.

1. `server.rs:2376`: a check that an open circuit denies records an *error* if
   the last observation is stale, and that restarts the open window.  If
   `observation_ttl_ms` is shorter than `circuit_open_ms` and checks keep coming,
   no half-open probe is ever made.  (`docs/usage.md:170`: "after
   `circuit_open_ms`, exactly one half-open probe is admitted".)  The defaults,
   90 s and 30 s, do not show it.
2. `health.rs:109`: a provider without `health_path` answers *unknown*, which
   counts as a failure and opens its circuit although nothing failed.
3. `server.rs:4626`: the sticky route is recorded for any final response, errors
   included, and before its body (`docs/router-improvements-audit.md:381`).
4. `server.rs:1310`: each stage of a shutdown has the whole window, so an exit may
   take three (`docs/usage.md:281`: "within the configured shutdown window").  After
   that the runtime is dropped (`main.rs:375`), which waits without limit for an append
   or another job on a blocking thread.
5. `server.rs:2676`: a forced model that its native adapter cannot serve is dropped
   from the plan in silence (`docs/router-improvements-audit.md:153`).
6. `server.rs:1530`: the admission permit ends with the head of a response, so
   streams are not bounded by it (`docs/usage.md:138`).
7. `conformance.rs:1429`: the fingerprint of a configuration depends on the order
   in which hash maps iterate, so valid evidence may be refused (`promotion_order`;
   `docs/live-evidence.md:11`, `:18`).  What the gate refuses has a fault, or another
   fingerprint: `SamePrintIsPromoted`.
8. `conformance.rs:82`: a start with an artifact looks neither at the content type of a
   chat answer nor at the pass of a report, and in schema 1 not at usage, so a router
   starts on an entry that the matrix failed (`FailedEntryLoads` of `MCPromotion`, which
   TLC evaluates; `docs/usage.md:382`: "Every declared endpoint for every configured
   provider/model pair must have a passing matrix entry").  What it does see to is `StartedIsShown`.
9. `provider.rs:721`, `provider.rs:665`: of a `response_format`, the native adapter of
   Ollama sends the type or one schema and drops the rest, `name`, `strict` and
   `description` included; and a top-level setting replaces the same setting in a
   request's own `options` (`StrictIsDiscarded` of `MCExchange`; `docs/usage.md:144`:
   "never silently discarded").  Nothing else is lost: `NothingElseLost`.
10. `classifier.rs:79`: the classifier has a provider client, and permits, of its own
   (`docs/production-readiness.md:44`).
11. `server.rs:3029`, `classifier.rs:103`: names that are validated trimmed and
    looked up as written (`docs/usage.md:227`); `StartedResolves` excepts them.
12. `classifier.rs:988`: an answer without content is not counted as invalid output,
    because no error has the text that is looked for.

Smaller things that the models have as the code does.  A disabled cache with a
file backend and no path passes validation, and `AppState::from_config` refuses
it.  The shadow judge is asked whenever a model is set, also when it is not enabled.
The default model after scoring (`README.md:45`) is never reached: a default that
would pass is a candidate.  A pair without chat never reports versions.  A start
with an artifact looks neither at its age nor at its fingerprint.  A restart of the
target hides rejections from the deployment gate.  `"usage": null` counts as
zero usage, a stream that is cancelled records none, and a chunk larger than the
parser's buffer is dropped.  The classifier's deadline covers the head of an
OpenAI answer and not its body.  A judge that does not mention safety calls a
prompt safe; the preflight looks at the heuristics alone.  Sticky keys from `user`
and from `session_id` are one namespace, and not scoped by credential.  A
cache lookup reads the clock before the file lock, so that an entry may be served
late by the time it waited.  A record written after a failed write follows its
fragment on the same line; a rotation that fails half way may push out a file
early.  `scoring.latency_weight` and `scoring.health_weight` are validated and not
used: the weights of the policies are.  Calibration may return thresholds that are
less accurate than the configured ones, which it never evaluates
(`CalibrationMayBeWorse`); optimization writes its configuration whatever the
holdout says.  A split goes by a hash of the input and cuts at a
count, so that equal inputs may be on both sides; of fewer than five examples all
are both training and holdout.  The verdict of a judging model is taken also when the shadow
answer had failed.

## 4. The proofs

Checked by TLAPS for every value of the constants that satisfies the named
assumptions (the `ASSUME`s of the modules that it is about), which
say what configuration validation guarantees and what the callers pass.  TLC
evaluates each of them for the values of its run.  Three say more than ranges:
`CacheAssumption` (a chat turn has a role and a content, and how similar two prompts
are is a function), `ConformanceAssumption` (a model supports nothing that its
adapter cannot send, `config.rs:1021`) and `ExchangeAssumption` (a request is an
object: each known field has a value or none; the classifier and the judge ask for no
stream, and an evaluation follows an answer that was none, `server.rs:4370`).

The theorems state every invariant and every action property that a passing run
checks.

*ProviderHealth.*  `SoleProbe` is not inductive: `record` clears the probe flag
whoever calls it, so the flag does not say that nobody is probing.  What does is
time (`ProbesPredateOpening`): a probe that is running while its circuit is open
is at least as old as the opening, so once the circuit has been open for
`OpenSecs` every such probe has passed its timeout if `ProbeSecs < OpenSecs`.
`OpenIsPenalized` likewise needs that an open circuit's observation is no older
than the opening (`ObservedSinceOpening`).

*FileStore.*  The invariant says that the operations between lock and unlock are
exactly the lock's holder, so that two of them cannot be between read and rename;
hence a buffer equals the content; hence `Rename` is `AtomicStore`'s `Apply`.
`Implements` maps each action to an abstract step or a stutter: `Read` to
`Decline` or nothing, `Rename` to `Apply`, `SyncDir` to `Stabilize`, `Deliver` and
`Abandon` to `Reply`, crashes to `Outage`, the rest to a stutter.

*FileLedger.*  Its steps are steps of the store `FileStoreProofs` is about, with
Budget's operation, so it inherits the invariant and the refinement.  Limits hold
because what an operation that got past its check will
write is within the limits, and the buffer it checked is still the content.
`LedgerIsExact`: the content is the legacy ledger with the sum of the committed
reservations added, and so is the stable content with those that a power loss keeps.
The sums are the folds of the community modules, whose recursive function is shown to
exist and to be unique on the subsets of a finite set (`IterationExists`,
`IterationUnique`): of the sets for which it fails, one has no smaller one, and
`Minimal` gives it.  That is induction without a predicate as a parameter.

*Dispatch.*  What a request shares with others is two counts: free permits, and
open streams.  Everything else is local, and fixed by where the request is:
what it holds (`Held`), was charged (`ChargedAt`), has counted (`CountedAt`), has
tried (`Tried`) and has been told (`ToldAt`).  So the proof is of one request's
steps; `Others` says that they touch no other's state.  `PermitsConserved` is not
inductive without `Held`: that an acquisition adds a holder needs that a queued
request holds nothing.  `ReservedOnce` needs to know which requests reach the
cache already charged, those whose embedding a provider computes.  `ErrorIsFinal`
needs that the sticky swap permutes the plan (`PreferredPermutes`).

*Planning.*  The work is in what a route is (`RouteFits`): its model is selectable
and allowed, nothing selectable among its candidates scores better, and it is a
fallback only for a prompt that asks for information (`RouteFound`, from the
definition of `max_by` alone: any scores, any ties, any penalties).  That is what
`Settle` needs for the plan to serve and to be best first; `Waiting` says that only
automatic requests get there.  `NoModelForgotten` goes the other way, through the
same five filters: a model that can serve passes each of them (`ServesPasses`,
`CandidatesComplete`), so a route has it among its candidates (`RouteComplete`), the
order keeps it (`OrderingComplete`, by counting), and who refuses had none
(`Undecided`).

*Shutdown and Journal.*  Permits and the active count are cardinalities of sets of
places (`MoveCounts`).  `NoLostWakeup` holds because an evaluation that lowers the
count has its notification ahead of it (`At({"left"})`).  For `NothingLost`: once
the server has stopped by itself no request is in a handler; when drain then finds
nothing active nothing can become active (`StaysOver`), so the flush is the last
in the channel and its answer comes after every record (`FlushLast`, `Kept`).
`JournalRefines`: every step of `Journal` is one of `Shutdown` or none, so these
theorems hold of it.  For `StatsExact` each counter counts a set: what is sent and
not yet counted belongs to an evaluation that has not left its handler, and a
record is in the channel, in the worker's hands, written or lost (`OnTheWay`).
`RecordsKept` (`FilesInv`): a record is at one place in the files, and no further back
than rotations have begun since it was written.  That is inductive because of the
order of the renames, oldest first: when one fails, those done have moved each file
into a gap (`RenamedFrom`), so none is overwritten but the oldest.

*Ingress.*  `AdmissionConserved` is inductive once it is known that only a request
that is not public gets to the queue (`PermitInv`): then entering adds a holder, and
each way out removes one or had none.  `RateExact` needs the books of a
credential (`Books`): who passed is those of the current window (`Current`) and those
before it (`Earlier`).  A fixed window lets a burst at its end meet one at its
beginning, so the bound is of two windows; that it is twice the limit *less one* is
because a window of time that touches both cannot have the request that began the
first, or else has not the one that began the second.  The clock is read before
the mutex is taken, so a member of a window may have a reading from a tick before it
began; `Tick`'s guard, that `check_rate` takes less than a tick, keeps it to one.

*Stores.*  `WhatStartsResolves`: handles are unique, so the first model that has an
id is its model (`FindsById`), and the rest is what each `validate` asks, compared
with how the name is looked up later.  `ConversationsStay`: a route that was recorded
last and undisturbed is still in its store while it lives (`Kept`), through purges,
records for other keys, failed file operations and restarts; and whatever the plan,
`Preferred` brings the model or its provider to the front without losing one
(`PreferredHeads`).  `HitsAreAlike` and `HitsAreFresh` (`CacheInv`): every entry, of
whatever backend and from before whatever restart, is an answer to a request that the
cache may keep, under the scope of that request; a handler that looks has the
embedding of its own prompt; and a scope tells all of a request but its last prompt
(`ScopeTells`).  `Pruned` keeps entries by position, so that an entry
that survived is one that was stored (`PrunedLives`).

*Promotion.*  `Grounded`: whatever is edited, cut, pasted or aged, each report in an
artifact is of probes that were live, with the flaws they had, under the configuration
whose fingerprint the artifact has, since its matrix began.  Then what a gate checks of
a report is what its pair promises, and what a start reads off the catalog was shown,
with no flaw that the loader would have seen.  `NothingFaultlessIsRefused`: an artifact
has the fingerprint of the gate only if its matrix had the same configuration, and under
that one a passing report has all that the gate asks; whatever the orders of the maps.

*Deployment.*  `Window`: until the second scrape the counter of rejections exceeds the
first scrape exactly when something was rejected, unless a restart reset it.
`Shared`: a slot below the shared counter is with one worker or executed once, the
others are untouched, and a worker that stops found none left.  `Reckoned`: the ledger
equals what was granted as long as no update was lost and is less for ever after, since
a count that was read, and is stale, is below what was granted since; the attempts
ahead are counted as a set (`Ahead`), so at the end all were made, and
a probe that saw all of them granted up to the limit and no further saw a ledger that
lost none (`ExactWhenKept`).  A ledger that was kept and no error make the counts come out
(`PassWhenRight`), and the worker that comes anew then finds it full.

*Exchange.*  `SentAsAsked` (`Converted`): what was sent is the converted request, which
its adapter did not exclude; the rest compares, for each field, what excludes a request
with what is copied, and for a format what `FormatFails` excludes with what is left of it.  `UsageIsWhole`: whatever a stream holds and wherever it is cut.
The invariant (`Observed`, by way of `Reads`) relates the parser to the positions of the
stream it was given so far: the line in its buffer starts at some `a`, its event is
spelled, but for line ends, by the data at the positions `DataOf(s, a)`, and its usage is
that of the empty lines before `a`.  One atom keeps that (`AtomRead`: `NextData` and
`NextUsage` say what one line more does to the reference, `AddData` what it does to
the parser), hence every chunk (`ChunkRead`, from the recursion behind `FoldLeft`); it
does not depend on what follows (`PrefixRead`), and at the end what the parser finds is
the usage of the whole (`EndRead`).

*What is left to TLC.*  Liveness (`Recovers`, `HalfOpenResolves`, `Returns`, `Answered`,
`Exits`, `AllLeave`, `Settles`), with its fairness and `ENABLED`.  The assumptions of
`MCQuality`, which compare algorithms with their definitions on small inputs; and the
other components' models of data.

| Module | Theorems |
|---|---|
| `OperationProofs` | `TypeCorrect`, `SoleProbeHolds`, `CircuitCoherence`, `PenaltyAgreement`, `OpenPenalized`; `PromotionIsLive`, `StartIsShown`, `NothingFaultlessIsRefused`; `NoRejectionHidden`, `EverySlotOnce`, `LossIsFound` |
| `FileStoreProofs` | `TypeCorrect`, `NoStaleBuffers`, `OkDurable`, `DataBeforeNames`, `TempsRemoved`, `Implements` |
| `FileLedgerProofs` | `LedgerImplements`, `ReservedIsDurable`, `NoLostUpdate`, `LimitsHold`, `LedgerIsExact` |
| `DispatchProofs` | `TypeCorrect`, `PermitsAreConserved`, `PermitHeld`, `PermitsAreSound`, `ReservedExactlyOnce`, `ErrorsAreFinal`, `CountedOnce`, `GaugeIsRight`, `PolicyExhausted` |
| `PlanningProofs` | `TypeCorrect`, `PlansServe`, `PlansBestFirst`, `NamedModelAlone`, `DefaultOnlyAsks`, `AnswersObeyFilters`, `AskedFor`, `NoModelForgotten` |
| `ShutdownProofs` | `TypeCorrect`, `TasksCounted`, `WakeupKept`, `TasksAreSound`, `NothingIsLost`, `JournalRefines`, `CountersExact`, `RecordsKept` |
| `IngressProofs` | `PermitsConserved`, `RatesAreExact` |
| `StoresProofs` | `WhatStartsResolves`, `ConversationsStay`, `HitsAreAlike`, `HitsAreFresh`; `SentAsAsked`, `UsageIsWhole` |

## 5. What is not modelled, and the plan

*Not modelled, and why.*

- The metrics, status and OpenAPI endpoints render counters; the counters that mean
  something are in `Dispatch` (final outcomes, open streams), `Journal` (records) and
  `Deployment` (the queue's).
- `config_schema.rs` and parsing of configuration, requests and datasets: a grammar,
  not a behaviour.  Of validation, a range that one comparison checks is one of the
  named numbers of `Configuration`.
- The command line apart from the start of a server and the commands of the gates
  and evaluations: it parses arguments and prints.
- `classifier_gate.rs`, `stream_gate.rs`, `runtime_gate.rs` and the fixtures of the
  other gates start a router and send it a fixed sequence of requests; what they
  look for is in `Classification`, `Exchange`, `Dispatch` and `Shutdown`.
- `judge.rs`, the prompts of judging models, the texts of errors and reasons.
- Text and numbers: which terms a text contains, estimates of tokens, vectors and
  their similarity, `Retry-After` and backoff, prices in micros, rounding of `f32`.
  Each is an input here, of which the models take every value of a small set.
- Windows, where a directory cannot be synced.

*A hazard that no property covers.*  A failed dispatch restarts the window of an open
circuit (`health.rs:115`), so that traffic which keeps reaching a provider may
postpone its probe for ever.  The code lets it happen; `Recovers` is stated for
providers that no dispatch reaches.

*Plan.*  In this order:

1. A composition of `Dispatch` with `ProviderHealth`: dispatches that record into
   the circuits that the next plan reads.
2. The stream gate, which checks the router's stream handling with clients that
   leave, as a client of `Dispatch`.
