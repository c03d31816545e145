------------------------------ MODULE Deployment ------------------------------
(***************************************************************************)
(* deployment-live-gate (src/src/deployment_gate.rs) against a deployed     *)
(* router: identity, a workload of concurrent workers between two scrapes   *)
(* of the queue counters, identity again, then processes of its own that    *)
(* contend on one budget file, and a rolling restart of two replicas.        *)
(*                                                                         *)
(* The target is not the gate's: it may restart, which sets its counters to  *)
(* zero, or be replaced by something else than the candidate at any time;     *)
(* and other clients use its queue.  The ledger the processes contend on may  *)
(* be one that loses updates, accepts a corrupted file or forgets what is in   *)
(* it, which is what the probe is there to find; and a process may fail.       *)
(***************************************************************************)
EXTENDS Naturals, FiniteSets, FiniteSetsExt

CONSTANTS
  Workers,         \* concurrency
  TotalSlots,      \* duration * requests_per_second
  Processes,       \* accounting_processes
  Limit,           \* accounting_limit
  Restarts,        \* bound on what happens to the target
  MaxQueue,        \* bound on each of its counters
  Defective,       \* whether the ledger is one with defects: FALSE, TRUE or either
  StorageErrors         \* bound on the reservations that fail

ASSUME DeploymentAssumption ==
  /\ IsFiniteSet(Workers) /\ Workers # {}
  /\ IsFiniteSet(Processes) /\ Cardinality(Processes) >= 2
  /\ TotalSlots \in Nat \ {0} /\ Limit \in Nat /\ Limit >= Cardinality(Processes)
  /\ Restarts \in Nat /\ MaxQueue \in Nat /\ StorageErrors \in Nat
  /\ Defective \subseteq BOOLEAN

Slots == 0 .. TotalSlots - 1
\* limit * 2, divided up
Attempts == (2 * Limit + Cardinality(Processes) - 1) \div Cardinality(Processes)

VARIABLES
  pc,
  target,     \* the candidate?, and its admitted and rejected counters
  restarts,
  scrape,     \* the counters as the gate read them before the workload
  worker,     \* "free", "done", or "busy" with the slot it took
  next,       \* next_slot
  served,     \* served[s]: how often s was executed with success, or failed
  report,    \* what the parts of the report say so far
  defective, ledger, process, tally, lock,
  corrupt,    \* what the worker on the corrupted ledger reported, and left of it
  fresh,      \* what the worker on the restored ledger reported, and left of it
  rejected, reset, lost   \* history: of the window, and of the ledger

targets == <<target, restarts, rejected, reset>>
workload == <<worker, next, served>>
accounting == <<defective, ledger, process, tally, lock, corrupt, fresh, lost>>
deploymentVars == <<pc, scrape, report, targets, workload, accounting>>

Free == [at |-> "free", slot |-> 0]
Taken(slot) == [at |-> IF slot < TotalSlots THEN "busy" ELSE "done", slot |-> slot]
Counters == [admitted : 0 .. MaxQueue, rejected : 0 .. MaxQueue]
Zero == [admitted |-> 0, rejected |-> 0]
Outcomes == {"ok", "over", "error"}

DeploymentInit ==
  /\ pc = "preflight"
  /\ target \in [candidate : BOOLEAN, queue : Counters] /\ restarts = 0
  /\ rejected = FALSE /\ reset = FALSE
  /\ scrape = Zero /\ report = {}
  /\ worker = [w \in Workers |-> Free] /\ next = 0
  /\ served = [s \in Slots |-> [good |-> 0, bad |-> 0]]
  /\ defective \in Defective /\ lost = FALSE
  /\ ledger = 0 /\ tally = [ok |-> 0, over |-> 0, error |-> 0]
  /\ process = [p \in Processes |-> [left |-> Attempts, read |-> Limit]]
  /\ lock = TRUE
  /\ corrupt = [outcome |-> "ok", kept |-> FALSE] /\ fresh = [outcome |-> "ok", count |-> 0]
-----------------------------------------------------------------------------
\* The deployed router and its other clients, as long as the gate looks at it.
Scraped == pc \in {"preflight", "before", "warmup", "workload", "after"}
InWindow == pc \in {"warmup", "workload", "after"}
Queue ==
  /\ \/ /\ target.queue.admitted < MaxQueue
        /\ target' = [target EXCEPT !.queue.admitted = @ + 1] /\ UNCHANGED rejected
     \/ /\ target.queue.rejected < MaxQueue
        /\ target' = [target EXCEPT !.queue.rejected = @ + 1] /\ rejected' = (rejected \/ InWindow)
  /\ Scraped
  /\ UNCHANGED <<pc, scrape, report, restarts, reset, workload, accounting>>

Restart ==
  /\ restarts < Restarts /\ restarts' = restarts + 1 /\ Scraped
  /\ \E candidate \in BOOLEAN : target' = [candidate |-> candidate, queue |-> Zero]
  /\ reset' = (reset \/ InWindow)
  /\ UNCHANGED <<pc, scrape, report, rejected, workload, accounting>>

\* target_identity_evidence before anything else; preflight_failure_report.
Preflight ==
  /\ pc = "preflight"
  /\ pc' = IF target.candidate THEN "before" ELSE "failed"
  /\ UNCHANGED <<scrape, report, targets, workload, accounting>>

\* The first scrape of the queue.
ScrapeBefore ==
  /\ pc = "before"
  /\ scrape' = target.queue /\ pc' = "warmup"
  /\ UNCHANGED <<report, targets, workload, accounting>>

\* run_sustained_workload: one request of every scenario first, which must succeed.
Warmup ==
  /\ pc = "warmup" /\ pc' \in {"workload", "failed"}
  /\ UNCHANGED <<scrape, report, targets, workload, accounting>>

\* Mutant: the shared counter is read and stored back, which may lose a step.
TakeSlot_TwoSteps(w) ==
  /\ pc = "workload" /\ worker[w].at = "free"
  /\ worker' = [worker EXCEPT ![w] = Taken(next)]
  /\ next' \in {next, next + 1}
  /\ UNCHANGED <<pc, scrape, report, targets, served, accounting>>

\* fetch_add on the counter the workers share.
TakeSlot(w) ==
  /\ pc = "workload" /\ worker[w].at = "free"
  /\ worker' = [worker EXCEPT ![w] = Taken(next)]
  /\ next' = next + 1
  /\ UNCHANGED <<pc, scrape, report, targets, served, accounting>>

\* execute_scenario, and its sample.
Sample(w) ==
  /\ pc = "workload" /\ worker[w].at = "busy"
  /\ \E result \in {"good", "bad"} : served' = [served EXCEPT ![worker[w].slot][result] = @ + 1]
  /\ worker' = [worker EXCEPT ![w] = Free]
  /\ UNCHANGED <<pc, scrape, report, targets, next, accounting>>

\* scenario_report with max_error_rate = 0, and as many samples as slots.
WorkloadPasses ==
  /\ \A s \in Slots : served[s].bad = 0
  /\ MapThenSumSet(LAMBDA s : served[s].good, Slots) = TotalSlots

EndWorkload ==
  /\ pc = "workload" /\ \A w \in Workers : worker[w].at = "done"
  /\ pc' = "after"
  /\ report' = report \cup (IF WorkloadPasses THEN {"workload"} ELSE {})
  /\ UNCHANGED <<scrape, targets, workload, accounting>>

\* saturating_sub
Since(now, then) == IF now >= then THEN now - then ELSE 0

\* Mutant: rejections are told from the share of them among the samples.
QueuePasses_Rate(before, after) ==
  Since(after.rejected, before.rejected) < Since(after.admitted, before.admitted)

\* queue_evidence, the latency of the queue left aside.
QueuePasses(before, after) ==
  /\ Since(after.admitted, before.admitted) > 0
  /\ Since(after.rejected, before.rejected) = 0

\* The second scrape, and target_identity_evidence again.
ScrapeAfter ==
  /\ pc = "after"
  /\ pc' = "boundary"
  /\ report' = report
       \cup (IF QueuePasses(scrape, target.queue) THEN {"queue"} ELSE {})
       \cup (IF target.candidate THEN {"identity"} ELSE {})
  /\ UNCHANGED <<scrape, targets, workload, accounting>>

\* memory_evidence and the multipart boundary probe.
Boundary ==
  /\ pc = "boundary" /\ pc' = "accounting"
  /\ \E met \in BOOLEAN : report' = report \cup (IF met THEN {"boundary"} ELSE {})
  /\ UNCHANGED <<scrape, targets, workload, accounting>>

\* reserve of run_budget_worker on a ledger that is locked, and on one that is not.
\* One that fails may have written all the same; one that does not lock may take the
\* stale lock away.
others == <<scrape, report, targets, workload>>
Attempt(p, outcome) ==
  /\ process' = [process EXCEPT ![p].left = @ - 1, ![p].read = Limit]
  /\ tally' = [tally EXCEPT ![outcome] = @ + 1]
Contending(p) == pc = "accounting" /\ process[p].left > 0 /\ UNCHANGED <<pc, others, defective, corrupt, fresh>>
Reserve(p) ==
  /\ Contending(p) /\ ~defective
  /\ IF ledger < Limit THEN ledger' = ledger + 1 /\ Attempt(p, "ok")
                       ELSE UNCHANGED ledger /\ Attempt(p, "over")
  /\ UNCHANGED <<lock, lost>>
StorageError(p) ==
  /\ Contending(p) /\ tally.error < StorageErrors
  /\ Attempt(p, "error")
  /\ \/ UNCHANGED ledger
     \/ ledger < Limit /\ ledger' = ledger + 1
  /\ UNCHANGED <<lock, lost>>
LossyRead(p) ==
  /\ Contending(p) /\ defective /\ process[p].read = Limit
  /\ IF ledger < Limit THEN process' = [process EXCEPT ![p].read = ledger] /\ UNCHANGED tally
                       ELSE Attempt(p, "over")
  /\ lock' \in {lock, FALSE}
  /\ UNCHANGED <<ledger, lost>>
LossyWrite(p) ==
  /\ Contending(p) /\ process[p].read < Limit
  /\ lost' = (lost \/ process[p].read # ledger)
  /\ ledger' = process[p].read + 1 /\ Attempt(p, "ok")
  /\ UNCHANGED lock

\* All workers have ended well, and their ledger, which somebody wrote, is kept
\* aside; another one is put in its place.
EndContention ==
  /\ pc = "accounting" /\ \A p \in Processes : process[p].left = 0
  /\ ledger > 0
  /\ pc' = "corrupted"
  /\ UNCHANGED <<others, accounting>>

\* One attempt on a file that is no ledger.  The code's ledger fails and leaves it;
\* one with defects may take it for an empty one, or make something else of it.
CorruptWorker ==
  /\ pc = "corrupted" /\ pc' = "restored"
  /\ \E outcome \in Outcomes, kept \in BOOLEAN :
       /\ corrupt' = [outcome |-> outcome, kept |-> kept]
       /\ defective \/ (outcome = "error" /\ kept)
  /\ UNCHANGED <<others, defective, ledger, process, tally, lock, fresh, lost>>

\* One attempt of a new process on the ledger that was kept aside.  It may fail,
\* whatever it wrote; and with defects, not look at what is there.
FreshWorker ==
  /\ pc = "restored" /\ pc' = "judge"
  /\ \/ ledger < Limit /\ fresh' = [outcome |-> "ok", count |-> ledger + 1]
     \/ ledger >= Limit /\ fresh' = [outcome |-> "over", count |-> ledger]
     \/ /\ tally.error < StorageErrors
        /\ \E n \in {ledger, ledger + 1} : n <= Limit /\ fresh' = [outcome |-> "error", count |-> n]
     \/ defective /\ fresh' = [outcome |-> "ok", count |-> 1]
  /\ UNCHANGED <<others, defective, ledger, process, tally, lock, corrupt, lost>>

\* wait_for_children: a worker that fails, or a file that cannot be read, ends the
\* gate without a report.
WorkerFails ==
  /\ pc \in {"accounting", "corrupted", "restored"} /\ pc' = "failed"
  /\ UNCHANGED <<others, accounting>>

\* stale_lock_metadata_recovered, corrupted_ledger_failed_closed and
\* restart_state_preserved.
StaleLockRecovered == tally.ok > 0 /\ lock
CorruptedFailedClosed == corrupt = [outcome |-> "error", kept |-> TRUE]
RestartPreserved == fresh = [outcome |-> "over", count |-> Limit]

\* Mutant: the ledger's own count is taken for the reservations made.
Exact_LedgerOnly(t, count) ==
  t.error = 0 /\ count = Limit /\ StaleLockRecovered /\ CorruptedFailedClosed /\ RestartPreserved

\* run_multi_process_file_probe_blocking: its pass.
Exact(t, count) ==
  /\ t.ok = Limit /\ t.over = Cardinality(Processes) * Attempts - Limit
  /\ t.error = 0 /\ count = Limit
  /\ StaleLockRecovered /\ CorruptedFailedClosed /\ RestartPreserved

\* Then the rolling restart, which has its own replicas, and the report.
EndAccounting ==
  /\ pc = "judge" /\ pc' = "restart"
  /\ report' = report \cup (IF Exact(tally, ledger) THEN {"accounting"} ELSE {})
  /\ UNCHANGED <<scrape, targets, workload, accounting>>

\* run_rolling_restart_probe: both replicas live, the second serves while the
\* first is replaced, and the replacement serves in time.
RollingRestart ==
  /\ pc = "restart"
  /\ \E both, survivor, replacement \in BOOLEAN :
       report' = report \cup (IF both /\ survivor /\ replacement THEN {"restart"} ELSE {})
  /\ pc' = "report"
  /\ UNCHANGED <<scrape, targets, workload, accounting>>

DeploymentNext ==
  \/ Queue \/ Restart
  \/ Preflight \/ ScrapeBefore \/ Warmup \/ EndWorkload \/ ScrapeAfter
  \/ \E w \in Workers : TakeSlot(w) \/ Sample(w)
  \/ \E p \in Processes : Reserve(p) \/ StorageError(p) \/ LossyRead(p) \/ LossyWrite(p)
  \/ Boundary \/ EndContention \/ CorruptWorker \/ FreshWorker \/ WorkerFails
  \/ EndAccounting \/ RollingRestart

DeploymentSpec == DeploymentInit /\ [][DeploymentNext]_deploymentVars
-----------------------------------------------------------------------------
\* run_deployment_live_gate: no failure.
Parts == {"workload", "queue", "identity", "boundary", "accounting", "restart"}
GatePasses == pc = "report" /\ report = Parts

AfterWorkload ==
  {"after", "boundary", "accounting", "corrupted", "restored", "judge", "restart", "report"}

\* The workers share one counter: when the workload is over each slot has been
\* executed once, whichever worker took it, so that every scenario has its samples.
SlotsOnce ==
  pc \in AfterWorkload =>
    \A s \in Slots : served[s].good + served[s].bad = 1

\* A report that passes hides no rejection by the provider queues during the
\* window, unless the target was restarted in it: the counters then begin at zero
\* and the difference saturates.
RejectionsSeen == GatePasses /\ ~reset => ~rejected

\* The accounting probe tells a ledger that lost an update from one that did not, by
\* what its processes counted: it passes exactly when each reservation was kept, none
\* failed and the lock is still there, the corrupted ledger was refused and left as it
\* was, and the process that came anew found the ledger full.
ProbeFindsLoss ==
  pc \in {"restart", "report"} =>
    ("accounting" \in report <=>
       /\ ~lost /\ tally.error = 0 /\ lock
       /\ CorruptedFailedClosed
       /\ fresh.outcome = "over")
=============================================================================
