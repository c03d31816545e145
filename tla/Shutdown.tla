------------------------------- MODULE Shutdown -------------------------------
(***************************************************************************)
(* Shadow evaluations in the background and the shutdown that waits for      *)
(* them: BackgroundTasks, spawn_shadow_eval and serve of src/src/server.rs,  *)
(* and the JSONL writer (src/src/jsonl_writer.rs) that serve flushes last.   *)
(* Each step is what runs between two awaits or, where threads share an      *)
(* atomic or a semaphore, one operation on it.                              *)
(*                                                                         *)
(* Time is a clock that starts at the signal and may tick at any wait, but   *)
(* not beyond that wait's deadline.  When serve has returned, main drops the  *)
(* runtime: its tasks stop where they await, but a job that runs on a blocking *)
(* thread (an append, a job of file_state.rs) is waited for without limit.     *)
(***************************************************************************)
EXTENDS Naturals, Sequences, FiniteSets

CONSTANTS
  Evals,           \* requests whose response may be evaluated
  MaxPending, MaxConcurrent,   \* shadow_eval.max_pending_tasks, max_concurrent_tasks
  Capacity,        \* writer_queue_capacity
  Window,          \* runtime.graceful_shutdown_timeout_ms
  Jobs,            \* jobs on the files of the stores, see module FileStore
  Nobody

ASSUME ShutdownAssumption ==
  /\ IsFiniteSet(Evals) /\ Nobody \notin Evals
  /\ MaxPending \in Nat \ {0} /\ MaxConcurrent \in Nat \ {0}
  /\ Capacity \in Nat \ {0} /\ Window \in Nat \ {0}

VARIABLES
  pc,              \* pc[e]: where e's request and then its evaluation is
  pending, slots,  \* free permits of the two semaphores
  active,          \* BackgroundTasks::active
  calls,           \* notify_waiters calls so far
  seen,            \* calls when drain made its Notified
  phase,           \* of serve, and of main after it
  elapsed, deadline,
  forced,          \* the server was dropped with requests in it
  drained, flushed,    \* what drain and flush came to
  queue, writing,  \* the writer's channel and the record it is appending
  recorded, written, lost, \* records put in the channel; appended; dropped or failed
  jobs             \* that run on blocking threads

tasks == <<pending, slots, active, calls>>
serve == <<seen, phase, elapsed, deadline, forced, drained, flushed>>
writer == <<queue, writing, recorded, written, lost, jobs>>
vars == <<pc, tasks, serve, writer>>

InHandler == {"handling", "acquired"}
Counted == {"queued", "running", "leaving"}
HoldPending == {"acquired", "left", "notified"} \cup Counted
HoldSlot == {"running", "leaving", "left", "notified", "released"}
Over == {"over", "done"}
PCs == {"idle"} \cup InHandler \cup HoldPending \cup HoldSlot \cup Over
Waits == {"stopping", "wait", "flush", "flushing"}
Stopped == {"returned", "exited"}
Phases == {"serving", "check", "create", "recheck"} \cup Waits \cup Stopped
At(S) == {e \in Evals : pc[e] \in S}

Init ==
  /\ pc = [e \in Evals |-> "idle"]
  /\ pending = MaxPending /\ slots = MaxConcurrent /\ active = 0
  /\ calls = 0 /\ seen = 0
  /\ phase = "serving" /\ elapsed = 0 /\ deadline = 0
  /\ forced = FALSE /\ drained = FALSE /\ flushed = FALSE
  /\ queue = <<>> /\ writing = Nobody
  /\ recorded = {} /\ written = {} /\ lost = {} /\ jobs = {}

Move(e, from, to) == phase \notin Stopped /\ pc[e] = from /\ pc' = [pc EXCEPT ![e] = to]
-----------------------------------------------------------------------------
(* Requests and their evaluations.                                          *)

\* Once a signal was seen no connection is accepted.
Request(e) ==
  /\ phase = "serving"
  /\ Move(e, "idle", "handling")
  /\ UNCHANGED <<tasks, serve, writer>>

\* The response is not one to evaluate, or no evaluation can be admitted.
Skip(e) == Move(e, "handling", "over") /\ UNCHANGED <<tasks, serve, writer>>

\* try_start takes a permit,
TryStart(e) ==
  /\ pending > 0
  /\ Move(e, "handling", "acquired")
  /\ pending' = pending - 1
  /\ UNCHANGED <<slots, active, calls, serve, writer>>

\* and counts the evaluation, which is then spawned.
Count(e) ==
  /\ Move(e, "acquired", "queued")
  /\ active' = active + 1
  /\ UNCHANGED <<pending, slots, calls, serve, writer>>

Enter(e) ==
  /\ slots > 0
  /\ Move(e, "queued", "running")
  /\ slots' = slots - 1
  /\ UNCHANGED <<pending, active, calls, serve, writer>>

\* The shadow model turns out to be the selected one, or the task panics.
NoRecord(e) == Move(e, "running", "leaving") /\ UNCHANGED <<tasks, serve, writer>>

\* try_write
Record(e) ==
  /\ Move(e, "running", "leaving")
  /\ IF Len(queue) < Capacity
       THEN /\ queue' = Append(queue, e)
            /\ recorded' = recorded \cup {e}
            /\ UNCHANGED lost
       ELSE lost' = lost \cup {e} /\ UNCHANGED <<queue, recorded>>
  /\ UNCHANGED <<tasks, serve, writing, written, jobs>>

\* The task's permit is dropped first: its own drop, and then its fields.
Leave(e) ==
  /\ Move(e, "leaving", "left")
  /\ active' = active - 1
  /\ UNCHANGED <<pending, slots, calls, serve, writer>>

Notify(e) ==
  /\ Move(e, "left", "notified")
  /\ calls' = calls + 1
  /\ UNCHANGED <<pending, slots, active, serve, writer>>

ReleasePending(e) ==
  /\ Move(e, "notified", "released")
  /\ pending' = pending + 1
  /\ UNCHANGED <<slots, active, calls, serve, writer>>

ReleaseSlot(e) ==
  /\ Move(e, "released", "done")
  /\ slots' = slots + 1
  /\ UNCHANGED <<pending, active, calls, serve, writer>>
-----------------------------------------------------------------------------
(* serve, after the signal.                                                 *)

\* Every wait of serve has the window to itself.
Begin(p) == phase' = p /\ deadline' = elapsed + Window

Signal ==
  /\ phase = "serving"
  /\ Begin("stopping")
  /\ UNCHANGED <<pc, tasks, seen, elapsed, forced, drained, flushed, writer>>

\* with_graceful_shutdown: the last response was sent.
ServerStops ==
  /\ phase = "stopping" /\ At(InHandler) = {}
  /\ Begin("check")
  /\ UNCHANGED <<pc, tasks, seen, elapsed, forced, drained, flushed, writer>>

\* The server is dropped, but not the tasks its connections run in.
ForceStop ==
  /\ phase = "stopping" /\ elapsed = deadline
  /\ Begin("check")
  /\ forced' = TRUE
  /\ UNCHANGED <<pc, tasks, seen, elapsed, drained, flushed, writer>>

\* while active > 0, and the second look once there is a Notified.
Check(from, to) ==
  /\ phase = from
  /\ IF active = 0 THEN Begin("flush") /\ drained' = TRUE
                   ELSE phase' = to /\ UNCHANGED <<deadline, drained>>
  /\ UNCHANGED <<pc, tasks, seen, elapsed, forced, flushed, writer>>

\* Mutant: no second look.
CreateNotified_WaitsAtOnce ==
  /\ phase = "create"
  /\ phase' = "wait"
  /\ seen' = calls
  /\ UNCHANGED <<pc, tasks, elapsed, deadline, forced, drained, flushed, writer>>

\* A Notified completes with the first notify_waiters after it was made.
CreateNotified ==
  /\ phase = "create"
  /\ phase' = "recheck"
  /\ seen' = calls
  /\ UNCHANGED <<pc, tasks, elapsed, deadline, forced, drained, flushed, writer>>

Wake ==
  /\ phase = "wait" /\ calls > seen
  /\ phase' = "check"
  /\ UNCHANGED <<pc, tasks, seen, elapsed, deadline, forced, drained, flushed, writer>>

\* Mutant: drain has no timeout.
DrainTimesOut_Never == FALSE /\ UNCHANGED vars

DrainTimesOut ==
  /\ phase = "wait" /\ calls = seen /\ elapsed = deadline
  /\ Begin("flush")
  /\ UNCHANGED <<pc, tasks, seen, elapsed, forced, drained, flushed, writer>>

\* Mutant: a flush has a way of its own, past the records in the channel.
FlushSend_Beside ==
  /\ phase = "flush"
  /\ phase' = "flushing" /\ flushed' = TRUE
  /\ UNCHANGED <<pc, tasks, seen, elapsed, deadline, forced, drained, writer>>

\* flush waits for room in the channel, and then for an answer.
FlushSend ==
  /\ phase = "flush" /\ Len(queue) < Capacity
  /\ queue' = Append(queue, Nobody)
  /\ phase' = "flushing"
  /\ UNCHANGED <<pc, tasks, seen, elapsed, deadline, forced, drained, flushed,
                 writing, recorded, written, lost, jobs>>

\* serve returns with flush's answer or at its deadline.
Return ==
  /\ phase \in {"flush", "flushing"} /\ (flushed \/ elapsed = deadline)
  /\ phase' = "returned"
  /\ UNCHANGED <<pc, tasks, seen, elapsed, deadline, forced, drained, flushed, writer>>

\* runtime_main: the runtime is dropped, which waits for the jobs on its blocking
\* threads; then the process ends.
Busy == writing # Nobody \/ jobs # {}
Exit ==
  /\ phase = "returned" /\ ~Busy
  /\ phase' = "exited"
  /\ UNCHANGED <<pc, tasks, seen, elapsed, deadline, forced, drained, flushed, writer>>

Tick ==
  /\ phase \in Waits /\ elapsed < deadline
  /\ elapsed' = elapsed + 1
  /\ UNCHANGED <<pc, tasks, seen, phase, deadline, forced, drained, flushed, writer>>
-----------------------------------------------------------------------------
(* The writer.                                                              *)

Take ==
  /\ phase \notin Stopped /\ writing = Nobody /\ queue # <<>>
  /\ queue' = Tail(queue)
  /\ IF Head(queue) = Nobody THEN flushed' = TRUE /\ UNCHANGED writing
                             ELSE writing' = Head(queue) /\ UNCHANGED flushed
  /\ UNCHANGED <<pc, tasks, seen, phase, elapsed, deadline, forced, drained,
                 recorded, written, lost, jobs>>

\* append_rotating_jsonl, on a blocking thread: it may fail, or hang.
AppendRecord ==
  /\ writing # Nobody
  /\ writing' = Nobody
  /\ \/ written' = written \cup {writing} /\ UNCHANGED lost
     \/ lost' = lost \cup {writing} /\ UNCHANGED written
  /\ UNCHANGED <<pc, tasks, serve, queue, recorded, jobs>>

\* BlockingFileGate::run: a handler has a job done, which goes on without it when
\* its client leaves, and may hang as well.
JobStarts(j) ==
  /\ phase \notin Stopped /\ At({"handling"}) # {} /\ j \notin jobs
  /\ jobs' = jobs \cup {j}
  /\ UNCHANGED <<pc, tasks, serve, queue, writing, recorded, written, lost>>

JobEnds(j) ==
  /\ j \in jobs
  /\ jobs' = jobs \ {j}
  /\ UNCHANGED <<pc, tasks, serve, queue, writing, recorded, written, lost>>

StoreJobs == \E j \in Jobs : JobStarts(j) \/ JobEnds(j)
-----------------------------------------------------------------------------
Eval(e) ==
  \/ Request(e) \/ Skip(e) \/ TryStart(e) \/ Count(e) \/ Enter(e) \/ NoRecord(e) \/ Record(e)
  \/ Leave(e) \/ Notify(e) \/ ReleasePending(e) \/ ReleaseSlot(e)

Serve ==
  \/ ServerStops \/ ForceStop \/ Check("check", "create") \/ CreateNotified
  \/ Check("recheck", "wait") \/ Wake \/ DrainTimesOut \/ FlushSend \/ Return \/ Exit

Next ==
  \/ (\E e \in Evals : Eval(e))
  \/ Signal \/ Serve \/ Tick \/ Take \/ AppendRecord \/ StoreJobs

Spec == Init /\ [][Next]_vars

\* Only serve is polled and only its timers fire, and the runtime is dropped once it
\* can be: requests, evaluations and the disk may hang.
Fairness == WF_vars(Serve) /\ WF_vars(Tick)
-----------------------------------------------------------------------------
\* Every variable has its type, and no wait outlives its deadline.
TypeOK ==
  /\ pc \in [Evals -> PCs]
  /\ pending \in 0 .. MaxPending /\ slots \in 0 .. MaxConcurrent
  /\ active \in Nat /\ calls \in Nat /\ seen \in 0 .. calls
  /\ phase \in Phases
  /\ deadline \in 0 .. 3 * Window /\ elapsed \in 0 .. deadline
  /\ forced \in BOOLEAN /\ drained \in BOOLEAN /\ flushed \in BOOLEAN
  /\ queue \in Seq(Evals \cup {Nobody}) /\ writing \in Evals \cup {Nobody}
  /\ recorded \subseteq Evals /\ written \subseteq Evals /\ lost \subseteq Evals
  /\ jobs \subseteq Jobs

\* The permits of both semaphores and the count of active evaluations are those
\* of the evaluations under way, in whatever order they are dropped: never more
\* than max_pending_tasks admitted or max_concurrent_tasks running.
TasksBounded ==
  /\ active = Cardinality(At(Counted))
  /\ pending + Cardinality(At(HoldPending)) = MaxPending
  /\ slots + Cardinality(At(HoldSlot)) = MaxConcurrent

\* drain sleeps only while an evaluation that will wake it is still to leave.
NoLostWakeup ==
  phase = "wait" /\ calls = seen => active > 0 \/ At({"left"}) # {}

\* The books of BackgroundTasks are right at every interleaving of drops and waits.
TasksSound == TasksBounded /\ NoLostWakeup

\* When the server stopped in time, the drain found nothing active and the
\* flush was answered, no evaluation is cut off by the end and each record it
\* put in the channel was appended, or counted as an error.
NothingLost ==
  phase \in Stopped /\ ~forced /\ drained /\ flushed =>
    /\ At(InHandler \cup Counted) = {}
    /\ recorded \subseteq written \cup lost

\* After a signal serve returns, whatever hangs, and the process ends, unless a job
\* on a blocking thread never ends: dropping the runtime then waits for ever.
Exits ==
  phase # "serving" ~> [](phase = "exited" \/ (phase = "returned" /\ Busy))
=============================================================================
