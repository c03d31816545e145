---------------------------- MODULE ShutdownProofs ----------------------------
(***************************************************************************)
(* What Shutdown promises for any number of evaluations, permits, queued    *)
(* records and seconds.  The permits are counted (TasksBounded), which also  *)
(* bounds the types; a wakeup cannot be lost because an evaluation that the  *)
(* second look still counts has its notify_waiters ahead of it; and no       *)
(* record is lost because none is accepted behind the flush (NothingLost).   *)
(***************************************************************************)
EXTENDS Journal, FiniteSetTheorems, TLAPS

\* How far the deadline can be when each wait before had the window to itself.
Deadlines ==
  /\ phase = "serving" => deadline = 0
  /\ phase = "stopping" => deadline <= Window
  /\ phase \in {"check", "create", "recheck", "wait"} => deadline <= 2 * Window

IInv == TypeOK /\ TasksBounded /\ Deadlines /\ NoLostWakeup
-----------------------------------------------------------------------------
(* Counting the evaluations that are at some set of places.                 *)

One(b) == IF b THEN 1 ELSE 0

\* The evaluations at places S are finitely many.
LEMMA AtFinite ==
  ASSUME NEW S
  PROVE  /\ IsFiniteSet(At(S))
         /\ Cardinality(At(S)) \in Nat
<1>1. At(S) \in SUBSET Evals
  BY DEF At
<1>2. IsFiniteSet(At(S))
  BY <1>1, FS_Subset, ShutdownAssumption
<1>3. QED
  BY <1>2, FS_CardinalityType

\* A step of one evaluation enters S, leaves it, or neither.
LEMMA MoveCounts ==
  ASSUME NEW S, NEW e \in Evals, NEW from, NEW to,
         pc \in [Evals -> PCs], Move(e, from, to)
  PROVE  Cardinality(At(S))' = Cardinality(At(S)) + One(to \in S) - One(from \in S)
<1>1. IsFiniteSet(At(S)) /\ Cardinality(At(S)) \in Nat
  BY AtFinite
<1>2. CASE (from \in S) <=> (to \in S)
  <2>1. At(S)' = At(S)
    BY <1>2 DEF At, Move
  <2>2. QED
    BY <2>1, <1>1, <1>2 DEF One
<1>3. CASE from \notin S /\ to \in S
  <2>1. e \notin At(S) /\ At(S)' = At(S) \cup {e}
    BY <1>3 DEF At, Move
  <2>2. Cardinality(At(S) \cup {e}) = Cardinality(At(S)) + 1
    BY <1>1, <2>1, FS_AddElement
  <2>3. QED
    BY <1>1, <1>3, <2>1, <2>2 DEF One
<1>4. CASE from \in S /\ to \notin S
  <2>1. e \in At(S) /\ At(S)' = At(S) \ {e}
    BY <1>4 DEF At, Move
  <2>2. Cardinality(At(S) \ {e}) = Cardinality(At(S)) - 1
    BY <1>1, <2>1, FS_RemoveElement
  <2>3. QED
    BY <1>1, <1>4, <2>1, <2>2 DEF One
<1>5. QED
  BY <1>2, <1>3, <1>4

\* A step that changes the counters by what enters and leaves the places they
\* count keeps the counts, and their bounds from one side.
LEMMA MoveBounds ==
  ASSUME TypeOK, TasksBounded, NEW e \in Evals, NEW from \in PCs, NEW to \in PCs,
         Move(e, from, to),
         active' = active + One(to \in Counted) - One(from \in Counted),
         pending' = pending - One(to \in HoldPending) + One(from \in HoldPending),
         slots' = slots - One(to \in HoldSlot) + One(from \in HoldSlot)
  PROVE  /\ TasksBounded'
         /\ pc' \in [Evals -> PCs]
         /\ active' \in Nat
         /\ pending' \in Int /\ pending' <= MaxPending
         /\ slots' \in Int /\ slots' <= MaxConcurrent
<1>1. pc \in [Evals -> PCs]
  BY DEF TypeOK
<1>2. \A S : Cardinality(At(S))' = Cardinality(At(S)) + One(to \in S) - One(from \in S)
  BY <1>1, MoveCounts
<1>3. \A S : Cardinality(At(S))' \in Nat
  <2>1. ASSUME NEW S PROVE IsFiniteSet(At(S)')
    BY FS_Subset, ShutdownAssumption DEF At
  <2>2. QED
    BY <2>1, FS_CardinalityType
<1>4. One(TRUE) = 1 /\ One(FALSE) = 0
  BY DEF One
<1>5. \A S : Cardinality(At(S)) \in Nat
  BY AtFinite
<1>6. TasksBounded'
  <2>1. active' = Cardinality(At(Counted))'
    <3>1. Cardinality(At(Counted))'
            = Cardinality(At(Counted)) + One(to \in Counted) - One(from \in Counted)
      BY <1>2
    <3>2. QED
      BY <3>1 DEF TasksBounded
  <2>2. pending' + Cardinality(At(HoldPending))' = MaxPending
    <3>1. Cardinality(At(HoldPending))'
            = Cardinality(At(HoldPending)) + One(to \in HoldPending) - One(from \in HoldPending)
      BY <1>2
    <3>2. pending \in Int /\ Cardinality(At(HoldPending)) \in Int
      BY <1>5, ShutdownAssumption DEF TypeOK
    <3>3. pending + Cardinality(At(HoldPending)) = MaxPending
      BY DEF TasksBounded
    <3>4. QED
      BY <3>1, <3>2, <3>3 DEF One
  <2>3. slots' + Cardinality(At(HoldSlot))' = MaxConcurrent
    <3>1. Cardinality(At(HoldSlot))'
            = Cardinality(At(HoldSlot)) + One(to \in HoldSlot) - One(from \in HoldSlot)
      BY <1>2
    <3>2. slots \in Int /\ Cardinality(At(HoldSlot)) \in Int
      BY <1>5, ShutdownAssumption DEF TypeOK
    <3>3. slots + Cardinality(At(HoldSlot)) = MaxConcurrent
      BY DEF TasksBounded
    <3>4. QED
      BY <3>1, <3>2, <3>3 DEF One
  <2>4. QED
    BY <2>1, <2>2, <2>3 DEF TasksBounded
<1>7. pc' \in [Evals -> PCs]
  BY <1>1 DEF Move
<1>8. QED
  BY <1>3, <1>6, <1>7, ShutdownAssumption DEF TasksBounded

\* What an evaluation or its request does keeps the counts.
LEMMA EvalBounds ==
  ASSUME TypeOK, TasksBounded, NEW e \in Evals, Eval(e)
  PROVE  /\ TasksBounded'
         /\ pc' \in [Evals -> PCs]
         /\ active' \in Nat
         /\ pending' \in 0 .. MaxPending
         /\ slots' \in 0 .. MaxConcurrent
<1> DEFINE Ok(from, to) ==
      /\ Move(e, from, to)
      /\ active' = active + One(to \in Counted) - One(from \in Counted)
      /\ pending' = pending - One(to \in HoldPending) + One(from \in HoldPending)
      /\ slots' = slots - One(to \in HoldSlot) + One(from \in HoldSlot)
      /\ pending' \in Nat /\ slots' \in Nat
<1>1. active \in Nat /\ pending \in Nat /\ slots \in Nat
  BY ShutdownAssumption DEF TypeOK
<1>2. ASSUME NEW from \in PCs, NEW to \in PCs, Ok(from, to)
      PROVE  /\ TasksBounded'
             /\ pc' \in [Evals -> PCs]
             /\ active' \in Nat
             /\ pending' \in 0 .. MaxPending
             /\ slots' \in 0 .. MaxConcurrent
  <2>1. /\ TasksBounded'
        /\ pc' \in [Evals -> PCs]
        /\ active' \in Nat
        /\ pending' <= MaxPending
        /\ slots' <= MaxConcurrent
    BY <1>2, MoveBounds
  <2>2. QED
    BY <1>2, <2>1, ShutdownAssumption
<1> USE DEF One, Counted, HoldPending, HoldSlot, InHandler, Over, PCs, tasks
<1>3. CASE Request(e)
  <2>1. Ok("idle", "handling")
    BY <1>1, <1>3 DEF Request
  <2>2. QED
    BY <1>2, <2>1
<1>4. CASE Skip(e)
  <2>1. Ok("handling", "over")
    BY <1>1, <1>4 DEF Skip
  <2>2. QED
    BY <1>2, <2>1
<1>5. CASE TryStart(e)
  <2>1. Ok("handling", "acquired")
    BY <1>1, <1>5 DEF TryStart
  <2>2. QED
    BY <1>2, <2>1
<1>6. CASE Count(e)
  <2>1. Ok("acquired", "queued")
    BY <1>1, <1>6 DEF Count
  <2>2. QED
    BY <1>2, <2>1
<1>7. CASE Enter(e)
  <2>1. Ok("queued", "running")
    BY <1>1, <1>7 DEF Enter
  <2>2. QED
    BY <1>2, <2>1
<1>8. CASE NoRecord(e) \/ Record(e)
  <2>1. Ok("running", "leaving")
    BY <1>1, <1>8 DEF NoRecord, Record
  <2>2. QED
    BY <1>2, <2>1
<1>9. CASE Leave(e)
  <2>1. Ok("leaving", "left")
    BY <1>1, <1>9 DEF Leave
  <2>2. QED
    BY <1>2, <2>1
<1>10. CASE Notify(e)
  <2>1. Ok("left", "notified")
    BY <1>1, <1>10 DEF Notify
  <2>2. QED
    BY <1>2, <2>1
<1>11. CASE ReleasePending(e)
  <2>1. Ok("notified", "released")
    BY <1>1, <1>11 DEF ReleasePending
  <2>2. QED
    BY <1>2, <2>1
<1>12. CASE ReleaseSlot(e)
  <2>1. Ok("released", "done")
    BY <1>1, <1>12 DEF ReleaseSlot
  <2>2. QED
    BY <1>2, <2>1
<1>13. QED
  BY <1>3, <1>4, <1>5, <1>6, <1>7, <1>8, <1>9, <1>10, <1>11, <1>12 DEF Eval

\* An evaluation that lowers the count drain sleeps on has still to notify it, and
\* one that has notified has woken it.
LEMMA EvalWakes ==
  ASSUME TypeOK, NoLostWakeup, NEW e \in Evals, Eval(e)
  PROVE  NoLostWakeup'
<1>1. UNCHANGED <<phase, seen>>
  BY DEF Eval, Request, Skip, TryStart, Count, Enter, NoRecord, Record, Leave, Notify,
         ReleasePending, ReleaseSlot, serve
<1>2. CASE Leave(e)
  <2>1. e \in At({"left"})'
    BY <1>2 DEF Leave, Move, At, TypeOK
  <2>2. QED
    BY <2>1 DEF NoLostWakeup
<1>3. CASE Notify(e)
  <2>1. calls' # seen'
    BY <1>1, <1>3 DEF Notify, TypeOK
  <2>2. QED
    BY <2>1 DEF NoLostWakeup
<1>4. CASE ~Leave(e) /\ ~Notify(e)
  <2>1. UNCHANGED calls /\ active' \in {active, active + 1}
    BY <1>4 DEF Eval, Request, Skip, TryStart, Count, Enter, NoRecord, Record,
                ReleasePending, ReleaseSlot, tasks
  <2>2. At({"left"}) \subseteq At({"left"})'
    BY <1>4 DEF Eval, Request, Skip, TryStart, Count, Enter, NoRecord, Record,
                ReleasePending, ReleaseSlot, Move, At, TypeOK
  <2>3. active > 0 => active' > 0
    BY <2>1 DEF TypeOK
  <2>4. QED
    BY <1>1, <2>1, <2>2, <2>3 DEF NoLostWakeup
<1>5. QED
  BY <1>2, <1>3, <1>4
-----------------------------------------------------------------------------
(* The invariant.                                                           *)

LEMMA InitIInv == Init => IInv
<1> SUFFICES ASSUME Init PROVE IInv
  OBVIOUS
<1>1. \A S : "idle" \notin S => Cardinality(At(S)) = 0
  <2>1. \A S : "idle" \notin S => At(S) = {}
    BY DEF Init, At
  <2>2. QED
    BY <2>1, FS_EmptySet
<1>2. "idle" \notin Counted /\ "idle" \notin HoldPending /\ "idle" \notin HoldSlot
  BY DEF Counted, HoldPending, HoldSlot
<1>3. TasksBounded
  BY <1>1, <1>2, ShutdownAssumption DEF Init, TasksBounded
<1>4. TypeOK
  <2>1. pc \in [Evals -> PCs] /\ phase \in Phases
    BY DEF Init, PCs, Phases, Stopped
  <2>2. 0 \in 0 .. 3 * Window /\ elapsed \in 0 .. deadline /\ seen \in 0 .. calls
    BY ShutdownAssumption DEF Init
  <2>3. pending \in 0 .. MaxPending /\ slots \in 0 .. MaxConcurrent
    BY ShutdownAssumption DEF Init
  <2>4. queue \in Seq(Evals \cup {Nobody})
    BY DEF Init
  <2>5. QED
    BY <2>1, <2>2, <2>3, <2>4 DEF Init, TypeOK
<1>5. QED
  BY <1>3, <1>4 DEF Init, IInv, Deadlines, NoLostWakeup

\* Steps of an evaluation or its request.
LEMMA EvalIInv == ASSUME IInv, NEW e \in Evals, Eval(e) PROVE IInv'
<1> USE DEF IInv
<1>1. UNCHANGED serve /\ UNCHANGED <<writing, written, jobs>>
  BY DEF Eval, Request, Skip, TryStart, Count, Enter, NoRecord, Record, Leave, Notify,
         ReleasePending, ReleaseSlot, writer
<1>2. calls' \in Nat /\ seen' \in 0 .. calls'
  BY DEF Eval, Request, Skip, TryStart, Count, Enter, NoRecord, Record, Leave, Notify,
         ReleasePending, ReleaseSlot, tasks, serve, TypeOK
<1>3. /\ queue' \in Seq(Evals \cup {Nobody})
      /\ recorded' \subseteq Evals /\ lost' \subseteq Evals
  <2>1. /\ queue' = queue \/ queue' = Append(queue, e)
        /\ recorded' \in {recorded, recorded \cup {e}} /\ lost' \in {lost, lost \cup {e}}
    BY DEF Eval, Request, Skip, TryStart, Count, Enter, NoRecord, Record, Leave, Notify,
           ReleasePending, ReleaseSlot, writer
  <2>2. QED
    BY <2>1 DEF TypeOK
<1>4. TypeOK'
  BY <1>1, <1>2, <1>3, EvalBounds DEF TypeOK, serve
<1>5. Deadlines'
  BY <1>1 DEF Deadlines, serve
<1>6. QED
  BY <1>4, <1>5, EvalBounds, EvalWakes

\* Steps of serve, of the clock and of the writer: what they touch is not counted.
LEMMA ServeIInv ==
  ASSUME IInv, Signal \/ Serve \/ Tick \/ Take \/ AppendRecord \/ StoreJobs
  PROVE  IInv'
<1> USE ShutdownAssumption DEF IInv
<1>1. UNCHANGED <<pc, tasks>>
  BY DEF Signal, Serve, Tick, Take, AppendRecord, StoreJobs, JobStarts, JobEnds, ServerStops, ForceStop, Check,
         CreateNotified, Wake, DrainTimesOut, FlushSend, Return, Exit, serve
<1>2. TasksBounded' /\ At({"left"})' = At({"left"})
  BY <1>1 DEF TasksBounded, At, tasks
<1>3. Window \in Nat /\ deadline \in Nat /\ elapsed \in Nat /\ elapsed <= deadline
  BY DEF TypeOK
<1>4. CASE Signal
  <2>1. deadline' = Window /\ elapsed' = 0
    BY <1>3, <1>4 DEF Signal, Begin, Deadlines
  <2>2. phase' = "stopping" /\ UNCHANGED <<seen, forced, drained, flushed, writer>>
    BY <1>4 DEF Signal, Begin
  <2>3. TypeOK'
    BY <1>1, <1>3, <2>1, <2>2 DEF TypeOK, Phases, Stopped, Waits, tasks, writer
  <2>4. QED
    BY <1>2, <1>3, <2>1, <2>2, <2>3 DEF Deadlines, NoLostWakeup
<1>5. CASE ServerStops \/ ForceStop
  <2>1. deadline' = elapsed + Window /\ deadline <= Window /\ UNCHANGED elapsed
    BY <1>5 DEF ServerStops, ForceStop, Begin, Deadlines
  <2>2. phase' = "check" /\ UNCHANGED <<seen, drained, flushed, writer>> /\ forced' \in BOOLEAN
    BY <1>5 DEF ServerStops, ForceStop, Begin, TypeOK
  <2>3. /\ deadline' \in 0 .. 2 * Window /\ deadline' \in 0 .. 3 * Window
        /\ elapsed' \in 0 .. deadline'
    BY <1>3, <2>1
  <2>4. TypeOK'
    BY <1>1, <2>2, <2>3 DEF TypeOK, Phases, Stopped, tasks, writer
  <2>5. QED
    BY <1>2, <2>2, <2>3, <2>4 DEF Deadlines, NoLostWakeup
<1>6. ASSUME phase \in {"check", "create", "recheck", "wait"}, Begin("flush"),
             drained' \in BOOLEAN, UNCHANGED <<seen, elapsed, forced, flushed, writer>>
      PROVE  IInv'
  <2>1. deadline' = elapsed + Window /\ deadline <= 2 * Window /\ phase' = "flush"
    BY <1>6 DEF Begin, Deadlines
  <2>2. deadline' \in 0 .. 3 * Window /\ elapsed' \in 0 .. deadline'
    BY <1>3, <1>6, <2>1
  <2>3. TypeOK'
    BY <1>1, <1>6, <2>1, <2>2 DEF TypeOK, Phases, Stopped, Waits, tasks, writer
  <2>4. QED
    BY <1>2, <2>1, <2>3 DEF Deadlines, NoLostWakeup
<1>7. ASSUME NEW from, NEW to, Check(from, to),
             <<from, to>> \in {<<"check", "create">>, <<"recheck", "wait">>}
      PROVE  IInv'
  <2>1. CASE active = 0
    BY <1>6, <1>7, <2>1 DEF Check
  <2>2. CASE active # 0
    <3>1. phase' = to /\ UNCHANGED <<seen, elapsed, deadline, forced, drained, flushed, writer>>
      BY <1>7, <2>2 DEF Check
    <3>2. TypeOK'
      BY <1>1, <1>7, <3>1 DEF TypeOK, Phases, Stopped, Waits, tasks, writer
    <3>3. Deadlines'
      BY <1>7, <3>1 DEF Deadlines, Check
    <3>4. active' > 0
      BY <1>1, <2>2 DEF TypeOK, tasks
    <3>5. QED
      BY <1>2, <3>2, <3>3, <3>4 DEF NoLostWakeup
  <2>3. QED
    BY <2>1, <2>2
<1>8. CASE CreateNotified \/ Wake
  <2>1. TypeOK'
    BY <1>1, <1>8 DEF CreateNotified, Wake, TypeOK, Phases, Stopped, Waits, tasks, writer
  <2>2. Deadlines'
    BY <1>8 DEF CreateNotified, Wake, Deadlines
  <2>3. phase' # "wait"
    BY <1>8 DEF CreateNotified, Wake
  <2>4. QED
    BY <1>2, <2>1, <2>2, <2>3 DEF NoLostWakeup
<1>9. CASE DrainTimesOut
  BY <1>6, <1>9 DEF DrainTimesOut, TypeOK
<1>10. CASE FlushSend \/ Return \/ Exit
  <2>1. queue' \in Seq(Evals \cup {Nobody})
    BY <1>10 DEF FlushSend, Return, Exit, TypeOK, writer
  <2>2. TypeOK'
    BY <1>1, <1>10, <2>1 DEF FlushSend, Return, Exit, TypeOK, Phases, Stopped, Waits, tasks, writer
  <2>3. phase' \in {"flushing", "returned", "exited"}
    BY <1>10 DEF FlushSend, Return, Exit
  <2>4. QED
    BY <1>2, <2>2, <2>3 DEF Deadlines, NoLostWakeup
<1>11. CASE Tick
  <2>1. elapsed' \in 0 .. deadline'
    BY <1>3, <1>11 DEF Tick
  <2>2. TypeOK'
    BY <1>1, <1>11, <2>1 DEF Tick, TypeOK, tasks, writer
  <2>3. QED
    BY <1>1, <1>2, <1>11, <2>2 DEF Tick, Deadlines, NoLostWakeup, tasks
<1>12. CASE Take
  <2>1. queue' \in Seq(Evals \cup {Nobody}) /\ Head(queue) \in Evals \cup {Nobody}
    BY <1>12 DEF Take, TypeOK
  <2>2. TypeOK'
    BY <1>1, <1>12, <2>1 DEF Take, TypeOK, tasks
  <2>3. QED
    BY <1>1, <1>2, <1>12, <2>2 DEF Take, Deadlines, NoLostWakeup, tasks
<1>13. CASE AppendRecord
  <2>1. TypeOK'
    BY <1>1, <1>13 DEF AppendRecord, TypeOK, tasks, serve
  <2>2. QED
    BY <1>1, <1>2, <1>13, <2>1 DEF AppendRecord, Deadlines, NoLostWakeup, tasks, serve
<1>14. CASE StoreJobs
  <2>1. UNCHANGED <<serve, queue, writing, recorded, written, lost>> /\ jobs' \subseteq Jobs
    BY <1>14 DEF StoreJobs, JobStarts, JobEnds, TypeOK
  <2>2. TypeOK'
    BY <1>1, <2>1 DEF TypeOK, tasks, serve
  <2>3. QED
    BY <1>1, <1>2, <2>1, <2>2 DEF Deadlines, NoLostWakeup, tasks, serve
<1>15. QED
  BY <1>4, <1>5, <1>7, <1>8, <1>9, <1>10, <1>11, <1>12, <1>13, <1>14 DEF Serve

LEMMA NextIInv == IInv /\ [Next]_vars => IInv'
<1> SUFFICES ASSUME IInv, [Next]_vars PROVE IInv'
  OBVIOUS
<1>1. CASE Next
  BY <1>1, EvalIInv, ServeIInv DEF Next
<1>2. CASE UNCHANGED vars
  BY <1>2 DEF vars, tasks, serve, writer, IInv, TypeOK, TasksBounded, At, Deadlines, NoLostWakeup
<1>3. QED
  BY <1>1, <1>2

LEMMA Invariant == Spec => []IInv
  BY InitIInv, NextIInv, PTL DEF Spec
-----------------------------------------------------------------------------
\* Every variable has its type, and no wait outlives its deadline.
THEOREM TypeCorrect == Spec => []TypeOK
  BY Invariant, PTL DEF IInv

\* The permits and the count of active evaluations are those of the evaluations
\* under way, however BackgroundTasks is configured.
THEOREM TasksCounted == Spec => []TasksBounded
  BY Invariant, PTL DEF IInv

\* drain never sleeps through the last evaluation's notification.
THEOREM WakeupKept == Spec => []NoLostWakeup
  BY Invariant, PTL DEF IInv
-----------------------------------------------------------------------------
(* Nothing lost.  Once the server stopped by itself nothing is in a handler; *)
(* what drain then finds to be over stays over, so no record comes after the *)
(* flush, and its answer follows each record.                               *)

InQueue == {queue[i] : i \in 1 .. Len(queue)}

Ends ==
  /\ ~forced /\ phase \notin {"serving", "stopping"} => At(InHandler) = {}
  /\ drained => phase \in {"flush", "flushing", "returned", "exited"}
  /\ ~forced /\ drained => At(Counted) = {}

FlushLast ==
  /\ flushed \/ Nobody \in InQueue => phase \in {"flushing", "returned", "exited"}
  /\ ~forced /\ drained => \A i \in 1 .. Len(queue) : queue[i] = Nobody => i = Len(queue)
  /\ ~forced /\ drained /\ flushed => queue = <<>> /\ writing = Nobody

Kept == recorded \subseteq written \cup lost \cup {writing} \cup InQueue

EndInv == IInv /\ Ends /\ FlushLast /\ Kept

\* What the places of an evaluation are not when the server stopped by itself
\* and drain found nothing active.
LEMMA StaysOver ==
  ASSUME NEW e \in Evals, Eval(e), phase # "serving", At(InHandler) = {}, TypeOK
  PROVE  /\ At(InHandler)' = {}
         /\ At(Counted) = {} => At(Counted)' = {} /\ UNCHANGED writer
<1>1. pc[e] \notin InHandler
  BY DEF At
<1>2. ~Request(e) /\ ~Skip(e) /\ ~TryStart(e) /\ ~Count(e)
  BY <1>1 DEF Request, Skip, TryStart, Count, Move, InHandler
<1>3. At(InHandler)' = {}
  BY <1>2 DEF Eval, Enter, NoRecord, Record, Leave, Notify, ReleasePending, ReleaseSlot,
              Move, At, InHandler, TypeOK
<1>4. ASSUME At(Counted) = {} PROVE At(Counted)' = {} /\ UNCHANGED writer
  <2>1. pc[e] \notin Counted
    BY <1>4 DEF At
  <2>2. Notify(e) \/ ReleasePending(e) \/ ReleaseSlot(e)
    BY <1>2, <2>1 DEF Eval, Enter, NoRecord, Record, Leave, Move, Counted
  <2>3. QED
    BY <1>4, <2>2 DEF Notify, ReleasePending, ReleaseSlot, Move, At, Counted, TypeOK
<1>5. QED
  BY <1>3, <1>4

\* What one record does to the channel.
LEMMA Appended ==
  ASSUME NEW x, queue \in Seq(Evals \cup {Nobody}), x \in Evals \cup {Nobody},
         queue' = Append(queue, x)
  PROVE  /\ InQueue' = InQueue \cup {x} /\ queue' # queue
         /\ \A i \in 1 .. Len(queue') : (queue'[i] = x /\ i = Len(queue')) \/ queue'[i] \in InQueue
<1>1. Len(queue') = Len(queue) + 1 /\ Len(queue) \in Nat
  OBVIOUS
<1>2. \A i \in 1 .. Len(queue') : queue'[i] = IF i = Len(queue') THEN x ELSE queue[i]
  OBVIOUS
<1>3. QED
  BY <1>1, <1>2 DEF InQueue

LEMMA EvalEndInv == ASSUME EndInv, NEW e \in Evals, Eval(e) PROVE EndInv'
<1> USE DEF EndInv
<1>1. IInv'
  BY EvalIInv
<1>2. UNCHANGED serve /\ UNCHANGED <<writing, written>>
  BY DEF Eval, Request, Skip, TryStart, Count, Enter, NoRecord, Record, Leave, Notify,
         ReleasePending, ReleaseSlot, writer
<1>3. Ends'
  <2>1. CASE ~forced /\ phase \notin {"serving", "stopping"}
    BY <1>2, <2>1, StaysOver DEF Ends, IInv, serve
  <2>2. CASE forced \/ phase \in {"serving", "stopping"}
    BY <1>2, <2>2 DEF Ends, serve
  <2>3. QED
    BY <2>1, <2>2
<1>4. CASE UNCHANGED <<queue, recorded>> /\ lost \subseteq lost'
  <2>1. InQueue' = InQueue
    BY <1>4 DEF InQueue
  <2>2. QED
    BY <1>1, <1>2, <1>3, <1>4, <2>1 DEF FlushLast, Kept, serve
<1>5. CASE queue' = Append(queue, e) /\ recorded' = recorded \cup {e} /\ UNCHANGED lost
  <2>1. InQueue' = InQueue \cup {e}
    BY <1>5, Appended DEF IInv, TypeOK
  <2>2. Kept'
    BY <1>2, <1>5, <2>1 DEF Kept
  <2>3. forced \/ ~drained
    <3>1. SUFFICES ASSUME ~forced, drained PROVE FALSE
      OBVIOUS
    <3>2. UNCHANGED writer
      BY <3>1, StaysOver DEF Ends, IInv
    <3>3. QED
      BY <1>5, <3>2, Appended DEF writer, IInv, TypeOK
  <2>4. FlushLast'
    BY <1>2, <2>1, <2>3, ShutdownAssumption DEF FlushLast, serve
  <2>5. QED
    BY <1>1, <1>3, <2>2, <2>4
<1>6. QED
  BY <1>4, <1>5 DEF Eval, Request, Skip, TryStart, Count, Enter, NoRecord, Record, Leave, Notify,
                    ReleasePending, ReleaseSlot, writer

LEMMA ServeEndInv ==
  ASSUME EndInv, Signal \/ Serve \/ Tick \/ Take \/ AppendRecord \/ StoreJobs
  PROVE  EndInv'
<1> USE DEF EndInv
<1>1. IInv'
  BY ServeIInv
<1>2. \A S : At(S)' = At(S)
  <2>1. UNCHANGED pc
    BY DEF Signal, Serve, Tick, Take, AppendRecord, StoreJobs, JobStarts, JobEnds, ServerStops,
           ForceStop, Check, CreateNotified, Wake, DrainTimesOut, FlushSend, Return, Exit
  <2>2. QED
    BY <2>1 DEF At
<1>3. Ends'
  <2>1. CASE ServerStops \/ ForceStop
    BY <1>2, <2>1 DEF ServerStops, ForceStop, Begin, Ends
  <2>2. ASSUME NEW from \in {"check", "recheck"}, NEW to, Check(from, to), active = 0 PROVE Ends'
    <3>1. At(Counted) = {}
      BY <2>2, AtFinite, FS_EmptySet DEF IInv, TasksBounded
    <3>2. QED
      BY <1>2, <2>2, <3>1 DEF Check, Begin, Ends
  <2>3. ASSUME NEW from \in {"check", "recheck"}, NEW to, Check(from, to), active # 0 PROVE Ends'
    BY <1>2, <2>3 DEF Check, Ends
  <2>4. CASE Signal \/ CreateNotified \/ Wake \/ DrainTimesOut \/ FlushSend \/ Return \/ Exit
    BY <1>2, <2>4 DEF Signal, CreateNotified, Wake, DrainTimesOut, FlushSend, Return, Exit, Begin, Ends
  <2>5. CASE Tick \/ Take \/ AppendRecord \/ StoreJobs
    BY <1>2, <2>5 DEF Tick, Take, AppendRecord, StoreJobs, JobStarts, JobEnds, serve, Ends
  <2>6. QED
    BY <2>1, <2>2, <2>3, <2>4, <2>5 DEF Serve
<1>4. ASSUME UNCHANGED <<queue, writing, recorded, written, lost, flushed>>,
             phase \in {"flushing", "returned", "exited"}
               => phase' \in {"flushing", "returned", "exited"} /\ UNCHANGED <<forced, drained>>
      PROVE  EndInv'
  <2>1. InQueue' = InQueue
    BY <1>4 DEF InQueue
  <2>2. FlushLast'
    <3>1. CASE phase \in {"flushing", "returned", "exited"}
      BY <1>4, <2>1, <3>1 DEF FlushLast
    <3>2. CASE phase \notin {"flushing", "returned", "exited"}
      BY <1>4, <2>1, <3>2 DEF FlushLast, InQueue
    <3>3. QED
      BY <3>1, <3>2
  <2>3. Kept'
    BY <1>4, <2>1 DEF Kept
  <2>4. QED
    BY <1>1, <1>3, <2>2, <2>3
<1>5. CASE Signal \/ Tick \/ StoreJobs \/ (Serve /\ ~FlushSend)
  BY <1>4, <1>5 DEF Signal, Serve, serve, Tick, StoreJobs, JobStarts, JobEnds, ServerStops, ForceStop, Check, CreateNotified, Wake,
                    DrainTimesOut, Return, Exit, writer
<1>6. CASE FlushSend
  <2>1. InQueue' = InQueue \cup {Nobody}
    BY <1>6, Appended DEF FlushSend, IInv, TypeOK
  <2>2. \A i \in 1 .. Len(queue') : queue'[i] = Nobody => i = Len(queue')
    <3>1. Nobody \notin InQueue
      BY <1>6 DEF FlushSend, FlushLast
    <3>2. \A i \in 1 .. Len(queue') :
            (queue'[i] = Nobody /\ i = Len(queue')) \/ queue'[i] \in InQueue
      BY <1>6, Appended DEF FlushSend, IInv, TypeOK
    <3>3. QED
      BY <3>1, <3>2
  <2>3. FlushLast'
    <3>1. ~flushed /\ UNCHANGED <<flushed, forced, drained>> /\ phase' = "flushing"
      BY <1>6 DEF FlushSend, FlushLast
    <3>2. QED
      BY <2>2, <3>1 DEF FlushLast
  <2>4. Kept'
    BY <1>6, <2>1 DEF FlushSend, Kept
  <2>5. QED
    BY <1>1, <1>3, <2>3, <2>4
<1>7. CASE Take
  <2>1. queue \in Seq(Evals \cup {Nobody}) /\ queue # <<>>
    BY <1>7 DEF Take, IInv, TypeOK
  <2>2. /\ Len(queue') = Len(queue) - 1 /\ Len(queue) \in Nat \ {0}
        /\ \A i \in 1 .. Len(queue') : queue'[i] = queue[i + 1]
        /\ Head(queue) = queue[1]
    BY <1>7, <2>1 DEF Take
  <2>3. InQueue \subseteq InQueue' \cup {Head(queue)} /\ InQueue' \subseteq InQueue
    <3>1. ASSUME NEW i \in 1 .. Len(queue) PROVE queue[i] \in InQueue' \cup {Head(queue)}
      <4>1. CASE i = 1
        BY <2>2, <4>1
      <4>2. CASE i # 1
        <5>1. i - 1 \in 1 .. Len(queue') /\ queue'[i - 1] = queue[i]
          BY <2>2, <4>2
        <5>2. QED
          BY <5>1 DEF InQueue
      <4>3. QED
        BY <4>1, <4>2
    <3>2. ASSUME NEW i \in 1 .. Len(queue') PROVE queue'[i] \in InQueue
      <4>1. i + 1 \in 1 .. Len(queue) /\ queue'[i] = queue[i + 1]
        BY <2>2
      <4>2. QED
        BY <4>1 DEF InQueue
    <3>3. QED
      BY <3>1, <3>2 DEF InQueue
  <2>4. Kept'
    <3>1. Nobody \notin recorded
      BY ShutdownAssumption DEF IInv, TypeOK
    <3>2. QED
      BY <1>7, <2>3, <3>1 DEF Take, Kept
  <2>5. FlushLast'
    <3>1. CASE Head(queue) = Nobody
      <4>1. flushed' /\ UNCHANGED <<writing, phase, forced, drained>> /\ writing = Nobody
        BY <1>7, <3>1 DEF Take
      <4>2. phase \in {"flushing", "returned", "exited"}
        BY <2>2, <3>1 DEF FlushLast, InQueue
      <4>3. ~forced /\ drained => Len(queue) = 1
        BY <2>2, <3>1 DEF FlushLast
      <4>4. ~forced /\ drained => queue' = <<>>
        BY <1>7, <2>1, <2>2, <4>3 DEF Take
      <4>5. QED
        BY <4>1, <4>2, <4>4 DEF FlushLast
    <3>2. CASE Head(queue) # Nobody
      <4>1. UNCHANGED <<flushed, phase, forced, drained>>
        BY <1>7, <3>2 DEF Take
      <4>2. ~forced /\ drained => \A i \in 1 .. Len(queue') : queue'[i] = Nobody => i = Len(queue')
        BY <2>2, <4>1 DEF FlushLast
      <4>3. ~(~forced /\ drained /\ flushed)
        BY <2>1 DEF FlushLast
      <4>4. QED
        BY <2>3, <4>1, <4>2, <4>3 DEF FlushLast
    <3>3. QED
      BY <3>1, <3>2
  <2>6. QED
    BY <1>1, <1>3, <2>4, <2>5
<1>8. CASE AppendRecord
  <2>1. InQueue' = InQueue
    BY <1>8 DEF AppendRecord, InQueue
  <2>2. FlushLast' /\ Kept'
    BY <1>8, <2>1 DEF AppendRecord, serve, FlushLast, Kept
  <2>3. QED
    BY <1>1, <1>3, <2>2
<1>9. QED
  BY <1>5, <1>6, <1>7, <1>8

LEMMA EndInvariant == Spec => []EndInv
<1>1. Init => EndInv
  BY InitIInv, ShutdownAssumption
     DEF Init, EndInv, Ends, FlushLast, Kept, At, InHandler, Counted, InQueue
<1>2. EndInv /\ [Next]_vars => EndInv'
  <2> SUFFICES ASSUME EndInv, [Next]_vars PROVE EndInv'
    OBVIOUS
  <2>1. CASE Next
    BY <2>1, EvalEndInv, ServeEndInv DEF Next
  <2>2. CASE UNCHANGED vars
    BY <2>2, NextIInv DEF vars, tasks, serve, writer, EndInv, Ends, FlushLast, Kept, At, InQueue
  <2>3. QED
    BY <2>1, <2>2
<1>3. QED
  BY <1>1, <1>2, PTL DEF Spec

\* When the server stopped by itself, drain found nothing active and flush was
\* answered, no evaluation is cut off and every record accepted was appended or
\* counted as an error.
THEOREM NothingIsLost == Spec => []NothingLost
<1>1. EndInv => NothingLost
  <2> SUFFICES ASSUME EndInv, phase \in Stopped, ~forced, drained, flushed
               PROVE  At(InHandler \cup Counted) = {} /\ recorded \subseteq written \cup lost
    BY DEF NothingLost
  <2>1. At(InHandler \cup Counted) = {}
    BY DEF EndInv, Ends, At
  <2>2. InQueue = {} /\ writing = Nobody
    BY DEF EndInv, FlushLast, InQueue
  <2>3. Nobody \notin recorded
    BY ShutdownAssumption DEF EndInv, IInv, TypeOK
  <2>4. QED
    BY <2>1, <2>2, <2>3 DEF EndInv, Kept
<1>2. QED
  BY <1>1, EndInvariant, PTL

\* The permits of background evaluations are neither lost nor counted twice,
\* drain's count is right, and no wakeup is lost (BackgroundTasks, server.rs).
THEOREM TasksAreSound == Spec => []TasksSound
<1>1. IInv => TasksSound BY DEF IInv, TasksSound
<1>2. QED BY <1>1, Invariant, PTL
-----------------------------------------------------------------------------
(* The journal.  Every step of it is a step of Shutdown or none, so what is    *)
(* proved above holds of it; and its counters count sets: what was sent and    *)
(* what failed, each record in one place on its way.                          *)

LEMMA JournalStep == JournalNext => [Next]_vars
BY DEF JournalNext, Sent, CountAccepted, Left, Otherwise, AppendLine, Next, Eval

\* With its files and counters the writer is that of Shutdown.
THEOREM JournalRefines == JournalSpec => Spec
<1>1. JournalInit => Init BY DEF JournalInit
<1>2. [JournalNext]_<<vars, journal>> => [Next]_vars BY JournalStep DEF vars
<1>3. QED BY <1>1, <1>2, PTL DEF JournalSpec, Spec

Disposed == {"leaving", "left", "notified", "released", "done"}
Failed == recorded \cap lost

Counts ==
  /\ accepted \in Nat /\ errors \in Nat
  /\ accepted + Cardinality(uncounted) = Cardinality(recorded)
  /\ errors = Cardinality(Failed)

Sendable ==
  /\ uncounted \subseteq recorded
  /\ \A e \in uncounted : pc[e] = "leaving"
  /\ \A e \in recorded \cup lost : pc[e] \in Disposed

OnTheWay ==
  /\ written \subseteq recorded /\ written \cap lost = {}
  /\ writing # Nobody => writing \in recorded /\ writing \notin written \cup lost
  /\ \A i \in 1 .. Len(queue) : queue[i] # Nobody =>
       queue[i] \in recorded /\ queue[i] # writing /\ queue[i] \notin written \cup lost
  /\ \A i, j \in 1 .. Len(queue) : queue[i] = queue[j] /\ queue[i] # Nobody => i = j

BooksInv == TypeOK /\ Counts /\ Sendable /\ OnTheWay

LEMMA Countable ==
  ASSUME TypeOK, NEW S, S \subseteq Evals
  PROVE  /\ IsFiniteSet(S) /\ Cardinality(S) \in Nat
         /\ \A e \in Evals : e \notin S => Cardinality(S \cup {e}) = Cardinality(S) + 1
         /\ \A e \in S : Cardinality(S \ {e}) = Cardinality(S) - 1
<1>1. IsFiniteSet(S) BY FS_Subset, ShutdownAssumption
<1>2. QED BY <1>1, FS_CardinalityType, FS_AddElement, FS_RemoveElement

LEMMA SentBooks == ASSUME BooksInv, TypeOK', NEW e \in Evals, Sent(e) PROVE BooksInv'
<1>1. /\ pc[e] = "running" /\ pc' = [pc EXCEPT ![e] = "leaving"] /\ e \notin recorded \cup lost
      /\ UNCHANGED <<writing, written, accepted, errors>>
      /\ uncounted' = uncounted \cup (recorded' \ recorded)
  BY DEF BooksInv, Sendable, Sent, Record, Move, Disposed
<1>2. CASE queue' = Append(queue, e) /\ recorded' = recorded \cup {e} /\ UNCHANGED lost
  <2>1. uncounted' = uncounted \cup {e} /\ Failed' = Failed /\ e \notin uncounted
    BY <1>1, <1>2 DEF Failed, BooksInv, Sendable
  <2>2. Counts'
    <3>1. /\ Cardinality(recorded') = Cardinality(recorded) + 1
          /\ Cardinality(uncounted') = Cardinality(uncounted) + 1
          /\ Cardinality(recorded) \in Nat /\ Cardinality(uncounted) \in Nat
      BY <1>1, <1>2, <2>1, Countable DEF BooksInv, TypeOK, Sendable
    <3>2. QED BY <1>1, <2>1, <3>1 DEF BooksInv, Counts
  <2>3. Sendable' BY <1>1, <1>2, <2>1 DEF BooksInv, Sendable, TypeOK, Disposed
  <2>4. \A i \in 1 .. Len(queue') :
          IF i = Len(queue) + 1 THEN queue'[i] = e ELSE i \in 1 .. Len(queue) /\ queue'[i] = queue[i]
    <3>1. queue \in Seq(Evals \cup {Nobody}) BY DEF BooksInv, TypeOK
    <3>2. Len(queue') = Len(queue) + 1 BY <1>2, <3>1
    <3>3. QED BY <1>2, <3>1, <3>2
  <2>5. \A i \in 1 .. Len(queue) : queue[i] # e
    BY <1>1, ShutdownAssumption DEF BooksInv, OnTheWay
  <2>6. writing # e
    BY <1>1, ShutdownAssumption DEF BooksInv, OnTheWay
  <2>7. OnTheWay'
    <3>1. written' \subseteq recorded' /\ written' \cap lost' = {}
      BY <1>1, <1>2 DEF BooksInv, OnTheWay
    <3>2. writing' # Nobody => writing' \in recorded' /\ writing' \notin written' \cup lost'
      BY <1>1, <1>2 DEF BooksInv, OnTheWay
    <3>3. ASSUME NEW i \in 1 .. Len(queue'), queue'[i] # Nobody
          PROVE  queue'[i] \in recorded' /\ queue'[i] # writing' /\ queue'[i] \notin written' \cup lost'
      BY <1>1, <1>2, <2>4, <2>6, <3>3 DEF BooksInv, OnTheWay
    <3>4. ASSUME NEW i \in 1 .. Len(queue'), NEW j \in 1 .. Len(queue'),
                 queue'[i] = queue'[j], queue'[i] # Nobody
          PROVE  i = j
      BY <2>4, <2>5, <3>4 DEF BooksInv, OnTheWay
    <3>5. QED BY <3>1, <3>2, <3>3, <3>4 DEF OnTheWay
  <2>8. QED BY <2>2, <2>3, <2>7 DEF BooksInv
<1>3. CASE lost' = lost \cup {e} /\ UNCHANGED <<queue, recorded>>
  <2>1. UNCHANGED <<uncounted, recorded, Failed>>
    BY <1>1, <1>3 DEF Failed
  <2>2. Counts' BY <1>1, <2>1 DEF BooksInv, Counts
  <2>3. Sendable' BY <1>1, <1>3, <2>1 DEF BooksInv, Sendable, TypeOK, Disposed
  <2>4. OnTheWay' BY <1>1, <1>3 DEF BooksInv, OnTheWay
  <2>5. QED BY <2>2, <2>3, <2>4 DEF BooksInv
<1>4. QED BY <1>2, <1>3 DEF Sent, Record

LEMMA CountedBooks == ASSUME BooksInv, TypeOK', NEW e \in Evals, CountAccepted(e) PROVE BooksInv'
<1>1. /\ e \in uncounted /\ uncounted' = uncounted \ {e} /\ accepted' = accepted + 1
      /\ UNCHANGED <<pc, recorded, lost, errors, queue, writing, written>>
  BY DEF CountAccepted, vars, writer
<1>2. /\ Cardinality(uncounted') = Cardinality(uncounted) - 1 /\ Cardinality(uncounted) \in Nat
      /\ Cardinality(recorded) \in Nat
  BY <1>1, Countable DEF BooksInv, TypeOK, Sendable
<1>3. Counts' BY <1>1, <1>2 DEF BooksInv, Counts, Failed
<1>4. Sendable' BY <1>1 DEF BooksInv, Sendable
<1>5. OnTheWay' BY <1>1 DEF BooksInv, OnTheWay
<1>6. QED BY <1>3, <1>4, <1>5 DEF BooksInv

\* The steps that touch neither a record nor a counter.
LEMMA ElsewhereBooks ==
  ASSUME BooksInv, TypeOK', UNCHANGED journal,
         UNCHANGED <<writing, recorded, written, lost>>,
         queue' = queue \/ queue' = Append(queue, Nobody),
         \A e \in Evals : /\ pc[e] \in Disposed => pc'[e] \in Disposed
                          /\ pc[e] = "leaving" /\ e \in uncounted => pc'[e] = "leaving"
  PROVE  BooksInv'
<1>1. Counts' BY DEF BooksInv, Counts, Failed, journal
<1>2. Sendable' BY DEF BooksInv, Sendable, journal, TypeOK
<1>3. \A i \in 1 .. Len(queue') :
        queue'[i] # Nobody => i \in 1 .. Len(queue) /\ queue'[i] = queue[i]
  <2>1. queue \in Seq(Evals \cup {Nobody})
    BY DEF BooksInv, TypeOK
  <2>2. CASE queue' = queue
    BY <2>2
  <2>3. CASE queue' = Append(queue, Nobody)
    <3>1. /\ Len(queue') = Len(queue) + 1 /\ Len(queue) \in Nat
          /\ queue'[Len(queue) + 1] = Nobody
          /\ \A i \in 1 .. Len(queue) : queue'[i] = queue[i]
      BY <2>1, <2>3
    <3>2. QED BY <3>1
  <2>4. QED BY <2>2, <2>3
<1>4. OnTheWay' BY <1>3 DEF BooksInv, OnTheWay
<1>5. QED BY <1>1, <1>2, <1>4 DEF BooksInv

LEMMA AppendBooks == ASSUME BooksInv, TypeOK', AppendLine PROVE BooksInv'
<1>1. /\ writing # Nobody /\ writing' = Nobody
      /\ UNCHANGED <<pc, queue, recorded, uncounted, accepted>>
      /\ writing \in recorded /\ writing \notin written \cup lost
  BY DEF AppendLine, AppendRecord, BooksInv, OnTheWay
<1>2. Sendable'
  BY <1>1 DEF AppendLine, AppendRecord, BooksInv, Sendable
<1>3. OnTheWay'
  <2>1. \A i \in 1 .. Len(queue) : queue[i] # writing \/ queue[i] = Nobody
    BY <1>1 DEF BooksInv, OnTheWay
  <2>2. /\ written' \subseteq recorded' /\ written' \cap lost' = {}
        /\ written' \cup lost' = written \cup lost \cup {writing}
    BY <1>1 DEF AppendLine, AppendRecord, BooksInv, OnTheWay
  <2>3. QED BY <1>1, <2>1, <2>2 DEF BooksInv, OnTheWay
<1>4. CASE written' = written \cup {writing} /\ UNCHANGED <<lost, errors>>
  <2>1. Counts' BY <1>1, <1>4 DEF BooksInv, Counts, Failed
  <2>2. QED BY <1>2, <1>3, <2>1 DEF BooksInv
<1>5. CASE lost' = lost \cup {writing} /\ errors' = errors + 1
  <2>1. Failed' = Failed \cup {writing} /\ writing \notin Failed /\ writing \in Evals
    BY <1>1, <1>5, ShutdownAssumption DEF Failed, BooksInv, TypeOK
  <2>2. Cardinality(Failed') = Cardinality(Failed) + 1 /\ Cardinality(Failed) \in Nat
    <3>1. Failed \subseteq Evals BY DEF Failed, BooksInv, TypeOK
    <3>2. QED BY <2>1, <3>1, Countable DEF BooksInv
  <2>3. Counts' BY <1>1, <1>5, <2>2 DEF BooksInv, Counts
  <2>4. QED BY <1>2, <1>3, <2>3 DEF BooksInv
<1>6. (written' = written \cup {writing} /\ UNCHANGED <<lost, errors>>)
        \/ (lost' = lost \cup {writing} /\ errors' = errors + 1)
  BY <1>1 DEF AppendLine, AppendRecord
<1>7. QED BY <1>4, <1>5, <1>6

LEMMA TakeBooks == ASSUME BooksInv, TypeOK', Take, UNCHANGED journal PROVE BooksInv'
<1>1. /\ writing = Nobody /\ queue # <<>> /\ queue' = Tail(queue)
      /\ writing' = Head(queue)
      /\ UNCHANGED <<pc, recorded, written, lost>>
  BY DEF Take
<1>2. Head(queue) = queue[1] /\ \A i \in 1 .. Len(queue') : i + 1 \in 1 .. Len(queue) /\ queue'[i] = queue[i + 1]
  <2>1. queue \in Seq(Evals \cup {Nobody}) BY DEF BooksInv, TypeOK
  <2>2. QED BY <1>1, <2>1
<1>3. 1 \in 1 .. Len(queue)
  <2>1. queue \in Seq(Evals \cup {Nobody}) BY DEF BooksInv, TypeOK
  <2>2. QED BY <1>1, <2>1
<1>4. Counts' BY <1>1 DEF BooksInv, Counts, Failed, journal
<1>5. Sendable' BY <1>1 DEF BooksInv, Sendable, journal
<1>6. OnTheWay'
  <2>1. written' \subseteq recorded' /\ written' \cap lost' = {}
    BY <1>1 DEF BooksInv, OnTheWay
  <2>2. writing' # Nobody => writing' \in recorded' /\ writing' \notin written' \cup lost'
    BY <1>1, <1>2, <1>3 DEF BooksInv, OnTheWay
  <2>3. ASSUME NEW i \in 1 .. Len(queue'), queue'[i] # Nobody
        PROVE  queue'[i] \in recorded' /\ queue'[i] # writing' /\ queue'[i] \notin written' \cup lost'
    <3>1. i + 1 # 1 BY <2>3
    <3>2. QED BY <1>1, <1>2, <1>3, <2>3, <3>1 DEF BooksInv, OnTheWay
  <2>4. ASSUME NEW i \in 1 .. Len(queue'), NEW j \in 1 .. Len(queue'),
               queue'[i] = queue'[j], queue'[i] # Nobody
        PROVE  i = j
    <3>1. i + 1 = j + 1 BY <1>2, <2>4 DEF BooksInv, OnTheWay
    <3>2. QED BY <3>1
  <2>5. QED BY <2>1, <2>2, <2>3, <2>4 DEF OnTheWay
<1>7. QED BY <1>4, <1>5, <1>6 DEF BooksInv

LEMMA BooksInvariant == JournalSpec => []BooksInv
<1>1. JournalInit => BooksInv
  <2>1. SUFFICES ASSUME JournalInit PROVE BooksInv OBVIOUS
  <2>2. TypeOK BY <2>1, InitIInv DEF JournalInit, IInv
  <2>3. Cardinality({}) = 0 BY FS_EmptySet
  <2>4. Failed = {} BY <2>1 DEF JournalInit, Init, Failed
  <2>5. Counts BY <2>1, <2>3, <2>4 DEF JournalInit, Init, Counts
  <2>6. QED BY <2>1, <2>2, <2>5 DEF JournalInit, Init, BooksInv, Sendable, OnTheWay
<1>2. BooksInv /\ TypeOK' /\ [JournalNext]_<<vars, journal>> => BooksInv'
  <2>1. SUFFICES ASSUME BooksInv, TypeOK', [JournalNext]_<<vars, journal>> PROVE BooksInv' OBVIOUS
  <2>2. CASE \E e \in Evals : Sent(e) \/ CountAccepted(e)
    BY <2>1, <2>2, SentBooks, CountedBooks
  <2>3. ASSUME NEW e \in Evals, Left(e) PROVE BooksInv'
    <3>1. /\ UNCHANGED journal /\ UNCHANGED <<queue, writing, recorded, written, lost>>
          /\ e \notin uncounted /\ pc' = [pc EXCEPT ![e] = "left"]
      BY <2>3 DEF Left, Leave, Move, writer
    <3>2. QED BY <2>1, <3>1, ElsewhereBooks DEF Disposed, BooksInv, TypeOK
  <2>4. ASSUME NEW e \in Evals, Otherwise(e) PROVE BooksInv'
    <3>1. UNCHANGED journal /\ UNCHANGED <<queue, writing, recorded, written, lost>>
      BY <2>4 DEF Otherwise, Request, Skip, TryStart, Count, Enter, NoRecord, Notify,
                  ReleasePending, ReleaseSlot, writer
    <3>2. /\ pc[e] # "leaving"
          /\ pc[e] \in Disposed => \E to \in Disposed : pc' = [pc EXCEPT ![e] = to]
          /\ \E to : pc' = [pc EXCEPT ![e] = to]
      BY <2>4 DEF Otherwise, Request, Skip, TryStart, Count, Enter, NoRecord, Notify,
                  ReleasePending, ReleaseSlot, Move, Disposed
    <3>3. \A x \in Evals : /\ pc[x] \in Disposed => pc'[x] \in Disposed
                           /\ pc[x] = "leaving" /\ x \in uncounted => pc'[x] = "leaving"
      <4>1. e \in DOMAIN pc /\ \A x \in Evals : x \in DOMAIN pc
        BY <2>1 DEF BooksInv, TypeOK
      <4>2. \A x \in Evals : x # e => pc'[x] = pc[x]
        BY <3>2, <4>1
      <4>3. pc[e] \in Disposed => pc'[e] \in Disposed
        BY <3>2, <4>1
      <4>4. QED BY <3>2, <4>2, <4>3
    <3>4. QED BY <2>1, <3>1, <3>3, ElsewhereBooks
  <2>5. CASE AppendLine BY <2>1, <2>5, AppendBooks
  <2>6. CASE Take /\ UNCHANGED journal BY <2>1, <2>6, TakeBooks
  <2>7. CASE (Signal \/ Serve \/ Tick \/ StoreJobs \/ UNCHANGED vars) /\ UNCHANGED journal
    <3>1. /\ UNCHANGED <<pc, writing, recorded, written, lost>>
          /\ queue' = queue \/ queue' = Append(queue, Nobody)
      BY <2>7 DEF Signal, Serve, serve, Tick, StoreJobs, JobStarts, JobEnds, ServerStops, ForceStop, Check, CreateNotified, Wake,
                  DrainTimesOut, FlushSend, Return, Exit, writer, vars
    <3>2. QED BY <2>1, <2>7, <3>1, ElsewhereBooks
  <2>8. QED BY <2>1, <2>2, <2>3, <2>4, <2>5, <2>6, <2>7 DEF JournalNext
<1>3. QED
  BY <1>1, <1>2, JournalRefines, TypeCorrect, PTL DEF JournalSpec

\* After a shutdown in time the counters that are logged are those of one moment.
THEOREM CountersExact == JournalSpec => []StatsExact
<1>1. BooksInv /\ NothingLost => StatsExact
  <2>1. SUFFICES ASSUME BooksInv, NothingLost, phase \in Stopped, ~forced, drained, flushed
                 PROVE  accepted = Cardinality(written) + errors
    BY DEF StatsExact
  <2>2. At(InHandler \cup Counted) = {} /\ recorded \subseteq written \cup lost
    BY <2>1 DEF NothingLost
  <2>3. uncounted = {}
    <3>1. \A e \in uncounted : e \in Evals /\ pc[e] = "leaving"
      BY <2>1 DEF BooksInv, Sendable, TypeOK
    <3>2. QED BY <2>2, <3>1 DEF At, Counted
  <2>4. recorded = written \cup Failed /\ written \cap Failed = {}
    BY <2>1, <2>2 DEF Failed, BooksInv, OnTheWay
  <2>5. /\ IsFiniteSet(written) /\ IsFiniteSet(Failed)
        /\ Cardinality(written) \in Nat /\ Cardinality(Failed) \in Nat
    <3>1. written \subseteq Evals /\ Failed \subseteq Evals BY <2>1 DEF BooksInv, TypeOK, Failed
    <3>2. QED BY <2>1, <3>1, Countable DEF BooksInv
  <2>6. Cardinality(recorded) = Cardinality(written) + Cardinality(Failed)
    BY <2>4, <2>5, FS_Union, FS_EmptySet
  <2>7. Cardinality(uncounted) = 0 BY <2>3, FS_EmptySet
  <2>8. QED BY <2>1, <2>6, <2>7 DEF BooksInv, Counts
<1>2. QED
  BY <1>1, BooksInvariant, JournalRefines, NothingIsLost, PTL
-----------------------------------------------------------------------------
(* The files.  A record climbs at most one file with each rotation begun, and  *)
(* only from the last is there a way out; and no file has more lines than      *)
(* records were written or failed.                                          *)

Files == [0 .. Retained -> Seq(Evals \cup {Torn})]

\* Every line of f is one of S or torn, and no file of it has more than n.
Within(f, S, n) ==
  \A i \in 0 .. Retained : /\ Len(f[i]) <= n
                           /\ \A k \in DOMAIN f[i] : f[i][k] \in S \cup {Torn}

Single(f) ==
  \A i, j \in 0 .. Retained : \A k \in DOMAIN f[i], l \in DOMAIN f[j] :
    f[i][k] = f[j][l] /\ f[i][k] # Torn => i = j /\ k = l

\* A record of S is no further up than b rotations can have taken it.
Findable(f, b, S) ==
  \A e \in S :
    b[e] > Retained \/ \E i \in 0 .. Retained : i <= b[e] /\ \E k \in DOMAIN f[i] : f[i][k] = e

OnFile(f, b, S, n) ==
  f \in Files /\ b \in [Evals -> Nat] /\ Within(f, S, n) /\ Single(f) /\ Findable(f, b, S)

FilesInv == OnFile(files, begun, written, Cardinality(written) + errors)

\* Where the files of a rotation come from: it stops with one gone, and no two
\* that are there come from the same.
LEMMA RenamedFrom ==
  ASSUME NEW f \in Files, NEW n \in 0 .. Retained
  PROVE  /\ Renamed(f, n) \in Files
         /\ \A i \in 0 .. Retained :
              \/ Renamed(f, n)[i] = <<>>
              \/ /\ i <= Retained - n - 1 /\ Renamed(f, n)[i] = f[i]
              \/ /\ i >= Retained - n + 1 /\ i - 1 \in 0 .. Retained /\ Renamed(f, n)[i] = f[i - 1]
         /\ \A j \in 0 .. Retained - 1 :
              \E i \in 0 .. Retained : i <= j + 1 /\ Renamed(f, n)[i] = f[j]
<1> DEFINE r == Renamed(f, n)
<1>1. Retained \in Nat /\ n \in Nat /\ n <= Retained BY JournalAssumption
<1>2. /\ DOMAIN r = 0 .. Retained
      /\ \A i \in 0 .. Retained :
           /\ i > Retained - n => r[i] = f[i - 1]
           /\ i = Retained - n => r[i] = <<>>
           /\ i < Retained - n => r[i] = f[i]
  BY <1>1 DEF Renamed
<1>3. r = [i \in 0 .. Retained |-> r[i]] BY DEF Renamed
<1> HIDE DEF r
<1>4. \A i \in 0 .. Retained :
        \/ r[i] = <<>>
        \/ /\ i <= Retained - n - 1 /\ r[i] = f[i]
        \/ /\ i >= Retained - n + 1 /\ i - 1 \in 0 .. Retained /\ r[i] = f[i - 1]
  BY <1>1, <1>2
<1>5. \A i \in 0 .. Retained : r[i] \in Seq(Evals \cup {Torn})
  <2>1. \A i \in 0 .. Retained : r[i] = <<>> \/ \E j \in 0 .. Retained : r[i] = f[j] BY <1>4
  <2>2. \A j \in 0 .. Retained : f[j] \in Seq(Evals \cup {Torn}) BY DEF Files
  <2>3. <<>> \in Seq(Evals \cup {Torn}) OBVIOUS
  <2>4. QED BY <2>1, <2>2, <2>3
<1>6. r \in Files BY <1>3, <1>5 DEF Files
<1>7. ASSUME NEW j \in 0 .. Retained - 1
      PROVE  \E i \in 0 .. Retained : i <= j + 1 /\ r[i] = f[j]
  <2>1. CASE j < Retained - n
    BY <1>1, <1>2, <2>1
  <2>2. CASE j >= Retained - n
    <3>1. j + 1 \in 0 .. Retained /\ j + 1 > Retained - n /\ (j + 1) - 1 = j BY <1>1, <2>2
    <3>2. r[j + 1] = f[j] BY <1>2, <3>1
    <3>3. QED BY <3>1, <3>2
  <2>3. QED BY <1>1, <2>1, <2>2
<1>8. QED BY <1>4, <1>6, <1>7 DEF r

\* However far it comes, a rotation puts no record into two files, and takes only
\* those away that as many rotations as files are retained have moved.
LEMMA RotatedOnFile ==
  ASSUME NEW f, NEW b, NEW S \in SUBSET Evals, NEW m \in Nat, OnFile(f, b, S, m),
         NEW n \in 0 .. Retained
  PROVE  OnFile(Renamed(f, n), [e \in Evals |-> IF e \in S THEN b[e] + 1 ELSE b[e]], S, m)
<1> DEFINE r == Renamed(f, n)
           c == [e \in Evals |-> IF e \in S THEN b[e] + 1 ELSE b[e]]
<1>1. f \in Files /\ b \in [Evals -> Nat] /\ Within(f, S, m) /\ Single(f) /\ Findable(f, b, S)
  BY DEF OnFile
<1>2. Retained \in Nat /\ n \in Nat BY JournalAssumption
<1>3. /\ r \in Files
      /\ \A i \in 0 .. Retained :
           \/ r[i] = <<>>
           \/ /\ i <= Retained - n - 1 /\ r[i] = f[i]
           \/ /\ i >= Retained - n + 1 /\ i - 1 \in 0 .. Retained /\ r[i] = f[i - 1]
      /\ \A j \in 0 .. Retained - 1 : \E i \in 0 .. Retained : i <= j + 1 /\ r[i] = f[j]
  BY <1>1, RenamedFrom
<1>4. c \in [Evals -> Nat] /\ \A e \in S : e \in Evals /\ c[e] = b[e] + 1
  BY <1>1
<1> HIDE DEF r, c
<1>5. \A i \in 0 .. Retained : r[i] = <<>> \/ \E j \in 0 .. Retained : r[i] = f[j]
  BY <1>3
<1>6. Within(r, S, m)
  <2>1. Len(<<>>) = 0 /\ DOMAIN <<>> = {} OBVIOUS
  <2>2. QED BY <1>1, <1>5, <2>1 DEF Within
<1>7. Single(r)
  <2>1. SUFFICES ASSUME NEW i \in 0 .. Retained, NEW j \in 0 .. Retained,
                        NEW k \in DOMAIN r[i], NEW l \in DOMAIN r[j],
                        r[i][k] = r[j][l], r[i][k] # Torn
                 PROVE  i = j /\ k = l
    BY DEF Single
  <2>2. r[i] # <<>> /\ r[j] # <<>>
    <3>1. DOMAIN <<>> = {} OBVIOUS
    <3>2. QED BY <3>1
  <2>3. PICK x \in 0 .. Retained :
          /\ r[i] = f[x]
          /\ (x = i /\ i <= Retained - n - 1) \/ (x = i - 1 /\ i >= Retained - n + 1)
    BY <1>3, <2>2
  <2>4. PICK y \in 0 .. Retained :
          /\ r[j] = f[y]
          /\ (y = j /\ j <= Retained - n - 1) \/ (y = j - 1 /\ j >= Retained - n + 1)
    BY <1>3, <2>2
  <2>5. x = y /\ k = l BY <1>1, <2>1, <2>3, <2>4 DEF Single
  <2>6. i = j BY <1>2, <2>3, <2>4, <2>5
  <2>7. QED BY <2>5, <2>6
<1>8. Findable(r, c, S)
  <2>1. SUFFICES ASSUME NEW e \in S, ~(c[e] > Retained)
                 PROVE  \E i \in 0 .. Retained :
                          i <= c[e] /\ \E k \in DOMAIN r[i] : r[i][k] = e
    BY DEF Findable
  <2>2. b[e] \in Nat /\ c[e] = b[e] + 1 /\ b[e] < Retained BY <1>1, <1>2, <1>4, <2>1
  <2>3. PICK j \in 0 .. Retained : j <= b[e] /\ \E k \in DOMAIN f[j] : f[j][k] = e
    BY <1>1, <1>2, <2>2 DEF Findable
  <2>4. j \in 0 .. Retained - 1 BY <1>2, <2>2, <2>3
  <2>5. PICK i \in 0 .. Retained : i <= j + 1 /\ r[i] = f[j] BY <1>3, <2>4
  <2>6. i <= c[e] BY <1>2, <2>2, <2>3, <2>5
  <2>7. QED BY <2>3, <2>5, <2>6
<1>9. QED BY <1>3, <1>4, <1>6, <1>7, <1>8 DEF OnFile, r, c

\* A rotation that did not begin its renames is one more begun all the same.
LEMMA LaterOnFile ==
  ASSUME NEW f, NEW b, NEW S \in SUBSET Evals, NEW m \in Nat, OnFile(f, b, S, m)
  PROVE  OnFile(f, [e \in Evals |-> IF e \in S THEN b[e] + 1 ELSE b[e]], S, m)
<1> DEFINE c == [e \in Evals |-> IF e \in S THEN b[e] + 1 ELSE b[e]]
<1>1. c \in [Evals -> Nat] /\ \A e \in S : c[e] = b[e] + 1 /\ b[e] \in Nat
  BY DEF OnFile
<1> HIDE DEF c
<1>2. Findable(f, c, S)
  <2>1. SUFFICES ASSUME NEW e \in S, ~(c[e] > Retained)
                 PROVE  \E i \in 0 .. Retained :
                          i <= c[e] /\ \E k \in DOMAIN f[i] : f[i][k] = e
    BY DEF Findable
  <2>2. Retained \in Nat BY JournalAssumption
  <2>3. PICK j \in 0 .. Retained : j <= b[e] /\ \E k \in DOMAIN f[j] : f[j][k] = e
    BY <1>1, <2>1, <2>2 DEF OnFile, Findable
  <2>4. j <= c[e] BY <1>1, <2>2, <2>3
  <2>5. QED BY <2>3, <2>4
<1>3. QED BY <1>1, <1>2 DEF OnFile, c

\* One line more in the file that is written to.
LEMMA GrownOnFile ==
  ASSUME NEW f, NEW b, NEW S \in SUBSET Evals, NEW m \in Nat, OnFile(f, b, S, m),
         NEW x \in (Evals \ S) \cup {Torn}
  PROVE  OnFile([f EXCEPT ![0] = Append(@, x)], b, S \cup ({x} \ {Torn}), m + 1)
<1> DEFINE g == [f EXCEPT ![0] = Append(@, x)]
           T == S \cup ({x} \ {Torn})
<1>1. f \in Files /\ b \in [Evals -> Nat] /\ Within(f, S, m) /\ Single(f) /\ Findable(f, b, S)
  BY DEF OnFile
<1>2. Retained \in Nat /\ Torn \notin Evals /\ 0 \in 0 .. Retained BY JournalAssumption
<1>3. f[0] \in Seq(Evals \cup {Torn}) BY <1>1, <1>2 DEF Files
<1>4. g \in Files /\ g[0] = Append(f[0], x) /\ \A i \in 0 .. Retained : i # 0 => g[i] = f[i]
  BY <1>1, <1>2, <1>3 DEF Files
<1>5. /\ Len(g[0]) = Len(f[0]) + 1 /\ Len(f[0]) \in Nat
      /\ DOMAIN g[0] = 1 .. Len(f[0]) + 1 /\ DOMAIN f[0] = 1 .. Len(f[0])
      /\ g[0][Len(f[0]) + 1] = x
      /\ \A k \in DOMAIN f[0] : g[0][k] = f[0][k]
  BY <1>3, <1>4
<1> HIDE DEF g
<1>6. \A i \in 0 .. Retained : \A k \in DOMAIN g[i] :
        \/ k \in DOMAIN f[i] /\ g[i][k] = f[i][k]
        \/ i = 0 /\ k = Len(f[0]) + 1 /\ g[i][k] = x
  BY <1>4, <1>5
<1>7. Within(g, T, m + 1)
  <2>1. ASSUME NEW i \in 0 .. Retained PROVE Len(g[i]) <= m + 1
    <3>1. Len(f[i]) <= m /\ Len(f[i]) \in Nat BY <1>1 DEF Within, Files
    <3>2. QED BY <1>4, <1>5, <3>1
  <2>2. QED BY <1>1, <1>6, <2>1 DEF Within
<1>8. Single(g)
  <2>1. \A i \in 0 .. Retained : \A k \in DOMAIN f[i] : x # Torn => f[i][k] # x
    BY <1>1, <1>2 DEF Within
  <2>2. SUFFICES ASSUME NEW i \in 0 .. Retained, NEW j \in 0 .. Retained,
                        NEW k \in DOMAIN g[i], NEW l \in DOMAIN g[j],
                        g[i][k] = g[j][l], g[i][k] # Torn
                 PROVE  i = j /\ k = l
    BY DEF Single
  <2>3. CASE k \in DOMAIN f[i] /\ g[i][k] = f[i][k]
    <3>1. l \in DOMAIN f[j] /\ g[j][l] = f[j][l] BY <1>6, <2>1, <2>2, <2>3
    <3>2. f[i][k] = f[j][l] /\ f[i][k] # Torn BY <2>2, <2>3, <3>1
    <3>3. QED BY <1>1, <2>3, <3>1, <3>2 DEF Single
  <2>4. CASE i = 0 /\ k = Len(f[0]) + 1 /\ g[i][k] = x
    <3>1. j = 0 /\ l = Len(f[0]) + 1 BY <1>6, <2>1, <2>2, <2>4
    <3>2. QED BY <2>4, <3>1
  <2>5. QED BY <1>6, <2>3, <2>4
<1>9. Findable(g, b, T)
  <2>1. SUFFICES ASSUME NEW e \in T, ~(b[e] > Retained)
                 PROVE  \E i \in 0 .. Retained : i <= b[e] /\ \E k \in DOMAIN g[i] : g[i][k] = e
    BY DEF Findable
  <2>2. CASE e \in S
    <3>1. PICK i \in 0 .. Retained : i <= b[e] /\ \E k \in DOMAIN f[i] : f[i][k] = e
      BY <1>1, <2>1, <2>2 DEF Findable
    <3>2. PICK k \in DOMAIN f[i] : f[i][k] = e BY <3>1
    <3>3. k \in DOMAIN g[i] /\ g[i][k] = e BY <1>4, <1>5, <3>2
    <3>4. QED BY <3>1, <3>3
  <2>3. CASE e = x /\ x # Torn
    <3>1. b[e] \in Nat /\ 0 <= b[e] BY <1>1, <2>3
    <3>2. Len(f[0]) + 1 \in DOMAIN g[0] BY <1>5
    <3>3. QED BY <1>2, <1>5, <2>3, <3>1, <3>2
  <2>4. QED BY <2>2, <2>3
<1>10. QED BY <1>1, <1>4, <1>7, <1>8, <1>9 DEF OnFile, g, T

LEMMA FewerOnFile ==
  ASSUME NEW f, NEW b, NEW S, NEW m \in Nat, NEW n \in Nat, m <= n, OnFile(f, b, S, m)
  PROVE  OnFile(f, b, S, n)
<1>1. \A i \in 0 .. Retained : Len(f[i]) \in Nat BY DEF OnFile, Files
<1>2. QED BY <1>1 DEF OnFile, Within

\* One append, whatever of it fails.
LEMMA AppendFiles == ASSUME BooksInv, FilesInv, AppendLine PROVE FilesInv'
<1> DEFINE m == Cardinality(written) + errors
<1>1. /\ writing \in Evals \ written /\ written \in SUBSET Evals
      /\ Cardinality(written) \in Nat /\ errors \in Nat
      /\ Cardinality(written \cup {writing}) = Cardinality(written) + 1
  <2>1. writing \in Evals \ written /\ written \in SUBSET Evals
    BY DEF AppendLine, AppendRecord, BooksInv, TypeOK, OnTheWay
  <2>2. errors \in Nat BY DEF BooksInv, Counts
  <2>3. Cardinality(written) \in Nat /\ Cardinality(written \cup {writing}) = Cardinality(written) + 1
    BY <2>1, Countable DEF BooksInv
  <2>4. QED BY <2>1, <2>2, <2>3
<1>2. m \in Nat /\ m + 1 \in Nat /\ m <= m + 1 BY <1>1
<1>3. Torn \notin Evals /\ Retained \in 0 .. Retained BY JournalAssumption
<1>4. OnFile(files, begun, written, m) BY DEF FilesInv
<1>5. begun \in [Evals -> Nat] BY <1>4 DEF OnFile
<1> HIDE DEF m
<1>6. OnFile(files, begun', written, m)
  <2>1. CASE Full
    <3>1. begun' = [e \in Evals |-> IF e \in written THEN begun[e] + 1 ELSE begun[e]]
      BY <2>1 DEF AppendLine
    <3>2. QED BY <1>1, <1>2, <1>4, <3>1, LaterOnFile
  <2>2. CASE ~Full
    <3>1. begun' = [e \in Evals |-> begun[e]] BY <2>2 DEF AppendLine
    <3>2. begun' = begun BY <1>5, <3>1
    <3>3. QED BY <1>4, <3>2
  <2>3. QED BY <2>1, <2>2
<1>7. ASSUME Full, NEW n \in 0 .. Retained PROVE OnFile(Renamed(files, n), begun', written, m)
  <2>1. begun' = [e \in Evals |-> IF e \in written THEN begun[e] + 1 ELSE begun[e]]
    BY <1>7 DEF AppendLine
  <2>2. QED BY <1>1, <1>2, <1>4, <2>1, RotatedOnFile
<1>8. OnFile(Opened, begun', written, m)
  BY <1>3, <1>6, <1>7 DEF Opened
<1>9. CASE /\ written' = written \cup {writing} /\ errors' = errors
           /\ files' = [Opened EXCEPT ![0] = Append(@, writing)]
  <2>1. OnFile(files', begun', written \cup ({writing} \ {Torn}), m + 1)
    BY <1>1, <1>2, <1>8, <1>9, GrownOnFile
  <2>2. written' = written \cup ({writing} \ {Torn}) BY <1>1, <1>3, <1>9
  <2>3. Cardinality(written') + errors' = m + 1 BY <1>1, <1>9 DEF m
  <2>4. QED BY <2>1, <2>2, <2>3 DEF FilesInv
<1>10. CASE /\ written' = written /\ errors' = errors + 1 /\ files' \in Failing
  <2>1. Cardinality(written') + errors' = m + 1 BY <1>1, <1>10 DEF m
  <2>2. CASE files' = [Opened EXCEPT ![0] = Append(@, Torn)]
    <3>1. OnFile(files', begun', written \cup ({Torn} \ {Torn}), m + 1)
      BY <1>1, <1>2, <1>8, <2>2, GrownOnFile
    <3>2. written' = written \cup ({Torn} \ {Torn}) BY <1>10
    <3>3. QED BY <2>1, <3>1, <3>2 DEF FilesInv
  <2>3. ASSUME OnFile(files', begun', written, m) PROVE FilesInv'
    <3>1. OnFile(files', begun', written, m + 1) BY <1>2, <2>3, FewerOnFile
    <3>2. QED BY <1>10, <2>1, <3>1 DEF FilesInv
  <2>4. \/ files' \in {files, Opened} \/ files' = [Opened EXCEPT ![0] = Append(@, Torn)]
        \/ Full /\ \E n \in 0 .. Retained : files' = Renamed(files, n)
    BY <1>10 DEF Failing
  <2>5. QED BY <1>6, <1>7, <1>8, <2>2, <2>3, <2>4
<1>11. QED
  <2>1. \/ /\ writing \in written'
           /\ files' = [Opened EXCEPT ![0] = Append(@, writing)] /\ errors' = errors
        \/ /\ writing \in lost' /\ files' \in Failing /\ errors' = errors + 1
    BY DEF AppendLine
  <2>2. \/ written' = written \cup {writing} /\ lost' = lost
        \/ lost' = lost \cup {writing} /\ written' = written
    BY DEF AppendLine, AppendRecord
  <2>3. writing \notin lost /\ writing \notin written
    BY DEF AppendLine, AppendRecord, BooksInv, OnTheWay
  <2>4. QED BY <1>9, <1>10, <2>1, <2>2, <2>3

LEMMA FilesInvariant == JournalSpec => []FilesInv
<1>1. JournalInit => FilesInv
  <2>1. SUFFICES ASSUME JournalInit PROVE FilesInv OBVIOUS
  <2>2. /\ files = [i \in 0 .. Retained |-> <<>>] /\ begun = [e \in Evals |-> 0]
        /\ written = {} /\ errors = 0
    BY <2>1 DEF JournalInit, Init
  <2>3. Cardinality(written) + errors = 0 BY <2>2, FS_EmptySet
  <2>4. files \in Files /\ begun \in [Evals -> Nat]
    BY <2>2 DEF Files
  <2>5. \A i \in 0 .. Retained : Len(files[i]) = 0 /\ DOMAIN files[i] = {} BY <2>2
  <2>6. QED BY <2>2, <2>3, <2>4, <2>5 DEF FilesInv, OnFile, Within, Single, Findable
<1>2. FilesInv /\ BooksInv /\ [JournalNext]_<<vars, journal>> => FilesInv'
  <2>1. SUFFICES ASSUME FilesInv, BooksInv, [JournalNext]_<<vars, journal>> PROVE FilesInv'
    OBVIOUS
  <2>2. CASE AppendLine BY <2>1, <2>2, AppendFiles
  <2>3. CASE ~AppendLine
    <3>1. UNCHANGED <<files, begun, written, errors>>
      BY <2>1, <2>3 DEF JournalNext, Sent, CountAccepted, Left, Otherwise, Record, Request, Skip,
           TryStart, Count, Enter, NoRecord, Leave, Notify, ReleasePending, ReleaseSlot, Signal,
           Serve, ServerStops, ForceStop, Check, CreateNotified, Wake, DrainTimesOut, FlushSend,
           Return, Exit, Tick, Take, StoreJobs, JobStarts, JobEnds, writer, journal, vars
    <3>2. QED BY <2>1, <3>1 DEF FilesInv
  <2>4. QED BY <2>2, <2>3
<1>3. QED
  BY <1>1, <1>2, BooksInvariant, PTL DEF JournalSpec

\* Whatever fails, and however far a rotation came: a record counted as written is
\* in the files once, or more rotations than files are retained have begun since
\* (append_rotating_jsonl and rotate_files, jsonl_writer.rs).
THEOREM RecordsKept == JournalSpec => []JournalKeeps
<1> DEFINE Places(e) ==
      {p \in (0 .. Retained) \X (1 .. MaxLines + Cardinality(Evals)) :
         p[2] \in DOMAIN files[p[1]] /\ files[p[1]][p[2]] = e}
<1>1. ASSUME BooksInv, FilesInv, NEW e \in written
      PROVE  Cardinality(Places(e)) <= 1 /\ (Places(e) # {} \/ begun[e] > Retained)
  <2>1. /\ files \in Files /\ Within(files, written, Cardinality(written) + errors)
        /\ Single(files) /\ Findable(files, begun, written)
    BY <1>1 DEF FilesInv, OnFile
  <2>2. e \in Evals /\ e # Torn BY <1>1, JournalAssumption DEF BooksInv, TypeOK
  <2>3. \A p, q \in Places(e) : p = q
    <3>1. SUFFICES ASSUME NEW p \in Places(e), NEW q \in Places(e) PROVE p = q OBVIOUS
    <3>2. /\ p \in (0 .. Retained) \X (1 .. MaxLines + Cardinality(Evals))
          /\ q \in (0 .. Retained) \X (1 .. MaxLines + Cardinality(Evals))
      OBVIOUS
    <3>3. p[1] = q[1] /\ p[2] = q[2] BY <2>1, <2>2 DEF Single
    <3>4. QED BY <3>2, <3>3
  <2>4. Cardinality(Places(e)) <= 1
    <3>1. CASE Places(e) = {} BY <3>1, FS_EmptySet
    <3>2. CASE Places(e) # {}
      <4>1. PICK p : p \in Places(e) BY <3>2
      <4>2. Places(e) = {p} BY <2>3, <4>1
      <4>3. Cardinality({p}) = 1 BY FS_Singleton
      <4>4. QED BY <4>2, <4>3
    <3>3. QED BY <3>1, <3>2
  <2>5. Cardinality(written) + errors <= Cardinality(Evals)
    <3>1. errors = Cardinality(Failed) /\ written \cap Failed = {} /\ written \cup Failed \subseteq Evals
      BY <1>1 DEF BooksInv, Counts, OnTheWay, Failed, TypeOK
    <3>2. IsFiniteSet(Evals) /\ IsFiniteSet(written) /\ IsFiniteSet(Failed)
      BY <3>1, ShutdownAssumption, FS_Subset
    <3>3. Cardinality(written \cup Failed) = Cardinality(written) + Cardinality(Failed)
      <4>1. Cardinality({}) = 0 BY FS_EmptySet
      <4>2. Cardinality(written) \in Nat /\ Cardinality(Failed) \in Nat
        BY <3>2, FS_CardinalityType
      <4>3. Cardinality(written \cup Failed)
              = Cardinality(written) + Cardinality(Failed) - Cardinality(written \cap Failed)
        BY <3>2, FS_Union
      <4>4. Cardinality(written \cap Failed) = 0 BY <3>1, <4>1
      <4>5. QED BY <4>2, <4>3, <4>4
    <3>4. Cardinality(written \cup Failed) <= Cardinality(Evals)
      BY <3>1, <3>2, FS_Subset
    <3>5. QED BY <3>1, <3>3, <3>4
  <2>6. ASSUME ~(begun[e] > Retained) PROVE Places(e) # {}
    <3>1. PICK i \in 0 .. Retained : \E k \in DOMAIN files[i] : files[i][k] = e
      BY <1>1, <2>1, <2>6 DEF Findable
    <3>2. PICK k \in DOMAIN files[i] : files[i][k] = e BY <3>1
    <3>3. files[i] \in Seq(Evals \cup {Torn}) BY <2>1 DEF Files
    <3>4. /\ k \in 1 .. Len(files[i]) /\ Len(files[i]) \in Nat
          /\ Len(files[i]) <= Cardinality(written) + errors
      BY <2>1, <3>3 DEF Within
    <3>5. Cardinality(Evals) \in Nat /\ Cardinality(written) + errors \in Nat /\ MaxLines \in Nat
      <4>1. Cardinality(Evals) \in Nat BY ShutdownAssumption, FS_CardinalityType
      <4>2. IsFiniteSet(written)
        BY <1>1, ShutdownAssumption, FS_Subset DEF BooksInv, TypeOK
      <4>3. Cardinality(written) \in Nat BY <4>2, FS_CardinalityType
      <4>4. QED BY <1>1, <4>1, <4>3, JournalAssumption DEF BooksInv, Counts
    <3>6. k \in 1 .. MaxLines + Cardinality(Evals)
      <4>1. Len(files[i]) <= MaxLines + Cardinality(Evals) BY <2>5, <3>4, <3>5
      <4>2. QED BY <3>4, <3>5, <4>1
    <3>7. <<i, k>> \in Places(e) BY <3>2, <3>6
    <3>8. QED BY <3>7
  <2>7. QED BY <2>4, <2>6
<1>2. BooksInv /\ FilesInv => JournalKeeps
  BY <1>1 DEF JournalKeeps
<1>3. QED BY <1>2, BooksInvariant, FilesInvariant, PTL
=============================================================================
