-------------------------------- MODULE Ingress --------------------------------
(***************************************************************************)
(* request_context in src/src/server.rs, which every request passes before   *)
(* its handler: the bearer credential, the declared length, the rate window  *)
(* of the credential, the admission permit, then the body under an idle      *)
(* timeout.  The permit goes with the frame of request_context: it is given  *)
(* back when the handler returns a response, also one whose body is still    *)
(* streamed.                                                                *)
(*                                                                         *)
(* Requests run concurrently; a client may leave at any await.  Time is in   *)
(* ticks.  The windows are behind a mutex, but the clock is read before it    *)
(* is taken, so that the order of the readings is not that of the windows.   *)
(***************************************************************************)
EXTENDS Naturals, Sequences, FiniteSets, SequencesExt

CONSTANTS
  Requests,
  Credentials, None,
  Shapes,          \* what the requests may be like, see Shape
  BodyLimit,       \* request_body_limit
  DrainOverage,    \* REJECTED_BODY_DRAIN_OVERAGE_BYTES
  RateLimit,       \* per_credential_requests_per_minute
  Window,          \* the minute
  MaxInFlight,     \* max_in_flight_requests
  QueueTimeout, IdleTimeout, DrainTimeout,
  LastArrival,     \* bound on when requests arrive
  MaxTime          \* bound on the clock, late enough for all to be served

\* credential_scope and None if there is none; OPTIONS, health and openapi.json;
\* content-length, 0 if there is none; and the chunks of the body.
Shape == [credential : Credentials \cup {None}, public : BOOLEAN, declared : Nat, length : Nat]

ASSUME IngressAssumption ==
  /\ IsFiniteSet(Requests) /\ None \notin Credentials
  /\ Shapes \subseteq [Requests -> Shape]
  /\ BodyLimit \in Nat /\ DrainOverage \in Nat
  /\ RateLimit \in Nat \ {0} /\ Window \in Nat \ {0} /\ MaxInFlight \in Nat \ {0}
  /\ QueueTimeout \in Nat \ {0} /\ IdleTimeout \in Nat \ {0} /\ DrainTimeout \in Nat \ {0}
  /\ LastArrival \in Nat /\ MaxTime \in Nat

VARIABLES
  shape,
  pc,
  now,
  stamp,      \* stamp[r]: the clock as r read it
  started,    \* started[c]: CredentialRateWindow, with count
  count,
  queue,      \* who waits for a permit, first come first served
  free,       \* available permits
  deadline,   \* deadline[r]: when the wait r is in times out
  read,       \* read[r]: chunks of the body read so far
  reply,
  passed      \* history: the requests check_rate let through

windows == <<started, count>>
vars == <<shape, pc, now, stamp, windows, queue, free, deadline, read, reply, passed>>

Replies == {"none", "unauthorized", "too_large", "rate_limited", "overloaded",
            "body_timeout", "answered", "gone"}
PCs == {"new", "drain", "rate", "queue", "body", "handler", "stream", "done"}
Waits == {"drain", "queue", "body"}
Holding == {"body", "handler"}

Goto(r, to) == pc' = [pc EXCEPT ![r] = to] /\ deadline' = [deadline EXCEPT ![r] = 0]
Wait(r, at, t) == pc' = [pc EXCEPT ![r] = at] /\ deadline' = [deadline EXCEPT ![r] = now + t]
Finish(r, why) == Goto(r, "done") /\ reply' = [reply EXCEPT ![r] = why]
Public(r) == shape[r].public
Credential(r) == shape[r].credential
Length(r) == shape[r].length
Declared(r) == shape[r].declared
Held(r) == pc[r] \in Holding /\ ~Public(r)

Init ==
  /\ shape \in Shapes
  /\ pc = [r \in Requests |-> "new"] /\ reply = [r \in Requests |-> "none"]
  /\ now = 0 /\ stamp = [r \in Requests |-> 0]
  /\ started = [c \in Credentials |-> 0] /\ count = [c \in Credentials |-> 0]
  /\ queue = <<>> /\ free = MaxInFlight
  /\ deadline = [r \in Requests |-> 0] /\ read = [r \in Requests |-> 0]
  /\ passed = {}
-----------------------------------------------------------------------------
\* The checks before the first await; the handler of a public request follows.
Arrive(r) ==
  /\ pc[r] = "new" /\ now <= LastArrival
  /\ \/ /\ Public(r)
        /\ Goto(r, "handler") /\ UNCHANGED <<stamp, reply>>
     \/ /\ ~Public(r) /\ Credential(r) = None
        /\ Finish(r, "unauthorized") /\ UNCHANGED stamp
     \/ /\ ~Public(r) /\ Credential(r) # None /\ Declared(r) > BodyLimit
        /\ IF Declared(r) <= BodyLimit + DrainOverage
           THEN Wait(r, "drain", DrainTimeout) /\ UNCHANGED reply
           ELSE Finish(r, "too_large")
        /\ UNCHANGED stamp
     \/ /\ ~Public(r) /\ Credential(r) # None /\ Declared(r) <= BodyLimit
        /\ Goto(r, "rate") /\ stamp' = [stamp EXCEPT ![r] = now]   \* Instant::now()
        /\ UNCHANGED reply
  /\ UNCHANGED <<shape, now, windows, queue, free, read, passed>>

\* drain_rejected_request_body: to the end or for DrainTimeout.
Drained(r) ==
  /\ pc[r] = "drain"
  /\ Finish(r, "too_large")
  /\ UNCHANGED <<shape, now, stamp, windows, queue, free, read, passed>>

\* duration_since, which saturates
Age(t, since) == IF t >= since THEN t - since ELSE 0

\* The window is over.
Expired(c, t) == Age(t, started[c]) >= Window

\* The first request of a window begins it.
Renew(c, t) ==
  /\ started' = [started EXCEPT ![c] = t]
  /\ count' = [count EXCEPT ![c] = 1]

\* Mutant: the request itself is counted against its own room.
HasRoom_CountsItself(c) == count[c] + 1 < RateLimit

HasRoom(c) == count[c] < RateLimit

\* check_rate; a credential without an entry has one that is over.
CheckRate(r) ==
  LET c == Credential(r)
      fresh == count[c] = 0 \/ Expired(c, stamp[r])
  IN /\ pc[r] = "rate"
     /\ IF fresh \/ HasRoom(c)
        THEN /\ IF fresh THEN Renew(c, stamp[r])
                ELSE count' = [count EXCEPT ![c] = @ + 1] /\ UNCHANGED started
             /\ passed' = passed \cup {r}
             /\ Wait(r, "queue", QueueTimeout)
             /\ queue' = Append(queue, r)
             /\ UNCHANGED reply
        ELSE Finish(r, "rate_limited") /\ UNCHANGED <<windows, queue, passed>>
     /\ UNCHANGED <<shape, now, stamp, free, read>>

\* A permit is free, and r is the next to get one.
MayEnter(r) == free > 0 /\ Head(queue) = r

\* acquire
Enter(r) ==
  /\ pc[r] = "queue" /\ MayEnter(r)
  /\ free' = free - 1
  /\ queue' = Remove(queue, r)
  /\ IF Length(r) = 0 THEN Goto(r, "handler") ELSE Wait(r, "body", IdleTimeout)
  /\ UNCHANGED <<shape, now, stamp, windows, read, reply, passed>>

\* The timeout, which looks for a permit once more first.
Overloaded(r) ==
  /\ pc[r] = "queue" /\ now >= deadline[r] /\ ~MayEnter(r)
  /\ queue' = Remove(queue, r)
  /\ Finish(r, "overloaded")
  /\ UNCHANGED <<shape, now, stamp, windows, free, read, passed>>

\* Mutant: a client that leaves keeps its permit.
Release_Leaks(r) == free' = IF Held(r) /\ pc[r] = "handler" THEN free + 1 ELSE free

\* The frame of request_context is gone, and with it its permit.
Release(r) == free' = IF Held(r) THEN free + 1 ELSE free

\* The next chunk, in time: with_body_idle_timeout.
Chunk(r) ==
  /\ pc[r] = "body" /\ read[r] < Length(r) /\ read[r] < BodyLimit
  /\ read' = [read EXCEPT ![r] = @ + 1] /\ Wait(r, "body", IdleTimeout)
  /\ UNCHANGED <<shape, now, stamp, windows, queue, free, reply, passed>>

\* The extractor has the body, or what it has of it is over the limit.
BodyRead(r) ==
  /\ pc[r] = "body"
  /\ \/ /\ read[r] = Length(r)
        /\ Goto(r, "handler") /\ UNCHANGED <<free, reply>>
     \/ /\ read[r] = BodyLimit /\ Length(r) > BodyLimit
        /\ Finish(r, "too_large") /\ Release(r)
  /\ UNCHANGED <<shape, now, stamp, windows, queue, read, passed>>

\* Mutant: the body of an admitted request is read without a timeout.
BodyIdle_Never(r) == FALSE

BodyIdle(r) ==
  /\ pc[r] = "body" /\ read[r] < Length(r) /\ now >= deadline[r]
  /\ Finish(r, "body_timeout") /\ Release(r)
  /\ UNCHANGED <<shape, now, stamp, windows, queue, read, passed>>

\* The handler returns its response, whole or with a body to stream.
Respond(r) ==
  /\ pc[r] = "handler"
  /\ \/ Finish(r, "answered")
     \/ ~Public(r) /\ Goto(r, "stream") /\ UNCHANGED reply
  /\ Release(r)
  /\ UNCHANGED <<shape, now, stamp, windows, queue, read, passed>>

StreamEnds(r) ==
  /\ pc[r] = "stream"
  /\ Finish(r, "answered")
  /\ UNCHANGED <<shape, now, stamp, windows, queue, free, read, passed>>

\* The client leaves, and the frame and everything in it is dropped.
Leave(r) ==
  /\ pc[r] \in Waits \cup {"handler"}
  /\ Finish(r, "gone") /\ Release(r)
  /\ queue' = Remove(queue, r)
  /\ UNCHANGED <<shape, now, stamp, windows, read, passed>>

\* Timers fire at their tick, and check_rate takes less than one.
Tick ==
  /\ now < MaxTime
  /\ \A r \in Requests :
       /\ pc[r] \in Waits => now < deadline[r]
       /\ pc[r] = "rate" => now = stamp[r]
  /\ now' = now + 1
  /\ UNCHANGED <<shape, pc, stamp, windows, queue, free, deadline, read, reply, passed>>

\* What happens without the client: the steps tokio polls, and timers.
Polled(r) ==
  \/ now >= deadline[r] /\ Drained(r)
  \/ CheckRate(r) \/ Enter(r) \/ Overloaded(r) \/ BodyRead(r) \/ BodyIdle(r) \/ Respond(r)

Next ==
  \/ Tick
  \/ \E r \in Requests :
       Arrive(r) \/ Drained(r) \/ Chunk(r) \/ StreamEnds(r) \/ Leave(r) \/ Polled(r)

Spec == Init /\ [][Next]_vars

\* The clock runs, tokio polls what is ready, and a handler answers (Dispatch).
\* Nothing is assumed of clients.
FairSpec == Spec /\ WF_vars(Tick) /\ \A r \in Requests : WF_vars(Polled(r))
-----------------------------------------------------------------------------
\* The types of the variables; who waits in the queue waits there once.
TypeOK ==
  /\ shape \in Shapes
  /\ pc \in [Requests -> PCs] /\ reply \in [Requests -> Replies]
  /\ now \in 0 .. MaxTime /\ stamp \in [Requests -> 0 .. MaxTime]
  /\ started \in [Credentials -> 0 .. MaxTime] /\ count \in [Credentials -> 0 .. RateLimit]
  /\ free \in 0 .. MaxInFlight
  /\ deadline \in [Requests -> Nat] /\ read \in [Requests -> 0 .. BodyLimit]
  /\ passed \subseteq Requests
  /\ IsInjective(queue) /\ ToSet(queue) = {r \in Requests : pc[r] = "queue"}

\* The permits are those that are free and those of the requests between the
\* queue and their response, whatever times out, is refused or leaves.
AdmissionConserved == free + Cardinality({r \in Requests : Held(r)}) = MaxInFlight

Passed(c, from, to) ==
  Cardinality({r \in passed : Credential(r) = c /\ from <= stamp[r] /\ stamp[r] <= to})

\* The window is fixed: twice the limit, less the request that began the first
\* of the two windows, is the most that passes in any Window of time.
RateBound ==
  \A c \in Credentials : \A t \in 0 .. MaxTime :
    Passed(c, t, t + Window - 1) <= 2 * RateLimit - 1

\* A credential is refused only when it has itself used up its limit, in the
\* last Window (counting one tick for a clock read before the mutex was taken).
RefusedOverLimit ==
  [][\A r \in Requests :
       reply'[r] = "rate_limited" /\ reply[r] # "rate_limited" =>
         \E t \in 0 .. MaxTime :
           stamp[r] \in t .. t + Window /\ Passed(Credential(r), t, t + Window) >= RateLimit]_vars

\* The limit lets no more pass than it should, and refuses nobody it should not.
RateExact == []RateBound /\ RefusedOverLimit

\* Nobody waits for ever, whatever its client or those before it do: again and
\* again every request that has arrived has the head of a response or is gone.
AllLeave == []<>(\A r \in Requests : pc[r] \in {"new", "stream", "done"})

=============================================================================
