----------------------------- MODULE IngressProofs -----------------------------
(***************************************************************************)
(* Theorems about Ingress: admission permits, and refusals by the window of  *)
(* a credential.                                                             *)
(***************************************************************************)
EXTENDS Ingress, FiniteSetTheorems, TLAPS

Holders == {r \in Requests : Held(r)}

\* Past the first checks, which a public request does not take.
Screened == {"drain", "rate", "queue", "body", "stream"}

\* AdmissionConserved is inductive with this: who enters did not hold a permit,
\* for it was in the queue, and it holds one then, for it is not public.
PermitInv ==
  /\ shape \in [Requests -> Shape]
  /\ pc \in [Requests -> PCs]
  /\ free \in Nat
  /\ \A r \in Requests : pc[r] \in Screened => ~Public(r)
  /\ AdmissionConserved
-----------------------------------------------------------------------------
(* Permits *)

LEMMA HoldersFinite == IsFiniteSet(Holders)
BY IngressAssumption, FS_Subset DEF IngressAssumption, Holders

\* Holders, counted, and the permits that are left.
LEMMA Counted ==
  AdmissionConserved <=> free + Cardinality(Holders) = MaxInFlight
BY DEF AdmissionConserved, Holders

\* A request moves, and the free permits with it if it begins or ends to hold one.
LEMMA Moves ==
  ASSUME PermitInv, NEW r \in Requests, NEW to \in PCs,
         shape' = shape, pc' = [pc EXCEPT ![r] = to],
         to \in Screened => ~Public(r),
         \/ free' = free /\ (Held(r) <=> to \in Holding /\ ~Public(r))
         \/ free' = free + 1 /\ Held(r) /\ to \notin Holding
         \/ free > 0 /\ free' = free - 1 /\ ~Held(r) /\ to \in Holding /\ ~Public(r)
  PROVE  PermitInv'
<1> DEFINE Now == to \in Holding /\ ~Public(r)
<1>1. pc' \in [Requests -> PCs] /\ shape' \in [Requests -> Shape]
  BY DEF PermitInv
<1>2. (\A q \in Requests : pc[q] \in Screened => ~Public(q))'
  BY DEF PermitInv, Public
<1>3. \A q \in Requests : Held(q)' <=> IF q = r THEN Now ELSE Held(q)
  BY DEF PermitInv, Held, Public
<1>4. Cardinality(Holders) \in Nat /\ free \in Nat /\ MaxInFlight \in Nat
  BY HoldersFinite, FS_CardinalityType, IngressAssumption DEF IngressAssumption, PermitInv
<1>5. free + Cardinality(Holders) = MaxInFlight
  BY Counted DEF PermitInv
<1>6. r \in Holders <=> Held(r)
  BY DEF Holders
<1>7. free' \in Nat /\ free' + Cardinality(Holders') = MaxInFlight
  <2>1. CASE free' = free /\ (Held(r) <=> Now)
    <3>1. Holders' = Holders
      BY <1>3, <2>1 DEF Holders
    <3> QED BY <2>1, <3>1, <1>4, <1>5
  <2>2. CASE free' = free + 1 /\ Held(r) /\ ~Now
    <3>1. Holders' = Holders \ {r}
      BY <1>3, <2>2 DEF Holders
    <3>2. Cardinality(Holders') = Cardinality(Holders) - 1
      BY <3>1, <2>2, <1>6, HoldersFinite, FS_RemoveElement
    <3> QED BY <2>2, <3>2, <1>4, <1>5
  <2>3. CASE free > 0 /\ free' = free - 1 /\ ~Held(r) /\ Now
    <3>1. Holders' = Holders \cup {r}
      BY <1>3, <2>3 DEF Holders
    <3>2. Cardinality(Holders') = Cardinality(Holders) + 1
      BY <3>1, <2>3, <1>6, HoldersFinite, FS_AddElement
    <3> QED BY <2>3, <3>2, <1>4, <1>5
  <2> QED BY <2>1, <2>2, <2>3
<1>8. AdmissionConserved'
  BY <1>7 DEF AdmissionConserved, Holders
<1> QED BY <1>1, <1>2, <1>7, <1>8 DEF PermitInv

\* A step that moves nobody.
LEMMA Stays ==
  ASSUME PermitInv, shape' = shape, pc' = pc, free' = free
  PROVE  PermitInv'
BY DEF PermitInv, AdmissionConserved, Held, Public

\* The places of a request, and what it holds there.
LEMMA Places ==
  ASSUME PermitInv, NEW r \in Requests
  PROVE  /\ pc[r] \in PCs
         /\ Held(r) <=> pc[r] \in Holding /\ ~Public(r)
         /\ pc[r] \in Screened => ~Public(r)
BY DEF PermitInv, Held

\* The end of a request, which gives back what it held.
LEMMA Ends ==
  ASSUME PermitInv, NEW r \in Requests, NEW to \in {"done", "stream"},
         shape' = shape, Goto(r, to), Release(r), to = "stream" => ~Public(r)
  PROVE  PermitInv'
<1>1. pc' = [pc EXCEPT ![r] = to] /\ to \in PCs /\ to \notin Holding
  BY DEF Goto, PCs, Holding
<1>2. \/ free' = free /\ (Held(r) <=> to \in Holding /\ ~Public(r))
      \/ free' = free + 1 /\ Held(r) /\ to \notin Holding
  BY <1>1 DEF Release
<1>3. to \in Screened => ~Public(r)
  BY DEF Screened
<1> QED BY <1>1, <1>2, <1>3, Moves

\* A request that holds nothing goes where it holds nothing.
LEMMA Without ==
  ASSUME PermitInv, NEW r \in Requests, NEW to \in PCs \ Holding,
         shape' = shape, free' = free, pc' = [pc EXCEPT ![r] = to],
         pc[r] \notin Holding, to \in Screened => ~Public(r)
  PROVE  PermitInv'
<1>1. Held(r) <=> to \in Holding /\ ~Public(r)
  BY Places
<1> QED BY <1>1, Moves

LEMMA ArriveHolds == ASSUME PermitInv, NEW r \in Requests, Arrive(r) PROVE PermitInv'
<1>1. shape' = shape /\ free' = free /\ pc[r] = "new" /\ pc[r] \notin Holding
  BY DEF Arrive, Holding
<1>2. CASE Public(r) /\ Goto(r, "handler")
  <2>1. Held(r) <=> "handler" \in Holding /\ ~Public(r)
    BY <1>1, <1>2, Places
  <2>2. "handler" \in PCs /\ "handler" \notin Screened /\ pc' = [pc EXCEPT ![r] = "handler"]
    BY <1>2 DEF PCs, Screened, Goto
  <2> QED BY <1>1, <2>1, <2>2, Moves
<1>3. CASE Finish(r, "unauthorized") \/ Finish(r, "too_large")
  <2>1. "done" \in PCs \ Holding /\ "done" \notin Screened /\ pc' = [pc EXCEPT ![r] = "done"]
    BY <1>3 DEF PCs, Holding, Screened, Finish, Goto
  <2> QED BY <1>1, <2>1, Without
<1>4. CASE ~Public(r) /\ Wait(r, "drain", DrainTimeout)
  <2>1. "drain" \in PCs \ Holding /\ pc' = [pc EXCEPT ![r] = "drain"]
    BY <1>4 DEF PCs, Holding, Wait
  <2> QED BY <1>1, <1>4, <2>1, Without
<1>5. CASE ~Public(r) /\ Goto(r, "rate")
  <2>1. "rate" \in PCs \ Holding /\ pc' = [pc EXCEPT ![r] = "rate"]
    BY <1>5 DEF PCs, Holding, Goto
  <2> QED BY <1>1, <1>5, <2>1, Without
<1> QED BY <1>2, <1>3, <1>4, <1>5 DEF Arrive

LEMMA DrainedHolds == ASSUME PermitInv, NEW r \in Requests, Drained(r) PROVE PermitInv'
<1>1. /\ shape' = shape /\ free' = free /\ pc[r] \notin Holding
      /\ "done" \in PCs \ Holding /\ "done" \notin Screened /\ pc' = [pc EXCEPT ![r] = "done"]
  BY DEF Drained, PCs, Holding, Screened, Finish, Goto
<1> QED BY <1>1, Without

LEMMA CheckRateHolds == ASSUME PermitInv, NEW r \in Requests, CheckRate(r) PROVE PermitInv'
<1>1. shape' = shape /\ free' = free /\ pc[r] \notin Holding /\ pc[r] \in Screened
  BY DEF CheckRate, Holding, Screened
<1>2. \E to \in {"queue", "done"} : pc' = [pc EXCEPT ![r] = to]
  BY DEF CheckRate, Wait, Finish, Goto
<1>3. {"queue", "done"} \subseteq PCs \ Holding
  BY DEF PCs, Holding
<1>4. ~Public(r)
  BY <1>1, Places
<1> QED BY <1>1, <1>2, <1>3, <1>4, Without

LEMMA EnterHolds == ASSUME PermitInv, NEW r \in Requests, Enter(r) PROVE PermitInv'
<1>1. /\ shape' = shape /\ free > 0 /\ free' = free - 1
      /\ pc[r] \notin Holding /\ pc[r] \in Screened
  BY DEF Enter, MayEnter, Holding, Screened
<1>2. \E to \in Holding : pc' = [pc EXCEPT ![r] = to]
  BY DEF Enter, Wait, Goto, Holding
<1>3. Holding \subseteq PCs
  BY DEF PCs, Holding
<1>4. ~Public(r) /\ ~Held(r)
  BY <1>1, Places
<1> QED BY <1>1, <1>2, <1>3, <1>4, Moves

LEMMA OverloadedHolds == ASSUME PermitInv, NEW r \in Requests, Overloaded(r) PROVE PermitInv'
<1>1. /\ shape' = shape /\ free' = free /\ pc[r] \notin Holding
      /\ "done" \in PCs \ Holding /\ "done" \notin Screened /\ pc' = [pc EXCEPT ![r] = "done"]
  BY DEF Overloaded, PCs, Holding, Screened, Finish, Goto
<1> QED BY <1>1, Without

LEMMA ChunkHolds == ASSUME PermitInv, NEW r \in Requests, Chunk(r) PROVE PermitInv'
<1>1. shape' = shape /\ free' = free /\ pc' = [pc EXCEPT ![r] = "body"] /\ pc[r] = "body"
  BY DEF Chunk, Wait
<1>2. pc' = pc
  BY <1>1 DEF PermitInv
<1> QED BY <1>1, <1>2, Stays

LEMMA BodyReadHolds == ASSUME PermitInv, NEW r \in Requests, BodyRead(r) PROVE PermitInv'
<1>1. shape' = shape /\ pc[r] = "body" /\ pc[r] \in Holding
  BY DEF BodyRead, Holding
<1>2. CASE Goto(r, "handler") /\ free' = free
  <2>1. pc' = [pc EXCEPT ![r] = "handler"] /\ "handler" \in PCs \cap Holding /\ "handler" \notin Screened
    BY <1>2 DEF Goto, PCs, Holding, Screened
  <2>2. Held(r) <=> "handler" \in Holding /\ ~Public(r)
    BY <1>1, <2>1, Places
  <2> QED BY <1>1, <1>2, <2>1, <2>2, Moves
<1>3. CASE Goto(r, "done") /\ Release(r)
  BY <1>1, <1>3, Ends
<1> QED BY <1>2, <1>3 DEF BodyRead, Finish

LEMMA BodyIdleHolds == ASSUME PermitInv, NEW r \in Requests, BodyIdle(r) PROVE PermitInv'
BY Ends DEF BodyIdle, Finish

LEMMA RespondHolds == ASSUME PermitInv, NEW r \in Requests, Respond(r) PROVE PermitInv'
<1>1. shape' = shape /\ Release(r)
  BY DEF Respond
<1>2. CASE Goto(r, "done")
  BY <1>1, <1>2, Ends
<1>3. CASE ~Public(r) /\ Goto(r, "stream")
  BY <1>1, <1>3, Ends
<1> QED BY <1>2, <1>3 DEF Respond, Finish

LEMMA StreamEndsHolds == ASSUME PermitInv, NEW r \in Requests, StreamEnds(r) PROVE PermitInv'
<1>1. /\ shape' = shape /\ free' = free /\ pc[r] \notin Holding
      /\ "done" \in PCs \ Holding /\ "done" \notin Screened /\ pc' = [pc EXCEPT ![r] = "done"]
  BY DEF StreamEnds, PCs, Holding, Screened, Finish, Goto
<1> QED BY <1>1, Without

LEMMA LeaveHolds == ASSUME PermitInv, NEW r \in Requests, Leave(r) PROVE PermitInv'
BY Ends DEF Leave, Finish

LEMMA PermitStep == ASSUME PermitInv, [Next]_vars PROVE PermitInv'
<1>1. CASE Tick \/ UNCHANGED vars
  BY <1>1, Stays DEF Tick, vars
<1>2. ASSUME NEW r \in Requests,
             Arrive(r) \/ Drained(r) \/ Chunk(r) \/ StreamEnds(r) \/ Leave(r) \/ Polled(r)
      PROVE  PermitInv'
  BY <1>2, ArriveHolds, DrainedHolds, CheckRateHolds, EnterHolds, OverloadedHolds, ChunkHolds,
     BodyReadHolds, BodyIdleHolds, RespondHolds, StreamEndsHolds, LeaveHolds DEF Polled
<1> QED BY <1>1, <1>2 DEF Next

\* Admission: no permit of max_in_flight_requests is lost or counted twice,
\* however requests are refused, time out, leave or end (IngressController).
THEOREM PermitsConserved == Spec => []AdmissionConserved
<1>1. Init => PermitInv
  <2> SUFFICES ASSUME Init PROVE PermitInv
    OBVIOUS
  <2>1. \A r \in Requests : pc[r] = "new" /\ pc[r] \notin Screened /\ pc[r] \notin Holding
    BY DEF Init, Screened, Holding
  <2>2. Holders = {} /\ free = MaxInFlight /\ MaxInFlight \in Nat
    BY <2>1, IngressAssumption DEF Init, Holders, Held, IngressAssumption
  <2>3. AdmissionConserved
    BY <2>2, FS_EmptySet DEF AdmissionConserved, Holders
  <2>4. pc \in [Requests -> PCs] /\ shape \in [Requests -> Shape]
    BY IngressAssumption DEF Init, PCs, IngressAssumption
  <2> QED BY <2>1, <2>2, <2>3, <2>4 DEF PermitInv
<1>2. PermitInv /\ [Next]_vars => PermitInv'
  BY PermitStep
<1>3. PermitInv => AdmissionConserved
  BY DEF PermitInv
<1> QED BY <1>1, <1>2, <1>3, PTL DEF Spec
-----------------------------------------------------------------------------
(* The windows of a credential *)

From(st, S, t) == {r \in S : st[r] >= t}
Within(st, S, t) == {r \in S : t <= st[r] /\ st[r] <= t + Window - 1}

\* Those that passed in the current window, begun at s by one of them: some of
\* them may have read the clock a tick before that.
Current(st, s, n, cur) ==
  /\ Cardinality(cur) = n /\ n <= RateLimit
  /\ \A r \in cur : s <= st[r] + 1 /\ st[r] < s + Window
  /\ cur # {} => \E r \in cur : st[r] = s

\* Those that passed before it: no window of time that reaches into the current
\* window has more than a limit of them, and one that reaches its beginning has
\* no longer the one that began the window before.
Earlier(st, s, old) ==
  /\ \A r \in old : st[r] < s
  /\ \A t \in Nat : t + Window >= s => Cardinality(From(st, old, t)) <= RateLimit
  /\ \A t \in Nat : t + Window > s => Cardinality(From(st, old, t)) <= RateLimit - 1
  /\ \A t \in Nat : Cardinality(Within(st, old, t)) <= 2 * RateLimit - 1

\* What holds of the sets whose members' readings of the clock are st.
Books(st, s, n, cur, old) ==
  /\ IsFiniteSet(cur) /\ IsFiniteSet(old)
  /\ \A r \in cur \cup old : st[r] \in Nat
  /\ n = 0 => cur = {} /\ old = {}
  /\ Current(st, s, n, cur)
  /\ Earlier(st, s, old)

LEMMA Numbers == RateLimit \in Nat \ {0} /\ Window \in Nat \ {0}
BY IngressAssumption DEF IngressAssumption

\* A part of a finite set has no more members.
LEMMA PartOf ==
  ASSUME NEW S, NEW T, IsFiniteSet(T), S \subseteq T
  PROVE  IsFiniteSet(S) /\ Cardinality(S) \in Nat /\ Cardinality(S) <= Cardinality(T)
BY FS_Subset, FS_CardinalityType

\* Without one of them it has fewer.
LEMMA PartWithout ==
  ASSUME NEW S, NEW T, IsFiniteSet(T), S \subseteq T, NEW x \in T, x \notin S
  PROVE  Cardinality(S) <= Cardinality(T) - 1
<1>1. IsFiniteSet(T \ {x}) /\ Cardinality(T \ {x}) = Cardinality(T) - 1
  BY FS_RemoveElement
<1>2. S \subseteq T \ {x}
  OBVIOUS
<1> QED BY <1>1, <1>2, PartOf

\* Two sets together have no more members than both.
LEMMA Together ==
  ASSUME NEW S, NEW A, NEW B, IsFiniteSet(A), IsFiniteSet(B), S \subseteq A \cup B
  PROVE  /\ Cardinality(S) \in Nat /\ Cardinality(A) \in Nat /\ Cardinality(B) \in Nat
         /\ Cardinality(S) <= Cardinality(A) + Cardinality(B)
<1>1. /\ IsFiniteSet(A \cup B) /\ IsFiniteSet(A \cap B)
      /\ Cardinality(A \cup B) = Cardinality(A) + Cardinality(B) - Cardinality(A \cap B)
  BY FS_Union, FS_Subset
<1>2. Cardinality(S) \in Nat /\ Cardinality(S) <= Cardinality(A \cup B)
  BY <1>1, PartOf
<1>3. Cardinality(A) \in Nat /\ Cardinality(B) \in Nat /\ Cardinality(A \cap B) \in Nat
  BY <1>1, FS_CardinalityType
<1> QED BY <1>1, <1>2, <1>3

\* Books that add up keep the bound for any window of time.
LEMMA BooksBound ==
  ASSUME NEW st, NEW s \in Nat, NEW n \in Nat, NEW cur, NEW old,
         Books(st, s, n, cur, old), NEW t \in Nat
  PROVE  Cardinality(Within(st, cur \cup old, t)) <= 2 * RateLimit - 1
<1> DEFINE W == Within(st, cur \cup old, t)
           A == Within(st, cur, t)
           O == From(st, old, t)
<1>1. IsFiniteSet(cur) /\ IsFiniteSet(old) /\ Cardinality(cur) = n /\ n <= RateLimit
  BY DEF Books, Current
<1>2. A \subseteq cur /\ O \subseteq old /\ W \subseteq A \cup O
  BY DEF Within, From
<1>3. IsFiniteSet(A) /\ IsFiniteSet(O) /\ Cardinality(A) \in Nat /\ Cardinality(A) <= n
  BY <1>1, <1>2, PartOf
<1>4. /\ Cardinality(W) \in Nat /\ Cardinality(O) \in Nat
      /\ Cardinality(W) <= Cardinality(A) + Cardinality(O)
  BY <1>2, <1>3, Together
<1>5. CASE t + Window > s
  <2>1. Cardinality(O) <= RateLimit - 1
    BY <1>5 DEF Books, Earlier
  <2> QED BY <1>1, <1>3, <1>4, <2>1, Numbers
<1>6. CASE t + Window = s
  <2>1. Cardinality(O) <= RateLimit
    BY <1>6, Numbers DEF Books, Earlier
  <2>2. CASE cur = {}
    <3>1. A = {}
      BY <2>2 DEF Within
    <3>2. Cardinality(A) = 0
      BY <3>1, FS_EmptySet
    <3> QED BY <1>4, <2>1, <3>2, Numbers
  <2>3. CASE cur # {}
    <3>1. PICK r \in cur : st[r] = s
      BY <2>3 DEF Books, Current
    <3>2. r \notin A
      BY <1>6, <3>1, Numbers DEF Within
    <3>3. Cardinality(A) <= n - 1
      BY <1>1, <1>2, <3>1, <3>2, PartWithout
    <3> QED BY <1>1, <1>3, <1>4, <2>1, <3>3, Numbers
  <2> QED BY <2>2, <2>3
<1>7. CASE t + Window < s
  <2>1. W \subseteq Within(st, old, t)
    <3> SUFFICES ASSUME NEW r \in cur, t <= st[r], st[r] <= t + Window - 1
                 PROVE  FALSE
      BY DEF Within
    <3>1. st[r] \in Nat /\ s <= st[r] + 1
      BY DEF Books, Current
    <3> QED BY <1>7, <3>1, Numbers
  <2>2. Within(st, old, t) \subseteq old
    BY DEF Within
  <2>3. IsFiniteSet(Within(st, old, t)) /\ Cardinality(Within(st, old, t)) \in Nat
    BY <1>1, <2>2, PartOf
  <2>4. Cardinality(W) <= Cardinality(Within(st, old, t))
    BY <2>1, <2>3, PartOf
  <2>5. Cardinality(Within(st, old, t)) <= 2 * RateLimit - 1
    BY DEF Books, Earlier
  <2> QED BY <1>4, <2>3, <2>4, <2>5, Numbers
<1> QED BY <1>5, <1>6, <1>7, Numbers

\* A new window begins with r, when the last one is over or there was none.
LEMMA BooksRenew ==
  ASSUME NEW st, NEW s \in Nat, NEW n \in Nat, NEW cur, NEW old,
         Books(st, s, n, cur, old), NEW r, st[r] \in Nat,
         n = 0 \/ st[r] >= s + Window
  PROVE  Books(st, st[r], 1, {r}, cur \cup old)
<1> DEFINE all == cur \cup old
<1>1. IsFiniteSet(cur) /\ IsFiniteSet(old) /\ IsFiniteSet(all) /\ \A q \in all : st[q] \in Nat
  BY FS_Union DEF Books
<1>2. Current(st, st[r], 1, {r})
  <2>1. Cardinality({r}) = 1
    BY FS_Singleton
  <2> QED BY <2>1, Numbers DEF Current
<1>3. \A q \in all : st[q] < st[r]
  BY Numbers DEF Books, Current, Earlier
<1>4. ASSUME NEW t \in Nat, t + Window >= st[r]
      PROVE  /\ Cardinality(From(st, all, t)) <= RateLimit
             /\ t + Window > st[r] => Cardinality(From(st, all, t)) <= RateLimit - 1
  <2> DEFINE F == From(st, all, t)
  <2>1. CASE n = 0
    <3>1. F = {}
      BY <2>1 DEF Books, From
    <3>2. Cardinality(F) = 0
      BY <3>1, FS_EmptySet
    <3> QED BY <3>2, Numbers
  <2>2. CASE n # 0
    <3>1. F \subseteq cur
      BY <1>1, <1>4, <2>2, Numbers DEF From, Books, Earlier
    <3>2. Cardinality(cur) = n /\ n <= RateLimit
      BY DEF Books, Current
    <3>3. Cardinality(F) \in Nat /\ Cardinality(F) <= n
      BY <1>1, <3>1, <3>2, PartOf
    <3>4. ASSUME t + Window > st[r]
          PROVE  Cardinality(F) <= n - 1
      <4>1. cur # {}
        BY <2>2, <3>2, FS_EmptySet
      <4>2. PICK q \in cur : st[q] = s
        BY <4>1 DEF Books, Current
      <4>3. q \notin F
        BY <2>2, <3>4, <4>2, Numbers DEF From
      <4> QED BY <1>1, <3>1, <3>2, <4>2, <4>3, PartWithout
    <3> QED BY <3>2, <3>3, <3>4, Numbers
  <2> QED BY <2>1, <2>2
<1>5. \A t \in Nat : Cardinality(Within(st, all, t)) <= 2 * RateLimit - 1
  BY BooksBound
<1>6. Earlier(st, st[r], all)
  <2>1. \A t \in Nat : t + Window >= st[r] => Cardinality(From(st, all, t)) <= RateLimit
    BY <1>4
  <2>2. ASSUME NEW t \in Nat, t + Window > st[r]
        PROVE  Cardinality(From(st, all, t)) <= RateLimit - 1
    <3>1. t + Window >= st[r]
      BY <2>2, Numbers
    <3> QED BY <1>4, <2>2, <3>1
  <2> QED BY <1>3, <1>5, <2>1, <2>2 DEF Earlier
<1>7. IsFiniteSet({r}) /\ \A q \in {r} \cup all : st[q] \in Nat
  BY <1>1, FS_Singleton
<1> QED BY <1>1, <1>2, <1>6, <1>7 DEF Books

\* r passes in the current window, in which there was room.
LEMMA BooksAdd ==
  ASSUME NEW st, NEW s \in Nat, NEW n \in Nat, NEW cur, NEW old,
         Books(st, s, n, cur, old), NEW r, st[r] \in Nat, r \notin cur,
         n # 0, n < RateLimit, s <= st[r] + 1, st[r] < s + Window
  PROVE  Books(st, s, n + 1, cur \cup {r}, old)
<1>1. IsFiniteSet(cur \cup {r}) /\ Cardinality(cur \cup {r}) = n + 1
  BY FS_AddElement DEF Books, Current
<1>2. cur # {}
  BY FS_EmptySet DEF Books, Current
<1>3. Current(st, s, n + 1, cur \cup {r})
  <2>1. \E q \in cur \cup {r} : st[q] = s
    BY <1>2 DEF Books, Current
  <2>2. \A q \in cur \cup {r} : s <= st[q] + 1 /\ st[q] < s + Window
    BY DEF Books, Current
  <2> QED BY <1>1, <2>1, <2>2, Numbers DEF Current
<1> QED BY <1>1, <1>3 DEF Books

\* Readings of the clock by others do not matter.
LEMMA BooksSame ==
  ASSUME NEW st, NEW st2, NEW s, NEW n, NEW cur, NEW old,
         Books(st, s, n, cur, old), \A r \in cur \cup old : st2[r] = st[r]
  PROVE  Books(st2, s, n, cur, old)
<1>1. \A t : From(st2, old, t) = From(st, old, t) /\ Within(st2, old, t) = Within(st, old, t)
  BY DEF From, Within
<1>2. Current(st2, s, n, cur)
  BY DEF Books, Current
<1>3. Earlier(st2, s, old)
  BY <1>1 DEF Books, Earlier
<1> QED BY <1>2, <1>3 DEF Books
-----------------------------------------------------------------------------
(* The rate of a credential *)

Mine(c) == {r \in passed : Credential(r) = c}

Booked(c) ==
  \E cur \in SUBSET Mine(c) : Books(stamp, started[c], count[c], cur, Mine(c) \ cur)

\* A request that is about to take the mutex read the clock a tick ago at most,
\* and nobody is in a window who has not been let through.
RateInv ==
  /\ shape \in [Requests -> Shape]
  /\ pc \in [Requests -> PCs] /\ reply \in [Requests -> Replies]
  /\ now \in 0 .. MaxTime /\ stamp \in [Requests -> 0 .. MaxTime]
  /\ started \in [Credentials -> 0 .. MaxTime] /\ count \in [Credentials -> Nat]
  /\ passed \subseteq Requests
  /\ \A r \in Requests : pc[r] \in {"new", "rate"} => r \notin passed
  /\ \A r \in Requests : pc[r] = "rate" => /\ Credential(r) \in Credentials
                                           /\ stamp[r] <= now /\ now <= stamp[r] + 1
  /\ \A c \in Credentials : started[c] <= now /\ Booked(c)

LEMMA Times == MaxTime \in Nat /\ None \notin Credentials
BY IngressAssumption DEF IngressAssumption

LEMMA RateInit == Init => RateInv
<1> SUFFICES ASSUME Init PROVE RateInv
  OBVIOUS
<1>1. /\ shape \in [Requests -> Shape] /\ pc \in [Requests -> PCs]
      /\ reply \in [Requests -> Replies] /\ passed = {}
      /\ \A r \in Requests : pc[r] # "rate"
  BY IngressAssumption DEF Init, PCs, Replies, IngressAssumption
<1>2. /\ now \in 0 .. MaxTime /\ stamp \in [Requests -> 0 .. MaxTime]
      /\ started \in [Credentials -> 0 .. MaxTime] /\ count \in [Credentials -> Nat]
      /\ \A c \in Credentials : started[c] <= now
  BY Times DEF Init
<1>3. ASSUME NEW c \in Credentials PROVE Booked(c)
  <2>1. Mine(c) = {} /\ started[c] = 0 /\ count[c] = 0
    BY DEF Init, Mine
  <2>2. Cardinality({}) = 0 /\ IsFiniteSet({})
    BY FS_EmptySet
  <2>3. Current(stamp, 0, 0, {})
    BY <2>2, Numbers DEF Current
  <2>4. \A t \in Nat : From(stamp, {}, t) = {} /\ Within(stamp, {}, t) = {}
    BY DEF From, Within
  <2>5. \A t \in Nat : Cardinality(From(stamp, {}, t)) = 0 /\ Cardinality(Within(stamp, {}, t)) = 0
    BY <2>2, <2>4
  <2>7. Earlier(stamp, 0, {})
    BY <2>5, Numbers DEF Earlier
  <2>6. Books(stamp, 0, 0, {}, {})
    BY <2>2, <2>3, <2>7 DEF Books
  <2> QED BY <2>1, <2>6 DEF Booked
<1> QED BY <1>1, <1>2, <1>3 DEF RateInv

\* A step that lets nobody through; others may read the clock.
LEMMA BookedSame ==
  ASSUME NEW c, Booked(c), shape' = shape, windows' = windows, passed' = passed,
         \A r \in passed : stamp'[r] = stamp[r]
  PROVE  Booked(c)'
<1>1. Mine(c)' = Mine(c) /\ started' = started /\ count' = count
  BY DEF Mine, Credential, windows
<1>2. PICK cur \in SUBSET Mine(c) : Books(stamp, started[c], count[c], cur, Mine(c) \ cur)
  BY DEF Booked
<1>3. \A r \in cur \cup (Mine(c) \ cur) : stamp'[r] = stamp[r]
  BY DEF Mine
<1>4. Books(stamp', started[c], count[c], cur, Mine(c) \ cur)
  BY <1>2, <1>3, BooksSame
<1> QED BY <1>1, <1>4 DEF Booked

\* The request r goes elsewhere than to the mutex.
LEMMA RateStays ==
  ASSUME RateInv, NEW r \in Requests, NEW to \in PCs \ {"new", "rate"}, NEW why \in Replies,
         shape' = shape, now' = now, stamp' = stamp, windows' = windows, passed' = passed,
         pc' = [pc EXCEPT ![r] = to],
         reply' = reply \/ reply' = [reply EXCEPT ![r] = why]
  PROVE  RateInv'
<1>1. \A c \in Credentials : Booked(c)'
  BY BookedSame DEF RateInv
<1>2. /\ started' = started /\ count' = count
      /\ \A q \in Requests : pc'[q] \in {"new", "rate"} => pc[q] = pc'[q]
      /\ \A q \in Requests : Credential(q)' = Credential(q)
  BY DEF windows, RateInv, Credential
<1>3. pc' \in [Requests -> PCs] /\ reply' \in [Requests -> Replies]
  BY DEF RateInv
<1> QED BY <1>1, <1>2, <1>3 DEF RateInv

LEMMA ArriveRates == ASSUME RateInv, NEW r \in Requests, Arrive(r) PROVE RateInv'
<1>1. /\ shape' = shape /\ now' = now /\ windows' = windows /\ passed' = passed /\ pc[r] = "new"
  BY DEF Arrive
<1>2. CASE /\ stamp' = stamp
           /\ Goto(r, "handler") \/ Goto(r, "done") \/ Wait(r, "drain", DrainTimeout)
  <2>1. \E to \in {"handler", "drain", "done"} : pc' = [pc EXCEPT ![r] = to]
    BY <1>2 DEF Goto, Wait
  <2>2. {"handler", "drain", "done"} \subseteq PCs \ {"new", "rate"}
    BY DEF PCs
  <2>3. \E why \in {"unauthorized", "too_large"} :
          reply' = reply \/ reply' = [reply EXCEPT ![r] = why]
    BY DEF Arrive, Finish
  <2>4. {"unauthorized", "too_large"} \subseteq Replies
    BY DEF Replies
  <2> QED BY <1>1, <1>2, <2>1, <2>2, <2>3, <2>4, RateStays
<1>3. CASE /\ Credential(r) # None /\ reply' = reply /\ Goto(r, "rate")
           /\ stamp' = [stamp EXCEPT ![r] = now]
  <2>1. Credential(r) \in Credentials
    BY <1>3 DEF RateInv, Credential, Shape
  <2>2. r \notin passed
    BY <1>1 DEF RateInv
  <2>3. \A q \in passed : stamp'[q] = stamp[q]
    BY <1>3, <2>2 DEF RateInv
  <2>4. \A c \in Credentials : Booked(c)'
    BY <1>1, <2>3, BookedSame DEF RateInv
  <2>5. /\ stamp' \in [Requests -> 0 .. MaxTime] /\ now \in Nat
        /\ pc' = [pc EXCEPT ![r] = "rate"] /\ pc' \in [Requests -> PCs]
    BY <1>3, Times DEF RateInv, Goto, PCs
  <2>6. \A q \in Requests : pc'[q] \in {"new", "rate"} => q \notin passed'
    BY <1>1, <2>2, <2>5 DEF RateInv
  <2>7. ASSUME NEW q \in Requests, pc'[q] = "rate"
        PROVE  /\ Credential(q)' \in Credentials
               /\ stamp'[q] <= now' /\ now' <= stamp'[q] + 1
    <3>1. CASE q = r
      BY <1>1, <1>3, <2>1, <2>5, <3>1 DEF RateInv, Credential
    <3>2. CASE q # r
      BY <1>1, <1>3, <2>5, <2>7, <3>2 DEF RateInv, Credential
    <3> QED BY <3>1, <3>2
  <2> QED BY <1>1, <1>3, <2>4, <2>5, <2>6, <2>7 DEF RateInv, windows
<1> QED BY <1>2, <1>3 DEF Arrive, Finish

\* r is let through, and the books of its credential still add up.
LEMMA LetThrough ==
  ASSUME RateInv, NEW r \in Requests, CheckRate(r), passed' = passed \cup {r}
  PROVE  \A c \in Credentials : started'[c] <= now /\ started'[c] \in 0 .. MaxTime /\ Booked(c)'
<1> DEFINE mine == Credential(r)
<1>1. /\ pc[r] = "rate" /\ r \notin passed /\ mine \in Credentials
      /\ stamp[r] <= now /\ now <= stamp[r] + 1
      /\ shape' = shape /\ stamp' = stamp
  BY DEF RateInv, CheckRate
<1>2. /\ stamp \in [Requests -> 0 .. MaxTime] /\ now \in Nat /\ stamp[r] \in Nat /\ stamp[r] \in 0 .. MaxTime
      /\ started[mine] \in Nat /\ count[mine] \in Nat /\ started[mine] <= now
  BY <1>1, Times DEF RateInv
<1>3. /\ started \in [Credentials -> 0 .. MaxTime] /\ count \in [Credentials -> Nat]
      /\ \A c \in Credentials : started[c] <= now /\ Booked(c)
  BY DEF RateInv
<1>4. ASSUME NEW c \in Credentials \ {mine}, started'[c] = started[c], count'[c] = count[c]
      PROVE  Booked(c)'
  <2>1. Mine(c)' = Mine(c)
    BY <1>1, <1>4 DEF Mine, Credential
  <2> QED BY <1>1, <1>3, <1>4, <2>1 DEF Booked
<1>5. Mine(mine)' = Mine(mine) \cup {r} /\ r \notin Mine(mine) /\ mine' = mine
  BY <1>1 DEF Mine, Credential
<1>6. PICK cur \in SUBSET Mine(mine) :
        Books(stamp, started[mine], count[mine], cur, Mine(mine) \ cur)
  BY <1>1, <1>3 DEF Booked
<1>7. CASE /\ count[mine] = 0 \/ Expired(mine, stamp[r])
           /\ Renew(mine, stamp[r])
  <2>1. started'[mine] = stamp[r] /\ count'[mine] = 1
    BY <1>1, <1>3, <1>7 DEF Renew
  <2>2. count[mine] = 0 \/ stamp[r] >= started[mine] + Window
    BY <1>2, <1>7, Numbers DEF Expired, Age
  <2>3. Books(stamp, stamp[r], 1, {r}, cur \cup (Mine(mine) \ cur))
    BY <1>2, <1>6, <2>2, BooksRenew
  <2>4. cur \cup (Mine(mine) \ cur) = Mine(mine) /\ Mine(mine) = (Mine(mine) \cup {r}) \ {r}
    BY <1>5
  <2>5. {r} \in SUBSET (Mine(mine) \cup {r})
    OBVIOUS
  <2>6. Books(stamp, started'[mine], count'[mine], {r}, (Mine(mine) \cup {r}) \ {r})
    BY <2>1, <2>3, <2>4
  <2>7. \A c \in Credentials : c = mine => Booked(c)'
    BY <1>1, <1>5, <2>5, <2>6 DEF Booked
  <2>8. \A c \in Credentials : c # mine => started'[c] = started[c] /\ count'[c] = count[c]
    BY <1>3, <1>7 DEF Renew
  <2>9. \A c \in Credentials : Booked(c)'
    BY <1>4, <2>7, <2>8
  <2>10. \A c \in Credentials : started'[c] <= now /\ started'[c] \in 0 .. MaxTime
    BY <1>1, <1>2, <1>3, <2>1, <2>8
  <2> QED BY <2>9, <2>10
<1>8. CASE /\ count[mine] # 0 /\ ~Expired(mine, stamp[r]) /\ HasRoom(mine)
           /\ count' = [count EXCEPT ![mine] = @ + 1] /\ started' = started
  <2>1. started'[mine] = started[mine] /\ count'[mine] = count[mine] + 1
    BY <1>1, <1>3, <1>8
  <2>2. /\ count[mine] < RateLimit
        /\ stamp[r] < started[mine] + Window /\ started[mine] <= stamp[r] + 1
    BY <1>1, <1>2, <1>8, Numbers DEF Expired, Age, HasRoom
  <2>3. r \notin cur
    BY <1>5
  <2>4. Books(stamp, started[mine], count[mine] + 1, cur \cup {r}, Mine(mine) \ cur)
    BY <1>2, <1>6, <1>8, <2>2, <2>3, BooksAdd
  <2>5. /\ cur \cup {r} \in SUBSET (Mine(mine) \cup {r})
        /\ Mine(mine) \ cur = (Mine(mine) \cup {r}) \ (cur \cup {r})
    BY <1>5
  <2>6. Books(stamp, started'[mine], count'[mine], cur \cup {r},
              (Mine(mine) \cup {r}) \ (cur \cup {r}))
    BY <2>1, <2>4, <2>5
  <2>7. \A c \in Credentials : c = mine => Booked(c)'
    BY <1>1, <1>5, <2>5, <2>6 DEF Booked
  <2>8. \A c \in Credentials : c # mine => started'[c] = started[c] /\ count'[c] = count[c]
    BY <1>3, <1>8
  <2>9. \A c \in Credentials : Booked(c)'
    BY <1>4, <2>7, <2>8
  <2> QED BY <1>3, <1>8, <2>9
<1>9. passed' # passed
  BY <1>1
<1> QED BY <1>7, <1>8, <1>9 DEF CheckRate, windows

LEMMA CheckRateRates == ASSUME RateInv, NEW r \in Requests, CheckRate(r) PROVE RateInv'
<1>1. pc[r] = "rate" /\ shape' = shape /\ now' = now /\ stamp' = stamp
  BY DEF CheckRate
<1>2. CASE Finish(r, "rate_limited") /\ windows' = windows /\ passed' = passed
  <2>1. "done" \in PCs \ {"new", "rate"} /\ "rate_limited" \in Replies
        /\ pc' = [pc EXCEPT ![r] = "done"] /\ reply' = [reply EXCEPT ![r] = "rate_limited"]
    BY <1>2 DEF PCs, Replies, Finish, Goto
  <2> QED BY <1>1, <1>2, <2>1, RateStays
<1>3. CASE /\ passed' = passed \cup {r} /\ Wait(r, "queue", QueueTimeout) /\ reply' = reply
           /\ \/ Renew(Credential(r), stamp[r])
              \/ count' = [count EXCEPT ![Credential(r)] = @ + 1] /\ started' = started
  <2>1. \A c \in Credentials : started'[c] <= now /\ started'[c] \in 0 .. MaxTime /\ Booked(c)'
    BY <1>3, LetThrough
  <2>2. pc' = [pc EXCEPT ![r] = "queue"] /\ pc' \in [Requests -> PCs] /\ passed' \subseteq Requests
    BY <1>3 DEF RateInv, Wait, PCs
  <2>3. \A q \in Requests : pc'[q] \in {"new", "rate"} => pc[q] = pc'[q] /\ q # r
    BY <2>2 DEF RateInv
  <2>4. count' \in [Credentials -> Nat]
    BY <1>3 DEF RateInv, Renew
  <2>5. started' \in [Credentials -> 0 .. MaxTime]
    <3>1. started' = [c \in Credentials |-> started'[c]]
      BY <1>3 DEF RateInv, Renew
    <3> QED BY <2>1, <3>1
  <2>6. \A q \in Requests : Credential(q)' = Credential(q)
    BY <1>1 DEF Credential
  <2> QED BY <1>1, <1>3, <2>1, <2>2, <2>3, <2>4, <2>5, <2>6 DEF RateInv
<1> QED BY <1>2, <1>3 DEF CheckRate

\* The steps of a request that has been refused or let through.
LEMMA OthersRate ==
  ASSUME RateInv, NEW r \in Requests,
         \/ Drained(r) \/ Chunk(r) \/ StreamEnds(r) \/ Leave(r) \/ Enter(r)
         \/ Overloaded(r) \/ BodyRead(r) \/ BodyIdle(r) \/ Respond(r)
  PROVE  /\ RateInv'
         /\ \A q \in Requests : reply'[q] = "rate_limited" => reply[q] = "rate_limited"
<1> DEFINE There == {"handler", "body", "stream", "done"}
           Whys == {"too_large", "overloaded", "body_timeout", "answered", "gone"}
<1>1. /\ shape' = shape /\ now' = now /\ stamp' = stamp
      /\ windows' = windows /\ passed' = passed
  BY DEF Drained, Chunk, StreamEnds, Leave, Enter, Overloaded, BodyRead, BodyIdle, Respond
<1>2. \E to \in There : pc' = [pc EXCEPT ![r] = to]
  BY DEF Drained, Chunk, StreamEnds, Leave, Enter, Overloaded, BodyRead, BodyIdle, Respond,
         Finish, Goto, Wait
<1>3. \E why \in Whys : reply' = reply \/ reply' = [reply EXCEPT ![r] = why]
  BY DEF Drained, Chunk, StreamEnds, Leave, Enter, Overloaded, BodyRead, BodyIdle, Respond,
         Finish
<1>4. There \subseteq PCs \ {"new", "rate"} /\ Whys \subseteq Replies /\ "rate_limited" \notin Whys
  BY DEF PCs, Replies
<1>5. RateInv'
  BY <1>1, <1>2, <1>3, <1>4, RateStays
<1>6. \A q \in Requests : reply'[q] = "rate_limited" => reply[q] = "rate_limited"
  BY <1>3, <1>4 DEF RateInv
<1> QED BY <1>5, <1>6

LEMMA TickRates == ASSUME RateInv, Tick PROVE RateInv'
<1>1. /\ shape' = shape /\ pc' = pc /\ reply' = reply /\ stamp' = stamp
      /\ windows' = windows /\ passed' = passed /\ now' = now + 1 /\ now < MaxTime
      /\ \A r \in Requests : pc[r] = "rate" => now = stamp[r]
  BY DEF Tick
<1>2. \A c \in Credentials : Booked(c)'
  BY <1>1, BookedSame DEF RateInv
<1>3. /\ started' = started /\ count' = count
      /\ \A q \in Requests : Credential(q)' = Credential(q)
  BY <1>1 DEF windows, Credential
<1>4. now \in Nat /\ now' \in 0 .. MaxTime
  BY <1>1, Times DEF RateInv
<1>5. \A r \in Requests : pc'[r] = "rate" => stamp'[r] <= now' /\ now' <= stamp'[r] + 1
  BY <1>1, <1>4
<1>6. \A c \in Credentials : started'[c] <= now'
  BY <1>1, <1>3, <1>4 DEF RateInv
<1> QED BY <1>1, <1>2, <1>3, <1>4, <1>5, <1>6 DEF RateInv

LEMMA UnchangedRates == ASSUME RateInv, UNCHANGED vars PROVE RateInv'
<1>1. \A c \in Credentials : Booked(c)'
  BY BookedSame DEF RateInv, vars, windows
<1> QED BY <1>1 DEF RateInv, vars, windows, Credential

LEMMA RateStep == RateInv /\ [Next]_vars => RateInv'
<1> SUFFICES ASSUME RateInv, [Next]_vars PROVE RateInv'
  OBVIOUS
<1>1. ASSUME NEW r \in Requests,
             Arrive(r) \/ Drained(r) \/ Chunk(r) \/ StreamEnds(r) \/ Leave(r) \/ Polled(r)
      PROVE  RateInv'
  BY <1>1, ArriveRates, CheckRateRates, OthersRate DEF Polled
<1> QED BY <1>1, TickRates, UnchangedRates DEF Next

\* The books show that at most twice the limit less one pass in any window of time.
LEMMA RatesBounded == RateInv => RateBound
<1> SUFFICES ASSUME RateInv, NEW c \in Credentials, NEW t \in 0 .. MaxTime
             PROVE  Passed(c, t, t + Window - 1) <= 2 * RateLimit - 1
  BY DEF RateBound
<1>1. PICK cur \in SUBSET Mine(c) : Books(stamp, started[c], count[c], cur, Mine(c) \ cur)
  BY DEF RateInv, Booked
<1>2. started[c] \in Nat /\ count[c] \in Nat /\ t \in Nat
  BY Times DEF RateInv
<1>3. Cardinality(Within(stamp, cur \cup (Mine(c) \ cur), t)) <= 2 * RateLimit - 1
  BY <1>1, <1>2, BooksBound
<1>4. Within(stamp, cur \cup (Mine(c) \ cur), t)
        = {r \in passed : Credential(r) = c /\ t <= stamp[r] /\ stamp[r] <= t + Window - 1}
  BY DEF Within, Mine
<1> QED BY <1>3, <1>4 DEF Passed

\* Whom check_rate refuses finds that many in the window that it is in.
LEMMA RefusedAtLimit ==
  ASSUME RateInv, NEW r \in Requests, CheckRate(r), passed' = passed
  PROVE  \E t \in 0 .. MaxTime :
           stamp[r] \in t .. t + Window /\ Passed(Credential(r), t, t + Window) >= RateLimit
<1> DEFINE c == Credential(r)
           s == started[c]
           from == IF s = 0 THEN 0 ELSE s - 1
           all == {q \in passed : Credential(q) = c /\ from <= stamp[q] /\ stamp[q] <= from + Window}
<1>1. /\ pc[r] = "rate" /\ c \in Credentials /\ r \notin passed
      /\ stamp[r] <= now /\ now <= stamp[r] + 1 /\ passed \subseteq Requests
  BY DEF RateInv, CheckRate
<1>2. /\ s \in 0 .. MaxTime /\ s \in Nat /\ count[c] \in Nat /\ now \in Nat /\ stamp[r] \in Nat
      /\ s <= now
  BY <1>1, Times DEF RateInv
<1>3. count[c] # 0 /\ ~Expired(c, stamp[r]) /\ ~HasRoom(c)
  BY <1>1 DEF CheckRate
<1>4. stamp[r] < s + Window /\ s <= stamp[r] + 1 /\ count[c] >= RateLimit
  BY <1>1, <1>2, <1>3, Numbers DEF Expired, Age, HasRoom
<1>5. from \in 0 .. MaxTime /\ from \in Nat /\ stamp[r] \in from .. from + Window
  BY <1>2, <1>4, Numbers, Times
<1>6. PICK cur \in SUBSET Mine(c) : Books(stamp, s, count[c], cur, Mine(c) \ cur)
  BY <1>1 DEF RateInv, Booked
<1>7. cur \subseteq all
  <2> SUFFICES ASSUME NEW q \in cur PROVE from <= stamp[q] /\ stamp[q] <= from + Window
    BY DEF Mine
  <2>1. stamp[q] \in Nat /\ s <= stamp[q] + 1 /\ stamp[q] < s + Window
    BY <1>6 DEF Books, Current
  <2> QED BY <1>2, <2>1, Numbers
<1>8. Cardinality(cur) = count[c]
  BY <1>6 DEF Books, Current
<1>9. IsFiniteSet(all)
  <2>1. IsFiniteSet(cur) /\ IsFiniteSet(Mine(c) \ cur)
    BY <1>6 DEF Books
  <2>2. IsFiniteSet(cur \cup (Mine(c) \ cur)) /\ all \subseteq cur \cup (Mine(c) \ cur)
    BY <2>1, FS_Union DEF Mine
  <2> QED BY <2>2, FS_Subset
<1>10. Cardinality(all) \in Nat /\ Cardinality(cur) <= Cardinality(all)
  BY <1>7, <1>9, PartOf, FS_CardinalityType
<1>11. Passed(c, from, from + Window) = Cardinality(all)
  BY DEF Passed
<1>12. Passed(c, from, from + Window) >= RateLimit
  BY <1>2, <1>4, <1>8, <1>10, <1>11, Numbers
<1> QED BY <1>5, <1>12

\* A step in which somebody is refused is that of check_rate.
LEMMA RefusedStep ==
  ASSUME RateInv, [Next]_vars, NEW r \in Requests,
         reply'[r] = "rate_limited", reply[r] # "rate_limited"
  PROVE  \E t \in 0 .. MaxTime :
           stamp[r] \in t .. t + Window /\ Passed(Credential(r), t, t + Window) >= RateLimit
<1>1. reply' # reply
  OBVIOUS
<1>2. PICK q \in Requests :
        Arrive(q) \/ Drained(q) \/ Chunk(q) \/ StreamEnds(q) \/ Leave(q) \/ Polled(q)
  BY <1>1 DEF Next, Tick, vars
<1>3. CheckRate(q)
  <2>1. ~Arrive(q)
    <3> SUFFICES ASSUME Arrive(q) PROVE FALSE
      OBVIOUS
    <3>1. \E why \in {"unauthorized", "too_large"} : reply' = [reply EXCEPT ![q] = why]
      BY <1>1 DEF Arrive, Finish
    <3> QED BY <3>1 DEF RateInv
  <2> QED BY <1>2, <2>1, OthersRate DEF Polled
<1>4. reply' = [reply EXCEPT ![q] = "rate_limited"] /\ passed' = passed
  BY <1>1, <1>3 DEF CheckRate, Finish
<1>5. q = r
  BY <1>4 DEF RateInv
<1> QED BY <1>3, <1>4, <1>5, RefusedAtLimit

\* The fixed window of per_credential_requests_per_minute (check_rate): at most
\* twice the limit less one pass in a minute, and who is refused has used it up.
THEOREM RatesAreExact == Spec => RateExact
<1>1. Init => RateInv
  BY RateInit
<1>2. RateInv /\ [Next]_vars => RateInv'
  BY RateStep
<1>3. RateInv => RateBound
  BY RatesBounded
<1>4. RateInv /\ [Next]_vars =>
        [\A r \in Requests :
           reply'[r] = "rate_limited" /\ reply[r] # "rate_limited" =>
             \E t \in 0 .. MaxTime :
               stamp[r] \in t .. t + Window /\ Passed(Credential(r), t, t + Window) >= RateLimit]_vars
  BY RefusedStep
<1>5. Spec => []RateInv
  BY <1>1, <1>2, PTL DEF Spec
<1>6. Spec => []RateBound
  BY <1>3, <1>5, PTL
<1>7. Spec => RefusedOverLimit
  BY <1>4, <1>5, PTL DEF Spec, RefusedOverLimit
<1> QED BY <1>6, <1>7 DEF RateExact
=============================================================================
