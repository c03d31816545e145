---------------------------- MODULE DispatchProofs ----------------------------
(***************************************************************************)
(* What Dispatch promises for any requests, models, plans, policies and      *)
(* limits.  The state that a request shares with others is a number: free     *)
(* permits and open streams, each of which is a count of requests at some     *)
(* places.  All else is local: what a request holds, was charged, has tried,  *)
(* has counted and has been told is fixed by where it is (Local), and a step  *)
(* of another request does not touch it (Others).                           *)
(***************************************************************************)
EXTENDS Dispatch, FiniteSetTheorems, WellFoundedInduction, TLAPS

\* Every variable is a function on the right domain, with values of its type.
Types ==
  /\ pc \in [Requests -> PCs]
  /\ order \in [Requests -> Seq(Models)]
  /\ at \in [Requests -> Nat]
  /\ tries \in [Requests -> Nat]
  /\ status \in [Requests -> Statuses \cup Errors]
  /\ embedded \in [Requests -> BOOLEAN]
  /\ hit \in [Requests -> Models \cup {NoModel}]
  /\ permit \in [Requests -> Limited \cup {NoProvider}]
  /\ free \in [Limited -> Nat]
  /\ ledger \in Ledgers
  /\ cache \subseteq Models
  /\ sticky \in [Keys -> Models \cup {NoModel}]
  /\ streamsActive \in Int
  /\ finals \in [Requests -> Nat]
  /\ answer \in [Requests -> Answers]
  /\ charged \in [Requests -> Seq(Models)]

\* A request's place in its plan.
Placed(r) ==
  /\ Len(order[r]) = Len(Plan[r])
  /\ at[r] <= Len(order[r])
  /\ pc[r] \in {"new", "reserve", "lookup"} => at[r] = 0
  /\ pc[r] \in {"select", "store", "stream"} => at[r] > 0
  /\ pc[r] \in {"select", "body", "stream"} => status[r] \in Statuses

Shape == Types /\ \A r \in Requests : Placed(r)

\* A step of one request.
Step(r) == Arrive(r) \/ Progress(r) \/ Cancel(r)
-----------------------------------------------------------------------------
(* Lemmas about what the actions are made of.                               *)

\* Some element of a nonempty set of indices is the least, so that Preferred
\* chooses one.
LEMMA LeastIndex ==
  ASSUME NEW S \in SUBSET Nat, S # {}
  PROVE  LET i == CHOOSE i \in S : \A j \in S : i <= j IN i \in S
<1> DEFINE Less == {ss \in Nat \X Nat : ss[1] < ss[2]}
<1>1. IsWellFoundedOn(Less, Nat)
  BY NatLessThanWellFounded DEF OpToRel
<1> HIDE DEF Less
<1>2. \E i \in S : \A j \in S : <<j, i>> \notin Less
  BY <1>1, WFMin
<1>3. ASSUME NEW i \in S, NEW j \in S, <<j, i>> \notin Less
      PROVE  i <= j
  <2>1. <<j, i>> \in Nat \X Nat /\ <<j, i>>[1] = j /\ <<j, i>>[2] = i
    OBVIOUS
  <2>2. ~(<<j, i>>[1] < <<j, i>>[2])
    BY <1>3, <2>1 DEF Less
  <2>3. QED
    BY <2>1, <2>2
<1>4. \E i \in S : \A j \in S : i <= j
  BY <1>2, <1>3
<1>5. QED
  BY <1>4

\* Sticky routing exchanges two candidates, or none.
LEMMA PreferredSwaps ==
  ASSUME NEW models \in Seq(Models), models # <<>>, NEW m
  PROVE  \E i \in DOMAIN models :
           Preferred(models, m) = [models EXCEPT ![1] = models[i], ![i] = models[1]]
<1> DEFINE exact == {i \in DOMAIN models : PreferModel /\ models[i] = m}
           sameProvider == {i \in DOMAIN models : ProviderOf[models[i]] = ProviderOf[m]}
           best == IF exact # {} THEN exact ELSE sameProvider
           least == CHOOSE i \in best : \A j \in best : i <= j
<1>1. 1 \in DOMAIN models /\ DOMAIN models \in SUBSET Nat
  OBVIOUS
<1>2. CASE m = NoModel \/ sameProvider = {}
  <2>1. Preferred(models, m) = models
    BY <1>2 DEF Preferred
  <2>2. models = [models EXCEPT ![1] = models[1], ![1] = models[1]]
    BY <1>1
  <2>3. QED
    BY <1>1, <2>1, <2>2
<1>3. CASE ~(m = NoModel \/ sameProvider = {})
  <2>1. best # {} /\ best \in SUBSET Nat /\ best \subseteq DOMAIN models
    BY <1>1, <1>3
  <2>2. least \in DOMAIN models
    BY <2>1, LeastIndex
  <2>3. Preferred(models, m) = [models EXCEPT ![1] = models[least], ![least] = models[1]]
    BY <1>3 DEF Preferred
  <2>4. QED
    BY <2>2, <2>3
<1>4. QED
  BY <1>2, <1>3

\* It keeps the candidates, however many they are.
LEMMA PreferredPermutes ==
  ASSUME NEW models \in Seq(Models), models # <<>>, NEW m
  PROVE  /\ Preferred(models, m) \in Seq(Models)
         /\ Len(Preferred(models, m)) = Len(models)
         /\ \A i \in DOMAIN models : \E j \in DOMAIN models : Preferred(models, m)[j] = models[i]
<1>1. PICK i \in DOMAIN models :
        Preferred(models, m) = [models EXCEPT ![1] = models[i], ![i] = models[1]]
  BY PreferredSwaps
<1>2. 1 \in DOMAIN models /\ DOMAIN models = 1 .. Len(models)
  OBVIOUS
<1>3. Preferred(models, m) \in Seq(Models) /\ Len(Preferred(models, m)) = Len(models)
  BY <1>1, <1>2
<1>4. ASSUME NEW k \in DOMAIN models
      PROVE  \E j \in DOMAIN models : Preferred(models, m)[j] = models[k]
  <2>1. Preferred(models, m)[IF k = 1 THEN i ELSE IF k = i THEN 1 ELSE k] = models[k]
    BY <1>1, <1>2
  <2>2. QED
    BY <1>2, <2>1
<1>5. QED
  BY <1>3, <1>4

\* A reservation charges a known scope by a known amount.
LEMMA ChargedIsLedger ==
  ASSUME NEW l \in Ledgers, NEW x \in Requests \X Models
  PROVE  Charged(l, x) \in Ledgers /\ WithEntry(l, x) \in Ledgers
<1> DEFINE scope == [y \in Requests \X Models |-> Credential[y[1]]][x]
<1>1. scope \in Scopes /\ Charge[x] \in Usage
  BY DispatchAssumption DEF Usage
<1>2. ASSUME NEW u \in Usage, NEW v \in Usage PROVE Plus(u, v) \in Usage
  BY DispatchAssumption DEF Usage, Plus, SaturatingAdd
<1>3. Plus(l.used[scope], Charge[x]) \in Usage /\ Plus(l.total, Charge[x]) \in Usage
  BY <1>1, <1>2 DEF Ledgers
<1>4. WithEntry(l, x) \in Ledgers
  BY <1>1 DEF Ledgers, WithEntry
<1>5. Charged(l, x) \in Ledgers
  BY <1>1, <1>3 DEF Ledgers, WithEntry, Charged
<1>6. QED
  BY <1>4, <1>5

\* In Shape, the candidate that a request is at is a model of its plan.
LEMMA Candidate ==
  ASSUME Shape, NEW r \in Requests
  PROVE  /\ order[r] # <<>> /\ Len(order[r]) \in Nat \ {0}
         /\ \A i \in 1 .. Len(order[r]) :
              order[r][i] \in Models /\ ProviderOf[order[r][i]] \in Providers
         /\ Reservation(r) \in Requests \X Models
         /\ Target(r) \in Providers
         /\ at[r] > 0 => order[r][at[r]] \in Models
<1>1. /\ order[r] \in Seq(Models) /\ Len(order[r]) = Len(Plan[r])
      /\ at[r] \in Nat /\ at[r] <= Len(order[r])
  BY DEF Shape, Types, Placed
<1>2. Plan[r] \in Seq(Models) /\ Plan[r] # <<>>
  BY DispatchAssumption
<1>3. order[r] # <<>> /\ Len(order[r]) \in Nat \ {0}
  BY <1>1, <1>2
<1>4. \A i \in 1 .. Len(order[r]) : order[r][i] \in Models /\ ProviderOf[order[r][i]] \in Providers
  BY <1>1, DispatchAssumption
<1>5. Reservation(r) \in Requests \X Models
  BY <1>3, <1>4 DEF Reservation, Shape, Types
<1>6. Target(r) \in Providers
  BY <1>1, <1>4, DispatchAssumption DEF Target
<1>7. QED
  BY <1>1, <1>3, <1>4, <1>5, <1>6

\* What a step of one request leaves alone of the others.
Same(q) ==
  /\ pc'[q] = pc[q] /\ order'[q] = order[q] /\ embedded'[q] = embedded[q] /\ hit'[q] = hit[q]
  /\ at'[q] = at[q] /\ tries'[q] = tries[q] /\ status'[q] = status[q]
  /\ permit'[q] = permit[q]
  /\ finals'[q] = finals[q] /\ answer'[q] = answer[q] /\ charged'[q] = charged[q]

LEMMA Others ==
  ASSUME Types, NEW r \in Requests, Step(r), NEW q \in Requests, q # r
  PROVE  Same(q)
<1> USE DEF Same, Goto, Finish, CountFinal, Try, Serve, Release, Accept, SendFails,
            request, call, shared, outcome, permits, Types
<1>1. CASE Arrive(r)
  BY <1>1 DEF Arrive
<1>2. CASE Reserve(r)
  BY <1>2 DEF Reserve
<1>3. CASE ReserveFails(r)
  BY <1>3 DEF ReserveFails
<1>4. CASE Lookup(r)
  BY <1>4 DEF Lookup
<1>5. CASE Acquire(r)
  BY <1>5 DEF Acquire
<1>6. CASE Refuse(r)
  BY <1>6 DEF Refuse
<1>7. CASE \E o \in {"transient", "timeout"} : Retry(r, o)
  BY <1>7 DEF Retry
<1>8. CASE Backoff(r)
  BY <1>8 DEF Backoff
<1>9. CASE \E e \in {"timeout", "transport"} : SendErr(r, e)
  BY <1>9 DEF SendErr
<1>10. CASE \E s \in Statuses : SendOk(r, s)
  BY <1>10 DEF SendOk
<1>11. CASE Select(r)
  BY <1>11 DEF Select
<1>12. CASE EmbeddingDone(r)
  BY <1>12 DEF EmbeddingDone
<1>13. CASE BodyDone(r)
  BY <1>13 DEF BodyDone
<1>14. CASE BodyFails(r)
  BY <1>14 DEF BodyFails
<1>15. CASE Store(r)
  BY <1>15 DEF Store
<1>16. CASE \E a \in {status[r], "body_error"} : StreamEnds(r, a)
  BY <1>16 DEF StreamEnds
<1>17. CASE Cancel(r)
  BY <1>17 DEF Cancel
<1>18. QED
  BY <1>1, <1>2, <1>3, <1>4, <1>5, <1>6, <1>7, <1>8, <1>9, <1>10, <1>11, <1>12, <1>13,
     <1>14, <1>15, <1>16, <1>17 DEF Step, Progress

\* What a step of a request does to each variable, named by what the actions use.
LEMMA StepEffects ==
  ASSUME Types, NEW r \in Requests, Step(r)
  PROVE  /\ \E to \in PCs : Goto(r, to)
         /\ Arrive(r) \/ UNCHANGED order
         /\ Release(r) \/ Acquire(r) \/ UNCHANGED permits
         /\ Accept(r) \/ UNCHANGED charged
         /\ CountFinal(r) \/ UNCHANGED finals
         /\ \/ UNCHANGED answer
            \/ \E a \in {"hit", "over_budget", "transport_error", "body_error", "success", "gone"} :
                 answer' = [answer EXCEPT ![r] = a]
            \/ pc[r] \in {"body", "stream"} /\ answer' = [answer EXCEPT ![r] = status[r]]
         /\ (\E i \in Nat : Try(r, i)) \/ (\E o : Retry(r, o)) \/ UNCHANGED <<at, tries>>
<1> USE DEF Step, Progress, Arrive, Reserve, ReserveFails, Lookup, Acquire, Refuse, Retry, Backoff,
            SendErr, SendOk, Select, EmbeddingDone, BodyDone, BodyFails, Store, StreamEnds, Cancel
<1>1. \E to \in PCs : Goto(r, to)
  <2>1. \/ \E to \in {"lookup", "reserve", "queue", "done", "attempt"} : Goto(r, to)
        \/ \E to \in {"backoff", "body", "select", "stream", "store"} : Goto(r, to)
    BY DEF Finish, Try, Serve, SendFails
  <2>2. QED
    BY <2>1 DEF PCs
<1>2. Arrive(r) \/ UNCHANGED order
  BY DEF request
<1>3. Release(r) \/ Acquire(r) \/ UNCHANGED permits
  BY DEF SendFails
<1>4. Accept(r) \/ UNCHANGED charged
  BY DEF SendFails
<1>5. CountFinal(r) \/ UNCHANGED finals
  BY DEF SendFails, outcome
<1>6. \/ UNCHANGED answer
      \/ \E a \in {"hit", "over_budget", "transport_error", "body_error", "success", "gone"} :
           answer' = [answer EXCEPT ![r] = a]
      \/ pc[r] \in {"body", "stream"} /\ answer' = [answer EXCEPT ![r] = status[r]]
  BY DEF Finish, Serve, SendFails, outcome
<1>7. (\E i \in Nat : Try(r, i)) \/ (\E o : Retry(r, o)) \/ UNCHANGED <<at, tries>>
  <2>1. at[r] + 1 \in Nat
    BY DEF Types
  <2>2. QED
    BY <2>1 DEF Serve, SendFails, call
<1>8. QED
  BY <1>1, <1>2, <1>3, <1>4, <1>5, <1>6, <1>7

\* A step keeps the types,
LEMMA StepTypes ==
  ASSUME Shape, NEW r \in Requests, Step(r)
  PROVE  Types'
<1>1. Types /\ Placed(r)
  BY DEF Shape
<1>2. pc' \in [Requests -> PCs]
  <2>1. PICK to \in PCs : Goto(r, to)
    BY <1>1, StepEffects
  <2>2. QED
    BY <1>1, <2>1 DEF Types, Goto
<1>3. order' \in [Requests -> Seq(Models)]
  <2>1. CASE Arrive(r)
    BY <1>1, <2>1, Candidate, PreferredPermutes DEF Types, Arrive
  <2>2. Arrive(r) \/ UNCHANGED order
    BY <1>1, StepEffects
  <2>3. QED
    BY <1>1, <2>1, <2>2 DEF Types
<1>4. at \in [Requests -> Nat] /\ tries \in [Requests -> Nat]
  BY <1>1 DEF Types
<1>5. at' \in [Requests -> Nat] /\ tries' \in [Requests -> Nat]
  <2>1. ASSUME NEW i \in Nat, Try(r, i)
        PROVE  at' \in [Requests -> Nat] /\ tries' \in [Requests -> Nat]
    BY <1>4, <2>1 DEF Try
  <2>2. ASSUME NEW o, Retry(r, o)
        PROVE  at' \in [Requests -> Nat] /\ tries' \in [Requests -> Nat]
    BY <1>4, <2>2 DEF Retry
  <2>3. (\E i \in Nat : Try(r, i)) \/ (\E o : Retry(r, o)) \/ UNCHANGED <<at, tries>>
    BY <1>1, StepEffects
  <2>4. QED
    BY <1>4, <2>1, <2>2, <2>3
<1>6. permit' \in [Requests -> Limited \cup {NoProvider}] /\ free' \in [Limited -> Nat]
  <2>1. CASE Release(r)
    BY <1>1, <2>1 DEF Types, Release
  <2>2. CASE Acquire(r)
    <3>1. permit \in [Requests -> Limited \cup {NoProvider}] /\ free \in [Limited -> Nat]
      BY <1>1 DEF Types
    <3>2. CASE Target(r) \in Limited
      BY <2>2, <3>1, <3>2 DEF Acquire
    <3>3. CASE Target(r) \notin Limited
      BY <2>2, <3>1, <3>3 DEF Acquire, permits
    <3>4. QED
      BY <3>2, <3>3
  <2>3. Release(r) \/ Acquire(r) \/ UNCHANGED permits
    BY <1>1, StepEffects
  <2>4. QED
    <3>1. CASE UNCHANGED permits
      BY <1>1, <3>1 DEF permits, Types
    <3>2. QED
      BY <2>1, <2>2, <2>3, <3>1
<1>7. finals' \in [Requests -> Nat]
  <2>1. finals \in [Requests -> Nat]
    BY <1>1 DEF Types
  <2>2. CountFinal(r) \/ UNCHANGED finals
    BY <1>1, StepEffects
  <2>3. QED
    BY <2>1, <2>2 DEF CountFinal
<1>8. answer' \in [Requests -> Answers]
  <2>1. pc[r] \in {"body", "stream"} => status[r] \in Answers
    BY <1>1 DEF Placed, Answers
  <2>2. {"hit", "over_budget", "transport_error", "body_error", "success", "gone"} \subseteq Answers
    BY DEF Answers, Statuses
  <2>3. QED
    <3>1. answer \in [Requests -> Answers]
      BY <1>1 DEF Types
    <3>2. UNCHANGED answer \/ \E a \in Answers : answer' = [answer EXCEPT ![r] = a]
      BY <1>1, <2>1, <2>2, StepEffects
    <3>3. QED
      BY <3>1, <3>2
<1>9. charged' \in [Requests -> Seq(Models)]
  <2>1. Reservation(r)[2] \in Models
    BY Candidate
  <2>2. CASE Accept(r)
    BY <1>1, <2>1, <2>2 DEF Types, Accept
  <2>3. Accept(r) \/ UNCHANGED charged
    BY <1>1, StepEffects
  <2>4. QED
    BY <1>1, <2>2, <2>3 DEF Types
<1>10. /\ Charged(ledger, Reservation(r)) \in Ledgers
       /\ WithEntry(ledger, Reservation(r)) \in Ledgers
  BY <1>1, Candidate, ChargedIsLedger DEF Types
<1> USE DEF request, call, shared, outcome, permits,
            Step, Progress, Arrive, Reserve, ReserveFails, Lookup, Acquire, Refuse, Retry, Backoff,
            SendErr, SendOk, Select, EmbeddingDone, BodyDone, BodyFails, Store, StreamEnds, Cancel
<1>11. status' \in [Requests -> Statuses \cup Errors]
  BY <1>1 DEF Types, Statuses, Errors, SendFails
<1>12. embedded' \in [Requests -> BOOLEAN] /\ hit' \in [Requests -> Models \cup {NoModel}]
  BY <1>1 DEF Types
<1>13. ledger' \in Ledgers
  BY <1>1, <1>10 DEF Types, Accept
<1>14. cache' \subseteq Models
  BY <1>1, Candidate DEF Types, Placed
<1>15. sticky' \in [Keys -> Models \cup {NoModel}]
  BY <1>1, Candidate DEF Types, Remember, Placed
<1>16. streamsActive' \in Int
  BY <1>1 DEF Types
<1>17. QED
  BY <1>2, <1>3, <1>5, <1>6, <1>7, <1>8, <1>9, <1>11, <1>12, <1>13, <1>14, <1>15, <1>16 DEF Types

\* and the place of the request it is of.
LEMMA StepPlaced ==
  ASSUME Shape, NEW r \in Requests, Step(r)
  PROVE  Placed(r)'
<1>1. /\ pc \in [Requests -> PCs] /\ order \in [Requests -> Seq(Models)]
      /\ at \in [Requests -> Nat] /\ tries \in [Requests -> Nat]
      /\ status \in [Requests -> Statuses \cup Errors]
  BY DEF Shape, Types
<1>2. Placed(r) /\ order[r] # <<>> /\ Len(order[r]) \in Nat \ {0}
  BY Candidate DEF Shape
<1> USE DEF Goto, Finish, Try, Serve, request, call, Placed
<1>3. CASE Arrive(r)
  BY <1>3, <1>1, <1>2, PreferredPermutes DEF Arrive
<1>4. CASE Reserve(r)
  BY <1>4, <1>1, <1>2 DEF Reserve
<1>5. CASE ReserveFails(r)
  BY <1>5, <1>1, <1>2 DEF ReserveFails
<1>6. CASE Lookup(r)
  BY <1>6, <1>1, <1>2 DEF Lookup
<1>7. CASE Acquire(r)
  BY <1>7, <1>1, <1>2 DEF Acquire
<1>8. CASE Refuse(r)
  BY <1>8, <1>1, <1>2 DEF Refuse, SendFails, MayFailOver
<1>9. CASE \E o \in {"transient", "timeout"} : Retry(r, o)
  BY <1>9, <1>1, <1>2 DEF Retry
<1>10. CASE Backoff(r)
  BY <1>10, <1>1, <1>2 DEF Backoff
<1>11. CASE \E e \in {"timeout", "transport"} : SendErr(r, e)
  BY <1>11, <1>1, <1>2 DEF SendErr, SendFails, MayFailOver
<1>12. CASE \E s \in Statuses : SendOk(r, s)
  BY <1>12, <1>1, <1>2 DEF SendOk, MayFailOver
<1>13. CASE Select(r)
  BY <1>13, <1>1, <1>2 DEF Select, Remember
<1>14. CASE EmbeddingDone(r)
  BY <1>14, <1>1, <1>2 DEF EmbeddingDone
<1>15. CASE BodyDone(r)
  BY <1>15, <1>1, <1>2 DEF BodyDone
<1>16. CASE BodyFails(r)
  BY <1>16, <1>1, <1>2 DEF BodyFails
<1>17. CASE Store(r)
  BY <1>17, <1>1, <1>2 DEF Store
<1>18. CASE \E a \in {status[r], "body_error"} : StreamEnds(r, a)
  BY <1>18, <1>1, <1>2 DEF StreamEnds
<1>19. CASE Cancel(r)
  BY <1>19, <1>1, <1>2 DEF Cancel
<1>20. QED
  BY <1>3, <1>4, <1>5, <1>6, <1>7, <1>8, <1>9, <1>10, <1>11, <1>12, <1>13, <1>14, <1>15,
     <1>16, <1>17, <1>18, <1>19 DEF Step, Progress

\* Shape is inductive.
LEMMA NextShape == Shape /\ [Next]_vars => Shape'
<1> SUFFICES ASSUME Shape, [Next]_vars PROVE Shape'
  OBVIOUS
<1>1. ASSUME NEW r \in Requests, Step(r) PROVE Shape'
  <2>1. Types'
    BY <1>1, StepTypes
  <2>2. ASSUME NEW q \in Requests, q # r PROVE Placed(q)'
    BY <1>1, <2>2, Others DEF Shape, Same, Placed
  <2>3. QED
    BY <1>1, <2>1, <2>2, StepPlaced DEF Shape
<1>2. CASE UNCHANGED <<pc, request, call, permits, ledger, streamsActive, outcome, charged>>
           /\ cache' \subseteq Models /\ sticky' \in [Keys -> Models \cup {NoModel}]
  <2>1. Types'
    BY <1>2 DEF Shape, Types, request, call, permits, outcome
  <2>2. \A q \in Requests : Placed(q)'
    BY <1>2 DEF Shape, Placed, request, call
  <2>3. QED
    BY <2>1, <2>2 DEF Shape
<1>3. ASSUME NEW m \in Models, Evict(m) PROVE Shape'
  BY <1>2, <1>3 DEF Evict, Shape, Types
<1>4. ASSUME NEW k \in Keys, Forget(k) PROVE Shape'
  BY <1>2, <1>4 DEF Forget, Shape, Types
<1>5. CASE UNCHANGED vars
  BY <1>2, <1>5 DEF vars, shared, Shape, Types
<1>6. QED
  BY <1>1, <1>3, <1>4, <1>5 DEF Next, Step

LEMMA InitShape == Init => Shape
<1> SUFFICES ASSUME Init PROVE Shape
  OBVIOUS
<1>1. EmptyLedger \in Ledgers
  BY DispatchAssumption DEF EmptyLedger, Nothing, Ledgers, Usage
<1>2. Types
  BY <1>1, DispatchAssumption DEF Init, Types, PCs, Statuses, Answers
<1>3. \A r \in Requests : Placed(r)
  BY DispatchAssumption DEF Init, Placed
<1>4. QED
  BY <1>2, <1>3 DEF Shape
-----------------------------------------------------------------------------
(* Permits.                                                                 *)

\* A request holds the permit of the limited provider it is connected to.
Held(r) ==
  permit[r] = IF pc[r] \in Connected /\ Target(r) \in Limited THEN Target(r) ELSE NoProvider

LEMMA StepHeld ==
  ASSUME Shape, NEW r \in Requests, Held(r), Step(r)
  PROVE  Held(r)'
<1>1. /\ pc \in [Requests -> PCs] /\ order \in [Requests -> Seq(Models)]
      /\ at \in [Requests -> Nat] /\ permit \in [Requests -> Limited \cup {NoProvider}]
  BY DEF Shape, Types
<1>2. Placed(r)
  BY DEF Shape
<1> USE DEF Goto, Finish, Try, Serve, Release, SendFails, request, call, permits, Held, Connected,
            Target, Placed
<1>3. CASE Arrive(r)
  BY <1>3, <1>1, <1>2 DEF Arrive
<1>4. CASE Reserve(r)
  BY <1>4, <1>1, <1>2 DEF Reserve
<1>5. CASE ReserveFails(r)
  BY <1>5, <1>1, <1>2 DEF ReserveFails
<1>6. CASE Lookup(r)
  BY <1>6, <1>1, <1>2 DEF Lookup
<1>7. CASE Acquire(r)
  BY <1>7, <1>1, <1>2 DEF Acquire
<1>8. CASE Refuse(r)
  BY <1>8, <1>1, <1>2 DEF Refuse
<1>9. CASE \E o \in {"transient", "timeout"} : Retry(r, o)
  BY <1>9, <1>1, <1>2 DEF Retry
<1>10. CASE Backoff(r)
  BY <1>10, <1>1, <1>2 DEF Backoff
<1>11. CASE \E e \in {"timeout", "transport"} : SendErr(r, e)
  BY <1>11, <1>1, <1>2 DEF SendErr
<1>12. CASE \E s \in Statuses : SendOk(r, s)
  BY <1>12, <1>1, <1>2 DEF SendOk
<1>13. CASE Select(r)
  BY <1>13, <1>1, <1>2 DEF Select, Remember
<1>14. CASE EmbeddingDone(r)
  BY <1>14, <1>1, <1>2 DEF EmbeddingDone
<1>15. CASE BodyDone(r)
  BY <1>15, <1>1, <1>2 DEF BodyDone
<1>16. CASE BodyFails(r)
  BY <1>16, <1>1, <1>2 DEF BodyFails
<1>17. CASE Store(r)
  BY <1>17, <1>1, <1>2 DEF Store
<1>18. CASE \E a \in {status[r], "body_error"} : StreamEnds(r, a)
  BY <1>18, <1>1, <1>2 DEF StreamEnds
<1>19. CASE Cancel(r)
  BY <1>19, <1>1, <1>2 DEF Cancel
<1>20. QED
  BY <1>3, <1>4, <1>5, <1>6, <1>7, <1>8, <1>9, <1>10, <1>11, <1>12, <1>13, <1>14, <1>15,
     <1>16, <1>17, <1>18, <1>19 DEF Step, Progress

Holders(p) == {r \in Requests : permit[r] = p}

\* A permit that a step releases or acquires is that of the request it is of.
LEMMA StepConserves ==
  ASSUME Shape, PermitsConserved, NEW r \in Requests, Held(r), Step(r)
  PROVE  PermitsConserved'
<1>1. /\ permit \in [Requests -> Limited \cup {NoProvider}] /\ free \in [Limited -> Nat]
      /\ pc \in [Requests -> PCs]
  BY DEF Shape, Types
<1>2. NoProvider \notin Limited
  BY DispatchAssumption
<1>3. \A p : IsFiniteSet(Holders(p)) /\ Cardinality(Holders(p)) \in Nat
  <2>1. ASSUME NEW p PROVE IsFiniteSet(Holders(p))
    BY DispatchAssumption, FS_Subset DEF Holders
  <2>2. QED
    BY <2>1, FS_CardinalityType
<1>4. SUFFICES ASSUME NEW p \in Limited
               PROVE  free'[p] + Cardinality(Holders(p))' = MaxConcurrency[p]
  BY DEF PermitsConserved, Holders
<1>5. free[p] + Cardinality(Holders(p)) = MaxConcurrency[p] /\ free[p] \in Nat
  BY <1>1 DEF PermitsConserved, Holders
<1>6. CASE free'[p] = free[p] /\ Holders(p)' = Holders(p)
  BY <1>5, <1>6
<1>7. CASE Release(r)
  <2>1. CASE permit[r] = p
    <3>1. free'[p] = free[p] + 1
      BY <1>7, <2>1 DEF Release
    <3>2. r \in Holders(p) /\ Holders(p)' = Holders(p) \ {r}
      BY <1>1, <1>2, <1>7, <2>1 DEF Release, Holders
    <3>3. Cardinality(Holders(p) \ {r}) = Cardinality(Holders(p)) - 1
      BY <1>3, <3>2, FS_RemoveElement
    <3>4. QED
      BY <1>3, <1>5, <3>1, <3>2, <3>3
  <2>2. CASE permit[r] # p
    <3>1. free'[p] = free[p]
      BY <1>7, <2>2 DEF Release
    <3>2. Holders(p)' = Holders(p)
      BY <1>1, <1>2, <1>7, <2>2 DEF Release, Holders
    <3>3. QED
      BY <1>6, <3>1, <3>2
  <2>3. QED
    BY <2>1, <2>2
<1>8. CASE Acquire(r)
  <2>1. permit[r] = NoProvider
    BY <1>8 DEF Acquire, Held, Connected
  <2>2. CASE Target(r) = p
    <3>1. free'[p] = free[p] - 1
      BY <1>1, <1>8, <2>2 DEF Acquire
    <3>2. r \notin Holders(p) /\ Holders(p)' = Holders(p) \cup {r}
      BY <1>1, <1>2, <1>8, <2>1, <2>2 DEF Acquire, Holders
    <3>3. Cardinality(Holders(p) \cup {r}) = Cardinality(Holders(p)) + 1
      BY <1>3, <3>2, FS_AddElement
    <3>4. QED
      BY <1>3, <1>5, <3>1, <3>2, <3>3
  <2>3. CASE Target(r) # p
    <3>1. free'[p] = free[p]
      BY <1>1, <1>8, <2>3 DEF Acquire, permits
    <3>2. Holders(p)' = Holders(p)
      BY <1>1, <1>2, <1>8, <2>1, <2>3 DEF Acquire, permits, Holders
    <3>3. QED
      BY <1>6, <3>1, <3>2
  <2>4. QED
    BY <2>2, <2>3
<1>9. CASE UNCHANGED permits
  BY <1>6, <1>9 DEF permits, Holders
<1>10. QED
  BY <1>7, <1>8, <1>9, StepEffects DEF Shape
-----------------------------------------------------------------------------
(* Reservations.                                                            *)

Calling == {"queue", "attempt", "backoff", "select", "body", "store", "stream"}

\* Where a request has been charged, and where it has not been yet.
ChargedAt(r) ==
  /\ Len(charged[r]) <= 1
  /\ pc[r] \in {"new", "reserve"} => charged[r] = <<>>
  /\ pc[r] = "lookup" => (charged[r] = <<>> <=> Cache[r] # "provider")
  /\ pc[r] \in Calling => charged[r] # <<>>
  /\ pc[r] \in Calling /\ at[r] = 0 => Cache[r] = "provider"
  /\ (\E a \in sent : a[1] = r) => charged[r] # <<>>

LEMMA StepCharged ==
  ASSUME Shape, NEW r \in Requests, ChargedAt(r), Step(r)
  PROVE  ChargedAt(r)'
<1>1. /\ pc \in [Requests -> PCs] /\ at \in [Requests -> Nat] /\ charged \in [Requests -> Seq(Models)]
  BY DEF Shape, Types
<1>2. Placed(r)
  BY DEF Shape
<1>3. ASSUME pc[r] = "reserve", Accept(r) \/ UNCHANGED charged
      PROVE  /\ Len(charged'[r]) <= 1
             /\ Accept(r) => charged'[r] # <<>>
             /\ charged[r] = <<>>
  <2>1. Reservation(r)[2] \in Models
    BY Candidate
  <2>2. charged[r] = <<>>
    BY <1>3 DEF ChargedAt
  <2>3. CASE Accept(r)
    BY <1>1, <2>1, <2>2, <2>3 DEF Accept
  <2>4. CASE UNCHANGED charged /\ ~Accept(r)
    BY <2>2, <2>4
  <2>5. QED
    BY <1>3, <2>2, <2>3, <2>4
<1> USE DEF Goto, Finish, Try, Serve, SendFails, request, call, ChargedAt, Calling, Attempted,
            Placed, MayFailOver
<1>4. CASE Arrive(r)
  BY <1>4, <1>1, <1>2 DEF Arrive
<1>5. CASE Reserve(r)
  <2>1. pc[r] = "reserve" /\ (Accept(r) \/ UNCHANGED charged) /\ UNCHANGED sent
    BY <1>5 DEF Reserve
  <2>2. CASE ~Accept(r)
    BY <1>1, <1>3, <1>5, <2>1, <2>2 DEF Reserve
  <2>3. CASE Accept(r)
    BY <1>1, <1>2, <1>3, <1>5, <2>1, <2>3 DEF Reserve
  <2>4. QED
    BY <2>2, <2>3
<1>6. CASE ReserveFails(r)
  <2>1. pc[r] = "reserve" /\ (Accept(r) \/ UNCHANGED charged) /\ UNCHANGED sent
    BY <1>6 DEF ReserveFails
  <2>2. pc'[r] = "done"
    BY <1>1, <1>6 DEF ReserveFails
  <2>3. QED
    BY <1>3, <2>1, <2>2
<1>7. CASE Lookup(r)
  BY <1>7, <1>1, <1>2 DEF Lookup
<1>8. CASE Acquire(r)
  BY <1>8, <1>1, <1>2 DEF Acquire
<1>9. CASE Refuse(r)
  BY <1>9, <1>1, <1>2 DEF Refuse
<1>10. CASE \E o \in {"transient", "timeout"} : Retry(r, o)
  BY <1>10, <1>1, <1>2 DEF Retry
<1>11. CASE Backoff(r)
  BY <1>11, <1>1, <1>2 DEF Backoff
<1>12. CASE \E e \in {"timeout", "transport"} : SendErr(r, e)
  BY <1>12, <1>1, <1>2 DEF SendErr
<1>13. CASE \E s \in Statuses : SendOk(r, s)
  BY <1>13, <1>1, <1>2 DEF SendOk
<1>14. CASE Select(r)
  BY <1>14, <1>1, <1>2 DEF Select, Remember
<1>15. CASE EmbeddingDone(r)
  BY <1>15, <1>1, <1>2 DEF EmbeddingDone
<1>16. CASE BodyDone(r)
  BY <1>16, <1>1, <1>2 DEF BodyDone
<1>17. CASE BodyFails(r)
  BY <1>17, <1>1, <1>2 DEF BodyFails
<1>18. CASE Store(r)
  BY <1>18, <1>1, <1>2 DEF Store
<1>19. CASE \E a \in {status[r], "body_error"} : StreamEnds(r, a)
  BY <1>19, <1>1, <1>2 DEF StreamEnds
<1>20. CASE Cancel(r)
  <2>1. CASE pc[r] = "reserve" /\ Accept(r)
    BY <1>1, <1>3, <1>20, <2>1 DEF Cancel
  <2>2. CASE ~(pc[r] = "reserve" /\ Accept(r))
    BY <1>1, <1>20, <2>2 DEF Cancel
  <2>3. QED
    BY <2>1, <2>2
<1>21. QED
  BY <1>4, <1>5, <1>6, <1>7, <1>8, <1>9, <1>10, <1>11, <1>12, <1>13, <1>14, <1>15, <1>16,
     <1>17, <1>18, <1>19, <1>20 DEF Step, Progress
-----------------------------------------------------------------------------
(* Final outcomes.                                                          *)

\* What has been counted for a request, wherever it is.
CountedAt(r) ==
  /\ pc[r] # "done" =>
       finals[r] = IF pc[r] = "store" \/ (pc[r] = "stream" /\ status[r] # "success") THEN 1 ELSE 0
  /\ pc[r] = "done" /\ answer[r] \in {"hit", "over_budget"} => finals[r] = 0
  /\ pc[r] = "done" /\ answer[r] = "gone" => finals[r] <= 1
  /\ pc[r] = "done" /\ answer[r] \notin {"hit", "over_budget", "gone"} => finals[r] = 1

LEMMA StepCounted ==
  ASSUME Shape, NEW r \in Requests, CountedAt(r), Step(r)
  PROVE  CountedAt(r)'
<1>1. /\ pc \in [Requests -> PCs] /\ status \in [Requests -> Statuses \cup Errors]
      /\ finals \in [Requests -> Nat] /\ answer \in [Requests -> Answers]
  BY DEF Shape, Types
<1>2. Placed(r)
  BY DEF Shape
<1> USE DEF Goto, Finish, CountFinal, Try, Serve, SendFails, call, outcome, CountedAt, Placed, Statuses
<1>3. CASE Arrive(r)
  BY <1>3, <1>1, <1>2 DEF Arrive
<1>4. CASE Reserve(r)
  BY <1>4, <1>1, <1>2 DEF Reserve
<1>5. CASE ReserveFails(r)
  BY <1>5, <1>1, <1>2 DEF ReserveFails
<1>6. CASE Lookup(r)
  BY <1>6, <1>1, <1>2 DEF Lookup
<1>7. CASE Acquire(r)
  BY <1>7, <1>1, <1>2 DEF Acquire
<1>8. CASE Refuse(r)
  BY <1>8, <1>1, <1>2 DEF Refuse
<1>9. CASE \E o \in {"transient", "timeout"} : Retry(r, o)
  BY <1>9, <1>1, <1>2 DEF Retry
<1>10. CASE Backoff(r)
  BY <1>10, <1>1, <1>2 DEF Backoff
<1>11. CASE \E e \in {"timeout", "transport"} : SendErr(r, e)
  BY <1>11, <1>1, <1>2 DEF SendErr
<1>12. CASE \E s \in Statuses : SendOk(r, s)
  BY <1>12, <1>1, <1>2 DEF SendOk
<1>13. CASE Select(r)
  BY <1>13, <1>1, <1>2 DEF Select, Remember
<1>14. CASE EmbeddingDone(r)
  BY <1>14, <1>1, <1>2 DEF EmbeddingDone
<1>15. CASE BodyDone(r)
  BY <1>15, <1>1, <1>2 DEF BodyDone
<1>16. CASE BodyFails(r)
  BY <1>16, <1>1, <1>2 DEF BodyFails
<1>17. CASE Store(r)
  BY <1>17, <1>1, <1>2 DEF Store
<1>18. CASE \E a \in {status[r], "body_error"} : StreamEnds(r, a)
  BY <1>18, <1>1, <1>2 DEF StreamEnds
<1>19. CASE Cancel(r)
  BY <1>19, <1>1, <1>2 DEF Cancel
<1>20. QED
  BY <1>3, <1>4, <1>5, <1>6, <1>7, <1>8, <1>9, <1>10, <1>11, <1>12, <1>13, <1>14, <1>15,
     <1>16, <1>17, <1>18, <1>19 DEF Step, Progress
-----------------------------------------------------------------------------
(* Attempts and candidates.                                                 *)

\* The attempts of the current call so far are those its policy allows, and were made.
Tried(r) ==
  /\ tries[r] <= Retries[Target(r)]
  /\ pc[r] \in {"queue", "attempt", "backoff"} =>
       \A n \in 0 .. tries[r] - 1 : <<r, at[r], n>> \in sent

LEMMA StepTried ==
  ASSUME Shape, NEW r \in Requests, Tried(r), Step(r)
  PROVE  Tried(r)'
<1>1. /\ pc \in [Requests -> PCs] /\ at \in [Requests -> Nat] /\ tries \in [Requests -> Nat]
      /\ order \in [Requests -> Seq(Models)]
  BY DEF Shape, Types
<1>2. Placed(r) /\ Retries \in [Providers -> Nat]
  BY DispatchAssumption DEF Shape
<1>3. Target(r)' \in Providers /\ Retries[Target(r)'] \in Nat
  <2>1. Types' /\ Placed(r)'
    BY StepTypes, StepPlaced
  <2>2. order'[r] \in Seq(Models) /\ at'[r] \in Nat /\ at'[r] <= Len(order'[r])
    BY <2>1 DEF Types, Placed
  <2>3. Target(r)' \in Providers
    BY <2>2, DispatchAssumption DEF Target
  <2>4. QED
    BY <1>2, <2>3
<1>4. CASE \E i : Try(r, i)
  <2>1. tries'[r] = 0
    BY <1>1, <1>4 DEF Try
  <2>2. QED
    BY <1>3, <2>1 DEF Tried
<1>5. ASSUME NEW o, Retry(r, o) PROVE Tried(r)'
  <2>1. Target(r)' = Target(r) /\ at'[r] = at[r] /\ tries'[r] = tries[r] + 1 /\ tries[r] \in Nat
    BY <1>1, <1>5 DEF Retry, request, Target
  <2>2. tries[r] < Retries[Target(r)]
    BY <1>3, <1>5, <2>1 DEF Retry, LastAttempt
  <2>3. pc[r] = "attempt" /\ sent' = sent \cup {<<r, at[r], tries[r]>>}
    BY <1>5 DEF Retry, Attempted
  <2>4. \A n \in 0 .. tries'[r] - 1 : n \in 0 .. tries[r] - 1 \/ n = tries[r]
    BY <2>1
  <2>5. QED
    BY <1>3, <2>1, <2>2, <2>3, <2>4 DEF Tried
<1>6. CASE UNCHANGED <<at, tries>>
  <2>1. Target(r)' = Target(r)
    <3>1. CASE at[r] = 0
      BY <1>6, <3>1 DEF Target
    <3>2. CASE UNCHANGED order
      BY <1>6, <3>2 DEF Target
    <3>3. QED
      BY <1>2, <3>1, <3>2, StepEffects DEF Shape, Placed, Arrive
  <2>2. sent \subseteq sent'
    BY DEF Step, Progress, Arrive, Reserve, ReserveFails, Lookup, Acquire, Refuse, Retry, Backoff,
           SendErr, SendOk, Select, EmbeddingDone, BodyDone, BodyFails, Store, StreamEnds, Cancel,
           Attempted
  <2>3. pc'[r] \in {"queue", "attempt", "backoff"} =>
          pc[r] \in {"queue", "attempt", "backoff"} \/ \E i : Try(r, i)
    BY <1>1 DEF Step, Progress, Arrive, Reserve, ReserveFails, Lookup, Acquire, Refuse, Retry, Backoff,
           SendErr, SendOk, Select, EmbeddingDone, BodyDone, BodyFails, Store, StreamEnds, Cancel,
           Serve, SendFails, Finish, Goto
  <2>4. QED
    BY <1>4, <1>6, <2>1, <2>2, <2>3 DEF Tried
<1>7. QED
  BY <1>4, <1>5, <1>6, StepEffects DEF Shape

\* A request of an automatic route is told of an error at its last candidate,
\* and sticky routing has not lost any.
ToldAt(r) ==
  r \in Automatic =>
    /\ \A i \in DOMAIN Plan[r] : Plan[r][i] \in Candidates(r)
    /\ pc[r] \in {"select", "body", "stream"} /\ at[r] > 0 /\ status[r] = "transient" =>
         at[r] = Len(order[r])
    /\ answer[r] \in {"transient", "transport_error"} => pc[r] = "done" /\ at[r] = Len(order[r])

LEMMA StepTold ==
  ASSUME Shape, NEW r \in Requests, ToldAt(r), Step(r)
  PROVE  ToldAt(r)'
<1>1. /\ pc \in [Requests -> PCs] /\ at \in [Requests -> Nat] /\ order \in [Requests -> Seq(Models)]
      /\ status \in [Requests -> Statuses \cup Errors] /\ answer \in [Requests -> Answers]
  BY DEF Shape, Types
<1>2. Placed(r) /\ order[r] # <<>> /\ Len(order[r]) \in Nat \ {0}
  BY Candidate DEF Shape
<1> USE DEF Goto, Finish, Try, Serve, SendFails, MayFailOver, request, call, outcome, ToldAt, Placed,
            Candidates, Statuses
<1>3. CASE Arrive(r)
  BY <1>3, <1>1, <1>2, PreferredPermutes DEF Arrive
<1>4. CASE Reserve(r)
  BY <1>4, <1>1, <1>2 DEF Reserve
<1>5. CASE ReserveFails(r)
  BY <1>5, <1>1, <1>2 DEF ReserveFails
<1>6. CASE Lookup(r)
  BY <1>6, <1>1, <1>2 DEF Lookup
<1>7. CASE Acquire(r)
  BY <1>7, <1>1, <1>2 DEF Acquire
<1>8. CASE Refuse(r)
  BY <1>8, <1>1, <1>2 DEF Refuse
<1>9. CASE \E o \in {"transient", "timeout"} : Retry(r, o)
  BY <1>9, <1>1, <1>2 DEF Retry
<1>10. CASE Backoff(r)
  BY <1>10, <1>1, <1>2 DEF Backoff
<1>11. CASE \E e \in {"timeout", "transport"} : SendErr(r, e)
  BY <1>11, <1>1, <1>2 DEF SendErr
<1>12. CASE \E s \in Statuses : SendOk(r, s)
  BY <1>12, <1>1, <1>2 DEF SendOk
<1>13. CASE Select(r)
  BY <1>13, <1>1, <1>2 DEF Select, Remember
<1>14. CASE EmbeddingDone(r)
  BY <1>14, <1>1, <1>2 DEF EmbeddingDone
<1>15. CASE BodyDone(r)
  BY <1>15, <1>1, <1>2 DEF BodyDone
<1>16. CASE BodyFails(r)
  BY <1>16, <1>1, <1>2 DEF BodyFails
<1>17. CASE Store(r)
  BY <1>17, <1>1, <1>2 DEF Store
<1>18. CASE \E a \in {status[r], "body_error"} : StreamEnds(r, a)
  BY <1>18, <1>1, <1>2 DEF StreamEnds
<1>19. CASE Cancel(r)
  BY <1>19, <1>1, <1>2 DEF Cancel
<1>20. QED
  BY <1>3, <1>4, <1>5, <1>6, <1>7, <1>8, <1>9, <1>10, <1>11, <1>12, <1>13, <1>14, <1>15,
     <1>16, <1>17, <1>18, <1>19 DEF Step, Progress
-----------------------------------------------------------------------------
(* The gauge of open streams.                                               *)

Streams == {r \in Requests : pc[r] = "stream"}

LEMMA StepGauge ==
  ASSUME Shape, StreamGauge, NEW r \in Requests, Step(r)
  PROVE  StreamGauge'
<1>1. pc \in [Requests -> PCs] /\ streamsActive \in Int
  BY DEF Shape, Types
<1>2. IsFiniteSet(Streams) /\ Cardinality(Streams) \in Nat
  BY DispatchAssumption, FS_Subset, FS_CardinalityType DEF Streams
<1>3. PICK to \in PCs : Goto(r, to)
  BY StepEffects DEF Shape
<1>4. streamsActive = Cardinality(Streams)
  BY DEF StreamGauge, Streams
<1>5. SUFFICES streamsActive' = Cardinality(Streams')
  BY DEF StreamGauge, Streams
<1>6. CASE pc[r] # "stream" /\ to = "stream"
  <2>1. streamsActive' = streamsActive + 1
    BY <1>1, <1>3, <1>6 DEF Step, Progress, Arrive, Reserve, ReserveFails, Lookup, Acquire, Refuse,
       Retry, Backoff, SendErr, SendOk, Select, EmbeddingDone, BodyDone, BodyFails, Store, StreamEnds,
       Cancel, Goto, Finish, Try, Serve, SendFails
  <2>2. r \notin Streams /\ Streams' = Streams \cup {r}
    BY <1>1, <1>3, <1>6 DEF Goto, Streams
  <2>3. Cardinality(Streams \cup {r}) = Cardinality(Streams) + 1
    BY <1>2, <2>2, FS_AddElement
  <2>4. QED
    BY <1>4, <2>1, <2>2, <2>3
<1>7. CASE pc[r] = "stream"
  <2>1. streamsActive' = streamsActive - 1 /\ to # "stream"
    BY <1>1, <1>3, <1>7 DEF Step, Progress, Arrive, Reserve, ReserveFails, Lookup, Acquire, Refuse,
       Retry, Backoff, SendErr, SendOk, Select, EmbeddingDone, BodyDone, BodyFails, Store, StreamEnds,
       Cancel, Goto, Finish
  <2>2. r \in Streams /\ Streams' = Streams \ {r}
    BY <1>1, <1>3, <1>7, <2>1 DEF Goto, Streams
  <2>3. Cardinality(Streams \ {r}) = Cardinality(Streams) - 1
    BY <1>2, <2>2, FS_RemoveElement
  <2>4. QED
    BY <1>4, <2>1, <2>2, <2>3
<1>8. CASE pc[r] # "stream" /\ to # "stream"
  <2>1. streamsActive' = streamsActive
    BY <1>1, <1>3, <1>8 DEF Step, Progress, Arrive, Reserve, ReserveFails, Lookup, Acquire, Refuse,
       Retry, Backoff, SendErr, SendOk, Select, EmbeddingDone, BodyDone, BodyFails, Store, StreamEnds,
       Cancel, Goto, shared
  <2>2. Streams' = Streams
    BY <1>1, <1>3, <1>8 DEF Goto, Streams
  <2>3. QED
    BY <1>4, <2>1, <2>2
<1>9. QED
  BY <1>6, <1>7, <1>8
-----------------------------------------------------------------------------
(* The invariant.                                                           *)

Local(r) == Held(r) /\ ChargedAt(r) /\ CountedAt(r) /\ Tried(r) /\ ToldAt(r)

IInv == Shape /\ PermitsConserved /\ StreamGauge /\ \A r \in Requests : Local(r)

LEMMA InitIInv == Init => IInv
<1> SUFFICES ASSUME Init PROVE IInv
  OBVIOUS
<1>1. Shape
  BY InitShape
<1>2. PermitsConserved
  <2>1. \A p \in Limited : Holders(p) = {}
    BY DispatchAssumption DEF Init, Holders
  <2>2. \A p \in Limited : Cardinality(Holders(p)) = 0
    BY <2>1, FS_EmptySet
  <2>3. \A p \in Limited : free[p] + 0 = MaxConcurrency[p]
    BY DispatchAssumption DEF Init
  <2>4. QED
    BY <2>2, <2>3 DEF PermitsConserved, Holders
<1>3. StreamGauge
  <2>1. {r \in Requests : pc[r] = "stream"} = {}
    BY DEF Init
  <2>2. QED
    BY <2>1, FS_EmptySet DEF Init, StreamGauge
<1>4. ASSUME NEW r \in Requests PROVE Local(r)
  <2>1. Held(r) /\ ChargedAt(r) /\ CountedAt(r)
    BY DEF Init, Held, ChargedAt, CountedAt, Connected, Calling
  <2>2. Tried(r)
    <3>1. Retries[Target(r)] \in Nat
      BY <1>1, Candidate, DispatchAssumption
    <3>2. QED
      BY <3>1 DEF Init, Tried
  <2>3. ToldAt(r)
    BY DEF Init, ToldAt, Candidates
  <2>4. QED
    BY <2>1, <2>2, <2>3 DEF Local
<1>5. QED
  BY <1>1, <1>2, <1>3, <1>4 DEF IInv

LEMMA StepIInv ==
  ASSUME IInv, NEW r \in Requests, Step(r)
  PROVE  /\ PermitsConserved' /\ StreamGauge'
         /\ \A q \in Requests : Local(q)'
<1>1. Local(r)'
  BY StepHeld, StepCharged, StepCounted, StepTried, StepTold DEF IInv, Local
<1>2. sent \subseteq sent' /\ sent' \subseteq sent \cup {<<r, at[r], tries[r]>>}
  BY DEF Step, Progress, Arrive, Reserve, ReserveFails, Lookup, Acquire, Refuse, Retry, Backoff,
         SendErr, SendOk, Select, EmbeddingDone, BodyDone, BodyFails, Store, StreamEnds, Cancel,
         Attempted
<1>3. ASSUME NEW q \in Requests, q # r PROVE Local(q)'
  <2>1. Same(q) /\ Local(q)
    BY <1>3, Others DEF IInv, Shape
  <2>2. Target(q)' = Target(q)
    BY <2>1 DEF Same, Target
  <2>3. Held(q)' /\ CountedAt(q)' /\ ToldAt(q)'
    BY <2>1, <2>2 DEF Same, Local, Held, CountedAt, ToldAt, Candidates
  <2>4. ChargedAt(q)'
    BY <1>2, <1>3, <2>1 DEF Same, Local, ChargedAt
  <2>5. Tried(q)'
    BY <1>2, <2>1, <2>2 DEF Same, Local, Tried
  <2>6. QED
    BY <2>3, <2>4, <2>5 DEF Local
<1>4. QED
  BY <1>1, <1>3, StepConserves, StepGauge DEF IInv, Local

LEMMA NextIInv == IInv /\ [Next]_vars => IInv'
<1> SUFFICES ASSUME IInv, [Next]_vars PROVE IInv'
  OBVIOUS
<1>1. Shape'
  BY NextShape DEF IInv
<1>2. ASSUME NEW r \in Requests, Step(r) PROVE IInv'
  BY <1>1, <1>2, StepIInv DEF IInv
<1>3. CASE UNCHANGED <<pc, request, call, permits, streamsActive, outcome, sent, charged>>
  <2>1. PermitsConserved' /\ StreamGauge'
    BY <1>3 DEF IInv, PermitsConserved, StreamGauge, permits
  <2>2. ASSUME NEW q \in Requests PROVE Local(q)'
    BY <1>3 DEF IInv, Local, Held, ChargedAt, CountedAt, Tried, ToldAt, Target, Candidates,
                request, call, permits, outcome
  <2>3. QED
    BY <1>1, <2>1, <2>2 DEF IInv
<1>4. CASE (\E m \in Models : Evict(m)) \/ (\E k \in Keys : Forget(k)) \/ UNCHANGED vars
  BY <1>3, <1>4 DEF Evict, Forget, vars
<1>5. QED
  BY <1>2, <1>4 DEF Next, Step

LEMMA Invariant == Spec => []IInv
  BY InitIInv, NextIInv, PTL DEF Spec
-----------------------------------------------------------------------------
\* Every variable has its type, no call makes more attempts than its provider
\* allows, and no semaphore gains a permit.
THEOREM TypeCorrect == Spec => []TypeOK
<1>1. IInv => TypeOK
  <2> SUFFICES ASSUME IInv PROVE TypeOK
    OBVIOUS
  <2>1. Types /\ \A r \in Requests : Placed(r) /\ Tried(r) /\ CountedAt(r)
    BY DEF IInv, Shape, Local
  <2>2. ASSUME NEW r \in Requests
        PROVE  /\ order[r] \in Seq(Models) /\ Len(order[r]) = Len(Plan[r])
               /\ at[r] \in 0 .. Len(order[r])
               /\ tries[r] \in 0 .. Retries[Target(r)]
               /\ finals[r] \in 0 .. 2
    <3>1. Retries[Target(r)] \in Nat
      BY Candidate, DispatchAssumption DEF IInv
    <3>2. finals[r] \in 0 .. 1
      <4>1. finals[r] \in Nat /\ CountedAt(r)
        BY <2>1 DEF Types
      <4>2. finals[r] = 0 \/ finals[r] = 1 \/ finals[r] <= 1
        BY <4>1 DEF CountedAt
      <4>3. QED
        BY <4>1, <4>2
    <3>3. QED
      BY <2>1, <3>1, <3>2 DEF Types, Placed, Tried
  <2>3. finals \in [Requests -> 0 .. 2]
    BY <2>1, <2>2 DEF Types
  <2>4. \A p \in Limited : free[p] <= MaxConcurrency[p]
    <3>1. ASSUME NEW p \in Limited PROVE Cardinality(Holders(p)) \in Nat
      BY DispatchAssumption, FS_Subset, FS_CardinalityType DEF Holders
    <3>2. \A p \in Limited : free[p] + Cardinality(Holders(p)) = MaxConcurrency[p] /\ free[p] \in Nat
      BY <2>1 DEF IInv, PermitsConserved, Holders, Types
    <3>3. QED
      BY <3>1, <3>2
  <2>5. streamsActive \in 0 .. Cardinality(Requests)
    <3>1. IsFiniteSet(Requests) /\ Streams \subseteq Requests
      BY DispatchAssumption DEF Streams
    <3>2. /\ Cardinality(Streams) \in Nat /\ Cardinality(Requests) \in Nat
          /\ Cardinality(Streams) <= Cardinality(Requests)
      BY <3>1, FS_Subset, FS_CardinalityType
    <3>3. QED
      BY <3>2 DEF IInv, StreamGauge, Streams
  <2>6. QED
    BY <2>1, <2>2, <2>3, <2>4, <2>5 DEF TypeOK, Types
<1>2. QED
  BY <1>1, Invariant, PTL

\* Whatever fails, is cancelled or fails over, no permit is lost or made.
THEOREM PermitsAreConserved == Spec => []PermitsConserved
  BY Invariant, PTL DEF IInv

\* A limited provider is never used without its permit, up to the last byte.
THEOREM PermitHeld == Spec => []HeldThroughBody
<1>1. IInv => HeldThroughBody
  BY DEF IInv, Local, Held, HeldThroughBody
<1>2. QED
  BY <1>1, Invariant, PTL

\* Nothing is asked of an upstream before one reservation, and none is made twice.
THEOREM ReservedExactlyOnce == Spec => []ReservedOnce
<1>1. IInv => ReservedOnce
  BY DEF IInv, Local, ChargedAt, ReservedOnce
<1>2. QED
  BY <1>1, Invariant, PTL

\* An error that reaches the client of an automatic route is that of the last of
\* its candidates, all of its plan having been among them.
THEOREM ErrorsAreFinal == Spec => []ErrorIsFinal
<1>1. IInv => ErrorIsFinal
  <2> SUFFICES ASSUME IInv, NEW r \in Automatic, answer[r] \in {"transient", "transport_error"}
               PROVE  /\ at[r] = Len(order[r])
                      /\ \A i \in DOMAIN Plan[r] : Plan[r][i] \in Candidates(r)
    BY DEF ErrorIsFinal
  <2>1. r \in Requests
    BY DispatchAssumption
  <2>2. QED
    BY <2>1 DEF IInv, Local, ToldAt
<1>2. QED
  BY <1>1, Invariant, PTL

\* A finished request has the final outcomes its answer calls for.
THEOREM CountedOnce == Spec => []FinalOnce
<1>1. IInv => FinalOnce
  BY DEF IInv, Local, CountedAt, FinalOnce
<1>2. QED
  BY <1>1, Invariant, PTL

\* streams_active is the number of open streams.
THEOREM GaugeIsRight == Spec => []StreamGauge
  BY Invariant, PTL DEF IInv

\* A call goes on to the next candidate after a timeout or a transient status only
\* when the provider has had every attempt its policy allows.
THEOREM PolicyExhausted == Spec => FailoverAfterPolicy
<1> DEFINE Exhausted ==
      \A r \in Requests :
        at[r] > 0 /\ at'[r] > at[r] /\ status'[r] \in {"timeout", "transient"} =>
          \A n \in 0 .. Retries[Target(r)] : <<r, at[r], n>> \in sent'
<1>1. IInv /\ [Next]_vars => [Exhausted]_vars
  <2> SUFFICES ASSUME IInv, Next, NEW q \in Requests,
                      at[q] > 0, at'[q] > at[q], status'[q] \in {"timeout", "transient"}
               PROVE  \A n \in 0 .. Retries[Target(q)] : <<q, at[q], n>> \in sent'
    OBVIOUS
  <2>1. /\ at \in [Requests -> Nat] /\ tries \in [Requests -> Nat]
        /\ status \in [Requests -> Statuses \cup Errors]
        /\ Placed(q) /\ Tried(q)
    BY DEF IInv, Shape, Types, Local
  <2>2. PICK r \in Requests : Step(r)
    <3>1. (\E m \in Models : Evict(m)) \/ (\E k \in Keys : Forget(k)) => UNCHANGED at
      BY DEF Evict, Forget, call
    <3>2. QED
      BY <2>1, <3>1 DEF Next, Step
  <2>3. q = r
    BY <2>1, <2>2, Others DEF IInv, Shape, Same
  <2>4. \/ \E e \in {"timeout", "transport"} : SendErr(q, e) /\ e = "timeout"
        \/ \E s \in Statuses : SendOk(q, s) /\ s = "transient"
    BY <2>1, <2>2, <2>3 DEF Placed, Step, Progress, Arrive, Reserve, ReserveFails, Lookup, Acquire,
       Refuse, Retry, Backoff, SendErr, SendOk, Select, EmbeddingDone, BodyDone, BodyFails, Store,
       StreamEnds, Cancel, Serve, SendFails, Try, call
  <2>5. pc[q] = "attempt" /\ LastAttempt(q) /\ sent' = sent \cup {<<q, at[q], tries[q]>>}
    BY <2>4 DEF SendErr, SendOk, Attempted
  <2>6. tries[q] \in Nat /\ Retries[Target(q)] \in Nat /\ tries[q] >= Retries[Target(q)]
    BY <2>1, <2>5, Candidate, DispatchAssumption DEF IInv, LastAttempt
  <2>7. \A n \in 0 .. Retries[Target(q)] : n \in 0 .. tries[q] - 1 \/ n = tries[q]
    BY <2>6
  <2>8. QED
    BY <2>1, <2>5, <2>7 DEF Tried
<1>2. QED
  BY <1>1, Invariant, PTL DEF Spec, FailoverAfterPolicy

\* No permit is lost, doubled, kept too long or given back too soon.
THEOREM PermitsAreSound == Spec => []PermitsSound
<1>1. IInv => PermitsSound
  BY DEF IInv, Local, Held, HeldThroughBody, PermitsSound
<1>2. QED
  BY <1>1, Invariant, PTL
=============================================================================
