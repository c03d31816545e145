--------------------------- MODULE FileLedgerProofs ---------------------------
(***************************************************************************)
(* No scope of a file ledger passes its limit, for any reservations, scopes, *)
(* limits, processes and crashes.  FileStoreProofs gives that a reservation  *)
(* is checked against the ledger it replaces; the rest is Budget's arithmetic.*)
(***************************************************************************)
EXTENDS FileLedger, FiniteSetTheorems, WellFoundedInduction, TLAPS

Store == INSTANCE FileStoreProofs WITH Ops <- Requests, Initial <- Legacy, Writes <- Grants

\* FileLedger's store is the one FileStoreProofs is about.
LEMMA SameStep == [Next]_vars => [Store!Next]_(Store!vars)
<1> SUFFICES ASSUME [Next]_vars PROVE [Store!Next]_(Store!vars)
  OBVIOUS
<1> USE DEF disk, local, history, Store!disk, Store!local, Store!history
<1>1. CASE UNCHANGED vars
  BY <1>1 DEF vars, Store!vars
<1> USE DEF Goto, Locked, Blocking, Running, PCs, Store!Goto, Store!Locked, Store!Blocking,
      Store!Running, Store!PCs
<1>2. ASSUME NEW r \in Requests, Submit(r) PROVE Store!Submit(r)
  BY <1>2 DEF Submit, Store!Submit
<1>3. ASSUME NEW r \in Requests, Enter(r) PROVE Store!Enter(r)
  BY <1>3 DEF Enter, Store!Enter, Cardinality, Store!Cardinality
<1>4. ASSUME NEW r \in Requests, Abandon(r) PROVE Store!Abandon(r)
  BY <1>4 DEF Abandon, Store!Abandon
<1>5. ASSUME NEW r \in Requests, Deliver(r) PROVE Store!Deliver(r)
  BY <1>5 DEF Deliver, Store!Deliver
<1>6. ASSUME NEW r \in Requests, TryLock(r) PROVE Store!TryLock(r)
  BY <1>6 DEF TryLock, Store!TryLock
<1>7. ASSUME NEW r \in Requests, LockTimeout(r) PROVE Store!LockTimeout(r)
  BY <1>7 DEF LockTimeout, Store!LockTimeout
<1>8. ASSUME NEW r \in Requests, WriteOwner(r) PROVE Store!WriteOwner(r)
  BY <1>8 DEF WriteOwner, Store!WriteOwner
<1>9. ASSUME NEW r \in Requests, Unlock(r) PROVE Store!Unlock(r)
  BY <1>9 DEF Unlock, Store!Unlock
<1>10. ASSUME NEW r \in Requests, Read(r) PROVE Store!Read(r)
  BY <1>10 DEF Read, Store!Read
<1>11. ASSUME NEW r \in Requests, WriteTemp(r) PROVE Store!WriteTemp(r)
  BY <1>11 DEF WriteTemp, Store!WriteTemp
<1>12. ASSUME NEW r \in Requests, SyncTemp(r) PROVE Store!SyncTemp(r)
  BY <1>12 DEF SyncTemp, Store!SyncTemp
<1>13. ASSUME NEW r \in Requests, Rename(r) PROVE Store!Rename(r)
  BY <1>13 DEF Rename, Store!Rename
<1>14. ASSUME NEW r \in Requests, SyncDir(r) PROVE Store!SyncDir(r)
  BY <1>14 DEF SyncDir, Store!SyncDir
<1>15. ASSUME NEW r \in Requests, Fail(r) PROVE Store!Fail(r)
  BY <1>15 DEF Fail, Store!Fail
<1>16. ASSUME NEW p \in Procs, Crash(p) PROVE Store!Crash(p)
  BY <1>16 DEF Crash, Store!Crash, Die, Store!Die
<1>17. CASE PowerLoss
  <2>1. Store!PowerLoss
    BY <1>17 DEF PowerLoss, Store!PowerLoss, Die, Store!Die
  <2>2. QED
    BY <2>1 DEF Store!Next
<1>18. QED
  BY <1>1, <1>2, <1>3, <1>4, <1>5, <1>6, <1>7, <1>8, <1>9, <1>10, <1>11, <1>12, <1>13, <1>14, <1>15, <1>16, <1>17 DEF Next, ThreadStep, Store!Next, Store!ThreadStep

LEMMA SpecIsStore == Spec => Store!Spec
<1>1. Init => Store!Init
  BY DEF Init, Store!Init
<1>2. QED
  BY <1>1, SameStep, PTL DEF Spec, Store!Spec

\* What FileStoreProofs proves of every store is an invariant of the ledger's.
LEMMA StoreInvariant == Spec => []Store!IInv
<1>1. Store!StoreAssumption
  BY LedgerStoreAssumption DEF StoreAssumption, Store!StoreAssumption
<1>2. Store!Spec => []Store!IInv
  BY <1>1, Store!Invariant
<1>3. QED
  BY <1>2, SpecIsStore
-----------------------------------------------------------------------------
(* Budget's arithmetic.                                                     *)

\* A saturating sum is a counter.
LEMMA SumIsUsage == ASSUME NEW u \in Usage, NEW v \in Usage PROVE Plus(u, v) \in Usage
  BY BudgetAssumption DEF Usage, Plus, SaturatingAdd

LEMMA MigratedIsLedger == ASSUME NEW l \in Ledgers PROVE Migrated(l) \in Ledgers
  BY BudgetAssumption DEF Ledgers, Migrated

\* A charge keeps the ledger's type, names its scope, and touches no other scope.
LEMMA ChargedLedger ==
  ASSUME NEW l \in Ledgers, NEW r \in Requests
  PROVE  /\ Charged(l, r) \in Ledgers
         /\ Charged(l, r).known # {}
         /\ \A s \in Scopes :
              Charged(l, r).used[s] =
                IF s = Scope[r] THEN Plus(l.used[s], Charge[r]) ELSE l.used[s]
<1>1. Scope[r] \in Scopes /\ Charge[r] \in Usage
  BY BudgetAssumption
<1>2. Plus(l.used[Scope[r]], Charge[r]) \in Usage /\ Plus(l.total, Charge[r]) \in Usage
  BY <1>1, SumIsUsage DEF Ledgers
<1>3. QED
  BY <1>1, <1>2 DEF Ledgers, Charged, WithEntry

\* A charge that fits leaves every scope within its limits.
LEMMA FitsWithin ==
  ASSUME NEW l \in Ledgers, NEW l0, NEW r \in Requests,
         WithinBudget(l, r), KeepsLimits(l, l0)
  PROVE  KeepsLimits(Charged(l, r), l0)
<1> SUFFICES ASSUME NEW s \in Scopes, NEW d \in DOMAIN Limit
             PROVE  \/ Charged(l, r).used[s][d] <= Limit[d]
                    \/ Charged(l, r).used[s][d] = l0.used[s][d]
  BY DEF KeepsLimits
<1>1. d \in Dims
  BY BudgetAssumption
<1>2. CASE s = Scope[r]
  <2>1. Charged(l, r).used[s] = Plus(l.used[s], Charge[r])
    BY <1>2, ChargedLedger
  <2>2. Charged(l, r).used[s][d] = SaturatingAdd(l.used[s][d], Charge[r][d])
    BY <1>1, <2>1 DEF Plus
  <2>3. QED
    BY <1>2, <2>2 DEF WithinBudget
<1>3. CASE s # Scope[r]
  <2>1. Charged(l, r).used[s] = l.used[s]
    BY <1>3, ChargedLedger
  <2>2. QED
    BY <2>1 DEF KeepsLimits
<1>4. QED
  BY <1>2, <1>3
-----------------------------------------------------------------------------
\* A file some reservation may have been written to: as read, it is a ledger
\* within the limits; and once R is written, it is read as it is.
Sound(l, R) ==
  /\ Migrated(l) \in Ledgers
  /\ KeepsLimits(Migrated(l), Opening)
  /\ R # {} => l.known # {}

LimitsInv == Sound(content, applied) /\ Sound(stable, stableApplied)

LEMMA InitSound == Sound(Legacy, {})
<1>1. Migrated(Legacy) \in Ledgers
  BY LegacyAssumption, MigratedIsLedger
<1>2. CASE Legacy.known = {} /\ Legacy.total # Nothing
  <2>1. Migrated(Legacy).used = Opening.used
    BY <1>2, LegacyAssumption, BudgetAssumption DEF Migrated, Opening, Ledgers, EmptyLedger
  <2>2. QED
    BY <1>1, <2>1 DEF Sound, KeepsLimits
<1>3. CASE Legacy.known = {} /\ Legacy.total = Nothing
  <2>1. Migrated(Legacy).used = Opening.used
    BY <1>3, LegacyAssumption, BudgetAssumption DEF Migrated, Opening, Ledgers, EmptyLedger
  <2>2. QED
    BY <1>1, <2>1 DEF Sound, KeepsLimits
<1>4. CASE Legacy.known # {}
  BY <1>1, <1>4 DEF Sound, KeepsLimits, Migrated, Opening
<1>5. QED
  BY <1>2, <1>3, <1>4

\* What a rename puts in the file is sound.
LEMMA WrittenSound ==
  ASSUME NEW l, NEW R, NEW r \in Requests, Sound(l, R), Grants(l, r)
  PROVE  Sound(Written(l, r), R \cup {r})
<1> DEFINE m == Migrated(l)
<1>1. m \in Ledgers /\ KeepsLimits(m, Opening) /\ WithinBudget(m, r)
  BY DEF Sound, Grants
<1>2. Charged(m, r) \in Ledgers /\ Charged(m, r).known # {}
  BY <1>1, ChargedLedger
<1>3. KeepsLimits(Charged(m, r), Opening)
  BY <1>1, FitsWithin
<1>4. Migrated(Charged(m, r)) = Charged(m, r)
  BY <1>2 DEF Migrated
<1>5. QED
  BY <1>2, <1>3, <1>4 DEF Sound, Written

\* Only a rename puts a new ledger in the file; other steps copy one, or none.
LEMMA OnlyRename ==
  ASSUME [Next]_vars
  PROVE  \/ \E r \in Requests : Rename(r)
         \/ UNCHANGED <<content, applied, stable, stableApplied>>
         \/ stable' = content /\ stableApplied' = applied /\ UNCHANGED <<content, applied>>
         \/ content' = stable /\ applied' = stableApplied /\ UNCHANGED <<stable, stableApplied>>
<1>1. ASSUME NEW r \in Requests, ThreadStep(r), ~Rename(r), ~SyncDir(r)
      PROVE  UNCHANGED <<content, applied, stable, stableApplied>>
  BY <1>1 DEF ThreadStep, TryLock, LockTimeout, WriteOwner, Unlock, Read, WriteTemp, SyncTemp,
              Fail, disk, history
<1>2. ASSUME NEW r \in Requests, SyncDir(r)
      PROVE  stable' = content /\ stableApplied' = applied /\ UNCHANGED <<content, applied>>
  BY <1>2 DEF SyncDir
<1>3. ASSUME NEW r \in Requests, Submit(r) \/ Enter(r) \/ Abandon(r) \/ Deliver(r)
      PROVE  UNCHANGED <<content, applied, stable, stableApplied>>
  BY <1>3 DEF Submit, Enter, Abandon, Deliver, disk, history
<1>4. ASSUME NEW p \in Procs, Crash(p) PROVE UNCHANGED <<content, applied, stable, stableApplied>>
  BY <1>4 DEF Crash, disk
<1>5. ASSUME PowerLoss
      PROVE  \/ stable' = content /\ stableApplied' = applied /\ UNCHANGED <<content, applied>>
             \/ content' = stable /\ applied' = stableApplied /\ UNCHANGED <<stable, stableApplied>>
  BY <1>5 DEF PowerLoss
<1>6. CASE UNCHANGED vars
  BY <1>6 DEF vars, disk, history
<1>7. QED
  BY <1>1, <1>2, <1>3, <1>4, <1>5, <1>6 DEF Next

\* Every step keeps both copies of the ledger sound.
LEMMA NextLimits == Store!IInv /\ LimitsInv /\ [Next]_vars => LimitsInv'
<1> SUFFICES ASSUME Store!IInv, LimitsInv, [Next]_vars PROVE LimitsInv'
  OBVIOUS
<1>1. ASSUME NEW r \in Requests, Rename(r) PROVE LimitsInv'
  <2>1. buffer[r] = content /\ Grants(content, r)
    BY <1>1 DEF Store!IInv, Store!Current, Rename
  <2>2. content' = Written(content, r) /\ applied' = applied \cup {r}
    BY <1>1, <2>1 DEF Rename
  <2>3. UNCHANGED <<stable, stableApplied>>
    BY <1>1 DEF Rename
  <2>4. Sound(Written(content, r), applied \cup {r})
    BY <2>1, WrittenSound DEF LimitsInv
  <2>5. QED
    BY <2>2, <2>3, <2>4 DEF LimitsInv
<1>2. CASE \/ UNCHANGED <<content, applied, stable, stableApplied>>
           \/ stable' = content /\ stableApplied' = applied /\ UNCHANGED <<content, applied>>
           \/ content' = stable /\ applied' = stableApplied /\ UNCHANGED <<stable, stableApplied>>
  BY <1>2 DEF LimitsInv
<1>3. QED
  BY <1>1, <1>2, OnlyRename

LEMMA LimitsInvariant == Spec => []LimitsInv
<1>1. Init => LimitsInv
  BY InitSound DEF Init, LimitsInv
<1>2. QED
  BY <1>1, StoreInvariant, NextLimits, PTL DEF Spec

\* No scope passes a limit, whoever crashes.
THEOREM LimitsHold == Spec => []LedgerWithinLimits
<1>1. LimitsInv => LedgerWithinLimits
  BY DEF LimitsInv, Sound, Migrated, LedgerWithinLimits
<1>2. QED
  BY <1>1, LimitsInvariant, PTL
-----------------------------------------------------------------------------
(* What the reservations of a scope add up to.                              *)

\* The tokens, say, that a set of reservations charges.
Sum(d, R) == MapThenSumSet(LAMBDA r : Charge[r][d], R)

Pick(R) == CHOOSE r \in R : TRUE
\* The recursion behind Sum, on the subsets of R.
Step(d, f, R) ==
  [T \in SUBSET R |-> IF T = {} THEN 0 ELSE Charge[Pick(T)][d] + f[T \ {Pick(T)}]]
Iteration(d, R) == CHOOSE f : f = Step(d, f, R)

LEMMA SumIterates == ASSUME NEW d, NEW R PROVE Sum(d, R) = Iteration(d, R)[R]
  BY DEF Sum, MapThenSumSet, MapThenFoldSet, Iteration, Step, Pick

\* Among the subsets of a finite set that have a property some have no smaller one.
LEMMA Minimal ==
  ASSUME NEW S, IsFiniteSet(S), NEW C \in SUBSET (SUBSET S), C # {}
  PROVE  \E T \in C : \A U \in C : ~(U \subseteq T /\ U # T)
<1>1. FiniteSubsetsOf(S) = SUBSET S
  BY FS_FiniteSubsetsOfFinite
<1>2. IsWellFoundedOn(StrictSubsetOrdering(S), SUBSET S)
  BY <1>1, FS_StrictSubsetOrderingWellFounded
<1>3. \E T \in C : \A U \in C : <<U, T>> \notin StrictSubsetOrdering(S)
  BY <1>2, WFMin
<1>4. QED
  BY <1>3 DEF StrictSubsetOrdering

\* Two iterations agree where both are defined.
LEMMA IterationUnique ==
  ASSUME NEW d, NEW S, IsFiniteSet(S), NEW T \in SUBSET S, NEW f, NEW g,
         f = Step(d, f, S), g = Step(d, g, T)
  PROVE  \A U \in SUBSET T : f[U] = g[U]
<1> DEFINE C == {U \in SUBSET T : f[U] # g[U]}
<1>1. SUFFICES ASSUME C # {} PROVE FALSE
  OBVIOUS
<1>2. IsFiniteSet(T)
  BY FS_Subset
<1>3. PICK U \in C : \A V \in C : ~(V \subseteq U /\ V # U)
  <2>1. C \in SUBSET (SUBSET T)
    OBVIOUS
  <2> HIDE DEF C
  <2>2. QED
    BY <1>1, <1>2, <2>1, Minimal
<1>4. U \in SUBSET S /\ U \in SUBSET T
  OBVIOUS
<1>5. CASE U = {}
  <2>1. f[U] = 0 /\ g[U] = 0
    BY <1>4, <1>5 DEF Step
  <2>2. QED
    BY <2>1
<1>6. CASE U # {}
  <2> DEFINE V == U \ {Pick(U)}
  <2>1. Pick(U) \in U
    BY <1>6 DEF Pick
  <2>2. V \in SUBSET T /\ V \subseteq U /\ V # U
    BY <2>1
  <2>3. f[V] = g[V]
    BY <1>3, <2>2
  <2>4. f[U] = Charge[Pick(U)][d] + f[V] /\ g[U] = Charge[Pick(U)][d] + g[V]
    BY <1>4, <1>6 DEF Step
  <2>5. QED
    BY <2>3, <2>4
<1>7. QED
  BY <1>5, <1>6

\* There is one on every finite set.
LEMMA IterationExists ==
  ASSUME NEW d, NEW S, IsFiniteSet(S)
  PROVE  Iteration(d, S) = Step(d, Iteration(d, S), S)
<1> DEFINE C == {T \in SUBSET S : Iteration(d, T) # Step(d, Iteration(d, T), T)}
<1>1. SUFFICES ASSUME C # {} PROVE FALSE
  OBVIOUS
<1>2. PICK T \in C : \A U \in C : ~(U \subseteq T /\ U # T)
  <2>1. C \in SUBSET (SUBSET S)
    OBVIOUS
  <2> HIDE DEF C
  <2>2. QED
    BY <1>1, <2>1, Minimal
<1>3. ASSUME NEW U \in SUBSET T, U # T PROVE Iteration(d, U) = Step(d, Iteration(d, U), U)
  BY <1>2, <1>3
<1> DEFINE p == Pick(T)
           f == [U \in SUBSET T |-> IF U # T THEN Iteration(d, U)[U]
                                   ELSE IF T = {} THEN 0
                                   ELSE Charge[p][d] + Iteration(d, T \ {p})[T \ {p}]]
<1>4. T \in SUBSET S /\ IsFiniteSet(T)
  BY FS_Subset
<1>5. T # {} => p \in T
  BY DEF Pick
<1> HIDE DEF C, p
<1>6. ASSUME NEW U \in SUBSET T
      PROVE  f[U] = IF U = {} THEN 0 ELSE Charge[Pick(U)][d] + f[U \ {Pick(U)}]
  <2> DEFINE q == Pick(U)
             V == U \ {q}
  <2>1. U # {} => q \in U
    BY DEF Pick
  <2> HIDE DEF q
  <2>2. CASE U = T
    <3>1. CASE T = {}
      BY <2>2, <3>1
    <3>2. CASE T # {}
      <4>1. q = p
        BY <2>2 DEF p, q
      <4>2. V \in SUBSET T /\ V # T
        BY <2>1, <2>2, <3>2
      <4>3. f[V] = Iteration(d, V)[V]
        BY <4>2
      <4>4. f[U] = Charge[p][d] + Iteration(d, T \ {p})[T \ {p}]
        BY <2>2, <3>2
      <4>5. QED
        BY <2>2, <3>2, <4>1, <4>3, <4>4 DEF q
    <3>3. QED
      BY <3>1, <3>2
  <2>3. CASE U # T
    <3>1. f[U] = Iteration(d, U)[U]
      BY <2>3
    <3>2. Iteration(d, U) = Step(d, Iteration(d, U), U)
      BY <1>3, <2>3
    <3>3. Iteration(d, U)[U] =
            IF U = {} THEN 0 ELSE Charge[Pick(U)][d] + Iteration(d, U)[U \ {Pick(U)}]
      <4>1. Step(d, Iteration(d, U), U)[U] =
              IF U = {} THEN 0 ELSE Charge[Pick(U)][d] + Iteration(d, U)[U \ {Pick(U)}]
        BY DEF Step
      <4>2. QED
        BY <3>2, <4>1
    <3>4. CASE U = {}
      BY <3>1, <3>3, <3>4
    <3>5. CASE U # {}
      <4>1. V \in SUBSET U /\ V \in SUBSET T /\ V # T
        BY <2>1, <3>5, <2>3
      <4>2. Iteration(d, V) = Step(d, Iteration(d, V), V)
        BY <1>3, <4>1
      <4>3. IsFiniteSet(U)
        BY <1>4, FS_Subset
      <4>4. Iteration(d, U)[V] = Iteration(d, V)[V]
        BY <3>2, <4>1, <4>2, <4>3, IterationUnique
      <4>5. f[V] = Iteration(d, V)[V]
        BY <4>1
      <4>6. QED
        BY <3>1, <3>3, <3>5, <4>4, <4>5 DEF q
    <3>6. QED
      BY <3>4, <3>5
  <2>4. QED
    BY <2>2, <2>3
<1>7. f = Step(d, f, T)
  <2>1. Step(d, f, T) =
          [U \in SUBSET T |-> IF U = {} THEN 0 ELSE Charge[Pick(U)][d] + f[U \ {Pick(U)}]]
    BY DEF Step
  <2>2. f = [U \in SUBSET T |-> f[U]]
    OBVIOUS
  <2> HIDE DEF f
  <2>3. QED
    BY <1>6, <2>1, <2>2
<1> HIDE DEF f
<1>8. Iteration(d, T) = Step(d, Iteration(d, T), T)
  BY <1>7 DEF Iteration
<1>9. QED
  BY <1>2, <1>8 DEF C

\* What Sum unfolds to, and where it ends.
LEMMA SumUnfolds ==
  ASSUME NEW d, NEW S, IsFiniteSet(S)
  PROVE  /\ S = {} => Sum(d, S) = 0
         /\ S # {} => /\ Pick(S) \in S
                      /\ Sum(d, S) = Charge[Pick(S)][d] + Sum(d, S \ {Pick(S)})
<1> DEFINE T == S \ {Pick(S)}
           f == Iteration(d, S)
           g == Iteration(d, T)
<1>1. f = Step(d, f, S)
  BY IterationExists
<1>2. IsFiniteSet(T) /\ T \in SUBSET S
  BY FS_Subset
<1>3. g = Step(d, g, T)
  BY <1>2, IterationExists
<1>4. Sum(d, S) = f[S] /\ Sum(d, T) = g[T]
  BY SumIterates
<1> HIDE DEF f, g
<1>5. f[T] = g[T]
  BY <1>1, <1>2, <1>3, IterationUnique
<1>6. f[S] = IF S = {} THEN 0 ELSE Charge[Pick(S)][d] + f[T]
  <2>1. Step(d, f, S)[S] = IF S = {} THEN 0 ELSE Charge[Pick(S)][d] + f[T]
    BY DEF Step
  <2>2. QED
    BY <1>1, <2>1
<1>7. S # {} => Pick(S) \in S
  BY DEF Pick
<1>8. QED
  BY <1>4, <1>5, <1>6, <1>7

LEMMA SumIsNat ==
  ASSUME NEW d \in Dims, NEW S \in SUBSET Requests, IsFiniteSet(S)
  PROVE  Sum(d, S) \in Nat
<1> DEFINE C == {T \in SUBSET S : Sum(d, T) \notin Nat}
<1>1. SUFFICES ASSUME C # {} PROVE FALSE
  OBVIOUS
<1>2. PICK T \in C : \A U \in C : ~(U \subseteq T /\ U # T)
  <2>1. C \in SUBSET (SUBSET S)
    OBVIOUS
  <2> HIDE DEF C
  <2>2. QED
    BY <1>1, <2>1, Minimal
<1> DEFINE p == Pick(T)
<1>3. IsFiniteSet(T) /\ T \in SUBSET S
  BY FS_Subset
<1>4. /\ T = {} => Sum(d, T) = 0
      /\ T # {} => p \in T /\ Sum(d, T) = Charge[p][d] + Sum(d, T \ {p})
  BY <1>3, SumUnfolds
<1> HIDE DEF p
<1>5. CASE T # {}
  <2>1. Charge[p][d] \in Nat
    BY <1>3, <1>4, <1>5, BudgetAssumption DEF Usage
  <2>2. Sum(d, T \ {p}) \in Nat
    BY <1>2, <1>3, <1>4, <1>5
  <2>3. QED
    BY <1>2, <1>4, <1>5, <2>1, <2>2
<1>6. QED
  BY <1>2, <1>4, <1>5

\* The order does not matter: any element may be taken out first.
LEMMA SumTakesOut ==
  ASSUME NEW d \in Dims, NEW S \in SUBSET Requests, IsFiniteSet(S), NEW x \in S
  PROVE  Sum(d, S) = Charge[x][d] + Sum(d, S \ {x})
<1> DEFINE Fails(T, y) == Sum(d, T) # Charge[y][d] + Sum(d, T \ {y})
           C == {T \in SUBSET S : \E y \in T : Fails(T, y)}
<1>1. SUFFICES ASSUME C # {} PROVE FALSE
  OBVIOUS
<1>2. PICK T \in C : \A U \in C : ~(U \subseteq T /\ U # T)
  <2>1. C \in SUBSET (SUBSET S)
    OBVIOUS
  <2> HIDE DEF C
  <2>2. QED
    BY <1>1, <2>1, Minimal
<1>3. PICK y \in T : Fails(T, y)
  BY <1>2
<1>4. T \in SUBSET Requests /\ T \in SUBSET S /\ IsFiniteSet(T)
  BY <1>2, FS_Subset
<1>5. ASSUME NEW U \in SUBSET T, U # T, NEW z \in U PROVE ~Fails(U, z)
  BY <1>2, <1>4, <1>5
<1> DEFINE p == Pick(T)
<1>6. p \in T /\ Sum(d, T) = Charge[p][d] + Sum(d, T \ {p})
  BY <1>3, <1>4, SumUnfolds
<1> HIDE DEF p
<1>7. p # y
  BY <1>3, <1>6
<1>8. Sum(d, T \ {p}) = Charge[y][d] + Sum(d, (T \ {p}) \ {y})
  BY <1>3, <1>5, <1>6, <1>7
<1>9. Sum(d, T \ {y}) = Charge[p][d] + Sum(d, (T \ {y}) \ {p})
  BY <1>3, <1>5, <1>6, <1>7
<1>10. (T \ {p}) \ {y} = (T \ {y}) \ {p}
  OBVIOUS
<1>11. Sum(d, (T \ {y}) \ {p}) \in Nat
  <2> DEFINE U == (T \ {y}) \ {p}
  <2>1. U \in SUBSET T /\ U \in SUBSET Requests
    BY <1>4
  <2> HIDE DEF U
  <2>2. IsFiniteSet(U)
    BY <1>4, <2>1, FS_Subset
  <2>3. Sum(d, U) \in Nat
    BY <2>1, <2>2, SumIsNat
  <2>4. QED
    BY <2>3 DEF U
<1>12. Charge[p][d] \in Nat /\ Charge[y][d] \in Nat
  BY <1>3, <1>4, <1>6, BudgetAssumption DEF Usage
<1>13. Sum(d, T) = Charge[y][d] + Sum(d, T \ {y})
  <2> DEFINE rest == Sum(d, (T \ {y}) \ {p})
             a == Charge[p][d]
             b == Charge[y][d]
  <2>1. Sum(d, T \ {p}) = b + rest
    BY <1>8, <1>10
  <2>2. rest \in Nat /\ a \in Nat /\ b \in Nat
    BY <1>11, <1>12
  <2>3. Sum(d, T) = a + Sum(d, T \ {p}) /\ Sum(d, T \ {y}) = a + rest
    BY <1>6, <1>9
  <2> HIDE DEF rest, a, b
  <2>4. a + (b + rest) = b + (a + rest)
    BY <2>2
  <2>5. Sum(d, T) = b + Sum(d, T \ {y})
    BY <2>1, <2>3, <2>4
  <2>6. QED
    BY <2>5 DEF b
<1>14. QED
  BY <1>3, <1>13
-----------------------------------------------------------------------------
(* The ledger is the sum of its reservations.                               *)

Of(s, R) == {r \in R : Scope[r] = s}

\* A file read after the reservations R: each is counted once, in its own scope.
Exact(l, R) ==
  /\ R \in SUBSET Requests /\ IsFiniteSet(R)
  /\ \A s \in Scopes, d \in Dims :
       Migrated(l).used[s][d] = Capped(Opening.used[s][d] + Sum(d, Of(s, R)))

ExactInv == Exact(content, applied) /\ Exact(stable, stableApplied)

LEMMA OpeningUsage == Opening.used \in [Scopes -> Usage]
<1>1. CASE Legacy.known = {}
  BY <1>1, LegacyAssumption, BudgetAssumption DEF Opening, EmptyLedger, Ledgers, Nothing, Usage
<1>2. CASE Legacy.known # {}
  BY <1>2, LegacyAssumption DEF Opening, Ledgers
<1>3. QED
  BY <1>1, <1>2

LEMMA InitExact == Exact(Legacy, {})
<1>1. Migrated(Legacy).used = Opening.used
  BY LegacyAssumption, BudgetAssumption DEF Migrated, Opening, Ledgers, EmptyLedger
<1>2. IsFiniteSet({})
  BY FS_EmptySet
<1>3. ASSUME NEW s \in Scopes, NEW d \in Dims
      PROVE  Opening.used[s][d] = Capped(Opening.used[s][d] + Sum(d, Of(s, {})))
  <2>1. Of(s, {}) = {}
    BY DEF Of
  <2>2. Sum(d, Of(s, {})) = 0
    BY <1>2, <2>1, SumUnfolds
  <2>3. Opening.used[s][d] \in 0 .. MaxCount
    BY OpeningUsage DEF Usage
  <2>4. QED
    BY <2>2, <2>3, BudgetAssumption DEF Capped
<1>4. QED
  BY <1>1, <1>2, <1>3 DEF Exact

\* One reservation more: its charge is added to its scope and to no other.
LEMMA WrittenExact ==
  ASSUME NEW l, NEW R, NEW r \in Requests, r \notin R, Sound(l, R), Exact(l, R)
  PROVE  Exact(Written(l, r), R \cup {r})
<1> DEFINE m == Migrated(l)
           w == Charged(m, r)
           Q == R \cup {r}
<1>1. m \in Ledgers /\ w \in Ledgers /\ Migrated(w) = w
  BY ChargedLedger DEF Sound, Migrated
<1>2. Q \in SUBSET Requests /\ IsFiniteSet(Q) /\ IsFiniteSet(R)
  BY FS_AddElement DEF Exact
<1>3. ASSUME NEW s \in Scopes, NEW d \in Dims
      PROVE  w.used[s][d] = Capped(Opening.used[s][d] + Sum(d, Of(s, Q)))
  <2> DEFINE o == Opening.used[s][d]
             n == Sum(d, Of(s, R))
             c == Charge[r][d]
  <2>1. Of(s, R) \in SUBSET R /\ Of(s, R) \in SUBSET Requests
    BY <1>2 DEF Of
  <2>2. n \in Nat
    BY <1>2, <2>1, FS_Subset, SumIsNat
  <2>3. o \in Nat /\ c \in Nat
    BY OpeningUsage, BudgetAssumption DEF Usage
  <2>4. m.used[s][d] = Capped(o + n)
    BY DEF Exact
  <2>5. CASE s = Scope[r]
    <3>1. Of(s, Q) \in SUBSET Q /\ Of(s, Q) \in SUBSET Requests /\ r \in Of(s, Q)
          /\ Of(s, Q) \ {r} = Of(s, R)
      BY <1>2, <2>5 DEF Of
    <3>2. IsFiniteSet(Of(s, Q))
      BY <1>2, <3>1, FS_Subset
    <3>3. Sum(d, Of(s, Q)) = c + n
      <4>1. Sum(d, Of(s, Q)) = Charge[r][d] + Sum(d, Of(s, Q) \ {r})
        BY <3>1, <3>2, SumTakesOut
      <4>2. QED
        BY <3>1, <4>1
    <3>4. w.used[s][d] = SaturatingAdd(m.used[s][d], c)
      <4>1. w.used[s] = Plus(m.used[s], Charge[r])
        BY <1>1, <2>5, ChargedLedger
      <4>2. QED
        BY <4>1 DEF Plus
    <3> HIDE DEF o, n, c, w, m
    <3>5. SaturatingAdd(Capped(o + n), c) = Capped(o + (c + n))
      BY <2>2, <2>3, BudgetAssumption DEF SaturatingAdd, Capped
    <3>6. QED
      BY <2>4, <3>3, <3>4, <3>5 DEF o
  <2>6. CASE s # Scope[r]
    <3>1. Of(s, Q) = Of(s, R)
      BY <2>6 DEF Of
    <3>2. w.used[s][d] = m.used[s][d]
      BY <1>1, <2>6, ChargedLedger
    <3>3. QED
      BY <2>4, <3>1, <3>2
  <2>7. QED
    BY <2>5, <2>6
<1>4. QED
  BY <1>1, <1>2, <1>3 DEF Exact, Written

\* Only the rename adds to the ledger, and never a reservation that is in it.
LEMMA NextExact == Store!IInv /\ LimitsInv /\ ExactInv /\ [Next]_vars => ExactInv'
<1> SUFFICES ASSUME Store!IInv, LimitsInv, ExactInv, [Next]_vars PROVE ExactInv'
  OBVIOUS
<1>1. ASSUME NEW r \in Requests, Rename(r) PROVE ExactInv'
  <2>1. buffer[r] = content /\ r \notin applied
    BY <1>1 DEF Store!IInv, Store!Current, Store!AppliedByRename, Store!PCs, Store!Running, Store!Blocking,
                Store!Locked, Rename
  <2>2. content' = Written(content, r) /\ applied' = applied \cup {r}
    BY <1>1, <2>1 DEF Rename
  <2>3. UNCHANGED <<stable, stableApplied>>
    BY <1>1 DEF Rename
  <2>4. Exact(Written(content, r), applied \cup {r})
    BY <2>1, WrittenExact DEF LimitsInv, ExactInv
  <2>5. QED
    BY <2>2, <2>3, <2>4 DEF ExactInv
<1>2. CASE \/ UNCHANGED <<content, applied, stable, stableApplied>>
           \/ stable' = content /\ stableApplied' = applied /\ UNCHANGED <<content, applied>>
           \/ content' = stable /\ applied' = stableApplied /\ UNCHANGED <<stable, stableApplied>>
  BY <1>2 DEF ExactInv
<1>3. QED
  BY <1>1, <1>2, OnlyRename

\* Through crashes, timeouts and power losses the ledger file holds exactly the
\* reservations whose rename survived, each counted once (reserve_blocking,
\* add_scope_reservation, read_usage), whatever their number and charges.
THEOREM LedgerIsExact == Spec => []LedgerExact
<1>1. Init => ExactInv
  BY InitExact DEF Init, ExactInv
<1>2. LimitsInv /\ ExactInv => LedgerExact
  <2> SUFFICES ASSUME LimitsInv, ExactInv, applied # {}
               PROVE  CountsExactly(content, Opening, applied)
    BY DEF LedgerExact
  <2>1. Migrated(content) = content
    BY DEF LimitsInv, Sound, Migrated
  <2>2. QED
    BY <2>1 DEF ExactInv, Exact, CountsExactly, Sum, Of
<1>3. QED
  BY <1>1, <1>2, LimitsInvariant, StoreInvariant, NextExact, PTL DEF Spec
-----------------------------------------------------------------------------
(* What the ledger has from its store.                                      *)

\* A reservation its caller was told is made is in the ledger, and would be after
\* a power loss (reserve_blocking, atomic_write).
THEOREM ReservedIsDurable == Spec => []OkIsDurable
<1>1. Store!IInv => OkIsDurable
  BY DEF Store!IInv, Store!ResultsHold, OkIsDurable
<1>2. QED
  BY <1>1, StoreInvariant, PTL

\* A reservation is checked against and added to the ledger it replaces.
THEOREM NoLostUpdate == Spec => []NoStaleBuffer
<1>1. Store!IInv => NoStaleBuffer
  BY DEF Store!IInv, Store!Current, NoStaleBuffer
<1>2. QED
  BY <1>1, StoreInvariant, PTL

\* An abstract step is the same through either instance of AtomicStore.
LEMMA SameAbstractStep == [Store!Atomic!Next]_(Store!Atomic!vars) => [Atomic!Next]_(Atomic!vars)
<1>1. Store!Atomic!vars = Atomic!vars
  BY DEF Store!Atomic!vars, Atomic!vars
<1>2. Store!Atomic!Next => Atomic!Next
  BY DEF Store!Atomic!Next, Atomic!Next, Store!Atomic!Apply, Atomic!Apply,
         Store!Atomic!Decline, Atomic!Decline, Store!Atomic!Reply, Atomic!Reply,
         Store!Atomic!Answers, Atomic!Answers, Store!Atomic!Stabilize, Atomic!Stabilize,
         Store!Atomic!Outage, Atomic!Outage
<1>3. (Store!Atomic!vars)' = (Atomic!vars)'
  BY DEF Store!Atomic!vars, Atomic!vars
<1>4. QED
  BY <1>1, <1>2, <1>3

\* The ledger in its file is a ledger updated in one step per reservation: no
\* reservation is lost or counted twice, whatever processes, failures and crashes.
THEOREM LedgerImplements == Spec => Atomicity
<1>1. Store!StoreAssumption
  BY LedgerStoreAssumption DEF StoreAssumption, Store!StoreAssumption
<1>2. Store!Spec => Store!Atomicity
  BY <1>1, Store!Implements
<1>3. Store!Atomic!Init => Atomic!Init
  BY DEF Store!Atomic!Init, Atomic!Init
<1>4. Store!Atomicity => Atomicity
  BY <1>3, SameAbstractStep, PTL DEF Store!Atomicity, Store!Atomic!Spec, Atomicity, Atomic!Spec
<1>5. QED
  BY <1>2, <1>4, SpecIsStore
=============================================================================
