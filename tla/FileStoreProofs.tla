--------------------------- MODULE FileStoreProofs ---------------------------
(***************************************************************************)
(* FileStore implements AtomicStore, for any operations, processes and      *)
(* permits.  The argument is mutual exclusion: whoever is between its lock  *)
(* and its unlock holds the lock, so the content it read is still there     *)
(* when it renames, and the rename is the abstract step.                    *)
(***************************************************************************)
EXTENDS FileStore, TLAPS

\* The lock is held by the one operation that is between its lock and unlock.
Exclusive == \A r \in Ops : pc[r] \in Locked <=> holder = r

\* What an operation about to rename has read is there, and it means to write.
Current ==
  /\ DOMAIN buffer = Ops
  /\ \A r \in Ops : pc[r] \in {"writing", "written", "synced"} =>
       buffer[r] = content /\ Writes(content, r)

\* An operation is applied by its rename and by nothing before it.
AppliedByRename ==
  \A r \in Ops :
    /\ pc[r] \in (PCs \ {"renamed", "finished", "returning", "done"}) =>
         r \notin applied /\ r \notin stableApplied
    /\ pc[r] = "renamed" => r \in applied

SyncedTemps == \A r \in Ops : pc[r] = "synced" => temp[r] = "synced"

\* What a thread is about to report, or a caller was told, is so.
ResultsHold ==
  \A r \in Ops :
    /\ result[r] = "ok" => r \in applied /\ r \in stableApplied
    /\ result[r] = "declined" => r \in declined
    /\ answer[r] = "ok" => r \in applied /\ r \in stableApplied

\* A temporary file exists while it is being written, or was left by a crash.
Tidy ==
  \A r \in Ops : temp[r] # "none" => pc[r] \in {"written", "synced"} \/ crashes > 0

IInv ==
  /\ TypeOK /\ Exclusive /\ Current /\ AppliedByRename
  /\ SyncedTemps /\ DataBeforeName /\ Tidy /\ ResultsHold

LEMMA InitIInv == ASSUME StoreAssumption PROVE Init => IInv
  BY DEF StoreAssumption, Init, IInv, TypeOK, Exclusive, Current, AppliedByRename, SyncedTemps, Tidy,
      DataBeforeName, ResultsHold, Results, PCs, Running, Blocking, Locked

\* Every step keeps the invariant: one step per action.
LEMMA NextIInv == ASSUME StoreAssumption PROVE IInv /\ [Next]_vars => IInv'
<1> SUFFICES ASSUME IInv, [Next]_vars PROVE IInv'
  OBVIOUS
<1> USE DEF StoreAssumption, IInv, TypeOK, Exclusive, Current, AppliedByRename, SyncedTemps, Tidy, DataBeforeName,
        ResultsHold, Results, PCs, Running, Blocking, Locked, Goto, disk, local, history
<1>1. ASSUME NEW r \in Ops, Submit(r) PROVE IInv'
  BY <1>1 DEF Submit
<1>2. ASSUME NEW r \in Ops, Enter(r) PROVE IInv'
  BY <1>2 DEF Enter
<1>3. ASSUME NEW r \in Ops, Abandon(r) PROVE IInv'
  BY <1>3 DEF Abandon
<1>4. ASSUME NEW r \in Ops, Deliver(r) PROVE IInv'
  BY <1>4 DEF Deliver
<1>5. ASSUME NEW r \in Ops, TryLock(r) PROVE IInv'
  BY <1>5 DEF TryLock
<1>6. ASSUME NEW r \in Ops, LockTimeout(r) PROVE IInv'
  BY <1>6 DEF LockTimeout
<1>7. ASSUME NEW r \in Ops, WriteOwner(r) PROVE IInv'
  BY <1>7 DEF WriteOwner
<1>8. ASSUME NEW r \in Ops, Unlock(r) PROVE IInv'
  BY <1>8 DEF Unlock
<1>9. ASSUME NEW r \in Ops, Read(r) PROVE IInv'
  <2>1. CASE Writes(content, r)
    <3>1. pc' = [pc EXCEPT ![r] = "writing"] /\ buffer' = [buffer EXCEPT ![r] = content]
      BY <1>9, <2>1 DEF Read
    <3>2. UNCHANGED <<content, temp, result, intact, holder, answer, crashes, history>>
      BY <1>9, <2>1 DEF Read
    <3>3. TypeOK' /\ Exclusive' /\ Tidy' /\ SyncedTemps' /\ DataBeforeName'
      BY <1>9, <3>1, <3>2 DEF Read
    <3>4. Current'
      BY <2>1, <3>1, <3>2
    <3>5. AppliedByRename' /\ ResultsHold'
      BY <1>9, <3>1, <3>2 DEF Read
    <3>6. QED
      BY <3>3, <3>4, <3>5
  <2>2. CASE ~Writes(content, r)
    BY <1>9, <2>2 DEF Read
  <2>3. QED
    BY <2>1, <2>2
<1>10. ASSUME NEW r \in Ops, WriteTemp(r) PROVE IInv'
  BY <1>10 DEF WriteTemp
<1>11. ASSUME NEW r \in Ops, SyncTemp(r) PROVE IInv'
  BY <1>11 DEF SyncTemp
<1>12. ASSUME NEW r \in Ops, Rename(r) PROVE IInv'
  <2>1. \A q \in Ops : pc[q] \in Locked => q = r
    BY <1>12 DEF Rename
  <2>2. /\ pc' = [pc EXCEPT ![r] = "renamed"] /\ temp' = [temp EXCEPT ![r] = "none"]
        /\ UNCHANGED buffer
    BY <1>12 DEF Rename
  <2>3. intact' = TRUE
    BY <1>12 DEF Rename
  <2>4. TypeOK' /\ DataBeforeName'
    BY <1>12, <2>2, <2>3 DEF Rename
  <2>5. Exclusive' /\ Tidy' /\ SyncedTemps'
    BY <1>12, <2>2 DEF Rename
  <2>6. Current'
    BY <2>1, <2>2
  <2>7. AppliedByRename'
    BY <1>12, <2>1 DEF Rename
  <2>8. ResultsHold'
    BY <1>12 DEF Rename
  <2>9. QED
    BY <2>4, <2>5, <2>6, <2>7, <2>8
<1>13. ASSUME NEW r \in Ops, SyncDir(r) PROVE IInv'
  BY <1>13 DEF SyncDir
<1>14. ASSUME NEW r \in Ops, Fail(r) PROVE IInv'
  BY <1>14 DEF Fail
<1>15. ASSUME NEW p \in Procs, Crash(p) PROVE IInv'
  BY <1>15 DEF Crash, Die
<1>16. CASE PowerLoss
  BY <1>16 DEF PowerLoss, Die
<1>17. CASE UNCHANGED vars
  BY <1>17 DEF vars
<1>18. QED
  BY <1>1, <1>2, <1>3, <1>4, <1>5, <1>6, <1>7, <1>8, <1>9, <1>10, <1>11, <1>12, <1>13, <1>14, <1>15, <1>16, <1>17 DEF Next, ThreadStep

THEOREM Invariant == ASSUME StoreAssumption PROVE Spec => []IInv
<1>1. Init => IInv
  BY InitIInv
<1>2. IInv /\ [Next]_vars => IInv'
  BY NextIInv
<1>3. QED
  BY <1>1, <1>2, PTL DEF Spec
-----------------------------------------------------------------------------
\* Types, for any number of operations, processes, permits and crashes.
THEOREM TypeCorrect == ASSUME StoreAssumption PROVE Spec => []TypeOK
<1>1. IInv => TypeOK
  BY DEF IInv
<1>2. Spec => []IInv
  BY Invariant
<1>3. QED
  BY <1>1, <1>2, PTL

\* No operation overwrites a content it has not read.
THEOREM NoStaleBuffers == ASSUME StoreAssumption PROVE Spec => []NoStaleBuffer
<1>1. IInv => NoStaleBuffer
  BY DEF IInv, Current, NoStaleBuffer
<1>2. Spec => []IInv
  BY Invariant
<1>3. QED
  BY <1>1, <1>2, PTL

\* A caller told ok has its write in the file, whatever crashed since.
THEOREM OkDurable == ASSUME StoreAssumption PROVE Spec => []OkIsDurable
<1>1. IInv => OkIsDurable
  BY DEF IInv, ResultsHold, OkIsDurable
<1>2. Spec => []IInv
  BY Invariant
<1>3. QED
  BY <1>1, <1>2, PTL

\* The file's name never refers to bytes that are not on disk.
THEOREM DataBeforeNames == ASSUME StoreAssumption PROVE Spec => []DataBeforeName
<1>1. IInv => DataBeforeName
  BY DEF IInv
<1>2. Spec => []IInv
  BY Invariant
<1>3. QED
  BY <1>1, <1>2, PTL

\* Without a crash no temporary file outlives its operation.
THEOREM TempsRemoved == ASSUME StoreAssumption PROVE Spec => []TempsCleaned
<1>1. IInv => TempsCleaned
  BY DEF IInv, TypeOK, Tidy, TempsCleaned
<1>2. Spec => []IInv
  BY Invariant
<1>3. QED
  BY <1>1, <1>2, PTL
-----------------------------------------------------------------------------
(* The refinement: the rename is Apply, the directory sync Stabilize, the   *)
(* check that declines is Decline, and a crash is an Outage of the callers  *)
(* it takes with it.  Everything else is invisible.                         *)

LEMMA InitImpl == Init => Atomic!Init
  BY DEF Init, Atomic!Init

\* The steps AtomicStore does not see.
Hidden(r) ==
  \/ Submit(r) \/ Enter(r) \/ TryLock(r) \/ LockTimeout(r) \/ WriteOwner(r) \/ Unlock(r)
  \/ WriteTemp(r) \/ SyncTemp(r) \/ Fail(r)

LEMMA HiddenImpl ==
  ASSUME NEW r \in Ops, Hidden(r) PROVE UNCHANGED Atomic!vars
  BY DEF Hidden, Submit, Enter, TryLock, LockTimeout, WriteOwner, Unlock, WriteTemp, SyncTemp,
         Fail, disk, history, Atomic!vars

LEMMA NextImpl == IInv /\ [Next]_vars => [Atomic!Next]_(Atomic!vars)
<1> SUFFICES ASSUME IInv, [Next]_vars PROVE [Atomic!Next]_(Atomic!vars)
  OBVIOUS
<1>1. ASSUME NEW r \in Ops, Hidden(r) PROVE UNCHANGED Atomic!vars
  BY <1>1, HiddenImpl
<1>2. ASSUME NEW r \in Ops, Read(r) PROVE Atomic!Decline(r) \/ UNCHANGED Atomic!vars
  BY <1>2 DEF Read, Atomic!Decline, Atomic!vars, disk
<1>3. ASSUME NEW r \in Ops, Rename(r) PROVE Atomic!Apply(r)
  BY <1>3 DEF Rename, IInv, Current, AppliedByRename, Atomic!Apply, PCs, Running, Blocking,
              Locked
<1>4. ASSUME NEW r \in Ops, SyncDir(r) PROVE Atomic!Stabilize
  BY <1>4 DEF SyncDir, Atomic!Stabilize
<1>5. ASSUME NEW r \in Ops, Abandon(r) PROVE Atomic!Reply(r, "gone")
  BY <1>5 DEF Abandon, Atomic!Reply, disk, history
<1>6. ASSUME NEW r \in Ops, Deliver(r)
      PROVE  (\E a \in Atomic!Answers : Atomic!Reply(r, a)) \/ UNCHANGED Atomic!vars
  <2>1. result[r] \in Atomic!Answers
    BY DEF IInv, TypeOK, Results, Atomic!Answers
  <2>2. CASE answer[r] = "pending"
    <3>1. Atomic!Reply(r, result[r])
      BY <1>6, <2>2 DEF Deliver, IInv, ResultsHold, Atomic!Reply, disk, history
    <3>2. QED
      BY <2>1, <3>1
  <2>3. CASE answer[r] # "pending"
    BY <1>6, <2>3 DEF Deliver, IInv, TypeOK, Atomic!vars, disk, history
  <2>4. QED
    BY <2>2, <2>3
<1>7. ASSUME NEW p \in Procs, Crash(p) PROVE \E R \in SUBSET Ops : Atomic!Outage(R)
  <2> DEFINE R == {r \in Ops : Home[r] = p /\ pc[r] \in Running}
  <2>1. Atomic!Outage(R)
    BY <1>7 DEF Crash, Die, Atomic!Outage, disk
  <2>2. QED
    BY <2>1
<1>8. CASE PowerLoss
  <2> DEFINE R == {r \in Ops : pc[r] \in Running}
  <2>1. Atomic!Outage(R)
    BY <1>8 DEF PowerLoss, Die, Atomic!Outage
  <2>2. (\E Q \in SUBSET Ops : Atomic!Outage(Q))
    BY <2>1
  <2>3. QED
    BY <2>2 DEF Atomic!Next
<1>9. CASE UNCHANGED vars
  BY <1>9 DEF vars, disk, history, Atomic!vars
<1>10. ASSUME NEW r \in Ops,
              Submit(r) \/ Enter(r) \/ Abandon(r) \/ Deliver(r) \/ ThreadStep(r)
       PROVE  [Atomic!Next]_(Atomic!vars)
  <2>1. "gone" \in Atomic!Answers
    BY DEF Atomic!Answers
  <2>2. Hidden(r) \/ Read(r) \/ Rename(r) \/ SyncDir(r) \/ Abandon(r) \/ Deliver(r)
    BY <1>10 DEF Hidden, ThreadStep
  <2>3. QED
    BY <1>1, <1>2, <1>3, <1>4, <1>5, <1>6, <2>1, <2>2 DEF Atomic!Next
<1>11. QED
  BY <1>7, <1>8, <1>9, <1>10 DEF Next, Atomic!Next

\* FileStore's locks, temporary files and renames are one atomic read-modify-write.
THEOREM Implements == ASSUME StoreAssumption PROVE Spec => Atomicity
<1>1. Spec => []IInv
  BY Invariant
<1>2. QED
  BY <1>1, InitImpl, NextImpl, PTL DEF Spec, Atomicity, Atomic!Spec
=============================================================================
