------------------------------- MODULE FileStore -------------------------------
(***************************************************************************)
(* How src/src/file_state.rs runs one operation on a file shared by threads *)
(* and processes: BlockingFileGate admits a few blocking threads per        *)
(* process, FileLeaseLock serialises the file by an advisory lock on a       *)
(* sibling path, and atomic_write replaces the file by rename.  The         *)
(* operation itself is the read, check and write that the budget ledger,    *)
(* the sticky store and the semantic cache perform between lock and unlock; *)
(* it is given by Writes and Written.                                       *)
(*                                                                         *)
(* Any file operation may fail, a caller may go away, a process may crash,  *)
(* and the host may lose power, which undoes a rename whose directory was   *)
(* not synced.  The lock's owner record is diagnostic: nothing reads it.    *)
(***************************************************************************)
EXTENDS Naturals, FiniteSets

CONSTANTS
  Ops, Initial, Writes(_, _), Written(_, _),   \* as in AtomicStore
  Procs,        \* router processes on one host
  Home,         \* Home[r]: the process that r's caller runs in
  Permits,      \* MAX_BLOCKING_FILE_OPERATIONS
  Nobody,       \* the holder of a free lock
  MaxCrashes    \* bound on crashes and power losses

\* What a module that instantiates this one assumes of the constants.
StoreAssumption ==
  /\ Home \in [Ops -> Procs]
  /\ Permits \in Nat \ {0}
  /\ Nobody \notin Ops
  /\ MaxCrashes \in Nat

VARIABLES
  content,         \* the file as every process sees it
  stable,          \* the file as it would be after a power loss
  intact,          \* the bytes of the visible file are on disk
  holder,          \* the operation whose handle has the advisory lock
  pc,              \* pc[r]: how far operation r is
  buffer,          \* buffer[r]: the content r read
  temp,            \* temp[r]: its temporary file: "none", "dirty" or "synced"
  result,          \* result[r]: what the blocking thread will return
  answer,          \* answer[r]: what the caller saw, as in AtomicStore
  crashes,
  applied, stableApplied, declined   \* history: AtomicStore's sets

disk == <<content, stable, intact>>
history == <<applied, stableApplied, declined>>
local == <<buffer, temp, result>>
vars == <<disk, holder, pc, local, answer, crashes, history>>

Results == {"ok", "declined", "error"}
\* Blocking: on a blocking thread, holding a permit.  Locked: and the lock.
Locked == {"locked", "owned", "writing", "written", "synced", "renamed", "finished"}
Blocking == Locked \cup {"locking"}
Running == Blocking \cup {"queued", "returning"}
PCs == Running \cup {"new", "done"}

Goto(r, to) == pc' = [pc EXCEPT ![r] = to]

Init ==
  /\ content = Initial /\ stable = Initial /\ intact = TRUE
  /\ holder = Nobody
  /\ pc = [r \in Ops |-> "new"]
  /\ buffer = [r \in Ops |-> Initial]
  /\ temp = [r \in Ops |-> "none"]
  /\ result = [r \in Ops |-> "error"]
  /\ answer = [r \in Ops |-> "pending"]
  /\ crashes = 0
  /\ applied = {} /\ stableApplied = {} /\ declined = {}
-----------------------------------------------------------------------------
(* BlockingFileGate::run, on the async side.                                *)

Submit(r) ==
  /\ pc[r] = "new"
  /\ Goto(r, "queued")
  /\ UNCHANGED <<disk, holder, local, answer, crashes, history>>

\* Mutant: the permit is forgotten instead of dropped.
Enter_LeaksPermit(r) ==
  /\ pc[r] = "queued"
  /\ Cardinality({q \in Ops : Home[q] = Home[r] /\ pc[q] \in PCs \ {"new", "queued"}}) < Permits
  /\ Goto(r, "locking")
  /\ UNCHANGED <<disk, holder, local, answer, crashes, history>>

Enter(r) ==
  /\ pc[r] = "queued"
  /\ Cardinality({q \in Ops : Home[q] = Home[r] /\ pc[q] \in Blocking}) < Permits
  /\ Goto(r, "locking")
  /\ UNCHANGED <<disk, holder, local, answer, crashes, history>>

\* The caller's future is dropped.  Waiting for a permit, the operation never
\* runs; once on its thread it runs on, and keeps its permit, unobserved.
Abandon(r) ==
  /\ pc[r] \in Running /\ answer[r] = "pending"
  /\ answer' = [answer EXCEPT ![r] = "gone"]
  /\ pc' = [pc EXCEPT ![r] = IF @ = "queued" THEN "done" ELSE @]
  /\ UNCHANGED <<disk, holder, local, crashes, history>>

\* The thread's result reaches the caller, if it is still there.
Deliver(r) ==
  /\ pc[r] = "returning"
  /\ Goto(r, "done")
  /\ answer' = [answer EXCEPT ![r] = IF @ = "pending" THEN result[r] ELSE @]
  /\ UNCHANGED <<disk, holder, local, crashes, history>>
-----------------------------------------------------------------------------
(* FileLeaseLock::acquire and its Drop, on the blocking thread.             *)

\* Mutant: an owner record whose lease looks expired is taken over.
TryLock_TakesOver(r) ==
  /\ pc[r] = "locking"
  /\ holder' = r
  /\ Goto(r, "locked")
  /\ UNCHANGED <<disk, local, answer, crashes, history>>

TryLock(r) ==
  /\ pc[r] = "locking"
  /\ holder = Nobody
  /\ holder' = r
  /\ Goto(r, "locked")
  /\ UNCHANGED <<disk, local, answer, crashes, history>>

\* Retried every 10 ms; an attempt that fails after lock_timeout gives up.
LockTimeout(r) ==
  /\ pc[r] = "locking"
  /\ holder # Nobody
  /\ result' = [result EXCEPT ![r] = "error"]
  /\ Goto(r, "returning")
  /\ UNCHANGED <<disk, holder, buffer, temp, answer, crashes, history>>

WriteOwner(r) ==
  /\ pc[r] = "locked"
  /\ Goto(r, "owned")
  /\ UNCHANGED <<disk, holder, local, answer, crashes, history>>

Unlock(r) ==
  /\ pc[r] = "finished"
  /\ holder' = Nobody
  /\ Goto(r, "returning")
  /\ UNCHANGED <<disk, local, answer, crashes, history>>
-----------------------------------------------------------------------------
(* The operation under the lock, and atomic_write.                          *)

Read(r) ==
  /\ pc[r] = "owned"
  /\ buffer' = [buffer EXCEPT ![r] = content]
  /\ IF Writes(content, r)
       THEN /\ Goto(r, "writing")
            /\ UNCHANGED <<result, declined>>
       ELSE /\ Goto(r, "finished")
            /\ result' = [result EXCEPT ![r] = "declined"]
            /\ declined' = declined \cup {r}
  /\ UNCHANGED <<disk, holder, temp, answer, crashes, applied, stableApplied>>

WriteTemp(r) ==
  /\ pc[r] = "writing"
  /\ temp' = [temp EXCEPT ![r] = "dirty"]
  /\ Goto(r, "written")
  /\ UNCHANGED <<disk, holder, buffer, result, answer, crashes, history>>

SyncTemp(r) ==
  /\ pc[r] = "written"
  /\ temp' = [temp EXCEPT ![r] = "synced"]
  /\ Goto(r, "synced")
  /\ UNCHANGED <<disk, holder, buffer, result, answer, crashes, history>>

\* Mutant: the directory is not synced after the rename.
Rename_NoDirSync(r) ==
  /\ pc[r] = "synced"
  /\ content' = Written(buffer[r], r)
  /\ intact' = (temp[r] = "synced")
  /\ temp' = [temp EXCEPT ![r] = "none"]
  /\ applied' = applied \cup {r}
  /\ result' = [result EXCEPT ![r] = "ok"]
  /\ Goto(r, "finished")
  /\ UNCHANGED <<stable, holder, buffer, answer, crashes, stableApplied, declined>>

Rename(r) ==
  /\ pc[r] = "synced"
  /\ content' = Written(buffer[r], r)
  /\ intact' = (temp[r] = "synced")
  /\ temp' = [temp EXCEPT ![r] = "none"]
  /\ applied' = applied \cup {r}
  /\ Goto(r, "renamed")
  /\ UNCHANGED <<stable, holder, buffer, result, answer, crashes, stableApplied, declined>>

SyncDir(r) ==
  /\ pc[r] = "renamed"
  /\ stable' = content
  /\ stableApplied' = applied
  /\ result' = [result EXCEPT ![r] = "ok"]
  /\ Goto(r, "finished")
  /\ UNCHANGED <<content, intact, holder, buffer, temp, answer, crashes, applied, declined>>

\* Any step above returns an error: TempFileCleanup removes the temporary file
\* and the lock is dropped.  After the rename the write has happened all the same.
Fail(r) ==
  /\ pc[r] \in {"locking"} \cup (Locked \ {"finished"})
  /\ holder' = IF holder = r THEN Nobody ELSE holder
  /\ temp' = [temp EXCEPT ![r] = "none"]
  /\ result' = [result EXCEPT ![r] = "error"]
  /\ Goto(r, "returning")
  /\ UNCHANGED <<disk, buffer, answer, crashes, history>>
-----------------------------------------------------------------------------
(* Crashes.  The kernel drops a dead process's locks; nothing runs its      *)
(* destructors, so its temporary files stay.                                *)

Die(R) ==
  /\ crashes < MaxCrashes
  /\ crashes' = crashes + 1
  /\ pc' = [r \in Ops |-> IF r \in R /\ pc[r] \in Running THEN "done" ELSE pc[r]]
  /\ answer' = [r \in Ops |->
       IF r \in R /\ pc[r] \in Running /\ answer[r] = "pending" THEN "gone" ELSE answer[r]]
  /\ holder' = IF holder \in R THEN Nobody ELSE holder
  /\ UNCHANGED <<local, declined>>

Crash(p) ==
  /\ Die({r \in Ops : Home[r] = p})
  /\ UNCHANGED <<disk, applied, stableApplied>>

PowerLoss ==
  /\ Die(Ops)
  /\ \/ /\ stable' = content /\ stableApplied' = applied
        /\ UNCHANGED <<content, applied>>
     \/ /\ content' = stable /\ applied' = stableApplied
        /\ UNCHANGED <<stable, stableApplied>>
  /\ UNCHANGED intact

ThreadStep(r) ==
  \/ TryLock(r) \/ LockTimeout(r) \/ WriteOwner(r) \/ Unlock(r)
  \/ Read(r) \/ WriteTemp(r) \/ SyncTemp(r) \/ Rename(r) \/ SyncDir(r)
  \/ Fail(r)

Next ==
  \/ \E r \in Ops : Submit(r) \/ Enter(r) \/ Abandon(r) \/ Deliver(r) \/ ThreadStep(r)
  \/ \E p \in Procs : Crash(p)
  \/ PowerLoss

Spec == Init /\ [][Next]_vars

\* Threads run and freed permits reach those waiting for them.
Fairness == \A r \in Ops : WF_vars(Enter(r)) /\ WF_vars(ThreadStep(r)) /\ WF_vars(Deliver(r))

FairSpec == Spec /\ Fairness
-----------------------------------------------------------------------------
(* Properties.                                                              *)

TypeOK ==
  /\ intact \in BOOLEAN
  /\ holder \in Ops \cup {Nobody}
  /\ pc \in [Ops -> PCs]
  /\ temp \in [Ops -> {"none", "dirty", "synced"}]
  /\ result \in [Ops -> Results]
  /\ answer \in [Ops -> Results \cup {"pending", "gone"}]
  /\ crashes \in 0 .. MaxCrashes
  /\ applied \subseteq Ops /\ stableApplied \subseteq Ops /\ declined \subseteq Ops

\* The lock, the temporary files and the renames together behave as one atomic
\* read-modify-write per operation: no update is lost or applied twice, nobody is
\* told ok of a write that a power loss can undo.
Atomic == INSTANCE AtomicStore
Atomicity == Atomic!Spec

\* An operation between its read and its rename still has the file's content.
NoStaleBuffer ==
  \A r \in Ops :
    pc[r] \in {"writing", "written", "synced"} => buffer[r] = content

\* What a caller was told is done is in the file, and would be after a power loss.
OkIsDurable == \A r \in Ops : answer[r] = "ok" => r \in applied /\ r \in stableApplied

\* The visible file's bytes reach the disk before its name does.
DataBeforeName == intact

\* A temporary file is left behind only by an operation a crash cut short.
TempsCleaned ==
  \A r \in Ops : pc[r] \in {"returning", "done"} /\ temp[r] # "none" => crashes > 0

\* Every operation that asked for a permit returns, whatever crashed meanwhile;
\* and every permit and the lock come free with it.
Returns == \A r \in Ops : pc[r] = "queued" ~> pc[r] = "done"
=============================================================================
