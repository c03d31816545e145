------------------------------ MODULE FileLedger ------------------------------
(***************************************************************************)
(* FileBudgetLedger: Budget's ledger kept in a file, every reservation one   *)
(* FileStore operation.  A reservation that fits is written; one that does   *)
(* not is declined without a write, so its scope's entry is not saved either.*)
(***************************************************************************)
EXTENDS Budget

CONSTANTS
  Legacy,        \* the ledger in the file when the first process starts
  Procs, Home, Permits, Nobody, MaxCrashes     \* as in FileStore

VARIABLES
  content, stable, intact, holder, pc, buffer, temp, result, answer, crashes,
  applied, stableApplied, declined

ASSUME LegacyAssumption ==
  /\ Legacy \in Ledgers
  /\ Legacy.known = {} => Legacy.used = EmptyLedger.used

\* reserve_blocking
Grants(l, r) == WithinBudget(Migrated(l), r)
Written(l, r) == Charged(Migrated(l), r)

INSTANCE FileStore WITH Ops <- Requests, Initial <- Legacy, Writes <- Grants

ASSUME LedgerStoreAssumption == StoreAssumption
-----------------------------------------------------------------------------
\* What the scopes had used before the first reservation.
Opening ==
  IF Legacy.known = {} THEN [EmptyLedger EXCEPT !.total = Legacy.total, !.used[Global] = Legacy.total]
                       ELSE Legacy

\* Through crashes, timeouts and power losses the file holds exactly the
\* reservations whose rename survived, on top of what a migrated file had.
LedgerExact == applied # {} => CountsExactly(content, Opening, applied)

\* The grand total never drifts from the scopes it is the total of.
LedgerTotals == applied # {} => TotalsAgree(content)

\* However many processes reserve at once, no scope passes a limit, now or after
\* a power loss.
LedgerWithinLimits ==
  /\ applied # {} => KeepsLimits(content, Opening)
  /\ stableApplied # {} => KeepsLimits(stable, Opening)
=============================================================================
