-------------------------------- MODULE Budget --------------------------------
(***************************************************************************)
(* The arithmetic of src/src/accounting.rs, shared by both ledger backends: *)
(* a ledger counts requests, tokens and cost over all scopes and for each    *)
(* scope; a reservation is checked against its own scope's use and added to  *)
(* both.  Counters saturate, a scope is one credential or Global, and a       *)
(* dimension without a limit is not checked.                                *)
(***************************************************************************)
EXTENDS Naturals, FiniteSets, FiniteSetsExt

CONSTANTS
  Requests,      \* reservations, one per logical request
  Scopes, Global,
  Dims,          \* what is counted: requests, tokens, cost
  Limit,         \* Limit[d], for the dimensions that have one
  Scope,         \* Scope[r]
  Charge,        \* Charge[r][d]
  MaxCount       \* the largest counter, 2^64 - 1

Usage == [Dims -> 0 .. MaxCount]
Ledgers == [total : Usage, known : SUBSET Scopes, used : [Scopes -> Usage]]

ASSUME BudgetAssumption ==
  /\ MaxCount \in Nat
  /\ Global \in Scopes
  /\ DOMAIN Limit \subseteq Dims /\ \A d \in DOMAIN Limit : Limit[d] \in 0 .. MaxCount
  /\ Scope \in [Requests -> Scopes]
  /\ Charge \in [Requests -> Usage]

Nothing == [d \in Dims |-> 0]
EmptyLedger == [total |-> Nothing, known |-> {}, used |-> [s \in Scopes |-> Nothing]]

SaturatingAdd(a, b) == IF a + b <= MaxCount THEN a + b ELSE MaxCount

Plus(u, v) == [d \in Dims |-> SaturatingAdd(u[d], v[d])]

\* Mutant: the use so far is compared, not what it would become.
WithinBudget_Before(l, r) ==
  \A d \in DOMAIN Limit : l.used[Scope[r]][d] <= Limit[d]

\* ensure_within_budget
WithinBudget(l, r) ==
  \A d \in DOMAIN Limit : SaturatingAdd(l.used[Scope[r]][d], Charge[r][d]) <= Limit[d]

\* by_scope.entry(scope).or_default()
WithEntry(l, r) == [l EXCEPT !.known = @ \cup {Scope[r]}]

\* add_scope_reservation and add_reservation
Charged(l, r) ==
  [WithEntry(l, r) EXCEPT !.used[Scope[r]] = Plus(@, Charge[r]), !.total = Plus(@, Charge[r])]

\* Mutant: a file without scopes is taken for one written by this version.
Migrated_Never(l) == l

\* read_usage: a file from before scopes is all Global's.
Migrated(l) ==
  IF l.known = {} /\ l.total # Nothing
    THEN [l EXCEPT !.known = {Global}, !.used[Global] = l.total]
    ELSE l
-----------------------------------------------------------------------------
(* What a ledger l that began as l0 must be after the reservations R.       *)

Capped(n) == IF n <= MaxCount THEN n ELSE MaxCount

\* Every reservation of R counted once, in its own scope, and no other.
CountsExactly(l, l0, R) ==
  \A s \in Scopes, d \in Dims :
    l.used[s][d] =
      Capped(l0.used[s][d] + MapThenSumSet(LAMBDA r : Charge[r][d], {r \in R : Scope[r] = s}))

\* The total is what the scopes add up to.
TotalsAgree(l) ==
  \A d \in Dims : l.total[d] = Capped(MapThenSumSet(LAMBDA s : l.used[s][d], Scopes))

\* No scope is over a limit that it did not begin over.
KeepsLimits(l, l0) ==
  \A s \in Scopes : \A d \in DOMAIN Limit :
    l.used[s][d] <= Limit[d] \/ l.used[s][d] = l0.used[s][d]
=============================================================================
