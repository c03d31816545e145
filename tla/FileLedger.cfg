SPECIFICATION FairSpec
CONSTANTS
  w1 = w1
  w2 = w2
  w3 = w3
  p1 = p1
  p2 = p2
  global = global
  team = team
  requests = requests
  tokens = tokens
  Requests = {w1, w2, w3}
  Scopes = {global, team}
  Global = global
  Dims = {requests, tokens}
  MaxCount = 4
  Procs = {p1, p2}
  Nobody = Nobody
  Permits = 1
  MaxCrashes = 1
  Home <- MCHome
  Scope <- MCScope
  Limit <- MCLimit
  Charge <- MCCharge
  Legacy <- MCLegacy
CHECK_DEADLOCK FALSE
INVARIANTS OkIsDurable LedgerExact LedgerWithinLimits
PROPERTIES Atomicity Returns
