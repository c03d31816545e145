SPECIFICATION FairSpec
CONSTANTS
  r1 = r1
  r2 = r2
  r3 = r3
  m1 = m1
  m2 = m2
  pa = pa
  pb = pb
  k = k
  global = global
  requests = requests
  Embedding = em
  em = em
  hash = hash
  blank = blank
  Absent = Absent
  Bad = Bad
  Requests = {r1, r2, r3}
  Models = {m1, m2}
  Providers = {pa, pb}
  ProviderOf <- MCProviderOf
  Embedder = pa
  Plan <- MCPlan
  Automatic = {r1, r2, r3}
  Streaming <- MCStreaming
  Cache <- MCCache
  Key <- MCKey
  Keys = {k}
  NoKey = NoKey
  NoModel = NoModel
  NoProvider = NoProvider
  PreferModel = TRUE
  MaxConcurrency <- MCMaxConcurrency
  Retries <- MCRetries
  FileBackend = TRUE
  Scopes = {global}
  Global = global
  Dims = {requests}
  Limit <- MCLimit
  Credential <- MCCredential
  Charge <- MCCharge
  MaxCount = 9
CHECK_DEADLOCK FALSE
INVARIANTS PermitsSound ReservedOnce ErrorIsFinal FinalOnce
PROPERTIES FailoverAfterPolicy Answered
