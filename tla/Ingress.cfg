SPECIFICATION FairSpec
CONSTANTS
  a1 = a1
  a2 = a2
  a3 = a3
  odd = odd
  ca = ca
  cb = cb
  None = None
  Requests = {a1, a2, a3, odd}
  Credentials = {ca, cb}
  Shapes <- MCShapes
  BodyLimit = 1
  DrainOverage = 1
  RateLimit = 2
  Window = 2
  MaxInFlight = 1
  QueueTimeout = 1
  IdleTimeout = 1
  DrainTimeout = 1
  LastArrival = 2
  MaxTime = 5
CHECK_DEADLOCK FALSE
INVARIANTS AdmissionConserved
PROPERTIES RateExact AllLeave
