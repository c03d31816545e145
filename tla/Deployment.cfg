SPECIFICATION DeploymentSpec
CONSTANTS
  w1 = w1
  w2 = w2
  p1 = p1
  p2 = p2
  Workers = {w1, w2}
  Processes = {p1, p2}
  TotalSlots = 2
  Limit = 2
  Restarts = 1
  MaxQueue = 2
  Defective = {FALSE, TRUE}
  StorageErrors = 1
SYMMETRY Interchangeable
INVARIANTS SlotsOnce RejectionsSeen ProbeFindsLoss
CHECK_DEADLOCK FALSE
