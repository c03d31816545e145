SPECIFICATION FairJournalSpec
CONSTANTS
  Nobody = Nobody
  Evals = {e1, e2}
  MaxPending = 2
  MaxConcurrent = 1
  Capacity = 1
  Window = 1
  Jobs = {j1}
  MaxLines = 1
  Retained = 1
  Torn = Torn
CHECK_DEADLOCK FALSE
INVARIANTS TasksSound NothingLost JournalKeeps StatsExact
PROPERTY Exits
