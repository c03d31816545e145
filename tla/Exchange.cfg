SPECIFICATION FairSpec
CONSTANTS
  Absent = Absent
  Bad = Bad
  Callers = {"client", "classifier", "shadow", "judge"}
  RequestsOf <- MCRequestsOf
  Answers <- MCAnswers
  Streamed <- MCStreamed
  UsageAtom <- MCUsageAtom
  MaxBuffer = 8
  MaxChunk = 5
CHECK_DEADLOCK FALSE
INVARIANTS UsageOfWhole NothingElseLost
PROPERTY Settles
