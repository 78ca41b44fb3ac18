SPECIFICATION FairSpec
CONSTANTS
  Creates = {r1, r2}
  Executes = {x1}
  Keys = {k1}
  NoKey = NoKey
  MaxAttempts = 2
  MaxStalls = 1
  Concurrency = 1
  MaxRequests = 2
  MaxFaults = 1
  FailureThreshold = 1
  SuccessThreshold = 2
INVARIANTS
  TypeOK
  RunningTaskHasWork
  CompletedTaskPassed
  StoredAnswerIsReplayed
  BreakerSound
PROPERTIES
  AcceptedTaskFinishes
CHECK_DEADLOCK FALSE
