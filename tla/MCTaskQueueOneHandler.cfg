SPECIFICATION Spec
CONSTANTS
  Creates = {r1, r2}
  Executes = {x1}
  Keys = {k1}
  NoKey = NoKey
  MaxAttempts = 2
  MaxStalls = 1
  Concurrency = 3
  MaxRequests = 2
  MaxFaults = 0
  FailureThreshold = 1
  SuccessThreshold = 2
INVARIANTS
  OneHandlerPerKey
CHECK_DEADLOCK FALSE
