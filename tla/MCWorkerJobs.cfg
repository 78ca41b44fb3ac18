SPECIFICATION FairSpec
CONSTANTS
  Sessions = {s1}
  MaxInFlight = 1
  Steps = 2
  MaxRecoveries = 2
INVARIANTS
  WorkerTypeOK
  CompletedIsExact
  StepsInOrder
  RepeatsAreBounded
PROPERTIES
  JobsWindDown
  ImplementsPlan
  JobEnds
CHECK_DEADLOCK FALSE
