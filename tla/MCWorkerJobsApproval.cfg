SPECIFICATION Spec
CONSTANTS
  Sessions = {s1}
  MaxInFlight = 1
  Steps = 1
  MaxRecoveries = 1
PROPERTIES
  ApprovalReachesEngine
CHECK_DEADLOCK FALSE
