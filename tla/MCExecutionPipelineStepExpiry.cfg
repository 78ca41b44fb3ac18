SPECIFICATION FairSpec
CONSTANTS
  Sessions = {s1}
  Clients = {c1}
  Steps = 1
  MaxControls = 0
  MaxInFlight = 1
  RelaySubscribed = TRUE
PROPERTIES
  ExpiredStepIsDenied
CHECK_DEADLOCK FALSE
