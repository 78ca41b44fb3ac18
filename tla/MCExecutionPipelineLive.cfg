SPECIFICATION FairSpec
CONSTANTS
  Sessions = {s1}
  Clients = {c1}
  Steps = 1
  MaxControls = 1
  MaxInFlight = 1
  RelaySubscribed = TRUE
PROPERTIES
  HeldLaunchIsDecided
  RunSettles
CHECK_DEADLOCK FALSE
