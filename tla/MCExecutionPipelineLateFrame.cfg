SPECIFICATION Spec
CONSTANTS
  Sessions = {s1}
  Clients = {c1}
  Steps = 1
  MaxControls = 1
  MaxInFlight = 1
  RelaySubscribed = TRUE
PROPERTIES
  FrameKeepsPause
CHECK_DEADLOCK FALSE
