SPECIFICATION Spec
CONSTANTS
  Sessions = {s1}
  Clients = {c1, c2}
  Steps = 1
  MaxControls = 0
  MaxInFlight = 1
  RelaySubscribed = TRUE
INVARIANTS
  WaitingIsSurfaced
CHECK_DEADLOCK FALSE
