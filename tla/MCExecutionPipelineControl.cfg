SPECIFICATION Spec
CONSTANTS
  Sessions = {s1}
  Clients = {c1}
  Steps = 1
  MaxControls = 2
  MaxInFlight = 1
  RelaySubscribed = TRUE
INVARIANTS
  LaunchNeedsConsent
  HeldGateHasWaiter
  FinishedRunIsReleased
  EmittedIsCurrent
  LoopClosesBrowser
  CompletedIsEarned
  LiveNeedsLaunch
PROPERTIES
  TerminalBrowserIsFinal
CHECK_DEADLOCK FALSE
