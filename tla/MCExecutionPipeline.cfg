SPECIFICATION Spec
CONSTANTS
  Sessions = {s1}
  Clients = {c1, c2}
  Steps = 1
  MaxControls = 0
  MaxInFlight = 1
  RelaySubscribed = FALSE
SYMMETRY ClientSymmetry
INVARIANTS
  PipelineTypeOK
  LaunchNeedsConsent
  StepNeedsConsent
PROPERTIES
  ImplementsLaunchGate
CHECK_DEADLOCK FALSE
