SPECIFICATION FairSpec
CONSTANTS
  Jobs = {j1, j2}
  MaxRecoveries = 1
  NoContext = NoContext
  Collector = Collector
  Nobody = Nobody
INVARIANTS
  TypeOK
  LaunchesAlone
  OrphansHaveACause
PROPERTIES
  CollectorSparesRuns
  SweepSparesRuns
  RunsWindDown
  EveryAskIsServed
CHECK_DEADLOCK FALSE
