SPECIFICATION FairSpec
CONSTANTS
  Client = {c1}
  Settings <- TwoSettings
  Depths = {0, 2}
  PressureThreshold = 2
  Infinite = 3
INVARIANTS
  TypeOK
  FailuresNeverWeigh
  SteadyPoolServes
PROPERTY StoppedPoolIsLeft
