SPECIFICATION Spec
CONSTANTS
  InteractiveRequest = {i1, i2}
  BatchRequest = {b1, b2}
  Sched = Sched
  Orch = Orch
  NoTask = NoTask
  PriorityScheduling = TRUE
  MaxBatchSize = 2
  HasPeers = TRUE
  ExitOnComplete = FALSE
SYMMETRY SameClass
INVARIANTS
  TypeOK
  HeldOnce
  ServedInOrder
  NoLostWakeup
  NothingStranded
  GaugeNeverLow
PROPERTIES
  PriorityOrder
  DrainStopsPulling
