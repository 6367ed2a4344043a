SPECIFICATION Spec
CONSTANTS
  InteractiveRequest = {i1, i2}
  BatchRequest = {b1, b2}
  Sched = Sched
  Orch = Orch
  NoTask = NoTask
  PriorityScheduling = FALSE
  MaxBatchSize = 3
  HasPeers = TRUE
  ExitOnComplete = TRUE
SYMMETRY SameClass
INVARIANTS
  ServedInOrder
  BatchBounded
PROPERTIES
  ImplementsService
