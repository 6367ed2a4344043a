SPECIFICATION FairSpec
CONSTANTS
  InteractiveRequest = {i1}
  BatchRequest = {b1, b2}
  Sched = Sched
  Orch = Orch
  NoTask = NoTask
  PriorityScheduling = TRUE
  MaxBatchSize = 2
  HasPeers = FALSE
  ExitOnComplete = FALSE
PROPERTIES
  AdmittedAnswered
CHECK_DEADLOCK FALSE
