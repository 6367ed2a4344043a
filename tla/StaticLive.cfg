SPECIFICATION FairSpec
CONSTANTS
  InteractiveRequest = {i1}
  BatchRequest = {b1, b2}
  Sched = Sched
  Orch = Orch
  NoTask = NoTask
  PriorityScheduling = TRUE
  MaxBatchSize = 2
  HasPeers = TRUE
  ExitOnComplete = FALSE
PROPERTIES
  EveryAcceptedAnswered
  DrainCompletes
  SchedulerStops
  GaugeCatchesUp
