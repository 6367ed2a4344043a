SPECIFICATION Spec
CONSTANTS
  InteractiveRequest = {i1}
  BatchRequest = {b1}
  Sched = Sched
  Orch = Orch
  NoTask = NoTask
  PriorityScheduling = TRUE
  MaxBatchSize = 2
  HasPeers = TRUE
  ExitOnComplete = TRUE
INVARIANT DrainedMeansAdmittedFinished
