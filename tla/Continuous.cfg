SPECIFICATION FairSpec
CONSTANTS
  InteractiveRequest = {i1}
  BatchRequest = {b1, b2}
  Sched = Sched
  Orch = Orch
  NoTask = NoTask
  PriorityScheduling = TRUE
  HasPeers = TRUE
  ExitOnComplete = FALSE
  MaxSlots = 2
  MaxTokens <- LongInteractive
INVARIANTS
  SequencesTypeOK
  HeldOnce
  SlotsWithinPool
PROPERTIES
  SlotsReusedAtOnce
  EveryAcceptedAnswered
  DrainCompletes
  SchedulerStops
  ImplementsService
