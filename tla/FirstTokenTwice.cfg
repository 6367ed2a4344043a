SPECIFICATION Spec
CONSTANTS
  InteractiveRequest = {i1}
  BatchRequest = {b1}
  Sched = Sched
  Orch = Orch
  NoTask = NoTask
  PriorityScheduling = TRUE
  HasPeers = TRUE
  ExitOnComplete = TRUE
  MaxSlots = 2
  MaxTokens <- TwoTokens
INVARIANT FirstTokenObservedOnce
