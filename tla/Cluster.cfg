SPECIFICATION FairClusterSpec
CONSTANTS
  Server <- BothPools
  Call = {c1, c2}
  Migrating <- BothPools
  Peers <- Mutual
  Routed = {"spot"}
  DrainWaits = FALSE
  ExitOnComplete = TRUE
INVARIANTS
  ServedAtMostOnce
  SuccessMeansServed
PROPERTIES
  EveryCallAnswered
  ServersAreBackends
