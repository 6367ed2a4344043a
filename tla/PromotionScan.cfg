SPECIFICATION Spec
CONSTANTS
  InteractiveRequest = {i1, i2}
  BatchRequest = {b1, b2, b3}
  MaxBatchSize = 2
  PromotionThreshold = 2
PROPERTIES
  CollectsInOneStep
  ScanLosesNothing
  DueItemsKeepTheirTurn
  BatchNeverStarves
  InteractiveServedIfRoom
