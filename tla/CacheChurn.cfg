SPECIFICATION Spec
CONSTANTS
  Blocks <- ForkBlocks
  Root = "root"
  Parent <- ForkParent
  Number <- ForkNumber
  Finalizable = {"a1"}
  CacheLimit = 2
  MetadataLimit = 2
  WorkBudget = 1
  TrackerLimit = 3
  Pipelined = TRUE
  Losses = FALSE
  MaxIncarnation = 7
INVARIANTS
  OrderQueuesCover
  Bounded
  ChildrenIndexed
  SweepComplete
  TrackedHeld
