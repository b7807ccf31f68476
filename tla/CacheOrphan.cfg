SPECIFICATION Spec
CONSTANTS
  Blocks <- ChainBlocks
  Root = "root"
  Parent <- ChainParent
  Number <- ChainNumber
  Finalizable = {}
  CacheLimit = 2
  MetadataLimit = 4
  WorkBudget = 1
  TrackerLimit = 4
  Pipelined = TRUE
  Losses = FALSE
  MaxIncarnation = 6
INVARIANTS
  MirrorsTracked
