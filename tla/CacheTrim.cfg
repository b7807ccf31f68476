SPECIFICATION Spec
CONSTANTS
  Blocks <- FanBlocks
  Root = "root"
  Parent <- FanParent
  Number <- FanNumber
  Finalizable = {}
  CacheLimit = 2
  MetadataLimit = 8
  WorkBudget = 1
  TrackerLimit = 5
  Pipelined = FALSE
  Losses = FALSE
  MaxIncarnation = 8
INVARIANTS
  TrimErrorIsReal
