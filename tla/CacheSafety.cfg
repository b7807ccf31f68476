SPECIFICATION FairSpec
CONSTANTS
  Blocks <- ForkBlocks
  Root = "root"
  Parent <- ForkParent
  Number <- ForkNumber
  Finalizable = {"root", "a1"}
  CacheLimit = 2
  MetadataLimit = 3
  WorkBudget = 1
  TrackerLimit = 3
  Pipelined = FALSE
  Losses = TRUE
  MaxIncarnation = 5
INVARIANTS
  TypeOK
  CanonicalKept
  MirrorsTracked
  FramesMakeSense
  TombstonesTerminal
PROPERTIES
  RivalsRetired
