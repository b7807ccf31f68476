SPECIFICATION FairSpec
CONSTANTS
  Configs <- MCConfigs
  Initial = "first"
  MaxFrame = 1024
  ChainViews <- MCViews
  MaxSaves = 3
INVARIANTS
  GenerationNamesDictionary
  NoopAllocatesNothing
  RequestFindsRoom
  FramesFit
PROPERTIES
  ReloadTakesEffect
  ShutdownCompletes
CHECK_DEADLOCK FALSE
