SPECIFICATION Spec
CONSTANTS
  HashIndexThreshold = 2
  NoBitmap = NoBitmap
  None = None
  Genesis <- MCGenesis
  Bundles <- MCBundles
  Dictionaries <- MCDictionaries
  QueueBound = 2
INVARIANTS
  ProjectionExact
  IndexExact
  QuiescentHead
CHECK_DEADLOCK FALSE
