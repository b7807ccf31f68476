SPECIFICATION FairSpec
CONSTANTS
  b0 = b0
  b1 = b1
  Blocks = {b0, b1}
  Choices <- MCChoices
  Genesis = b0
  Capacity = 2
  MaxAttempts = 2
  CallbackTicks = {1}
  SnapshotTicks = {0}
  MaxDecisions = 2
  MaxDisturbed = 1
INVARIANTS
  NothingForgotten
PROPERTIES
  NeverRollsBack
  SnapshotUntorn
  Converges
CHECK_DEADLOCK FALSE
