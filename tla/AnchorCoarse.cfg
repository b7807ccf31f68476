SPECIFICATION Spec
CONSTANTS
  b0 = b0
  b1 = b1
  Blocks = {b0, b1}
  Choices <- MCChoices
  Genesis = b0
  Capacity = 1
  MaxAttempts = 2
  CallbackTicks = {0, 1}
  SnapshotTicks = {0}
  MaxDecisions = 2
  MaxDisturbed = 0
INVARIANTS
  NothingForgotten
CHECK_DEADLOCK FALSE
