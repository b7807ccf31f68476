SPECIFICATION FairSpec
CONSTANTS
  Producers = {p1, p2, p3}
  Capacity = 1
  DropCountMask = 1
  MaxEvents = 3
INVARIANTS
  LockOwned
  LossRemembered
  NoOvertake
  NoLostWakeup
  NoSilentLoss
PROPERTIES
  LossRecovered
  QueueDrains
CHECK_DEADLOCK FALSE
