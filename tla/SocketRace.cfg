SPECIFICATION Spec
CONSTANTS
  Processes = {p1, p2}
  Clients = {c1}
  Inodes = {i1, i2, i3}
  None = None
  File = File
  MaxConsumers = 1
  SerialStarts = FALSE
  MaxFaults = 1
INVARIANT ServingReachable
CHECK_DEADLOCK FALSE
