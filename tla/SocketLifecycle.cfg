SPECIFICATION FairSpec
CONSTANTS
  Processes = {p1, p2}
  Clients = {c1, c2}
  Inodes = {i1, i2, i3}
  None = None
  File = File
  MaxConsumers = 1
  SerialStarts = TRUE
  MaxFaults = 3
INVARIANTS
  ServingReachable
  LeavesNoSocket
PROPERTIES
  ServiceReturns
  ConnectionsAnswered
CHECK_DEADLOCK FALSE
