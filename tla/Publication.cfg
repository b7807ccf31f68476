SPECIFICATION FairSpec
CONSTANTS
  Consumers = {c1}
  Blocks = {b0, b1}
  Marks = {m0, m1}
  Genesis = b0
  GenesisMark = m0
  Buffer = 2
  MaxSequence = 3
INVARIANTS
  StreamAccepted
  MirrorExact
  GapNotTrusted
PROPERTIES
  FollowsLog
  ReadmitsConsumers
