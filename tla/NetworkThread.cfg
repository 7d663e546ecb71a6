CONSTANTS
  Sockets = {c1}
  MaxPackets = 3
  MaxParts = 3
SPECIFICATION FairSpec
INVARIANTS ConnectionsExact OneAsyncWrite  
PROPERTIES  ClosedIsRemoved QueueDrains
