CONSTANTS
  Sockets = {c1}
  MaxPackets = 2
  MaxParts = 2
SPECIFICATION FairSpec
PROPERTIES DelayedCloseCloses
