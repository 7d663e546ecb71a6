CONSTANTS
  Producers = {p1, p2, p3}
  Nodes = {n1, n2, n3, n4}
  Items = {x1, x2}
  NoItem = NoItem
  Null = Null
SPECIFICATION FairSpec
INVARIANTS NoUseAfterFree NoLeak
PROPERTIES ImplementsFifo Delivered
