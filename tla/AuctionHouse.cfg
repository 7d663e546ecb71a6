CONSTANTS
  p1 = p1
  p2 = p2
  p3 = p3
  g1 = g1
  g2 = g2
  Players = {p1, p2, p3}
  Guids = {g1, g2}
  InitialMoney <- Purses
  InitialCount <- Stack
  Holder = p1
  None = None
  Roaming = {p1}
  StartBids = {1}
  Bids = {1, 2}
  Buyouts = {2}
  UnitDeposit = 1
  CutRate = 50
  MaxEvents = 2
  MaxLag = 1
SPECIFICATION FairSpec
INVARIANTS GoldConserved ItemsInOnePlace Saved
PROPERTIES BidReturned 
