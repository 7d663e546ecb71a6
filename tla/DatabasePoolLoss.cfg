CONSTANTS
  t1 = t1
  t2 = t2
  e1 = e1
  q1 = q1
  q2 = q2
  Workers = {w1, w2}
  Synchronous = {c1}
  Ops = {t1, t2, e1}
  Directly = {t2}
  Kind <- KindDef
  Size <- SizeDef
  Follower <- FollowerDef
  LoopBreaker = 2
  MaxLosses = 1
  None = None
SPECIFICATION Spec
INVARIANTS TransactionAtomic
