CONSTANTS
  a1 = a1
  a2 = a2
  a3 = a3
  s1 = s1
  s2 = s2
  s3 = s3
  s4 = s4
  Accounts = {a1, a2}
  Sessions = {s1, s2, s3}
  AccountOf <- ThreeAccountOf
  SkipQueue = {}
  Limits = {1}
  Tolerance = 1
  ExpireTime = 2
  MaxTime = 2
  NoTime = NoTime
SPECIFICATION Spec
PROPERTIES ToleranceHonoured
