CONSTANTS
  a1 = a1
  a2 = a2
  a3 = a3
  s1 = s1
  s2 = s2
  s3 = s3
  s4 = s4
  Accounts = {a1, a2, a3}
  Sessions = {s1, s2, s3, s4}
  AccountOf <- AccountOfDef
  SkipQueue = {a3}
  Limits = {1}
  Tolerance = 0
  ExpireTime = 2
  MaxTime = 0
  NoTime = NoTime
SPECIFICATION Spec
INVARIANTS  ActiveCountExact PositionsTold QueuedNotPlaying NoSecondCharacter
PROPERTIES AdmissionWithinLimit
SYMMETRY TwinSymmetry
