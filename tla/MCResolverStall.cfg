CONSTANTS
  t1 = t1
  t2 = t2
  Request = {r1, r2}
  Token <- MCToken
  NoToken = NoToken
  NotBefore <- MCNotBefore
  ExpiresAt <- MCExpiresAt
  FaultSets <- MCFaultSets
  TicksPerSecond = 2
  Skew = 1
  NumShards = 1
  ShardOf <- MCShardOf
  Sweeping = TRUE
  MaxTime = 3
  MaxStall = 2
  MaxSetback = 0
  MaxRestarts = 0
SYMMETRY RequestSymmetry
SPECIFICATION Spec
INVARIANT SingleUse
