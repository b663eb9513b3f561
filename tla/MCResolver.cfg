CONSTANTS
  t1 = t1
  t2 = t2
  Request = {r1, r2, r3}
  Token <- MCToken
  NoToken = NoToken
  NotBefore <- MCNotBefore
  ExpiresAt <- MCExpiresAt
  FaultSets <- MCFaultSets
  TicksPerSecond = 2
  Skew = 1
  NumShards = 1
  ShardOf <- MCShardOf
  Sweeping = TRUE
  MaxTime = 3
  MaxStall = 2
  MaxSetback = 1
  MaxRestarts = 1
SYMMETRY RequestSymmetry
SPECIFICATION Spec
INVARIANTS
  TypeOK
  SecondAdmissionStraddlesExpiry
  LeewayEndsAtExpiry
  OnlyFlawlessRequestsReserve
  ReplayHasAWinner
