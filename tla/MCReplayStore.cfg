CONSTANTS
  t1 = t1
  t2 = t2
  Request = {r1, r2}
  Token <- MCToken
  NoToken = NoToken
  NumShards = 2
  ShardOf <- MCShardOf
  Sweeping = TRUE
  MaxTime = 3
SPECIFICATION FairStoreSpec
PROPERTIES GuardSpec LapsedIsSwept
