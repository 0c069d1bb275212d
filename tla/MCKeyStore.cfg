SPECIFICATION FairSpec
CONSTANTS
  a = a
  b = b
  c = c
  w = w
  None = None
  Key = {a, b, c}
  Word = {w}
  MinInt = 0
  MaxInt = 1
  MaxTime = 1
  StartPolicies = {"noeviction", "lru"}
  SetPolicies = {"allkeys-lru", "allkeys-random", "volatile-lru", "volatile-random", "volatile-ttl"}
  Dump <- OldDump
  Sent <- ThreeKeys
INVARIANTS KInv
PROPERTIES EvictionFollowsPolicy KeysPromise CommandsEnd
