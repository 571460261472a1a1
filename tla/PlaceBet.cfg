SPECIFICATION Spec
CONSTANTS
  c1 = c1
  c2 = c2
  u1 = u1
  u2 = u2
  k1 = k1
  k2 = k2
  k3 = k3
  n1 = n1
  n2 = n2
  Call = {c1, c2}
  User = {u1, u2}
  Key = {k1, k2, k3}
  Request <- Requests
  Bill = {n1, n2}
  Funds <- UserFunds
  Null = Null
  RedisOn = TRUE
SYMMETRY Symmetry
INVARIANTS
  TypeOK
  StakeTakenOnce
  CacheHoldsTheFirstAnswer
PROPERTIES
  OnlyTheOwnerUnlocks
  OneBillPerKey
