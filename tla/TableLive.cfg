SPECIFICATION FairTableSpec
CONSTANTS
  r1 = r1
  r2 = r2
  s1 = s1
  s2 = s2
  b1 = b1
  b2 = b2
  u1 = u1
  u2 = u2
  d1 = d1
  t1 = t1
  e1 = e1
  d2 = d2
  x1 = x1
  y1 = y1
  Round = {r1}
  Staff = {s1}
  Bettor = {b1, b2}
  Null = Null
  RedisOn = FALSE
  User = {u1}
  Bet = {x1}
  Terms <- TwoRounds
  Funds <- OneUserFunds
PROPERTY TableCallsReturn
