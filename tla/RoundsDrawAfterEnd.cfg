SPECIFICATION Spec
CONSTANTS
  r1 = r1
  s1 = s1
  s2 = s2
  b1 = b1
  Round = {r1}
  Staff = {s1, s2}
  Bettor = {b1}
  Null = Null
  RedisOn = TRUE
PROPERTY DrawRefusedAfterEnd
