SPECIFICATION Spec
CONSTANTS
  A = A
  B = B
  d1 = d1
  d2 = d2
  s1 = s1
  s2 = s2
  Row = {1}
  Round = {A, B}
  RoundOf <- RoundsOfRows
  Dispatcher = {d1}
  Consumer = {s1}
  MaxRetry = 2
  Limit = 1
  MaxSends = 2
  Null = Null
CHECK_DEADLOCK FALSE
INVARIANT EventStoredOnce
