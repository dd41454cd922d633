SPECIFICATION Spec
CHECK_DEADLOCK FALSE
CONSTANTS
  w1 = w1  w2 = w2  u1 = u1  n1 = n1  n2 = n2
  Workers = {w1}
  Users = {u1}
  NewUsers <- MCNobodyNew
  Dispenser = dispenser
  Clock = clock
  SIM_DURATION = 2
  MayExplode = TRUE
INVARIANT ReturnsToStart
