SPECIFICATION Spec
\* An explosion can strand the manager (see early_exit.cfg), so the system may stop.
CHECK_DEADLOCK FALSE
CONSTANTS
  w1 = w1  w2 = w2  u1 = u1  n1 = n1  n2 = n2
  Workers = {w1}
  Users = {u1}
  NewUsers <- MCOneBatch
  Dispenser = dispenser
  Clock = clock
  SIM_DURATION = 2
  MayExplode = TRUE
INVARIANT TypeOK
INVARIANT NobodyFatal
INVARIANT StartsTogether
INVARIANT ResetsAreQuiet
INVARIANT StatsOfToday
INVARIANT ClockKnowsEverybody
INVARIANT NoWorkAfterExplosion
PROPERTY ImplementsWorkDays
