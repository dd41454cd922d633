SPECIFICATION Spec
CONSTANTS
  u1 = u1  u2 = u2  u3 = u3
  Users = {u1, u2, u3}
  Clock = clock
  Wishes <- MCWishes
  MINUTES_IN_DAY = 5
  WINDOW = 1
  SIM_DURATION = 1
SYMMETRY Symmetry
INVARIANT CalendarTypeOK
INVARIANT BookingsCounted
PROPERTY GivesTheBestTime
