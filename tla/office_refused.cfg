SPECIFICATION Spec
CONSTANTS
  u1 = u1  w1 = w1  w2 = w2  s1 = s1  s2 = s2
  Users = {u1}
  Workers = {w1, w2}
  Dispenser = dispenser
  Clock = clock
  Services = {s1, s2}
  ServiceOf <- MCOneService
  SeatsOf <- MCOneSeat
  Duration <- MCDuration
  Requested <- MCList
  MINUTES_IN_DAY = 2
  N_REQUESTS = 2
  NOF_PAUSE = 1
  SIM_DURATION = 1
  None = None
CHECK_DEADLOCK FALSE
INVARIANT AppointmentsHeard
