SPECIFICATION FairSeatsSpec
CONSTANTS
  w1 = w1  w2 = w2  w3 = w3  s1 = s1  s2 = s2
  Writers = {w1, w2, w3}
  Readers = {}
  Services = {s1}
  ServiceOf <- MCOneService
  SeatsOf <- MCTwoSeats
  NoWorker = NoWorker
  SIM_DURATION = 2
  MaxUses = 4
INVARIANT SeatsTypeOK
INVARIANT SeatForEveryUnit
INVARIANT SeatNamesItsWorker
INVARIANT NoSeatLeftIdle
PROPERTY ResetChangesNothing
PROPERTY ImplementsSeatPool
PROPERTY DaysPass
