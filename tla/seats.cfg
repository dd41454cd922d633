SPECIFICATION FairSeatsSpec
CONSTANTS
  w1 = w1  w2 = w2  w3 = w3  s1 = s1  s2 = s2
  Writers = {w1, w2}
  Readers = {dispenser}
  Services = {s1}
  ServiceOf <- MCOneService
  SeatsOf <- MCOneSeat
  NoWorker = NoWorker
  SIM_DURATION = 1
  MaxUses = 3
INVARIANT MutualExclusion
INVARIANT TokensCounted
PROPERTY TableIsStable
PROPERTY EveryLockGranted
