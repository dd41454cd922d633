SPECIFICATION SeatsSpec
CONSTANTS
  w1 = w1  w2 = w2  w3 = w3  s1 = s1  s2 = s2
  Writers = {w1, w2, w3}
  Readers = {dispenser}
  Services = {s1, s2}
  ServiceOf <- MCTwoServices
  SeatsOf <- MCSeatEach
  NoWorker = NoWorker
  SIM_DURATION = 1
  MaxUses = 2
INVARIANT CopyNamesOneWorker
