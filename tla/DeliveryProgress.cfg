\* Fair dispatcher, workers and clock, with a retry, a provider report, faults and a quiet night.
SPECIFICATION FairSpec
CONSTANTS
  w1 = w1
  w2 = w2
  o1 = o1
  o2 = o2
  k1 = k1
  k2 = k2
  Workers = {w1, w2}
  Operators = {o1}
  Callbacks = {k1}
  Tries = 2
  MaxAttempt = 1
  MaxMessages = 2
  MaxNights = 1
  Faults <- QueueFaults
INVARIANT TypeOK
PROPERTIES AttemptsResolve
CHECK_DEADLOCK FALSE
