\* Two provider reports: a delivered message reported otherwise afterwards.
SPECIFICATION Spec
CONSTANTS
  w1 = w1
  w2 = w2
  o1 = o1
  o2 = o2
  k1 = k1
  k2 = k2
  Workers = {w1}
  Operators = {}
  Callbacks = {k1, k2}
  Tries = 2
  MaxAttempt = 0
  MaxMessages = 1
  MaxNights = 0
  Faults <- NoFaults
PROPERTIES DeliveredIsTerminal
CHECK_DEADLOCK FALSE
