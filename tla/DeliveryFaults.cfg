\* Two workers and two operators under every fault, with cancellation and expiry of the notice.
SPECIFICATION Spec
CONSTANTS
  w1 = w1
  w2 = w2
  o1 = o1
  o2 = o2
  k1 = k1
  k2 = k2
  Workers = {w1, w2}
  Operators = {o1, o2}
  Callbacks = {}
  Tries = 2
  MaxAttempt = 1
  MaxMessages = 2
  MaxNights = 0
  Faults <- DeliveryFaults
SYMMETRY Symmetry
INVARIANTS NoUnexplainedDuplicate SentWasAccepted
PROPERTIES WithdrawnStaysWithdrawn
CHECK_DEADLOCK FALSE
