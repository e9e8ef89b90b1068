----------------------- MODULE MCNotificationDelivery -----------------------
(* NotificationDelivery with the sets of faults of its runs *)
EXTENDS NotificationDelivery, TLC

CONSTANTS w1, w2, o1, o2, k1, k2

DeliveryFaults == FaultKinds
QueueFaults == {"lostAck", "reject", "withdraw"}
NoFaults == {}

Symmetry == Permutations(Workers) \cup Permutations(Operators) \cup Permutations(Callbacks)
=============================================================================
