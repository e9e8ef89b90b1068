--------------------------- MODULE MCAttendanceSync ---------------------------
(* AttendanceSync with the sets of faults of its runs *)
EXTENDS AttendanceSync, TLC

CONSTANTS d1, d2, s1, s2, p1, p2

ChangeFaults == {"change", "refuse", "cutoff"}
SlowFaults == ChangeFaults \cup {"slow", "review"}
EarlyFaults == {"earlyCutoff"}

Symmetry == Permutations(Requests)
=============================================================================
