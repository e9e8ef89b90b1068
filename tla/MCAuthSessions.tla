--------------------------- MODULE MCAuthSessions ---------------------------
(* Small instances of AuthSessions for TLC. *)
EXTENDS AuthSessions, TLC

CONSTANTS u1, u2, r1, r2

OneUser == {u1}
TwoUsers == {u1, u2}
OneRequest == {r1}
TwoRequests == {r1, r2}

RequestSymmetry == Permutations(Requests)
AccountSymmetry == Permutations(Users) \cup Permutations(Requests)
=============================================================================
