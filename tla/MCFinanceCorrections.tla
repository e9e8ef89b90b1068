------------------------ MODULE MCFinanceCorrections ------------------------
(* FinanceCorrections with the elements and the symmetry of its run *)
EXTENDS FinanceCorrections, TLC

CONSTANTS p1, k1, r1, u1, u2, u3, u4, w1, w2

Symmetry == Permutations(Workers) \cup Permutations(Users)
=============================================================================
