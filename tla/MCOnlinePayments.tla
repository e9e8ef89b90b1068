-------------------------- MODULE MCOnlinePayments --------------------------
(* OnlinePayments with the elements of its runs *)
EXTENDS OnlinePayments

CONSTANTS p1, x1, k1, w1, c1
=============================================================================
