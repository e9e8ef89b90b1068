------------------------- MODULE MCNoticeLifecycle -------------------------
(* NoticeLifecycle with the elements of its runs *)
EXTENDS NoticeLifecycle, TLC

CONSTANTS n1, n2, r1, r2, cron

Symmetry == Permutations(Requests) \cup Permutations(Notices)
=============================================================================
