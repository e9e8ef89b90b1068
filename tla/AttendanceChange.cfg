\* A draft and a web draft: leave, corrections, overrides, reviews, the cutoff and requests that outlive their lease.
SPECIFICATION Spec
CONSTANTS
  d1 = d1
  d2 = d2
  s1 = s1
  s2 = s2
  p1 = p1
  p2 = p2
  Drafts = {d1}
  Direct = {s1}
  WebDrafts = {s1}
  Overriders = {}
  None = None
  Requests = {p1, p2}
  MaxLease = 3
  MaxConflicts = 2
  MaxCrashes = 1
  Faults <- SlowFaults
INVARIANTS AnsweredDraftsAreKept AcceptedIsOfficial
PROPERTIES OfficialIsImmutable DecidedReceiptIsFinal
SYMMETRY Symmetry
