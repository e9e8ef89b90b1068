\* The cutoff before its hour: two requests that read the sheet unmarked.
SPECIFICATION Spec
CONSTANTS
  d1 = d1
  d2 = d2
  s1 = s1
  s2 = s2
  p1 = p1
  p2 = p2
  Drafts = {d1}
  Direct = {s1}
  WebDrafts = {}
  Overriders = {}
  None = None
  Requests = {p1, p2}
  MaxLease = 2
  MaxConflicts = 2
  MaxCrashes = 1
  Faults <- EarlyFaults
PROPERTIES OfficialIsImmutable
CHECK_DEADLOCK FALSE
