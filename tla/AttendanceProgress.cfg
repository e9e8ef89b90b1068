\* Two offline drafts, a changing sheet, refusals and the cutoff: clients send again, the API works, a request dies.
SPECIFICATION FairSpec
CONSTANTS
  d1 = d1
  d2 = d2
  s1 = s1
  s2 = s2
  p1 = p1
  p2 = p2
  Drafts = {d1, d2}
  Direct = {}
  WebDrafts = {}
  Overriders = {}
  None = None
  Requests = {p1, p2}
  MaxLease = 3
  MaxConflicts = 4
  MaxCrashes = 1
  Faults <- ChangeFaults
INVARIANTS TypeOK RejectedIsNotOfficial SelfConflictOnlyAfterChange
PROPERTIES DraftsAreDecided
