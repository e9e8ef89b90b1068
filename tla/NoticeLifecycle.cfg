\* One notice with every request, two requests and the cron at work, and a
\* second notice that is due.
SPECIFICATION FairSpec
CONSTANTS
  n1 = n1
  n2 = n2
  r1 = r1
  r2 = r2
  cron = cron
  Notices = {n1, n2}
  Waiting = {n2}
  Requests = {r1, r2}
  Crons = {cron}
  None = None
  MaxOps = 2
  MaxFaults = 1
INVARIANTS TypeOK PublicationsAreClaimed ClaimedIsAnnounced CancelledIsSilent HighImpactWasApproved
PROPERTY DueIsHandled
CHECK_DEADLOCK FALSE

