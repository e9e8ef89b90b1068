\* Two accounts that administer each other, both configuration owners.
CONSTANTS
  u1 = u1
  u2 = u2
  r1 = r1
  r2 = r2
  Users <- TwoUsers
  Admins <- TwoUsers
  Owners <- TwoUsers
  Requests <- OneRequest
  MaxFailed = 2
  OtpLimit = 1
  MaxTokens = 3
  MaxCodes = 0
  MaxVersion = 1
SPECIFICATION Spec
SYMMETRY AccountSymmetry
INVARIANTS
  SomeOwnerActive
