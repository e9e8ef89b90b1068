\* One account, two requests in flight, sessions that rotate, codes resent and replaced.
CONSTANTS
  u1 = u1
  u2 = u2
  r1 = r1
  r2 = r2
  Users <- OneUser
  Admins <- OneUser
  Owners = {}
  Requests <- TwoRequests
  MaxFailed = 2
  OtpLimit = 1
  MaxTokens = 2
  MaxCodes = 2
  MaxVersion = 1
SPECIFICATION Spec
SYMMETRY RequestSymmetry
INVARIANTS
  TypeOK
  OneUnrevokedTokenPerFamily
  SessionsProvedInEpoch
  ClosedAccountHasNoSession
  UnusedCodesAreCurrent
  OneUnusedCodePerPurpose
PROPERTIES
  KeepsSessionContract
  EndedSessionStaysEnded
  LockoutUsesCurrentCredentials
