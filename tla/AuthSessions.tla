---------------------------- MODULE AuthSessions ----------------------------
(***************************************************************************)
(* Accounts, refresh-token sessions and one-time codes of one school       *)
(* (AuthService, and the account governance operations of UsersService).   *)
(*                                                                         *)
(* Every state change of the service happens in withAuthUserTransaction or *)
(* withSchoolAuthorizationTransaction, which lock the tenant row and the   *)
(* user rows before reading them: one transaction is one action.  What is  *)
(* NOT atomic is a request that read the account before the lock (password *)
(* check, challenge check, choice of the code to send): such a request is  *)
(* held in req with the credentials it saw, and its transaction comes      *)
(* later, after any other actions.                                         *)
(***************************************************************************)
EXTENDS Naturals, Sequences

CONSTANTS Users,       \* accounts of the school
          Admins,      \* accounts granted users:reset_password and users:update_status
          Owners,      \* accounts with the School Configuration Owner role
          Requests,    \* slots for requests between their read and their transaction
          MaxFailed,   \* MAX_FAILED_LOGIN_ATTEMPTS
          OtpLimit,    \* otpIssueLimit: codes per purpose within the issue window
          MaxTokens,   \* bound: refresh tokens ever issued
          MaxCodes,    \* bound: one-time codes ever issued
          MaxVersion   \* bound: authVersion

ASSUME ConstantsAssumption ==
  /\ Admins \subseteq Users
  /\ Owners \subseteq Users
  /\ MaxFailed \in Nat \ {0}
  /\ OtpLimit \in Nat \ {0}

VARIABLES
  acct,         \* acct[u]: the User row
  tenantActive, \* Tenant.isActive
  token,        \* RefreshToken rows in order of creation; a row's id is its index
  code,         \* OtpCode rows in order of creation
  challenge,    \* challenge[u]: authVersions of the login challenge tokens issued to u
  req,          \* req[r]: the request in slot r
  epoch         \* history: epoch[u] counts the events meant to end all of u's sessions

vars == <<acct, tenantActive, token, code, challenge, req, epoch>>

Statuses == {"ACTIVE", "SUSPENDED"}
AuthMethods == {"PASSWORD", "OTP", "BOTH"}
Purposes == {"LOGIN", "RESET", "VERIFY"}

\* hash stands for passwordHash: the number of times a password was set (a
\* salted hash never repeats).  locked: lockedUntil lies in the future.
Account == [status: Statuses, ver: Nat, hash: Nat, method: AuthMethods,
            fails: 0..MaxFailed, locked: BOOLEAN, mustChange: BOOLEAN]

\* st: "live", "expired" (expiresAt passed, revokedAt null) or "revoked".
\* proof is a history field: the epoch in which the family's credentials were checked.
Token == [owner: Users, family: Nat \ {0}, st: {"live", "expired", "revoked"}, proof: Nat]

\* st: "unused", "expired" (unused, expiresAt passed) or "used".  recent:
\* inside the issue window.  ver is a history field: authVersion at issue.
Code == [owner: Users, purpose: Purposes, st: {"unused", "expired", "used"},
         recent: BOOLEAN, ver: Nat]

\* The columns of the User row a request compares again under the lock.
Credentials == [ver: Nat, hash: Nat, method: AuthMethods]

Idle == [step |-> "idle"]
Steps == {"fail", "open", "otp"}

\* step: recordFailedPasswordLogin, completeAuthenticatedSession or
\* issueOtpEmail is due.  code (0: none) is to be consumed by "open";
\* family (0: none) must be live for "otp".  epoch is a history field.
Request == [step: Steps, user: Users, cred: Credentials, purpose: Purposes,
            family: Nat, code: Nat, epoch: Nat]

TypeOK ==
  /\ acct \in [Users -> Account]
  /\ tenantActive \in BOOLEAN
  /\ token \in Seq(Token)
  /\ code \in Seq(Code)
  /\ challenge \in [Users -> SUBSET Nat]
  /\ req \in [Requests -> {Idle} \cup Request]
  /\ epoch \in [Users -> Nat]

-----------------------------------------------------------------------------
(* Reads of the rows *)

Cred(u) == [ver |-> acct[u].ver, hash |-> acct[u].hash, method |-> acct[u].method]

\* lockAuthTenant and assertUserIsActive
\* Seeded fault: the status is not re-checked
CanAuthenticateWithoutStatus(u) == tenantActive /\ ~acct[u].locked
CanAuthenticate(u) == tenantActive /\ acct[u].status = "ACTIVE" /\ ~acct[u].locked

Live(u, f) == {t \in DOMAIN token :
                 token[t].owner = u /\ token[t].family = f /\ token[t].st = "live"}

UnrevokedOf(u) == {t \in DOMAIN token : token[t].owner = u /\ token[t].st # "revoked"}

FamilyOf(u, f) == {t \in UnrevokedOf(u) : token[t].family = f}

UnusedOf(u) == {c \in DOMAIN code : code[c].owner = u /\ code[c].st # "used"}

UnusedFor(u, p) == {c \in UnusedOf(u) : code[c].purpose = p}

\* JwtAuthGuard followed by the re-check of the session under the lock
SignedIn(u, f) == CanAuthenticate(u) /\ Live(u, f) # {}

\* consumeOtpCode finds c: the newest unused row, not expired
Consumable(u, p, c) == /\ c \in UnusedFor(u, p)
                       /\ code[c].st = "unused"
                       /\ \A d \in UnusedFor(u, p) : d <= c

\* assertOtpIssueAllowed: OtpLimit recent codes refuse the next one
OtpIssueAllowed(u, p) ==
  LET recent == SelectSeq(code, LAMBDA c : c.owner = u /\ c.purpose = p /\ c.recent)
  IN  Len(recent) < OtpLimit

(* Writes of the rows *)

Revoked(S) == [t \in DOMAIN token |->
                 IF t \in S THEN [token[t] EXCEPT !.st = "revoked"] ELSE token[t]]

Used(S) == [c \in DOMAIN code |->
              IF c \in S THEN [code[c] EXCEPT !.st = "used"] ELSE code[c]]

Session(u, f, proof) == [owner |-> u, family |-> f, st |-> "live", proof |-> proof]

\* issueSession without a parent: the new row's id names its family
\* Seeded fault: familyId stays null, as in legacy rows
OpenFamilyUnnamed(u, proof) == Append(token, Session(u, 0, proof))
OpenFamily(u, proof) == Append(token, Session(u, Len(token) + 1, proof))

\* refresh of t: the row is claimed as rotated and gets a successor
\* Seeded fault: the predecessor is not claimed
RotatedUnclaimed(t) == Append(token, Session(token[t].owner, token[t].family, token[t].proof))
Rotated(t) == Append(Revoked({t}), Session(token[t].owner, token[t].family, token[t].proof))

\* invalidateActiveOtps
\* Seeded fault: rows past expiresAt are left unused
InvalidatedUnexpiredOtps(u, p) == Used({c \in UnusedFor(u, p) : code[c].st = "unused"})
InvalidatedActiveOtps(u, p) == Used(UnusedFor(u, p))

\* The snapshot a request read before the lock still is the row
\* Seeded fault: authVersion is not compared
CredentialsUnchangedButVersion(r) ==
  /\ req[r].cred.hash = acct[req[r].user].hash
  /\ req[r].cred.method = acct[req[r].user].method
CredentialsUnchanged(r) == req[r].cred = Cred(req[r].user)

\* A reply to the request in slot r; a rejected request leaves the rest alone
Answer(r) == req' = [req EXCEPT ![r] = Idle]
Reject(r) == Answer(r) /\ UNCHANGED <<acct, tenantActive, token, code, challenge, epoch>>

Begin(r, step, u, p, f, c) ==
  /\ req[r] = Idle
  /\ req' = [req EXCEPT ![r] = [step |-> step, user |-> u, cred |-> Cred(u),
                                purpose |-> p, family |-> f, code |-> c,
                                epoch |-> epoch[u]]]
  /\ UNCHANGED <<acct, tenantActive, token, code, challenge, epoch>>

-----------------------------------------------------------------------------
(* Requests: what is read before the lock *)

\* login: the password is compared with the hash just read
Login(r, u) ==
  /\ CanAuthenticate(u)
  /\ acct[u].method # "OTP"
  /\ \/ Begin(r, "fail", u, "LOGIN", 0, 0)
     \/ acct[u].method = "PASSWORD" /\ Begin(r, "open", u, "LOGIN", 0, 0)
     \/ acct[u].method = "BOTH" /\ Begin(r, "otp", u, "LOGIN", 0, 0)

RequestOtpLogin(r, u) ==
  /\ CanAuthenticate(u)
  /\ acct[u].method = "OTP"
  /\ Begin(r, "otp", u, "LOGIN", 0, 0)

VerifyOtpLogin(r, u, c) ==
  /\ acct[u].ver \in challenge[u]
  /\ CanAuthenticate(u)
  /\ Begin(r, "open", u, "LOGIN", 0, c)

RequestPasswordRecovery(r, u) ==
  /\ tenantActive /\ acct[u].status = "ACTIVE"
  /\ acct[u].method # "OTP"
  /\ Begin(r, "otp", u, "RESET", 0, 0)

RequestMfaSetup(r, u, f) ==
  /\ SignedIn(u, f) /\ ~acct[u].mustChange
  /\ Begin(r, "otp", u, "VERIFY", f, 0)

(* Their transactions *)

RecordFailedPasswordLogin(r) ==
  /\ req[r].step = "fail"
  /\ LET u == req[r].user
         fails == IF acct[u].fails = MaxFailed THEN MaxFailed ELSE acct[u].fails + 1
         locks == fails >= MaxFailed
     IN  IF CanAuthenticate(u) /\ CredentialsUnchanged(r)
         THEN /\ acct' = [acct EXCEPT ![u].fails = fails, ![u].locked = locks]
              /\ token' = IF locks THEN Revoked(UnrevokedOf(u)) ELSE token
              /\ Answer(r)
              /\ UNCHANGED <<tenantActive, code, challenge, epoch>>
         ELSE Reject(r)

CompleteAuthenticatedSession(r) ==
  /\ req[r].step = "open"
  /\ Len(token) < MaxTokens
  /\ LET u == req[r].user
         c == req[r].code
     IN  IF /\ CanAuthenticate(u)
            /\ CredentialsUnchanged(r)
            /\ c = 0 \/ Consumable(u, "LOGIN", c)
         THEN /\ code' = IF c = 0 THEN code ELSE Used({c})
              /\ acct' = [acct EXCEPT ![u].fails = 0, ![u].locked = FALSE]
              /\ token' = OpenFamily(u, req[r].epoch)
              /\ Answer(r)
              /\ UNCHANGED <<tenantActive, challenge, epoch>>
         ELSE Reject(r)

\* The e-mail leaves after the commit; a LOGIN code is answered with a
\* challenge token that carries the authVersion of the request's snapshot
IssueOtpEmail(r) ==
  /\ req[r].step = "otp"
  /\ Len(code) < MaxCodes
  /\ LET u == req[r].user
         p == req[r].purpose
         f == req[r].family
     IN  IF /\ CanAuthenticate(u)
            /\ CredentialsUnchanged(r)
            /\ p = "RESET" => acct[u].method # "OTP"
            /\ f # 0 => Live(u, f) # {}
            /\ OtpIssueAllowed(u, p)
         THEN /\ code' = Append(InvalidatedActiveOtps(u, p),
                           [owner |-> u, purpose |-> p, st |-> "unused",
                            recent |-> TRUE, ver |-> acct[u].ver])
              /\ challenge' = IF p = "LOGIN"
                              THEN [challenge EXCEPT ![u] = @ \cup {req[r].cred.ver}]
                              ELSE challenge
              /\ Answer(r)
              /\ UNCHANGED <<acct, tenantActive, token, epoch>>
         ELSE Reject(r)

-----------------------------------------------------------------------------
(* Requests whose reads are all repeated under the lock: one action each *)

\* Every unused code of u is spent, every session of u ended
\* Seeded fault: outstanding codes are forgotten
EndAllSessions(u) == token' = Revoked(UnrevokedOf(u)) /\ UNCHANGED code
\* Seeded fault: the token in use is not revoked
EndAllButLive(u) ==
  /\ token' = Revoked({t \in UnrevokedOf(u) : token[t].st # "live"})
  /\ code' = Used(UnusedOf(u))
EndAllAccess(u) ==
  /\ token' = Revoked(UnrevokedOf(u))
  /\ code' = Used(UnusedOf(u))

CloseEpoch(u) == epoch' = [epoch EXCEPT ![u] = @ + 1]

ConfirmPasswordRecovery(u, c) ==
  /\ acct[u].ver < MaxVersion
  /\ CanAuthenticate(u)
  /\ acct[u].method # "OTP"
  /\ Consumable(u, "RESET", c)
  /\ acct' = [acct EXCEPT ![u].hash = @ + 1, ![u].ver = @ + 1, ![u].mustChange = FALSE]
  /\ EndAllAccess(u) /\ CloseEpoch(u)
  /\ UNCHANGED <<tenantActive, challenge, req>>

ConfirmMfaSetup(u, f, c, m) ==
  /\ acct[u].ver < MaxVersion
  /\ SignedIn(u, f) /\ ~acct[u].mustChange
  /\ Consumable(u, "VERIFY", c)
  /\ acct' = [acct EXCEPT ![u].method = m, ![u].ver = @ + 1]
  /\ EndAllAccess(u) /\ CloseEpoch(u)
  /\ UNCHANGED <<tenantActive, challenge, req>>

ChangePassword(u, f, logoutOtherDevices) ==
  /\ acct[u].ver < MaxVersion
  /\ SignedIn(u, f)
  /\ acct' = [acct EXCEPT ![u].hash = @ + 1, ![u].ver = @ + 1, ![u].mustChange = FALSE,
                          ![u].fails = 0, ![u].locked = FALSE]
  /\ code' = Used(UnusedOf(u))
  /\ \E current \in Live(u, f) :
       token' = IF logoutOtherDevices THEN Revoked(UnrevokedOf(u) \ {current}) ELSE token
  /\ UNCHANGED <<tenantActive, challenge, req, epoch>>

\* The claim of refresh: not revoked and not past expiresAt
\* Seeded fault: expiresAt is not compared
MayRotateExpired(t) == token[t].st # "revoked"
MayRotate(t) == token[t].st = "live"

\* refresh: rotation of a live token, or the reuse of a revoked one, which
\* ends its family.  An expired or unknown token changes nothing.
Refresh(t) ==
  LET u == token[t].owner
      f == token[t].family
  IN  /\ CanAuthenticate(u)
      /\ \/ /\ token[t].st = "revoked"
            /\ token' = Revoked(FamilyOf(u, f))
         \/ /\ MayRotate(t)
            /\ Len(token) < MaxTokens
            /\ token' = Rotated(t)
      /\ UNCHANGED <<acct, tenantActive, code, challenge, req, epoch>>

\* logout with any row of the family; allowed to inactive and locked accounts
Logout(t) ==
  /\ token' = Revoked(FamilyOf(token[t].owner, token[t].family))
  /\ UNCHANGED <<acct, tenantActive, code, challenge, req, epoch>>

\* revokeSession: t is the row listed on the device, maybe rotated since
RevokeSession(u, f, t) ==
  /\ SignedIn(u, f) /\ ~acct[u].mustChange
  /\ token[t].owner = u
  /\ FamilyOf(u, token[t].family) # {}
  /\ token' = Revoked(FamilyOf(u, token[t].family))
  /\ UNCHANGED <<acct, tenantActive, code, challenge, req, epoch>>

RevokeOtherSessions(u, f) ==
  /\ SignedIn(u, f) /\ ~acct[u].mustChange
  /\ \E current \in Live(u, f) : token' = Revoked(UnrevokedOf(u) \ {current})
  /\ UNCHANGED <<acct, tenantActive, code, challenge, req, epoch>>

-----------------------------------------------------------------------------
(* Account governance (UsersService) *)

\* withSchoolAuthorizationTransaction: the administrator is re-checked under
\* the locks of both accounts
CanGovern(a, f) == a \in Admins /\ SignedIn(a, f) /\ ~acct[a].mustChange

ResetPassword(a, f, u, requireChange) ==
  /\ acct[u].ver < MaxVersion
  /\ CanGovern(a, f)
  /\ acct' = [acct EXCEPT ![u].hash = @ + 1, ![u].ver = @ + 1, ![u].fails = 0,
                          ![u].locked = FALSE, ![u].mustChange = requireChange]
  /\ EndAllAccess(u) /\ CloseEpoch(u)
  /\ UNCHANGED <<tenantActive, challenge, req>>

ForceLogout(a, f, u) ==
  /\ acct[u].ver < MaxVersion
  /\ CanGovern(a, f)
  /\ acct' = [acct EXCEPT ![u].ver = @ + 1]
  /\ EndAllAccess(u) /\ CloseEpoch(u)
  /\ UNCHANGED <<tenantActive, challenge, req>>

\* The last active School Configuration Owner cannot be deactivated
\* Seeded fault: the account itself is counted
AnyActiveOwner(u) == \E o \in Owners : acct[o].status = "ACTIVE"
OtherActiveOwner(u) == \E o \in Owners \ {u} : acct[o].status = "ACTIVE"

UpdateStatus(a, f, u, s) ==
  /\ acct[u].ver < MaxVersion
  /\ CanGovern(a, f)
  /\ s # "ACTIVE" /\ acct[u].status = "ACTIVE" /\ u \in Owners => OtherActiveOwner(u)
  /\ LET ver == IF s # acct[u].status THEN acct[u].ver + 1 ELSE acct[u].ver
     IN  /\ acct' = [acct EXCEPT ![u].status = s, ![u].ver = ver]
         /\ IF s # "ACTIVE"
            THEN EndAllAccess(u)
            ELSE UNCHANGED <<token, code>>
         /\ IF s # "ACTIVE" /\ s # acct[u].status
            THEN CloseEpoch(u)
            ELSE UNCHANGED epoch
  /\ UNCHANGED <<tenantActive, challenge, req>>

\* Platform: suspendTenantForBilling, reactivateTenantAfterPayment
SetTenantActive(b) ==
  /\ tenantActive # b
  /\ tenantActive' = b
  /\ UNCHANGED <<acct, token, code, challenge, req, epoch>>

-----------------------------------------------------------------------------
(* Time *)

LockExpires(u) ==
  /\ acct[u].locked
  /\ acct' = [acct EXCEPT ![u].locked = FALSE]
  /\ UNCHANGED <<tenantActive, token, code, challenge, req, epoch>>

TokenExpires(t) ==
  /\ token[t].st = "live"
  /\ token' = [token EXCEPT ![t].st = "expired"]
  /\ UNCHANGED <<acct, tenantActive, code, challenge, req, epoch>>

CodeExpires(c) ==
  /\ code[c].st = "unused"
  /\ code' = [code EXCEPT ![c].st = "expired"]
  /\ UNCHANGED <<acct, tenantActive, token, challenge, req, epoch>>

CodeLeavesWindow(c) ==
  /\ code[c].recent
  /\ code' = [code EXCEPT ![c].recent = FALSE]
  /\ UNCHANGED <<acct, tenantActive, token, challenge, req, epoch>>

-----------------------------------------------------------------------------
Init ==
  /\ acct \in [Users -> {[status |-> "ACTIVE", ver |-> 0, hash |-> 0, method |-> m,
                          fails |-> 0, locked |-> FALSE, mustChange |-> FALSE] :
                           m \in AuthMethods}]
  /\ tenantActive = TRUE
  /\ token = <<>>
  /\ code = <<>>
  /\ challenge = [u \in Users |-> {}]
  /\ req = [r \in Requests |-> Idle]
  /\ epoch = [u \in Users |-> 0]

RequestStep(r) ==
  \/ \E u \in Users :
       \/ Login(r, u)
       \/ RequestOtpLogin(r, u)
       \/ \E c \in DOMAIN code : VerifyOtpLogin(r, u, c)
       \/ RequestPasswordRecovery(r, u)
       \/ \E f \in DOMAIN token : RequestMfaSetup(r, u, f)
  \/ RecordFailedPasswordLogin(r)
  \/ CompleteAuthenticatedSession(r)
  \/ IssueOtpEmail(r)

AccountStep(u) ==
  \/ \E c \in DOMAIN code : ConfirmPasswordRecovery(u, c)
  \/ \E f \in DOMAIN token :
       \/ \E c \in DOMAIN code, m \in AuthMethods : ConfirmMfaSetup(u, f, c, m)
       \/ \E b \in BOOLEAN : ChangePassword(u, f, b)
       \/ \E t \in DOMAIN token : RevokeSession(u, f, t)
       \/ RevokeOtherSessions(u, f)
  \/ LockExpires(u)

GovernanceStep(a, f, u) ==
  \/ \E b \in BOOLEAN : ResetPassword(a, f, u, b)
  \/ ForceLogout(a, f, u)
  \/ \E s \in Statuses : UpdateStatus(a, f, u, s)

TokenStep(t) == Refresh(t) \/ Logout(t) \/ TokenExpires(t)

CodeStep(c) == CodeExpires(c) \/ CodeLeavesWindow(c)

Next ==
  \/ \E r \in Requests : RequestStep(r)
  \/ \E u \in Users : AccountStep(u)
  \/ \E a, u \in Users, f \in DOMAIN token : GovernanceStep(a, f, u)
  \/ \E t \in DOMAIN token : TokenStep(t)
  \/ \E c \in DOMAIN code : CodeStep(c)
  \/ \E b \in BOOLEAN : SetTenantActive(b)

Spec == Init /\ [][Next]_vars

-----------------------------------------------------------------------------
(* Properties *)

\* Rotation never leaves two usable tokens in one session: however refresh,
\* replay, revocation and expiry interleave, a family has at most one row that
\* is not revoked (the compare-and-set of refresh under the account lock).
OneUnrevokedTokenPerFamily ==
  \A s, t \in DOMAIN token :
    /\ token[s].family = token[t].family
    /\ token[s].st # "revoked" /\ token[t].st # "revoked"
    => s = t

\* No session survives, or is born from, credentials checked before the last
\* event meant to end all sessions (recovery, reset, factor change, forced
\* logout, suspension): a sign-in whose password or challenge was checked before
\* such an event never commits after it, although only the authVersion tells.
SessionsProvedInEpoch ==
  \A t \in DOMAIN token :
    token[t].st # "revoked" => token[t].proof = epoch[token[t].owner]

\* A one-time code never outlives the credentials it was issued under, so that
\* no recovery, login or factor code of before a change can be used after it.
UnusedCodesAreCurrent ==
  \A c \in DOMAIN code :
    code[c].st # "used" => code[c].ver = acct[code[c].owner].ver

\* Resending a code replaces the previous one even when requests race: an
\* account has at most one unused code per purpose.
OneUnusedCodePerPurpose ==
  \A c, d \in DOMAIN code :
    /\ code[c].owner = code[d].owner /\ code[c].purpose = code[d].purpose
    /\ code[c].st # "used" /\ code[d].st # "used"
    => c = d

\* A locked or suspended account holds no session: no sign-in or refresh that
\* raced the lock commits a row after it, and reactivation revives nothing.
ClosedAccountHasNoSession ==
  \A t \in DOMAIN token :
    token[t].st # "revoked" =>
      /\ ~acct[token[t].owner].locked
      /\ acct[token[t].owner].status = "ACTIVE"

\* However administrators deactivate each other, an active School
\* Configuration Owner remains.
SomeOwnerActive == Owners # {} => \E o \in Owners : acct[o].status = "ACTIVE"

\* A session that ended (every row of its family revoked or expired) never
\* becomes usable again, by any refresh, replay or concurrent sign-in.
EndedSessionStaysEnded ==
  [][\A t \in DOMAIN token :
       LET u == token[t].owner
           f == token[t].family
       IN  Live(u, f) = {} => Live(u, f)' = {}]_vars

\* An attempt against an old password cannot lock the account once recovery or
\* a change went through: a lock is set only by a request that saw the
\* credentials in force.
LockoutUsesCurrentCredentials ==
  [][\A u \in Users :
       ~acct[u].locked /\ acct'[u].locked =>
         \E r \in Requests : req[r] # Idle /\ req[r].user = u /\ req[r].cred = Cred(u)
                             /\ req[r].step = "fail" /\ req'[r] = Idle]_vars

-----------------------------------------------------------------------------
(* Refinement.  A request that passed the checks of its reads is a proof as *)
(* long as the row shows the credentials it read; a session is a family and *)
(* is open while one of its tokens is live.                                 *)

Barred == {u \in Users : acct[u].locked \/ acct[u].status # "ACTIVE"}

Proofs == {p \in Users \X Requests :
             req[p[2]].step = "open" /\ req[p[2]].user = p[1] /\ CredentialsUnchanged(p[2])}

Sessions == {<<token[t].owner, token[t].family>> : t \in DOMAIN token}
OpenSessions == {<<token[t].owner, token[t].family>> : t \in {x \in DOMAIN token : token[x].st = "live"}}

Promise == INSTANCE SessionContract
  WITH barred <- Barred, shut <- ~tenantActive, proofs <- Proofs, open <- OpenSessions,
       ended <- Sessions \ OpenSessions, closings <- epoch

\* The service keeps SessionContract: a session opens once, from a proof that
\* neither a change of credentials nor a closing has outdated, for an account
\* that is not barred; rotation, replay and late requests are nothing more.
KeepsSessionContract == Promise!Contract
=============================================================================
